------------------------------- MODULE ZramSetup -------------------------------
(***************************************************************************)
(* What the initramfs does with zram devices once it has claimed them:     *)
(* swap space (autoswap.c, swap.c), formatted disks (disk.c, mkfs.c), and  *)
(* tmpfs replacements (tmpfs.c, mount.c).                                  *)
(*                                                                         *)
(* Extends ZramAlloc: a request first runs its claim, and then goes        *)
(* through the stages of its goal.  External commands (mkswap, mkfs),      *)
(* swapon, swapoff and mount succeed or fail at the environment's whim.    *)
(***************************************************************************)
EXTENDS ZramAlloc

CONSTANT SwapoffMayFail   \* the kernel may refuse a swapoff (ENOMEM)

ASSUME SetupAssumption ==
  /\ SwapoffMayFail \in BOOLEAN
  \* a device that is still swap space cannot be reset
  /\ SwapoffMayFail => "reset" \in MayFail

VARIABLES
  goal,     \* "swap": zram_autoswap; "disk": zram_disk_simple without a
            \* mountpoint; "tmpfs": zram_tmpfs; "none" before the claim is over
  stage,    \* what the request does
  k,        \* the loop index of the stage
  upto,     \* end of the release loop
  swaptype, \* swaptype[r]: devices whose record has the type ZRAM_TYPE_SWAP
  inuse,    \* inuse[r]: slots with ZRAM_STATUS_INUSE set
  use,      \* kernel: what device d is used for: "idle", "swap", "mounted"
  mp,       \* what zram_tmpfs has put on its mountpoint
  ret       \* the value returned to the caller, once the stage is "done"

setupVars == <<goal, stage, k, upto, swaptype, inuse, use, mp, ret>>
allVars == <<vars, setupVars>>

Goal == {"swap", "disk", "tmpfs"}

Stage == {"claim", "mkswap", "swapon", "swapoff", "release", "mkfs", "unmkfs",
          "mount", "unmount", "perm", "tmpfs", "done"}

Enter(r, s) ==
  /\ stage' = [stage EXCEPT ![r] = s]
  /\ k' = [k EXCEPT ![r] = 0]

Return(r, x) ==
  /\ Enter(r, "done")
  /\ ret' = [ret EXCEPT ![r] = x]

SetupInit ==
  /\ Init
  /\ goal = [r \in Req |-> "none"]
  /\ stage = [r \in Req |-> "claim"]
  /\ k = [r \in Req |-> 0]
  /\ upto = [r \in Req |-> 0]
  /\ swaptype = [r \in Req |-> {}]
  /\ inuse = [r \in Req |-> {}]
  /\ use = [d \in Device |-> "idle"]
  /\ mp = [r \in Req |-> "nothing"]
  /\ ret = [r \in Req |-> 0]

-------------------------------------------------------------------------------
\* The claim itself, of one device or of several of one size.
Claim(r) ==
  /\ stage[r] = "claim"
  /\ ClaimStep(r)
  /\ kind'[r] # "varsize"
  /\ UNCHANGED setupVars

\* The size or the mount options cannot be parsed, or the size is zero:
\* zram_tmpfs_config_parse, zram_disk_config_set_size and zram_do_autoswap
\* refuse before anything is claimed.
RefuseConfig(r) ==
  /\ stage[r] = "claim"
  /\ pc[r] = "start"
  /\ \E g \in Goal : goal' = [goal EXCEPT ![r] = g]
  /\ Return(r, -1)
  /\ UNCHANGED <<vars, upto, swaptype, inuse, use, mp>>

\* The claim has returned.  zram_autoswap goes on to mkswap or gives up (-1); a
\* disk is formatted, or there is no device (1), on which zram_tmpfs falls back.
AfterClaim(r) ==
  /\ stage[r] = "claim"
  /\ pc[r] \in {"claimed", "failed"}
  /\ \E g \in Goal :
       /\ kind[r] = "several" <=> g = "swap"
       /\ goal' = [goal EXCEPT ![r] = g]
       /\ IF pc[r] = "claimed"
          THEN Enter(r, IF g = "swap" THEN "mkswap" ELSE "mkfs") /\ UNCHANGED ret
          ELSE CASE g = "swap"  -> Return(r, -1)
                 [] g = "disk"  -> Return(r, 1)
                 [] g = "tmpfs" -> Enter(r, "tmpfs") /\ UNCHANGED ret
  /\ UNCHANGED <<vars, upto, swaptype, inuse, use, mp>>

-------------------------------------------------------------------------------
\* _zram_do_autoswap_mkswap: one mkswap.  When the k-th fails, the k devices
\* before it are released by force; itself and those after it are not.
Mkswap(r) ==
  /\ stage[r] = "mkswap"
  /\ \/ /\ swaptype' = [swaptype EXCEPT ![r] = @ \cup {arr[r][k[r]]}]
        /\ IF k[r] + 1 < want[r]
           THEN k' = [k EXCEPT ![r] = @ + 1] /\ UNCHANGED stage
           ELSE Enter(r, "swapon")
        /\ UNCHANGED upto
     \/ /\ Enter(r, "release")
        /\ upto' = [upto EXCEPT ![r] = k[r]]
        /\ UNCHANGED swaptype
  /\ UNCHANGED <<vars, goal, inuse, use, mp, ret>>

\* Fault: the devices are released without a swapoff.
SwaponNoSwapoff(r) ==
  /\ stage[r] = "swapon"
  /\ \/ /\ use' = [use EXCEPT ![arr[r][k[r]]] = "swap"]
        /\ inuse' = [inuse EXCEPT ![r] = @ \cup {k[r]}]
        /\ IF k[r] + 1 < want[r]
           THEN k' = [k EXCEPT ![r] = @ + 1] /\ UNCHANGED <<stage, ret>>
           ELSE Return(r, 0)
        /\ UNCHANGED upto
     \/ /\ Enter(r, "release")
        /\ upto' = [upto EXCEPT ![r] = want[r]]
        /\ UNCHANGED <<inuse, use, ret>>
  /\ UNCHANGED <<vars, goal, swaptype, mp>>

\* Fault: the loop ends one device early.
SwaponShort(r) ==
  /\ stage[r] = "swapon"
  /\ \/ /\ use' = [use EXCEPT ![arr[r][k[r]]] = "swap"]
        /\ inuse' = [inuse EXCEPT ![r] = @ \cup {k[r]}]
        /\ IF k[r] + 2 < want[r]
           THEN k' = [k EXCEPT ![r] = @ + 1] /\ UNCHANGED <<stage, ret>>
           ELSE Return(r, 0)
        /\ UNCHANGED upto
     \/ /\ Enter(r, "swapoff")
        /\ upto' = [upto EXCEPT ![r] = k[r]]
        /\ UNCHANGED <<inuse, use, ret>>
  /\ UNCHANGED <<vars, goal, swaptype, mp>>

\* _zram_do_autoswap_swapon: one swapon.  When the k-th fails, swapoff for the
\* ones before it, then all are released.  zram_swapon also takes EBUSY for
\* success; the kernel does not say so here, as nobody else swaps on a device
\* that this request has claimed and has just run mkswap on.
Swapon(r) ==
  /\ stage[r] = "swapon"
  /\ \/ /\ use' = [use EXCEPT ![arr[r][k[r]]] = "swap"]
        /\ inuse' = [inuse EXCEPT ![r] = @ \cup {k[r]}]
        /\ IF k[r] + 1 < want[r]
           THEN k' = [k EXCEPT ![r] = @ + 1] /\ UNCHANGED <<stage, ret>>
           ELSE Return(r, 0)
        /\ UNCHANGED upto
     \/ /\ Enter(r, "swapoff")
        /\ upto' = [upto EXCEPT ![r] = k[r]]
        /\ UNCHANGED <<inuse, use, ret>>
  /\ UNCHANGED <<vars, goal, swaptype, mp>>

\* Fault: only the devices that were swap space already are released, not the
\* one whose swapon failed and those after it.
SwapoffReleasesSome(r) ==
  /\ stage[r] = "swapoff"
  /\ \/ /\ k[r] < upto[r]
        /\ \/ use' = [use EXCEPT ![arr[r][k[r]]] = "idle"]
           \/ SwapoffMayFail /\ UNCHANGED use
        /\ inuse' = [inuse EXCEPT ![r] = @ \ {k[r]}]
        /\ k' = [k EXCEPT ![r] = @ + 1]
        /\ UNCHANGED <<stage, upto>>
     \/ /\ k[r] >= upto[r]
        /\ Enter(r, "release")
        /\ UNCHANGED <<upto, use, inuse>>
  /\ UNCHANGED <<vars, goal, swaptype, mp, ret>>

\* One zram_swapoff of the failure path; whatever the kernel says, the INUSE bit
\* is cleared (errno = EINVAL assigns).  Then all slots are to be released.
Swapoff(r) ==
  /\ stage[r] = "swapoff"
  /\ \/ /\ k[r] < upto[r]
        /\ \/ use' = [use EXCEPT ![arr[r][k[r]]] = "idle"]
           \/ SwapoffMayFail /\ UNCHANGED use
        /\ inuse' = [inuse EXCEPT ![r] = @ \ {k[r]}]
        /\ k' = [k EXCEPT ![r] = @ + 1]
        /\ UNCHANGED <<stage, upto>>
     \/ /\ k[r] >= upto[r]
        /\ Enter(r, "release")
        /\ upto' = [upto EXCEPT ![r] = want[r]]
        /\ UNCHANGED <<use, inuse>>
  /\ UNCHANGED <<vars, goal, swaptype, mp, ret>>

\* Whether the kernel resets the device in slot i: not while it is in use.
ReleaseIdle(r, i) ==
  /\ use[arr[r][i]] # "idle" => UNCHANGED owner
  /\ Release(r, i)

\* Fault: a release that fails is tried again.
ReleaseSwapsRetry(r) ==
  /\ stage[r] = "release"
  /\ \/ /\ k[r] < upto[r]
        /\ ReleaseIdle(r, k[r])
        /\ k' = [k EXCEPT ![r] = IF arr' = arr THEN @ ELSE @ + 1]
        /\ UNCHANGED <<stage, ret>>
     \/ /\ k[r] >= upto[r]
        /\ Return(r, -1)
        /\ UNCHANGED vars
  /\ UNCHANGED <<goal, upto, swaptype, inuse, use, mp>>

\* zram_release_devices: one slot of the failure path.  Without force a slot
\* whose INUSE bit is set is left alone; with force (mkswap) no bit is set yet.
ReleaseSwaps(r) ==
  /\ stage[r] = "release"
  /\ \/ /\ k[r] < upto[r]
        /\ IF k[r] \in inuse[r] THEN UNCHANGED vars ELSE ReleaseIdle(r, k[r])
        /\ k' = [k EXCEPT ![r] = @ + 1]
        /\ UNCHANGED <<stage, ret>>
     \/ /\ k[r] >= upto[r]
        /\ Return(r, -1)
        /\ UNCHANGED vars
  /\ UNCHANGED <<goal, upto, swaptype, inuse, use, mp>>

-------------------------------------------------------------------------------
\* zram_mkfs with the best file system that there is a mkfs program for.
Mkfs(r) ==
  /\ stage[r] = "mkfs"
  /\ \/ IF goal[r] = "disk" THEN Return(r, 0) ELSE Enter(r, "mount") /\ UNCHANGED ret
     \/ Enter(r, "unmkfs") /\ UNCHANGED ret
  /\ UNCHANGED <<vars, goal, upto, swaptype, inuse, use, mp>>

\* mkfs failed: the device is released by force and zram_disk_do_setup returns 2,
\* on which zram_tmpfs falls back.
ReleaseUnformatted(r) ==
  /\ stage[r] = "unmkfs"
  /\ ReleaseIdle(r, 0)
  /\ IF goal[r] = "disk" THEN Return(r, 2) ELSE Enter(r, "tmpfs") /\ UNCHANGED ret
  /\ UNCHANGED <<goal, upto, swaptype, inuse, use, mp>>

\* zram_mount.
Mount(r) ==
  /\ stage[r] = "mount"
  /\ \/ /\ use' = [use EXCEPT ![arr[r][0]] = "mounted"]
        /\ mp' = [mp EXCEPT ![r] = "zram"]
        /\ inuse' = [inuse EXCEPT ![r] = @ \cup {0}]
        /\ Enter(r, "perm")
     \/ Enter(r, "unmount") /\ UNCHANGED <<use, mp, inuse>>
  /\ UNCHANGED <<vars, goal, upto, swaptype, ret>>

\* The value zram_tmpfs returns once its options have been parsed.
TmpfsReturns == 0

\* Fault: the device stays claimed when it cannot be mounted.
KeepUnmounted(r) ==
  /\ stage[r] = "unmount"
  /\ Return(r, TmpfsReturns)
  /\ UNCHANGED <<vars, goal, upto, swaptype, inuse, use, mp>>

\* The mount failed: the device is released by force.  The error is negative,
\* so there is no fallback.
ReleaseUnmounted(r) ==
  /\ stage[r] = "unmount"
  /\ ReleaseIdle(r, 0)
  /\ Return(r, TmpfsReturns)
  /\ UNCHANGED <<goal, upto, swaptype, inuse, use, mp>>

\* chmod and chown of the mountpoint; a failure is an error of
\* zram_do_zram_tmpfs, but neither undone nor passed on.
SetPermissions(r) ==
  /\ stage[r] = "perm"
  /\ Return(r, TmpfsReturns)
  /\ UNCHANGED <<vars, goal, upto, swaptype, inuse, use, mp>>

\* zram_do_normal_tmpfs: the fallback.
NormalTmpfs(r) ==
  /\ stage[r] = "tmpfs"
  /\ \/ mp' = [mp EXCEPT ![r] = "tmpfs"]
     \/ UNCHANGED mp
  /\ Return(r, TmpfsReturns)
  /\ UNCHANGED <<vars, goal, upto, swaptype, inuse, use>>

SetupStep(r) ==
  \/ Claim(r) \/ RefuseConfig(r) \/ AfterClaim(r)
  \/ Mkswap(r) \/ Swapon(r) \/ Swapoff(r) \/ ReleaseSwaps(r)
  \/ Mkfs(r) \/ ReleaseUnformatted(r)
  \/ Mount(r) \/ ReleaseUnmounted(r) \/ SetPermissions(r) \/ NormalTmpfs(r)

SetupNext == \E r \in Req : SetupStep(r)

SetupSpec == SetupInit /\ [][SetupNext]_allVars

\* No step waits for another process, and external commands end.
SetupFairSpec == SetupSpec /\ \A r \in Req : WF_allVars(SetupStep(r))

-------------------------------------------------------------------------------
\* Every control state and record stays in its range.
SetupTypeOK ==
  /\ goal \in [Req -> Goal \cup {"none"}]
  /\ stage \in [Req -> Stage]
  /\ k \in [Req -> 0..MaxWant]
  /\ upto \in [Req -> 0..MaxWant]
  /\ swaptype \in [Req -> SUBSET Device]
  /\ inuse \in [Req -> SUBSET Slot]
  /\ use \in [Device -> {"idle", "swap", "mounted"}]
  /\ mp \in [Req -> {"nothing", "zram", "tmpfs"}]
  /\ ret \in [Req -> {-1, 0, 1, 2}]

\* The failure path of _zram_do_autoswap_swapon is in the right order: as long
\* as swapoff works, a device handed to zram_release_devices is not active swap
\* any more and is not skipped, so the kernel has no reason to refuse its reset.
ReleasesOnlyIdle ==
  ~ SwapoffMayFail =>
    \A r \in Req :
      stage[r] = "release" /\ k[r] < upto[r] =>
        /\ arr[r][k[r]] # NoDev => use[arr[r][k[r]]] = "idle"
        /\ k[r] \notin inuse[r]

\* zram_autoswap is all or nothing as seen by the kernel: on success exactly the
\* requested number of its own devices are swap space, on failure none is.
SwapIsAllOrNothing ==
  \A r \in Req : stage[r] = "done" /\ goal[r] = "swap" =>
    LET active == {d \in Device : owner[d] = r /\ use[d] = "swap"}
    IN  /\ ret[r] = 0 => Cardinality(active) = want[r]
        /\ ret[r] # 0 /\ ~ SwapoffMayFail => active = {}

\* A failed zram_autoswap keeps no device that it has made swap space of,
\* whichever loop failed at whichever device, unless the kernel refuses the
\* reset.  (The device whose mkswap failed and the ones after it stay claimed.)
SwapSpaceIsGivenBack ==
  "reset" \notin MayFail =>
    \A r \in Req : stage[r] = "done" /\ goal[r] = "swap" /\ ret[r] # 0 =>
      \A d \in swaptype[r] : owner[d] # r

\* A failed zram_disk_simple, and a zram_tmpfs that did not end up with a zram
\* disk, keep no device initialised, unless the kernel refuses the reset.
FailedDiskKeepsNoDevice ==
  "reset" \notin MayFail =>
    \A r \in Req :
      /\ stage[r] = "done"
      /\ \/ goal[r] = "disk" /\ ret[r] # 0
         \/ goal[r] = "tmpfs" /\ mp[r] # "zram"
      => \A d \in Device : owner[d] # r

\* A device in use as swap space or as a disk belongs to the one request that
\* put it to use, for as long as it is in use: no interleaving of claims and
\* failure paths of other requests makes it available again.
InUseIsOwned ==
  \A d \in Device : use[d] # "idle" =>
    \E r \in Req : owner[d] = r /\ d \in Holds(r)

\* Every setup call returns to its caller, however the requests interleave.
EverySetupEnds == \A r \in Req : <>(stage[r] = "done")
===============================================================================
