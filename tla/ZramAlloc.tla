------------------------------- MODULE ZramAlloc -------------------------------
(***************************************************************************)
(* Claiming and releasing zram devices (init/src/zram/zallocate.c).        *)
(*                                                                         *)
(* Every request runs in a process that linked zallocate.c: /init itself,  *)
(* or a ztmpfs applet started by a hook or from a rescue shell.  The       *)
(* processes share nothing but the kernel's zram devices, and talk to them *)
(* through sysfs files; one read or write of such a file is one step here. *)
(* A process that makes several requests is represented by several members *)
(* of Req: what it remembers between two of them is the next-free hint,    *)
(* and a request may start with any hint.                                  *)
(***************************************************************************)
EXTENDS Integers, FiniteSets

CONSTANTS
  Req,        \* claim requests
  NumDev,     \* zram devices that exist: zram0 .. zram<NumDev-1>
  MaxIdent,   \* end of the identifier scan and modulus of the uint8_t hint (256)
  MaxWant,    \* bound: the largest num_devices of a request
  Kinds,      \* entry points used: "single", "several", "varsize"
  MayFail,    \* writes the kernel may refuse for reasons of its own:
              \* "disksize" (ENOMEM, EINVAL), "reset" (the device is open elsewhere)
  None,       \* initstate 0: the device is not initialised
  Foreign     \* the device was set up by something other than zallocate.c

ASSUME SizeAssumption ==
  /\ MaxIdent \in Nat \ {0}
  /\ NumDev \in 0..MaxIdent
  /\ MaxWant \in Nat \ {0}

ASSUME NameAssumption ==
  /\ None \notin Req
  /\ Foreign \notin Req
  /\ None # Foreign
  /\ Kinds \subseteq {"single", "several", "varsize"}

Device == 0 .. NumDev - 1
Ident  == 0 .. MaxIdent - 1
Slot   == 0 .. MaxWant - 1
NoDev  == -1               \* a NULL entry of the device array

VARIABLES
  owner,    \* owner[d]: who wrote disksize since the last reset of device d
  pc,       \* control state of each request
  kind,     \* the entry point the request came through
  want,     \* num_devices
  cnt,      \* numdev_iter: devices obtained so far
  arr,      \* arr[r][i]: the device in pp_dev_out_arr[i] while its status has
            \* ZRAM_STATUS_CLAIMED, else NoDev
  ident,    \* ident_iter of the scan
  pass,     \* 1: the scan that starts at the hint; 2: the scan from 0
  hint,     \* zram_globals->next_free_identifier
  rev,      \* rev_iter of the roll back
  excused   \* history: devices given back, refused by the kernel, or not tried
            \* because of such a refusal, so far

vars == <<owner, pc, kind, want, cnt, arr, ident, pass, hint, rev, excused>>

PC == {"start", "check", "claim", "reset", "setcomp", "reclaim", "rollback",
       "claimed", "failed"}

-------------------------------------------------------------------------------
\* Request r moves on in its own control state; fields of other requests stay.
Goto(r, to) == pc' = [pc EXCEPT ![r] = to]

\* zram_claim_next_free: with a hint h > 0 the first scan starts there, and a
\* scan from 0 follows if that fails; with h = 0 the only scan starts at 0.
ScanFrom(r, h) ==
  /\ ident' = [ident EXCEPT ![r] = h]
  /\ pass'  = [pass EXCEPT ![r] = IF h > 0 THEN 1 ELSE 2]

\* The current scan found nothing (end of identifiers, or ENOENT / EINVAL).
\* After the second one the claim fails and what was claimed is rolled back.
ScanFailed(r) ==
  IF pass[r] = 1
  THEN /\ ScanFrom(r, 0)
       /\ Goto(r, "check")
       /\ UNCHANGED rev
  ELSE /\ Goto(r, IF kind[r] = "single" THEN "failed" ELSE "rollback")
       /\ rev' = [rev EXCEPT ![r] = cnt[r] - 1]
       /\ UNCHANGED <<ident, pass>>

\* Fault: the same identifier is tried again.
TryNextIdentStuck(r) ==
  IF ident[r] < MaxIdent
  THEN Goto(r, "check") /\ UNCHANGED <<ident, pass, rev>>
  ELSE ScanFailed(r)

\* EBUSY and the like: worth trying the next identifier.
TryNextIdent(r) ==
  IF ident[r] + 1 < MaxIdent
  THEN /\ ident' = [ident EXCEPT ![r] = @ + 1]
       /\ Goto(r, "check")
       /\ UNCHANGED <<pass, rev>>
  ELSE ScanFailed(r)

-------------------------------------------------------------------------------
\* Anybody may have set up devices before; nothing has been requested yet.
Init ==
  /\ owner \in [Device -> {None, Foreign}]
  /\ pc = [r \in Req |-> "start"]
  /\ kind = [r \in Req |-> "single"]
  /\ want = [r \in Req |-> 1]
  /\ cnt = [r \in Req |-> 0]
  /\ arr = [r \in Req |-> [i \in Slot |-> NoDev]]
  /\ ident = [r \in Req |-> 0]
  /\ pass = [r \in Req |-> 1]
  /\ hint = [r \in Req |-> 0]
  /\ rev = [r \in Req |-> -1]
  /\ excused = {}

\* A caller enters one of the three claim functions.  The hint is what the
\* process has, or imported from its environment: any uint8_t.
Start(r) ==
  /\ pc[r] = "start"
  /\ \E k \in Kinds, n \in 1..MaxWant, h \in Ident :
       /\ k = "single" => n = 1
       /\ kind' = [kind EXCEPT ![r] = k]
       /\ want' = [want EXCEPT ![r] = n]
       /\ hint' = [hint EXCEPT ![r] = h]
       /\ ScanFrom(r, h)
  /\ Goto(r, "check")
  /\ UNCHANGED <<owner, cnt, arr, rev, excused>>

\* Fault: a busy device ends the scan, as a missing one does.
CheckInitstateGivesUp(r) ==
  /\ pc[r] = "check"
  /\ \/ /\ ident[r] \in Device => owner[ident[r]] # None
        /\ ScanFailed(r)
     \/ /\ ident[r] \in Device
        /\ owner[ident[r]] = None
        /\ Goto(r, "claim")
        /\ UNCHANGED <<ident, pass, rev>>
  /\ UNCHANGED <<owner, kind, want, cnt, arr, hint, excused>>

\* _zram_claim_device_check_initstate: reads initstate.  No such device ends
\* the scan (ENOENT); an initialised device is skipped (EBUSY).
CheckInitstate(r) ==
  /\ pc[r] = "check"
  /\ \/ /\ ident[r] \notin Device
        /\ ScanFailed(r)
     \/ /\ ident[r] \in Device
        /\ owner[ident[r]] # None
        /\ TryNextIdent(r)
     \/ /\ ident[r] \in Device
        /\ owner[ident[r]] = None
        /\ Goto(r, "claim")
        /\ UNCHANGED <<ident, pass, rev>>
  /\ UNCHANGED <<owner, kind, want, cnt, arr, hint, excused>>

\* The devices that request r gets nothing of if the kernel's refusal ends its
\* scan: after the last scan also those it has not come to.
OutOfReach(r) == IF pass[r] = 1 THEN {ident[r]} ELSE ident[r] .. NumDev - 1

\* A write of disksize that fails: the device is initialised by now (EBUSY), the
\* kernel has no memory for it, or it does not take the size (EINVAL), which ends
\* the scan.
WriteDisksizeFails(r) ==
  /\ \/ owner[ident[r]] # None /\ TryNextIdent(r) /\ UNCHANGED excused
     \/ /\ owner[ident[r]] = None
        /\ "disksize" \in MayFail
        /\ \/ TryNextIdent(r) /\ excused' = excused \cup {ident[r]}
           \/ ScanFailed(r) /\ excused' = excused \cup OutOfReach(r)
  /\ UNCHANGED <<owner, kind, want, cnt, arr, hint>>

\* Fault: the result of the first disksize write is not looked at.
DoClaimUnchecked(r) ==
  /\ pc[r] = "claim"
  /\ owner' = [owner EXCEPT ![ident[r]] = IF @ = None THEN r ELSE @]
  /\ Goto(r, "reset")
  /\ UNCHANGED <<kind, want, cnt, arr, ident, pass, hint, rev, excused>>

\* _zram_claim_device_do_claim, first call: the write that initialises the
\* device decides between the requests that saw it uninitialised.
DoClaim(r) ==
  /\ pc[r] = "claim"
  /\ \/ /\ owner[ident[r]] = None
        /\ owner' = [owner EXCEPT ![ident[r]] = r]
        /\ Goto(r, "reset")
        /\ UNCHANGED <<kind, want, cnt, arr, ident, pass, hint, rev, excused>>
     \/ WriteDisksizeFails(r)

\* _zram_do_release_device inside the claim: compression can only be set on an
\* uninitialised device, so the fresh claim is reset.  If that fails the claim
\* is given up, and nobody remembers that the device is initialised.
DoReset(r) ==
  /\ pc[r] = "reset"
  /\ \/ /\ owner' = [owner EXCEPT ![ident[r]] = None]
        /\ Goto(r, "setcomp")
        /\ UNCHANGED <<ident, pass, rev>>
     \/ /\ "reset" \in MayFail
        /\ TryNextIdent(r)
        /\ UNCHANGED owner
  /\ UNCHANGED <<kind, want, cnt, arr, hint, excused>>

\* _zram_claim_device_set_compression: a write that fails (lost race) is
\* reported and otherwise ignored.  The device is up for grabs meanwhile.
SetCompression(r) ==
  /\ pc[r] = "setcomp"
  /\ Goto(r, "reclaim")
  /\ UNCHANGED <<owner, kind, want, cnt, arr, ident, pass, hint, rev, excused>>

\* The bookkeeping of a successful claim, with the hint that is kept.
ClaimSucceeded(r, h) ==
  /\ arr' = [arr EXCEPT ![r][cnt[r]] = ident[r]]
  /\ cnt' = [cnt EXCEPT ![r] = @ + 1]
  /\ hint' = [hint EXCEPT ![r] = h]
  /\ IF cnt[r] + 1 < want[r]
     THEN ScanFrom(r, h) /\ Goto(r, "check")
     ELSE UNCHANGED <<ident, pass>> /\ Goto(r, "claimed")
  /\ UNCHANGED <<kind, want, rev, excused>>

\* Fault: EBUSY on the second write is taken for "still mine".
ReclaimIgnoresBusy(r) ==
  /\ pc[r] = "reclaim"
  /\ owner' = [owner EXCEPT ![ident[r]] = IF @ = None THEN r ELSE @]
  /\ ClaimSucceeded(r, (ident[r] + 1) % MaxIdent)

\* Fault: the hint does not wrap around.
ReclaimNoWrap(r) ==
  /\ pc[r] = "reclaim"
  /\ \/ /\ owner[ident[r]] = None
        /\ owner' = [owner EXCEPT ![ident[r]] = r]
        /\ ClaimSucceeded(r, ident[r] + 1)
     \/ WriteDisksizeFails(r)

\* The second disksize write.  On success the device is stored in the
\* caller's array, the hint moves past it, and the next device is looked for
\* from there; or the request has all it wants.
Reclaim(r) ==
  /\ pc[r] = "reclaim"
  /\ \/ /\ owner[ident[r]] = None
        /\ owner' = [owner EXCEPT ![ident[r]] = r]
        /\ ClaimSucceeded(r, (ident[r] + 1) % MaxIdent)
     \/ WriteDisksizeFails(r)

\* zram_release_device on slot i: resets the device and clears the CLAIMED bit.
\* If the kernel refuses the reset, the device stays as it is.
ReleaseSlot(r, i) ==
  \/ /\ owner' = [owner EXCEPT ![arr[r][i]] = None]
     /\ arr' = [arr EXCEPT ![r][i] = NoDev]
     /\ excused' = excused \cup {arr[r][i]}
  \/ /\ "reset" \in MayFail
     /\ UNCHANGED <<owner, arr, excused>>

\* Fault: every roll back loop stops one slot early.
RollbackEndsEarly(k) == 1

\* Where the roll back loop of a claim function ends: rev_iter > 0 in
\* zram_claim_several_next_free, rev_iter >= 0 in its varsize sibling.
RollbackEnd(k) == IF k = "several" THEN 1 ELSE 0

\* One iteration of the roll back of a failed claim, or its end.
Rollback(r) ==
  /\ pc[r] = "rollback"
  /\ \/ /\ rev[r] >= RollbackEnd(kind[r])
        /\ ReleaseSlot(r, rev[r])
        /\ rev' = [rev EXCEPT ![r] = @ - 1]
        /\ UNCHANGED pc
     \/ /\ rev[r] < RollbackEnd(kind[r])
        /\ Goto(r, "failed")
        /\ UNCHANGED <<owner, arr, rev, excused>>
  /\ UNCHANGED <<kind, want, cnt, ident, pass, hint>>

\* A caller that got its devices releases one (mkfs, mkswap or mount failed).
Release(r, i) ==
  /\ pc[r] = "claimed"
  /\ arr[r][i] # NoDev
  /\ ReleaseSlot(r, i)
  /\ UNCHANGED <<pc, kind, want, cnt, ident, pass, hint, rev>>

ClaimStep(r) ==
  \/ Start(r) \/ CheckInitstate(r) \/ DoClaim(r) \/ DoReset(r)
  \/ SetCompression(r) \/ Reclaim(r) \/ Rollback(r)

Next == \E r \in Req : ClaimStep(r) \/ \E i \in Slot : Release(r, i)

Spec == Init /\ [][Next]_vars

\* A claim function never blocks: its process keeps being scheduled.  Nothing
\* forces a caller to give devices back.
FairSpec == Spec /\ \A r \in Req : WF_vars(ClaimStep(r))

-------------------------------------------------------------------------------
\* The devices request r holds a CLAIMED record of.
Holds(r) == {arr[r][i] : i \in Slot} \ {NoDev}

\* Every record, index and control state stays in its range: the identifier
\* and the hint are uint8_t, and no slot outside the device array is used.
TypeOK ==
  /\ owner \in [Device -> Req \cup {None, Foreign}]
  /\ pc \in [Req -> PC]
  /\ kind \in [Req -> {"single", "several", "varsize"}]
  /\ want \in [Req -> 1..MaxWant]
  /\ cnt \in [Req -> 0..MaxWant]
  /\ arr \in [Req -> [Slot -> Device \cup {NoDev}]]
  /\ ident \in [Req -> Ident]
  /\ pass \in [Req -> {1, 2}]
  /\ hint \in [Req -> Ident]
  /\ rev \in [Req -> -1 .. MaxWant - 1]
  /\ excused \subseteq Device

\* A CLAIMED record tells the truth: the device is initialised, the request
\* that has the record is the one that initialised it last, and it has only one
\* record of it.  So no two callers ever format or swap on the same device,
\* although each claim leaves the device uninitialised for a while between its
\* reset and its second disksize write, where other requests may grab it.
ExclusiveClaims ==
  \A r \in Req, i \in Slot :
    arr[r][i] # NoDev =>
      /\ owner[arr[r][i]] = r
      /\ \A j \in Slot : arr[r][j] = arr[r][i] => i = j

\* A reset, whether inside a claim, in a roll back or by a caller, only ever
\* hits a device that the resetting request itself initialised: neither the
\* device of another request nor one that was in use before.
ResetsOnlyItsOwn ==
  [][\A d \in Device :
       (owner[d] # None /\ owner'[d] = None) =>
         \E r \in Req :
           /\ owner[d] = r
           /\ \/ d \in Holds(r) /\ arr'[r] # arr[r]
              \/ ident[r] = d /\ pc'[r] # pc[r]]_vars

\* Device d is taken, or a request is between its reset and its second
\* disksize write on it and will take it unless somebody else does.
Contended(d) ==
  \/ owner[d] # None
  \/ \E q \in Req : pc[q] \in {"setcomp", "reclaim"} /\ ident[q] = d

\* A claim fails only if there was nothing to get: whatever the stale hint it
\* started from and however the scans of several requests interleave, each
\* device of the system is taken or about to be, except those that were given
\* back, or refused by the kernel, in the meantime, and those that a last scan
\* has not come to because the kernel did not take the size (EINVAL).
NoMissedDevice ==
  \A r \in Req : pc[r] \in {"rollback", "failed"} =>
    \A d \in Device : d \in excused \/ Contended(d)

\* Request r has lost device d: d is initialised on its behalf, and r neither has
\* a CLAIMED record that its caller can still use nor is about to reset d.
Lost(r, d) ==
  /\ owner[d] = r
  /\ ~ (d \in Holds(r) /\ pc[r] # "failed")
  /\ ~ (pc[r] = "reset" /\ ident[r] = d)

\* zram_claim_next_free and zram_claim_several_varsize_next_free lose no
\* device, as long as the kernel does not refuse a reset.
NoLeak ==
  "reset" \notin MayFail =>
    \A r \in Req, d \in Device : kind[r] # "several" => ~ Lost(r, d)

\* The same for zram_claim_several_next_free, whose failure path says
\* "roll back ...": no device stays claimed after the call has failed.
SeveralRollsBack ==
  \A r \in Req, d \in Device : kind[r] = "several" => ~ Lost(r, d)

\* zallocate.c implements the pool of ZramPool: a CLAIMED record is a device
\* taken from the pool, and sysfs steps that change no record are invisible.
Pool == INSTANCE ZramPool WITH held <- [r \in Req |-> Holds(r)]

ImplementsPool == Pool!PoolSpec

\* Every call of a claim function returns.
EveryClaimReturns == \A r \in Req : <>(pc[r] \in {"claimed", "failed"})
===============================================================================
