--------------------------------- MODULE Mounts ---------------------------------
(***************************************************************************)
(* What /init mounts and unmounts: the base mounts of the initramfs, the   *)
(* temporary ones in newroot, their removal before switch_root, and the    *)
(* removal of mounts before it gives up (init/src/initramfs/baselayout.c,  *)
(* init/src/common/baselayout/basemounts.c, init/src/common/fs/mount.c and *)
(* umount.c).                                                              *)
(*                                                                         *)
(* A function of the code is a list of calls of mount(2) and umount(2),    *)
(* which is worked off one call per step.  The kernel's mount table is a   *)
(* tree: a mount hangs in a directory of the mount that was visible there, *)
(* on top of what was mounted on the same directory before.  All calls use *)
(* paths, so /init only ever gets hold of what is on top.                  *)
(***************************************************************************)
EXTENDS Integers, Sequences, SequencesExt, FiniteSets

CONSTANTS
  Others,     \* further mountpoints that hooks and fstab files mount on
  MaxOthers,  \* bound: how many mounts there are of these, and of newroot
  MaxTries    \* bound: how often operators have a failed step run

\* The directories that /init mounts on itself, and what is below them.
Reserved(p) ==
  \/ p[1] \in {"proc", "sys", "dev", "run", "tmp"}
  \/ p[1] = "newroot" /\ (Len(p) = 1 \/ p[2] \in {"dev", "sys", "proc"})

\* The others keep off these: the filter of initramfs_premount_all lets none of
\* newroot's pass, and hooks and unfiltered files have no business there.
ASSUME MountsAssumption ==
  /\ MaxOthers \in Nat /\ MaxTries \in Nat \ {0}
  /\ \A p \in Others : p \in Seq(STRING) \ {<<>>} /\ ~ Reserved(p)

\* Paths are sequences of names.
Newroot(p) == <<"newroot">> \o p
Proc == <<"proc">>
Sys == <<"sys">>
Dev == <<"dev">>
Pts == <<"dev", "pts">>
Shm == <<"dev", "shm">>
Run == <<"run">>
Tmp == <<"tmp">>
Aux == <<"mnt">>

Call(op, fs, at) == [op |-> op, fs |-> fs, at |-> at]
Umount(at) == Call("umount", "none", at)
UmountAll(at) == Call("umountall", "none", at)
Move(at) == Call("move", "none", at)

VARIABLES
  pc,        \* where main_init is, as far as mounts are concerned
  todo,      \* the calls left to do
  tab,       \* kernel: the mounts, by a number, without that of the root
  failed,    \* "fail" of _do_basemounts_all
  refused,   \* history: what could not be moved
  binds,     \* how often initramfs_newroot_basemounts has been called
  switches   \* how often initramfs_switch_root has been called

vars == <<pc, todo, tab, failed, refused, binds, switches>>

-------------------------------------------------------------------------------
\* The kernel.  A directory is given by the mount it is in and its path there.
Root == 0
Dir(m, path) == [mnt |-> m, path |-> path]

\* The mounts on a directory, and the one that is visible.
Stack(d) == {m \in DOMAIN tab : tab[m].dir = d}
TopOf(S) == CHOOSE m \in S : \A n \in S : tab[n].level <= tab[m].level

\* From a directory to the one with the given name in it, what is mounted there
\* being followed or not.
Enter(d, name) == Dir(d.mnt, Append(d.path, name))
Follow(d) == IF Stack(d) = {} THEN d ELSE Dir(TopOf(Stack(d)), <<>>)
Walk(p) ==
  LET at[n \in 0..Len(p)] ==
        IF n = 0 THEN Dir(Root, <<>>) ELSE Follow(Enter(at[n-1], p[n]))
  IN  at
Lookup(p) == Walk(p)[Len(p)]
Mountpoint(p) == Enter(Lookup(Front(p)), Last(p))
IsMountpoint(p) == Stack(Mountpoint(p)) # {}

FsAt(p) == LET m == Lookup(p).mnt IN IF m = Root THEN "rootfs" ELSE tab[m].fs

Fresh == CHOOSE m \in 1 .. Cardinality(DOMAIN tab) + 1 : m \notin DOMAIN tab

\* A mount of fs on p, on behalf of "base" (initramfs), "temp" (the temporary
\* mounts in newroot) or "other".
MountRecord(fs, by, p) ==
  [fs |-> fs, by |-> by, dir |-> Mountpoint(p),
   level |-> Cardinality(Stack(Mountpoint(p)))]

Mounted(fs, by, p) ==
  LET new == Fresh
      record == MountRecord(fs, by, p)
  IN  [m \in DOMAIN tab \cup {new} |-> IF m = new THEN record ELSE tab[m]]

\* A mount with all that is mounted somewhere in it.
Subtree(m) ==
  LET sub[k \in 0 .. Cardinality(DOMAIN tab)] ==
        IF k = 0 THEN {m}
        ELSE LET s == sub[k - 1]
             IN  s \cup {n \in DOMAIN tab : tab[n].dir.mnt \in s}
  IN  sub[Cardinality(DOMAIN tab)]

\* do_umount: nothing if p is not a mountpoint (EINVAL, ENOENT); a mount that is
\* busy goes with MNT_DETACH, together with the mounts in it.
Umounted(p) ==
  LET gone == IF IsMountpoint(p) THEN Subtree(TopOf(Stack(Mountpoint(p)))) ELSE {}
  IN  [m \in DOMAIN tab \ gone |-> tab[m]]

\* mount_move, of a mountpoint.
Moved(src, dst) ==
  [tab EXCEPT ![TopOf(Stack(Mountpoint(src)))] =
     [@ EXCEPT !.dir = Mountpoint(dst),
               !.level = Cardinality(Stack(Mountpoint(dst)))]]

-------------------------------------------------------------------------------
\* _do_basemounts_all: what it does after /dev, and all of it; "seed" is devfs_seed.
MountsAfterDev == << Call("mount", "run", Run), Call("mount", "tmp", Tmp) >>
BaseMounts ==
  << Call("mount", "proc", Proc), Call("mount", "sysfs", Sys),
     Call("mount", "devfs", Dev), Call("mount", "devpts", Pts),
     Call("mount", "shm", Shm), Call("seed", "none", Dev) >>
    \o MountsAfterDev

\* initramfs_newroot_basemounts.
NewrootBasemounts ==
  << Call("bind", "none", Dev), Call("bind", "none", Sys), Call("bind", "none", Proc),
     Call("mount", "shm", Newroot(Shm)), Call("mount", "devpts", Newroot(Pts)) >>

\* Faults: the mountpoints of newroot's /dev after it; one left out.
EjectNewrootDevFirst ==
  << Umount(Newroot(Dev)), Umount(Newroot(Shm)), Umount(Newroot(Pts)),
     Umount(Newroot(Sys)), Umount(Newroot(Proc)) >>
EjectNewrootNoSys ==
  << Umount(Newroot(Shm)), Umount(Newroot(Pts)), Umount(Newroot(Dev)),
     Umount(Newroot(Proc)) >>

\* initramfs_eject_newroot_basemounts.
EjectNewrootBasemounts ==
  << Umount(Newroot(Shm)), Umount(Newroot(Pts)), Umount(Newroot(Dev)),
     Umount(Newroot(Sys)), Umount(Newroot(Proc)) >>

\* initramfs_eject_aux_mounts and initramfs_eject_mounts.
EjectAuxMounts == << UmountAll(Aux) >>
EjectMounts ==
  << UmountAll(Newroot(<<>>)) >> \o EjectNewrootBasemounts \o EjectAuxMounts

\* Fault: the temporary mounts go last, and take the moved ones with them.
PreswitchMovesFirst ==
  << Umount(Run), Umount(Tmp), Umount(Shm), Umount(Pts),
     Move(Dev), Move(Sys), Move(Proc) >> \o EjectNewrootBasemounts

\* initramfs_preswitch_umount.
PreswitchUmount ==
  EjectNewrootBasemounts
    \o << Umount(Run), Umount(Tmp), Umount(Shm), Umount(Pts),
          Move(Dev), Move(Sys), Move(Proc) >>

Init ==
  /\ pc = "base" /\ todo = BaseMounts
  /\ tab = <<>>
  /\ failed = FALSE /\ refused = {}
  /\ binds = 0 /\ switches = 0

-------------------------------------------------------------------------------
Goto(to, calls) == pc' = to /\ todo' = calls

\* The next call is one of these; it is done with.
Next1(ops) == todo # <<>> /\ Head(todo).op \in ops
Arg == Head(todo).at
Done == todo' = Tail(todo) /\ UNCHANGED pc

\* A call of _do_basemounts_all that succeeds.
BaseMount ==
  /\ pc = "base" /\ Next1({"mount", "seed"})
  /\ tab' = IF Head(todo).op = "seed" THEN tab ELSE Mounted(Head(todo).fs, "base", Arg)
  /\ Done
  /\ UNCHANGED <<failed, refused, binds, switches>>

\* One that fails: _do_basemounts_all makes a note and goes on, while
\* basemounts_mount_and_populate_devfs skips what is left to do for /dev.
BaseMountFails ==
  /\ pc = "base" /\ Next1({"mount", "seed"})
  /\ failed' = TRUE
  /\ todo' = IF Head(Arg) = "dev" THEN MountsAfterDev ELSE Tail(todo)
  /\ UNCHANGED <<pc, tab, refused, binds, switches>>

\* Any failure of the base mounts makes init_initramfs fail.
BaseMountsDone ==
  /\ pc = "base" /\ todo = <<>>
  /\ IF failed THEN Goto("eject", EjectMounts) ELSE Goto("work", <<>>)
  /\ UNCHANGED <<tab, failed, refused, binds, switches>>

\* The mounts of the other steps of main_init: newroot, and what hooks and fstab
\* files ask for.
OtherMount ==
  /\ \/ pc = "work" /\ \E p \in Others \cup {Newroot(<<>>)} : tab' = Mounted("other", "other", p)
     \/ pc = "late" /\ \E p \in Others : tab' = Mounted("other", "other", p)
  /\ Cardinality({m \in DOMAIN tab : tab[m].by = "other"}) < MaxOthers
  /\ UNCHANGED <<pc, todo, failed, refused, binds, switches>>

\* Some other step of main_init fails for good.
GiveUp ==
  /\ pc \in {"work", "late", "last"}
  /\ Goto("eject", EjectMounts)
  /\ UNCHANGED <<tab, failed, refused, binds, switches>>

-------------------------------------------------------------------------------
\* initramfs_newroot_basemounts is called.
CallNewrootBasemounts ==
  /\ pc = "work"
  /\ Goto("binds", NewrootBasemounts)
  /\ binds' = binds + 1
  /\ UNCHANGED <<tab, failed, refused, switches>>

\* bind_mount of /dev, /sys or /proc, or a mount of its own in newroot's /dev.
NewrootMount ==
  /\ pc = "binds" /\ Next1({"mount", "bind"})
  /\ tab' = IF Head(todo).op = "bind"
            THEN Mounted(FsAt(Arg), "temp", Newroot(Arg))
            ELSE Mounted(Head(todo).fs, "temp", Arg)
  /\ Done
  /\ UNCHANGED <<failed, refused, binds, switches>>

NewrootMountFails ==
  /\ pc = "binds" /\ Next1({"mount", "bind"})
  /\ Goto("bindlatch", <<>>)
  /\ UNCHANGED <<tab, failed, refused, binds, switches>>

\* The fail latch around it: tried again from the start, let pass, or given up.
BindLatch ==
  /\ pc = "bindlatch"
  /\ \/ /\ binds < MaxTries
        /\ Goto("binds", NewrootBasemounts)
        /\ binds' = binds + 1
     \/ Goto("late", <<>>) /\ UNCHANGED binds
     \/ Goto("eject", EjectMounts) /\ UNCHANGED binds
  /\ UNCHANGED <<tab, failed, refused, switches>>

\* initramfs_eject_aux_mounts is called; its result is not looked at.
CallEjectAux ==
  /\ pc = "late"
  /\ Goto("aux", EjectAuxMounts)
  /\ UNCHANGED <<tab, failed, refused, binds, switches>>

\* initramfs_switch_root is called.
CallSwitchRoot ==
  /\ pc = "last"
  /\ Goto("preswitch", PreswitchUmount)
  /\ switches' = switches + 1
  /\ UNCHANGED <<tab, failed, refused, binds>>

\* execvp.
Exec ==
  /\ pc = "exec"
  /\ Goto("switched", <<>>) \/ Goto("switchlatch", <<>>)
  /\ UNCHANGED <<tab, failed, refused, binds, switches>>

\* The fail latch around the switch.  To let it pass is to leave main_init too.
SwitchLatch ==
  /\ pc = "switchlatch"
  /\ \/ /\ switches < MaxTries
        /\ Goto("preswitch", PreswitchUmount)
        /\ switches' = switches + 1
     \/ Goto("eject", EjectMounts) /\ UNCHANGED switches
  /\ UNCHANGED <<tab, failed, refused, binds>>

\* Where a list of calls leads to.
After == [binds |-> "late", aux |-> "last", preswitch |-> "exec", eject |-> "panic"]

CallsDone ==
  /\ pc \in DOMAIN After /\ todo = <<>>
  /\ Goto(After[pc], <<>>)
  /\ UNCHANGED <<tab, failed, refused, binds, switches>>

-------------------------------------------------------------------------------
DoUmount ==
  /\ Next1({"umount"})
  /\ tab' = Umounted(Arg)
  /\ Done
  /\ UNCHANGED <<failed, refused, binds, switches>>

\* Fault: what could not be moved stays.
MoveOrKeep ==
  /\ Next1({"move"})
  /\ \/ /\ IsMountpoint(Arg)
        /\ tab' = Moved(Arg, Newroot(Arg))
        /\ UNCHANGED refused
     \/ refused' = refused \cup {Arg} /\ UNCHANGED tab
  /\ Done
  /\ UNCHANGED <<failed, binds, switches>>

\* _do_move_or_umount.  Only a mountpoint can be moved, and the kernel may refuse
\* that too, or newroot be read-only and have no such directory.
MoveOrUmount ==
  /\ Next1({"move"})
  /\ \/ /\ IsMountpoint(Arg)
        /\ tab' = Moved(Arg, Newroot(Arg))
        /\ UNCHANGED refused
     \/ tab' = Umounted(Arg) /\ refused' = refused \cup {Arg}
  /\ Done
  /\ UNCHANGED <<failed, binds, switches>>

\* The entries of /proc/mounts, the root's included.  Mounts that are hidden have
\* a line too, but no path that is not here would lead to them.
Entries ==
  {<<>>} \cup {p \in {Proc, Sys, Dev, Pts, Shm, Run, Tmp, Newroot(<<>>)} \cup Others
                 \cup {Newroot(q) : q \in {Dev, Sys, Proc, Shm, Pts}} : IsMountpoint(p)}

\* _read_mountpoint_to_dynarray: /proc/mounts has to be there, and the first entry
\* outside of the given directory ends it with an error.
Collects(root) ==
  /\ FsAt(Proc) = "proc"
  /\ \A p \in Entries : IsPrefix(root, p)

\* _umountsort_dynarray and _do_umount_dynarray: the deepest first.
UmountSorted(S) ==
  LET paths == SetToSortSeq(S, LAMBDA p, q : Len(p) > Len(q))
  IN  [k \in DOMAIN paths |-> Umount(paths[k])]

\* do_umount_recursive.
DoUmountRecursive ==
  /\ Next1({"umountall"})
  /\ todo' = (IF Collects(Arg) THEN UmountSorted(Entries) ELSE <<>>) \o Tail(todo)
  /\ UNCHANGED <<pc, tab, failed, refused, binds, switches>>

Next ==
  \/ BaseMount \/ BaseMountFails \/ BaseMountsDone
  \/ OtherMount \/ GiveUp
  \/ CallNewrootBasemounts \/ NewrootMount \/ NewrootMountFails \/ BindLatch
  \/ CallEjectAux \/ CallSwitchRoot \/ Exec \/ SwitchLatch \/ CallsDone
  \/ DoUmount \/ MoveOrUmount \/ DoUmountRecursive

Spec == Init /\ [][Next]_vars

-------------------------------------------------------------------------------
\* The mounts made on somebody's behalf.
MountsBy(who) == {m \in DOMAIN tab : tab[m].by = who}

\* switch_root deletes what is in the initramfs: when it is executed, on whatever
\* attempt and whatever could not be moved, none of the base mounts is left in
\* the initramfs' own directories.
InitramfsEmptied ==
  pc = "switched" =>
    \A m \in MountsBy("base") :
      tab[m].dir.mnt = Root => Head(tab[m].dir.path) = "newroot"

\* What the first switch hands over to newroot: its /dev, /sys and /proc are the
\* very mounts of the initramfs, unless they could not be moved, on top of all
\* else mounted there; no other base mount survives, inside of them neither.
HandedOver ==
  pc = "switched" /\ switches = 1 =>
    MountsBy("base") = {Lookup(Newroot(p)).mnt : p \in {Dev, Sys, Proc} \ refused}

\* Unmounting goes from the leaves to the root: no call takes away a mount with
\* others still in it, whatever has been mounted twice or half of it.
LeavesFirst ==
  [][Cardinality(DOMAIN tab \ DOMAIN tab') <= 1]_vars

\* However far the temporary mounts in newroot came, and whether the boot was
\* given up then or not, none is left at the end - if they were tried once.
TemporaryGone ==
  pc \in {"switched", "panic"} /\ binds <= 1 => MountsBy("temp") = {}

\* The end of /init leaves neither the initramfs' own mounts nor its temporary ones
\* in newroot behind.
NothingLeftBehind == InitramfsEmptied /\ TemporaryGone

\* README.rst: "unmount aux mounts (/mnt/aux/*)", before the network goes down.
AuxUnmounted ==
  pc = "last" =>
    \A p \in Others : IsPrefix(Aux, p) => ~ IsMountpoint(p)
===============================================================================
