--------------------------------- MODULE Devices ---------------------------------
(***************************************************************************)
(* Device nodes, disks and loop devices: devfs_seed and devfs_donod        *)
(* (common/fs/devfs.c), mdev (common/baselayout/mdev.c), waiting for disks  *)
(* (initramfs.c, initramfs/devfs.c, run_command.c), findfs and              *)
(* setup_loop_dev.  /init makes these calls one after the other; a step of  *)
(* this module is a system call of one of them, or a program that it runs. *)
(* Meanwhile the kernel finds disks, its hotplug agent mdev makes nodes for *)
(* them, and another process makes use of loop devices.                    *)
(*                                                                         *)
(* A disk stands for its name, its major:minor numbers and its label.      *)
(***************************************************************************)
EXTENDS Integers, Sequences, FiniteSets, SequencesExt

CONSTANTS
  Disks,      \* the disks that the kernel may find
  Loops,      \* the numbers of the loop devices
  Seeds,      \* what devfs_seed creates: [name, type, fatal]
  Programs,   \* the sequences of calls that /init may make
  InitNodes,  \* what may be in /dev to start with
  Timeout,    \* rootfind_delay
  Faults      \* what may go wrong: "fork", "exec", "killed" (by a signal),
              \* "nanosleep", "mknod", "chown", "ioctl", "open"

\* No device, or nothing to say about one.
NoName == ""

\* All calls, and all names in /dev: those that are seeded are no disk's.  "devtmpfs"
\* is the device that /dev is on, "free" and "other" are no files.
Calls == UNION {ToSet(p) : p \in Programs}
Names == Disks \cup {Seeds[k].name : k \in DOMAIN Seeds}

ASSUME DevicesAssumption ==
  /\ Timeout \in Nat
  /\ Faults \subseteq {"fork", "exec", "killed", "nanosleep", "mknod", "chown",
                 "ioctl", "open"}
  /\ Programs \subseteq Seq(Calls)
  /\ \A c \in Calls : c.op = "losetup" => c.file \notin {"free", "other"}
  /\ \A c \in Calls : c.op = "wait" => c.disks \in Seq(ToSet(c.disks))
  /\ Seeds \in Seq(ToSet(Seeds))
  /\ \A j, k \in DOMAIN Seeds : Seeds[j].name = Seeds[k].name => j = k
  /\ \A k \in DOMAIN Seeds : Seeds[k].name \notin Disks
  /\ {NoName, "devtmpfs"} \cap Names = {}
  /\ \A m \in InitNodes : m = [x \in Names |-> m[x]]

VARIABLES
  plugged,  \* kernel: the disks it has found
  agent,    \* kernel: mdev is registered as the hotplug agent
  events,   \* disks that mdev has been started for
  nodes,    \* /dev
  loops,    \* kernel: what is attached to the loop devices
  others,   \* the loop devices the other process has attached
  todo,     \* the calls to make; the first one is under way
  pc,       \* where in it /init is; "call" at its beginning
  n,        \* the loop index of devfs_seed or waitfor_disk_devices
  fail,     \* the local variable of devfs_seed
  rem,      \* ds_rem
  slept,    \* history: for how long this disk has been waited for
  loopno,   \* the loop device found
  line,     \* what the child of findfs has printed, and its exit status
  fds,      \* the file descriptors that are open
  results,  \* history: the calls that have returned, [call, ret, out]
  trouble   \* history: the faults that have happened

kernel == << plugged, agent, events, loops, others >>
locals == << n, fail, rem, slept, loopno, line >>
vars == << kernel, nodes, todo, pc, locals, fds, results, trouble >>

Call == Head(todo)
InCall(op, at) == todo # << >> /\ Call.op = op /\ pc = at

Init ==
  /\ plugged \in SUBSET Disks /\ agent = FALSE /\ events = {}
  /\ nodes \in InitNodes
  /\ loops = [l \in Loops |-> "free"] /\ others = {}
  /\ todo \in Programs /\ pc = "call"
  /\ n = 1 /\ fail = {} /\ rem = 0 /\ slept = 0 /\ loopno = 0
  /\ line = [dev |-> NoName, status |-> 0]
  /\ fds = {} /\ results = << >> /\ trouble = {}

\* A fault that may happen, happens.
Fault(f) == f \in Faults /\ trouble' = trouble \cup {f}
NoFault == UNCHANGED trouble

\* The call returns.
Return(ret, out) ==
  /\ results' = Append(results, [call |-> Call, ret |-> ret, out |-> out])
  /\ todo' = Tail(todo) /\ pc' = "call"
  /\ n' = 1 /\ fail' = {} /\ rem' = 0 /\ slept' = 0 /\ loopno' = 0
  /\ line' = [dev |-> NoName, status |-> 0]

\* It goes on.
Goto(at) == pc' = at /\ UNCHANGED << todo, results >>

-----------------------------------------------------------------------------
(* Running a program: _RUN_COMMAND_GENERIC and what waitpid says of it.     *)

EX_OSERR == 71

\* The program runs to its end, and does its job or not.
RunsToEnd(code, works) == NoFault /\ code = IF works THEN 0 ELSE 1

\* It is not even started, or not to its end.  WEXITSTATUS of a child that was
\* killed is 0.
Breaks(code) ==
  \/ Fault("fork") /\ code = -2
  \/ Fault("exec") /\ code = EX_OSERR
  \/ Fault("killed") /\ code = 0

ExitCode(code, works) == RunsToEnd(code, works) \/ Breaks(code)

\* The functions of run_command.c build an argv and refuse an empty one.
RunCommand(code, works) == ExitCode(code, works)

-----------------------------------------------------------------------------
(* Device nodes.                                                           *)

\* The bits of S_IFMT.
TypeBits == [none |-> {}, chr |-> {13}, dir |-> {14}, blk |-> {13, 14},
             reg |-> {15}, lnk |-> {13, 15}]

Node(type, rdev) == [type |-> type, rdev |-> rdev]
NoNode == Node("none", NoName)
Exists(name) == nodes[name] # NoNode
Right(name, type) == nodes[name] = Node(type, name)

\* What devfs_donod is called for.
Name == IF Call.op = "seed" THEN Seeds[n].name ELSE Call.disk
Type == IF Call.op = "seed" THEN Seeds[n].type ELSE "blk"

\* st_dev of a node is the device that /dev itself is on.
StDev(name) == "devtmpfs"

\* The test for a node that may stay: devfs_donod looks at st_dev.
IsValidNode(name, type) ==
  StDev(name) = name /\ TypeBits[nodes[name].type] \cap TypeBits[type] # {}

\* chown of the node, and chmod if it was there already: devfs_donod returns 1
\* for a node that is right but for its owner or mode.
Chown(code) ==
  \/ NoFault /\ code = 0
  \/ Fault("chown") /\ code = 1

\* devfs_donod returns to its caller.  devfs_seed, for which 1 is no failure,
\* goes on with the next node; devfs_create_disk_node returns.
DonodReturns(code) ==
  IF Call.op = "seed"
  THEN /\ n' = n + 1 /\ pc' = "seed"
       /\ fail' = IF code \in {0, 1} \/ ~Seeds[n].fatal THEN fail ELSE fail \cup {1}
       /\ UNCHANGED << todo, results, rem, slept, loopno, line >>
  ELSE Return(code, NoName)

\* devfs_create_disk_node: major and minor are read from sysfs.
CreateDiskNode ==
  /\ InCall("node", "call")
  /\ IF Call.disk \in plugged THEN Goto("stat") /\ UNCHANGED locals
     ELSE Return(-1, NoName)
  /\ NoFault /\ UNCHANGED << kernel, nodes, fds >>

\* Fault: any node will do.
StatNodeAny ==
  /\ todo # << >> /\ pc = "stat"
  /\ IF Exists(Name) THEN DonodReturns(0) ELSE Goto("mknod") /\ UNCHANGED locals
  /\ NoFault /\ UNCHANGED << kernel, nodes, fds >>

\* devfs_donod: stat, and chmod and chown if the node may stay.
StatNode ==
  /\ todo # << >> /\ pc = "stat"
  /\ IF Exists(Name) /\ IsValidNode(Name, Type)
     THEN \E code \in {0, 1} : Chown(code) /\ DonodReturns(code)
     ELSE Goto(IF Exists(Name) THEN "unlink" ELSE "mknod") /\ UNCHANGED locals /\ NoFault
  /\ UNCHANGED << kernel, nodes, fds >>

UnlinkNode ==
  /\ todo # << >> /\ pc = "unlink"
  /\ IF nodes[Name].type = "dir"
     THEN DonodReturns(-1) /\ UNCHANGED nodes
     ELSE nodes' = [nodes EXCEPT ![Name] = NoNode] /\ Goto("mknod") /\ UNCHANGED locals
  /\ NoFault /\ UNCHANGED << kernel, fds >>

MakeNode ==
  /\ todo # << >> /\ pc = "mknod"
  /\ \/ Exists(Name) /\ NoFault /\ DonodReturns(-1) /\ UNCHANGED nodes
     \/ Fault("mknod") /\ DonodReturns(-1) /\ UNCHANGED nodes
     \/ /\ ~Exists(Name) /\ nodes' = [nodes EXCEPT ![Name] = Node(Type, Name)]
        /\ \E code \in {0, 1} : Chown(code) /\ DonodReturns(code)
  /\ UNCHANGED << kernel, fds >>

-----------------------------------------------------------------------------
(* devfs_seed.                                                             *)

\* dosym unlinks what is there, which a directory resists.
Dosym(name) == IF nodes[name].type = "dir" THEN nodes
               ELSE [nodes EXCEPT ![name] = Node("lnk", name)]

\* The nodes one after the other.  Of the control nodes, only those that
\* /proc/misc knows are in Seeds.
SeedNext ==
  /\ \/ InCall("seed", "call") \/ InCall("seed", "seed")
  /\ \/ /\ n > Len(Seeds) /\ NoFault
        /\ Return(IF fail = {} THEN 0 ELSE -1, NoName) /\ UNCHANGED nodes
     \/ /\ n <= Len(Seeds) /\ Type # "lnk" /\ NoFault
        /\ Goto("stat") /\ UNCHANGED << nodes, locals >>
     \/ /\ n <= Len(Seeds) /\ Type = "lnk" /\ pc' = "seed" /\ n' = n + 1
        /\ \/ /\ NoFault /\ nodes[Name].type # "dir"
              /\ nodes' = Dosym(Name) /\ UNCHANGED fail
           \/ /\ \/ NoFault /\ nodes[Name].type = "dir"
                 \/ Fault("mknod")
              /\ fail' = IF Seeds[n].fatal THEN fail \cup {2} ELSE fail
              /\ nodes' = IF nodes[Name].type = "dir" THEN nodes
                          ELSE [nodes EXCEPT ![Name] = NoNode]
        /\ UNCHANGED << todo, results, rem, slept, loopno, line >>
  /\ UNCHANGED << kernel, fds >>

-----------------------------------------------------------------------------
(* mdev.                                                                   *)

\* What mdev does for disks: a node for each one that has none.
WithNodes(disks) ==
  [m \in DOMAIN nodes |->
     IF m \in disks /\ ~Exists(m) THEN Node("blk", m) ELSE nodes[m]]

\* mdev_run_scan.
MdevScan(code) ==
  \/ RunsToEnd(code, TRUE) /\ nodes' = WithNodes(plugged)
  \/ Breaks(code) /\ UNCHANGED nodes

\* setup_mdev: mdev.conf, a link for mdev, the agent, and a first scan.
SetupMdev ==
  /\ InCall("mdev", "call")
  /\ \/ agent' = TRUE /\ Goto("scan") /\ UNCHANGED locals /\ NoFault
     \/ Return(-3, NoName) /\ UNCHANGED agent /\ Fault("open")
  /\ UNCHANGED << plugged, events, loops, others, nodes, fds >>

SetupMdevScan ==
  /\ InCall("mdev", "scan")
  /\ \E code \in {-2, 0, EX_OSERR} : MdevScan(code) /\ Return(code, NoName)
  /\ UNCHANGED << kernel, fds >>

\* The kernel finds a disk and starts its agent, which is not waited for.
Plug ==
  /\ \E d \in Disks \ plugged :
       /\ plugged' = plugged \cup {d}
       /\ events' = IF agent THEN events \cup {d} ELSE events
  /\ NoFault /\ UNCHANGED << agent, loops, others, nodes, todo, pc, locals, fds, results >>

Hotplug ==
  /\ \E d \in events : nodes' = WithNodes({d}) /\ events' = events \ {d}
  /\ NoFault /\ UNCHANGED << plugged, agent, loops, others, todo, pc, locals, fds, results >>

-----------------------------------------------------------------------------
(* Waiting for disks.                                                      *)

Waiting == Call.disks[n]
Ready(d) == d \in plugged /\ Right(d, "blk")

NextDisk ==
  /\ pc' = "call" /\ n' = n + 1 /\ rem' = 0 /\ slept' = 0
  /\ UNCHANGED << todo, results, fail, loopno, line >>

\* _initramfs_wait_for_disk__label_or_uuid has findfs run until it succeeds.
UntilSuccess == Goto("run") /\ UNCHANGED locals

\* initramfs_waitfor_disk_devices, and the case distinction of
\* initramfs_wait_for_disk.  A root file system that is on no device ("nodev")
\* is not waited for; paths outside of /dev, LVM and mdadm are "other", and what
\* is neither a path nor a label is "unknown".
WaitNext ==
  /\ InCall("wait", "call")
  /\ \/ (Timeout < 1 \/ n > Len(Call.disks)) /\ Return(0, 0)
     \/ /\ Timeout >= 1 /\ n <= Len(Call.disks)
        /\ \/ Waiting.by = "nodev" /\ NextDisk
           \/ Waiting.by = "unknown" /\ Return(-1, 0)
           \/ Waiting.by = "other" /\ ~Exists(Waiting.disk) /\ Return(-1, 0)
           \/ Waiting.by \in {"path", "other"} /\ Exists(Waiting.disk) /\ NextDisk
           \/ /\ Waiting.by = "path" /\ ~Exists(Waiting.disk)
              /\ Goto("scan") /\ UNCHANGED locals
           \/ Waiting.by = "label" /\ UntilSuccess
  /\ NoFault /\ UNCHANGED << kernel, nodes, fds >>

\* _initramfs_wait_for_disk__dev: a scan, whose exit code nobody asks for, and
\* another look; no timeout.
WaitScan ==
  /\ InCall("wait", "scan")
  /\ \E code \in {-2, 0, EX_OSERR} : MdevScan(code)
  /\ Goto("look") /\ UNCHANGED << kernel, locals, fds >>

WaitLook ==
  /\ InCall("wait", "look")
  /\ IF Exists(Waiting.disk) THEN NextDisk ELSE Return(-1, 0)
  /\ NoFault /\ UNCHANGED << kernel, nodes, fds >>

\* run_command_until_success_tickrate_argv: the first run.
WaitFirstRun ==
  /\ InCall("wait", "run")
  /\ \E code \in {-2, 0, 1, EX_OSERR} :
       /\ RunCommand(code, Ready(Waiting.disk))
       /\ IF code = 0 THEN NextDisk
          ELSE IF code < 0 \/ code = EX_OSERR THEN Return(code, slept)
          ELSE /\ Goto("sleep") /\ rem' = Timeout + 1
               /\ UNCHANGED << n, fail, slept, loopno, line >>
  /\ UNCHANGED << kernel, nodes, fds >>

\* Fault: no tick at all.
NumTicksZero == 0

\* The tick rate of run_command_until_success_argv.
NumTicks == 2

\* Fault: the remainder is not slept.
WaitSleepNoRemainder ==
  /\ InCall("wait", "sleep")
  /\ LET ticks == NumTicks
     IN  \/ /\ rem < ticks /\ Return(1, slept) /\ NoFault
         \/ /\ rem >= ticks /\ NoFault
            /\ rem' = rem - ticks /\ slept' = slept + ticks /\ Goto("rerun")
            /\ UNCHANGED << n, fail, loopno, line >>
         \/ rem >= ticks /\ Fault("nanosleep") /\ Return(-10, slept)
  /\ UNCHANGED << kernel, nodes, fds >>

\* Fault: giving up is not told from success.
WaitSleepForgets ==
  /\ InCall("wait", "sleep")
  /\ LET ticks == IF rem < NumTicks THEN rem ELSE NumTicks
     IN  \/ rem = 0 /\ NextDisk
         \/ /\ rem > 0 /\ rem' = rem - ticks /\ slept' = slept + ticks /\ Goto("rerun")
            /\ UNCHANGED << n, fail, loopno, line >>
  /\ NoFault /\ UNCHANGED << kernel, nodes, fds >>

\* The loop: sleep for two ticks, or what is left, until nothing is left.
WaitSleep ==
  /\ InCall("wait", "sleep")
  /\ LET ticks == IF rem < NumTicks THEN rem ELSE NumTicks
     IN  \/ /\ rem = 0 /\ Return(1, slept) /\ NoFault
         \/ /\ rem > 0 /\ NoFault
            /\ rem' = rem - ticks /\ slept' = slept + ticks /\ Goto("rerun")
            /\ UNCHANGED << n, fail, loopno, line >>
         \/ rem > 0 /\ Fault("nanosleep") /\ Return(-10, slept)
  /\ UNCHANGED << kernel, nodes, fds >>

WaitRerun ==
  /\ InCall("wait", "rerun")
  /\ \E code \in {-2, 0, 1, EX_OSERR} :
       /\ RunCommand(code, Ready(Waiting.disk))
       /\ IF code = 0 THEN NextDisk
          ELSE IF code < 0 \/ code = EX_OSERR THEN Return(code, slept)
          ELSE Goto("sleep") /\ UNCHANGED locals
  /\ UNCHANGED << kernel, nodes, fds >>

-----------------------------------------------------------------------------
(* findfs: the device is read from a pipe after the child has ended.        *)

\* If fork fails, nobody closes the pipe.
FindfsFork ==
  /\ InCall("findfs", "call")
  /\ fds' = fds \cup {"pipe0", "pipe1"}
  /\ \/ Goto("child") /\ UNCHANGED locals /\ NoFault
     \/ Return(-1, NoName) /\ Fault("fork")
  /\ UNCHANGED << kernel, nodes >>

\* The child looks for the disk, prints its name, which fits in the pipe, and
\* ends.  Then the parent, which has closed its end of the pipe, is told.
FindfsChild ==
  /\ InCall("findfs", "child")
  /\ \E code \in {0, 1, EX_OSERR} :
       \/ /\ RunsToEnd(code, Ready(Call.disk))
          /\ line' = [dev |-> IF code = 0 THEN Call.disk ELSE NoName, status |-> code]
       \/ Breaks(code) /\ line' = [dev |-> NoName, status |-> code]
  /\ fds' = fds \ {"pipe1"} /\ Goto("read")
  /\ UNCHANGED << kernel, nodes, n, fail, rem, slept, loopno >>

\* _read_first_line_from_pipe: nothing in the pipe is a failure, too.
FindfsRead ==
  /\ InCall("findfs", "read")
  /\ IF line.status = 0 /\ line.dev # NoName THEN Return(0, line.dev)
     ELSE Return(IF line.status = 0 THEN -1 ELSE line.status, NoName)
  /\ fds' = fds \ {"pipe0"}
  /\ NoFault /\ UNCHANGED << kernel, nodes >>

-----------------------------------------------------------------------------
(* Loop devices.                                                           *)

Free == {l \in Loops : loops[l] = "free"}

\* setup_loop_dev: the file is opened.
LoopOpenFile ==
  /\ InCall("losetup", "call")
  /\ \/ fds' = fds \cup {"file"} /\ Goto("getfree") /\ UNCHANGED locals /\ NoFault
     \/ UNCHANGED fds /\ Return(-1, 0) /\ Fault("open")
  /\ UNCHANGED << kernel, nodes >>

\* _get_next_free_loopdev_no: LOOP_CTL_GET_FREE tells a free one.
LoopGetFree ==
  /\ InCall("losetup", "getfree")
  /\ \/ /\ \E l \in Free : loopno' = l
        /\ Goto("open") /\ UNCHANGED << fds, n, fail, rem, slept, line >>
     \/ Free = {} /\ fds' = fds \ {"file"} /\ Return(-1, 0)
  /\ NoFault /\ UNCHANGED << kernel, nodes >>

\* _attach_fd_to_loopdev: open it.
LoopOpenDev ==
  /\ InCall("losetup", "open")
  /\ \/ fds' = fds \cup {"loopdev"} /\ Goto("setfd") /\ UNCHANGED locals /\ NoFault
     \/ fds' = fds \ {"file"} /\ Return(-1, 0) /\ Fault("open")
  /\ UNCHANGED << kernel, nodes >>

\* Fault: after a failure there is always something to clear.
LoopSetFdThenClear ==
  /\ InCall("losetup", "setfd")
  /\ \/ /\ loopno \in Free
        /\ loops' = [loops EXCEPT ![loopno] = Call.file]
        /\ Goto("setstatus") /\ UNCHANGED << fds, locals >>
     \/ /\ loopno \notin Free
        /\ loops' = [loops EXCEPT ![loopno] = "free"]
        /\ fds' = fds \ {"file", "loopdev"} /\ Return(-1, 0)
  /\ NoFault /\ UNCHANGED << plugged, agent, events, others, nodes >>

\* LOOP_SET_FD: fails with EBUSY if somebody was faster.
LoopSetFd ==
  /\ InCall("losetup", "setfd")
  /\ \/ /\ loopno \in Free
        /\ loops' = [loops EXCEPT ![loopno] = Call.file]
        /\ Goto("setstatus") /\ UNCHANGED << fds, locals >>
     \/ /\ loopno \notin Free /\ UNCHANGED loops
        /\ fds' = fds \ {"file", "loopdev"} /\ Return(-1, 0)
  /\ NoFault /\ UNCHANGED << plugged, agent, events, others, nodes >>

\* Fault: the way out that closes the file only.
CloseBothFileOnly == fds' = fds \ {"file"}

\* At the end of _attach_fd_to_loopdev and setup_loop_dev.
CloseBoth == fds' = fds \ {"file", "loopdev"}

\* LOOP_SET_STATUS64, and LOOP_CLR_FD if that fails.
LoopSetStatus ==
  /\ InCall("losetup", "setstatus")
  /\ \/ NoFault /\ Return(0, loopno) /\ UNCHANGED loops
     \/ /\ Fault("ioctl") /\ Return(-1, 0)
        /\ loops' = [loops EXCEPT ![loopno] = "free"]
  /\ CloseBoth
  /\ UNCHANGED << plugged, agent, events, others, nodes >>

\* The other process.
OtherAttaches ==
  /\ \E l \in Free : loops' = [loops EXCEPT ![l] = "other"] /\ others' = others \cup {l}
  /\ NoFault /\ UNCHANGED << plugged, agent, events, nodes, todo, pc, locals, fds, results >>

OtherDetaches ==
  /\ \E l \in others : loops' = [loops EXCEPT ![l] = "free"] /\ others' = others \ {l}
  /\ NoFault /\ UNCHANGED << plugged, agent, events, nodes, todo, pc, locals, fds, results >>

-----------------------------------------------------------------------------
InitStep ==
  \/ CreateDiskNode \/ StatNode \/ UnlinkNode \/ MakeNode \/ SeedNext
  \/ SetupMdev \/ SetupMdevScan
  \/ WaitNext \/ WaitScan \/ WaitLook \/ WaitFirstRun \/ WaitSleep \/ WaitRerun
  \/ FindfsFork \/ FindfsChild \/ FindfsRead
  \/ LoopOpenFile \/ LoopGetFree \/ LoopOpenDev \/ LoopSetFd \/ LoopSetStatus

Next == InitStep \/ Plug \/ Hotplug \/ OtherAttaches \/ OtherDetaches

Spec == Init /\ [][Next]_vars

\* /init is running, and the programs it waits for end.
FairSpec == Spec /\ WF_vars(InitStep)

-----------------------------------------------------------------------------
Latest == Last(results)
Returned(op) == pc = "call" /\ results # << >> /\ Latest.call.op = op

\* devfs.h on devfs_donod and devfs_seed: after a success ("1 on minor issues"
\* included) the node is there with the right type and numbers, whatever was
\* there before and whatever mdev has done in between.
NodesAreRight ==
  /\ Returned("node") /\ n = 1 /\ Latest.ret \in {0, 1} => Right(Latest.call.disk, "blk")
  /\ Returned("seed") /\ n = 1 /\ Latest.ret = 0 =>
       \A k \in DOMAIN Seeds : Seeds[k].fatal => Right(Seeds[k].name, Seeds[k].type)

\* A disk that has been waited for by its label with success is found by findfs
\* when it is to be mounted, later, with the nodes of /dev having been made and
\* unmade by others since.
WaitedForIsFound ==
  \A a, b \in DOMAIN results :
    /\ trouble = {} /\ Timeout > 0
    /\ a < b /\ results[a].call.op = "wait" /\ results[a].ret = 0
    /\ results[b].call.op = "findfs"
    /\ \E w \in ToSet(results[a].call.disks) :
         w.by = "label" /\ w.disk = results[b].call.disk
    => results[b].ret = 0 /\ results[b].out = results[b].call.disk

\* A wait is not given up early: the disk has been waited for all of the time,
\* to the last remainder of a tick.
GivesUpInTime ==
  \A a \in DOMAIN results :
    results[a].call.op = "wait" /\ results[a].ret = 1 => results[a].out = Timeout + 1

\* A wait ends when it should: with a disk that is there to stay, or else after
\* all of the time.
WaitsAreExact == WaitedForIsFound /\ GivesUpInTime

\* Loop devices are handed out once: what another process has attached stays
\* attached, what setup_loop_dev has returned is backed by its file, and a call
\* that fails leaves nothing attached.
LoopsAreExclusive ==
  /\ \A l \in others : loops[l] = "other"
  /\ \A a \in DOMAIN results : results[a].call.op = "losetup" /\ results[a].ret = 0 =>
       loops[results[a].out] = results[a].call.file
  /\ pc = "call" => \A l \in Loops : loops[l] \notin {"free", "other"} =>
       \E a \in DOMAIN results :
         results[a].call.op = "losetup" /\ results[a].ret = 0 /\ results[a].out = l

\* On every way out of a call its file descriptors are closed; except for the
\* pipe of a findfs that could not fork.
DescriptorsAreClosed == pc = "call" => fds = {} \/ "fork" \in trouble

\* Every call returns, whatever disks there are, whatever fails.
CallsReturn == <>(todo = << >>)
===============================================================================
