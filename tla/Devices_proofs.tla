----------------------------- MODULE Devices_proofs -----------------------------
(***************************************************************************)
(* Proofs about Devices, for every set of disks, every number of loop      *)
(* devices, every program that /init may run and every set of faults.      *)
(***************************************************************************)
EXTENDS Devices, TLAPS

PC == {"call", "stat", "unlink", "mknod", "seed", "scan", "look", "run", "sleep",
       "rerun", "child", "read", "getfree", "open", "setfd", "setstatus"}
Donod == {"stat", "unlink", "mknod"}

\* What a call may return besides its exit code.
Outs == {NoName} \cup Disks \cup Loops \cup Nat
Result == [call : Calls, ret : Int, out : Outs]

Files == {c.file : c \in {d \in Calls : d.op = "losetup"}}

\* Every variable stays in its range.
DevicesTypeOK ==
  /\ plugged \subseteq Disks /\ events \subseteq plugged
  /\ nodes = [x \in Names |-> nodes[x]]
  /\ loops \in [Loops -> {"free", "other"} \cup Files] /\ others \subseteq Loops
  /\ todo \in Seq(Calls) /\ pc \in PC
  /\ n \in Nat \ {0} /\ rem \in Nat /\ slept \in Nat
  /\ results \in Seq(Result)
  /\ line.dev \in {NoName} \cup Disks /\ line.status \in {0, 1, EX_OSERR}

\* A place in the code belongs to a call that gets there.
Where ==
  /\ pc # "call" => todo # << >>
  /\ pc = "call" /\ n # 1 => todo # << >> /\ Call.op = "wait"
  /\ pc \in Donod => \/ Call.op = "node" /\ Call.disk \in plugged
                     \/ Call.op = "seed" /\ n \in DOMAIN Seeds
  /\ pc = "seed" => Call.op = "seed"
  /\ pc = "scan" => Call.op \in {"mdev", "wait"}
  /\ pc \in {"look", "run", "sleep", "rerun"} => Call.op = "wait"
  /\ pc = "look" \/ (pc = "scan" /\ Call.op = "wait") => Waiting.by = "path"
  /\ pc \in {"child", "read"} => Call.op = "findfs"
  /\ pc \in {"open", "setfd", "setstatus"} => loopno \in Loops
  /\ pc \in {"getfree", "open", "setfd", "setstatus"} => Call.op = "losetup"

PlaceInv == DevicesTypeOK /\ Where

\* The descriptors that are open at a place.
Open(at) ==
  CASE at = "child" -> {"pipe0", "pipe1"}
    [] at = "read" -> {"pipe0"}
    [] at \in {"getfree", "open"} -> {"file"}
    [] at \in {"setfd", "setstatus"} -> {"file", "loopdev"}
    [] OTHER -> {}

FdInv == fds = Open(pc) \/ "fork" \in trouble

\* Result a hands out the loop device l.
HandsOut(a, l) ==
  results[a].call.op = "losetup" /\ results[a].ret = 0 /\ results[a].out = l

\* Whom a loop device belongs to: the other process, an earlier call, or the one
\* that is under way.
LoopInv ==
  /\ \A l \in others : loops[l] = "other"
  /\ \A a \in DOMAIN results, l \in Loops :
       HandsOut(a, l) => loops[l] = results[a].call.file
  /\ \A a \in DOMAIN results :
       results[a].call.op = "losetup" /\ results[a].ret = 0 => results[a].out \in Loops
  /\ pc = "setstatus" =>
       /\ loops[loopno] = Call.file
       /\ \A a \in DOMAIN results : ~ HandsOut(a, loopno)
  /\ \A l \in Loops : loops[l] \notin {"free", "other"} =>
       \/ pc = "setstatus" /\ l = loopno
       \/ \E a \in DOMAIN results : HandsOut(a, l)

\* The seeded nodes before the current one are right, unless the failure is noted.
SeededInv ==
  todo # << >> /\ Call.op = "seed" /\ fail = {} =>
    \A k \in DOMAIN Seeds : k < n /\ Seeds[k].fatal => Right(Seeds[k].name, Seeds[k].type)

\* A node is made only for a disk.
MadeInv ==
  \A a \in DOMAIN results : results[a].call.op = "node" /\ results[a].ret \in {0, 1} =>
    results[a].call.disk \in Disks

NodeInv == SeededInv /\ MadeInv /\ NodesAreRight

\* The time slept and the time that is left.
TimeInv ==
  /\ pc \in {"sleep", "rerun"} => slept + rem = Timeout + 1
  /\ pc \notin {"sleep", "rerun"} => slept = 0
  /\ GivesUpInTime

\* A disk that was found stays found; its node may be missing only while
\* devfs_create_disk_node replaces it.
Found(d) ==
  /\ d \in plugged
  /\ \/ Right(d, "blk")
     \/ pc = "mknod" /\ Call.op = "node" /\ Call.disk = d /\ nodes[d] = NoNode

ByLabel(c, k, d) == c.disks[k].by = "label" /\ c.disks[k].disk = d

\* A wait that has returned with success, or got past the disk, has found it.
Waited(d) ==
  \/ \E a \in DOMAIN results :
       /\ results[a].call.op = "wait" /\ results[a].ret = 0
       /\ \E k \in DOMAIN results[a].call.disks : ByLabel(results[a].call, k, d)
  \/ /\ todo # << >> /\ Call.op = "wait"
     /\ \E k \in DOMAIN Call.disks : k < n /\ ByLabel(Call, k, d)

FoundSoFar ==
  /\ \A d : Waited(d) => Found(d)
  /\ pc = "read" /\ Waited(Call.disk) => line = [dev |-> Call.disk, status |-> 0]
  /\ WaitedForIsFound

FoundInv == trouble = {} /\ Timeout > 0 => FoundSoFar
-----------------------------------------------------------------------------
(***************************************************************************)
(* Where /init is                                                          *)
(***************************************************************************)

\* What Append does to the elements of a sequence.
LEMMA AppendElements ==
  ASSUME NEW S, NEW s \in Seq(S), NEW x \in S
  PROVE  /\ Append(s, x) \in Seq(S) /\ Len(Append(s, x)) = Len(s) + 1
         /\ DOMAIN s = 1 .. Len(s) /\ DOMAIN Append(s, x) = 1 .. (Len(s) + 1)
         /\ \A a \in DOMAIN s : Append(s, x)[a] = s[a]
         /\ Append(s, x)[Len(s) + 1] = x
  OBVIOUS

\* The call that is under way is one of the calls.
LEMMA CallType ==
  ASSUME DevicesTypeOK, todo # << >>
  PROVE  Call \in Calls /\ Tail(todo) \in Seq(Calls)
  BY DEF DevicesTypeOK, Call

\* The seeds are a sequence.
LEMMA SeedsType == Len(Seeds) \in Nat /\ DOMAIN Seeds = 1 .. Len(Seeds)
  BY DevicesAssumption

\* What is local to a call.
LocalsOK ==
  /\ todo \in Seq(Calls) /\ pc \in PC
  /\ n \in Nat \ {0} /\ rem \in Nat /\ slept \in Nat
  /\ results \in Seq(Result)
  /\ line.dev \in {NoName} \cup Disks /\ line.status \in {0, 1, EX_OSERR}

\* A call that returns leaves nothing behind but its result.
LEMMA ReturnPlace ==
  ASSUME PlaceInv, todo # << >>, NEW ret \in Int, NEW out \in Outs, Return(ret, out)
  PROVE  LocalsOK' /\ Where'
  <1>1. [call |-> Call, ret |-> ret, out |-> out] \in Result
    BY CallType DEF PlaceInv, Result
  <1>2. results' \in Seq(Result)
    BY <1>1, AppendElements DEF Return, PlaceInv, DevicesTypeOK
  <1>3. LocalsOK'
    BY <1>2, CallType DEF Return, LocalsOK, PlaceInv, PC
  <1>4. Where'
    BY DEF Return, Where, Donod
  <1>. QED  BY <1>3, <1>4

\* The exit codes.
LEMMA ExitCodeType ==
  ASSUME NEW code, NEW works, ExitCode(code, works)
  PROVE  code \in {-2, 0, 1, EX_OSERR}
  BY DEF ExitCode, RunsToEnd, Breaks

\* The steps of the environment.
Environment == Plug \/ Hotplug \/ OtherAttaches \/ OtherDetaches

\* They concern no call.
LEMMA EnvironmentFrame ==
  ASSUME Environment
  PROVE  UNCHANGED <<todo, pc, locals, fds, results, trouble>> /\ plugged \subseteq plugged'
  BY DEF Environment, Plug, Hotplug, OtherAttaches, OtherDetaches, NoFault

\* devfs_donod and devfs_seed.
LEMMA NodeStepPlace ==
  ASSUME PlaceInv, CreateDiskNode \/ StatNode \/ UnlinkNode \/ MakeNode \/ SeedNext
  PROVE  LocalsOK' /\ Where'
  <1>0. DevicesTypeOK /\ Where /\ LocalsOK /\ {0, 1, -1} \subseteq Int /\ NoName \in Outs
        /\ todo # << >> /\ UNCHANGED plugged
    <2>1. todo # << >> /\ UNCHANGED plugged
      BY DEF CreateDiskNode, StatNode, UnlinkNode, MakeNode, SeedNext, InCall, kernel
    <2>. QED  BY <2>1 DEF PlaceInv, DevicesTypeOK, LocalsOK, Outs
  <1>1. ASSUME NEW code \in {0, 1, -1}, DonodReturns(code), pc \in Donod PROVE LocalsOK' /\ Where'
    <2>1. CASE Call.op = "seed"
      <3>1. /\ n' = n + 1 /\ pc' = "seed" /\ UNCHANGED <<todo, results, rem, slept, loopno, line>>
        BY <1>1, <2>1 DEF DonodReturns
      <3>2. LocalsOK'
        BY <1>0, <3>1 DEF LocalsOK, PC
      <3>. QED  BY <1>0, <2>1, <3>1, <3>2 DEF Where, Call, Donod
    <2>2. CASE Call.op # "seed"
      BY <1>0, <1>1, <2>2, ReturnPlace DEF DonodReturns
    <2>. QED  BY <2>1, <2>2
  <1>2. CASE \E ret \in {0, -1} : Return(ret, NoName)
    BY <1>0, <1>2, ReturnPlace
  <1>3. CASE CreateDiskNode /\ ~ Return(-1, NoName)
    <2>1. /\ Call.op = "node" /\ Call.disk \in plugged /\ pc' = "stat"
          /\ UNCHANGED <<todo, results, locals>>
      BY <1>3 DEF CreateDiskNode, InCall, Goto
    <2>2. LocalsOK'
      BY <1>0, <2>1 DEF LocalsOK, PC, locals
    <2>. QED  BY <1>0, <2>1, <2>2 DEF Where, Call, Donod, locals
  <1>4. ASSUME NEW at \in Donod, pc \in Donod, Goto(at), UNCHANGED locals PROVE LocalsOK' /\ Where'
    <2>1. LocalsOK'
      BY <1>0, <1>4 DEF LocalsOK, PC, Donod, locals, Goto
    <2>. QED  BY <1>0, <1>4, <2>1 DEF Where, Call, Donod, locals, Goto
  <1>5. CASE StatNode \/ UnlinkNode \/ MakeNode
    BY <1>1, <1>4, <1>5 DEF StatNode, UnlinkNode, MakeNode, Donod
  <1>6. CASE SeedNext /\ ~ \E ret \in {0, -1} : Return(ret, NoName)
    <2>1. Call.op = "seed"
      BY <1>6 DEF SeedNext, InCall
    <2>2. CASE Goto("stat") /\ UNCHANGED locals /\ n <= Len(Seeds)
      <3>1. LocalsOK'
        BY <1>0, <2>2 DEF LocalsOK, PC, locals, Goto
      <3>2. n \in DOMAIN Seeds
        BY <1>0, <2>2, SeedsType DEF LocalsOK
      <3>. QED  BY <1>0, <2>1, <2>2, <3>1, <3>2 DEF Where, Call, Donod, locals, Goto
    <2>3. CASE pc' = "seed" /\ n' = n + 1 /\ UNCHANGED <<todo, results, rem, slept, loopno, line>>
      <3>1. LocalsOK'
        BY <1>0, <2>3 DEF LocalsOK, PC
      <3>. QED  BY <1>0, <2>1, <2>3, <3>1 DEF Where, Call, Donod
    <2>. QED  BY <1>6, <2>2, <2>3 DEF SeedNext
  <1>. QED  BY <1>2, <1>3, <1>5, <1>6

\* Waiting for disks goes from one place of the loop to the next.
LEMMA WaitStepPlace ==
  ASSUME PlaceInv,
         WaitNext \/ WaitScan \/ WaitLook \/ WaitFirstRun \/ WaitSleep \/ WaitRerun
  PROVE  LocalsOK' /\ Where'
  <1>0. DevicesTypeOK /\ Where /\ LocalsOK /\ todo # << >> /\ Call.op = "wait"
    BY DEF PlaceInv, DevicesTypeOK, LocalsOK, InCall, WaitNext, WaitScan, WaitLook, WaitFirstRun,
           WaitSleep, WaitRerun
  <1>1. CASE \E ret \in Int, out \in Outs : Return(ret, out)
    BY <1>0, <1>1, ReturnPlace
  <1>2. CASE NextDisk
    <2>1. LocalsOK'
      BY <1>0, <1>2 DEF LocalsOK, PC, NextDisk
    <2>. QED  BY <1>0, <1>2, <2>1 DEF Where, Call, Donod, NextDisk
  <1>3. CASE /\ \E at \in {"scan", "look", "run", "sleep", "rerun"} :
                  Goto(at) /\ (at \in {"scan", "look"} => Waiting.by = "path")
             /\ rem' \in Nat /\ slept' \in Nat /\ UNCHANGED <<n, fail, loopno, line>>
    <2>1. LocalsOK'
      BY <1>0, <1>3 DEF LocalsOK, PC, Goto
    <2>. QED  BY <1>0, <1>3, <2>1 DEF Where, Call, Waiting, Donod, Goto
  <1>4. 0 \in Outs /\ slept \in Outs /\ {0, 1, -1, -2, -10, EX_OSERR} \subseteq Int
    BY <1>0 DEF LocalsOK, Outs, EX_OSERR
  <1>5. CASE WaitNext
    BY <1>0, <1>1, <1>2, <1>3, <1>4, <1>5 DEF WaitNext, UntilSuccess, locals, LocalsOK
  <1>6. CASE WaitScan
    <2>1. Waiting.by = "path"
      BY <1>0, <1>6 DEF WaitScan, InCall, Where
    <2>. QED  BY <1>0, <1>3, <1>6, <2>1 DEF WaitScan, locals, LocalsOK
  <1>7. CASE WaitLook
    BY <1>1, <1>2, <1>4, <1>7 DEF WaitLook
  <1>8. CASE WaitFirstRun \/ WaitRerun
    <2>1. Timeout + 1 \in Nat
      BY DevicesAssumption
    <2>2. CASE WaitFirstRun
      BY <1>0, <1>1, <1>2, <1>3, <1>4, <2>1, <2>2 DEF WaitFirstRun, LocalsOK
    <2>3. CASE WaitRerun
      BY <1>0, <1>1, <1>2, <1>3, <1>4, <2>3 DEF WaitRerun, LocalsOK, locals
    <2>. QED  BY <1>8, <2>2, <2>3
  <1>9. CASE WaitSleep
    <2>1. CASE \E ret \in {1, -10} : Return(ret, slept)
      BY <1>1, <1>4, <2>1
    <2>2. CASE /\ rem > 0 /\ Goto("rerun") /\ UNCHANGED <<n, fail, loopno, line>>
               /\ LET ticks == IF rem < NumTicks THEN rem ELSE NumTicks
                  IN  rem' = rem - ticks /\ slept' = slept + ticks
      <3>1. rem' \in Nat /\ slept' \in Nat
        BY <1>0, <2>2 DEF LocalsOK, NumTicks
      <3>. QED  BY <1>3, <2>2, <3>1
    <2>. QED  BY <1>9, <2>1, <2>2 DEF WaitSleep
  <1>. QED  BY <1>5, <1>6, <1>7, <1>8, <1>9

\* mdev, findfs and loop devices.
LEMMA OtherStepPlace ==
  ASSUME PlaceInv,
         \/ SetupMdev \/ SetupMdevScan \/ FindfsFork \/ FindfsChild \/ FindfsRead
         \/ LoopOpenFile \/ LoopGetFree \/ LoopOpenDev \/ LoopSetFd \/ LoopSetStatus
  PROVE  LocalsOK' /\ Where'
  <1>0. DevicesTypeOK /\ Where /\ LocalsOK /\ todo # << >>
    BY DEF PlaceInv, DevicesTypeOK, LocalsOK, InCall, SetupMdev, SetupMdevScan, FindfsFork,
           FindfsChild, FindfsRead, LoopOpenFile, LoopGetFree, LoopOpenDev, LoopSetFd, LoopSetStatus
  <1>1. CASE \E ret \in Int, out \in Outs : Return(ret, out)
    BY <1>0, <1>1, ReturnPlace
  <1>2. {0, -1, -2, -3, 1, EX_OSERR} \subseteq Int /\ 0 \in Outs /\ NoName \in Outs
        /\ line.dev \in Outs /\ line.status \in Int
    BY <1>0 DEF Outs, LocalsOK, EX_OSERR
  <1>3. CASE SetupMdev \/ SetupMdevScan
    <2>1. CASE Call.op = "mdev" /\ Goto("scan") /\ UNCHANGED locals
      <3>1. LocalsOK'
        BY <1>0, <2>1 DEF LocalsOK, PC, Goto, locals
      <3>. QED  BY <1>0, <2>1, <3>1 DEF Where, Call, Donod, Goto, locals
    <2>. QED  BY <1>1, <1>2, <1>3, <2>1 DEF SetupMdev, SetupMdevScan, InCall
  <1>4. CASE FindfsFork \/ FindfsChild \/ FindfsRead
    <2>0. Call.op = "findfs"
      BY <1>4 DEF FindfsFork, FindfsChild, FindfsRead, InCall
    <2>1. CASE /\ \E at \in {"child", "read"} : Goto(at)
               /\ UNCHANGED <<n, fail, rem, slept, loopno>>
               /\ line'.dev \in {NoName} \cup Disks /\ line'.status \in {0, 1, EX_OSERR}
      <3>1. LocalsOK'
        BY <1>0, <2>1 DEF LocalsOK, PC, Goto
      <3>. QED  BY <1>0, <2>0, <2>1, <3>1 DEF Where, Call, Donod, Goto
    <2>2. CASE FindfsChild
      <3>1. line'.dev \in {NoName} \cup Disks /\ line'.status \in {0, 1, EX_OSERR}
        BY <1>0, <2>2 DEF FindfsChild, RunsToEnd, Ready, DevicesTypeOK
      <3>. QED  BY <2>1, <2>2, <3>1 DEF FindfsChild
    <2>3. CASE FindfsFork \/ FindfsRead
      BY <1>0, <1>1, <1>2, <2>1, <2>3 DEF FindfsFork, FindfsRead, locals, LocalsOK
    <2>. QED  BY <1>4, <2>2, <2>3
  <1>5. CASE LoopOpenFile \/ LoopGetFree \/ LoopOpenDev \/ LoopSetFd \/ LoopSetStatus
    <2>0. Call.op = "losetup"
      BY <1>5 DEF LoopOpenFile, LoopGetFree, LoopOpenDev, LoopSetFd, LoopSetStatus, InCall
    <2>1. CASE /\ \E at \in {"getfree", "open", "setfd", "setstatus"} :
                    Goto(at) /\ (at # "getfree" => loopno' \in Loops)
               /\ UNCHANGED <<n, fail, rem, slept, line>>
      <3>1. LocalsOK'
        BY <1>0, <2>1 DEF LocalsOK, PC, Goto
      <3>. QED  BY <1>0, <2>0, <2>1, <3>1 DEF Where, Call, Donod, Goto
    <2>2. CASE LoopOpenFile \/ LoopGetFree
      BY <1>1, <1>2, <1>5, <2>1, <2>2 DEF LoopOpenFile, LoopGetFree, Free, locals
    <2>3. CASE LoopOpenDev \/ LoopSetFd \/ LoopSetStatus
      <3>1. loopno \in Loops /\ loopno \in Outs
        BY <1>0, <2>3 DEF Where, Outs, LoopOpenDev, LoopSetFd, LoopSetStatus, InCall
      <3>. QED  BY <1>1, <1>2, <2>1, <2>3, <3>1 DEF LoopOpenDev, LoopSetFd, LoopSetStatus, locals
    <2>. QED  BY <1>5, <2>2, <2>3
  <1>. QED  BY <1>3, <1>4, <1>5

\* The kernel's state, and what may have been done to it.
LEMMA KernelType ==
  ASSUME PlaceInv, Next
  PROVE  /\ plugged \subseteq plugged' /\ plugged' \subseteq Disks /\ events' \subseteq plugged'
         /\ loops' \in [Loops -> {"free", "other"} \cup Files] /\ others' \subseteq Loops
  <1>0. DevicesTypeOK /\ Where
    BY DEF PlaceInv
  <1>1. CASE Plug \/ Hotplug
    BY <1>0, <1>1 DEF Plug, Hotplug, DevicesTypeOK
  <1>2. CASE OtherAttaches \/ OtherDetaches
    BY <1>0, <1>2 DEF OtherAttaches, OtherDetaches, Free, DevicesTypeOK
  <1>3. CASE LoopSetFd \/ LoopSetStatus
    <2>1. Call.op = "losetup" /\ todo # << >> /\ UNCHANGED <<plugged, events, others>>
      BY <1>3 DEF LoopSetFd, LoopSetStatus, InCall
    <2>2. Call.file \in Files
      BY <1>0, <2>1, CallType DEF Files
    <2>3. \/ UNCHANGED loops
          \/ \E x \in {"free", Call.file} : loops' = [loops EXCEPT ![loopno] = x]
      BY <1>3 DEF LoopSetFd, LoopSetStatus
    <2>. QED  BY <1>0, <2>1, <2>2, <2>3 DEF DevicesTypeOK
  <1>4. CASE InitStep /\ ~ LoopSetFd /\ ~ LoopSetStatus
    <2>1. UNCHANGED <<plugged, events, loops, others>>
      BY <1>4 DEF InitStep, CreateDiskNode, StatNode, UnlinkNode, MakeNode, SeedNext, SetupMdev,
             SetupMdevScan, WaitNext, WaitScan, WaitLook, WaitFirstRun, WaitSleep, WaitRerun,
             FindfsFork, FindfsChild, FindfsRead, LoopOpenFile, LoopGetFree, LoopOpenDev, kernel
    <2>. QED  BY <1>0, <2>1 DEF DevicesTypeOK
  <1>. QED  BY <1>1, <1>2, <1>3, <1>4 DEF Next

\* The name that is being worked on is a name in /dev.
LEMMA NameType ==
  ASSUME PlaceInv, pc \in Donod \/ (Call.op = "seed" /\ n <= Len(Seeds))
  PROVE  Name \in Names
  <1>1. CASE Call.op = "seed"
    <2>1. n \in DOMAIN Seeds
      BY <1>1, SeedsType DEF PlaceInv, Where, DevicesTypeOK
    <2>. QED  BY <1>1, <2>1 DEF Name, Names
  <1>2. CASE Call.op # "seed"
    BY <1>2 DEF PlaceInv, Where, DevicesTypeOK, Name, Names
  <1>. QED  BY <1>1, <1>2

\* mdev touches no node that exists.
LEMMA WithNodesFrame ==
  ASSUME PlaceInv, NEW disks \in SUBSET Disks, nodes' = WithNodes(disks)
  PROVE  /\ nodes' = [x \in Names |-> nodes'[x]]
         /\ \A m \in Names : \/ nodes'[m] = nodes[m]
                             \/ nodes[m] = NoNode /\ m \in Disks /\ nodes'[m] = Node("blk", m)
  <1>1. nodes = [x \in Names |-> nodes[x]]
    BY DEF PlaceInv, DevicesTypeOK
  <1>2. DOMAIN nodes = Names
    BY <1>1
  <1>. QED  BY <1>2 DEF WithNodes, Exists

\* The steps that work on a node of /dev, which is Name.
NodeWork == UnlinkNode \/ MakeNode \/ SeedNext

\* What mdev may do to a node.
MdevChange(m) ==
  \/ nodes'[m] = nodes[m]
  \/ nodes[m] = NoNode /\ m \in Disks /\ nodes'[m] = Node("blk", m)

\* All other steps leave the nodes alone, or are mdev's.
LEMMA MdevFrame ==
  ASSUME PlaceInv, Next, ~ NodeWork
  PROVE  /\ nodes' = [x \in Names |-> nodes'[x]]
         /\ \A m \in Names : MdevChange(m)
  <1>0. nodes = [x \in Names |-> nodes[x]] /\ plugged \subseteq Disks /\ events \subseteq Disks
    BY DEF PlaceInv, DevicesTypeOK
  <1>1. CASE UNCHANGED nodes
    BY <1>0, <1>1 DEF MdevChange
  <1>2. CASE \E disks \in SUBSET Disks : nodes' = WithNodes(disks)
    BY <1>2, WithNodesFrame DEF MdevChange
  <1>3. CASE SetupMdevScan \/ WaitScan
    <2>1. UNCHANGED nodes \/ nodes' = WithNodes(plugged)
      BY <1>3 DEF SetupMdevScan, WaitScan, MdevScan
    <2>2. plugged \in SUBSET Disks
      BY <1>0
    <2>. QED  BY <1>1, <1>2, <2>1, <2>2
  <1>4. CASE Hotplug
    <2>1. \E d \in events : nodes' = WithNodes({d}) /\ {d} \in SUBSET Disks
      BY <1>0, <1>4 DEF Hotplug
    <2>. QED  BY <1>2, <2>1
  <1>5. CASE ~ (SetupMdevScan \/ WaitScan \/ Hotplug)
    <2>1. UNCHANGED nodes
      BY <1>5 DEF Next, NodeWork, Plug, OtherAttaches, OtherDetaches, InitStep, CreateDiskNode,
             StatNode, SetupMdev, WaitNext, WaitLook, WaitFirstRun, WaitSleep, WaitRerun, FindfsFork,
             FindfsChild, FindfsRead, LoopOpenFile, LoopGetFree, LoopOpenDev, LoopSetFd, LoopSetStatus
    <2>. QED  BY <1>1, <2>1
  <1>. QED  BY <1>3, <1>4, <1>5

\* Work on a node leaves the others alone.
LEMMA WorkFrame ==
  ASSUME PlaceInv, NodeWork
  PROVE  /\ nodes' = [x \in Names |-> nodes'[x]]
         /\ \A m \in Names : m # Name => nodes'[m] = nodes[m]
  <1>0. nodes = [x \in Names |-> nodes[x]]
    BY DEF PlaceInv, DevicesTypeOK
  <1>1. DOMAIN nodes = Names
    BY <1>0
  <1>2. ASSUME NEW x, nodes' = [nodes EXCEPT ![Name] = x]
        PROVE  /\ nodes' = [m \in Names |-> nodes'[m]]
               /\ \A m \in Names : m # Name => nodes'[m] = nodes[m]
    BY <1>1, <1>2
  <1>3. \/ UNCHANGED nodes
        \/ nodes' = [nodes EXCEPT ![Name] = NoNode]
        \/ nodes' = [nodes EXCEPT ![Name] = Node(Type, Name)]
        \/ nodes' = [nodes EXCEPT ![Name] = Node("lnk", Name)]
    BY DEF NodeWork, UnlinkNode, MakeNode, SeedNext, Dosym
  <1>. QED  BY <1>0, <1>2, <1>3

\* The invariant about places is inductive.
LEMMA NextPlace == PlaceInv /\ [Next]_vars => PlaceInv'
  <1> SUFFICES ASSUME PlaceInv, [Next]_vars PROVE PlaceInv'
    OBVIOUS
  <1>1. CASE UNCHANGED vars
    BY <1>1 DEF vars, kernel, locals, PlaceInv, DevicesTypeOK, Where, Call, Waiting
  <1>2. CASE Next
    <2>1. LocalsOK' /\ Where'
      <3>1. CASE InitStep
        BY <3>1, NodeStepPlace, WaitStepPlace, OtherStepPlace DEF InitStep
      <3>2. CASE Environment
        <4>1. UNCHANGED <<todo, pc, locals>> /\ UNCHANGED results /\ plugged \subseteq plugged'
          BY <3>2, EnvironmentFrame
        <4>2. LocalsOK'
          BY <4>1 DEF LocalsOK, PlaceInv, DevicesTypeOK, locals
        <4>3. UNCHANGED <<Call, Waiting, pc, todo, n, loopno>>
          BY <4>1 DEF Call, Waiting, locals
        <4>. QED  BY <4>1, <4>2, <4>3 DEF PlaceInv, Where
      <3>. QED  BY <1>2, <3>1, <3>2 DEF Next, Environment
    <2>. QED  BY <1>2, <2>1, KernelType, MdevFrame, WorkFrame DEF PlaceInv, DevicesTypeOK, LocalsOK
  <1>. QED  BY <1>1, <1>2

\* /init is at the beginning of its first call.
LEMMA InitPlace == Init => PlaceInv
  <1> SUFFICES ASSUME Init PROVE PlaceInv
    OBVIOUS
  <1>1. todo \in Seq(Calls) /\ nodes = [x \in Names |-> nodes[x]]
    BY DevicesAssumption DEF Init
  <1>2. DevicesTypeOK
    BY <1>1 DEF Init, DevicesTypeOK, PC, EX_OSERR
  <1>. QED  BY <1>2 DEF Init, PlaceInv, Where, Donod

\* Every place in the code is reached only by the calls it belongs to.
THEOREM PlaceInvariant == Spec => []PlaceInv
  BY InitPlace, NextPlace, PTL DEF Spec
-----------------------------------------------------------------------------
(***************************************************************************)
(* Descriptors                                                             *)
(***************************************************************************)

\* Every step opens and closes what the next place needs.
LEMMA NextFd == FdInv /\ [Next]_vars => FdInv'
  <1> SUFFICES ASSUME FdInv, [Next]_vars PROVE FdInv'
    OBVIOUS
  <1>1. CASE UNCHANGED vars
    BY <1>1 DEF vars, FdInv
  <1>2. CASE Environment
    BY <1>2, EnvironmentFrame DEF FdInv
  <1>3. CASE CreateDiskNode \/ StatNode \/ UnlinkNode \/ MakeNode \/ SeedNext
    <2>1. /\ UNCHANGED fds /\ trouble \subseteq trouble'
          /\ pc \in {"call", "seed", "stat", "unlink", "mknod"}
          /\ pc' \in {"call", "seed", "stat", "unlink", "mknod"}
      BY <1>3 DEF CreateDiskNode, StatNode, UnlinkNode, MakeNode, SeedNext, InCall, DonodReturns,
             Return, Goto, Chown, NoFault, Fault
    <2>. QED  BY <2>1 DEF FdInv, Open
  <1>4. CASE SetupMdev \/ SetupMdevScan \/ WaitNext \/ WaitScan \/ WaitLook \/ WaitSleep
    <2>1. /\ UNCHANGED fds /\ trouble \subseteq trouble'
          /\ pc \in {"call", "scan", "look", "sleep"}
          /\ pc' \in {"call", "scan", "look", "run", "sleep", "rerun"}
      BY <1>4 DEF SetupMdev, SetupMdevScan, WaitNext, WaitScan, WaitLook, WaitSleep, InCall,
             UntilSuccess, NextDisk, MdevScan, RunsToEnd, Breaks, Return, Goto, NoFault, Fault
    <2>. QED  BY <2>1 DEF FdInv, Open
  <1>5. CASE WaitFirstRun \/ WaitRerun
    <2>1. /\ UNCHANGED fds /\ trouble \subseteq trouble'
          /\ pc \in {"run", "rerun"} /\ pc' \in {"call", "sleep"}
      BY <1>5 DEF WaitFirstRun, WaitRerun, RunCommand, ExitCode, InCall, NextDisk, RunsToEnd, Breaks,
             Return, Goto, NoFault, Fault
    <2>. QED  BY <2>1 DEF FdInv, Open
  <1>6. CASE FindfsFork \/ FindfsChild \/ FindfsRead
    BY <1>6 DEF FindfsFork, FindfsChild, FindfsRead, InCall, RunsToEnd, Breaks, Return, Goto,
           NoFault, Fault, FdInv, Open
  <1>7. CASE LoopOpenFile \/ LoopGetFree \/ LoopOpenDev \/ LoopSetFd \/ LoopSetStatus
    BY <1>7 DEF LoopOpenFile, LoopGetFree, LoopOpenDev, LoopSetFd, LoopSetStatus, CloseBoth, InCall,
           Return, Goto, NoFault, Fault, FdInv, Open
  <1>. QED  BY <1>1, <1>2, <1>3, <1>4, <1>5, <1>6, <1>7 DEF Next, InitStep, Environment

\* Every way out of a call closes its descriptors, unless fork has failed.
THEOREM AllClosed == Spec => []DescriptorsAreClosed
  <1>1. Init => FdInv
    BY DEF Init, FdInv, Open
  <1>2. FdInv => DescriptorsAreClosed
    BY DEF FdInv, Open, DescriptorsAreClosed
  <1>. QED  BY <1>1, <1>2, NextFd, PTL DEF Spec
-----------------------------------------------------------------------------
(***************************************************************************)
(* Loop devices                                                            *)
(***************************************************************************)

\* A call that returns adds its result to the others.
LEMMA NewResult ==
  ASSUME PlaceInv, todo # << >>, NEW ret \in Int, NEW out \in Outs, Return(ret, out)
  PROVE  /\ Len(results) \in Nat /\ Call \in Calls
         /\ DOMAIN results = 1 .. Len(results) /\ DOMAIN results' = 1 .. (Len(results) + 1)
         /\ Len(results') = Len(results) + 1
         /\ \A a \in DOMAIN results : results'[a] = results[a]
         /\ results'[Len(results) + 1] = [call |-> Call, ret |-> ret, out |-> out]
  <1>1. results \in Seq(Result) /\ Call \in Calls
    BY CallType DEF PlaceInv, DevicesTypeOK
  <1>2. [call |-> Call, ret |-> ret, out |-> out] \in Result
    BY <1>1 DEF Result
  <1>. QED  BY <1>1, <1>2, AppendElements DEF Return

\* The files of the results are files.
LEMMA FilesAreFiles ==
  ASSUME PlaceInv, NEW c \in Calls, c.op = "losetup"
  PROVE  c.file \notin {"free", "other"}
  BY DevicesAssumption

\* The results are of calls.
LEMMA ResultCalls ==
  ASSUME PlaceInv
  PROVE  \A a \in DOMAIN results : results[a].call \in Calls
  <1>1. results \in Seq(Result)
    BY DEF PlaceInv, DevicesTypeOK
  <1>2. \A a \in DOMAIN results : results[a] \in Result
    BY <1>1
  <1>. QED  BY <1>2 DEF Result

\* The steps that have nothing to do with loop devices, or with no success.
LEMMA LoopsApart ==
  ASSUME PlaceInv, LoopInv, UNCHANGED <<loops, others>>, pc # "setstatus", pc' # "setstatus",
         \/ UNCHANGED results
         \/ /\ todo # << >>
            /\ \E ret \in Int, out \in Outs :
                 Return(ret, out) /\ (Call.op # "losetup" \/ ret # 0)
  PROVE  LoopInv'
  <1>1. CASE UNCHANGED results
    BY <1>1 DEF LoopInv, HandsOut
  <1>2. ASSUME todo # << >>, NEW ret \in Int, NEW out \in Outs, Return(ret, out),
               Call.op # "losetup" \/ ret # 0
        PROVE  LoopInv'
    <2>0. /\ Len(results) \in Nat
          /\ DOMAIN results = 1 .. Len(results) /\ DOMAIN results' = 1 .. (Len(results) + 1)
          /\ \A a \in DOMAIN results : results'[a] = results[a]
          /\ results'[Len(results) + 1] = [call |-> Call, ret |-> ret, out |-> out]
      BY <1>2, NewResult
    <2>1. \A a \in DOMAIN results' :
            \/ a \in DOMAIN results /\ results'[a] = results[a]
            \/ ~ (results'[a].call.op = "losetup" /\ results'[a].ret = 0)
      BY <1>2, <2>0
    <2>2. \A a \in DOMAIN results : a \in DOMAIN results' /\ results'[a] = results[a]
      BY <2>0
    <2>. QED  BY <2>1, <2>2 DEF LoopInv, HandsOut
  <1>. QED  BY <1>1, <1>2

\* What /init's steps but the last of setup_loop_dev return, if they do.
LEMMA StepResults ==
  ASSUME PlaceInv, InitStep, ~ LoopSetStatus
  PROVE  \/ UNCHANGED results
         \/ \E ret \in Int, out \in Outs :
              Return(ret, out) /\ (Call.op # "losetup" \/ ret # 0)
  <1>0. /\ {0, 1, -1, -2, -3, -10, EX_OSERR, line.status} \subseteq Int
        /\ {0, NoName, slept, line.dev} \subseteq Outs
    BY DEF PlaceInv, DevicesTypeOK, Outs, EX_OSERR
  <1>1. CASE StatNode \/ UnlinkNode \/ MakeNode
    <2>1. Call.op # "losetup"
      BY <1>1 DEF StatNode, UnlinkNode, MakeNode, PlaceInv, Where, Donod
    <2>. QED  BY <1>0, <1>1, <2>1 DEF StatNode, UnlinkNode, MakeNode, DonodReturns, Goto
  <1>2. CASE CreateDiskNode \/ SeedNext \/ SetupMdev \/ SetupMdevScan
    BY <1>0, <1>2 DEF CreateDiskNode, SeedNext, SetupMdev, SetupMdevScan, InCall, Goto
  <1>3. CASE WaitNext \/ WaitScan \/ WaitLook \/ WaitSleep
    BY <1>0, <1>3 DEF WaitNext, WaitScan, WaitLook, WaitSleep, UntilSuccess, NextDisk, InCall, Goto
  <1>4. CASE WaitFirstRun \/ WaitRerun
    BY <1>0, <1>4 DEF WaitFirstRun, WaitRerun, NextDisk, InCall, Goto
  <1>5. CASE FindfsFork \/ FindfsChild \/ FindfsRead
    BY <1>0, <1>5 DEF FindfsFork, FindfsChild, FindfsRead, InCall, Goto
  <1>6. CASE LoopOpenFile \/ LoopGetFree \/ LoopOpenDev \/ LoopSetFd
    BY <1>0, <1>6 DEF LoopOpenFile, LoopGetFree, LoopOpenDev, LoopSetFd, Goto
  <1>. QED  BY <1>1, <1>2, <1>3, <1>4, <1>5, <1>6 DEF InitStep

\* A loop device is taken when it is free, and given back only by whoever took it.
LEMMA NextLoops == PlaceInv /\ LoopInv /\ [Next]_vars => LoopInv'
  <1> SUFFICES ASSUME PlaceInv, LoopInv, [Next]_vars PROVE LoopInv'
    OBVIOUS
  <1>0. DevicesTypeOK /\ Where
    BY DEF PlaceInv
  <1>1. CASE UNCHANGED vars
    BY <1>1 DEF vars, kernel, locals, LoopInv, HandsOut, Call
  <1>2. CASE Plug \/ Hotplug
    BY <1>2 DEF Plug, Hotplug, locals, LoopInv, HandsOut, Call
  <1>3. CASE OtherAttaches \/ OtherDetaches
    <2>1. PICK l \in Loops, x \in {"free", "other"} :
            /\ loops[l] \in {"free", "other"} /\ loops' = [loops EXCEPT ![l] = x]
            /\ others' = IF x = "other" THEN others \cup {l} ELSE others \ {l}
      BY <1>0, <1>3 DEF OtherAttaches, OtherDetaches, Free, LoopInv, DevicesTypeOK
    <2>2. UNCHANGED <<todo, pc, results, loopno, Call>>
      BY <1>3 DEF OtherAttaches, OtherDetaches, locals, Call
    <2>3. loops'[l] = x /\ \A m \in Loops : m # l => loops'[m] = loops[m]
      BY <1>0, <2>1 DEF DevicesTypeOK
    <2>4. \A m \in others' : loops'[m] = "other"
      BY <1>0, <2>1, <2>3 DEF LoopInv, DevicesTypeOK
    <2>5. \A a \in DOMAIN results' : ~ HandsOut(a, l)'
      BY <2>1, <2>2, ResultCalls, FilesAreFiles DEF LoopInv, HandsOut
    <2>6. pc = "setstatus" => l # loopno
      <3>1. pc = "setstatus" => Call \in Calls /\ Call.op = "losetup"
        BY <1>0, CallType DEF Where
      <3>. QED  BY <2>1, <3>1, FilesAreFiles DEF LoopInv
    <2>7. pc = "setstatus" => loopno \in Loops
      BY <1>0 DEF Where
    <2>8. LoopInv!2' /\ LoopInv!3'
      BY <2>2, <2>3, <2>5 DEF LoopInv, HandsOut
    <2>9. LoopInv!4'
      BY <2>2, <2>3, <2>6, <2>7 DEF LoopInv, HandsOut
    <2>10. LoopInv!5'
      BY <2>2, <2>1, <2>3 DEF LoopInv, HandsOut
    <2>. QED  BY <2>4, <2>8, <2>9, <2>10 DEF LoopInv
  <1>4. CASE LoopSetFd
    <2>1. todo # << >> /\ Call.op = "losetup" /\ pc = "setfd" /\ loopno \in Loops
          /\ UNCHANGED others
      BY <1>0, <1>4 DEF LoopSetFd, InCall, Where
    <2>2. CASE UNCHANGED loops /\ Return(-1, 0)
      <3>1. pc' = "call" /\ 0 \in Outs
        BY <2>2 DEF Return, Outs
      <3>. QED  BY <2>1, <2>2, <3>1, LoopsApart
    <2>3. CASE /\ loopno \in Free /\ loops' = [loops EXCEPT ![loopno] = Call.file]
               /\ Goto("setstatus") /\ UNCHANGED locals
      <3>1. UNCHANGED <<todo, results, loopno, Call>> /\ pc' = "setstatus"
        BY <2>3 DEF Goto, locals, Call
      <3>2. loops'[loopno] = Call.file /\ \A m \in Loops : m # loopno => loops'[m] = loops[m]
        BY <1>0, <2>1, <2>3 DEF DevicesTypeOK
      <3>3. loopno \notin others /\ \A a \in DOMAIN results : ~ HandsOut(a, loopno)
        BY <2>1, <2>3, ResultCalls, FilesAreFiles DEF LoopInv, HandsOut, Free
      <3>4. \A l \in others' : loops'[l] = "other"
        BY <1>0, <2>1, <3>2, <3>3 DEF LoopInv, DevicesTypeOK
      <3>5. LoopInv!2' /\ LoopInv!3'
        BY <3>1, <3>2, <3>3 DEF LoopInv, HandsOut
      <3>6. LoopInv!4' /\ LoopInv!5'
        BY <3>1, <3>2, <3>3 DEF LoopInv, HandsOut
      <3>. QED  BY <3>4, <3>5, <3>6 DEF LoopInv
    <2>. QED  BY <1>4, <2>2, <2>3 DEF LoopSetFd
  <1>5. CASE LoopSetStatus
    <2>1. todo # << >> /\ Call.op = "losetup" /\ pc = "setstatus" /\ loopno \in Loops
          /\ UNCHANGED others /\ loopno \in Outs /\ 0 \in Outs /\ Call \in Calls
      BY <1>0, <1>5, CallType DEF LoopSetStatus, InCall, Where, Outs
    <2>2. loops[loopno] = Call.file /\ loops[loopno] \notin {"free", "other"}
          /\ loopno \notin others
      BY <2>1, FilesAreFiles DEF LoopInv
    <2>3. CASE Return(0, loopno) /\ UNCHANGED loops
      <3>1. /\ DOMAIN results' = DOMAIN results \cup {Len(results) + 1}
            /\ \A a \in DOMAIN results : results'[a] = results[a]
            /\ results'[Len(results) + 1] = [call |-> Call, ret |-> 0, out |-> loopno]
            /\ pc' = "call"
        BY <2>1, <2>3, NewResult DEF Return
      <3>2. LoopInv!1' /\ LoopInv!4'
        BY <2>1, <2>3, <3>1 DEF LoopInv
      <3>3. LoopInv!2' /\ LoopInv!3'
        BY <2>1, <2>2, <2>3, <3>1 DEF LoopInv, HandsOut
      <3>4. LoopInv!5'
        BY <2>1, <2>3, <3>1 DEF LoopInv, HandsOut
      <3>. QED  BY <3>2, <3>3, <3>4 DEF LoopInv
    <2>4. CASE Return(-1, 0) /\ loops' = [loops EXCEPT ![loopno] = "free"]
      <3>1. /\ DOMAIN results' = DOMAIN results \cup {Len(results) + 1}
            /\ \A a \in DOMAIN results : results'[a] = results[a]
            /\ results'[Len(results) + 1] = [call |-> Call, ret |-> -1, out |-> 0]
            /\ pc' = "call"
        BY <2>1, <2>4, NewResult DEF Return
      <3>2. loops'[loopno] = "free" /\ \A m \in Loops : m # loopno => loops'[m] = loops[m]
        BY <1>0, <2>1, <2>4 DEF DevicesTypeOK
      <3>3. \A a \in DOMAIN results : ~ HandsOut(a, loopno)
        BY <2>1 DEF LoopInv
      <3>4. LoopInv!1' /\ LoopInv!4'
        BY <1>0, <2>1, <2>2, <3>1, <3>2 DEF LoopInv, DevicesTypeOK
      <3>5. LoopInv!2' /\ LoopInv!3'
        BY <3>1, <3>2, <3>3 DEF LoopInv, HandsOut
      <3>6. LoopInv!5'
        BY <3>1, <3>2 DEF LoopInv, HandsOut
      <3>. QED  BY <3>4, <3>5, <3>6 DEF LoopInv
    <2>. QED  BY <1>5, <2>3, <2>4 DEF LoopSetStatus
  <1>6. CASE InitStep /\ ~ LoopSetFd /\ ~ LoopSetStatus
    <2>1. UNCHANGED <<loops, others>> /\ pc # "setstatus" /\ pc' # "setstatus" /\ todo # << >>
      BY <1>6 DEF InitStep, CreateDiskNode, StatNode, UnlinkNode, MakeNode, SeedNext, SetupMdev,
             SetupMdevScan, WaitNext, WaitScan, WaitLook, WaitFirstRun, WaitSleep, WaitRerun,
             FindfsFork, FindfsChild, FindfsRead, LoopOpenFile, LoopGetFree, LoopOpenDev, kernel,
             InCall, DonodReturns, Return, Goto, NextDisk, UntilSuccess
    <2>2. \/ UNCHANGED results
          \/ \E ret \in Int, out \in Outs :
               Return(ret, out) /\ (Call.op # "losetup" \/ ret # 0)
      BY <1>6, StepResults
    <2>. QED  BY <2>1, <2>2, LoopsApart
  <1>. QED  BY <1>1, <1>2, <1>3, <1>4, <1>5, <1>6 DEF Next

\* No loop device is handed out twice or taken from another process, and a call that
\* fails leaves nothing attached, however the other process interferes.
THEOREM ExclusiveLoops == Spec => []LoopsAreExclusive
  <1>1. Init => LoopInv
    BY DEF Init, LoopInv, HandsOut
  <1>2. LoopInv => LoopsAreExclusive
    BY DEF LoopInv, HandsOut, LoopsAreExclusive
  <1>. QED  BY <1>1, <1>2, NextLoops, PlaceInvariant, PTL DEF Spec
-----------------------------------------------------------------------------
(***************************************************************************)
(* The time that is waited                                                 *)
(***************************************************************************)

\* A new result says nothing about giving up, or the right thing.
LEMMA ResultInTime ==
  ASSUME PlaceInv, GivesUpInTime, todo # << >>, NEW ret \in Int, NEW out \in Outs,
         Return(ret, out), Call.op = "wait" /\ ret = 1 => out = Timeout + 1
  PROVE  GivesUpInTime'
  <1>0. /\ Len(results) \in Nat
        /\ DOMAIN results = 1 .. Len(results) /\ DOMAIN results' = 1 .. (Len(results) + 1)
        /\ \A a \in DOMAIN results : results'[a] = results[a]
        /\ results'[Len(results) + 1] = [call |-> Call, ret |-> ret, out |-> out]
    BY NewResult
  <1>. QED  BY <1>0 DEF GivesUpInTime

\* What has been slept and what remains always make up the timeout.
LEMMA NextTime == PlaceInv /\ TimeInv /\ [Next]_vars => TimeInv'
  <1> SUFFICES ASSUME PlaceInv, TimeInv, [Next]_vars PROVE TimeInv'
    OBVIOUS
  <1>0. /\ Timeout \in Nat /\ GivesUpInTime /\ slept \in Nat /\ rem \in Nat
        /\ {0, 1, -1, -2, -10, EX_OSERR} \subseteq Int /\ {0, slept} \subseteq Outs
    BY DevicesAssumption DEF PlaceInv, DevicesTypeOK, TimeInv, Outs, EX_OSERR
  <1>1. CASE UNCHANGED vars
    BY <1>1 DEF vars, locals, TimeInv, GivesUpInTime
  <1>2. CASE Environment
    BY <1>2, EnvironmentFrame DEF locals, TimeInv, GivesUpInTime
  <1>3. ASSUME todo # << >>, NEW ret \in Int, NEW out \in Outs, Return(ret, out),
               Call.op = "wait" /\ ret = 1 => out = Timeout + 1
        PROVE  TimeInv'
    <2>1. GivesUpInTime'
      BY <1>0, <1>3, ResultInTime
    <2>. QED  BY <1>3, <2>1 DEF Return, TimeInv
  <1>4. CASE NextDisk
    BY <1>0, <1>4 DEF NextDisk, TimeInv, GivesUpInTime
  <1>5. CASE /\ UNCHANGED <<slept, results>>
             /\ pc \notin {"sleep", "rerun"} /\ pc' \notin {"sleep", "rerun"}
    BY <1>0, <1>5 DEF TimeInv, GivesUpInTime
  <1>6. CASE /\ InitStep
             /\ ~ (WaitNext \/ WaitScan \/ WaitLook \/ WaitFirstRun \/ WaitSleep \/ WaitRerun)
    <2>1. todo # << >> /\ Call.op # "wait" /\ pc \notin {"sleep", "rerun"}
      <3>1. CASE SetupMdev \/ SetupMdevScan \/ FindfsFork \/ FindfsChild \/ FindfsRead
        BY <3>1 DEF InCall, SetupMdev, SetupMdevScan, FindfsFork, FindfsChild, FindfsRead
      <3>2. CASE LoopOpenFile \/ LoopGetFree \/ LoopOpenDev \/ LoopSetFd \/ LoopSetStatus
        BY <3>2 DEF InCall, LoopOpenFile, LoopGetFree, LoopOpenDev, LoopSetFd, LoopSetStatus
      <3>3. CASE CreateDiskNode \/ StatNode \/ UnlinkNode \/ MakeNode \/ SeedNext
        BY <3>3 DEF InCall, CreateDiskNode, StatNode, UnlinkNode, MakeNode, SeedNext, PlaceInv,
               Where, Donod
      <3>. QED  BY <1>6, <3>1, <3>2, <3>3 DEF InitStep
    <2>2. CASE LoopSetStatus
      <3>1. loopno \in Outs
        BY <2>2 DEF LoopSetStatus, InCall, PlaceInv, Where, Outs
      <3>. QED  BY <1>0, <1>3, <2>1, <2>2, <3>1 DEF LoopSetStatus
    <2>3. CASE UNCHANGED results /\ ~ LoopSetStatus
      <3>1. \/ UNCHANGED slept /\ pc' \notin {"sleep", "rerun"}
            \/ \E ret, out : Return(ret, out)
        BY <1>6, <2>3 DEF InitStep, CreateDiskNode, StatNode, UnlinkNode, MakeNode, SeedNext,
               SetupMdev, SetupMdevScan, FindfsFork, FindfsChild, FindfsRead, LoopOpenFile,
               LoopGetFree, LoopOpenDev, LoopSetFd, DonodReturns, Goto, locals
      <3>2. ASSUME NEW ret, NEW out, Return(ret, out) PROVE TimeInv'
        BY <1>0, <2>3, <3>2 DEF Return, TimeInv, GivesUpInTime
      <3>. QED  BY <1>5, <2>1, <2>3, <3>1, <3>2
    <2>. QED  BY <1>3, <1>6, <2>1, <2>2, <2>3, StepResults
  <1>7. CASE WaitNext \/ WaitScan \/ WaitLook
    <2>1. todo # << >> /\ pc \notin {"sleep", "rerun"}
      BY <1>7 DEF WaitNext, WaitScan, WaitLook, InCall
    <2>2. \/ \E ret \in {0, -1} : Return(ret, 0)
          \/ NextDisk
          \/ UNCHANGED <<slept, results>> /\ pc' \notin {"sleep", "rerun"}
      BY <1>7 DEF WaitNext, WaitScan, WaitLook, UntilSuccess, Goto, locals
    <2>. QED  BY <1>0, <1>3, <1>4, <1>5, <2>1, <2>2
  <1>8. CASE WaitFirstRun \/ WaitRerun
    <2>1. todo # << >>
      BY <1>8 DEF WaitFirstRun, WaitRerun, InCall
    <2>2. CASE \E ret \in {-2, EX_OSERR} : Return(ret, slept)
      BY <1>0, <1>3, <2>1, <2>2 DEF EX_OSERR
    <2>3. CASE /\ Goto("sleep")
               /\ \/ pc = "run" /\ rem' = Timeout + 1 /\ UNCHANGED slept
                  \/ pc = "rerun" /\ UNCHANGED <<rem, slept>>
      BY <1>0, <2>3 DEF Goto, TimeInv, GivesUpInTime
    <2>. QED  BY <1>4, <1>8, <2>2, <2>3 DEF WaitFirstRun, WaitRerun, InCall, locals, EX_OSERR
  <1>9. CASE WaitSleep
    <2>1. todo # << >> /\ pc = "sleep" /\ slept + rem = Timeout + 1
      BY <1>9 DEF WaitSleep, InCall, TimeInv
    <2>2. CASE rem = 0 /\ Return(1, slept)
      BY <1>0, <1>3, <2>1, <2>2
    <2>3. CASE Return(-10, slept)
      BY <1>0, <1>3, <2>1, <2>3
    <2>4. CASE /\ Goto("rerun")
               /\ LET ticks == IF rem < NumTicks THEN rem ELSE NumTicks
                  IN  rem' = rem - ticks /\ slept' = slept + ticks
      <3>1. slept' + rem' = Timeout + 1
        BY <1>0, <2>1, <2>4 DEF NumTicks
      <3>. QED  BY <1>0, <2>4, <3>1 DEF Goto, TimeInv, GivesUpInTime
    <2>. QED  BY <1>9, <2>2, <2>3, <2>4 DEF WaitSleep
  <1>. QED  BY <1>1, <1>2, <1>6, <1>7, <1>8, <1>9 DEF Next, InitStep, Environment

\* Hence no wait is given up before its time.
LEMMA TimeInvariant == Spec => []TimeInv
  <1>1. Init => TimeInv
    BY DEF Init, TimeInv, GivesUpInTime
  <1>. QED  BY <1>1, NextTime, PlaceInvariant, PTL DEF Spec
-----------------------------------------------------------------------------
(***************************************************************************)
(* Device nodes                                                            *)
(***************************************************************************)

\* mdev leaves a right node alone.
LEMMA RightStays ==
  ASSUME NEW m \in Names, NEW t, Right(m, t), MdevChange(m)
  PROVE  Right(m, t)'
  <1>1. Node(t, m) # NoNode
    BY DevicesAssumption DEF Node, NoNode
  <1>. QED  BY <1>1 DEF Right, MdevChange

\* devfs_donod's test never finds a node that may stay.
LEMMA NeverValid ==
  ASSUME PlaceInv, pc \in Donod
  PROVE  ~ IsValidNode(Name, Type)
  BY NameType, DevicesAssumption DEF IsValidNode, StDev

\* The names of two seeds are different.
LEMMA SeedNames ==
  ASSUME NEW j \in DOMAIN Seeds, NEW k \in DOMAIN Seeds, j # k
  PROVE  Seeds[j].name # Seeds[k].name /\ Seeds[k].name \in Names /\ Seeds[k].name \notin Disks
  BY DevicesAssumption DEF Names

\* The latest result, when a call returns.
LEMMA LatestResult ==
  ASSUME PlaceInv, todo # << >>, NEW ret \in Int, NEW out \in Outs, Return(ret, out)
  PROVE  Latest' = [call |-> Call, ret |-> ret, out |-> out]
  BY NewResult DEF Latest, Last

\* The results of devfs_create_disk_node, when a call returns.
LEMMA ReturnMade ==
  ASSUME PlaceInv, MadeInv, todo # << >>, NEW ret \in Int, NEW out \in Outs, Return(ret, out),
         Call.op = "node" /\ ret \in {0, 1} => Call.disk \in Disks
  PROVE  MadeInv'
  <1>0. /\ Len(results) \in Nat
        /\ DOMAIN results = 1 .. Len(results) /\ DOMAIN results' = 1 .. (Len(results) + 1)
        /\ \A a \in DOMAIN results : results'[a] = results[a]
        /\ results'[Len(results) + 1] = [call |-> Call, ret |-> ret, out |-> out]
    BY NewResult
  <1>. QED  BY <1>0 DEF MadeInv

\* A call that returns with success has made its nodes.
LEMMA ReturnNodes ==
  ASSUME PlaceInv, MadeInv, todo # << >>, NEW ret \in Int, NEW out \in Outs, Return(ret, out),
         Call.op = "node" /\ ret \in {0, 1} =>
           Call.disk \in Disks /\ nodes'[Call.disk] = Node("blk", Call.disk),
         Call.op = "seed" /\ ret = 0 =>
           \A k \in DOMAIN Seeds : Seeds[k].fatal => Right(Seeds[k].name, Seeds[k].type)'
  PROVE  NodeInv'
  <1>1. MadeInv'
    BY ReturnMade
  <1>2. NodesAreRight'
    <2>1. Latest' = [call |-> Call, ret |-> ret, out |-> out]
      BY LatestResult
    <2>2. Returned("node")' => Call.op = "node"
      BY <2>1 DEF Returned
    <2>3. Returned("seed")' => Call.op = "seed"
      BY <2>1 DEF Returned
    <2>. QED  BY <2>1, <2>2, <2>3 DEF NodesAreRight, Right
  <1>3. SeededInv'
    BY SeedsType DEF SeededInv, Return
  <1>. QED  BY <1>1, <1>2, <1>3 DEF NodeInv

\* devfs_seed is done with one node.
LEMMA SeedAdvance ==
  ASSUME PlaceInv, NodeInv, NodeWork, Call.op = "seed", n \in DOMAIN Seeds,
         UNCHANGED <<todo, results>>, pc' = "seed", n' = n + 1,
         fail' = {} => fail = {} /\ (Seeds[n].fatal =>
                         nodes'[Seeds[n].name] = Node(Seeds[n].type, Seeds[n].name)),
         todo # << >>
  PROVE  NodeInv'
  <1>1. Name = Seeds[n].name
    BY DEF Name
  <1>2. \A k \in DOMAIN Seeds : k # n /\ Right(Seeds[k].name, Seeds[k].type) =>
          Right(Seeds[k].name, Seeds[k].type)'
    BY <1>1, SeedNames, WorkFrame DEF Right
  <1>3. \A k \in DOMAIN Seeds : k < n' => k < n \/ k = n
    BY SeedsType
  <1>4. SeededInv'
    BY <1>2, <1>3 DEF NodeInv, SeededInv, Call, Right
  <1>. QED  BY <1>4 DEF NodeInv, MadeInv, NodesAreRight, Returned

\* devfs_donod goes on with the node it works on, or another step goes to a place
\* inside of its call.
LEMMA GotoNodes ==
  ASSUME PlaceInv, NodeInv, UNCHANGED <<todo, results, n, fail>>, pc' # "call",
         \A m \in Names : \A t : Right(m, t) /\ ~ (NodeWork /\ Name = m) => Right(m, t)',
         NodeWork /\ Call.op = "seed" => n \in DOMAIN Seeds
  PROVE  NodeInv'
  <1>1. \A k \in DOMAIN Seeds :
          k < n /\ Call.op = "seed" /\ Right(Seeds[k].name, Seeds[k].type) =>
            Right(Seeds[k].name, Seeds[k].type)'
    BY SeedNames, SeedsType DEF Name, Names
  <1>2. SeededInv'
    BY <1>1 DEF NodeInv, SeededInv, Call
  <1>. QED  BY <1>2 DEF NodeInv, MadeInv, NodesAreRight, Returned

\* Steps that do not work on a node.
LEMMA ApartNodes ==
  ASSUME PlaceInv, NodeInv, Next, ~ NodeWork
  PROVE  NodeInv'
  <1>1. \A m \in Names : \A t : Right(m, t) => Right(m, t)'
    BY MdevFrame, RightStays
  <1>2. CASE UNCHANGED <<todo, pc, results, n, fail>>
    <2>1. SeededInv'
      BY <1>1, <1>2 DEF NodeInv, SeededInv, Call, Names
    <2>2. MadeInv'
      BY <1>2 DEF NodeInv, MadeInv
    <2>3. Returned("node") /\ Latest.ret \in {0, 1} => Latest.call.disk \in Names
      <3>1. results # << >> => Len(results) \in DOMAIN results
        BY DEF PlaceInv, DevicesTypeOK
      <3>. QED  BY <3>1 DEF NodeInv, MadeInv, Returned, Latest, Last, Names
    <2>4. NodesAreRight'
      BY <1>1, <1>2, <2>3 DEF NodeInv, NodesAreRight, Returned, Latest, Names
    <2>. QED  BY <2>1, <2>2, <2>4 DEF NodeInv
  <1>3. CASE UNCHANGED <<todo, results, n, fail>> /\ pc' # "call"
    BY <1>1, <1>3, GotoNodes
  <1>4. ASSUME todo # << >>, NEW ret \in Int, NEW out \in Outs, Return(ret, out),
               Call.op \notin {"node", "seed"} \/ ret \notin {0, 1}
        PROVE  NodeInv'
    BY <1>4, ReturnNodes DEF NodeInv
  <1>5. CASE NextDisk /\ todo # << >> /\ Call.op = "wait"
    <2>1. n' # 1
      BY <1>5 DEF NextDisk, PlaceInv, DevicesTypeOK
    <2>2. SeededInv'
      BY <1>5 DEF SeededInv, NextDisk, Call
    <2>. QED  BY <1>5, <2>1, <2>2 DEF NodeInv, MadeInv, NodesAreRight, NextDisk
  <1>6. CASE Environment
    BY <1>2, <1>6, EnvironmentFrame DEF locals
  <1>7. CASE InitStep
    <2>0. /\ {0, 1, -1, -2, -3, -10, EX_OSERR, line.status} \subseteq Int
          /\ {0, NoName, slept, line.dev} \subseteq Outs
      BY DEF PlaceInv, DevicesTypeOK, Outs, EX_OSERR
    <2>1. CASE CreateDiskNode \/ StatNode
      <3>1. CASE CreateDiskNode
        BY <1>3, <1>4, <2>0, <3>1 DEF CreateDiskNode, InCall, Goto, locals
      <3>2. CASE StatNode
        <4>1. ~ IsValidNode(Name, Type)
          BY <3>2, NeverValid DEF StatNode, Donod
        <4>. QED  BY <1>3, <3>2, <4>1 DEF StatNode, Goto, locals
      <3>. QED  BY <2>1, <3>1, <3>2
    <2>2. CASE SetupMdev \/ SetupMdevScan
      BY <1>3, <1>4, <2>0, <2>2 DEF SetupMdev, SetupMdevScan, InCall, Goto, locals
    <2>3. CASE WaitNext \/ WaitScan \/ WaitLook \/ WaitSleep
      BY <1>3, <1>4, <1>5, <2>0, <2>3
         DEF WaitNext, WaitScan, WaitLook, WaitSleep, UntilSuccess, InCall, Goto, locals
    <2>4. CASE WaitFirstRun \/ WaitRerun
      BY <1>3, <1>4, <1>5, <2>0, <2>4 DEF WaitFirstRun, WaitRerun, InCall, Goto, locals
    <2>5. CASE FindfsFork \/ FindfsChild \/ FindfsRead
      BY <1>3, <1>4, <2>0, <2>5 DEF FindfsFork, FindfsChild, FindfsRead, InCall, Goto, locals
    <2>6. CASE LoopOpenFile \/ LoopGetFree \/ LoopOpenDev \/ LoopSetFd \/ LoopSetStatus
      <3>1. LoopSetStatus => loopno \in Outs
        BY DEF LoopSetStatus, InCall, PlaceInv, Where, Outs
      <3>. QED  BY <1>3, <1>4, <2>0, <2>6, <3>1
                DEF LoopOpenFile, LoopGetFree, LoopOpenDev, LoopSetFd, LoopSetStatus, InCall, Goto,
                    locals
    <2>. QED  BY <1>7, <2>1, <2>2, <2>3, <2>4, <2>5, <2>6 DEF InitStep, NodeWork
  <1>. QED  BY <1>6, <1>7 DEF Next, Environment

\* Steps that do.
LEMMA WorkNodes ==
  ASSUME PlaceInv, NodeInv, NodeWork
  PROVE  NodeInv'
  <1>0. todo # << >> /\ {0, 1, -1} \subseteq Int /\ NoName \in Outs /\ DevicesTypeOK /\ Where
        /\ nodes = [x \in Names |-> nodes[x]]
    <2>1. todo # << >>
      BY DEF NodeWork, UnlinkNode, MakeNode, SeedNext, InCall
    <2>. QED  BY <2>1 DEF Outs, PlaceInv, DevicesTypeOK
  <1>1. \A m \in Names : \A t : Right(m, t) /\ m # Name => Right(m, t)'
    BY WorkFrame DEF Right
  <1>2. ASSUME pc \in Donod, DonodReturns(-1) PROVE NodeInv'
    <2>1. CASE Call.op = "seed"
      <3>1. -1 \notin {0, 1}
        OBVIOUS
      <3>2. /\ n' = n + 1 /\ pc' = "seed" /\ UNCHANGED <<todo, results>>
            /\ fail' = IF ~Seeds[n].fatal THEN fail ELSE fail \cup {1}
        BY <1>2, <2>1, <3>1 DEF DonodReturns
      <3>. QED  BY <1>0, <1>2, <2>1, <3>2, SeedAdvance DEF Where
    <2>2. CASE Call.op # "seed"
      BY <1>0, <1>2, <2>2, ReturnNodes DEF DonodReturns, NodeInv
    <2>. QED  BY <2>1, <2>2
  <1>3. ASSUME pc \in Donod, NEW code \in {0, 1}, DonodReturns(code),
               nodes' = [nodes EXCEPT ![Name] = Node(Type, Name)]
        PROVE  NodeInv'
    <2>1. nodes'[Name] = Node(Type, Name)
      BY <1>0, <1>3, NameType
    <2>2. CASE Call.op = "seed"
      BY <1>0, <1>3, <2>1, <2>2, SeedAdvance DEF DonodReturns, Where, Name, Type
    <2>3. CASE Call.op # "seed"
      <3>1. Call.disk \in Disks /\ Name = Call.disk /\ Type = "blk"
        BY <1>0, <1>3, <2>3 DEF Where, DevicesTypeOK, Name, Type
      <3>. QED  BY <1>0, <1>3, <2>1, <2>3, <3>1, ReturnNodes DEF DonodReturns, NodeInv
    <2>. QED  BY <2>2, <2>3
  <1>4. CASE UnlinkNode
    <2>1. pc \in Donod
      BY <1>4 DEF UnlinkNode, Donod
    <2>2. CASE Goto("mknod") /\ UNCHANGED locals
      BY <1>0, <1>1, <2>1, <2>2, GotoNodes DEF Goto, locals, Where
    <2>. QED  BY <1>2, <1>4, <2>1, <2>2 DEF UnlinkNode
  <1>5. CASE MakeNode
    <2>1. pc \in Donod
      BY <1>5 DEF MakeNode, Donod
    <2>. QED  BY <1>2, <1>3, <1>5, <2>1 DEF MakeNode
  <1>6. CASE SeedNext
    <2>1. Call.op = "seed"
      BY <1>6 DEF SeedNext, InCall
    <2>2. CASE n > Len(Seeds) /\ Return(IF fail = {} THEN 0 ELSE -1, NoName) /\ UNCHANGED nodes
      <3>1. \A k \in DOMAIN Seeds : k < n
        BY <1>0, <2>2, SeedsType DEF DevicesTypeOK
      <3>2. fail = {} => \A k \in DOMAIN Seeds : Seeds[k].fatal =>
                           Right(Seeds[k].name, Seeds[k].type)'
        BY <1>0, <2>1, <2>2, <3>1 DEF NodeInv, SeededInv, Right
      <3>3. CASE fail = {}
        <4>1. Return(0, NoName)
          BY <2>2, <3>3
        <4>. QED  BY <1>0, <2>1, <3>2, <3>3, <4>1, ReturnNodes DEF NodeInv
      <3>4. CASE fail # {}
        <4>1. Return(-1, NoName)
          BY <2>2, <3>4
        <4>2. ASSUME NEW ret \in Int, ret # 0, Return(ret, NoName) PROVE NodeInv'
          BY <1>0, <2>1, <4>2, ReturnNodes DEF NodeInv
        <4>. QED  BY <4>1, <4>2
      <3>. QED  BY <3>3, <3>4
    <2>3. n <= Len(Seeds) => n \in DOMAIN Seeds
      BY <1>0, SeedsType DEF DevicesTypeOK
    <2>4. CASE n <= Len(Seeds) /\ Goto("stat") /\ UNCHANGED locals
      BY <1>0, <1>1, <2>3, <2>4, GotoNodes DEF Goto, locals
    <2>5. CASE /\ n <= Len(Seeds) /\ Type = "lnk" /\ pc' = "seed" /\ n' = n + 1
               /\ UNCHANGED <<todo, results>>
               /\ \/ /\ nodes[Name].type # "dir"
                     /\ nodes' = Dosym(Name) /\ UNCHANGED fail
                  \/ fail' = IF Seeds[n].fatal THEN fail \cup {2} ELSE fail
      <3>1. Name = Seeds[n].name /\ Type = Seeds[n].type /\ Name \in Names
        BY <2>1, <2>5, NameType DEF Name, Type
      <3>2. fail' = {} => fail = {} /\ (Seeds[n].fatal => nodes'[Name] = Node(Type, Name))
        BY <1>0, <2>5, <3>1 DEF Dosym
      <3>. QED  BY <1>0, <2>1, <2>3, <2>5, <3>1, <3>2, SeedAdvance
    <2>. QED  BY <1>6, <2>2, <2>4, <2>5 DEF SeedNext
  <1>. QED  BY <1>4, <1>5, <1>6 DEF NodeWork

\* The invariant about nodes is inductive.
LEMMA NextNodes == PlaceInv /\ NodeInv /\ [Next]_vars => NodeInv'
  <1> SUFFICES ASSUME PlaceInv, NodeInv, [Next]_vars PROVE NodeInv'
    OBVIOUS
  <1>1. CASE UNCHANGED vars
    BY <1>1 DEF vars, kernel, locals, NodeInv, SeededInv, MadeInv, NodesAreRight, Returned, Latest,
           Right, Call
  <1>. QED  BY <1>1, ApartNodes, WorkNodes

\* devfs_donod and devfs_seed report success only of nodes that are right, whatever
\* was there before and whatever mdev does in between.
THEOREM RightNodes == Spec => []NodesAreRight
  <1>1. Init => NodeInv
    BY SeedsType DEF Init, NodeInv, SeededInv, MadeInv, NodesAreRight, Returned
  <1>2. NodeInv => NodesAreRight
    BY DEF NodeInv
  <1>. QED  BY <1>1, <1>2, NextNodes, PlaceInvariant, PTL DEF Spec
-----------------------------------------------------------------------------
(***************************************************************************)
(* Disks that have been waited for                                         *)
(***************************************************************************)

\* A disk that was found stays found, as long as nothing goes wrong.
LEMMA FoundStays ==
  ASSUME PlaceInv, Next, trouble' = {}, NEW d, Found(d)
  PROVE  Found(d)'
  <1>0. /\ d \in plugged' /\ d \in Names /\ d \in Disks /\ NoNode # Node("blk", d)
        /\ nodes = [x \in Names |-> nodes[x]]
    BY KernelType, DevicesAssumption DEF Found, PlaceInv, DevicesTypeOK, Names, Node, NoNode
  <1>1. CASE ~ NodeWork
    <2>1. MdevChange(d)
      BY <1>0, <1>1, MdevFrame
    <2>2. CASE Right(d, "blk")
      BY <1>0, <2>1, <2>2, RightStays DEF Found
    <2>3. CASE pc = "mknod" /\ Call.op = "node" /\ Call.disk = d /\ nodes[d] = NoNode
      <3>1. UNCHANGED <<pc, todo>>
        <4>1. ~ InitStep
          BY <1>1, <2>3 DEF NodeWork, InitStep, CreateDiskNode, StatNode, SetupMdev, SetupMdevScan,
                 WaitNext, WaitScan, WaitLook, WaitFirstRun, WaitSleep, WaitRerun, FindfsFork,
                 FindfsChild, FindfsRead, LoopOpenFile, LoopGetFree, LoopOpenDev, LoopSetFd,
                 LoopSetStatus, InCall
        <4>. QED  BY <4>1, EnvironmentFrame DEF Next, Environment
      <3>. QED  BY <1>0, <2>1, <2>3, <3>1 DEF Found, MdevChange, Right, Call
    <2>. QED  BY <2>2, <2>3 DEF Found
  <1>2. CASE NodeWork /\ d # Name
    <2>1. nodes'[d] = nodes[d]
      BY <1>0, <1>2, WorkFrame
    <2>2. Right(d, "blk")
      <3>1. Call.op = "node" /\ pc = "mknod" => Name = Call.disk
        BY DEF Name
      <3>. QED  BY <1>2, <3>1 DEF Found
    <2>. QED  BY <1>0, <2>1, <2>2 DEF Found, Right
  <1>3. CASE NodeWork /\ d = Name
    <2>1. CASE UNCHANGED nodes /\ Right(d, "blk")
      BY <1>0, <2>1 DEF Found, Right
    <2>2. n \in DOMAIN Seeds => Call.op # "seed"
      BY <1>0, <1>3, DevicesAssumption DEF Name
    <2>3. CASE SeedNext
      <3>1. n > Len(Seeds) /\ pc # "mknod"
        BY <2>2, <2>3, SeedsType DEF SeedNext, InCall, PlaceInv, DevicesTypeOK
      <3>2. UNCHANGED nodes
        BY <2>3, <3>1, SeedsType DEF SeedNext, PlaceInv, DevicesTypeOK
      <3>. QED  BY <2>1, <3>1, <3>2 DEF Found
    <2>4. CASE UnlinkNode \/ MakeNode
      <3>1. Call.op = "node" /\ d = Call.disk /\ Type = "blk"
        BY <1>3, <2>2, <2>4 DEF UnlinkNode, MakeNode, PlaceInv, Where, Donod, Name, Type
      <3>2. CASE UnlinkNode
        <4>1. Right(d, "blk")
          BY <3>2 DEF UnlinkNode, Found
        <4>2. CASE nodes' = [nodes EXCEPT ![d] = NoNode] /\ Goto("mknod")
          <5>1. nodes'[d] = NoNode /\ pc' = "mknod" /\ UNCHANGED Call
            BY <1>0, <4>2 DEF Goto, Call
          <5>. QED  BY <1>0, <3>1, <5>1 DEF Found
        <4>. QED  BY <1>3, <2>1, <3>2, <4>1, <4>2 DEF UnlinkNode
      <3>3. CASE MakeNode
        <4>1. ~ Fault("mknod")
          BY DEF Fault
        <4>2. CASE Exists(d) /\ UNCHANGED nodes
          BY <2>1, <4>2 DEF Exists, Found
        <4>3. CASE nodes' = [nodes EXCEPT ![d] = Node("blk", d)]
          BY <1>0, <4>3 DEF Found, Right
        <4>. QED  BY <1>3, <3>1, <3>3, <4>1, <4>2, <4>3 DEF MakeNode
      <3>. QED  BY <2>4, <3>2, <3>3
    <2>. QED  BY <1>3, <2>3, <2>4 DEF NodeWork
  <1>. QED  BY <1>1, <1>2, <1>3

\* The disks of a wait are a sequence.
LEMMA DisksType ==
  ASSUME NEW c \in Calls, c.op = "wait"
  PROVE  Len(c.disks) \in Nat /\ DOMAIN c.disks = 1 .. Len(c.disks)
  BY DevicesAssumption

\* Nothing has gone wrong so far, then.
LEMMA TroubleGrows ==
  ASSUME Next
  PROVE  trouble \subseteq trouble'
  <1>1. CASE Environment
    BY <1>1, EnvironmentFrame
  <1>2. CASE CreateDiskNode \/ StatNode \/ UnlinkNode \/ MakeNode \/ SeedNext
    BY <1>2 DEF CreateDiskNode, StatNode, UnlinkNode, MakeNode, SeedNext, Chown, NoFault, Fault
  <1>3. CASE SetupMdev \/ SetupMdevScan \/ WaitNext \/ WaitScan \/ WaitLook \/ WaitSleep
    BY <1>3 DEF SetupMdev, SetupMdevScan, WaitNext, WaitScan, WaitLook, WaitSleep, MdevScan,
           RunsToEnd, Breaks, NoFault, Fault
  <1>4. CASE WaitFirstRun \/ WaitRerun \/ FindfsFork \/ FindfsChild \/ FindfsRead
    BY <1>4 DEF WaitFirstRun, WaitRerun, FindfsFork, FindfsChild, FindfsRead, RunCommand, ExitCode,
           RunsToEnd, Breaks, NoFault, Fault
  <1>5. CASE LoopOpenFile \/ LoopGetFree \/ LoopOpenDev \/ LoopSetFd \/ LoopSetStatus
    BY <1>5 DEF LoopOpenFile, LoopGetFree, LoopOpenDev, LoopSetFd, LoopSetStatus, NoFault, Fault
  <1>. QED  BY <1>1, <1>2, <1>3, <1>4, <1>5 DEF Next, InitStep, Environment

\* A wait that returns has got past all of its disks, or says that it has not.
LEMMA ReturnWaited ==
  ASSUME PlaceInv, todo # << >>, NEW ret \in Int, NEW out \in Outs, Return(ret, out),
         Call.op = "wait" /\ ret = 0 => n > Len(Call.disks), NEW d, Waited(d)'
  PROVE  Waited(d)
  <1>0. /\ Len(results) \in Nat
        /\ DOMAIN results = 1 .. Len(results) /\ DOMAIN results' = 1 .. (Len(results) + 1)
        /\ \A a \in DOMAIN results : results'[a] = results[a]
        /\ results'[Len(results) + 1] = [call |-> Call, ret |-> ret, out |-> out]
        /\ Call \in Calls /\ n \in Nat
    BY NewResult DEF PlaceInv, DevicesTypeOK
  <1>1. ASSUME NEW a \in DOMAIN results',
               results'[a].call.op = "wait" /\ results'[a].ret = 0,
               NEW k \in DOMAIN results'[a].call.disks, ByLabel(results'[a].call, k, d)
        PROVE  Waited(d)
    <2>1. CASE a \in DOMAIN results
      BY <1>0, <1>1, <2>1 DEF Waited
    <2>2. CASE a = Len(results) + 1
      <3>1. Call.op = "wait" /\ ret = 0 /\ k \in DOMAIN Call.disks /\ ByLabel(Call, k, d)
        BY <1>0, <1>1, <2>2
      <3>2. k < n
        BY <1>0, <3>1, DisksType
      <3>. QED  BY <3>1, <3>2 DEF Waited
    <2>. QED  BY <1>0, <2>1, <2>2
  <1>2. ASSUME todo' # << >>, Call'.op = "wait", NEW k \in DOMAIN Call'.disks, k < n'
        PROVE  FALSE
    <2>1. todo' \in Seq(Calls) /\ n' = 1
      BY CallType DEF PlaceInv, Return
    <2>2. Call' \in Calls
      BY <1>2, <2>1 DEF Call
    <2>. QED  BY <1>2, <2>1, <2>2, DisksType
  <1>. QED  BY <1>1, <1>2 DEF Waited

\* A wait goes on to the next disk when it has found this one.
LEMMA AdvanceWaited ==
  ASSUME PlaceInv, NextDisk, Call.op = "wait", todo # << >>, NEW d, Waited(d)'
  PROVE  Waited(d) \/ (Waiting.by = "label" /\ Waiting.disk = d)
  <1>1. UNCHANGED <<todo, results, Call>> /\ n' = n + 1 /\ n \in Nat /\ Call \in Calls
    BY CallType DEF NextDisk, Call, PlaceInv, DevicesTypeOK
  <1>2. \A k \in DOMAIN Call.disks : k < n + 1 => k < n \/ k = n
    BY <1>1, DisksType
  <1>. QED  BY <1>1, <1>2 DEF Waited, ByLabel, Waiting

\* What findfs says of a disk that has been waited for.
LEMMA ReturnFound ==
  ASSUME PlaceInv, FoundInv, trouble = {}, Timeout > 0, todo # << >>,
         NEW ret \in Int, NEW out \in Outs, Return(ret, out),
         Call.op = "findfs" /\ Waited(Call.disk) => ret = 0 /\ out = Call.disk
  PROVE  WaitedForIsFound'
  <1>0. /\ Len(results) \in Nat
        /\ DOMAIN results = 1 .. Len(results) /\ DOMAIN results' = 1 .. (Len(results) + 1)
        /\ \A a \in DOMAIN results : results'[a] = results[a]
        /\ results'[Len(results) + 1] = [call |-> Call, ret |-> ret, out |-> out]
    BY NewResult
  <1> SUFFICES ASSUME NEW a \in DOMAIN results', NEW b \in DOMAIN results',
                      a < b, results'[a].call.op = "wait", results'[a].ret = 0,
                      results'[b].call.op = "findfs",
                      NEW w \in ToSet(results'[a].call.disks),
                      w.by = "label", w.disk = results'[b].call.disk
               PROVE  results'[b].ret = 0 /\ results'[b].out = results'[b].call.disk
    BY DEF WaitedForIsFound
  <1>1. a \in DOMAIN results /\ results'[a] = results[a]
    BY <1>0
  <1>2. CASE b \in DOMAIN results
    BY <1>0, <1>1, <1>2 DEF FoundInv, FoundSoFar, WaitedForIsFound
  <1>3. CASE b = Len(results) + 1
    <2>1. PICK k \in DOMAIN results[a].call.disks : w = results[a].call.disks[k]
      BY <1>1 DEF ToSet
    <2>2. Waited(Call.disk)
      BY <1>0, <1>1, <1>3, <2>1 DEF Waited, ByLabel
    <2>. QED  BY <1>0, <1>3, <2>2
  <1>. QED  BY <1>0, <1>2, <1>3

\* The steps that return nothing and wait for no further disk.
LEMMA FoundApart ==
  ASSUME PlaceInv, FoundSoFar, Next, trouble' = {}, UNCHANGED <<todo, results>>,
         UNCHANGED n \/ Call.op # "wait", pc' # "read" \/ UNCHANGED <<pc, line, n>>
  PROVE  FoundSoFar'
  <1>1. \A d : Waited(d)' => Waited(d)
    BY DEF Waited, Call
  <1>2. \A d : Waited(d)' => Found(d)'
    BY <1>1, FoundStays DEF FoundSoFar
  <1>3. (pc = "read" /\ Waited(Call.disk) => line = [dev |-> Call.disk, status |-> 0])'
    <2> SUFFICES ASSUME pc' = "read", Waited(Call.disk)' PROVE line' = [dev |-> Call'.disk, status |-> 0]
      OBVIOUS
    <2>1. UNCHANGED <<pc, line, n, Call>> /\ Waited(Call.disk)
      BY DEF Call, Waited
    <2>. QED  BY <2>1 DEF FoundSoFar
  <1>4. WaitedForIsFound'
    <2>1. trouble = {}
      BY TroubleGrows
    <2>. QED  BY <2>1 DEF FoundSoFar, WaitedForIsFound
  <1>. QED  BY <1>2, <1>3, <1>4 DEF FoundSoFar

\* The steps with which a call returns.
LEMMA FoundReturn ==
  ASSUME PlaceInv, FoundSoFar, Timeout > 0, Next, trouble' = {}, todo # << >>,
         NEW ret \in Int, NEW out \in Outs, Return(ret, out),
         Call.op = "wait" /\ ret = 0 => n > Len(Call.disks),
         Call.op = "findfs" /\ Waited(Call.disk) => ret = 0 /\ out = Call.disk
  PROVE  FoundSoFar'
  <1>1. \A d : Waited(d)' => Found(d)'
    BY ReturnWaited, FoundStays DEF FoundSoFar
  <1>2. trouble = {} /\ FoundInv
    BY TroubleGrows DEF FoundInv
  <1>3. WaitedForIsFound'
    BY <1>2, ReturnFound
  <1>. QED  BY <1>1, <1>3 DEF FoundSoFar, Return

\* The steps with which a wait gets past a disk.
LEMMA FoundAdvance ==
  ASSUME PlaceInv, FoundSoFar, Next, trouble' = {}, todo # << >>, Call.op = "wait", NextDisk,
         UNCHANGED <<nodes, plugged>>, Waiting.by = "label" => Ready(Waiting.disk)
  PROVE  FoundSoFar'
  <1>1. ASSUME NEW d, Waited(d)' PROVE Found(d)'
    <2>1. CASE Waited(d)
      BY <2>1, FoundStays DEF FoundSoFar
    <2>2. CASE Waiting.by = "label" /\ Waiting.disk = d
      BY <2>2 DEF Ready, Found, Right
    <2>. QED  BY <1>1, <2>1, <2>2, AdvanceWaited
  <1>2. WaitedForIsFound' /\ pc' = "call"
    <2>1. trouble = {}
      BY TroubleGrows
    <2>. QED  BY <2>1 DEF FoundSoFar, WaitedForIsFound, NextDisk
  <1>. QED  BY <1>1, <1>2 DEF FoundSoFar

\* findfs says of a disk that has been found that it is there.
LEMMA FoundFindfs ==
  ASSUME PlaceInv, FoundSoFar, Timeout > 0, Next, trouble' = {},
         FindfsFork \/ FindfsChild \/ FindfsRead
  PROVE  FoundSoFar'
  <1>0. todo # << >> /\ Call.op = "findfs" /\ \A f : ~ Fault(f)
    BY DEF FindfsFork, FindfsChild, FindfsRead, InCall, Fault
  <1>1. CASE FindfsFork
    BY <1>0, <1>1, FoundApart DEF FindfsFork, Goto, locals
  <1>2. CASE FindfsChild
    <2>1. UNCHANGED <<todo, results, n, Call>> /\ pc = "child"
      BY <1>2 DEF FindfsChild, Goto, Call, InCall
    <2>2. \A d : Waited(d)' => Waited(d)
      BY <2>1 DEF Waited
    <2>3. Waited(Call.disk) => line' = [dev |-> Call.disk, status |-> 0]
      <3>1. Waited(Call.disk) => Ready(Call.disk)
        BY <2>1 DEF FoundSoFar, Found, Ready
      <3>. QED  BY <1>0, <1>2, <3>1 DEF FindfsChild, RunsToEnd, Breaks
    <2>4. Waited(Call.disk)' => Waited(Call.disk)
      BY <2>1 DEF Waited
    <2>5. \A d : Waited(d)' => Found(d)'
      BY <2>2, FoundStays DEF FoundSoFar
    <2>6. WaitedForIsFound'
      <3>1. trouble = {}
        BY TroubleGrows
      <3>. QED  BY <2>1, <3>1 DEF FoundSoFar, WaitedForIsFound
    <2>. QED  BY <2>1, <2>3, <2>4, <2>5, <2>6 DEF FoundSoFar
  <1>3. CASE FindfsRead
    <2>0. {-1, line.status} \subseteq Int /\ {NoName, line.dev} \subseteq Outs
      BY DEF PlaceInv, DevicesTypeOK, Outs, EX_OSERR
    <2>1. CASE Waited(Call.disk)
      <3>1. line = [dev |-> Call.disk, status |-> 0] /\ Call.disk # NoName
        BY <1>3, <2>1, DevicesAssumption
           DEF FindfsRead, InCall, FoundSoFar, Found, PlaceInv, DevicesTypeOK, Names
      <3>2. Return(0, Call.disk) /\ Call.disk \in Outs
        BY <1>3, <2>0, <3>1 DEF FindfsRead
      <3>. QED  BY <1>0, <3>2, FoundReturn
    <2>2. CASE ~ Waited(Call.disk)
      <3>1. \E ret \in Int, out \in Outs : Return(ret, out)
        BY <1>3, <2>0 DEF FindfsRead
      <3>. QED  BY <1>0, <2>2, <3>1, FoundReturn
    <2>. QED  BY <2>1, <2>2
  <1>. QED  BY <1>1, <1>2, <1>3

\* A wait gets past a disk only when findfs, or a node, says that it is there.
LEMMA FoundWait ==
  ASSUME PlaceInv, FoundSoFar, Timeout > 0, Next, trouble' = {},
         WaitNext \/ WaitScan \/ WaitLook \/ WaitFirstRun \/ WaitSleep \/ WaitRerun
  PROVE  FoundSoFar'
  <1>0. todo # << >> /\ Call.op = "wait" /\ \A f : ~ Fault(f)
    BY DEF WaitNext, WaitScan, WaitLook, WaitFirstRun, WaitSleep, WaitRerun, InCall, Fault
  <1>1. ASSUME NEW ret \in Int, ret # 0, NEW out \in Outs, Return(ret, out) PROVE FoundSoFar'
    BY <1>0, <1>1, FoundReturn
  <1>2. ASSUME NEW at \in PC, at # "read", Goto(at), UNCHANGED n PROVE FoundSoFar'
    BY <1>2, FoundApart DEF Goto
  <1>3. 0 \in Outs /\ slept \in Outs /\ {0, 1, -1, -2, -10, EX_OSERR} \subseteq Int
        /\ EX_OSERR # 0 /\ -1 # 0 /\ -10 # 0 /\ -2 # 0
    BY DEF PlaceInv, DevicesTypeOK, Outs, EX_OSERR
  <1>4. CASE WaitNext
    <2>0. UNCHANGED <<nodes, plugged>>
      BY <1>4 DEF WaitNext, kernel
    <2>1. CASE n > Len(Call.disks) /\ Return(0, 0)
      BY <1>0, <1>3, <2>1, FoundReturn
    <2>2. CASE NextDisk /\ Waiting.by \in {"nodev", "path", "other"}
      BY <1>0, <2>0, <2>2, FoundAdvance
    <2>3. Timeout \in Nat
      BY DevicesAssumption
    <2>. QED  BY <1>1, <1>2, <1>3, <1>4, <2>1, <2>2, <2>3
              DEF WaitNext, UntilSuccess, locals, PC
  <1>5. CASE WaitScan
    BY <1>2, <1>5 DEF WaitScan, locals, PC
  <1>6. CASE WaitLook
    <2>1. Waiting.by = "path" /\ UNCHANGED <<nodes, plugged>>
      BY <1>6 DEF WaitLook, InCall, PlaceInv, Where, kernel
    <2>. QED  BY <1>0, <1>1, <1>3, <1>6, <2>1, FoundAdvance DEF WaitLook
  <1>7. CASE WaitFirstRun \/ WaitRerun
    <2>1. UNCHANGED <<nodes, plugged>>
      BY <1>7 DEF WaitFirstRun, WaitRerun, kernel
    <2>2. PICK code \in {-2, 0, 1, EX_OSERR} :
            /\ RunCommand(code, Ready(Waiting.disk))
            /\ \/ code = 0 /\ NextDisk
               \/ code # 0 /\ Return(code, slept)
               \/ Goto("sleep") /\ UNCHANGED n
      BY <1>7 DEF WaitFirstRun, WaitRerun, locals, EX_OSERR
    <2>3. code = 0 => Ready(Waiting.disk)
      BY <1>0, <2>2 DEF RunCommand, ExitCode, RunsToEnd, Breaks
    <2>4. CASE code = 0 /\ NextDisk
      BY <1>0, <2>1, <2>3, <2>4, FoundAdvance
    <2>. QED  BY <1>1, <1>2, <1>3, <2>2, <2>4 DEF PC
  <1>8. CASE WaitSleep
    BY <1>0, <1>1, <1>2, <1>3, <1>8 DEF WaitSleep, PC
  <1>. QED  BY <1>4, <1>5, <1>6, <1>7, <1>8

\* The invariant about found disks is inductive.
LEMMA NextFound == PlaceInv /\ FoundInv /\ [Next]_vars => FoundInv'
  <1> SUFFICES ASSUME PlaceInv, FoundInv, [Next]_vars, trouble' = {}, Timeout > 0
               PROVE  FoundSoFar'
    BY DEF FoundInv
  <1>1. CASE UNCHANGED vars
    BY <1>1 DEF vars, kernel, locals, FoundInv, FoundSoFar, Waited, Found, WaitedForIsFound, Right,
           Call
  <1>2. CASE Next
    <2>0. FoundSoFar
      BY <1>2, TroubleGrows DEF FoundInv
    <2>1. CASE Environment
      BY <1>2, <2>0, <2>1, FoundApart, EnvironmentFrame DEF locals
    <2>2. ASSUME todo # << >>, Call.op \notin {"wait", "findfs"}, NEW ret \in Int, NEW out \in Outs,
                 Return(ret, out)
          PROVE  FoundSoFar'
      BY <1>2, <2>0, <2>2, FoundReturn
    <2>3. ASSUME UNCHANGED <<todo, results>>, UNCHANGED n \/ Call.op # "wait", pc' # "read"
          PROVE  FoundSoFar'
      BY <1>2, <2>0, <2>3, FoundApart
    <2>4. {0, 1, -1, -2, -3, EX_OSERR} \subseteq Int /\ {0, NoName} \subseteq Outs
      BY DEF Outs, EX_OSERR
    <2>5. CASE CreateDiskNode \/ SeedNext \/ SetupMdev \/ SetupMdevScan
      BY <2>2, <2>3, <2>4, <2>5 DEF CreateDiskNode, SeedNext, SetupMdev, SetupMdevScan, InCall, Goto,
             locals
    <2>6. CASE StatNode \/ UnlinkNode \/ MakeNode
      <3>1. todo # << >> /\ Call.op \notin {"wait", "findfs"}
        BY <2>6 DEF StatNode, UnlinkNode, MakeNode, PlaceInv, Where, Donod
      <3>2. ASSUME NEW code \in {0, 1, -1}, DonodReturns(code) PROVE FoundSoFar'
        BY <2>2, <2>3, <2>4, <3>1, <3>2 DEF DonodReturns
      <3>3. (\E code \in {0, 1, -1} : DonodReturns(code))
            \/ (UNCHANGED <<todo, results, n>> /\ pc' # "read")
        BY <2>6 DEF StatNode, UnlinkNode, MakeNode, Goto, locals
      <3>. QED  BY <2>3, <3>2, <3>3
    <2>7. CASE LoopOpenFile \/ LoopGetFree \/ LoopOpenDev \/ LoopSetFd \/ LoopSetStatus
      <3>1. LoopSetStatus => loopno \in Outs
        BY DEF LoopSetStatus, InCall, PlaceInv, Where, Outs
      <3>. QED  BY <2>2, <2>3, <2>4, <2>7, <3>1
                DEF LoopOpenFile, LoopGetFree, LoopOpenDev, LoopSetFd, LoopSetStatus, InCall, Goto,
                    locals
    <2>. QED  BY <1>2, <2>0, <2>1, <2>5, <2>6, <2>7, FoundFindfs, FoundWait
              DEF Next, InitStep, Environment
  <1>. QED  BY <1>1, <1>2

\* A wait lasts until the disk is there, which findfs then finds, or for all of the
\* timeout, with any number of disks and ticks, as long as nothing goes wrong.
THEOREM ExactWaits == Spec => []WaitsAreExact
  <1>1. Init => FoundInv
    <2> SUFFICES ASSUME Init, Timeout > 0 PROVE FoundSoFar
      BY DEF FoundInv
    <2>1. \A d : ~ Waited(d)
      <3> SUFFICES ASSUME NEW d, Waited(d) PROVE FALSE
        OBVIOUS
      <3>1. todo # << >> /\ Call.op = "wait" /\ \E k \in DOMAIN Call.disks : k < 1
        BY DEF Init, Waited
      <3>2. Call \in Calls
        BY <3>1, DevicesAssumption DEF Init, Call
      <3>. QED  BY <3>1, <3>2, DisksType
    <2>. QED  BY <2>1 DEF Init, FoundSoFar, WaitedForIsFound
  <1>2. FoundInv /\ TimeInv => WaitsAreExact
    BY DEF FoundInv, FoundSoFar, TimeInv, WaitsAreExact, WaitedForIsFound
  <1>. QED  BY <1>1, <1>2, NextFound, PlaceInvariant, TimeInvariant, PTL DEF Spec
===============================================================================
