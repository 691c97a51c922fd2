------------------------------ MODULE Untar_proofs ------------------------------
(***************************************************************************)
(* Proofs about Untar, for every tarball, pipe size and set of faults.     *)
(***************************************************************************)
EXTENDS Untar, TLAPS

PC == {"getopt", "main", "open", "pipe", "forkdecompressor", "closewrite", "check",
       "forktar", "closeread", "wait", "done"}
ProcState == {"none", "forked", "running", "zombie", "reaped"}
Alive == {"forked", "running", "zombie"}

\* Every variable stays in its range.
UntarTypeOK ==
  /\ inv \in Invocations
  /\ argv \in Seq(Range(inv.argv))
  /\ pc \in PC
  /\ pid \in [Child -> BOOLEAN]
  /\ rc \in [Child -> {-1, 0, 1, 2}]
  /\ proc \in [Child -> ProcState]
  /\ status \in [Child -> {Signalled, 0, 1, 2}]
  /\ doomed \subseteq Child
  /\ fds \in [Child \cup {"untar"} -> SUBSET {"tarball", "r", "w"}]
  /\ unread \in Nat /\ pipe \in Nat /\ got \in Nat
  /\ trouble \subseteq Faults

\* The pid variables of untar name exactly the children that the kernel knows.
Pids == \A c \in Child : pid[c] <=> proc[c] \in Alive

-------------------------------------------------------------------------------
\* untar's own steps keep the types.
LEMMA ParentType ==
  ASSUME UntarTypeOK, Parent
  PROVE  UntarTypeOK'
  <1>0. "tar" \in Child /\ "decompressor" \in Child
    BY DEF Child
  <1>1. CASE Getopt
    <2>1. argv' \in Seq(Range(inv.argv))
      <3>1. argv' = argv \/ (argv # << >> /\ argv' = Tail(argv))
        BY <1>1 DEF Getopt
      <3>. QED  BY <3>1 DEF UntarTypeOK
    <2>2. pc' \in PC
      BY <1>1 DEF Getopt, UntarTypeOK, PC, Goto, Return
    <2>. QED  BY <1>1, <2>1, <2>2 DEF Getopt, UntarTypeOK, kernel
  <1>2. CASE Main
    BY <1>2 DEF Main, UntarTypeOK, kernel, PC, Goto, Return
  <1>3. CASE OpenTarball \/ MakePipe
    BY <1>3 DEF OpenTarball, MakePipe, UntarTypeOK, PC, Goto, Return, Exits, Fails, Works
  <1>4. CASE ForkDecompressor \/ ForkTar
    <2>1. \E c \in Child, next \in {"closewrite", "closeread"} : Fork(c, next)
      BY <1>0, <1>4 DEF ForkDecompressor, ForkTar
    <2>2. /\ pc' \in PC /\ proc' \in [Child -> ProcState] /\ pid' \in [Child -> BOOLEAN]
          /\ trouble' \subseteq Faults
      BY <2>1 DEF Fork, UntarTypeOK, PC, Goto, Return, Exits, Fails, Works, ProcState
    <2>3. fds' \in [Child \cup {"untar"} -> SUBSET {"tarball", "r", "w"}]
      BY <2>1 DEF Fork, UntarTypeOK, Exits
    <2>. QED  BY <1>4, <2>2, <2>3 DEF ForkDecompressor, ForkTar, UntarTypeOK
  <1>5. CASE CloseWrite \/ CloseRead
    BY <1>5 DEF CloseWrite, CloseRead, UntarTypeOK, PC, Goto
  <1>6. CASE CheckDecompressor \/ WaitChild
    <2>1. \/ UNCHANGED <<proc, rc, pid>>
          \/ \E c \in Child : Reap(c)
      BY <1>0, <1>6 DEF CheckDecompressor, WaitChild
    <2>2. \A c \in Child : ExitStatus(c) \in {-1, 0, 1, 2}
      BY DEF UntarTypeOK, ExitStatus, Signalled
    <2>3. /\ proc' \in [Child -> ProcState] /\ rc' \in [Child -> {-1, 0, 1, 2}]
          /\ pid' \in [Child -> BOOLEAN]
      <3>1. CASE UNCHANGED <<proc, rc, pid>>
        BY <3>1 DEF UntarTypeOK
      <3>2. ASSUME NEW c \in Child, Reap(c)
            PROVE  /\ proc' \in [Child -> ProcState] /\ rc' \in [Child -> {-1, 0, 1, 2}]
                   /\ pid' \in [Child -> BOOLEAN]
        BY <2>2, <3>2 DEF Reap, UntarTypeOK, ProcState
      <3>. QED  BY <2>1, <3>1, <3>2
    <2>4. pc' \in PC /\ trouble' \subseteq Faults
      BY <1>6 DEF CheckDecompressor, WaitChild, UntarTypeOK, PC, Goto, Return, Exits, Fails, Works
    <2>5. fds' \in [Child \cup {"untar"} -> SUBSET {"tarball", "r", "w"}]
      BY <1>6 DEF CheckDecompressor, WaitChild, UntarTypeOK, Exits
    <2>6. doomed' \subseteq Child
      BY <1>6 DEF CheckDecompressor, WaitChild, UntarTypeOK, Kill
    <2>. QED  BY <1>6, <2>3, <2>4, <2>5, <2>6 DEF CheckDecompressor, WaitChild, UntarTypeOK
  <1>. QED  BY <1>1, <1>2, <1>3, <1>4, <1>5, <1>6 DEF Parent

\* A child that ends leaves its status and closes its descriptors.
LEMMA EndsType ==
  ASSUME UntarTypeOK, NEW c \in Child, NEW x \in {Signalled, 0, 1, 2}, Ends(c, x)
  PROVE  /\ proc' \in [Child -> ProcState]
         /\ status' \in [Child -> {Signalled, 0, 1, 2}]
         /\ fds' \in [Child \cup {"untar"} -> SUBSET {"tarball", "r", "w"}]
  BY DEF Ends, UntarTypeOK, ProcState

\* The children and the kernel keep the types.
LEMMA ChildType ==
  ASSUME UntarTypeOK, Decompressor \/ Tar \/ \E c \in Child : Die(c) \/ Killed(c)
  PROVE  UntarTypeOK'
  <1>0. "tar" \in Child /\ "decompressor" \in Child
    BY DEF Child
  <1>1. /\ inv' \in Invocations /\ argv' \in Seq(Range(inv'.argv)) /\ pc' \in PC
        /\ pid' \in [Child -> BOOLEAN] /\ rc' \in [Child -> {-1, 0, 1, 2}]
        /\ doomed' \subseteq Child /\ trouble' \subseteq Faults
    BY DEF Decompressor, StartDecompressor, Decompress, Tar, StartTar, RunTar, Die, Killed,
           Fails, Works, locals, UntarTypeOK
  <1>2. unread' \in Nat /\ pipe' \in Nat /\ got' \in Nat
    BY DEF Decompressor, StartDecompressor, Decompress, Tar, StartTar, RunTar, Die, Killed,
           UntarTypeOK
  <1>3. \/ \E c \in Child, x \in {Signalled, 0, 1, 2} : Ends(c, x)
        \/ /\ proc' \in [Child -> ProcState] /\ UNCHANGED status
           /\ fds' \in [Child \cup {"untar"} -> SUBSET {"tarball", "r", "w"}]
    <2>1. CASE StartDecompressor
      BY <1>0, <2>1 DEF StartDecompressor, UntarTypeOK, ProcState
    <2>2. CASE Decompress
      BY <1>0, <2>2 DEF Decompress, UntarTypeOK
    <2>3. CASE StartTar
      BY <1>0, <2>3 DEF StartTar, UntarTypeOK, ProcState
    <2>4. CASE RunTar
      BY <1>0, <2>4 DEF RunTar, UntarTypeOK
    <2>5. CASE \E c \in Child : Die(c) \/ Killed(c)
      BY <2>5 DEF Die, Killed, UntarTypeOK
    <2>. QED  BY <2>1, <2>2, <2>3, <2>4, <2>5 DEF Decompressor, Tar
  <1>4. /\ proc' \in [Child -> ProcState]
        /\ status' \in [Child -> {Signalled, 0, 1, 2}]
        /\ fds' \in [Child \cup {"untar"} -> SUBSET {"tarball", "r", "w"}]
    BY <1>3, EndsType DEF UntarTypeOK
  <1>. QED  BY <1>1, <1>2, <1>4 DEF UntarTypeOK
-------------------------------------------------------------------------------
(***************************************************************************)
(* Who starts and reaps whom                                               *)
(***************************************************************************)

KernelStep == Decompressor \/ Tar \/ \E c \in Child : Die(c) \/ Killed(c)

\* Which children exist at which point of untar.
Forks ==
  /\ pc \in {"getopt", "main", "open", "pipe", "forkdecompressor"} =>
       proc["decompressor"] = "none"
  /\ pc \in {"open", "pipe", "forkdecompressor", "closewrite", "check"} => Piped
  /\ ~ Piped => proc["decompressor"] = "none"
  /\ Piped /\ pc \in {"closewrite", "check", "forktar", "closeread", "wait"} =>
       proc["decompressor"] # "none"
  /\ pc \in {"getopt", "main", "open", "pipe", "forkdecompressor", "closewrite",
             "check", "forktar"} => proc["tar"] = "none"
  /\ pc \in {"closeread", "wait"} => proc["tar"] # "none"
  /\ Piped /\ proc["tar"] # "none" => proc["decompressor"] # "none"

\* Once untar has returned, there is no child left, unless it could not fork or
\* wait, and never after a success.
NoneLeft ==
  pc = "done" /\ (ret = 0 \/ trouble \cap {"fork", "waitpid"} = {}) =>
    \A c \in Child : proc[c] \in {"none", "reaped"}

ProcessInv == UntarTypeOK /\ Pids /\ Forks /\ NoneLeft

\* A child's own steps: it starts, or it ends.
LEMMA ChildFrame ==
  ASSUME UntarTypeOK, KernelStep
  PROVE  /\ UNCHANGED locals
         /\ trouble \subseteq trouble'
         /\ \A c \in Child :
              \/ proc'[c] = proc[c]
              \/ /\ proc[c] \in {"forked", "running"}
                 /\ proc'[c] \in {"running", "zombie"}
  <1>0. "tar" \in Child /\ "decompressor" \in Child
    BY DEF Child
  <1>1. UNCHANGED locals /\ trouble \subseteq trouble'
    BY DEF KernelStep, Decompressor, StartDecompressor, Decompress, Tar, StartTar, RunTar,
           Die, Killed, Fails, Works
  <1>2. \/ UNCHANGED proc
        \/ \E c \in Child, x \in {"running", "zombie"} :
             proc[c] \in {"forked", "running"} /\ proc' = [proc EXCEPT ![c] = x]
    <2>1. CASE Decompressor
      BY <1>0, <2>1 DEF Decompressor, StartDecompressor, Decompress, Ends
    <2>2. CASE Tar
      BY <1>0, <2>2 DEF Tar, StartTar, RunTar, Ends
    <2>3. CASE \E c \in Child : Die(c) \/ Killed(c)
      BY <2>3 DEF Die, Killed, Ends
    <2>. QED  BY <2>1, <2>2, <2>3 DEF KernelStep
  <1>. QED  BY <1>1, <1>2 DEF UntarTypeOK

\* untar's own steps: it forks, or it reaps, and touches nothing of the data.
LEMMA ParentFrame ==
  ASSUME UntarTypeOK, Parent
  PROVE  /\ UNCHANGED <<inv, dirs, status, unread, pipe, got>>
         /\ trouble \subseteq trouble'
         /\ pc # "done"
  BY DEF Parent, Getopt, Main, OpenTarball, MakePipe, ForkDecompressor, CloseWrite,
         CheckDecompressor, ForkTar, CloseRead, WaitChild, Fork, Fails, Works, kernel

\* Piped depends on nothing that changes.
LEMMA PipedStays == ASSUME UNCHANGED inv PROVE Piped' = Piped
  BY DEF Piped

\* The steps before the first fork.
LEMMA EarlyStep ==
  ASSUME ProcessInv, Getopt \/ Main \/ OpenTarball \/ MakePipe
  PROVE  Pids' /\ Forks' /\ NoneLeft'
  <1>0. UNCHANGED <<inv, pid, proc>> /\ Piped' = Piped
    BY PipedStays DEF Getopt, Main, OpenTarball, MakePipe, kernel
  <1>1. \A c \in Child : proc[c] = "none"
    BY DEF ProcessInv, Forks, Getopt, Main, OpenTarball, MakePipe, Child
  <1>2. Pids' /\ NoneLeft'
    BY <1>0, <1>1 DEF ProcessInv, Pids, NoneLeft, Alive
  <1>3. /\ pc' \in {"getopt", "main", "open", "pipe", "forkdecompressor", "forktar", "done"}
        /\ pc' \in {"open", "pipe", "forkdecompressor"} => Piped
        /\ pc' = "forktar" => ~ Piped
    BY DEF ProcessInv, Forks, Piped, Getopt, Main, OpenTarball, MakePipe, Goto, Return, Exits
  <1>4. proc["tar"] = "none" /\ proc["decompressor"] = "none"
    BY <1>1 DEF Child
  <1>. QED  BY <1>0, <1>2, <1>3, <1>4 DEF Forks

\* The two forks.
LEMMA ForkStep ==
  ASSUME ProcessInv, ForkDecompressor \/ ForkTar
  PROVE  Pids' /\ Forks' /\ NoneLeft'
  <1>0. UntarTypeOK /\ UNCHANGED inv /\ Piped' = Piped
    BY PipedStays DEF ProcessInv, ForkDecompressor, ForkTar
  <1>1. CASE /\ UNCHANGED <<proc, pid>> /\ pc' = "done" /\ ret' = -1
             /\ trouble' = trouble \cup {"fork"}
    <2>1. NoneLeft'
      BY <1>1 DEF NoneLeft
    <2>. QED  BY <1>0, <1>1, <2>1 DEF ProcessInv, Pids, Forks
  <1>2. CASE /\ ForkDecompressor /\ pc' = "closewrite"
             /\ proc' = [proc EXCEPT !["decompressor"] = "forked"]
             /\ pid' = [pid EXCEPT !["decompressor"] = TRUE]
    <2>1. proc["tar"] = "none" /\ Piped
      BY <1>2 DEF ProcessInv, Forks, ForkDecompressor
    <2>2. proc'["decompressor"] = "forked" /\ proc'["tar"] = "none"
      BY <1>0, <1>2, <2>1 DEF UntarTypeOK, Child
    <2>3. Pids'
      BY <1>0, <1>2 DEF ProcessInv, Pids, UntarTypeOK, Alive, Child
    <2>. QED  BY <1>0, <1>2, <2>1, <2>2, <2>3 DEF Forks, NoneLeft
  <1>3. CASE /\ ForkTar /\ pc' = "closeread"
             /\ proc' = [proc EXCEPT !["tar"] = "forked"]
             /\ pid' = [pid EXCEPT !["tar"] = TRUE]
    <2>1. (Piped => proc["decompressor"] # "none") /\ (~ Piped => proc["decompressor"] = "none")
      BY <1>3 DEF ProcessInv, Forks, ForkTar
    <2>2. proc'["tar"] = "forked" /\ proc'["decompressor"] = proc["decompressor"]
      BY <1>0, <1>3 DEF UntarTypeOK, Child
    <2>3. Pids'
      BY <1>0, <1>3 DEF ProcessInv, Pids, UntarTypeOK, Alive, Child
    <2>. QED  BY <1>0, <1>3, <2>1, <2>2, <2>3 DEF Forks, NoneLeft
  <1>. QED  BY <1>1, <1>2, <1>3 DEF ForkDecompressor, ForkTar, Fork, Goto, Exits, Return, Fails

\* Closing the ends of the pipe concerns no process.
LEMMA CloseStep ==
  ASSUME ProcessInv, CloseWrite \/ CloseRead
  PROVE  Pids' /\ Forks' /\ NoneLeft'
  <1>0. UNCHANGED <<inv, pid, proc>> /\ Piped' = Piped
    BY PipedStays DEF CloseWrite, CloseRead
  <1>1. CASE CloseWrite
    BY <1>0, <1>1 DEF CloseWrite, Goto, ProcessInv, Pids, Forks, NoneLeft
  <1>2. CASE CloseRead
    BY <1>0, <1>2 DEF CloseRead, Goto, ProcessInv, Pids, Forks, NoneLeft
  <1>. QED  BY <1>1, <1>2

\* waitpid returns a child, and only then its variable is cleared.
LEMMA ReapPids ==
  ASSUME UntarTypeOK, Pids, NEW c \in Child, Reap(c)
  PROVE  /\ Pids' /\ proc[c] = "zombie" /\ proc'[c] = "reaped"
         /\ \A d \in Child : proc'[d] = "none" <=> proc[d] = "none"
         /\ \A d \in Child : d # c => proc'[d] = proc[d]
  BY DEF UntarTypeOK, Pids, Reap, Alive

\* The check between the forks, and the loop over waitpid.
LEMMA WaitStep ==
  ASSUME ProcessInv, CheckDecompressor \/ WaitChild
  PROVE  Pids' /\ Forks' /\ NoneLeft'
  <1>0. UntarTypeOK /\ Pids /\ Forks /\ UNCHANGED inv /\ Piped' = Piped
        /\ "tar" \in Child /\ "decompressor" \in Child
    BY PipedStays DEF ProcessInv, CheckDecompressor, WaitChild, Child
  <1>1. /\ Pids'
        /\ \A d \in Child : proc'[d] = "none" <=> proc[d] = "none"
    <2>1. CASE UNCHANGED <<proc, pid>>
      BY <1>0, <2>1 DEF Pids
    <2>2. CASE \E c \in Child : Reap(c)
      BY <1>0, <2>2, ReapPids
    <2>. QED  BY <1>0, <2>1, <2>2 DEF CheckDecompressor, WaitChild
  <1>2. (proc'["tar"] = "none" <=> proc["tar"] = "none")
        /\ (proc'["decompressor"] = "none" <=> proc["decompressor"] = "none")
    BY <1>0, <1>1
  <1>3. CASE CheckDecompressor
    <2>1. pc = "check" /\ pc' \in {"forktar", "done"}
      BY <1>3 DEF CheckDecompressor, Goto, Exits, Return
    <2>2. Forks'
      BY <1>0, <1>2, <2>1 DEF Forks
    <2>3. CASE Reap("decompressor") /\ ret' # 0 /\ Works
      <3>1. proc'["decompressor"] = "reaped" /\ proc'["tar"] = "none"
        BY <1>0, <2>1, <2>3, ReapPids DEF Forks
      <3>. QED  BY <1>1, <2>2, <3>1 DEF NoneLeft, Child
    <2>4. CASE Fails("waitpid") /\ ret' = -1
      BY <1>1, <2>2, <2>4 DEF NoneLeft, Fails
    <2>5. CASE pc' = "forktar"
      BY <1>1, <2>2, <2>5 DEF NoneLeft
    <2>. QED  BY <1>3, <2>3, <2>4, <2>5 DEF CheckDecompressor, Exits, Return, Goto
  <1>4. CASE WaitChild
    <2>1. pc = "wait" /\ pc' \in {"wait", "done"}
      BY <1>4 DEF WaitChild, Exits, Return
    <2>2. Forks'
      BY <1>0, <1>2, <2>1 DEF Forks
    <2>3. CASE pc' = "wait"
      BY <1>1, <2>2, <2>3 DEF NoneLeft
    <2>4. CASE NobodyLeft /\ UNCHANGED proc
      <3>1. \A c \in Child : proc'[c] \in {"none", "reaped"}
        BY <1>0, <2>4 DEF NobodyLeft, Pids, Alive, UntarTypeOK, ProcState
      <3>. QED  BY <1>1, <2>2, <3>1 DEF NoneLeft
    <2>5. CASE Fails("waitpid") /\ ret' = -1
      BY <1>1, <2>2, <2>5 DEF NoneLeft, Fails
    <2>. QED  BY <1>4, <2>1, <2>3, <2>4, <2>5 DEF WaitChild, Exits, Return
  <1>. QED  BY <1>3, <1>4

\* The children's own steps.
LEMMA ChildStep ==
  ASSUME ProcessInv, KernelStep
  PROVE  Pids' /\ Forks' /\ NoneLeft'
  <1>0. /\ UntarTypeOK /\ UNCHANGED <<inv, pc, pid, ret>> /\ trouble \subseteq trouble'
        /\ Piped' = Piped
    BY ChildFrame, PipedStays DEF ProcessInv, locals
  <1>1. \A c \in Child :
          \/ proc'[c] = proc[c]
          \/ proc[c] \in {"forked", "running"} /\ proc'[c] \in {"running", "zombie"}
    BY <1>0, ChildFrame
  <1>2. Pids'
    BY <1>0, <1>1 DEF ProcessInv, Pids, Alive
  <1>3. \A c \in Child : proc'[c] = "none" <=> proc[c] = "none"
    BY <1>1
  <1>4. (proc'["tar"] = "none" <=> proc["tar"] = "none")
        /\ (proc'["decompressor"] = "none" <=> proc["decompressor"] = "none")
    BY <1>3 DEF Child
  <1>5. Forks'
    BY <1>0, <1>4 DEF ProcessInv, Forks
  <1>6. NoneLeft'
    BY <1>0, <1>1 DEF ProcessInv, NoneLeft
  <1>. QED  BY <1>2, <1>5, <1>6

\* The invariant about processes is inductive.
LEMMA NextProcess == ProcessInv /\ [Next]_vars => ProcessInv'
  <1> SUFFICES ASSUME ProcessInv, [Next]_vars PROVE ProcessInv'
    OBVIOUS
  <1>1. CASE UNCHANGED vars
    BY <1>1 DEF vars, locals, kernel, ProcessInv, UntarTypeOK, Pids, Forks, NoneLeft, Piped
  <1>2. CASE Parent
    BY <1>2, ParentType, EarlyStep, ForkStep, CloseStep, WaitStep DEF Parent, ProcessInv
  <1>3. CASE KernelStep
    BY <1>3, ChildType, ChildStep DEF KernelStep, ProcessInv
  <1>. QED  BY <1>1, <1>2, <1>3 DEF Next, KernelStep

\* No process exists yet.
LEMMA InitProcess == Init => ProcessInv
  <1> SUFFICES ASSUME Init PROVE ProcessInv
    OBVIOUS
  <1>1. inv \in Invocations /\ argv \in Seq(Range(inv.argv))
    BY UntarAssumption DEF Init
  <1>2. UntarTypeOK
    BY <1>1, UntarAssumption DEF Init, UntarTypeOK, PC, ProcState
  <1>3. proc["tar"] = "none" /\ proc["decompressor"] = "none"
    BY DEF Init, Child
  <1>. QED  BY <1>2, <1>3 DEF Init, ProcessInv, Pids, Forks, NoneLeft, Alive

\* untar's idea of its children agrees with the kernel's in every reachable state.
THEOREM ProcessInvariant == Spec => []ProcessInv
  BY InitProcess, NextProcess, PTL DEF Spec

\* untar has waited for every child when it returns, whatever the faults.
THEOREM AllReaped == Spec => []ChildrenAreReaped
  <1>1. ProcessInv => ChildrenAreReaped
    BY DEF ProcessInv, NoneLeft, ChildrenAreReaped
  <1>. QED  BY <1>1, ProcessInvariant, PTL

\* untar signals no process number that is not a child of its own any more.
THEOREM OwnKills == Spec => KillsOnlyItsChildren
  <1>1. ProcessInv /\ [Next]_vars =>
          [\A c \in doomed' \ doomed : proc[c] \in {"forked", "running", "zombie"}]_vars
    <2> SUFFICES ASSUME ProcessInv, Next, NEW c \in doomed' \ doomed
                 PROVE  proc[c] \in {"forked", "running", "zombie"}
      OBVIOUS
    <2>1. c \in Child /\ pid[c]
      <3>1. CASE KernelStep
        BY <3>1 DEF KernelStep, Decompressor, StartDecompressor, Decompress, Tar, StartTar,
                    RunTar, Die, Killed
      <3>2. CASE WaitChild
        BY <3>2 DEF WaitChild, Kill
      <3>3. CASE Parent /\ ~ WaitChild
        BY <3>3 DEF Parent, Getopt, Main, OpenTarball, MakePipe, ForkDecompressor, CloseWrite,
                    CheckDecompressor, ForkTar, CloseRead, kernel
      <3>. QED  BY <3>1, <3>2, <3>3 DEF Next, KernelStep
    <2>. QED  BY <2>1 DEF ProcessInv, Pids, Alive
  <1>. QED  BY <1>1, ProcessInvariant, PTL DEF Spec, KillsOnlyItsChildren
-------------------------------------------------------------------------------
(***************************************************************************)
(* Success means unpacked                                                  *)
(***************************************************************************)

\* Who holds which end of the pipe.
PipeEnds ==
  /\ proc["decompressor"] \in {"forked", "running"} => "w" \in fds["decompressor"]
  /\ Piped /\ proc["tar"] \in {"forked", "running"} => "r" \in fds["tar"]
  /\ pc = "forkdecompressor" => "w" \in fds["untar"]
  /\ Piped /\ pc \in {"forkdecompressor", "closewrite", "check", "forktar", "closeread"} =>
       "r" \in fds["untar"]

\* No block of the tarball is lost or made up, and without a decompressor nothing
\* goes through the pipe.
Count == unread + pipe + got = Blocks + Pad /\ (~ Piped => pipe = 0)

Ended(c) == proc[c] \in {"zombie", "reaped"}

\* untar has returned, or will return, something other than success.
Failed ==
  \/ pc = "done" /\ ret # 0
  \/ Piped /\ \E c \in Child : proc[c] = "reaped" /\ rc[c] # 0

Excused == "killed" \in trouble \/ Failed

InPlace == dst \in dirs \cup {NoDir}

\* What the way a child has ended says about the tarball.
Outcomes ==
  /\ \A c \in Child : proc[c] = "reaped" => rc[c] = ExitStatus(c)
  /\ doomed # {} => Failed
  /\ Ended("decompressor") /\ status["decompressor"] = Signalled => Excused \/ Ended("tar")
  /\ Ended("decompressor") /\ status["decompressor"] = 0 => unread = 0
  /\ Ended("tar") /\ status["tar"] = Signalled => Excused
  /\ Ended("tar") /\ status["tar"] = 0 =>
       /\ InPlace
       /\ \/ got >= Blocks \/ Excused
          \/ Ended("decompressor") /\ status["decompressor"] \notin {0, Signalled}
  /\ proc["tar"] = "running" => InPlace

NoHelp == \A i \in DOMAIN inv.argv : inv.argv[i].opt # "h"

\* A success that was not a request for help.
Success ==
  pc = "done" /\ ret = 0 /\ NoHelp =>
    proc["tar"] = "reaped" /\ ("killed" \in trouble \/ (got >= Blocks /\ InPlace))

DataInv == PipeEnds /\ Count /\ Outcomes /\ Success

\* A failure is never forgotten.
LEMMA FailedStays ==
  ASSUME ProcessInv, Next, Failed
  PROVE  Failed'
  <1>0. UntarTypeOK
    BY DEF ProcessInv
  <1>1. CASE KernelStep
    <2>1. /\ UNCHANGED <<inv, pc, ret, rc>> /\ Piped' = Piped
          /\ \A c \in Child : proc[c] = "reaped" => proc'[c] = "reaped"
      BY <1>0, <1>1, ChildFrame, PipedStays DEF locals
    <2>. QED  BY <2>1 DEF Failed
  <1>2. CASE Parent
    <2>1. pc # "done" /\ Piped' = Piped
      BY <1>0, <1>2, ParentFrame, PipedStays
    <2>2. PICK c \in Child : Piped /\ proc[c] = "reaped" /\ rc[c] # 0
      BY <2>1 DEF Failed
    <2>3. proc'[c] = "reaped" /\ rc'[c] = rc[c]
      <3>1. CASE CheckDecompressor \/ WaitChild
        BY <1>0, <2>2, <3>1 DEF CheckDecompressor, WaitChild, Reap, UntarTypeOK
      <3>2. CASE ForkDecompressor \/ ForkTar
        <4>1. proc["tar"] = "none" /\ (ForkDecompressor => proc["decompressor"] = "none")
              /\ UNCHANGED rc
          BY <3>2 DEF ForkDecompressor, ForkTar, ProcessInv, Forks
        <4>. QED  BY <1>0, <2>2, <3>2, <4>1 DEF ForkDecompressor, ForkTar, Fork, UntarTypeOK
      <3>3. CASE \/ Getopt \/ Main \/ OpenTarball \/ MakePipe \/ CloseWrite \/ CloseRead
        BY <2>2, <3>3 DEF Getopt, Main, OpenTarball, MakePipe, CloseWrite, CloseRead, kernel
      <3>. QED  BY <1>2, <3>1, <3>2, <3>3 DEF Parent
    <2>. QED  BY <2>1, <2>2, <2>3 DEF Failed
  <1>. QED  BY <1>1, <1>2 DEF Next, KernelStep

\* Nor is an excuse.
LEMMA ExcusedStays ==
  ASSUME ProcessInv, Next, Excused
  PROVE  Excused'
  <1>1. trouble \subseteq trouble'
    BY ChildFrame, ParentFrame DEF ProcessInv, Next, KernelStep
  <1>. QED  BY <1>1, FailedStays DEF Excused

\* Blocks only move along the pipe.
LEMMA NextCount ==
  ASSUME ProcessInv, Count, Next
  PROVE  Count'
  <1>0. unread \in Nat /\ pipe \in Nat /\ got \in Nat /\ Blocks \in Nat /\ Pad \in Nat
    BY UntarAssumption DEF ProcessInv, UntarTypeOK
  <1>1. Piped' = Piped
    BY ChildFrame, ParentFrame, PipedStays DEF ProcessInv, Next, KernelStep, locals
  <1>2. CASE Parent
    BY <1>1, <1>2, ParentFrame DEF Count, ProcessInv
  <1>3. CASE Decompress
    <2>1. Piped
      BY <1>3 DEF ProcessInv, Forks, Decompress
    <2>. QED  BY <1>0, <1>1, <1>3, <2>1 DEF Decompress, Count
  <1>4. CASE RunTar
    BY <1>0, <1>1, <1>4 DEF RunTar, Count
  <1>5. CASE StartDecompressor \/ StartTar \/ \E c \in Child : Die(c) \/ Killed(c)
    BY <1>1, <1>5 DEF StartDecompressor, StartTar, Die, Killed, Count
  <1>. QED  BY <1>2, <1>3, <1>4, <1>5 DEF Next, Decompressor, Tar

\* Each process keeps its end of the pipe for as long as it may need it.
LEMMA ParentPipeEnds ==
  ASSUME ProcessInv, PipeEnds, Parent
  PROVE  PipeEnds'
  <1>0. UntarTypeOK /\ Piped' = Piped
    BY ParentFrame, PipedStays DEF ProcessInv
  <1>1. CASE Getopt \/ Main
    <2>1. /\ UNCHANGED <<fds, proc>>
          /\ pc' \in {"getopt", "main", "open", "done"} \/ (pc' = "forktar" /\ ~ Piped)
      BY <1>1 DEF Getopt, Main, Goto, Return, kernel, Piped
    <2>. QED  BY <1>0, <2>1 DEF PipeEnds
  <1>2. CASE OpenTarball \/ MakePipe
    <2>1. /\ UNCHANGED proc /\ proc["tar"] = "none" /\ proc["decompressor"] = "none"
          /\ pc' \in {"pipe", "done"} \/ (pc' = "forkdecompressor" /\ {"r", "w"} \subseteq fds'["untar"])
      BY <1>0, <1>2 DEF OpenTarball, MakePipe, Goto, Exits, Return, ProcessInv, Forks, UntarTypeOK
    <2>. QED  BY <1>0, <2>1 DEF PipeEnds
  <1>3. CASE ForkDecompressor
    <2>0. Piped /\ proc["tar"] = "none" /\ proc["decompressor"] = "none"
          /\ {"r", "w"} \subseteq fds["untar"]
      BY <1>3 DEF ForkDecompressor, ProcessInv, Forks, PipeEnds
    <2>1. CASE /\ proc' = [proc EXCEPT !["decompressor"] = "forked"]
               /\ fds' = [fds EXCEPT !["decompressor"] = fds["untar"]] /\ pc' = "closewrite"
      <3>1. /\ proc'["tar"] = "none" /\ fds'["decompressor"] = fds["untar"]
            /\ fds'["untar"] = fds["untar"]
        BY <1>0, <2>0, <2>1 DEF UntarTypeOK, Child
      <3>. QED  BY <2>0, <2>1, <3>1 DEF PipeEnds
    <2>2. CASE UNCHANGED proc /\ pc' = "done"
      BY <2>0, <2>2 DEF PipeEnds
    <2>. QED  BY <1>3, <2>1, <2>2 DEF ForkDecompressor, Fork, Goto, Exits, Return
  <1>4. CASE CloseWrite \/ CloseRead
    <2>1. /\ UNCHANGED proc /\ fds'["tar"] = fds["tar"]
          /\ fds'["decompressor"] = fds["decompressor"]
          /\ \/ pc' = "wait"
             \/ pc' = "check" /\ ("r" \in fds["untar"] => "r" \in fds'["untar"])
      BY <1>0, <1>4 DEF CloseWrite, CloseRead, Goto, UntarTypeOK, Child
    <2>2. pc' = "check" => pc = "closewrite"
      BY <1>4 DEF CloseWrite, CloseRead, Goto
    <2>. QED  BY <1>0, <2>1, <2>2 DEF PipeEnds
  <1>5. CASE CheckDecompressor \/ WaitChild
    <2>1. \A c \in Child : proc'[c] = proc[c] \/ proc'[c] = "reaped"
      BY <1>0, <1>5 DEF CheckDecompressor, WaitChild, Reap, UntarTypeOK
    <2>2. /\ fds'["tar"] = fds["tar"] /\ fds'["decompressor"] = fds["decompressor"]
          /\ pc' \in {"wait", "done"} \/ (pc = "check" /\ pc' = "forktar" /\ UNCHANGED fds)
      BY <1>0, <1>5 DEF CheckDecompressor, WaitChild, Exits, Return, Goto, UntarTypeOK, Child
    <2>3. /\ proc'["tar"] = proc["tar"] \/ proc'["tar"] = "reaped"
          /\ proc'["decompressor"] = proc["decompressor"] \/ proc'["decompressor"] = "reaped"
      BY <2>1 DEF Child
    <2>. QED  BY <1>0, <2>2, <2>3 DEF PipeEnds
  <1>6. CASE ForkTar
    <2>0. pc = "forktar" /\ (Piped => "r" \in fds["untar"])
      BY <1>6 DEF ForkTar, PipeEnds
    <2>1. CASE /\ proc' = [proc EXCEPT !["tar"] = "forked"]
               /\ fds' = [fds EXCEPT !["tar"] = fds["untar"]] /\ pc' = "closeread"
      <3>1. /\ proc'["decompressor"] = proc["decompressor"] /\ fds'["tar"] = fds["untar"]
            /\ fds'["untar"] = fds["untar"] /\ fds'["decompressor"] = fds["decompressor"]
        BY <1>0, <2>1 DEF UntarTypeOK, Child
      <3>. QED  BY <1>0, <2>0, <2>1, <3>1 DEF PipeEnds
    <2>2. CASE /\ UNCHANGED proc /\ pc' = "done" /\ fds' = [fds EXCEPT !["untar"] = {}]
      <3>1. fds'["tar"] = fds["tar"] /\ fds'["decompressor"] = fds["decompressor"]
        BY <1>0, <2>2 DEF UntarTypeOK, Child
      <3>. QED  BY <1>0, <2>2, <3>1 DEF PipeEnds
    <2>. QED  BY <1>6, <2>1, <2>2 DEF ForkTar, Fork, Goto, Exits, Return
  <1>. QED  BY <1>1, <1>2, <1>3, <1>4, <1>5, <1>6 DEF Parent

\* What the end of a child does to the ends of the pipe.
LEMMA EndsPipe ==
  ASSUME UntarTypeOK, PipeEnds, UNCHANGED <<inv, pc>>, NEW c \in Child, NEW x, Ends(c, x)
  PROVE  PipeEnds'
  <1>1. Piped' = Piped /\ fds'["untar"] = fds["untar"] /\ proc'[c] = "zombie"
    BY PipedStays DEF UntarTypeOK, Ends, Child
  <1>2. \A d \in Child : d # c => proc'[d] = proc[d] /\ fds'[d] = fds[d]
    BY DEF UntarTypeOK, Ends
  <1>. QED  BY <1>1, <1>2 DEF PipeEnds, Child

\* The children only close the ends they have no use for.
LEMMA ChildPipeEnds ==
  ASSUME ProcessInv, PipeEnds, KernelStep
  PROVE  PipeEnds'
  <1>0. /\ UntarTypeOK /\ UNCHANGED <<inv, pc>> /\ Piped' = Piped
        /\ "tar" \in Child /\ "decompressor" \in Child
    BY ChildFrame, PipedStays DEF ProcessInv, locals, Child
  <1>1. CASE \E c \in Child, x \in {Signalled, 0, 1, 2} : Ends(c, x)
    BY <1>0, <1>1, EndsPipe
  <1>2. CASE UNCHANGED <<proc, fds>>
    BY <1>0, <1>2 DEF PipeEnds
  <1>3. CASE /\ proc["decompressor"] = "forked"
             /\ proc' = [proc EXCEPT !["decompressor"] = "running"]
             /\ fds' = [fds EXCEPT !["decompressor"] = fds["decompressor"] \ {"r"}]
    <2>1. /\ proc'["tar"] = proc["tar"] /\ fds'["tar"] = fds["tar"]
          /\ fds'["untar"] = fds["untar"] /\ fds'["decompressor"] = fds["decompressor"] \ {"r"}
      BY <1>0, <1>3 DEF UntarTypeOK, Child
    <2>. QED  BY <1>0, <1>3, <2>1 DEF PipeEnds
  <1>4. CASE /\ proc["tar"] = "forked"
             /\ proc' = [proc EXCEPT !["tar"] = "running"]
             /\ fds' = [fds EXCEPT !["tar"] = IF Piped THEN @ ELSE {"tarball"}]
    <2>1. /\ proc'["decompressor"] = proc["decompressor"]
          /\ fds'["decompressor"] = fds["decompressor"]
          /\ fds'["untar"] = fds["untar"] /\ (Piped => fds'["tar"] = fds["tar"])
      BY <1>0, <1>4 DEF UntarTypeOK, Child
    <2>. QED  BY <1>0, <1>4, <2>1 DEF PipeEnds
  <1>5. CASE Decompressor
    BY <1>0, <1>1, <1>2, <1>3, <1>5 DEF Decompressor, StartDecompressor, Decompress
  <1>6. CASE Tar
    BY <1>0, <1>1, <1>2, <1>4, <1>6 DEF Tar, StartTar, RunTar
  <1>7. CASE \E c \in Child : Die(c) \/ Killed(c)
    BY <1>1, <1>2, <1>7 DEF Die, Killed
  <1>. QED  BY <1>5, <1>6, <1>7 DEF KernelStep

\* What a child's step leaves of the others' ends, and of the data.
LEMMA ChildData ==
  ASSUME ProcessInv, Outcomes, KernelStep
  PROVE  /\ \A c \in Child : Ended(c) => proc'[c] = proc[c] /\ status'[c] = status[c]
         /\ doomed' \subseteq doomed
         /\ (Failed => Failed') /\ (Excused => Excused') /\ (InPlace => InPlace')
         /\ got' >= got /\ (unread = 0 => unread' = 0)
  <1>0. UntarTypeOK /\ Next
    BY DEF ProcessInv, Next, KernelStep
  <1>1. \A c \in Child : Ended(c) => proc'[c] = proc[c] /\ status'[c] = status[c]
    <2> SUFFICES ASSUME NEW c \in Child, Ended(c)
                 PROVE  proc'[c] = proc[c] /\ status'[c] = status[c]
      OBVIOUS
    <2>1. CASE Decompressor
      BY <1>0, <2>1 DEF Decompressor, StartDecompressor, Decompress, Ends, Ended, UntarTypeOK
    <2>2. CASE Tar
      BY <1>0, <2>2 DEF Tar, StartTar, RunTar, Ends, Ended, UntarTypeOK
    <2>3. CASE \E d \in Child : Die(d) \/ Killed(d)
      BY <1>0, <2>3 DEF Die, Killed, Ends, Ended, UntarTypeOK
    <2>. QED  BY <2>1, <2>2, <2>3 DEF KernelStep
  <1>2. doomed' \subseteq doomed
    BY DEF KernelStep, Decompressor, StartDecompressor, Decompress, Tar, StartTar, RunTar, Die,
           Killed
  <1>3. (Failed => Failed') /\ (Excused => Excused')
    BY <1>0, FailedStays, ExcusedStays
  <1>4. dirs \subseteq dirs' /\ dst' = dst
    <2>1. dirs \subseteq Mkdirp(dst)
      BY DEF Mkdirp
    <2>. QED  BY <2>1 DEF KernelStep, Decompressor, StartDecompressor, Decompress, Tar, StartTar,
                          RunTar, Die, Killed, locals
  <1>5. InPlace => InPlace'
    BY <1>4 DEF InPlace
  <1>6. got' >= got /\ (unread = 0 => unread' = 0)
    BY <1>0 DEF KernelStep, Decompressor, StartDecompressor, Decompress, Tar, StartTar, RunTar,
                Die, Killed, UntarTypeOK
  <1>. QED  BY <1>1, <1>2, <1>3, <1>5, <1>6

\* When nobody holds the read end, tar is gone or untar has failed.
LEMMA NoReader ==
  ASSUME ProcessInv, PipeEnds, proc["decompressor"] = "running", ~ Held("r")
  PROVE  Failed \/ Ended("tar")
  <1>1. Piped
    BY DEF ProcessInv, Forks
  <1>2. "r" \notin fds["untar"] /\ "r" \notin fds["tar"]
    BY DEF Held, ProcessInv, UntarTypeOK, Child
  <1>3. pc \in {"wait", "done"} /\ proc["tar"] \notin {"forked", "running"}
    BY <1>1, <1>2 DEF PipeEnds, ProcessInv, Forks, UntarTypeOK, PC
  <1>4. CASE pc = "wait"
    <2>1. proc["tar"] \in ProcState /\ proc["tar"] # "none"
      BY <1>4 DEF ProcessInv, UntarTypeOK, Forks, Child
    <2>. QED  BY <1>3, <2>1 DEF Ended, ProcState
  <1>5. CASE pc = "done"
    BY <1>5 DEF ProcessInv, NoneLeft, Failed, Child
  <1>. QED  BY <1>3, <1>4, <1>5

\* How the decompressor may come to its end.
LEMMA DecompressorEnd ==
  ASSUME ProcessInv, PipeEnds, Outcomes, KernelStep, ~ Ended("decompressor"),
         Ended("decompressor")'
  PROVE  /\ status'["decompressor"] = Signalled => Excused' \/ Ended("tar")'
         /\ status'["decompressor"] = 0 => unread' = 0
  <1>0. UntarTypeOK /\ "tar" \in Child /\ "decompressor" \in Child
    BY DEF ProcessInv, Child
  <1>1. CASE StartDecompressor
    <2>1. Ends("decompressor", 1)
      BY <1>0, <1>1 DEF StartDecompressor, Ended, UntarTypeOK
    <2>. QED  BY <1>0, <2>1 DEF Ends, UntarTypeOK, Signalled
  <1>2. CASE Decompress
    <2>1. CASE ~ Held("r") /\ Ends("decompressor", Signalled)
      <3>1. Failed \/ Ended("tar")
        BY <1>2, <2>1, NoReader DEF Decompress
      <3>2. Excused' \/ Ended("tar")'
        BY <1>0, <3>1, ChildData DEF Excused, Ended
      <3>. QED  BY <1>0, <2>1, <3>2 DEF Ends, UntarTypeOK, Signalled
    <2>2. CASE unread' = 0 /\ Ends("decompressor", 0)
      BY <1>0, <2>2 DEF Ends, UntarTypeOK, Signalled
    <2>3. CASE Ends("decompressor", 1)
      BY <1>0, <2>3 DEF Ends, UntarTypeOK, Signalled
    <2>4. CASE UNCHANGED proc
      BY <2>4 DEF Ended
    <2>. QED  BY <1>2, <2>1, <2>2, <2>3, <2>4 DEF Decompress
  <1>3. CASE Tar
    BY <1>0, <1>3 DEF Tar, StartTar, RunTar, Ends, Ended, UntarTypeOK
  <1>4. ASSUME NEW c \in Child, Die(c)
        PROVE  Excused' /\ status'["decompressor"] = Signalled
    <2>1. Failed'
      BY <1>4, ChildData DEF Outcomes, Die
    <2>. QED  BY <1>0, <1>4, <2>1 DEF Die, Ends, Ended, Excused, UntarTypeOK
  <1>5. ASSUME NEW c \in Child, Killed(c)
        PROVE  Excused' /\ status'["decompressor"] = Signalled
    BY <1>0, <1>5 DEF Killed, Fails, Ends, Ended, Excused, UntarTypeOK
  <1>. QED  BY <1>1, <1>2, <1>3, <1>4, <1>5 DEF KernelStep, Decompressor, Signalled

\* At the end of its input, tar has had all of the tarball, or the decompressor has
\* failed.
LEMMA EndOfInput ==
  ASSUME ProcessInv, PipeEnds, Count, Outcomes, proc["tar"] = "running",
         IF Piped THEN pipe = 0 /\ ~ Held("w") ELSE unread = 0
  PROVE  \/ got >= Blocks \/ Excused
         \/ Ended("decompressor") /\ status["decompressor"] \notin {0, Signalled}
  <1>0. /\ unread \in Nat /\ pipe \in Nat /\ got \in Nat /\ Blocks \in Nat /\ Pad \in Nat
        /\ UntarTypeOK
    BY UntarAssumption DEF ProcessInv, UntarTypeOK
  <1>1. CASE ~ Piped
    BY <1>0, <1>1 DEF Count
  <1>2. CASE Piped
    <2>1. "w" \notin fds["decompressor"]
      BY <1>0, <1>2 DEF Held, UntarTypeOK, Child
    <2>2. proc["decompressor"] \in ProcState \ {"none", "forked", "running"}
      BY <1>0, <1>2, <2>1 DEF ProcessInv, Forks, PipeEnds, UntarTypeOK, Child
    <2>3. Ended("decompressor") /\ ~ Ended("tar")
      BY <2>2 DEF Ended, ProcState
    <2>4. CASE status["decompressor"] = 0
      BY <1>0, <1>2, <2>3, <2>4 DEF Count, Outcomes
    <2>5. CASE status["decompressor"] = Signalled
      BY <2>3, <2>5 DEF Outcomes
    <2>. QED  BY <2>3, <2>4, <2>5
  <1>. QED  BY <1>1, <1>2

\* How tar may come to its end.
LEMMA TarEnd ==
  ASSUME ProcessInv, PipeEnds, Count, Outcomes, KernelStep, ~ Ended("tar"), Ended("tar")'
  PROVE  /\ status'["tar"] = Signalled => Excused'
         /\ status'["tar"] = 0 =>
              /\ InPlace'
              /\ \/ got' >= Blocks \/ Excused'
                 \/ Ended("decompressor")' /\ status'["decompressor"] \notin {0, Signalled}
  <1>0. UntarTypeOK /\ "tar" \in Child /\ "decompressor" \in Child /\ Blocks \in Nat
        /\ got \in Nat
    BY UntarAssumption DEF ProcessInv, UntarTypeOK, Child
  <1>1. CASE StartTar
    <2>1. Ends("tar", 1)
      BY <1>0, <1>1 DEF StartTar, Ended, UntarTypeOK
    <2>. QED  BY <1>0, <2>1 DEF Ends, UntarTypeOK, Signalled
  <1>2. CASE RunTar
    <2>0. InPlace'
      BY <1>2, ChildData DEF Outcomes, RunTar
    <2>1. CASE /\ IF Piped THEN pipe = 0 /\ ~ Held("w") ELSE unread = 0
               /\ \E x \in {0, 2} : Ends("tar", x)
      <3>1. \/ got >= Blocks \/ Excused
            \/ Ended("decompressor") /\ status["decompressor"] \notin {0, Signalled}
        BY <1>2, <2>1, EndOfInput DEF RunTar
      <3>2. \/ got' >= Blocks \/ Excused'
            \/ Ended("decompressor")' /\ status'["decompressor"] \notin {0, Signalled}
        <4>1. UNCHANGED got
          BY <1>0, <1>2, <2>1 DEF RunTar, Ends, UntarTypeOK
        <4>. QED  BY <1>0, <3>1, <4>1, ChildData DEF Ended
      <3>. QED  BY <1>0, <2>0, <2>1, <3>2 DEF Ends, UntarTypeOK, Signalled
    <2>2. CASE got' >= Blocks /\ Ends("tar", 0)
      BY <1>0, <2>0, <2>2 DEF Ends, UntarTypeOK, Signalled
    <2>3. CASE Ends("tar", 2)
      BY <1>0, <2>3 DEF Ends, UntarTypeOK, Signalled
    <2>4. CASE UNCHANGED proc
      BY <2>4 DEF Ended
    <2>. QED  BY <1>2, <2>1, <2>2, <2>3, <2>4 DEF RunTar
  <1>3. CASE Decompressor
    BY <1>0, <1>3 DEF Decompressor, StartDecompressor, Decompress, Ends, Ended, UntarTypeOK
  <1>4. ASSUME NEW c \in Child, Die(c)
        PROVE  Excused' /\ status'["tar"] = Signalled
    <2>1. Failed'
      BY <1>4, ChildData DEF Outcomes, Die
    <2>. QED  BY <1>0, <1>4, <2>1 DEF Die, Ends, Ended, Excused, UntarTypeOK
  <1>5. ASSUME NEW c \in Child, Killed(c)
        PROVE  Excused' /\ status'["tar"] = Signalled
    BY <1>0, <1>5 DEF Killed, Fails, Ends, Ended, Excused, UntarTypeOK
  <1>. QED  BY <1>1, <1>2, <1>3, <1>4, <1>5 DEF KernelStep, Tar, Signalled

\* The children's steps keep what their ends say.
LEMMA ChildOutcomes ==
  ASSUME ProcessInv, PipeEnds, Count, Outcomes, KernelStep
  PROVE  Outcomes'
  <1>0. UntarTypeOK /\ "tar" \in Child /\ "decompressor" \in Child /\ Blocks \in Nat
        /\ got \in Nat /\ got' \in Nat
    BY UntarAssumption, ChildType DEF ProcessInv, UntarTypeOK, Child, KernelStep
  <1>1. UNCHANGED rc
    BY <1>0, ChildFrame DEF locals
  <1>2. \A c \in Child : proc'[c] = "reaped" => rc'[c] = ExitStatus(c)'
    <2> SUFFICES ASSUME NEW c \in Child, proc'[c] = "reaped"
                 PROVE  rc'[c] = ExitStatus(c)'
      OBVIOUS
    <2>1. proc[c] = "reaped"
      BY <1>0, ChildFrame
    <2>2. status'[c] = status[c]
      BY <2>1, ChildData DEF Ended
    <2>. QED  BY <1>1, <2>1, <2>2 DEF Outcomes, ExitStatus
  <1>3. (doomed # {} => Failed)'
    BY ChildData DEF Outcomes
  <1>4. (Ended("decompressor") /\ status["decompressor"] = Signalled => Excused \/ Ended("tar"))'
    BY <1>0, ChildData, DecompressorEnd DEF Outcomes, Ended
  <1>5. (Ended("decompressor") /\ status["decompressor"] = 0 => unread = 0)'
    BY <1>0, ChildData, DecompressorEnd DEF Outcomes, Ended
  <1>6. (Ended("tar") /\ status["tar"] = Signalled => Excused)'
    BY <1>0, ChildData, TarEnd DEF Outcomes, Ended
  <1>7. (Ended("tar") /\ status["tar"] = 0 =>
           /\ InPlace
           /\ \/ got >= Blocks \/ Excused
              \/ Ended("decompressor") /\ status["decompressor"] \notin {0, Signalled})'
    <2>1. CASE Ended("tar") /\ status["tar"] = 0
      <3>1. /\ InPlace
            /\ \/ got >= Blocks \/ Excused
               \/ Ended("decompressor") /\ status["decompressor"] \notin {0, Signalled}
        BY <2>1 DEF Outcomes
      <3>2. got >= Blocks => got' >= Blocks
        BY <1>0, ChildData
      <3>. QED  BY <1>0, <3>1, <3>2, ChildData DEF Ended
    <2>2. CASE Ended("tar") /\ status["tar"] # 0
      BY <1>0, <2>2, ChildData
    <2>3. CASE ~ Ended("tar")
      BY <2>3, TarEnd
    <2>. QED  BY <2>1, <2>2, <2>3
  <1>8. (proc["tar"] = "running" => InPlace)'
    <2>1. CASE proc["tar"] = "running"
      BY <2>1, ChildData DEF Outcomes
    <2>2. CASE proc["tar"] # "running" /\ proc'["tar"] = "running"
      <3>1. StartTar
        BY <1>0, <2>2 DEF KernelStep, Decompressor, StartDecompressor, Decompress, Tar, RunTar,
                          Die, Killed, Ends, UntarTypeOK
      <3>2. ~ Ends("tar", 1)
        BY <1>0, <2>2 DEF Ends, UntarTypeOK
      <3>. QED  BY <3>1, <3>2 DEF StartTar, InPlace, locals
    <2>. QED  BY <2>1, <2>2
  <1>. QED  BY <1>2, <1>3, <1>4, <1>5, <1>6, <1>7, <1>8 DEF Outcomes

\* What untar's own step leaves of the children's ends.
LEMMA ParentData ==
  ASSUME ProcessInv, Outcomes, Parent
  PROVE  /\ \A c \in Child : (Ended(c)' <=> Ended(c)) /\ (proc'[c] = "running" => proc[c] = "running")
         /\ \A c \in Child : proc'[c] = "reaped" => rc'[c] = ExitStatus(c)'
         /\ proc["tar"] # "none" => UNCHANGED dst
         /\ doomed' # {} => Failed'
  <1>0. /\ UntarTypeOK /\ UNCHANGED <<dirs, status, unread, got>> /\ Next
        /\ "tar" \in Child /\ "decompressor" \in Child
    BY ParentFrame DEF ProcessInv, Next, Child
  <1>1. CASE Getopt \/ Main \/ OpenTarball \/ MakePipe \/ CloseWrite \/ CloseRead
    <2>1. UNCHANGED <<proc, rc, doomed>> /\ (proc["tar"] # "none" => UNCHANGED dst)
      BY <1>1 DEF Getopt, Main, OpenTarball, MakePipe, CloseWrite, CloseRead, kernel, ProcessInv,
                  Forks
    <2>. QED  BY <1>0, <2>1, FailedStays DEF Outcomes, Ended, ExitStatus
  <1>2. CASE ForkDecompressor \/ ForkTar
    <2>1. UNCHANGED <<rc, doomed, dst>>
      BY <1>2 DEF ForkDecompressor, ForkTar
    <2>2. \A c \in Child : proc'[c] = proc[c] \/ (proc[c] = "none" /\ proc'[c] = "forked")
      BY <1>0, <1>2 DEF ForkDecompressor, ForkTar, Fork, ProcessInv, Forks, UntarTypeOK
    <2>. QED  BY <1>0, <2>1, <2>2, FailedStays DEF Outcomes, Ended, ExitStatus
  <1>3. CASE CheckDecompressor \/ WaitChild
    <2>1. UNCHANGED dst
      BY <1>3 DEF CheckDecompressor, WaitChild
    <2>2. /\ \A c \in Child : (Ended(c)' <=> Ended(c)) /\ (proc'[c] = "running" => proc[c] = "running")
          /\ \A c \in Child : proc'[c] = "reaped" => rc'[c] = ExitStatus(c)'
      <3>1. CASE UNCHANGED <<proc, rc>>
        BY <1>0, <3>1 DEF Outcomes, Ended, ExitStatus
      <3>2. ASSUME NEW c \in Child, Reap(c)
            PROVE  <2>2!1 /\ <2>2!2
        BY <1>0, <3>2 DEF Outcomes, Ended, ExitStatus, Reap, UntarTypeOK
      <3>. QED  BY <1>0, <1>3, <3>1, <3>2 DEF CheckDecompressor, WaitChild
    <2>3. doomed' # {} => Failed'
      <3>1. CASE doomed # {}
        BY <1>0, <3>1, FailedStays DEF Outcomes
      <3>2. ASSUME doomed = {}, NEW c \in Child, WaitChild, Reap(c), rc'[c] # 0,
                   Kill(Child \ {c}), doomed' # {}
            PROVE  Failed'
        <4>1. PICK d \in Child : d # c /\ pid[d]
          BY <3>2 DEF Kill
        <4>2. proc[c] = "zombie" /\ proc[d] \in Alive
          BY <3>2, <4>1 DEF Reap, ProcessInv, Pids
        <4>3. Piped
          BY <4>1, <4>2 DEF ProcessInv, Forks, Child, Alive
        <4>4. Piped' = Piped /\ proc'[c] = "reaped"
          BY <1>0, <3>2, PipedStays DEF WaitChild, Reap, UntarTypeOK
        <4>. QED  BY <3>2, <4>3, <4>4 DEF Failed
      <3>3. CASE pc' = "done" /\ ret' = -1
        BY <3>3 DEF Failed
      <3>. QED  BY <1>3, <3>1, <3>2, <3>3 DEF CheckDecompressor, WaitChild, Exits, Return
    <2>. QED  BY <2>1, <2>2, <2>3
  <1>. QED  BY <1>1, <1>2, <1>3 DEF Parent

\* untar's own steps keep what the children's ends say.
LEMMA ParentOutcomes ==
  ASSUME ProcessInv, Outcomes, Parent
  PROVE  Outcomes'
  <1>0. /\ UntarTypeOK /\ UNCHANGED <<dirs, status, unread, got>> /\ Next
        /\ "tar" \in Child /\ "decompressor" \in Child
    BY ParentFrame DEF ProcessInv, Next, Child
  <1>1. /\ Ended("tar")' <=> Ended("tar")
        /\ Ended("decompressor")' <=> Ended("decompressor")
        /\ proc'["tar"] = "running" => proc["tar"] = "running"
    BY <1>0, ParentData
  <1>2. Excused => Excused'
    BY <1>0, ExcusedStays
  <1>3. Ended("tar") \/ proc["tar"] = "running" => (InPlace <=> InPlace')
    BY <1>0, ParentData DEF Ended, InPlace
  <1>. QED  BY <1>0, <1>1, <1>2, <1>3, ParentData DEF Outcomes

\* What untar reports agrees with how the children have ended.
LEMMA NextSuccess ==
  ASSUME ProcessInv, Outcomes, Success, Next
  PROVE  Success'
  <1>0. UntarTypeOK /\ "tar" \in Child /\ "decompressor" \in Child /\ Blocks \in Nat
    BY UntarAssumption DEF ProcessInv, Child
  <1>1. CASE KernelStep
    <2>1. UNCHANGED <<inv, pc, ret>> /\ trouble \subseteq trouble'
      BY <1>0, <1>1, ChildFrame DEF locals
    <2>2. /\ proc["tar"] = "reaped" => proc'["tar"] = "reaped"
          /\ InPlace => InPlace'
      BY <1>0, <1>1, ChildData DEF Ended
    <2>3. got >= Blocks => got' >= Blocks
      <3>1. got \in Nat /\ got' \in Nat /\ got' >= got
        BY <1>0, <1>1, ChildData, ChildType DEF UntarTypeOK, KernelStep
      <3>. QED  BY <1>0, <3>1
    <2>. QED  BY <2>1, <2>2, <2>3 DEF Success, NoHelp
  <1>2. CASE Parent /\ pc' = "done" /\ ret' = 0 /\ NoHelp'
    <2>0. /\ UNCHANGED <<inv, dirs, status, got>> /\ pc # "done" /\ NoHelp
          /\ trouble \subseteq trouble'
      BY <1>0, <1>2, ParentFrame DEF NoHelp
    <2>1. ~ Getopt
      <3>1. SUFFICES ASSUME Getopt PROVE FALSE
        OBVIOUS
      <3>2. argv # << >> /\ Head(argv).opt = "h"
        BY <1>2, <2>0, <3>1 DEF Getopt, Goto, Return, EX_USAGE
      <3>3. Head(argv) \in Range(inv.argv)
        BY <1>0, <3>2 DEF UntarTypeOK
      <3>. QED  BY <2>0, <3>2, <3>3 DEF NoHelp, Range
    <2>2. WaitChild
      BY <1>2, <2>0, <2>1 DEF Parent, Main, OpenTarball, MakePipe, ForkDecompressor, CloseWrite,
             CheckDecompressor, ForkTar, CloseRead, Fork, Goto, Return, Exits, EX_USAGE
    <2>3. NobodyLeft /\ Result = 0 /\ UNCHANGED <<proc, rc, dst>> /\ pc = "wait"
      BY <1>2, <2>2 DEF WaitChild, Exits, Return
    <2>4. proc["tar"] = "reaped" /\ rc["tar"] = 0
      BY <1>0, <2>3 DEF NobodyLeft, Pids, ProcessInv, Forks, Alive, UntarTypeOK, ProcState, Result
    <2>5. Piped => proc["decompressor"] = "reaped" /\ rc["decompressor"] = 0
      BY <1>0, <2>3, <2>4 DEF NobodyLeft, Pids, ProcessInv, Forks, Alive, UntarTypeOK, ProcState,
                              Result
    <2>6. ~ Failed
      BY <2>3, <2>4, <2>5 DEF Failed, Child
    <2>7. status["tar"] \in {0, Signalled}
      BY <1>0, <2>4 DEF Outcomes, ExitStatus
    <2>8. ~ (Ended("decompressor") /\ status["decompressor"] \notin {0, Signalled})
      <3>1. Ended("decompressor") => Piped
        BY DEF ProcessInv, Forks, Ended
      <3>. QED  BY <1>0, <2>5, <3>1 DEF Outcomes, ExitStatus
    <2>9. "killed" \in trouble \/ (got >= Blocks /\ InPlace)
      BY <2>4, <2>6, <2>7, <2>8 DEF Outcomes, Ended, Excused
    <2>. QED  BY <2>0, <2>3, <2>4, <2>9 DEF Success, InPlace
  <1>. QED  BY <1>1, <1>2 DEF Success, Next, KernelStep

\* The invariant about the data is inductive.
LEMMA NextData == ProcessInv /\ DataInv /\ [Next]_vars => DataInv'
  <1> SUFFICES ASSUME ProcessInv, DataInv, [Next]_vars PROVE DataInv'
    OBVIOUS
  <1>1. CASE UNCHANGED vars
    BY <1>1 DEF vars, locals, kernel, DataInv, PipeEnds, Count, Outcomes, Success, Ended, Failed,
                Excused, InPlace, NoHelp, ExitStatus, Piped
  <1>2. CASE Parent
    <2>1. Next
      BY <1>2 DEF Next
    <2>. QED  BY <1>2, <2>1, ParentPipeEnds, NextCount, ParentOutcomes, NextSuccess DEF DataInv
  <1>3. CASE KernelStep
    <2>1. Next
      BY <1>3 DEF Next, KernelStep
    <2>. QED  BY <1>3, <2>1, ChildPipeEnds, NextCount, ChildOutcomes, NextSuccess DEF DataInv
  <1>. QED  BY <1>1, <1>2, <1>3 DEF Next, KernelStep

\* No child has ended yet, and all of the tarball is still to be read.
LEMMA InitData == Init => DataInv
  <1> SUFFICES ASSUME Init PROVE DataInv
    OBVIOUS
  <1>1. proc["tar"] = "none" /\ proc["decompressor"] = "none" /\ pc = "getopt" /\ doomed = {}
        /\ \A c \in Child : proc[c] = "none"
    BY DEF Init, Child
  <1>2. Count
    BY UntarAssumption DEF Init, Count
  <1>3. PipeEnds /\ Outcomes /\ Success
    BY <1>1 DEF PipeEnds, Outcomes, Success, Ended
  <1>. QED  BY <1>2, <1>3 DEF DataInv

\* How far the tarball has got is told by how the children have ended.
THEOREM DataInvariant == Spec => []DataInv
  BY InitData, NextData, ProcessInvariant, PTL DEF Spec

\* untar reports success only when tar has read all that it needs of the tarball, in
\* the directory it was asked for, whatever fails and however the three processes
\* interleave.
THEOREM SuccessIsUnpacked == Spec => []ZeroMeansUnpacked
  <1>1. DataInv => ZeroMeansUnpacked
    BY DEF DataInv, Success, NoHelp, InPlace, ZeroMeansUnpacked
  <1>. QED  BY <1>1, DataInvariant, PTL
===============================================================================
