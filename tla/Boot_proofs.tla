------------------------------ MODULE Boot_proofs ------------------------------
(***************************************************************************)
(* Proofs about Boot, for any number of kernel modules, any set of flag    *)
(* files and any set of faults.                                            *)
(***************************************************************************)
EXTENDS Boot, TLAPS

\* The states inside a step belong to steps of the right kind, and nobody has
\* asked for a shell before the cmdline has been read.
Place ==
  /\ pc \in {"rerun", "hookshell", "forkshell"} => Kind \in HookKinds
  /\ pc = "mountshell" => Kind \in {"mount", "premount"}
  /\ pc \in {"module", "moduleshell"} =>
       Kind \in {"mods", "earlymods"} /\ mod \in Mods
  /\ pc = "switched" => at = Len(Steps)
  /\ at = 1 => doshell = {}

Settled(m) == m \in loaded \cup waived

\* How far the loading of modules has come.
ModsInv ==
  /\ didLoad \/ at > LoadModules => \A m \in Mods : Settled(m)
  /\ pc \in {"module", "moduleshell"} => \A m \in Mods : m < mod => Settled(m)

\* The number of the step net-ifdown.
NetIfdown == 35

NetInv == at > NetIfdown => ~ haveNet

BootInv == TypeOK /\ Place /\ ModsInv /\ NetInv

-------------------------------------------------------------------------------
(***************************************************************************)
(* The list of steps                                                       *)
(***************************************************************************)

\* What the proofs need to know about the order of the steps of main_init.
LEMMA StepFacts ==
  /\ Len(Steps) = 38
  /\ Steps[1].kind = "setup"
  /\ Steps[15].kind = "mods" /\ Steps[15].unless = {}
  /\ Steps[35].kind = "ifdown" /\ Steps[35].unless = {}
  /\ Steps[36].kind = "pre"
  /\ Steps[37].kind = "func"
  /\ Steps[38].kind = "switch" /\ Steps[38].unless = {}
  BY DEF Steps, Step, Hook, Func, Premount

\* The kinds of all the steps in between.
LEMMA StepKinds ==
  /\ Steps[2].kind = "start" /\ Steps[3].kind = "start"
  /\ Steps[4].kind = "usershell" /\ Steps[5].kind = "func"
  /\ Steps[6].kind = "hook" /\ Steps[7].kind = "hook"
  /\ Steps[8].kind = "hook" /\ Steps[9].kind = "earlymods"
  /\ Steps[10].kind = "hook" /\ Steps[11].kind = "func"
  /\ Steps[12].kind = "hook" /\ Steps[13].kind = "ifup"
  /\ Steps[14].kind = "hook" /\ Steps[15].kind = "mods"
  /\ Steps[16].kind = "premount" /\ Steps[17].kind = "hook"
  /\ Steps[18].kind = "premount" /\ Steps[19].kind = "mount"
  /\ Steps[20].kind = "hook" /\ Steps[21].kind = "mount"
  /\ Steps[22].kind = "premount" /\ Steps[23].kind = "hook"
  /\ Steps[24].kind = "premount" /\ Steps[25].kind = "hook"
  /\ Steps[26].kind = "premount" /\ Steps[27].kind = "hook"
  /\ Steps[28].kind = "func" /\ Steps[29].kind = "func"
  /\ Steps[30].kind = "func" /\ Steps[31].kind = "ignored"
  /\ Steps[32].kind = "hook" /\ Steps[33].kind = "hook"
  /\ Steps[34].kind = "ignored" /\ Steps[35].kind = "ifdown"
  /\ Steps[36].kind = "pre" /\ Steps[37].kind = "func"
  BY DEF Steps, Step, Hook, Func, Premount

\* Kinds of which there is only one step.
LEMMA StepEnds ==
  ASSUME NEW n \in 1..38
  PROVE  /\ Steps[n].kind = "setup" => n = 1
         /\ Steps[n].kind = "ifdown" => n = 35
         /\ Steps[n].kind = "switch" => n = 38
  <1>1. n \in {1, 2, 3, 4, 5, 6, 7, 8, 9, 10, 11, 12, 13, 14, 15, 16, 17, 18, 19, 20, 21,
               22, 23, 24, 25, 26, 27, 28, 29, 30, 31, 32, 33, 34, 35, 36, 37, 38}
    OBVIOUS
  <1>. QED  BY <1>1, StepFacts, StepKinds

-------------------------------------------------------------------------------
(***************************************************************************)
(* From step to step                                                       *)
(***************************************************************************)

\* The ways in which main_init gets from one step to another, or stays.
Stays == at' = at /\ haveNet' = haveNet

Passes ==
  /\ at < 38 /\ at' = at + 1 /\ pc' = "call"
  /\ \/ haveNet' = (haveNet /\ Kind # "ifdown")
     \/ Kind = "ifup" /\ haveNet' \in BOOLEAN

Resumes == at' = Rundir /\ pc' = "call" /\ haveNet' = haveNet

\* At the end of a step the next one follows, or main_init returns.
LEMMA LeaveStep ==
  ASSUME TypeOK, Leave
  PROVE  Passes \/ (at = 38 /\ Stays /\ pc' = "eject")
  BY StepFacts DEF TypeOK, Leave, Advance, Goto, Passes, Stays

\* Every way keeps to the list, and the network down after net-ifdown.
LEMMA MoveStep ==
  ASSUME TypeOK, NetInv, Stays \/ Passes \/ Resumes
  PROVE  at' \in 1..Len(Steps) /\ haveNet' \in BOOLEAN /\ NetInv'
  <1>1. at' \in 1..Len(Steps)
    BY StepFacts DEF TypeOK, Stays, Passes, Resumes, Rundir
  <1>2. haveNet' \in BOOLEAN
    BY DEF TypeOK, Stays, Passes, Resumes
  <1>3. ASSUME at' > 35 PROVE ~ haveNet'
    <2>1. CASE Stays
      BY <1>3, <2>1 DEF NetInv, NetIfdown, Stays
    <2>2. CASE Resumes
      BY <1>3, <2>2 DEF Resumes, Rundir
    <2>3. CASE Passes
      <3>1. at \in {35, 36, 37}
        BY <1>3, <2>3 DEF Passes, TypeOK
      <3>2. Kind # "ifup" /\ (at = 35 => Kind = "ifdown")
        BY <3>1, StepFacts DEF Kind
      <3>3. at # 35 => ~ haveNet
        BY <3>1 DEF NetInv, NetIfdown
      <3>. QED  BY <2>3, <3>2, <3>3 DEF Passes
    <2>. QED  BY <2>1, <2>2, <2>3
  <1>. QED  BY <1>1, <1>2, <1>3 DEF NetInv, NetIfdown

\* The kind of the last step, and what that rules out.
LEMMA LastKind ==
  ASSUME at = 38
  PROVE  Kind = "switch" /\ ~ Skipped
  BY StepFacts DEF Kind, Skipped

\* Leaving out a step.
LEMMA SkipMoves ==
  ASSUME TypeOK, Skip
  PROVE  Passes
  <1>1. at # 38
    BY LastKind DEF Skip
  <1>2. at < 38
    BY <1>1, StepFacts DEF TypeOK
  <1>3. Kind = "ifdown" => ~ haveNet
    <2>1. Kind = "ifdown" => at = 35
      BY StepEnds, StepFacts DEF Kind, TypeOK
    <2>. QED  BY <2>1, StepFacts DEF Skip, Skipped, Kind
  <1>. QED  BY <1>2, <1>3 DEF Skip, Advance, Passes, TypeOK

\* The variables without control, typed.
SoftTypes ==
  /\ doshell \subseteq {"onerror", "once", "pre", "loop"}
  /\ flags \subseteq Flags
  /\ went \in {"fine", "failed", "killed"}
  /\ word \in Answer \cup {"none"}

\* What a step outside the loading of modules must see to.
LEMMA PlainStep ==
  ASSUME BootInv, Stays \/ Passes \/ Resumes, UNCHANGED <<didLoad, mod, loaded, waived>>,
         SoftTypes', at = 1 => UNCHANGED doshell \/ ~ Stays,
         pc' \in PC \ {"module", "moduleshell"},
         pc' \in {"rerun", "hookshell", "forkshell"} => Stays /\ Kind \in HookKinds,
         pc' = "mountshell" => Stays /\ Kind \in {"mount", "premount"},
         pc' = "switched" => Stays /\ at = Len(Steps),
         Passes /\ at = 15 => didLoad \/ NumMods = 0
  PROVE  BootInv'
  <1>0. TypeOK /\ NetInv /\ ModsInv /\ Place
    BY DEF BootInv
  <1>1. at' \in 1..Len(Steps) /\ haveNet' \in BOOLEAN /\ NetInv'
    BY <1>0, MoveStep
  <1>2. TypeOK'
    <2>1. didLoad' \in BOOLEAN
      BY <1>0 DEF TypeOK
    <2>. QED  BY <1>0, <1>1, <2>1 DEF TypeOK, SoftTypes, PC
  <1>3. Place'
    <2>1. Stays => Kind' = Kind
      BY DEF Stays, Kind
    <2>2. ASSUME at' = 1 PROVE doshell' = {}
      <3>1. Stays /\ at = 1
        BY <1>0, <2>2 DEF Stays, Passes, Resumes, Rundir, TypeOK
      <3>. QED  BY <1>0, <3>1 DEF Place
    <2>. QED  BY <2>1, <2>2 DEF Place, Stays
  <1>4. ModsInv'
    <2>1. ASSUME didLoad \/ at' > 15 PROVE \A m \in Mods : Settled(m)
      <3>1. at > 15 \/ (at = 15 /\ Passes) \/ didLoad
        BY <1>0, <2>1 DEF Stays, Passes, Resumes, Rundir, TypeOK
      <3>2. CASE NumMods = 0
        BY <3>2 DEF Mods
      <3>. QED  BY <1>0, <3>1, <3>2 DEF ModsInv, LoadModules
    <2>. QED  BY <2>1 DEF ModsInv, LoadModules, Settled
  <1>. QED  BY <1>1, <1>2, <1>3, <1>4 DEF BootInv

\* What is known of an action that leaves the latch to the right steps.
LEMMA WentTypes ==
  ASSUME SoftTypes, UNCHANGED doshell, flags' \subseteq Flags,
         \/ \E how \in {"fine", "failed", "killed"} : Went(how)
         \/ UNCHANGED <<went, word>>
  PROVE  SoftTypes'
  BY DEF SoftTypes, Went

\* A shell changes nothing but flag files and the history.
LEMMA ShellTypes ==
  ASSUME SoftTypes, UNCHANGED doshell, NEW a \in Answer, OnErrorShell(a)
  PROVE  SoftTypes'
  BY DEF SoftTypes, OnErrorShell

\* A shell that answers with something else than a failure was an operator's.
LEMMA ShellConsent ==
  ASSUME NEW a \in Answer, OnErrorShell(a)
  PROVE  word' = a /\ went' = went /\ (a # "broken" => "onerror" \in doshell)
  BY DEF OnErrorShell

\* A step that is left out.
LEMMA SkipSafe == ASSUME BootInv, Skip PROVE BootInv'
  <1>1. TypeOK /\ SoftTypes /\ Passes /\ pc' = "call"
    BY SkipMoves DEF BootInv, TypeOK, SoftTypes, Skip, Advance
  <1>2. SoftTypes' /\ UNCHANGED <<doshell, didLoad, mod, loaded, waived>>
    BY <1>1, WentTypes DEF Skip, SoftTypes
  <1>3. at = 15 => didLoad \/ NumMods = 0
    BY StepFacts DEF Skip, Skipped, Kind
  <1>. QED  BY <1>1, <1>2, <1>3, PlainStep DEF PC

\* The steps before the run directory.
LEMMA StartingSafe ==
  ASSUME BootInv, Setup \/ Start \/ UserShell \/ UserShellLoopEnds
  PROVE  BootInv'
  <1>0. TypeOK /\ SoftTypes
    BY DEF BootInv, TypeOK, SoftTypes
  <1>1. UNCHANGED <<didLoad, mod, loaded, waived>>
    BY DEF Setup, Start, UserShell, UserShellLoopEnds
  <1>2. SoftTypes'
    BY <1>0 DEF Setup, Start, UserShell, UserShellLoopEnds, Went, SoftTypes
  <1>3. at = 1 => UNCHANGED doshell
    BY DEF Setup, Start, UserShell, UserShellLoopEnds
  <1>4. \/ Leave /\ Kind \in {"setup", "start", "usershell"}
        \/ Stays /\ pc' \in {"eject", "startshell", "usershell", "panic"}
    BY DEF Setup, Start, UserShell, UserShellLoopEnds, Goto, Stays
  <1>5. (Stays \/ Passes) /\ pc' \in {"call", "eject", "startshell", "usershell", "panic"}
    BY <1>0, <1>4, LeaveStep DEF Passes
  <1>6. Passes => at # 15
    <2>1. Passes => ~ Stays
      BY <1>0 DEF Passes, Stays, TypeOK
    <2>. QED  BY <1>4, <2>1, StepFacts DEF Kind
  <1>. QED  BY <1>1, <1>2, <1>3, <1>5, <1>6, PlainStep DEF PC

\* The shell of default_initramfs_start.
LEMMA StartShellSafe == ASSUME BootInv, StartShell PROVE BootInv'
  <1>0. SoftTypes /\ UNCHANGED <<doshell, didLoad, mod, loaded, waived>>
    BY DEF BootInv, TypeOK, SoftTypes, StartShell
  <1>1. SoftTypes'
    BY <1>0, ShellTypes DEF StartShell
  <1>2. Resumes \/ (Stays /\ pc' = "eject")
    BY DEF StartShell, Goto, Resumes, Stays
  <1>3. ~ Passes \/ at # 15
    BY <1>2 DEF Resumes, Stays, Passes, Rundir
  <1>. QED  BY <1>0, <1>1, <1>2, <1>3, PlainStep DEF PC, Resumes

\* Plain calls, under the latch or not, and the end of main_init.
LEMMA CallsSafe ==
  ASSUME BootInv,
         \/ CallFunc \/ CallIgnored \/ CallMount \/ PremountEssential
         \/ SwitchRoot \/ Eject
  PROVE  BootInv'
  <1>0. /\ TypeOK /\ SoftTypes
        /\ UNCHANGED <<doshell, flags, didLoad, mod, loaded, waived>>
    BY DEF BootInv, TypeOK, SoftTypes, CallFunc, CallIgnored, CallMount,
           PremountEssential, SwitchRoot, Eject
  <1>1. SoftTypes'
    BY <1>0 DEF CallFunc, CallIgnored, CallMount, PremountEssential, SwitchRoot, Eject,
                Went, SoftTypes
  <1>2. \/ Leave /\ Kind \in {"func", "pre", "ignored", "mount", "premount"}
        \/ Stays /\ pc' \in {"latch", "panic"}
        \/ Stays /\ pc' = "mountshell" /\ Kind \in {"mount", "premount"}
        \/ Stays /\ pc' = "switched" /\ Kind = "switch"
    BY DEF CallFunc, CallIgnored, CallMount, PremountEssential, SwitchRoot, Eject, Goto, Stays
  <1>3. Kind = "switch" => at = Len(Steps)
    BY <1>0, StepEnds, StepFacts DEF Kind, TypeOK
  <1>4. Leave /\ Kind \in {"func", "pre", "ignored", "mount", "premount"} => Passes /\ at # 15
    BY <1>0, LeaveStep, LastKind, StepFacts DEF Kind
  <1>5. Stays => ~ Passes
    BY <1>0 DEF Stays, Passes, TypeOK
  <1>6. Passes => pc' = "call"
    BY DEF Passes
  <1>. QED  BY <1>0, <1>1, <1>2, <1>3, <1>4, <1>5, <1>6, PlainStep DEF PC

\* A hook that has returned: for net-ifup the next step follows.
LEMMA HookReturnsStep ==
  ASSUME TypeOK, Kind \in HookKinds, NEW ok \in BOOLEAN, NEW found \in BOOLEAN,
         HookReturns(ok, found)
  PROVE  \/ Passes /\ at # 15
         \/ Stays /\ pc' = "latch" /\ ok = FALSE /\ Kind # "ifup"
  <1>1. at < 38 /\ at # 15
    BY LastKind, StepFacts DEF TypeOK, HookKinds, Kind
  <1>2. CASE Kind = "ifup"
    BY <1>1, <1>2 DEF HookReturns, Advance, Passes
  <1>3. CASE Kind # "ifup" /\ ok = TRUE
    BY <1>1, <1>3, LeaveStep DEF HookReturns
  <1>4. CASE Kind # "ifup" /\ ok = FALSE
    BY <1>4 DEF HookReturns, Goto, Stays
  <1>. QED  BY <1>2, <1>3, <1>4

\* A shell of a mount, and the latch outside the loading of modules.
LEMMA AsksSafe ==
  ASSUME BootInv, MountShell \/ (Latch /\ Kind # "mods")
  PROVE  BootInv'
  <1>0. TypeOK /\ SoftTypes /\ Place /\ UNCHANGED <<doshell, didLoad, mod, loaded, waived>>
    BY DEF BootInv, TypeOK, SoftTypes, MountShell, Latch
  <1>1. SoftTypes'
    BY <1>0, ShellTypes DEF MountShell, Latch
  <1>2. at # 15
    BY <1>0, StepFacts DEF Kind, MountShell, Place
  <1>3. Leave \/ (Stays /\ pc' \in {"call", "latch", "eject"})
    BY DEF MountShell, Latch, Goto, Stays
  <1>4. (Passes /\ pc' = "call") \/ (Stays /\ pc' \in {"call", "latch", "eject"})
    BY <1>0, <1>3, LeaveStep DEF Passes
  <1>. QED  BY <1>0, <1>1, <1>2, <1>4, PlainStep DEF PC

\* Running a hook, with the shells that catch its failure.
LEMMA HooksSafe ==
  ASSUME BootInv, NoHook \/ RunHook \/ ForkShell \/ HookShell
  PROVE  BootInv'
  <1>0. TypeOK /\ SoftTypes /\ Kind \in HookKinds
        /\ UNCHANGED <<doshell, didLoad, mod, loaded, waived>>
    BY DEF BootInv, TypeOK, SoftTypes, Place, NoHook, RunHook, ForkShell, HookShell
  <1>1. SoftTypes'
    <2>1. CASE NoHook \/ RunHook
      BY <1>0, <2>1 DEF NoHook, RunHook, Went, Goto, SoftTypes
    <2>2. CASE ForkShell \/ HookShell
      BY <1>0, <2>2, ShellTypes DEF ForkShell, HookShell
    <2>. QED  BY <2>1, <2>2
  <1>2. \/ \E ok \in BOOLEAN, found \in BOOLEAN : HookReturns(ok, found)
        \/ Stays /\ pc' \in {"rerun", "hookshell", "forkshell"}
    <2>1. CASE NoHook \/ RunHook
      BY <2>1 DEF NoHook, RunHook, Goto, Stays
    <2>2. CASE ForkShell \/ HookShell
      BY <2>2 DEF ForkShell, HookShell, Goto, Stays, Answer
    <2>. QED  BY <2>1, <2>2
  <1>3. \/ Passes /\ at # 15 /\ pc' = "call"
        \/ Stays /\ pc' \in {"latch", "rerun", "hookshell", "forkshell"}
    BY <1>0, <1>2, HookReturnsStep DEF Passes
  <1>4. Stays => ~ Passes
    BY <1>0 DEF Stays, Passes, TypeOK
  <1>. QED  BY <1>0, <1>1, <1>3, <1>4, PlainStep DEF PC

-------------------------------------------------------------------------------
(***************************************************************************)
(* Loading modules                                                         *)
(***************************************************************************)

\* What a step of load_modules must see to.
LEMMA ModsStep ==
  ASSUME BootInv, Stays \/ Passes, SoftTypes', UNCHANGED doshell,
         didLoad' \in BOOLEAN, mod' \in {1} \cup Mods,
         loaded' \subseteq Mods, waived' \subseteq Mods,
         loaded \subseteq loaded', waived \subseteq waived',
         pc' \in {"module", "moduleshell", "call", "latch", "eject"},
         pc' \in {"module", "moduleshell"} =>
           /\ Stays /\ Kind \in {"mods", "earlymods"} /\ mod' \in Mods
           /\ \A m \in Mods : m < mod' => Settled(m)',
         (didLoad' /\ ~ didLoad) \/ (Passes /\ at = 15) => \A m \in Mods : Settled(m)'
  PROVE  BootInv'
  <1>0. TypeOK /\ NetInv /\ ModsInv /\ Place
    BY DEF BootInv
  <1>1. at' \in 1..Len(Steps) /\ haveNet' \in BOOLEAN /\ NetInv'
    BY <1>0, MoveStep
  <1>2. TypeOK'
    BY <1>1 DEF TypeOK, SoftTypes, PC
  <1>3. Place'
    <2>1. Stays => Kind' = Kind
      BY DEF Stays, Kind
    <2>2. at' = 1 => at = 1
      BY <1>0 DEF Stays, Passes, TypeOK
    <2>. QED  BY <1>0, <2>1, <2>2 DEF Place, Mods
  <1>4. ModsInv'
    <2>1. \A m \in Mods : Settled(m) => Settled(m)'
      BY DEF Settled
    <2>2. ASSUME didLoad' \/ at' > 15 PROVE \A m \in Mods : Settled(m)'
      <3>1. CASE (didLoad' /\ ~ didLoad) \/ (Passes /\ at = 15)
        BY <3>1
      <3>2. CASE didLoad \/ at > 15
        BY <1>0, <2>1, <3>2 DEF ModsInv, LoadModules
      <3>3. at' > 15 => at > 15 \/ (Passes /\ at = 15)
        BY <1>0 DEF Stays, Passes, TypeOK
      <3>. QED  BY <2>2, <3>1, <3>2, <3>3
    <2>. QED  BY <2>2 DEF ModsInv, LoadModules
  <1>. QED  BY <1>1, <1>2, <1>3, <1>4 DEF BootInv

\* load_modules begins with the first module.
LEMMA LoadModulesCalledSafe == ASSUME BootInv, LoadModulesCalled PROVE BootInv'
  <1>0. /\ TypeOK /\ SoftTypes /\ Stays /\ pc' = "module" /\ mod' = 1
        /\ Kind \in {"earlymods", "mods"}
        /\ UNCHANGED <<doshell, flags, didLoad, loaded, waived, went, word>>
    BY DEF BootInv, TypeOK, SoftTypes, LoadModulesCalled, Goto, Stays
  <1>1. 1 \in Mods
    <2>1. NumMods # 0
      BY DEF LoadModulesCalled, Skipped
    <2>. QED  BY <2>1, BootAssumption DEF Mods
  <1>2. \A m \in Mods : m < mod' => Settled(m)'
    BY <1>0 DEF Mods
  <1>3. SoftTypes'
    BY <1>0 DEF SoftTypes
  <1>4. /\ didLoad' \in BOOLEAN /\ ~(didLoad' /\ ~ didLoad)
        /\ loaded' \subseteq Mods /\ waived' \subseteq Mods
    BY <1>0 DEF TypeOK
  <1>5. ~ Passes
    BY <1>0 DEF Passes
  <1>. QED  BY <1>0, <1>1, <1>2, <1>3, <1>4, <1>5, ModsStep

\* load_modules returns with TRUE or FALSE.
LEMMA ReturnsStep ==
  ASSUME TypeOK, NEW ok \in BOOLEAN, LoadModulesReturns(ok)
  PROVE  /\ didLoad' \in BOOLEAN /\ (didLoad' /\ ~ didLoad => ok)
         /\ \/ Passes /\ pc' = "call" /\ (at = 15 => ok)
            \/ Stays /\ pc' = "latch" /\ Kind = "mods" /\ ok = FALSE
  <1>1. Kind \in {"earlymods", "mods"}
    BY DEF LoadModulesReturns
  <1>2. at < 38 /\ (at = 15 => Kind = "mods")
    BY <1>1, LastKind, StepFacts DEF TypeOK, Kind
  <1>3. Leave => Passes /\ pc' = "call"
    BY <1>2, LeaveStep DEF Passes
  <1>4. CASE Kind = "earlymods"
    BY <1>2, <1>3, <1>4 DEF LoadModulesReturns
  <1>5. CASE Kind = "mods" /\ ok = TRUE
    BY <1>3, <1>5 DEF LoadModulesReturns, TypeOK
  <1>6. CASE Kind = "mods" /\ ok = FALSE
    BY <1>6 DEF LoadModulesReturns, TypeOK, Goto, Stays
  <1>. QED  BY <1>1, <1>4, <1>5, <1>6

\* The loop goes on once the present module is settled.
LEMMA NextModuleSafe ==
  ASSUME BootInv, pc \in {"module", "moduleshell"}, NextModule,
         SoftTypes', UNCHANGED doshell,
         loaded' \subseteq Mods, waived' \subseteq Mods,
         loaded \subseteq loaded', waived \subseteq waived',
         mod \in loaded' \cup waived'
  PROVE  BootInv'
  <1>0. /\ TypeOK /\ mod \in Mods /\ Kind \in {"mods", "earlymods"}
        /\ \A m \in Mods : m < mod => Settled(m)
    BY DEF BootInv, Place, ModsInv
  <1>1. \A m \in Mods : m <= mod => Settled(m)'
    <2> SUFFICES ASSUME NEW m \in Mods, m <= mod PROVE Settled(m)'
      OBVIOUS
    <2>1. CASE m = mod
      BY <2>1 DEF Settled
    <2>2. CASE m < mod
      BY <1>0, <2>2 DEF Settled
    <2>. QED  BY <1>0, <2>1, <2>2, BootAssumption DEF Mods
  <1>2. CASE mod < NumMods
    <2>1. /\ mod' = mod + 1 /\ pc' = "module" /\ Stays /\ UNCHANGED didLoad
      BY <1>2 DEF NextModule, Goto, Stays
    <2>2. mod + 1 \in Mods /\ \A m \in Mods : m < mod + 1 => m <= mod
      BY <1>0, <1>2, BootAssumption DEF Mods
    <2>3. ~ Passes /\ didLoad' \in BOOLEAN /\ ~(didLoad' /\ ~ didLoad)
      BY <1>0, <2>1 DEF Passes, TypeOK
    <2>. QED  BY <1>0, <1>1, <2>1, <2>2, <2>3, ModsStep
  <1>3. CASE ~(mod < NumMods)
    <2>1. LoadModulesReturns(TRUE) /\ mod' = mod
      BY <1>3 DEF NextModule
    <2>2. \A m \in Mods : Settled(m)'
      BY <1>0, <1>1, <1>3, BootAssumption DEF Mods
    <2>3. didLoad' \in BOOLEAN /\ Passes /\ pc' = "call"
      BY <1>0, <2>1, ReturnsStep
    <2>. QED  BY <1>0, <2>1, <2>2, <2>3, ModsStep
  <1>. QED  BY <1>2, <1>3

\* One modprobe.
LEMMA ModprobeSafe == ASSUME BootInv, Modprobe PROVE BootInv'
  <1>0. /\ TypeOK /\ SoftTypes /\ pc = "module" /\ mod \in Mods
        /\ Kind \in {"mods", "earlymods"} /\ \A m \in Mods : m < mod => Settled(m)
        /\ UNCHANGED <<doshell, flags, waived>>
    BY DEF BootInv, TypeOK, SoftTypes, Place, ModsInv, Modprobe
  <1>1. SoftTypes'
    BY <1>0 DEF Modprobe, Went, SoftTypes
  <1>2. CASE loaded' = loaded \cup {mod} /\ NextModule
    <2>1. /\ loaded' \subseteq Mods /\ waived' \subseteq Mods
          /\ loaded \subseteq loaded' /\ waived \subseteq waived' /\ mod \in loaded'
      BY <1>0, <1>2 DEF TypeOK
    <2>. QED  BY <1>0, <1>1, <1>2, <2>1, NextModuleSafe
  <1>3. CASE Goto("moduleshell") /\ UNCHANGED <<loaded, didLoad, mod>>
    <2>1. Stays /\ pc' = "moduleshell"
      BY <1>3 DEF Goto, Stays
    <2>2. /\ ~ Passes /\ didLoad' \in BOOLEAN /\ ~(didLoad' /\ ~ didLoad)
          /\ loaded' \subseteq Mods /\ waived' \subseteq Mods
      BY <1>0, <1>3, <2>1 DEF Passes, TypeOK
    <2>3. \A m \in Mods : m < mod' => Settled(m)'
      BY <1>0, <1>3 DEF Settled
    <2>. QED  BY <1>0, <1>1, <1>3, <2>1, <2>2, <2>3, ModsStep
  <1>. QED  BY <1>2, <1>3 DEF Modprobe

\* The shell after a failed modprobe.
LEMMA ModuleShellSafe == ASSUME BootInv, ModuleShell PROVE BootInv'
  <1>0. /\ TypeOK /\ SoftTypes /\ pc = "moduleshell" /\ mod \in Mods
        /\ Kind \in {"mods", "earlymods"} /\ \A m \in Mods : m < mod => Settled(m)
        /\ UNCHANGED <<doshell, loaded>>
    BY DEF BootInv, TypeOK, SoftTypes, Place, ModsInv, ModuleShell
  <1>1. SoftTypes'
    BY <1>0, ShellTypes DEF ModuleShell
  <1>2. CASE waived' = waived \cup {mod} /\ NextModule
    <2>1. /\ loaded' \subseteq Mods /\ waived' \subseteq Mods
          /\ loaded \subseteq loaded' /\ waived \subseteq waived' /\ mod \in waived'
      BY <1>0, <1>2 DEF TypeOK
    <2>. QED  BY <1>0, <1>1, <1>2, <2>1, NextModuleSafe
  <1>3. CASE Goto("module") /\ UNCHANGED <<didLoad, mod, waived>>
    <2>1. Stays /\ pc' = "module"
      BY <1>3 DEF Goto, Stays
    <2>2. /\ ~ Passes /\ didLoad' \in BOOLEAN /\ ~(didLoad' /\ ~ didLoad)
          /\ loaded' \subseteq Mods /\ waived' \subseteq Mods
      BY <1>0, <1>3, <2>1 DEF Passes, TypeOK
    <2>3. \A m \in Mods : m < mod' => Settled(m)'
      BY <1>0, <1>3 DEF Settled
    <2>. QED  BY <1>0, <1>1, <1>3, <2>1, <2>2, <2>3, ModsStep
  <1>4. CASE LoadModulesReturns(FALSE) /\ UNCHANGED <<mod, waived>>
    <2>1. /\ didLoad' \in BOOLEAN /\ ~(didLoad' /\ ~ didLoad)
          /\ (Passes /\ pc' = "call" /\ at # 15) \/ (Stays /\ pc' = "latch")
      BY <1>0, <1>4, ReturnsStep
    <2>2. Stays => ~ Passes
      BY <1>0 DEF Stays, Passes, TypeOK
    <2>3. loaded' \subseteq Mods /\ waived' \subseteq Mods
      BY <1>0, <1>4 DEF TypeOK
    <2>. QED  BY <1>0, <1>1, <1>4, <2>1, <2>2, <2>3, ModsStep
  <1>. QED  BY <1>2, <1>3, <1>4 DEF ModuleShell

\* The latch around the second attempt at loading modules.
LEMMA LatchModsSafe == ASSUME BootInv, Latch, Kind = "mods" PROVE BootInv'
  <1>0. TypeOK /\ SoftTypes /\ UNCHANGED <<doshell, didLoad, mod, loaded>>
    BY DEF BootInv, TypeOK, SoftTypes, Latch
  <1>1. PICK a \in Answer :
          /\ OnErrorShell(a)
          /\ \/ a = "retry" /\ Goto("call")
             \/ a = "goon" /\ Leave
             \/ a \in {"giveup", "broken"} /\ Goto("eject")
          /\ waived' = IF Kind = "mods" /\ a = "goon" THEN Mods ELSE waived
    BY DEF Latch
  <1>2. SoftTypes'
    BY <1>0, <1>1, ShellTypes
  <1>3. waived' \subseteq Mods /\ waived \subseteq waived' /\ loaded' \subseteq Mods
    BY <1>0, <1>1 DEF TypeOK
  <1>4. at # 38
    BY LastKind
  <1>5. \/ Passes /\ pc' = "call" /\ waived' = Mods
        \/ Stays /\ pc' \in {"call", "eject"}
    BY <1>0, <1>1, <1>4, LeaveStep DEF Goto, Stays, Passes
  <1>6. Passes => \A m \in Mods : Settled(m)'
    <2>1. Stays => ~ Passes
      BY <1>0 DEF Stays, Passes, TypeOK
    <2>. QED  BY <1>5, <2>1 DEF Settled
  <1>7. didLoad' \in BOOLEAN /\ ~(didLoad' /\ ~ didLoad) /\ mod' \in {1} \cup Mods
    BY <1>0 DEF TypeOK
  <1>. QED  BY <1>0, <1>2, <1>3, <1>5, <1>6, <1>7, ModsStep

-------------------------------------------------------------------------------
(***************************************************************************)
(* The theorems                                                            *)
(***************************************************************************)

\* The invariant is inductive.
LEMMA NextInv == BootInv /\ [Next]_vars => BootInv'
  <1> SUFFICES ASSUME BootInv, [Next]_vars PROVE BootInv'
    OBVIOUS
  <1>1. CASE UNCHANGED vars
    <2>1. UNCHANGED <<at, pc, doshell, flags, haveNet, didLoad, mod, loaded, waived,
                      went, word>>
      BY <1>1 DEF vars
    <2>2. TypeOK' /\ NetInv'
      BY <2>1 DEF BootInv, TypeOK, NetInv
    <2>3. Place' /\ ModsInv'
      BY <2>1 DEF BootInv, Place, Kind, ModsInv, Settled
    <2>. QED  BY <2>2, <2>3 DEF BootInv
  <1>2. CASE Next
    BY <1>2, SkipSafe, StartingSafe, StartShellSafe, CallsSafe, AsksSafe, HooksSafe,
       LoadModulesCalledSafe, ModprobeSafe, ModuleShellSafe, LatchModsSafe DEF Next
  <1>. QED  BY <1>1, <1>2

\* Types, places, the progress of module loading and the state of the network
\* hold in every reachable state of main_init.
THEOREM BootInvariant == Spec => []BootInv
  <1>1. Init => BootInv
    <2> SUFFICES ASSUME Init PROVE BootInv
      OBVIOUS
    <2>1. TypeOK
      <3>1. haveNet \in BOOLEAN /\ didLoad \in BOOLEAN
        BY DEF Init
      <3>2. at \in 1..Len(Steps) /\ pc \in PC
        BY StepFacts DEF Init, PC
      <3>3. /\ doshell = {} /\ flags = {} /\ loaded = {} /\ waived = {}
            /\ mod = 1 /\ went = "fine" /\ word = "none"
        BY DEF Init
      <3>. QED  BY <3>1, <3>2, <3>3 DEF TypeOK
    <2>2. Place /\ ModsInv /\ NetInv
      BY DEF Init, Place, ModsInv, NetInv, NetIfdown, LoadModules
    <2>. QED  BY <2>1, <2>2 DEF BootInv
  <1>. QED  BY <1>1, NextInv, PTL DEF Spec

\* main_init stays within its list of steps, and load_modules within the list
\* of modules.
THEOREM BootTypeCorrect == Spec => []TypeOK
  <1>1. BootInv => TypeOK
    BY DEF BootInv
  <1>. QED  BY <1>1, BootInvariant, PTL

\* After both attempts every module is loaded or was let pass, for every number
\* of modules.
THEOREM AllModulesSettled == Spec => []ModulesSettled
  <1>1. BootInv => ModulesSettled
    BY DEF BootInv, ModsInv, Settled, ModulesSettled
  <1>. QED  BY <1>1, BootInvariant, PTL

\* The network is down when newroot takes over.
THEOREM NetworkDown == Spec => []NetworkDownBeforeSwitch
  <1>1. BootInv => NetworkDownBeforeSwitch
    BY StepFacts DEF BootInv, Place, NetInv, NetIfdown, NetworkDownBeforeSwitch
  <1>. QED  BY <1>1, BootInvariant, PTL

\* A failed step is passed over only with an operator's consent.
THEOREM Consent == Spec => LeftOnlyWithConsent
  <1>1. ASSUME Next, at' # at, went' = "failed", Kind \notin Optional
        PROVE  /\ "onerror" \in doshell
               /\ \/ word' = "goon"
                  \/ word' = "retry" /\ pc \in {"startshell", "mountshell", "forkshell"}
    <2>0. Kind \notin {"ignored", "ifup", "earlymods"}
      BY <1>1 DEF Optional
    <2>1. CASE Skip \/ Setup \/ Start \/ UserShell \/ UserShellLoopEnds
      BY <1>1, <2>1 DEF Skip, Setup, Start, UserShell, UserShellLoopEnds, Went, Goto
    <2>2. CASE \/ CallFunc \/ CallIgnored \/ CallMount \/ PremountEssential
              \/ SwitchRoot \/ Eject
      BY <1>1, <2>0, <2>2
         DEF CallFunc, CallIgnored, CallMount, PremountEssential, SwitchRoot, Eject, Went, Goto
    <2>3. CASE StartShell \/ MountShell \/ Latch
      BY <1>1, <2>3 DEF StartShell, MountShell, Latch, OnErrorShell, Goto, Answer
    <2>4. CASE NoHook \/ RunHook
      BY <1>1, <2>0, <2>4 DEF NoHook, RunHook, HookReturns, Went, Goto
    <2>5. CASE ForkShell \/ HookShell
      BY <1>1, <2>0, <2>5 DEF ForkShell, HookShell, HookReturns, OnErrorShell, Goto, Answer
    <2>6. CASE LoadModulesCalled \/ Modprobe
      BY <1>1, <2>6 DEF LoadModulesCalled, Modprobe, Went, Goto
    <2>7. CASE ModuleShell
      BY <1>1, <2>0, <2>7 DEF ModuleShell, LoadModulesReturns, OnErrorShell, Goto,
                                  Answer
    <2>. QED  BY <1>1, <2>1, <2>2, <2>3, <2>4, <2>5, <2>6, <2>7 DEF Next
  <1>2. [Next]_vars =>
          [at' # at /\ went' = "failed" /\ Kind \notin Optional =>
             /\ "onerror" \in doshell
             /\ \/ word' = "goon"
                \/ word' = "retry" /\ pc \in {"startshell", "mountshell", "forkshell"}]_vars
    BY <1>1
  <1>. QED  BY <1>2, PTL DEF Spec, LeftOnlyWithConsent

\* With xshell=fail, /init gives up only after an operator, or the failure to
\* run a shell, has said so.
THEOREM GivesUpAfterShell == Spec => GivesUpOnlyAfterShell
  <1>1. ASSUME BootInv, Next, pc' = "eject", pc # "eject", "onerror" \in doshell
        PROVE  word' \notin {"none", "retry"}
    <2>0. TypeOK /\ Place
      BY <1>1 DEF BootInv
    <2>1. at = 38 => Kind = "switch" /\ Kind \notin HookKinds
      BY LastKind DEF HookKinds
    <2>2. Leave => at = 38
      BY <1>1, <2>0, LeaveStep DEF Passes
    <2>3. CASE Setup
      <3>1. at = 1
        BY <2>0, <2>3, StepEnds, StepFacts DEF Setup, Kind, TypeOK
      <3>. QED  BY <1>1, <2>0, <3>1 DEF Place
    <2>4. CASE Skip \/ Start \/ UserShell \/ UserShellLoopEnds
      BY <1>1, <2>1, <2>2, <2>4
         DEF Skip, Advance, Start, UserShell, UserShellLoopEnds, Goto
    <2>5. CASE \/ CallFunc \/ CallIgnored \/ CallMount \/ PremountEssential
              \/ SwitchRoot \/ Eject
      BY <1>1, <2>1, <2>2, <2>5
         DEF CallFunc, CallIgnored, CallMount, PremountEssential, SwitchRoot, Eject, Goto
    <2>6. CASE StartShell \/ MountShell \/ Latch
      BY <1>1, <2>0, <2>1, <2>2, <2>6
         DEF StartShell, MountShell, Latch, OnErrorShell, Goto, Answer, Place
    <2>7. CASE NoHook \/ RunHook \/ ForkShell \/ HookShell
      <3>1. Kind \in HookKinds
        BY <2>0, <2>7 DEF Place, NoHook, RunHook, ForkShell, HookShell
      <3>2. \A ok, found \in BOOLEAN : ~ HookReturns(ok, found)
        BY <1>1, <2>0, <3>1, HookReturnsStep DEF Passes
      <3>. QED  BY <1>1, <2>7, <3>2 DEF NoHook, RunHook, ForkShell, HookShell, Goto, Answer
    <2>8. CASE LoadModulesCalled \/ Modprobe \/ ModuleShell
      <3>1. \A ok \in BOOLEAN : ~ LoadModulesReturns(ok)
        BY <1>1, <2>0, ReturnsStep DEF Passes
      <3>. QED  BY <1>1, <2>8, <3>1
                DEF LoadModulesCalled, Modprobe, ModuleShell, NextModule, Goto, Answer
    <2>. QED  BY <1>1, <2>3, <2>4, <2>5, <2>6, <2>7, <2>8 DEF Next
  <1>2. BootInv /\ [Next]_vars =>
          [pc' = "eject" /\ pc # "eject" /\ "onerror" \in doshell =>
             word' \notin {"none", "retry"}]_vars
    BY <1>1
  <1>. QED  BY <1>2, BootInvariant, PTL DEF Spec, GivesUpOnlyAfterShell
===============================================================================
