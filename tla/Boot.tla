---------------------------------- MODULE Boot ----------------------------------
(***************************************************************************)
(* The boot sequence of /init (init/src/initramfs/main/init.c), with the   *)
(* failure handling every step of it goes through: the fail latch of       *)
(* hacks.h, the hook runner of hacks.c, and the shells of initramfs.c.     *)
(*                                                                         *)
(* What a step does is left to other modules; here it succeeds or fails.   *)
(* A hook is an executable of the overlay and runs in a child process; it  *)
(* may create and remove the flag files under /run/initramfs.  A shell is  *)
(* the operator: they may do the same, and the exit code is their answer.  *)
(***************************************************************************)
EXTENDS Integers, Sequences

CONSTANTS
  NumMods,   \* kernel modules listed on the cmdline
  Flags,     \* flag files that hooks and operators make use of
  Faults     \* how running a hook may go wrong: "killed" (by a signal),
             \* "fork" (fork fails), "waitpid" (waitpid fails)

ASSUME BootAssumption ==
  /\ NumMods \in Nat
  /\ Flags \subseteq {"have-net", "no-mount-root", "no-mount-usr",
                      "want-squashed-usr", "no-premount", "no-mount-tmpdir",
                      "no-user-tmpdirs"}
  /\ Faults \subseteq {"killed", "fork", "waitpid"}

\* The exit code of a shell, or of the attempt to run one: 0, 250
\* (INITRAMFS_FAIL_CONTINUE), any other positive code, or a negative one.
Answer == {"retry", "goon", "giveup", "broken"}

Step(name, kind, unless) == [name |-> name, kind |-> kind, unless |-> unless]
Hook(name) == Step(name, "hook", {})
Func(name) == Step(name, "func", {})
Premount(name) == Step(name, "premount", {})

\* The steps of main_init in their order.  A step with a flag of "unless" set is
\* left out.
Steps == <<
  Step("init_initramfs", "setup", {}),
  Step("process_cmdline", "start", {}),
  Step("autoswap", "start", {}),
  Step("user shell", "usershell", {}),
  Func("init rundir"),
  Hook("early-env-setup"), Hook("parse-cmdline"), Hook("env-setup"),
  Step("early modules", "earlymods", {}),
  Hook("devfs-setup"),
  Func("wait for disk devices"),
  Hook("net-setup"),
  Step("net-ifup", "ifup", {}),
  Hook("post-net"),
  Step("load modules", "mods", {}),
  Premount("initramfs mounts"),
  Hook("pre-mount-newroot"),
  Premount("early initramfs aux mounts"),
  Step("mount / in newroot", "mount", {"no-mount-root"}),
  Hook("mount-newroot"),
  Step("mount /usr in newroot", "mount", {"no-mount-usr", "want-squashed-usr"}),
  Premount("newroot mounts"),
  Hook("post-mount-newroot"),
  Premount("initramfs aux mounts"),
  Hook("subtree-mount"),
  Premount("newroot subtree mounts"),
  Hook("populate-newroot"),
  Func("newroot basemounts"),
  Step("newroot fstab premount", "func", {"no-premount"}),
  Step("newroot mount tmpdir", "func", {"no-mount-tmpdir"}),
  Step("newroot tmpdir setup", "ignored", {"no-user-tmpdirs"}),
  Hook("setup-newroot"), Hook("finalize-newroot"),
  Step("eject aux mounts", "ignored", {}),
  Step("net-ifdown", "ifdown", {}),
  Step("preswitch shell", "pre", {}),
  Func("override-init"),
  Step("switch to newroot", "switch", {}) >>

\* Where init_rundir and the second attempt at loading modules are.
Rundir == 5
LoadModules == 15

ASSUME StepNumbers ==
  /\ Steps[Rundir].name = "init rundir"
  /\ Steps[LoadModules].name = "load modules"

VARIABLES
  at,        \* the step main_init is at
  pc,        \* where it is inside the step
  doshell,   \* initramfs_globals->doshell
  flags,     \* the flag files that exist
  haveNet,   \* initramfs_globals->have_network
  didLoad,   \* did_load_modules
  mod,       \* the loop index of load_modules
  loaded,    \* kernel: the modules that are loaded
  waived,    \* history: modules the operator let pass
  went,      \* history: how the last thing the step tried went: "fine", "failed",
             \* or "killed" for a hook that a signal ended
  word       \* history: the last answer of a shell since then, or "none"

vars == <<at, pc, doshell, flags, haveNet, didLoad, mod, loaded, waived, went, word>>

PC == {"call", "rerun", "hookshell", "forkshell", "mountshell", "latch",
       "startshell", "usershell", "module", "moduleshell", "eject",
       "panic", "switched"}

Mods == 1..NumMods
Kind == Steps[at].kind
HookKinds == {"hook", "ifup", "ifdown"}

-------------------------------------------------------------------------------
\* Elsewhere within the step.
Goto(to) == pc' = to /\ UNCHANGED <<at, haveNet>>

Advance == at' = at + 1 /\ pc' = "call"

\* The step is over.  net-ifdown is followed by have_network = 0.  After the
\* last one, which failed but was let pass, main_init returns to main.
Leave ==
  \/ /\ at < Len(Steps)
     /\ Advance
     /\ haveNet' = (haveNet /\ Kind # "ifdown")
  \/ at = Len(Steps) /\ Goto("eject")

\* The outcome of an attempt; nobody has been asked about it yet.
Went(how) == went' = how /\ word' = "none"

\* A shell that ran only because of an error: with xshell=fail the operator may
\* leave flag files behind and answers; without it the answer is negative.
OnErrorShell(a) ==
  /\ word' = a
  /\ UNCHANGED went
  /\ \/ "onerror" \in doshell /\ flags' \in SUBSET Flags
     \/ "onerror" \notin doshell /\ a = "broken" /\ UNCHANGED flags

Init ==
  /\ at = 1 /\ pc = "call"
  /\ doshell = {} /\ flags = {}
  /\ haveNet = FALSE /\ didLoad = FALSE
  /\ mod = 1 /\ loaded = {} /\ waived = {}
  /\ went = "fine" /\ word = "none"

-------------------------------------------------------------------------------
\* Fault: whether to run net-ifdown is decided by the flag file.
SkippedByFlag ==
  \/ Steps[at].unless \cap flags # {}
  \/ Kind = "ifdown" /\ "have-net" \notin flags
  \/ Kind = "pre" /\ "pre" \notin doshell
  \/ Kind = "usershell" /\ doshell \cap {"loop", "once"} = {}
  \/ Kind \in {"mods", "earlymods"} /\ NumMods = 0
  \/ Kind = "mods" /\ didLoad

\* Whether the step at hand is left out.
Skipped ==
  \/ Steps[at].unless \cap flags # {}
  \/ Kind = "ifdown" /\ ~ haveNet
  \/ Kind = "pre" /\ "pre" \notin doshell
  \/ Kind = "usershell" /\ doshell \cap {"loop", "once"} = {}
  \/ Kind \in {"mods", "earlymods"} /\ NumMods = 0
  \/ Kind = "mods" /\ didLoad

Skip ==
  /\ pc = "call"
  /\ \/ Skipped
     \/ Kind = "earlymods"     \* no modules directory in the initramfs
  /\ Advance
  /\ Went("fine")
  /\ UNCHANGED <<doshell, flags, haveNet, didLoad, mod, loaded, waived>>

\* init_initramfs: globals and base layout.  Its failure ends main_init.
Setup ==
  /\ pc = "call" /\ Kind = "setup"
  /\ \/ Went("fine") /\ Leave
     \/ Went("failed") /\ Goto("eject")
  /\ UNCHANGED <<doshell, flags, didLoad, mod, loaded, waived>>

\* default_initramfs_start: the cmdline, which says when to run shells (xshell=),
\* and zram swap.
Start ==
  /\ pc = "call" /\ Kind = "start"
  /\ \/ Went("fine") /\ Leave
     \/ Went("failed") /\ Goto("startshell")
  /\ \/ at = 2 /\ doshell' \in SUBSET {"onerror", "once", "pre", "loop"}
     \/ at # 2 /\ UNCHANGED doshell
  /\ UNCHANGED <<flags, didLoad, mod, loaded, waived>>

\* initramfs_run_user_shell_if_requested: a loop of shells, or one shell.
UserShell ==
  /\ pc = "call" /\ Kind = "usershell" /\ ~ Skipped
  /\ \/ /\ "loop" \in doshell
        /\ Went("fine") /\ Goto("usershell")
        /\ UNCHANGED flags
     \/ /\ "loop" \notin doshell
        /\ \/ Went("fine") /\ Leave
           \/ Went("failed") /\ Goto("startshell")
        /\ flags' \in SUBSET Flags
  /\ UNCHANGED <<doshell, didLoad, mod, loaded, waived>>

\* The loop of user shells ends when no shell can be run: exit(EXIT_FAILURE).
UserShellLoopEnds ==
  /\ pc = "usershell"
  /\ Goto("panic")
  /\ UNCHANGED <<doshell, flags, didLoad, mod, loaded, waived, went, word>>

\* The shell of default_initramfs_start.  Exit code 0 goes on with main_init,
\* without what was left of the start; all else, 250 too, ends main_init.
StartShell ==
  /\ pc = "startshell"
  /\ \E a \in Answer :
       /\ OnErrorShell(a)
       /\ \/ /\ a = "retry"
             /\ at' = Rundir /\ pc' = "call" /\ UNCHANGED haveNet
          \/ a # "retry" /\ Goto("eject")
  /\ UNCHANGED <<doshell, didLoad, mod, loaded, waived>>

-------------------------------------------------------------------------------
\* A step that is a plain function call under the latch, the preswitch shell
\* included.
CallFunc ==
  /\ pc = "call" /\ Kind \in {"func", "pre"} /\ ~ Skipped
  /\ \/ Went("fine") /\ Leave
     \/ Went("failed") /\ Goto("latch")
  /\ UNCHANGED <<doshell, flags, didLoad, mod, loaded, waived>>

\* A step whose failure is not looked at.
CallIgnored ==
  /\ pc = "call" /\ Kind = "ignored" /\ ~ Skipped
  /\ \E how \in {"fine", "failed"} : Went(how)
  /\ Leave
  /\ UNCHANGED <<doshell, flags, didLoad, mod, loaded, waived>>

\* _initramfs_mount_newroot_default.
CallMount ==
  /\ pc = "call" /\ Kind = "mount" /\ ~ Skipped
  /\ \/ Went("fine") /\ Leave
     \/ Went("failed") /\ Goto("mountshell")
  /\ UNCHANGED <<doshell, flags, didLoad, mod, loaded, waived>>

\* _premount_essential: the mounts of an fstab file of the overlay.  Without such
\* a file there is nothing to do.
PremountEssential ==
  /\ pc = "call" /\ Kind = "premount"
  /\ \/ Went("fine") /\ Leave
     \/ Went("failed") /\ Goto("mountshell")
  /\ UNCHANGED <<doshell, flags, didLoad, mod, loaded, waived>>

\* Both ask the operator themselves, and their result is the answer: after 0 the
\* boot goes on, nothing is tried again, and after anything else the latch asks
\* again.
MountShell ==
  /\ pc = "mountshell"
  /\ \E a \in Answer :
       /\ OnErrorShell(a)
       /\ \/ a = "retry" /\ Leave
          \/ a # "retry" /\ Goto("latch")
  /\ UNCHANGED <<doshell, didLoad, mod, loaded, waived>>

\* initramfs_switch_root: execvp replaces /init, or returns -1.  The shell of
\* get_init_prog changes nothing: its answer is ignored.
SwitchRoot ==
  /\ pc = "call" /\ Kind = "switch"
  /\ \/ Went("fine") /\ Goto("switched")
     \/ Went("failed") /\ Goto("latch")
  /\ UNCHANGED <<doshell, flags, didLoad, mod, loaded, waived>>

\* Fault: without xshell=fail a failed step is tried again at once.
LatchRetries ==
  /\ pc = "latch"
  /\ \/ "onerror" \notin doshell /\ Goto("call") /\ UNCHANGED <<flags, word, went>>
     \/ \E a \in Answer :
          /\ "onerror" \in doshell
          /\ OnErrorShell(a)
          /\ \/ a = "retry" /\ Goto("call")
             \/ a = "goon" /\ Leave
             \/ a \in {"giveup", "broken"} /\ Goto("eject")
  /\ waived' = waived
  /\ UNCHANGED <<doshell, didLoad, mod, loaded>>

\* The body of _INITRAMFS_FAIL_LATCH after a failure: on 0 the step is called
\* again, on 250 the boot goes on, else main_init returns.
Latch ==
  /\ pc = "latch"
  /\ \E a \in Answer :
       /\ OnErrorShell(a)
       /\ \/ a = "retry" /\ Goto("call")
          \/ a = "goon" /\ Leave
          \/ a \in {"giveup", "broken"} /\ Goto("eject")
       /\ waived' = IF Kind = "mods" /\ a = "goon" THEN Mods ELSE waived
  /\ UNCHANGED <<doshell, didLoad, mod, loaded>>

\* main: initramfs_eject_mounts, then the exit that makes the kernel panic.
Eject ==
  /\ pc = "eject"
  /\ Goto("panic")
  /\ UNCHANGED <<doshell, flags, didLoad, mod, loaded, waived, went, word>>

-------------------------------------------------------------------------------
\* Fault: a negative result ends main_init without the latch.
HookReturnsUnlatched(ok, found) ==
  IF Kind = "ifup"
  THEN /\ Advance
       /\ haveNet' = (ok /\ found /\ "have-net" \in flags')
  ELSE IF ok THEN Leave ELSE Goto("eject")

\* initramfs_run_hook returns to main_init.  For net-ifup there is no latch.
HookReturns(ok, found) ==
  IF Kind = "ifup"
  THEN /\ Advance
       /\ haveNet' = (ok /\ found /\ "have-net" \in flags')
  ELSE IF ok THEN Leave ELSE Goto("latch")

\* There is no such hook, which is fine.
NoHook ==
  /\ pc = "call" /\ Kind \in HookKinds /\ ~ Skipped
  /\ Went("fine")
  /\ UNCHANGED flags
  /\ HookReturns(TRUE, FALSE)
  /\ UNCHANGED <<doshell, didLoad, mod, loaded, waived>>

\* Fault: waitpid's failure is returned as if the hook had succeeded.
RunHookDropsWait ==
  /\ pc \in {"call", "rerun"} /\ Kind \in HookKinds /\ ~ Skipped
  /\ flags' \in SUBSET Flags
  /\ \/ Went("fine") /\ HookReturns(TRUE, TRUE)
     \/ Went("failed") /\ Goto("hookshell")
     \/ Went("failed") /\ HookReturns(TRUE, TRUE)
  /\ UNCHANGED <<doshell, didLoad, mod, loaded, waived>>

\* _initramfs_do_run_hook and the beginning of _catch_fail.  The hook exits with
\* 0, or with something else, on which the operator is asked.  WEXITSTATUS of a
\* hook that a signal has killed is 0.  If waitpid fails, the result is -1; if
\* fork fails, it is the answer of a shell.
RunHook ==
  /\ pc \in {"call", "rerun"} /\ Kind \in HookKinds /\ ~ Skipped
  /\ \/ /\ flags' \in SUBSET Flags
        /\ \/ Went("fine") /\ HookReturns(TRUE, TRUE)
           \/ Went("failed") /\ Goto("hookshell")
           \/ "killed" \in Faults /\ Went("killed") /\ HookReturns(TRUE, TRUE)
           \/ "waitpid" \in Faults /\ Went("failed") /\ HookReturns(FALSE, TRUE)
     \/ /\ "fork" \in Faults
        /\ Went("failed")
        /\ Goto("forkshell")
        /\ UNCHANGED flags
  /\ UNCHANGED <<doshell, didLoad, mod, loaded, waived>>

\* The shell after a failed fork stands in for the hook.
ForkShell ==
  /\ pc = "forkshell"
  /\ \E a \in Answer :
       /\ OnErrorShell(a)
       /\ \/ a = "retry" /\ HookReturns(TRUE, TRUE)
          \/ a \in {"goon", "giveup"} /\ Goto("hookshell")
          \/ a = "broken" /\ HookReturns(FALSE, TRUE)
  /\ UNCHANGED <<doshell, didLoad, mod, loaded, waived>>

\* The loop of _catch_fail: on 0 the hook is run again, on 250 it counts as
\* successful, else the answer is passed on - to the latch, which asks again.
HookShell ==
  /\ pc = "hookshell"
  /\ \E a \in Answer :
       /\ OnErrorShell(a)
       /\ \/ a = "retry" /\ Goto("rerun")
          \/ a = "goon" /\ HookReturns(TRUE, TRUE)
          \/ a \in {"giveup", "broken"} /\ HookReturns(FALSE, TRUE)
  /\ UNCHANGED <<doshell, didLoad, mod, loaded, waived>>

-------------------------------------------------------------------------------
\* load_modules is called, early if there is a modules directory, or late.
LoadModulesCalled ==
  /\ pc = "call" /\ Kind \in {"earlymods", "mods"} /\ ~ Skipped
  /\ Goto("module")
  /\ mod' = 1
  /\ UNCHANGED <<doshell, flags, didLoad, loaded, waived, went, word>>

\* load_modules returns.  The early call's result is kept, the late one's is
\* under the latch.
LoadModulesReturns(ok) ==
  \/ /\ Kind = "earlymods"
     /\ didLoad' = ok
     /\ Leave
  \/ /\ Kind = "mods"
     /\ UNCHANGED didLoad
     /\ IF ok THEN Leave ELSE Goto("latch")

\* On to the next module of the loop, or out of it.
NextModule ==
  IF mod < NumMods
  THEN mod' = mod + 1 /\ Goto("module") /\ UNCHANGED didLoad
  ELSE LoadModulesReturns(TRUE) /\ UNCHANGED mod

\* One modprobe.
Modprobe ==
  /\ pc = "module"
  /\ \/ Went("fine") /\ loaded' = loaded \cup {mod} /\ NextModule
     \/ Went("failed") /\ Goto("moduleshell") /\ UNCHANGED <<loaded, didLoad, mod>>
  /\ UNCHANGED <<doshell, flags, waived>>

\* Fault: did_load_modules is set although the early loop was given up.
ModuleShellForgets ==
  /\ pc = "moduleshell"
  /\ \E a \in Answer :
       /\ OnErrorShell(a)
       /\ \/ a = "retry" /\ Goto("module") /\ UNCHANGED <<didLoad, mod, waived>>
          \/ a = "goon" /\ waived' = waived \cup {mod} /\ NextModule
          \/ /\ a \in {"giveup", "broken"}
             /\ IF Kind = "earlymods"
                THEN LoadModulesReturns(TRUE) ELSE LoadModulesReturns(FALSE)
             /\ UNCHANGED <<mod, waived>>
  /\ UNCHANGED <<doshell, loaded>>

\* The latch around each modprobe.
ModuleShell ==
  /\ pc = "moduleshell"
  /\ \E a \in Answer :
       /\ OnErrorShell(a)
       /\ \/ a = "retry" /\ Goto("module") /\ UNCHANGED <<didLoad, mod, waived>>
          \/ a = "goon" /\ waived' = waived \cup {mod} /\ NextModule
          \/ /\ a \in {"giveup", "broken"}
             /\ LoadModulesReturns(FALSE)
             /\ UNCHANGED <<mod, waived>>
  /\ UNCHANGED <<doshell, loaded>>

Next ==
  \/ Skip \/ Setup \/ Start \/ UserShell \/ UserShellLoopEnds \/ StartShell
  \/ CallFunc \/ CallIgnored \/ CallMount \/ PremountEssential \/ MountShell
  \/ SwitchRoot
  \/ Latch \/ Eject
  \/ NoHook \/ RunHook \/ ForkShell \/ HookShell
  \/ LoadModulesCalled \/ Modprobe \/ ModuleShell

Spec == Init /\ [][Next]_vars

\* /init runs one thing at a time; the hooks and commands it waits for end, and
\* an operator leaves a shell sooner or later.  A user shell loop need not end.
FairSpec == Spec /\ WF_vars(Next /\ pc # "usershell")

-------------------------------------------------------------------------------
\* The boot is always at a step of the list, in a state that step has.
TypeOK ==
  /\ at \in 1..Len(Steps)
  /\ pc \in PC
  /\ doshell \subseteq {"onerror", "once", "pre", "loop"}
  /\ flags \subseteq Flags
  /\ haveNet \in BOOLEAN /\ didLoad \in BOOLEAN
  /\ mod \in {1} \cup Mods
  /\ loaded \subseteq Mods /\ waived \subseteq Mods
  /\ went \in {"fine", "failed", "killed"}
  /\ word \in Answer \cup {"none"}

\* Steps whose failure main_init gets over by itself.
Optional == {"ignored", "ifup", "earlymods"}

\* Outside the optional steps, a failure is passed over only with the consent
\* of an operator, given after that failure, through however many shells and
\* retries; and never without xshell=fail.  The consent is exit code 250, which
\* only means that; 0 stands for it in three places alone, where it makes the
\* step count as done: the start, a mount (of newroot's file systems or of an
\* essential fstab), and a hook that could not be forked.  (A hook that was
\* killed does not count as failed for /init: its status is read with
\* WEXITSTATUS alone.)
LeftOnlyWithConsent ==
  [][at' # at /\ went' = "failed" /\ Kind \notin Optional =>
       /\ "onerror" \in doshell
       /\ \/ word' = "goon"
          \/ word' = "retry" /\ pc \in {"startshell", "mountshell", "forkshell"}]_vars

\* With xshell=fail, /init heads for the kernel panic only after it has asked:
\* no combination of hook, latch and nested latch gives up on a failure without
\* having run a shell since, nor after the operator asked for a retry.
GivesUpOnlyAfterShell ==
  [][pc' = "eject" /\ pc # "eject" /\ "onerror" \in doshell =>
       word' \notin {"none", "retry"}]_vars

\* After the second place where modules are loaded, every module of the cmdline
\* has been loaded by one of the two, or the operator has let it pass.
ModulesSettled ==
  at > LoadModules => \A m \in Mods : m \in loaded \cup waived

\* The network that net-ifup brought up has been taken down, as far as /init
\* can tell, when newroot takes over - whatever became of the flag file.
NetworkDownBeforeSwitch == pc = "switched" => ~ haveNet

\* An operator is at work.
InShell ==
  \/ pc = "usershell"
  \/ /\ "onerror" \in doshell
     /\ pc \in {"hookshell", "forkshell", "mountshell", "latch", "startshell",
                "moduleshell"}

\* The boot comes to an end, one way or the other, unless an operator keeps
\* being asked; /init never retries on its own.
BootEnds == <>(pc \in {"switched", "panic"}) \/ []<>InShell
===============================================================================
