--------------------------------- MODULE Cmdline ---------------------------------
(***************************************************************************)
(* The kernel command line: argsplit_argv_do calls the callback of         *)
(* initramfs/cmdline.c once at the start of an argument, once for each     *)
(* value and once at its end; the callback changes initramfs_globals.  One *)
(* step of this module is one call of the callback.  After the last        *)
(* argument the configuration is completed, and the root file system and   *)
(* /usr are mounted as it says.                                            *)
(*                                                                         *)
(* An argument may fail (a zram disk that cannot be set up, rootfsflags     *)
(* without a value): the rest of the command line is then not looked at,   *)
(* and default_initramfs_start asks an operator, if an xshell= that has     *)
(* been seen by then allows for it, whether to go on.                      *)
(***************************************************************************)
EXTENDS MountConfig

CONSTANTS
  Args,        \* arguments: [key, eq ("=" present), vals]
  MaxArgs,     \* bound: length of the command line
  FlagFiles,   \* which of /QUIET, /VERBOSE and /DEBUG may exist
  DiskMayFail  \* zram_disk_simple may fail

VARIABLES
  argv,     \* cmdline_argv; before it is read, what is in the files
  pc,       \* "read", "arg", "failed", "gaveup", "root", "usr", "done"
  k,        \* the argument being processed
  iter,     \* the next call: 0 start, 1.. values, Len + 1 end of argument
  g,        \* initramfs_globals
  peeked,   \* history: the arguments were looked at for verbosity
  complete, \* history: the end was reached, and everything postprocessed
  mounted   \* history: the mounts done

vars == << argv, pc, k, iter, g, peeked, complete, mounted >>

ASSUME ArgsAssumption ==
  \A a \in Args : /\ a.eq \in BOOLEAN
                  /\ a.vals \in Seq(ToSet(a.vals))
                  /\ a.vals # << >> => a.eq
                  /\ \A i \in DOMAIN a.vals : a.vals[i] \notin {EmptyString, Null}
ASSUME BoundsAssumption ==
  /\ MaxArgs \in Nat \ {0} /\ DiskMayFail \in BOOLEAN
  /\ FlagFiles \subseteq {"QUIET", "VERBOSE", "DEBUG"}

-----------------------------------------------------------------------------
(* decision_bool.h: a decision is a set of bits.                           *)

Undecided == {}
True == {"TRUE"}
False == {"FALSE"}
IsFalse(d) == "FALSE" \in d
Enforce(d) == d \cup {"FORCED"}

\* _initramfs_globals_zap and _initramfs_globals_init_data_structs.
Globals ==
  [want |-> {}, root_ro_status |-> Undecided, want_newroot_mount |-> Undecided,
   want_newroot_usr_mount |-> Undecided, rootfind_delay |-> 0,
   doshell |-> {}, real_init |-> Null, load_modules |-> << >>,
   zram_autoswap |-> Null, zdisks |-> << >>,
   newroot_mount |-> NewMountConfig(Null, "/newroot", "ext4", {}, NullOpts, {}),
   newroot_usr_mount |->
     NewMountConfig("/newroot/usr.squashfs", "/newroot/usr", "squashfs",
                    {"RDONLY"}, NullOpts, {"NEED_LOOP"})]

Init ==
  /\ argv \in UNION {[1..n -> Args] : n \in 0..MaxArgs}
  /\ pc = "read" /\ k = 1 /\ iter = 0
  /\ g \in {[Globals EXCEPT !.want = f] : f \in SUBSET FlagFiles}
  /\ peeked = FALSE /\ complete = FALSE /\ mounted = << >>

-----------------------------------------------------------------------------
(* Reading the command line.                                               *)

\* _initramfs_globals_balance_verbosity.
Balance(want) ==
  IF "QUIET" \in want THEN {"QUIET"}
  ELSE IF "DEBUG" \in want THEN want \cup {"VERBOSE"} ELSE want

\* initramfs_globals_set_quiet and its siblings, for an argument that is one of
\* five words as it stands.
SetVerbosity(want, a) ==
  IF a.eq THEN want
  ELSE CASE a.key \in {"quiet", "iquiet"} -> {"QUIET"}
         [] a.key = "inoquiet" -> {}
         [] a.key = "iverbose" -> (want \ {"QUIET"}) \cup {"VERBOSE"}
         [] a.key = "idebug" -> {"DEBUG", "VERBOSE"}
         [] OTHER -> want

\* The loop that looks at the arguments: what is wanted after each number of
\* them.
Peek(want, args) ==
  LET seen[n \in 0..Len(args)] ==
        IF n = 0 THEN Balance(want) ELSE SetVerbosity(seen[n-1], args[n])
  IN  seen

\* _initramfs_baselayout_read_cmdline: the files /cmdline.defaults,
\* /proc/cmdline, /cmdline, /cmdline.extend and /cmdline.local are read one
\* after the other, their arguments put together, and looked at for verbosity.
ReadCmdline ==
  /\ pc = "read" /\ pc' = "arg"
  /\ g' = [g EXCEPT !.want = Balance(Peek(@, argv)[Len(argv)])]
  /\ peeked' = TRUE
  /\ UNCHANGED << argv, k, iter, complete, mounted >>

\* One of the files cannot be read: what has been read so far remains, nobody
\* looks at it for verbosity, and nobody asks for failed_to_read_cmdline.
ReadCmdlineFails ==
  /\ pc = "read" /\ pc' = "arg"
  /\ \E n \in 0..Len(argv) : argv' = SubSeq(argv, 1, n)
  /\ g' = [g EXCEPT !.want = Balance(@)]
  /\ UNCHANGED << k, iter, peeked, complete, mounted >>

-----------------------------------------------------------------------------
(* argsplit: the protocol between argsplit_argv_do and the callback.       *)

Arg == argv[k]
AtStart == iter = 0
AtValue == iter \in 1..Len(Arg.vals)
AtEnd == iter = Len(Arg.vals) + 1
Value == Arg.vals[iter]

\* The callback is called for the current argument, whose key is one of keys.
Called(keys) == pc = "arg" /\ k <= Len(argv) /\ Arg.key \in keys

\* It returns 0 and lets argsplit go on: the next value, the end, and after
\* that the next argument.
KeepGoing ==
  /\ IF AtEnd THEN k' = k + 1 /\ iter' = 0 ELSE k' = k /\ iter' = iter + 1
  /\ UNCHANGED << argv, pc, peeked, complete, mounted >>

\* It returns 0 with ARGSPLIT_NEXT_ARG.
NextArg == k' = k + 1 /\ iter' = 0 /\ UNCHANGED << argv, pc, peeked, complete, mounted >>

\* It returns non-zero, which ends argsplit_argv_do.
Fail == pc' = "failed" /\ UNCHANGED << argv, k, iter, peeked, complete, mounted >>

-----------------------------------------------------------------------------
(* The callback, _initramfs_cmdline_process_arg, one action per key.       *)

\* Keys that are of no concern to /init.
DontCare ==
  /\ pc = "arg" /\ k <= Len(argv)
  /\ Arg.key \notin {"modprobe", "load_modules", "init", "real_init", "ro", "rw",
       "norootmount", "root", "rootfstype", "rootfsflags", "rootflags", "rootfind",
       "squashed_usr", "zram_swap", "zram_disk", "zdisk", "xshell", "liram",
       "liram_x", "stagedive", "nousrmount"}
  /\ UNCHANGED g /\ KeepGoing

Modprobe ==
  /\ Called({"modprobe", "load_modules"})
  /\ g' = IF AtValue THEN [g EXCEPT !.load_modules = Append(@, Value)] ELSE g
  /\ KeepGoing

RealInit ==
  /\ Called({"init", "real_init"})
  /\ g' = IF AtValue THEN [g EXCEPT !.real_init = Value] ELSE g
  /\ KeepGoing

RoRw ==
  /\ Called({"ro", "rw"})
  /\ g' = [g EXCEPT !.root_ro_status = IF Arg.key = "ro" THEN True ELSE False]
  /\ NextArg

\* norootmount, liram= and liram_*=: all calls do the same.
NoRootMount ==
  /\ Called({"norootmount", "liram", "liram_x"})
  /\ g' = [g EXCEPT !.want_newroot_mount = False]
  /\ KeepGoing

Root ==
  /\ Called({"root"})
  /\ \/ /\ AtValue
        /\ g' = [g EXCEPT !.newroot_mount =
                   Enable([@ EXCEPT !.source = Value], {"IS_ENABLED"})]
        /\ NextArg
     \/ ~AtValue /\ UNCHANGED g /\ KeepGoing

Rootfstype ==
  /\ Called({"rootfstype"})
  /\ \/ AtValue /\ g' = [g EXCEPT !.newroot_mount.fstype = Value] /\ NextArg
     \/ ~AtValue /\ UNCHANGED g /\ KeepGoing

\* Handled in the first call, from the argument itself.  No "=" is an error;
\* an empty list clears options and flags.
Rootfsflags ==
  /\ Called({"rootfsflags", "rootflags"})
  /\ \/ ~Arg.eq /\ UNCHANGED g /\ Fail
     \/ /\ Arg.eq /\ Arg.vals = << >>
        /\ g' = [g EXCEPT !.newroot_mount.opts = NullOpts, !.newroot_mount.flags = {}]
        /\ NextArg
     \/ /\ Arg.eq /\ Arg.vals # << >>
        /\ g' = [g EXCEPT !.newroot_mount = AssignOpts(@, Arg.vals)]
        /\ NextArg

\* DEFAULT_ROOTFIND_DELAY, and what the values stand for ("x" is no number).
DefaultDelay == 50
Delay(val) == CASE val = "0" -> 0 [] val = "70" -> 70
                [] val \in {"-1", "10001", "x"} -> DefaultDelay

Rootfind ==
  /\ Called({"rootfind"})
  /\ g' = [g EXCEPT !.rootfind_delay =
             IF AtStart THEN (IF @ = 0 THEN DefaultDelay ELSE @)
             ELSE IF AtValue THEN Delay(Value) ELSE @]
  /\ KeepGoing

Stagedive ==
  /\ Called({"stagedive"})
  /\ g' = [g EXCEPT
       !.newroot_mount = Enable([@ EXCEPT !.source = "zroot", !.fstype = "zdisk",
                                          !.opts = NullOpts], {"IS_ENABLED"}),
       !.root_ro_status = False,
       !.want_newroot_mount = True]
  /\ NextArg

\* Fault: does not look at want_newroot_usr_mount.
SquashedUsrUnasked ==
  /\ Called({"squashed_usr"})
  /\ g' = IF AtStart THEN [g EXCEPT !.newroot_usr_mount = Enable(@, {"IS_ENABLED"}),
                                    !.want_newroot_usr_mount = True]
          ELSE g
  /\ KeepGoing

\* squashed_usr=: ignored once /usr is not to be mounted; "builtin" enforces
\* the mount, "ro" and "rw" set a flag, a path is the source.
SquashedUsr ==
  /\ Called({"squashed_usr"})
  /\ g' = IF IsFalse(g.want_newroot_usr_mount) \/ AtEnd THEN g
          ELSE IF AtStart THEN [g EXCEPT !.newroot_usr_mount = Enable(@, {"IS_ENABLED"})]
          ELSE CASE Value = "builtin" -> [g EXCEPT !.want_newroot_usr_mount = Enforce(@)]
                 [] Value = "rw" -> [g EXCEPT !.newroot_usr_mount = DisableFlag(@, {"RDONLY"})]
                 [] Value = "ro" -> [g EXCEPT !.newroot_usr_mount = EnableFlag(@, {"RDONLY"})]
                 [] Value = "/u.sfs" -> [g EXCEPT !.newroot_usr_mount.source = Value]
                 [] OTHER -> g
  /\ KeepGoing

NoUsrMount ==
  /\ Called({"nousrmount"})
  /\ g' = [g EXCEPT !.want_newroot_usr_mount = False]
  /\ KeepGoing

\* Only the first call counts; without a size the size is guessed.
ZramSwap ==
  /\ Called({"zram_swap"})
  /\ g' = IF AtStart THEN [g EXCEPT !.zram_autoswap =
                             IF Arg.vals = << >> THEN "guess" ELSE Arg.vals[1]]
          ELSE g
  /\ KeepGoing

\* The options of a zram disk, in the model's spelling.  A word without "=" is
\* the name only when it comes first; others without a meaning are passed over.
DiskOpts(vals) ==
  LET name(i) == IF i = 1 /\ vals[i] = "d" THEN {"d"}
                 ELSE IF vals[i] = "name=d" THEN {"d"} ELSE {}
      size(i) == IF vals[i] = "size=1" THEN {"1"} ELSE {}
      last(f(_)) == LET at == {i \in DOMAIN vals : f(i) # {}}
                    IN  IF at = {} THEN Null
                        ELSE CHOOSE x \in f(CHOOSE i \in at : \A j \in at : j <= i) : TRUE
  IN  [name |-> last(name), size |-> last(size)]

\* The disk is set up at the first value, from all values, while the command
\* line is being parsed.  Without a value nothing happens.
ZramDisk ==
  /\ Called({"zram_disk", "zdisk"})
  /\ \/ ~AtValue /\ UNCHANGED g /\ KeepGoing
     \/ AtValue /\ g' = [g EXCEPT !.zdisks = Append(@, DiskOpts(Arg.vals))] /\ NextArg
     \/ AtValue /\ DiskMayFail /\ UNCHANGED g /\ Fail

\* The bits that a value of xshell= adds.
ShellBits(val) ==
  CASE val \in {"fail", "error"} -> {"ONERROR"}
    [] val = "once" -> {"ONCE"}
    [] val \in {"pre", "preswitch"} -> {"PRESWITCH"}
    [] val = "always" -> {"LOOP"}
    [] OTHER -> {}

\* Fault: the values of an earlier xshell= are kept.
XshellKeepsEarlier ==
  /\ Called({"xshell"})
  /\ g' = [g EXCEPT !.doshell =
             IF AtStart THEN @ \cup {"ONERROR"} \cup (IF Arg.vals = << >> THEN {"LOOP"} ELSE {})
             ELSE IF AtEnd THEN @
             ELSE IF Value = "never" THEN {} ELSE @ \cup ShellBits(Value)]
  /\ KeepGoing

Xshell ==
  /\ Called({"xshell"})
  /\ g' = [g EXCEPT !.doshell =
             IF AtStart THEN {"ONERROR"} \cup (IF Arg.vals = << >> THEN {"LOOP"} ELSE {})
             ELSE IF AtEnd THEN @
             ELSE IF Value = "never" THEN {} ELSE @ \cup ShellBits(Value)]
  /\ KeepGoing

-----------------------------------------------------------------------------
(* After the last argument.                                                *)

\* Fault: ro and rw are left to rootfsflags.
PostprocessNoRdonly ==
  /\ pc = "arg" /\ k > Len(argv)
  /\ LET auto(mc) == IF IsEnabled(mc) THEN Autoset(mc) ELSE mc
     IN  g' = [g EXCEPT !.newroot_mount = auto(@), !.newroot_usr_mount = auto(@)]
  /\ pc' = "root" /\ complete' = TRUE
  /\ UNCHANGED << argv, k, iter, peeked, mounted >>

\* _initramfs_postprocess_cmdline: RDONLY is decided by ro and rw alone; then
\* the mounts complete themselves.
Postprocess ==
  /\ pc = "arg" /\ k > Len(argv)
  /\ LET auto(mc) == IF IsEnabled(mc) THEN Autoset(mc) ELSE mc
         ro(mc) == IF IsFalse(g.root_ro_status) THEN DisableFlag(mc, {"RDONLY"})
                   ELSE EnableFlag(mc, {"RDONLY"})
     IN  g' = [g EXCEPT !.newroot_mount = auto(ro(@)), !.newroot_usr_mount = auto(@)]
  /\ pc' = "root" /\ complete' = TRUE
  /\ UNCHANGED << argv, k, iter, peeked, mounted >>

\* default_initramfs_start after a failure: the on-error shell is run if
\* doshell says so, and its exit code 0 lets the boot go on.
OnErrorShell ==
  /\ pc = "failed"
  /\ \/ "ONERROR" \in g.doshell /\ pc' = "root"
     \/ pc' = "gaveup"
  /\ UNCHANGED << argv, k, iter, g, peeked, complete, mounted >>

\* initramfs_domount and domount_from_config: what is done to the source, and
\* who does the mount.  Which of the steps fails is left open.
Domount(mc) ==
  IF "IS_ZRAM" \in mc.cfg
  THEN [target |-> mc.target, source |-> mc.source, by |-> "asis", how |-> "zram",
        ro |-> "RDONLY" \in mc.flags]
  ELSE [target |-> mc.target, source |-> mc.source, by |-> SourceStep(mc),
        how |-> IF IsValid(mc) THEN MountStep(mc) ELSE "refused", ro |-> "RDONLY" \in mc.flags]

\* _initramfs_mount_newroot_default: mounts what is wanted and enabled.  A
\* failure goes to an operator, who may go on or have it tried again.
MountNewroot(at, next, want, mc) ==
  /\ pc = at /\ pc' = next
  /\ mounted' = IF IsFalse(want) \/ ~IsEnabled(mc) THEN mounted
                ELSE Append(mounted, Domount(mc))
  /\ UNCHANGED << argv, k, iter, g, peeked, complete >>

MountRoot == MountNewroot("root", "usr", g.want_newroot_mount, g.newroot_mount)
MountUsr == MountNewroot("usr", "done", g.want_newroot_usr_mount, g.newroot_usr_mount)

Next ==
  \/ DontCare \/ Modprobe \/ RealInit \/ RoRw \/ NoRootMount \/ Root \/ Rootfstype
  \/ Rootfsflags \/ Rootfind \/ Stagedive \/ SquashedUsr \/ NoUsrMount \/ ZramSwap
  \/ ZramDisk \/ Xshell \/ ReadCmdline \/ ReadCmdlineFails \/ Postprocess
  \/ OnErrorShell \/ MountRoot \/ MountUsr

Spec == Init /\ [][Next]_vars

-----------------------------------------------------------------------------
(* Properties.                                                             *)

\* The value that the last argument satisfying P has under V, or the default.
LastGiven(P(_), V(_), default) ==
  LET at == {i \in DOMAIN argv : P(argv[i])}
  IN  IF at = {} THEN default ELSE V(argv[CHOOSE i \in at : \A j \in at : j <= i])

Verbosity(a) == ~a.eq /\ a.key \in {"quiet", "iquiet", "inoquiet", "iverbose", "idebug"}
HasValue(a) == a.vals # << >>
Stagedives(a) == a.key = "stagedive"

\* What a list of values of xshell= asks for: everything after the last
\* "never", and an on-error shell if there is no "never".
ShellOf(vals) ==
  LET never == {i \in DOMAIN vals : vals[i] = "never"}
      kept == {i \in DOMAIN vals : \A j \in never : j < i}
  IN  (UNION {ShellBits(vals[i]) : i \in kept})
        \cup (IF never = {} THEN {"ONERROR"} ELSE {})
        \cup (IF vals = << >> THEN {"LOOP"} ELSE {})

\* The flags that a list of mount options asks for: the last word about a flag
\* decides.
FlagsOf(vals) ==
  {f \in {Sets[w] : w \in DOMAIN Sets} :
     \E i \in DOMAIN vals :
       /\ vals[i] \in DOMAIN Sets /\ Sets[vals[i]] = f
       /\ \A j \in (i+1)..Len(vals) : vals[j] \in DOMAIN Clears => Clears[vals[j]] # f}

\* Once the command line has been processed, README.rst's rule "Overrides any
\* earlier parameter" holds in every order: source, type, flags, init program,
\* swap size, shells, quietness and the wish for a root mount are those of the
\* last parameter about them.  Which parameter is about what, and the default,
\* are those of initramfs/cmdline.c and globals.c; README.rst says otherwise of
\* rootfstype= (default "auto"; the code: ext4), noquiet (the code: inoquiet),
\* liram= ("Ignored"; the code: no root mount) and xshell=once ("Also enables
\* xshell=fail"; the code: not after "never" in the same list).
LaterParameterWins ==
  complete =>
    /\ g.newroot_mount.source =
         LastGiven(LAMBDA a : Stagedives(a) \/ (a.key = "root" /\ HasValue(a)),
              LAMBDA a : IF Stagedives(a) THEN "zroot" ELSE a.vals[1], Null)
    /\ g.newroot_mount.fstype =
         LastGiven(LAMBDA a : Stagedives(a) \/ (a.key = "rootfstype" /\ HasValue(a)),
              LAMBDA a : IF Stagedives(a) THEN "zdisk" ELSE a.vals[1], "ext4")
    /\ g.newroot_mount.flags \ {"RDONLY"} =
         LastGiven(LAMBDA a : a.key \in {"rootfsflags", "rootflags"},
                   LAMBDA a : FlagsOf(a.vals), {}) \ {"RDONLY"}
    /\ g.real_init = LastGiven(LAMBDA a : a.key \in {"init", "real_init"} /\ HasValue(a),
                          LAMBDA a : a.vals[Len(a.vals)], Null)
    /\ g.zram_autoswap = LastGiven(LAMBDA a : a.key = "zram_swap",
                              LAMBDA a : IF HasValue(a) THEN a.vals[1] ELSE "guess", Null)
    /\ g.doshell = LastGiven(LAMBDA a : a.key = "xshell", LAMBDA a : ShellOf(a.vals), {})
    /\ ~IsFalse(g.want_newroot_mount) =
         LastGiven(LAMBDA a : Stagedives(a) \/ a.key \in {"norootmount", "liram", "liram_x"},
              Stagedives, TRUE)
    /\ peeked /\ (\E a \in ToSet(argv) : Verbosity(a)) =>
         ("QUIET" \in g.want) = LastGiven(Verbosity,
                                         LAMBDA a : a.key \in {"quiet", "iquiet"}, FALSE)

\* The root file system is mounted writable only if the last of ro, rw and
\* stagedive asks for it, wherever they are and whatever rootfsflags= says
\* ("ro ... This is the default"); squashfs never is.
RootReadonlyByDefault ==
  \A m \in ToSet(mounted) : m.target = "/newroot" =>
    m.ro = (\/ g.newroot_mount.fstype = "squashfs"
            \/ ~LastGiven(LAMBDA a : a.key \in {"ro", "rw", "stagedive"},
                          LAMBDA a : a.key # "ro", FALSE))

\* nousrmount anywhere on the command line keeps /init from mounting /usr,
\* whether squashed_usr= comes before or after it, and however often either is given.
NoUsrMountIsFinal ==
  (\E a \in ToSet(argv) : a.key = "nousrmount") =>
    \A m \in ToSet(mounted) : m.target # "/newroot/usr"

\* What is mounted is what the command line as a whole asks for: the root file
\* system read-only unless told otherwise, and no /usr against nousrmount.
MountedAsTold == complete => RootReadonlyByDefault /\ NoUsrMountIsFinal

\* A configuration that the command line has enabled is one that can be
\* mounted: it is complete, and LABEL=, UUID= and PARTUUID= are looked up
\* before mount gets to see them.  The parameters that set source, type and
\* the enabled bit are independent of each other and come in any order.
MountsWhatItCan ==
  \A i \in DOMAIN mounted :
    complete /\ mounted[i].how # "zram" =>
      /\ mounted[i].how # "refused"
      /\ mounted[i].source \in FindfsSource => mounted[i].by = "findfs"

\* domount_from_config_if_enabled completes a configuration again that was
\* completed when the command line was processed, and an external mount
\* program gets the flags spelled out by get_mount_opts_str: neither changes
\* what is mounted.  ("sync" and "async" are left out: parse_mount_opts_str has
\* them the wrong way round.)
OptionsSurvive ==
  complete =>
    \A mc \in {g.newroot_mount, g.newroot_usr_mount} :
      /\ IsEnabled(mc) => Autoset(mc) = mc
      /\ "SYNCHRONOUS" \notin mc.flags =>
           ParseMountOpts(GetMountOpts(mc.flags, mc.opts)) =
             [flags |-> mc.flags, opts |-> IF mc.opts = NullOpts THEN << >> ELSE mc.opts]
===============================================================================
