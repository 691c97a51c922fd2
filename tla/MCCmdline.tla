------------------------------- MODULE MCCmdline -------------------------------
(***************************************************************************)
(* Command lines for TLC: an argument per handler and per way through it.  *)
(***************************************************************************)
EXTENDS Cmdline

Flag(key) == [key |-> key, eq |-> FALSE, vals |-> << >>]
With(key, vals) == [key |-> key, eq |-> TRUE, vals |-> vals]

SomeArgs ==
  {Flag("quiet"), Flag("idebug"), Flag("ro"), Flag("rw"), Flag("liram"),
   Flag("nousrmount"), Flag("rootfsflags"), Flag("xshell"), Flag("zram_swap"),
   With("modprobe", << "m", "n" >>), With("init", << "i" >>),
   With("root", << "/dev/sda1" >>), With("root", << "LABEL=a", "x" >>),
   With("rootfstype", << "squashfs" >>), With("rootfstype", << "auto" >>),
   With("rootfsflags", << >>), With("rootflags", << "rw", "noexec", "exec", "nodev", "o" >>),
   With("rootfind", << "10001" >>), With("stagedive", << "y" >>),
   With("squashed_usr", << "builtin", "rw", "/u.sfs" >>),
   With("zdisk", << "d", "size=1", "d" >>), With("xshell", << "never", "once" >>),
   With("xshell", << "pre", "always" >>)}
===============================================================================
