------------------------------ MODULE MountConfig ------------------------------
(***************************************************************************)
(* Mount configurations: what a struct mount_config holds, how options are *)
(* parsed into it, how it completes itself (mount_config_autoset), and what *)
(* domount_from_config does with it.  Pure operators, used by Cmdline and  *)
(* Premount.                                                               *)
(*                                                                         *)
(* Flags and configuration bits are sets of names.  An option string is the *)
(* sequence of its comma-separated words; NULL is the word sequence        *)
(* NullOpts, which no option string is equal to.                           *)
(***************************************************************************)
EXTENDS Naturals, Sequences, FiniteSets, SequencesExt

\* A NULL string.
Null == "(null)"
NullOpts == << Null >>

\* The string of no characters.
EmptyString == ""

-----------------------------------------------------------------------------
(* The struct and its accessors.                                           *)

\* mount_config_init: all members are set, strings are copied.
NewMountConfig(source, target, fstype, flags, opts, cfg) ==
  [source |-> source, target |-> target, fstype |-> fstype,
   flags |-> flags, opts |-> opts, cfg |-> cfg]

\* mount_config_enable, mount_config_enable_flag.
Enable(mc, bits) == [mc EXCEPT !.cfg = @ \cup bits]
EnableFlag(mc, bits) == [mc EXCEPT !.flags = @ \cup bits]
DisableFlag(mc, bits) == [mc EXCEPT !.flags = @ \ bits]

\* mount_config_is_enabled and mount_config_check_valid_verbose.
IsEnabled(mc) == "IS_ENABLED" \in mc.cfg
IsValid(mc) == Null \notin {mc.source, mc.target, mc.fstype}

-----------------------------------------------------------------------------
(* Options.                                                                *)

\* The words that parse_mount_opts_str_to_dynarray turns into a flag, each
\* with the flag that it sets and the ones that clear the flag again.  The
\* indices 23 and 24 of its table stand for "async" and "sync".
Sets ==
  [noatime |-> "NOATIME", nodev |-> "NODEV", nodiratime |-> "NODIRATIME",
   noexec |-> "NOEXEC", mand |-> "MANDLOCK", relatime |-> "RELATIME",
   strictatime |-> "STRICTATIME", nosuid |-> "NOSUID", silent |-> "SILENT",
   remount |-> "REMOUNT", ro |-> "RDONLY", async |-> "SYNCHRONOUS",
   bind |-> "BIND", dirsync |-> "DIRSYNC"]

Clears ==
  [atime |-> "NOATIME", dev |-> "NODEV", diratime |-> "NODIRATIME",
   exec |-> "NOEXEC", nomand |-> "MANDLOCK", norelatime |-> "RELATIME",
   nostrictatime |-> "STRICTATIME", suid |-> "NOSUID", loud |-> "SILENT",
   rw |-> "RDONLY", sync |-> "SYNCHRONOUS"]

\* Recognised, but of no consequence here.
Ignored == {"auto", "noauto", "loop", "_netdev", "defaults", "x-nopremount",
            "x-premount"}

\* One word: sets or clears a flag, is ignored, or stays an option; strtok_r
\* drops empty words.
ParseWord(acc, word) ==
  CASE word \in DOMAIN Sets   -> [acc EXCEPT !.flags = @ \cup {Sets[word]}]
    [] word \in DOMAIN Clears -> [acc EXCEPT !.flags = @ \ {Clears[word]}]
    [] word \in Ignored \cup {EmptyString} -> acc
    [] OTHER                  -> [acc EXCEPT !.opts = Append(@, word)]

\* The loop of parse_mount_opts_str: the result after each number of words.
ParseSteps(words) ==
  LET acc[n \in 0..Len(words)] ==
        IF n = 0 THEN [flags |-> {}, opts |-> << >>]
        ELSE ParseWord(acc[n-1], words[n])
  IN  acc

\* parse_mount_opts_str: options that leave no word are the empty string, not
\* NULL.
ParseMountOpts(words) == ParseSteps(words)[Len(words)]

\* Fault: nodev is forgotten.
SpelledNoNodev ==
  << <<"REMOUNT", "remount">>, <<"BIND", "bind">>, <<"NOATIME", "noatime">>,
     <<"NOEXEC", "noexec">>, <<"NOSUID", "nosuid">>, <<"RDONLY", "ro">> >>

\* The flags that get_mount_opts_str spells out, in its order.
Spelled ==
  << <<"REMOUNT", "remount">>, <<"BIND", "bind">>, <<"MOVE", "move">>,
     <<"DIRSYNC", "dirsync">>, <<"MANDLOCK", "mand">>,
     <<"NOATIME", "noatime">>, <<"NODEV", "nodev">>,
     <<"NODIRATIME", "nodiratime">>, <<"NOEXEC", "noexec">>,
     <<"NOSUID", "nosuid">>, <<"RDONLY", "ro">>, <<"RELATIME", "relatime">>,
     <<"SILENT", "silent">>, <<"STRICTATIME", "strictatime">>,
     <<"SYNCHRONOUS", "sync">> >>

\* get_mount_opts_str, for external mount programs: a word per flag that is
\* set, "rw" if RDONLY is not, and then the options.
GetMountOpts(flags, opts) ==
  LET word(p) == IF p[1] \in flags THEN << p[2] >>
                 ELSE IF p[1] = "RDONLY" THEN << "rw" >> ELSE << >>
  IN  FlattenSeq([i \in DOMAIN Spelled |-> word(Spelled[i])])
        \o (IF opts = NullOpts THEN << >> ELSE opts)

\* mount_config_assign_opts_str.
AssignOpts(mc, words) ==
  LET parsed == ParseMountOpts(words)
  IN  [mc EXCEPT !.flags = parsed.flags, !.opts = parsed.opts]

-----------------------------------------------------------------------------
(* mount_config_autoset.                                                   *)

\* Sources that are not device nodes yet: LABEL=, UUID=, PARTUUID=.
FindfsSource == {"LABEL=a", "UUID=a", "PARTUUID=a"}

\* File systems that need no source and are given their own name for one.
SelfSource == {"aufs", "devpts", "mqueue", "overlay", "proc", "ramfs", "sysfs"}

\* The first switch of mount_config_autoset.
AutosetFstype(mc) ==
  CASE mc.fstype = "auto" -> Enable(mc, {"NEED_EXTERNAL"})
    [] mc.fstype = "squashfs" ->
         EnableFlag(Enable(mc, {"NEED_LOOP", "NODEV"}), {"RDONLY"})
    [] mc.fstype \in {"tmpfs", "devtmpfs"} ->
         [Enable(mc, {"NODEV"}) EXCEPT
            !.opts = IF @ = NullOpts THEN << "mode=0755" >> ELSE @,
            !.source = IF @ = Null THEN "tmpfs" ELSE @]
    [] mc.fstype \in {"nfs", "cifs"} ->
         Enable(mc, {"NEED_EXTERNAL", "NEED_NETWORK", "NODEV"})
    [] mc.fstype \in {"ztmpfs", "zdisk"} -> Enable(mc, {"IS_ZRAM"})
    [] OTHER -> mc

\* The second switch, and the test of the source at the end.
AutosetSource(mc) ==
  IF mc.source = Null /\ mc.fstype \in SelfSource
  THEN [mc EXCEPT !.source = mc.fstype] ELSE mc

\* Fault: nobody looks at the source.
AutosetNoFindfs(mc) == AutosetSource(AutosetFstype(mc))

\* All of mount_config_autoset.
Autoset(mc) ==
  LET m == AutosetSource(AutosetFstype(mc))
  IN  IF m.source \in FindfsSource THEN Enable(m, {"NEED_FINDFS"}) ELSE m

-----------------------------------------------------------------------------
(* domount_from_config.                                                    *)

\* How the source is turned into something to mount.  NEED_FINDFS is only set
\* for the sources in FindfsSource, so its test for "/dev/" never applies.
SourceStep(mc) ==
  IF "NEED_FINDFS" \in mc.cfg THEN "findfs"
  ELSE IF "NEED_LOOP" \in mc.cfg THEN "loop" ELSE "asis"

\* Which of the mount functions is called.
MountStep(mc) ==
  IF "NEED_EXTERNAL" \in mc.cfg THEN "external"
  ELSE IF "BIND" \in mc.flags THEN "bind" ELSE "internal"

\* domount_from_config refuses these before it does anything.
Refused(mc) == ~IsValid(mc) \/ "IS_ZRAM" \in mc.cfg
===============================================================================
