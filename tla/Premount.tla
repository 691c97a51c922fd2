-------------------------------- MODULE Premount --------------------------------
(***************************************************************************)
(* Mounting the entries of fstab files in newroot (initramfs/premount.c),  *)
(* then newroot's /tmp and the tmpdirs of the users (hacks.c): the steps   *)
(* "newroot mounts", "newroot subtree mounts", "newroot fstab premount",   *)
(* "newroot mount tmpdir" and "newroot tmpdir setup" of main_init, each    *)
(* under the fail latch, whose operator may mount things by hand, ask for  *)
(* a retry, go on or give up.  One step of this module is one fstab entry. *)
(*                                                                         *)
(* Paths below /newroot are sequences of names.  The kernel's mount tree   *)
(* is the sequence of the mounts done so far: a path is on the file system *)
(* of the last one of them that was made at the path or above it.          *)
(***************************************************************************)
EXTENDS MountConfig, Integers

CONSTANTS
  Worlds,     \* what the fstab files, /newroot/etc/passwd and cmdline may be
  AbsFiles,   \* sources that are absolute paths outside of /dev
  Images,     \* those of them that are a file in newroot
  Flaky,      \* sources for which losetup, findfs or mount may fail
  MaxTries,   \* bound: retries
  MaxByHand   \* bound: mounts made by the operator

ASSUME PremountAssumption ==
  /\ Images \subseteq AbsFiles
  /\ MaxTries \in Nat /\ MaxByHand \in Nat

\* Files are sequences of entries, and paths of names.  The files of the first two
\* stages are not filtered, and only the later stages can be left out.
ASSUME WorldsAssumption ==
  \A w \in Worlds :
    /\ {w.base.mode, w.subtree.mode} \subseteq {"none", "nofilter"}
    /\ w.fstab \in Seq(ToSet(w.fstab))
    /\ \A f \in ToSet(w.fstab) : f.mode \in {"none", "nofilter", "filter"}
    /\ \A f \in {w.base, w.subtree} \cup ToSet(w.fstab) :
         /\ f.entries \in Seq(ToSet(f.entries))
         /\ \A e \in ToSet(f.entries) : e.dir \in Seq(ToSet(e.dir))
    /\ w.leaveout \subseteq {"fstab", "tmpdir", "users"}

VARIABLES
  world,    \* [base, subtree, fstab |-> the files, passwd |-> the accounts,
            \*  xshell, net |-> booleans, leaveout |-> stages with a flag file]
  stage,    \* the step main_init is at, or "gaveup"
  pc,       \* "open", "entry", "eof", "shell", "latch"
  file,     \* the index of the file being read
  i,        \* the entry to look at
  ret,      \* retcode
  havetmp,  \* premount_status & INITRAMFS_HAVEMNT_TMP
  mounts,   \* kernel: the mounts in newroot, with who made them
  made,     \* the directories created in newroot as bind sources
  userdirs, \* the tmpdirs of users: the file system they are on, and the links
  tries,    \* the retries of this stage
  byhand    \* how often the operator has mounted something

vars == << world, stage, pc, file, i, ret, havetmp, mounts, made, userdirs,
           tries, byhand >>

Stages == << "base", "subtree", "fstab", "tmpdir", "users", "done" >>

Tmp == << "tmp" >>
NoPath == << EmptyString >>   \* mnt_dir is "none", or empty
RootDev == << "dev", "/dev/root" >>
Initramfs == << "dev", "rootfs" >>
NoDev == << "dev", EmptyString >>
NoDirs == [on |-> NoDev, links |-> {}]

Init ==
  /\ world \in Worlds
  /\ stage = "base" /\ pc = "open" /\ file = 1 /\ i = 1 /\ ret = 0
  /\ havetmp = FALSE
  /\ mounts = << [mp |-> << >>, dev |-> RootDev, by |-> "init"] >>
  /\ made = {} /\ userdirs = NoDirs
  /\ tries = 0 /\ byhand = 0

-----------------------------------------------------------------------------
(* The mount tree.                                                         *)

\* stat(path).st_dev.
DevOf(ms, path) ==
  LET over == {n \in DOMAIN ms : IsPrefix(ms[n].mp, path)}
  IN  ms[CHOOSE n \in over : \A m \in over : m <= n].dev

\* Fault: the parent is always taken to be newroot.
IsMountedRootParent(ms, path) ==
  IF path = << >> THEN -1
  ELSE IF Len(path) > 1 \/ DevOf(ms, path) = DevOf(ms, << >>) THEN 1 ELSE 0

\* _get_parent_path.
ParentPath(path) == Front(path)

\* is_mounted: 0 if the device of the path is not the one of its parent.  For
\* "/" the path is "/newroot/", which has no parent in _get_parent_path.
IsMounted(ms, path) ==
  IF path = << >> THEN -1
  ELSE IF DevOf(ms, path) = DevOf(ms, ParentPath(path)) THEN 1 ELSE 0

\* A device has the same st_dev wherever it is mounted; file systems without
\* one, loop devices and zram disks are new each time.
Fresh(ms) == << "new", Len(ms) >>

Mounted(ms, mp, dev, by) == Append(ms, [mp |-> mp, dev |-> dev, by |-> by])

-----------------------------------------------------------------------------
(* One entry: _mount_that_entry.                                           *)

Files == CASE stage \in {"base", "subtree"} -> << world[stage] >>
           [] stage = "fstab" -> world.fstab
           [] OTHER -> << >>

File == Files[file]
Entry == File.entries[i]

HasOpt(e, opt) == opt \in ToSet(e.opts)

\* The entries that are never mounted.
Unmountable(e) == HasOpt(e, "x-nopremount") \/ e.type \in {"swap", "ignore"}

\* The entries for zram_tmpfs.
IsZramEntry(e) ==
  \/ e.type \in {"ztmpfs", "zdisk"}
  \/ e.type = "auto" /\ e.src \in {"ztmpfs", "zdisk"}

\* A loop file: an absolute path outside of /dev that exists in newroot.
IsLoopFile(e) == e.src \in AbsFiles /\ e.src \in Images \cup made

\* _init_mount_config_from_opts_str_and_autoset, and the options that are
\* looked for after it.
EntryConfig(e) ==
  LET mc == NewMountConfig(e.src, e.dir, e.type, {}, NullOpts,
              {"IS_ENABLED"} \cup (IF IsLoopFile(e) THEN {"NEED_LOOP"} ELSE {}))
      word(opt, bit) == IF HasOpt(e, opt) THEN {bit} ELSE {}
  IN  Enable(Autoset(AssignOpts(mc, e.opts)),
             word("loop", "NEED_LOOP") \cup word("_netdev", "NEED_NETWORK"))

\* What a mount function may come to: whether it mounts something, and of
\* which device, and whether it reports success.
Outcome(mounted, dev, ok) == [mounted |-> mounted, dev |-> dev, ok |-> ok]
Fails == Outcome(FALSE, NoDev, FALSE)

\* stdmount and stdmount_external: the directory is created, then mounted on.
Stdmount(dev) == Outcome(TRUE, dev, TRUE)
StdmountExternal(dev) == Outcome(TRUE, dev, TRUE)

\* bind_mount binds a directory of the initramfs.  It is followed by remount(),
\* which does not say MS_REMOUNT: for the kernel, a bind mount without a source.
BindMount == Outcome(TRUE, Initramfs, FALSE)

\* A directory is no file to back a loop device, and a loop device cannot be
\* bound to a directory.
LoopFails(mc) ==
  SourceStep(mc) = "loop" /\ (mc.source \in made \/ MountStep(mc) = "bind")

\* domount_from_config.
DomountOutcomes(mc) ==
  LET dev == IF SourceStep(mc) = "loop" \/ "NODEV" \in mc.cfg
             THEN Fresh(mounts) ELSE << "dev", mc.source >>
      step == [external |-> StdmountExternal(dev), bind |-> BindMount,
               internal |-> Stdmount(dev)]
  IN  {IF Refused(mc) \/ LoopFails(mc) THEN Fails ELSE step[MountStep(mc)]}
        \cup (IF mc.source \in Flaky THEN {Fails} ELSE {})

\* _mount_ztmpfs_entry: zram_tmpfs returns 0 whether it has mounted a zram disk, a tmpfs, or
\* nothing; it fails for bad options.
ZramOutcomes ==
  {Outcome(TRUE, Fresh(mounts), TRUE), Outcome(FALSE, NoDev, TRUE), Fails}

\* PREMOUNT_SUCCESS, PREMOUNT_FAILED_TO_MOUNT or PREMOUNT_CANNOT_MOUNT, with
\* what has happened to newroot.
Result(code, ms, dirs) == [code |-> code, mounts |-> ms, made |-> dirs]

After(e, o, dirs) ==
  Result(IF o.ok THEN "SUCCESS" ELSE "FAILED",
         IF o.mounted THEN Mounted(mounts, e.dir, o.dev, File.mode) ELSE mounts, dirs)

\* _create_bind_mount_source_dir_in_newroot; nobody minds if it fails.
WithBindSource(src) == IF src \in AbsFiles THEN made \cup {src} ELSE made

\* All of _mount_that_entry.
MountThatEntry(e) ==
  LET mc == EntryConfig(e)
      dirs == IF HasOpt(e, "bind") THEN WithBindSource(e.src) ELSE made
  IN  IF Unmountable(e) THEN {Result("CANNOT", mounts, made)}
      ELSE IF IsMounted(mounts, e.dir) = 0 THEN {Result("SUCCESS", mounts, made)}
      ELSE IF IsZramEntry(e) THEN {After(e, o, made) : o \in ZramOutcomes}
      ELSE IF "NEED_NETWORK" \in mc.cfg /\ ~world.net
      THEN {Result("CANNOT", mounts, made)}
      ELSE {After(e, o, dirs) : o \in DomountOutcomes(mc)}

-----------------------------------------------------------------------------
(* One file: initramfs_premount_all and initramfs_premount_all_nofilter.   *)

\* Mount points that are always wanted, and the ones wanted with what is below.
Wanted == {"tmp", "run", "mnt", "media", "data"}
WantedTrees == {"usr", "var", "etc", "UNION_ROOT"}

\* I_WANT_THAT_ENTRY, in either mode.
Selected(mode, e) ==
  /\ e.dir # NoPath
  /\ mode = "filter" =>
       \/ Len(e.dir) = 1 /\ Head(e.dir) \in Wanted
       \/ Len(e.dir) > 0 /\ Head(e.dir) \in WantedTrees

\* A file that does not exist, or that can or cannot be opened.
OpenFile ==
  /\ pc = "open" /\ file <= Len(Files) /\ stage \notin world.leaveout
  /\ \/ File.mode = "none" /\ file' = file + 1 /\ UNCHANGED << pc, ret >>
     \/ File.mode # "none" /\ pc' = "entry" /\ ret' = 0 /\ UNCHANGED file
     \/ /\ File.mode # "none" /\ "fstab" \in Flaky
        /\ pc' = "eof" /\ ret' = 1 /\ UNCHANGED file
  /\ i' = 1
  /\ UNCHANGED << world, stage, havetmp, mounts, made, userdirs, tries, byhand >>

\* An entry that is filtered out.
SkipEntry ==
  /\ pc = "entry" /\ i <= Len(File.entries)
  /\ ~Selected(File.mode, Entry)
  /\ i' = i + 1
  /\ UNCHANGED << world, stage, pc, file, ret, havetmp, mounts, made, userdirs,
                  tries, byhand >>

\* Fault: the last entry decides.
LatchedLast(r, code) == IF code = "FAILED" THEN 2 ELSE 0

\* What _initramfs_premount_all__mount makes of retcode.
Latched(r, code) == IF code = "FAILED" /\ r = 0 THEN 2 ELSE r

\* Only the filtered mode keeps book of /tmp.
TmpDone(mode, e, code) == mode = "filter" /\ e.dir = Tmp /\ code = "SUCCESS"

MountEntry ==
  /\ pc = "entry" /\ i <= Len(File.entries)
  /\ Selected(File.mode, Entry)
  /\ \E r \in MountThatEntry(Entry) :
       /\ mounts' = r.mounts /\ made' = r.made
       /\ ret' = Latched(ret, r.code)
       /\ havetmp' = (havetmp \/ TmpDone(File.mode, Entry, r.code))
  /\ i' = i + 1
  /\ UNCHANGED << world, stage, pc, file, userdirs, tries, byhand >>

EndOfFile ==
  /\ pc = "entry" /\ i = Len(File.entries) + 1
  /\ pc' = "eof"
  /\ UNCHANGED << world, stage, file, i, ret, havetmp, mounts, made, userdirs,
                  tries, byhand >>

-----------------------------------------------------------------------------
(* The stages.                                                             *)

\* The step of main_init that follows.
StageAfter(st) == Stages[1 + CHOOSE n \in DOMAIN Stages : Stages[n] = st]

NextStage ==
  /\ stage' = StageAfter(stage)
  /\ pc' = "open" /\ file' = 1 /\ i' = 1 /\ ret' = 0 /\ tries' = 0
  /\ UNCHANGED << world, havetmp, mounts, made, userdirs, byhand >>

\* initramfs_newroot_premount: the next file is read unless this one failed.
\* _premount_essential: a failure is first taken to an on-error shell of its own.
FileDone ==
  /\ pc = "eof"
  /\ \/ ret = 0 /\ pc' = "open" /\ file' = file + 1
     \/ /\ ret # 0 /\ file' = file
        /\ pc' = IF stage = "fstab" THEN "latch" ELSE "shell"
  /\ UNCHANGED << world, stage, i, ret, havetmp, mounts, made, userdirs,
                  tries, byhand >>

StageDone ==
  /\ pc = "open" /\ file > Len(Files) /\ stage \in {"base", "subtree", "fstab"}
  /\ stage \notin world.leaveout
  /\ NextStage

GiveUp ==
  /\ stage' = "gaveup" /\ pc' = "open" /\ file' = 1 /\ i' = 1
  /\ UNCHANGED << world, ret, havetmp, mounts, made, userdirs, tries, byhand >>

\* The shell of _premount_essential.  Exit code 0 is passed on as success;
\* anything else, or no shell at all, is left to the latch.
EssentialShell ==
  /\ pc = "shell"
  /\ \/ /\ world.xshell
        /\ stage' = StageAfter(stage)
        /\ pc' = "open" /\ file' = 1 /\ i' = 1 /\ ret' = 0 /\ tries' = 0
     \/ /\ pc' = "latch"
        /\ UNCHANGED << stage, file, i, ret, tries >>
  /\ UNCHANGED << world, havetmp, mounts, made, userdirs, byhand >>

\* The fail latch: retry, go on, or give up.
LatchRetry ==
  /\ pc = "latch" /\ world.xshell /\ tries < MaxTries
  /\ pc' = "open" /\ file' = 1 /\ i' = 1 /\ ret' = 0
  /\ tries' = tries + 1
  /\ UNCHANGED << world, stage, havetmp, mounts, made, userdirs, byhand >>

LatchGoOn == pc = "latch" /\ world.xshell /\ NextStage
LatchGiveUp == pc = "latch" /\ GiveUp

\* In any of these shells the operator may mount what is missing.
MountByHand ==
  /\ pc \in {"shell", "latch"} /\ world.xshell /\ byhand < MaxByHand
  /\ \E dir \in (IF stage = "tmpdir" THEN {Tmp}
                 ELSE {e.dir : e \in ToSet(File.entries)} \ {NoPath}) :
       mounts' = Mounted(mounts, dir, Fresh(mounts), "hand")
  /\ byhand' = byhand + 1
  /\ UNCHANGED << world, stage, pc, file, i, ret, havetmp, made, userdirs, tries >>

\* initramfs_mount_newroot_tmpdir.
MountTmpdir ==
  /\ stage = "tmpdir" /\ pc = "open" /\ stage \notin world.leaveout
  /\ \/ /\ havetmp /\ NextStage
     \/ /\ ~havetmp
        /\ mounts' = Mounted(mounts, Tmp, Fresh(mounts), "tmpdir")
        /\ havetmp' = TRUE
        /\ stage' = "users" /\ tries' = 0
        /\ UNCHANGED << world, pc, file, i, ret, made, userdirs, byhand >>
     \/ /\ ~havetmp /\ "tmp" \in Flaky
        /\ pc' = "latch" /\ ret' = -1
        /\ UNCHANGED << world, stage, file, i, havetmp, mounts, made, userdirs,
                        tries, byhand >>

\* The flag files no-premount, no-mount-tmpdir and no-user-tmpdirs.
LeftOut == stage \in world.leaveout /\ NextStage

\* create_user_tmpdirs: a directory for each uid, and a link to it for each name;
\* for root always, and for the accounts of passwd with another uid.  What was
\* there is unlinked: the last account of a name wins.
CreateUserTmpdirs(passwd) ==
  LET link(ls, a) == IF a.uid = 0 THEN ls
                     ELSE {l \in ls : l.name # a.name} \cup {a}
  IN  [on |-> DevOf(mounts, Tmp),
       links |-> FoldLeft(link, {[name |-> "root", uid |-> 0]}, passwd)]

\* Fault: nobody asks whether /tmp is mounted.
UserTmpdirsAnywhere ==
  /\ stage = "users" /\ stage \notin world.leaveout
  /\ userdirs' = CreateUserTmpdirs(world.passwd)
  /\ stage' = "done"
  /\ UNCHANGED << world, pc, file, i, ret, havetmp, mounts, made, tries, byhand >>

\* initramfs_setup_newroot_tmpdir, if there is a passwd file.  It never fails.
UserTmpdirs ==
  /\ stage = "users" /\ stage \notin world.leaveout
  /\ userdirs' = IF ~havetmp \/ world.passwd = << >> THEN NoDirs
                 ELSE CreateUserTmpdirs(world.passwd)
  /\ stage' = "done"
  /\ UNCHANGED << world, pc, file, i, ret, havetmp, mounts, made, tries, byhand >>

Next ==
  \/ OpenFile \/ SkipEntry \/ MountEntry \/ EndOfFile \/ FileDone \/ StageDone
  \/ EssentialShell \/ LatchRetry \/ LatchGoOn \/ LatchGiveUp \/ MountByHand
  \/ MountTmpdir \/ LeftOut \/ UserTmpdirs

Spec == Init /\ [][Next]_vars

-----------------------------------------------------------------------------
\* The mounts of one mount point, with nothing mounted above it in between.
OnTopOf(n, m) ==
  /\ n < m /\ mounts[n].mp = mounts[m].mp
  /\ \A k \in (n + 1)..(m - 1) : ~IsStrictPrefix(mounts[k].mp, mounts[m].mp)

\* premount.c, "is already mounted": whatever fails and however often it is
\* retried, with the same mount point in several files and the operator mounting
\* things too, nothing is mounted over itself.  Except for what is_mounted
\* cannot see: newroot's "/"; a file system that its parent directory is on as
\* well; and a /tmp that was not mounted, or not with success, by a filtered
\* file: mount_newroot_tmpdir does not ask is_mounted.
NotMountedTwice ==
  \A n, m \in DOMAIN mounts : OnTopOf(n, m) /\ mounts[m].by # "hand" =>
    \/ mounts[m].mp = << >>
    \/ /\ mounts[m].by = "tmpdir"
       /\ mounts[n].by # "filter" \/ mounts[n].dev = Initramfs
    \/ mounts[n].dev = DevOf(SubSeq(mounts, 1, n - 1), Front(mounts[n].mp))

\* An entry that has to be mounted.  A zram entry counts as mounted in any case.
Demanded(mode, e) ==
  /\ Selected(mode, e) /\ ~Unmountable(e) /\ ~IsZramEntry(e)
  /\ "NEED_NETWORK" \in EntryConfig(e).cfg => world.net

\* A stage that returns 0, at once or after retries, has mounted every entry of
\* every file it is about: no entry that works out makes up for one that does
\* not, and no failing file is followed by another one.
ReturnsZeroWhenMounted ==
  [][pc = "open" /\ stage' # stage /\ stage \notin world.leaveout =>
       \A f \in ToSet(Files) : f.mode # "none" =>
         \A e \in ToSet(f.entries) : Demanded(f.mode, e) =>
           \E n \in DOMAIN mounts : mounts[n].mp = e.dir]_vars

\* The tmpdirs of the users go to the file system that is mounted on newroot's
\* /tmp, never to the disk of newroot itself.  Except if /tmp is a zram entry,
\* which may be taken for mounted when it is not, and if an entry for "/" in one of
\* the same files has newroot's root, with /tmp, mounted over.
UserDirsOnTmp ==
  userdirs # NoDirs =>
    \/ \E n \in DOMAIN mounts :
         mounts[n].mp = Tmp /\ \A m \in DOMAIN mounts : m > n => mounts[m].mp # << >>
    \/ \E f \in ToSet(world.fstab) : \E e \in ToSet(f.entries) :
         (e.dir = Tmp /\ IsZramEntry(e)) \/ e.dir = << >>
===============================================================================
