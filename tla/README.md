# A TLA+ verification project for fischstaebchen

fischstaebchen is an initramfs.  Its core is a multi-call C program
(`init/src`) that runs as `/init`: it reads the kernel's command line, sets up
zram devices, mounts the root file system of the booted machine under
`/newroot`, runs hooks from an overlay in between, and finally executes the
real init.  Around it are small applets, shell hooks (`overlay`), a shell
function library (`shellfunc`) and build tooling.

The modules here model the parts of the C program where a mistake is hard to
find by booting a machine a few times: the allocation of zram devices, which
several processes may do at the same time through files in sysfs; what is done
with the devices, with all failure paths; the control flow of the boot, with
the shells that let an operator intervene; the kernel command line and what it
makes of the mounts of root and usr; the mounts of fstab files; device nodes,
waiting for disks and loop devices, while others work on the same; what is
mounted and unmounted on the way; and the processes of the `untar` applet.

All paths below are relative to the repository.

## Inventory

| Component | State it keeps | Operations | Modelled by |
|---|---|---|---|
| zram device allocation (`init/src/zram/zallocate.c`, `globals.c`) | next-free hint per process; kernel: initstate of each device | claim one, several, several of different sizes; release; roll back | `ZramAlloc`, abstractly `ZramPool` |
| zram swap, disk, tmpfs (`zram/autoswap.c`, `swap.c`, `disk.c`, `mkfs.c`, `mount.c`, `tmpfs.c`, `data_types.c`) | array of claimed devices with CLAIMED and INUSE bits; size, mode, owner and options of a mount; kernel: what a device is used for; mountpoint | mkswap, swapon, swapoff, mkfs, mount, fall back to tmpfs, release on failure; parse sizes and options | `ZramSetup` (who has which device), `ZramConfig` (what it is set up with) |
| boot sequence and failure handling (`initramfs/main/init.c`, `initramfs.c`, `hacks.c`, `hacks.h`, `base.c`) | position in the sequence, `doshell` bits, `have_network`, `did_load_modules`; flag files under `/run/initramfs` | the 38 steps, fail latch, hook runner, shells, module loop | `Boot` |
| mount table and unmounting (`common/fs/umount.c`, `mount.c`, `initramfs/baselayout.c`, `common/baselayout`) | kernel mount table | base layout, newroot basemounts, eject, preswitch unmounts | `Mounts`; the rest of `baselayout.c` is not modelled |
| premount of fstab files (`initramfs/premount.c`, `domount.c`, `hacks.c`, `common/fs/mount_config.c`, `mount_opts.c`) | which mountpoints were mounted (HAVEMNT bits) | parse fstab lines, filter, mount; newroot's /tmp and the users' directories there | `Premount`, `MountConfig` |
| command line (`initramfs/cmdline.c`, `common/strutil/argsplit.c`) | the fields of `initramfs_globals` | one handler per parameter, postprocessing, the mounts of root and usr | `Cmdline`, `MountConfig` |
| disk and device lookup (`initramfs/initramfs.c`, `devfs.c`, `common/fs/findfs.c`, `loopdev.c`, `devfs.c`, `common/baselayout/mdev.c`) | device nodes; loop devices of the kernel | make nodes, wait for disks, scan devices, findfs, set up a loop device | `Devices` |
| running commands (`common/misc/run_command.c`) | child processes | fork, exec, wait; retry with a tick rate | its outcomes inside `Boot`; the retry loop in `Devices` |
| preinit (`initramfs/main/preinit.c`) | none | a handful of mounts, then exec of `/init` | not modelled |
| data types and string helpers (`common/data_types`, `common/strutil`) | dynamic arrays and strings | grow, append, split, join | sequences; number parsing in `ZramConfig` |
| untar (`app/untar`) | two children and a pipe | decompress, unpack, kill and reap | `Untar` |
| ztmpfs (`app/ztmpfs`) | none | options, then `zram_tmpfs` | `ZramConfig`; one of the processes of `ZramAlloc` |
| other applets (`init/src/app`) | none | wrappers around the library | not modelled |
| overlay hooks (`overlay`) | files on disks | shell scripts for squashed root systems and the like | not modelled; `Boot` lets hooks do anything to the flag files |
| shell function library (`shellfunc`) | none | helpers | not modelled |
| build tooling (`scripts`, `standalone`, `mk`) | none | build time only | not modelled |

How the parts interact.  `main_init` calls everything else in a fixed order,
each step under the *fail latch* (`INITRAMFS_FAIL_LATCH`): a step that fails
leads to an on-error shell, and the exit code of the shell says what is next
(0: try again, 250: go on, else: give up, unmount, and let the kernel panic).
Hooks are run in a child process and have a latch of their own, inside that of
`main_init`.  Hooks and operators communicate with `/init` through flag files.
`/init`, and the `ztmpfs` applet that hooks and operators may run, share zram
devices: there is no lock, only the kernel's refusal to initialise a device
twice.

What is hard here:

* *interleavings* of sysfs accesses in concurrent claims.  A claim writes
  `disksize`, resets the device (a compression algorithm can only be chosen
  before that write), and writes `disksize` again; in between the device is up
  for grabs;
* *failure of one step of several*: roll back loops, and release loops whose
  bounds depend on how far the loop before them came;
* *nested failure handling*: a failed module is caught by a latch inside the
  latch of the step; a failed hook by a loop inside the latch; a failed fork by
  a shell whose answer stands in for the hook's exit code;
* *stale state*: the next-free hint; `have_network`, a copy of a flag file that
  hooks may remove; `did_load_modules`;
* *overlapping parameters*: `root=`, `rootfsflags=`, `ro`, `stagedive` and others
  write to the same fields in any order, and an argument that fails cuts the
  command line short;
* *others at work*: mdev makes nodes, disks turn up late, other processes take
  loop devices between the lookup of a free one and its use;
* *processes around a pipe*: who has which end open decides whether anybody ever
  sees its end;
* *things mounted twice*: `/init` addresses mounts by path and only reaches the
  topmost one, while retries mount on top of what failed attempts left;
* *termination*: retries must be the operator's, never `/init`'s own.

The correctness properties aimed at are listed with the runs below; the hazards,
each with its line, are in `PROJECT.json`.

## Modules

### ZramPool and ZramAlloc

`ZramPool` is what callers rely on: a pool of devices, each held by at most one
request.  `ZramAlloc` models `zallocate.c`; one step is one access of a sysfs
file.

| Variable | Code |
|---|---|
| `owner[d]` | the kernel's `initstate` of device `d`, with a note of who wrote `disksize` (`None`: 0; `Foreign`: set up by something else) |
| `kind`, `want` | the claim function called, and `num_devices` |
| `cnt`, `arr` | `numdev_iter` and `pp_dev_out_arr`; a slot counts as `NoDev` when `ZRAM_STATUS_CLAIMED` is not set |
| `ident`, `pass`, `hint` | `ident_iter`, which of the two scans it is, `zram_globals->next_free_identifier` |
| `rev` | `rev_iter` of the roll back |
| `excused` | history: devices given back, or refused by the kernel, so far |

Actions: `Start` (a claim function is entered, with whatever hint the process
has), `CheckInitstate`, `DoClaim` (first write), `DoReset`, `SetCompression`,
`Reclaim` (second write, bookkeeping of a success), `Rollback` (one iteration),
`Release` (by a caller).  The two kinds of errors of a claim are kept apart as
in `_zram_claim_next_free_not_worth_trying_again`: a missing device ends the
scan, and so does a disksize that the kernel does not take (EINVAL); a busy
device, or one without memory for it, does not.  `OutOfReach` is what a request
loses by a scan that ends early: with the scan from the hint only the device
itself, as the scan from 0 follows, with that all devices from there on.

### ZramSetup

Extends `ZramAlloc` with the callers: `zram_autoswap` (several devices, mkswap
for all, swapon for all), `zram_disk_simple` (claim, mkfs) and `zram_tmpfs`
(claim, mkfs, mount, permissions; a tmpfs if there is no device or no file
system).  A request first goes through its claim (`Claim`), then through the
stages of its goal.  `use[d]` is the kernel's view of a device, `inuse[r]` the
program's own INUSE bits: they differ when the kernel refuses a swapoff, because
`zram_swapoff` clears the bit all the same.  `swaptype[r]` are the devices that
mkswap has succeeded on.  A swapon that the kernel answers with EBUSY, the device
being swap space already, counts as successful in `zram_swapon`; it cannot happen
to a device that a request has just claimed and formatted, so it is no outcome of
its own.

### Boot

`Steps` is `main_init` as a table: each step with its kind (hook, function under
the latch, function whose result is ignored, ...) and the flag files that switch
it off.  `at` is the step, `pc` the place inside it.  What a step does is left
open; it succeeds or fails.  `OnErrorShell` is `initramfs_run_onerror_shell`:
without `xshell=fail` its result is negative at once, with it the operator may
create or remove flag files and answers.

| Action | Code |
|---|---|
| `Skip` | the conditions in `main_init` around a step |
| `Setup`, `Start`, `StartShell` | `init_initramfs`; `default_initramfs_start` and its shell |
| `UserShell`, `UserShellLoopEnds` | `initramfs_run_user_shell_if_requested` |
| `CallFunc`, `CallIgnored`, `SwitchRoot` | a function under the latch; one whose result is not looked at; `initramfs_switch_root` |
| `CallMount`, `PremountEssential`, `MountShell` | `_initramfs_mount_newroot_default` and `_premount_essential`, which ask an operator before the latch does: the answer is their result, so that 0 passes over the failure |
| `Latch` | the body of `_INITRAMFS_FAIL_LATCH` after a failure |
| `NoHook`, `RunHook`, `ForkShell`, `HookShell` | `initramfs_run_hook` with `_initramfs_do_run_hook` and `_catch_fail` |
| `LoadModulesCalled`, `Modprobe`, `ModuleShell` | `load_modules`, early and late |
| `Eject` | what `main` does when `main_init` returns |

`went` and `word` are history variables: how the last attempt of the step went,
and the last answer of a shell since then.

### Mounts

`tab` is the kernel's mount table: for each mount the directory it is on (the
mount that directory is in, and the path there), its height in the stack of
mounts on that directory, and on whose behalf it was made (`base`: the initramfs,
`temp`: the temporary mounts in newroot, `other`: newroot itself, hooks and fstab
files).  `Walk` resolves a path name by name the way the kernel does, following
what is on top, and `Lookup` is where it ends; `Mounted`, `Umounted` and `Moved` are mount(2), `do_umount` with its lazy
fallback, and `mount_move`.

The functions of `baselayout.c` and `basemounts.c` are lists of calls
(`BaseMounts`, `NewrootBasemounts`, `EjectNewrootBasemounts`, `EjectMounts`,
`PreswitchUmount`); `todo` is what is left of the current one.

| Action | Code |
|---|---|
| `BaseMount`, `BaseMountFails`, `BaseMountsDone` | `_do_basemounts_all`, which goes on after a failure, and the group for `/dev`, which does not |
| `OtherMount`, `GiveUp` | the mounts of all other steps; their failure for good |
| `CallNewrootBasemounts`, `NewrootMount`, `NewrootMountFails`, `BindLatch` | `initramfs_newroot_basemounts` and the latch around it |
| `CallEjectAux` | `initramfs_eject_aux_mounts` |
| `CallSwitchRoot`, `Exec`, `SwitchLatch` | `initramfs_switch_root` and the latch around it |
| `DoUmount`, `MoveOrUmount`, `DoUmountRecursive` | one call of `do_umount`, `_do_move_or_umount`, `do_umount_recursive` |

The mountpoints of hooks and fstab files (`Others`) are any paths but those that
`/init` mounts on itself and what is below them (`Reserved`): of newroot's /dev,
/sys and /proc the filter of `initramfs_premount_all` lets none pass, and a hook
that mounted there would have its mounts unmounted in place of `/init`'s.
umount(2) of a mountpoint is taken to succeed, lazily at worst.  An operator who
mounts or unmounts things in a shell is not modelled.

### MountConfig

Pure operators on `struct mount_config`: how option words become flags
(`ParseMountOpts`), how flags become words again for an external mount program
(`GetMountOpts`), how a configuration completes itself (`Autoset`), and which
step `domount_from_config` takes for its source and its mount.  Flags and
configuration bits are sets of names, an option string is the sequence of its
words.

### Cmdline

`argsplit_argv_do` calls the callback of `cmdline.c` at the start of an
argument, for each of its values and at its end; a step of the model is one such
call.  `g` is `initramfs_globals`, `argv` the command line, `k` and `iter` the
call.  Before that, `Peek` looks for `quiet`, `iquiet`, `inoquiet`, `iverbose`
and `idebug`, which count as whole arguments only.  There is one action per group of keys of
`_initramfs_cmdline_process_arg`; `Postprocess` is
`_initramfs_postprocess_cmdline`, `OnErrorShell` what
`default_initramfs_start` does after a failure, `MountRoot` and `MountUsr` the
mounts that follow.  `complete` tells command lines that were read to their end
from those that an error cut short.

### Premount

The steps of `main_init` about fstab files and newroot's /tmp.  `stage` is the
step, `file` and `i` the entry it is at, `ret` its return code; `world` is what
does not change: the files, their entries, the accounts of /etc/passwd, the
flag files that leave steps out.  The kernel's mounts are the sequence of those
made so far (`mounts`); a path is on the last one made at it or above it, which
is all that `is_mounted`, a comparison of `st_dev`, can see.  An operator may
mount things by hand in any of the shells, and have a stage run again.

### Devices

`/init` runs a short program of calls (`todo`): make one node, seed /dev, set up
mdev, wait for disks, findfs, set up a loop device.  A step is one system call
or one child process, and a call returns what the code returns: 1 for a node
whose owner could not be set (`Chown`), the scan's code from `setup_mdev`, 0 for a
disk that is there already whatever kind of name it has (`WaitNext`).  Meanwhile `Plug` (the kernel finds a disk), `Hotplug`
(mdev makes its node) and `OtherAttaches`, `OtherDetaches` (another process uses
loop devices) happen at any time.  `rem` is `ds_rem` of the tick loop of
`run_command.c`; `slept` adds up what was slept.

### Untar

Three processes and a pipe: `Parent` (untar itself), `Decompressor` and `Tar`;
`fds[p]` are the descriptors of a process, inherited by fork, so that a write
end that nobody closes keeps tar waiting.  The tarball is a number of blocks that
tar needs and some it may skip; the pipe holds fewer than that.  `Die` is the
delivery of a signal sent by `kill`, `Killed` one sent by somebody else.

### ZramConfig

One call of `ztmpfs`, `zram_tmpfs`, `zram_disk_simple` or `zram_autoswap`, from
its arguments to what is mounted or put to use.  A size is a number with a
suffix; `ParseSize` does the arithmetic of `mount_opts.c` on words, `NumberOf` and
`IsNumber` that of `strtol` with its base.  Devices are there or not: sharing
them is the business of `ZramSetup`.  `mount` is what the mountpoint ends up
with, `devtype` the type in the record of the device, as mkfs sets it.  The root
of a new file system has the mode that mkfs gives it (`MkfsMode`, external), until
`SetOwner` changes it; it does not for mode 0, which `zram_do_zram_tmpfs` takes
for "leave it", nor on a read-only disk.  How the kernel reads
the options of a tmpfs (`KernelValue`, `KernelReads`, `KernelSize`) is external: the
last option of a kind counts (`LastIn`).

## Runs

| Run | Checks | Instance |
|---|---|---|
| `ZramAlloc` | `ExclusiveClaims`, `NoMissedDevice`, `NoLeak`, `ResetsOnlyItsOwn`, `ImplementsPool`, `EveryClaimReturns` | 2 requests for up to 2 of 2 devices; identifiers 0..2; the kernel may refuse the writes of disksize; fair |
| `ZramSetup` | `TypeOK`, `ReleasesOnlyIdle`, `SwapIsAllOrNothing`, `SwapSpaceIsGivenBack`, `FailedDiskKeepsNoDevice` | 2 setups of any goal over 2 devices with identifiers 0..1, so that scans also end by running out of them and the hint wraps; every external command may fail, the kernel refuses nothing |
| `ZramSetupRefused` | `InUseIsOwned`, `EverySetupEnds` | the same, with a kernel that refuses disksize, reset and swapoff; fair |
| `ZramConfig` | `MountedAsAsked`, `SwapWithinFraction` | up to 2 options of `ztmpfs` out of 25 with 0 to 2 arguments; up to 2 mount options; memory of 0, 1 and 1000 MiB; 0 to 5 CPUs with a "uint8_t" of 2 bits |
| `Boot` | `ModulesSettled`, `NetworkDownBeforeSwitch`, `LeftOnlyWithConsent`, `GivesUpOnlyAfterShell`, `BootEnds` | the whole sequence, 2 modules, the flag files `have-net` and `no-mount-root`, all faults of a hook; fair |
| `Mounts` | `NothingLeftBehind`, `HandedOver`, `LeavesFirst` | every call may fail; 2 mounts on newroot, an aux directory or newroot's /usr; both latches entered up to 3 times |
| `Cmdline` | `LaterParameterWins`, `MountedAsTold`, `MountsWhatItCan`, `OptionsSurvive` | all command lines of up to 3 of 23 arguments; zram disks may fail; /QUIET may exist |
| `Premount` | `NotMountedTwice`, `UserDirsOnTmp`, `ReturnsZeroWhenMounted` | up to 4 fstab files of up to 2 entries, the same mountpoint in several of them; 4 sources that may fail; 2 retries of a stage, 1 mount by hand |
| `Devices` | `NodesAreRight`, `WaitsAreExact`, `LoopsAreExclusive`, `DescriptorsAreClosed`, `CallsReturn` | 5 programs of up to 4 calls; 2 disks, 2 loop devices, 3 seeded nodes, leftovers in /dev; a timeout of 2; all faults; fair |
| `Untar` | `ZeroMeansUnpacked`, `ChildrenAreReaped`, `KillsOnlyItsChildren`, `EverybodyEnds` | 2 blocks, 2 of padding, a pipe of 1; 19 ways to call it; all faults; fair |
| `ZramRollback` | violates `SeveralRollsBack` | 1 request for 2 devices, of which there is 1 |
| `MountsAux` | violates `AuxUnmounted` | one aux mount, 1 attempt |

What they show.  Claims are exclusive although a claim is not atomic: a request
only records a device after its second write succeeded, and the kernel lets only
one such write succeed.  A request never resets a device of somebody else.  A
claim that fails has seen every device taken, or about to be, at some point,
even when it started from a stale hint.  The setups undo what they did when a
later command fails, in an order in which the kernel has no reason to refuse, and
keep neither disks nor anything they have made swap space of.
What a caller asks for, size, mode, read-only, reaches the disk or the tmpfs
that is mounted in its place; but for a disk mode 0 means the mode of mkfs.
`/init` gives up, or passes over a failure, only when an operator says so, and
does not loop on its own.  When switch_root is executed, none of the base mounts
is left in the initramfs, on whatever attempt; on the first, newroot has got
`/dev`, `/sys` and `/proc` on top of anything else there; and no unmount takes a
subtree with it.

The command line means the same in whatever order it is built up: the last
parameter about a thing decides (README.rst's "Overrides any earlier"; which
parameter is about what, and what the defaults are, is taken from the code, and
the findings below list where README.rst says otherwise), the root file system is read-only unless the
last of `ro`, `rw` and `stagedive` says otherwise, `nousrmount` is final, and a
LABEL= is always looked up before mount(2) sees it.  All of this holds for
command lines that are read to their end.  A premount stage succeeds only with
all of its entries mounted, and runs again without mounting anything twice, but
for what `is_mounted` cannot see, which the property spells out.  The users'
directories end up on a mounted /tmp, unless /tmp is a zram entry or an entry for
`/` in an fstab file has newroot's root mounted over.  A disk that was
waited for is found later, and is waited for to the last tick; nodes are right
after a success even with mdev at work; loop devices never change hands.  untar
returns 0 only if all was unpacked, never leaves a child behind, and never waits
for a process that waits for it.

Bounds.  Two requests and two devices are enough for one request to lose a
device in any of its windows, to find the next one, and to roll back after
having found only one; the third identifier has no device, so that a scan also
ends with ENOENT.  `MaxIdent` stands for 256: what matters is that it is a
modulus and an end of the scan.  Two modules are a first and a last one.  The
two flag files are one that `/init` writes back to a variable of its own, and
one that skips a step; the others are used like the second.  The
number of attempts (`MaxTries`) and of further mounts (`MaxOthers`) bound the
height of the stacks in `Mounts`; three attempts leave two old mounts below the
last, so that what was left over is unmounted and uncovered in turn.  Three
arguments are one that sets a field, one that overrides it, and one that
interferes with both.  In `Premount` two files share a mountpoint, and a retry
meets both what the first attempt has mounted and what the operator has.  A
timeout of 2 is a full tick (of 2) and, as the loop waits one more than it is
told, a remainder.  A pipe of one block makes the decompressor wait for tar, and
tar for the decompressor, within two blocks.  `Byte` is 4 instead of 256, so that
five CPUs are more than it holds.  The instances of the proofs are unbounded.

Deadlock is not checked: all of the modelled calls end, and that the ones with
loops or other processes in them do is what `EveryClaimReturns`, `EverySetupEnds`,
`BootEnds`, `CallsReturn` and `EverybodyEnds` say.

Fairness.  A claim function never blocks, so a process that is scheduled takes
its next step (`WF` of each request's own steps; nothing forces a caller to
release devices).  The setups wait for external commands, which end.  `/init` is
alone, and hooks and commands it waits for end; an operator leaves a shell
sooner or later.  No fairness is assumed for the end of a loop of user shells
(`xshell=loop`), and `BootEnds` allows for an operator who is asked again and
again.  In `Devices` only `/init`'s own steps are fair: no disk has to turn up,
and no node has to be made.  In `Untar` each process that can go on does, and a
signal is delivered; no fault has to happen, and nothing is assumed of a process
that waits for a pipe.

## Proofs

The proofs hold for every value of the constants that the modules' assumptions
allow: every number of requests, devices, identifiers, slots and kernel modules,
command lines and fstab files of any length, tarballs and pipes of any size, any
timeout, any set of faults.  The assumptions say what the code takes for granted
of its inputs and no more: that there are no more devices than identifiers
(`SizeAssumption`), that an argument with a value has a `=` in it and no value is
empty (`ArgsAssumption`; argsplit makes no others), that files are sequences of
entries and only the later stages of premount can be left out
(`WorldsAssumption`), that each node is seeded once (`DevicesAssumption`), that
other mounts keep off the directories of `/init`'s own (`MountsAssumption`), that
a mount option with a value is not also the name of a flag and only `ztmpfs` has
options of its own (`OptionsAssumption`), and types (`NameAssumption`, `SetupAssumption`, `BootAssumption`, `BoundsAssumption`,
`PremountAssumption`, `UntarAssumption`, `ZramConfigAssumption`).  TLC evaluates
them in the runs.

### Zram_proofs: the allocator

The inductive invariant is
`SafetyInv == TypeOK /\ Shape /\ ExclusiveClaims /\ ResetIsOwn`.
`ExclusiveClaims` is not inductive by itself: a reset inside a claim could hit a
device that has been recorded, so `ResetIsOwn` says that a request about to
reset is the owner of the device and has no record of it; and the roll back
could use an empty slot, so `Shape` says that the slots below `cnt`, or up to
`rev`, are filled.  `NoMissedDevice` needs `Visited` on top: in the scan from 0,
what lies behind `ident` is excused or contended, and stays so, whatever the
other requests do.  `NoLeak` needs `Kept`: what a request owns is in one of its
slots or about to be reset by it, and the roll back has nothing above `rev` to
forget.

* `TypeCorrect`, `Exclusive`: `TypeOK` and `ExclusiveClaims` always hold.
* `OwnResets`: `ResetsOnlyItsOwn`.
* `NoneMissed`: `NoMissedDevice` always holds.
* `KeptInvariant`, `NothingLeaks`: `Kept` and `NoLeak` always hold.
* `PoolRefinement`: every step is a step of `ZramPool`, or a stutter.

### Zram_proofs: the setups

Every step of the setups is a step of the allocator or a stutter, as they are
written (lemma `SetupNextIsNext`), as long as the loop indices stay within the
array (`SetupTypeOK`, `SetupShape`); so the invariants above hold of the setups
too, and the proofs below build on them.  `InUseOwned`
proves `InUseIsOwned`, strengthened by `UseInv` to say that the owner is past its
claim: the roll back of a claim, and the reset inside it, only concern devices of
a request that is still claiming.

`SwapShape` says for each loop of `autoswap.c` which slots are swap space, as far
as the loop has come: those below `k` while switching on, those from `k` to `upto`
while switching off again, none while releasing.  From it follow
`OnlyIdleReleased` (`ReleasesOnlyIdle`) and `AllOrNothing` (`SwapIsAllOrNothing`);
the latter counts devices with a bijection from slots, which `ExclusiveClaims`
makes one.  `BackShape` says where the devices are that mkswap has succeeded on:
in the slots below `k` of the mkswap loop, then in any slot, and in those from `k`
to `upto` while the failure path releases; with it, `SwapGivenBack`
(`SwapSpaceIsGivenBack`) follows.  `DiskShape` with `Kept` gives `FailedDiskIsReleased`
(`FailedDiskKeepsNoDevice`): a disk has its device in slot 0, and nothing is left
once that is released.

### Boot_proofs

The inductive invariant is
`BootInv == TypeOK /\ Place /\ ModsInv /\ NetInv`.  `Place` ties the places inside
a step to the kind of the step, so that, for instance, a hook's shell never
leads past the last step; `ModsInv` counts the settled modules along the loop
and through `did_load_modules`; `NetInv` says that nothing after net-ifdown
brings the network back.  From it follow `BootTypeCorrect`, `AllModulesSettled`,
`NetworkDown`, and the action properties `Consent` and `GivesUpAfterShell`.

### Mounts_proofs

`MountsInv` has two halves.  `TreeInv` is about the table as such: its records
(`Types`), that the mounts on one directory are numbered from below (`Levels`),
on which directories the initramfs, the temporary mounts and others can be
mounted (`Places`), and that only newroot's /dev, /sys and /proc are ever mounted
on twice by `/init` (`Single`).  The other half says, for each place in the
lists of calls, what is and what is no longer mounted: `BaseProgress` while the
base mounts are made, `BindProgress` and `TempProgress` for the temporary mounts
in newroot, `SwitchProgress` for the way to `switch_root`, `LeafProgress` that
nothing is mounted inside newroot's /dev when its turn comes, and `HandProgress`
that what was moved to newroot is on top there.  None of the properties is
inductive by itself: an unmount takes what is on top, and only the progress so
far says whose that is.

The argument goes by way of the kernel.  `MountEffect`, `UmountEffect` and
`MoveEffect` say what a call does to the stack of one directory and that all
others stay; a path of the lists leads to its directory whatever is mounted
elsewhere (`Mountpoints`), and one of `Others` never to a directory of `/init`'s
own, which is an induction along `Walk`.  Then there is one lemma per action.

* `MountsInvariant`: `MountsInv` always holds.
* `NothingLeft`, `HandOver`: `NothingLeftBehind` and `HandedOver` always hold.
* `LeavesAreFirst`: the action property `LeavesFirst`.

They hold for any number of attempts and of other mounts, at any paths.

### Cmdline_proofs

`CmdlineInv` follows the arguments.  `Settled(S, V, d, n, x)` says of one setting
that, among the first `n` arguments, the last one with a say in it (`S`) says `x`,
or that there is none and `x` is the default.  `SoFar` says so of every setting
for the arguments before `k`; where a handler works value by value, for the
values before `iter`.  `Processed` is what is left of it after postprocessing,
`Mountable` that whatever is enabled has a source and a type, `MountsDone` that
the mounts made are those of the final configuration.  `LaterWins`, `AsTold` and
`CanBeMounted` follow for `LaterParameterWins`, `MountedAsTold` and
`MountsWhatItCan`.

`OptionsKept` (`OptionsSurvive`) rests on `OptsInv`: the flags have names, and the
option words kept are none that `parse_mount_opts_str` would take for a flag.  The
lemma `ThereAndBack` then shows that parsing undoes spelling out, whatever the
flags and the words are.

### Premount_proofs

`TreeInv` has the place in the files (`Where`), what is known about the mounts
and their device numbers (`Tree`), that a filtered file notices its /tmp
(`TmpIsNoticed`), and `NotMountedTwice` itself (`MountedOnce`).  `TmpInv`, that a
/tmp taken for mounted is and stays so, gives `TmpdirsOnTmp` (`UserDirsOnTmp`).
`DoneSoFar`, that the entries and files behind are done unless the return code
says otherwise, gives the action property `ZeroMeansMounted`
(`ReturnsZeroWhenMounted`).

### Devices_proofs

`PlaceInv` ties the places to the calls that get there.  On it rest, each with an
invariant of its own: `FdInv`, the descriptors open at each place (`AllClosed`,
for `DescriptorsAreClosed`); `LoopInv`, whose each loop device is, the one of the
call under way included (`ExclusiveLoops`, for `LoopsAreExclusive`); `NodeInv`,
the nodes made so far (`RightNodes`, for `NodesAreRight`); and `TimeInv`, that the
time slept and the time left add up, with `FoundInv`, that a disk waited for keeps
its node except while `/init` itself replaces it (`ExactWaits`, for
`WaitsAreExact`).

### Untar_proofs

`ProcessInv` relates what untar knows of its children (`pid`, `pc`) to what the
kernel does; `AllReaped` (`ChildrenAreReaped`) and the action property `OwnKills`
(`KillsOnlyItsChildren`) follow.  `DataInv` relates the tarball to it: who holds
which end of the pipe, that no block is lost (`Count`), and what an exit status
says about the blocks (`Outcomes`): a decompressor that succeeds has written all,
a tar that succeeds has read all it needs or has been left short by a
decompressor whose failure counts, and a child killed by untar's own hand is
one whose sibling has failed.  `SuccessIsUnpacked` (`ZeroMeansUnpacked`) follows.

### ZramConfig_proofs

`WithinFraction` (`SwapWithinFraction`)
needs `SwapInv`, which keeps the counters of the loops below the number of
devices, and the lemma `SharesFit` about the two integer divisions.

`AsAsked` (`MountedAsAsked`) follows the options from the command line to the
mount.  The property compares what is mounted with `AskedSize`, `AskedMode` and
`AskedReadonly`, which are read off the call as a whole; the code gets there in
three loops.  `AskedInv` says how far each of them has come:

* in `main` of ztmpfs (`GetoptInv`), the options are those seen and those left, and
  each variable is as the last option seen that sets it says;
* in the loop of `_zram_tmpfs_config_parse_opts_arr` (`OptsInv`, `ReadSoFar`), the
  same holds of the words of the mount options and of size and mode; and the words
  kept for a tmpfs have the same last mode as those read;
* from there on (`Configured`), size, mode and writability are as asked, for the
  disk and for the tmpfs that may have to stand in for it.

The lemma `LastOfMore` says what one more word does to the last one of a kind;
`ParsedWords` that parsing the flags keeps the words with a value and sets the flag
`RDONLY` as the last of `ro` and `rw` says; `AskedWords` that the word that ztmpfs
adds for `-m` makes the last mode the one that was asked for.

### How loops are reasoned about

Loops over data that the properties depend on are recursive functions
(`ParseSteps` of `MountConfig`, `Peek` of `Cmdline`, `Walk` of `Mounts`,
`WordsUpTo` of `ZramConfig`) or the library's folds.  What
is needed of them is proved from their defining equation, by way of the smallest
number for which the claim fails (lemma `Least`): the library's induction theorems
take an operator as a parameter and cannot be used.

### Only model-checked

Every invariant and every action property that a passing run checks is proved, and
so are the refinements.  What is left to TLC is the liveness properties
`EveryClaimReturns`, `EverySetupEnds`, `BootEnds`, `CallsReturn` and
`EverybodyEnds`: they rest on fairness, which is beyond the prover.

`TypeOK` is checked by the run `ZramSetup` and proved; the other modules' types
are part of the invariants above.

## Findings

Shown by runs:

* `zram_claim_several_next_free` rolls back while `rev_iter > 0`: the device in
  slot 0 stays initialised, and nobody knows it any more (`ZramRollback`).  Its
  varsize sibling has the right bound, and `NoLeak` holds for it.
* `umount_all_in` and `umount_recursive` never unmount anything: the collection of
  mountpoints fails at the first one outside of the given directory, and `/`
  always is.  Aux mounts survive the switch, and newroot the ejection before the
  panic (`MountsAux`).

Met while modelling; the models have the code's behaviour, and the properties
leave room for it where they touch on it:

* Boot.  A hook that a signal kills counts as successful, because its status is
  read with `WEXITSTATUS` alone (the same in `untar` and the command runner).  A
  preswitch shell with a non-zero exit code does not abort the boot when the
  on-error shell that follows says 250, though README.rst says "Non-zero exit code
  aborts booting."  A failed essential premount is passed over when the shell that
  `_premount_essential` runs ends with 0 (hacks.c:204), which everywhere else asks
  for a retry; the root mount does the same.
* Mounts.  A retry of the newroot basemounts mounts on top of what the failed
  attempt left, and the unmount before the switch removes one mount per directory.
  The second attempt of a failed `switch_root` unmounts the `/dev`, `/sys` and
  `/proc` that the first has moved to newroot, which README.rst allows ("or
  unmount").
* Command line.  An `xshell=` behind a failing argument is not seen when the
  failure is to be answered.  If an operator goes on after such a failure, the
  read-only default and the completion of the mounts have not been applied.
  `sync` and `async` are the wrong way round in `parse_mount_opts_str`.
  README.rst gives `rootfind` in centiseconds, the code counts tenths of a second.
  More that README.rst says otherwise: `rootfstype` defaults to "auto"
  (README.rst:795; the code has ext4, globals.c:270); `noquiet` (744; the code knows
  `inoquiet` only, baselayout.c:485); `liram` is "Ignored" (890; it switches the
  root mount off, cmdline.c:592); `once` "Also enables xshell=fail" (874; not after
  `never` in the same list).  A `rootfind` without a value leaves an earlier one as
  it is.
  A `zram_disk` without a size always fails: the code 2 of
  `zram_disk_config_set_size`, a default was taken, counts as an error in
  `zram_disk_simple`.
* Premount.  An fstab file that is read without a filter does not set HAVEMNT_TMP,
  so that newroot's /tmp is mounted over.  `is_mounted` cannot see bind mounts of
  the same file system.  Entries with a bind mount report failure always, zram
  entries never.
* Devices.  `devfs_donod` compares `st_dev`, the device that /dev is on, with the
  numbers wanted, not `st_rdev`, so that a valid node is recreated; the test of
  the type is a test for any bit in common.  `findfs` leaves its pipe open when
  fork fails.  A loop device stays attached when the mount that follows fails.
* untar.  `-C` of an absolute directory fails unless its parent exists: `_mkdirp`
  begins with mkdir of the empty string in front of the first slash, while
  README.rst says that the directory "gets automatically created if necessary".
* zram.  `zram_tmpfs` returns 0 whatever it mounted; tmpfs.h promises three
  different values.  `zram_swap=500m` makes one device of that size per CPU, where
  README.rst speaks of "a total size".  `uid=` and `gid=` are read as octal numbers
  for a zram disk, and as decimal ones by the tmpfs that is mounted instead.  The
  fallback of a `zdisk` has tmpfs' mode, 1777, not 755.  Mode 0 leaves a disk with
  the mode of mkfs, 755, while the tmpfs in its place really gets mode 0.  When
  mkswap fails, its device and the ones after it stay claimed (autoswap.c:137).  With 256 CPUs or more the
  number of devices claimed wraps around and the loops over them do not.

## Not modelled

Names and formats of files, messages, colours; memory allocation and its failure.
Preinit, the applets other than `ztmpfs` and `untar`, the shell function library
and the build tooling keep no state between calls, or are straight-line code.
The rest of `baselayout.c` sets environment variables, makes directories and
links; the hooks of the overlay are shell scripts that a build chooses from.  The
order of steps of `main_init` is modelled; whether a configuration leaves some out
at compile time is not (all are in).  Concurrency of `ZramConfig` with itself is
left to `ZramSetup`.

## Plan

Done: `ZramPool`, `ZramAlloc`, `ZramSetup`, `Boot`, `MountConfig`, `Cmdline`,
`Premount`, `Devices`, `Untar`, `ZramConfig` and `Mounts`, with proofs.  Next:

1. `SfsRotate`: rotation of squashfs files by renames in the overlay's
   `19-sfsrotate.sh`, with a crash between any two of them.
2. Composition of `Boot` with `Mounts` and `Premount`.
