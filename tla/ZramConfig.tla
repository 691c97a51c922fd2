------------------------------- MODULE ZramConfig -------------------------------
(***************************************************************************)
(* What zram devices are set up with: how sizes, mount options and modes    *)
(* get from the caller to the device, the file system on it and its mount,  *)
(* or to the tmpfs that is mounted instead.  The ztmpfs program             *)
(* (app/ztmpfs/main.c), zram_tmpfs (zram/tmpfs.c), zram_disk_simple         *)
(* (zram/disk.c) and zram_autoswap (zram/autoswap.c), one call of one of    *)
(* them.  ZramAlloc and ZramSetup model how calls share the devices; here   *)
(* a device is free or it is not.                                           *)
(***************************************************************************)
EXTENDS MountConfig, Integers

CONSTANTS
  Calls,       \* the calls that may be made
  KeyOf,       \* KeyOf[w]: what the mount option w starts with: "size", "comp",
               \* "mode", "uid", "gid"; words not in its domain are others
  ValueOf,     \* ValueOf[w]: what follows: a size, or a sequence of digits
  MemSizes,    \* the sizes of the memory, in MiB
  Word, Byte,  \* 2^64 and 2^8: a size_t and a uint8_t are modulo these
  PreferBtrfs  \* ZRAM_DISK_PREFER_BTRFS

ASSUME ZramConfigAssumption ==
  /\ Word \in Nat \ {0} /\ Byte \in Nat \ {0}
  /\ MemSizes \subseteq Nat
  /\ PreferBtrfs \in BOOLEAN
  /\ \A c \in Calls : /\ c.op \in {"ztmpfs", "tmpfs", "disk", "swap"}
                      /\ c.num \in Int /\ c.size.n \in Int

\* The mount options that start with a key.
WithKey(key) == {w \in DOMAIN KeyOf : KeyOf[w] = key}

NoSize == [n |-> 0, suffix |-> Null]
NoDigits == << -1 >>
ZDisk == << 7, 5, 5 >>          \* RWX_RX_RX
ZTmpfs == << 1, 7, 7, 7 >>      \* SRWX_RWX_RWX
EX_USAGE == 64

\* No option with a value is the name of a flag.  Only ztmpfs has options of its own,
\* and it passes no flags on; what is given with -m can be written as a mount option.
ASSUME OptionsAssumption ==
  /\ \A w \in DOMAIN KeyOf :
       w \notin DOMAIN Sets \cup DOMAIN Clears \cup Ignored \cup {EmptyString}
  /\ \A c \in Calls :
       /\ c.opts \in Seq(STRING) /\ c.argv \in Seq(ToSet(c.argv))
       /\ IF c.op = "ztmpfs" THEN c.flags = {} ELSE c.argv = << >>
       /\ \A o \in ToSet(c.argv) :
            /\ o.opt = "o" => o.opts \in Seq(STRING)
            /\ o.opt = "m" /\ o.mode # NoDigits => \E w \in WithKey("mode") : ValueOf[w] = o.mode

\* The default mode by the type of mount.  Without -t the type is the name of the
\* program after its last slash, less "mount.".  A name other than zdisk, or without
\* any slash, stands for ztmpfs; as the argument of -t another name is an error.
DefaultMode(type) == IF type = "zdisk" THEN ZDisk ELSE ZTmpfs
KnownType(type) == type \in {"zdisk", "ztmpfs"}

NotMounted == [as |-> "nothing"]

\* The type of a device record that has just been made, or that is not there any more.
NoType == "none"

VARIABLES
  call,     \* [op, ...]
  mem,      \* the memory in MiB, as sysinfo tells
  pc,       \* where the call is
  argv,     \* ztmpfs: the options getopt has not seen yet
  app,      \* ztmpfs: its variables
  todo,     \* the words that _zram_tmpfs_config_parse_opts_arr has not seen yet
  spec,     \* any_size_spec
  z,        \* struct zram_tmpfs_config
  devtype,  \* the type in struct zram_dev_info
  format,   \* the file system on the device
  mount,    \* what is mounted on the mountpoint
  swaps,    \* the swap devices: the size of each, how many have been claimed, made
            \* swap space, and put to use
  ret       \* what the call returns

vars == << call, mem, pc, argv, app, todo, spec, z, devtype, format, mount, swaps, ret >>

-------------------------------------------------------------------------------
\* Numbers.  strtol in a base; it stops at the first digit that is not of that base,
\* which str_to_long_base makes an error of.
NumberOf(base, ds) == FoldLeft(LAMBDA a, d : base * a + d, 0, ds)
IsNumber(base, ds) == ds # << >> /\ \A i \in DOMAIN ds : ds[i] \in 0..(base - 1)

\* External: the mode that mkfs gives to the root of a file system.
MkfsMode == NumberOf(8, << 7, 5, 5 >>)

\* parse_tmpfs_size_spec: the size in MiB, rounded down, or -1.  The value is signed,
\* the arithmetic is not.
ParseSize(s, m) ==
  CASE s.suffix = ""           -> (s.n % Word) \div (1024 * 1024)
    [] s.suffix \in {"k", "K"} -> (s.n % Word) \div 1024
    [] s.suffix \in {"m", "M"} -> s.n % Word
    [] s.suffix \in {"g", "G"} -> (s.n * 1024) % Word
    [] s.suffix = "%" /\ m # 0 -> ((s.n * m) % Word) \div 100
    [] OTHER                   -> -1

\* zram_disk_config_set_size without a fallback size: what it returns and the size it
\* sets.  A size that cannot be parsed is dropped in favour of half of the memory.
SetSize(s, m) ==
  IF s # NoSize /\ ParseSize(s, m) # -1 THEN [code |-> 0, size |-> ParseSize(s, m)]
  ELSE IF m > 1 THEN [code |-> 2, size |-> m \div 2] ELSE [code |-> -1, size |-> 0]

-------------------------------------------------------------------------------
\* Where a call begins.
Start(op) == CASE op = "ztmpfs" -> "getopt" [] op = "tmpfs" -> "parse"
               [] op = "disk"   -> "disk"   [] op = "swap"  -> "autoswap"

\* zram_tmpfs_config_init, zram_disk_config_init.
NewConfig(type, flags) ==
  [size |-> 0, mode |-> NumberOf(8, DefaultMode(type)), uid |-> 0, gid |-> 0,
   flags |-> flags, opts |-> << >>, sizeopt |-> -1]

Init ==
  /\ call \in Calls
  /\ mem \in MemSizes
  /\ pc = Start(call.op)
  /\ argv = IF call.op = "ztmpfs" THEN call.argv ELSE << >>
  /\ app = [type |-> call.type, size |-> call.size, opts |-> call.opts,
            mode |-> NoDigits, fake |-> FALSE]
  /\ todo = << >> /\ spec = NoSize
  /\ z = NewConfig(call.type, call.flags)
  /\ devtype = NoType /\ format = "none" /\ mount = NotMounted
  /\ swaps = [size |-> 0, claimed |-> 0, made |-> 0, on |-> 0]
  /\ ret = 0

Return(x) == pc' = "done" /\ ret' = x
Goto(l) == pc' = l /\ UNCHANGED ret

\* main of ztmpfs: one option.  An empty argument of -S or -m undoes an earlier one;
\* those of -o are joined.
Getopt ==
  /\ pc = "getopt" /\ argv # << >>
  /\ argv' = Tail(argv)
  /\ LET o == Head(argv)
     IN  \/ /\ o.opt \in {"t", "S", "m", "o", "f", "q"}
            /\ o.opt = "t" => KnownType(o.type)
            /\ app' = CASE o.opt = "t" -> [app EXCEPT !.type = o.type]
                        [] o.opt = "S" -> [app EXCEPT !.size = o.size]
                        [] o.opt = "m" -> [app EXCEPT !.mode = o.mode]
                        [] o.opt = "o" -> [app EXCEPT !.opts = @ \o o.opts]
                        [] o.opt = "f" -> [app EXCEPT !.fake = TRUE]
                        [] o.opt = "q" -> app
            /\ Goto("getopt")
         \/ o.opt = "h" /\ Return(0) /\ UNCHANGED app
         \/ /\ o.opt = "bad" \/ (o.opt = "t" /\ ~ KnownType(o.type))
            /\ Return(EX_USAGE)
            /\ UNCHANGED app
  /\ UNCHANGED << call, mem, todo, spec, z, devtype, format, mount, swaps >>

\* The argument of -m becomes the last mount option.
WithMode(opts, mode) ==
  IF mode = NoDigits THEN opts
  ELSE Append(opts, CHOOSE w \in WithKey("mode") : ValueOf[w] = mode)

\* The rest of main: one or two arguments, the last of which is the mountpoint; fake
\* mode ends here.
Ztmpfs ==
  /\ pc = "getopt" /\ argv = << >>
  /\ IF call.args \notin {1, 2} THEN Return(EX_USAGE) /\ UNCHANGED << app, z >>
     ELSE /\ app' = [app EXCEPT !.opts = WithMode(@, app.mode)]
          /\ z' = NewConfig(app.type, {})
          /\ IF app.fake THEN Return(0) ELSE Goto("parse")
  /\ UNCHANGED << call, mem, argv, todo, spec, devtype, format, mount, swaps >>

-------------------------------------------------------------------------------
\* zram_tmpfs_config_parse: the words that are flags, in addition to the caller's.
ParseFlags ==
  /\ pc = "parse"
  /\ LET p == ParseMountOpts(app.opts)
     IN  z' = [z EXCEPT !.flags = @ \cup p.flags] /\ todo' = p.opts
  /\ Goto("opts")
  /\ UNCHANGED << call, mem, argv, app, spec, devtype, format, mount, swaps, ret >>

\* mode=, uid= and gid= take octal numbers; what is not one is ignored.
Octal(old, w) == IF IsNumber(8, ValueOf[w]) THEN NumberOf(8, ValueOf[w]) ELSE old

\* _zram_tmpfs_config_parse_opts_arr: one word.  Sizes and compression options are
\* not for tmpfs; all others, if of use for the zram disk or not, are.
ParseOpt ==
  /\ pc = "opts" /\ todo # << >>
  /\ todo' = Tail(todo)
  /\ LET w == Head(todo)
         key == IF w \in DOMAIN KeyOf THEN KeyOf[w] ELSE "other"
         kept == [z EXCEPT !.opts = Append(@, w)]
     IN  /\ spec' = IF key = "size" THEN ValueOf[w] ELSE spec
         /\ z' = CASE key \in {"size", "comp"} -> z
                   [] key = "mode" -> [kept EXCEPT !.mode = Octal(@, w)]
                   [] key = "uid"  -> [kept EXCEPT !.uid = Octal(@, w)]
                   [] key = "gid"  -> [kept EXCEPT !.gid = Octal(@, w)]
                   [] OTHER        -> kept
  /\ UNCHANGED << call, mem, pc, argv, app, devtype, format, mount, swaps, ret >>

\* Fault: an option beats the parameter.
EffectiveSpecOption == IF spec # NoSize THEN spec ELSE app.size

\* The size_spec parameter overrides the option.
EffectiveSpec == IF app.size # NoSize THEN app.size ELSE spec

\* The end of the loop: the size of the disk, which tmpfs is told too unless it is
\* half of the memory by default.  Without a size nothing is mounted.
ParseEnd ==
  /\ pc = "opts" /\ todo = << >>
  /\ LET s == SetSize(EffectiveSpec, mem)
     IN  /\ z' = [z EXCEPT !.size = s.size,
                           !.sizeopt = IF s.code \in {0, 1} THEN s.size ELSE -1]
         /\ IF s.size < 1 THEN Return(-1) ELSE Goto("claim")
  /\ UNCHANGED << call, mem, argv, app, todo, spec, devtype, format, mount, swaps >>

\* zram_disk_simple: half of the memory is not good enough (code 2).
DiskSimple ==
  /\ pc = "disk"
  /\ LET s == SetSize(app.size, mem)
     IN  /\ z' = [z EXCEPT !.size = s.size]
         /\ IF s.code # 0 THEN Return(-1) ELSE Goto("claim")
  /\ UNCHANGED << call, mem, argv, app, todo, spec, devtype, format, mount, swaps >>

-------------------------------------------------------------------------------
IsTmpfs == call.op \in {"ztmpfs", "tmpfs"}

\* A zram_tmpfs goes on with plain tmpfs after a positive error; a disk is done.
NoDisk(x) == IF IsTmpfs THEN Goto("fallback") ELSE Return(x)

\* zram_disk_do_claim: a new device has no type.
ClaimDisk ==
  /\ pc = "claim"
  /\ \/ devtype' = NoType /\ Goto("mkfs")
     \/ NoDisk(1) /\ UNCHANGED devtype
  /\ UNCHANGED << call, mem, argv, app, todo, spec, z, format, mount, swaps >>

\* For which file systems there is a mkfs program, given the external ones: each says
\* so when asked for its version; busybox is taken to have one for ext2.
Supported(have) == {"ext2"} \cup (have \cap {"ext4", "btrfs"})

\* get_best_mkfs_type.
Best(have) ==
  LET order == IF PreferBtrfs THEN << "btrfs", "ext4", "ext2" >>
               ELSE << "ext4", "btrfs", "ext2" >>
  IN  SelectSeq(order, LAMBDA t : t \in Supported(have))[1]

\* _zram_disk_check_can_init, but for the device node: neither swap space nor formatted.
CanInit == devtype = NoType

\* zram_mkfs by zram_disk_do_mkfs: the device node, one file system type, one mkfs, or
\* for ext2 busybox and then mkfs.ext2.  A type that fails is not followed by another.
\* The caller's name, which the device is lent for a label meanwhile, is left out.
Mkfs ==
  /\ pc = "mkfs"
  /\ \E have \in SUBSET {"ext4", "btrfs"} :
       \/ /\ CanInit
          /\ format' = Best(have)
          /\ devtype' = Best(have)
          /\ IF IsTmpfs THEN Goto("mount") ELSE Goto("free")
       \/ /\ Goto("release")
          /\ UNCHANGED << devtype, format >>
  /\ UNCHANGED << call, mem, argv, app, todo, spec, z, mount, swaps >>

\* mkfs failed: the device is released, and zram_disk_do_setup returns 2.
ReleaseUnformatted ==
  /\ pc = "release"
  /\ devtype' = NoType
  /\ NoDisk(2)
  /\ UNCHANGED << call, mem, argv, app, todo, spec, z, format, mount, swaps >>

\* zram_mount: every type has a function, which adds NOATIME.  If it fails, the device
\* record is freed, and there is no other mount in its place.
MountDisk ==
  /\ pc = "mount"
  /\ \/ /\ mount' = [as |-> "zram", type |-> devtype, size |-> z.size,
                     flags |-> z.flags \cup {"NOATIME"}, mode |-> MkfsMode,
                     uid |-> 0, gid |-> 0]
        /\ Goto("perm")
        /\ UNCHANGED devtype
     \/ /\ devtype' = NoType
        /\ Return(0)
        /\ UNCHANGED mount
  /\ UNCHANGED << call, mem, argv, app, todo, spec, z, format, swaps >>

\* zram_do_zram_tmpfs: chmod unless the mode is 0, and chown unless both ids are, but
\* not on a read-only mount.  Each may fail (marked by -1), which is not reported.
SetOwner ==
  /\ pc = "perm"
  /\ \E chmod, chown \in BOOLEAN :
       LET Set(old, asked, skip, ok) == IF skip THEN old ELSE IF ok THEN asked ELSE -1
           root == z.uid = 0 /\ z.gid = 0
       IN  IF "RDONLY" \in z.flags THEN UNCHANGED mount
           ELSE mount' = [mount EXCEPT !.mode = Set(@, z.mode, z.mode = 0, chmod),
                                       !.uid = Set(@, z.uid, root, chown),
                                       !.gid = Set(@, z.gid, root, chown)]
  /\ Goto("free")
  /\ UNCHANGED << call, mem, argv, app, todo, spec, z, devtype, format, swaps >>

\* zram_dev_info_free, and zram_tmpfs, zram_disk_simple return 0.
FreeDev ==
  /\ pc = "free"
  /\ devtype' = NoType
  /\ Return(0)
  /\ UNCHANGED << call, mem, argv, app, todo, spec, z, format, mount, swaps >>

\* The last element of a sequence that is one of S.
Places(s, S) == {i \in DOMAIN s : s[i] \in S}
LastIn(s, S, default) ==
  IF Places(s, S) = {} THEN default ELSE s[Max(Places(s, S))]

\* External: how the kernel reads the options of a tmpfs.  The last one counts, the
\* size is half of the memory and the mode 1777 by default, uid and gid are decimal;
\* a number it cannot read fails the mount.
KernelValue(key, base, default) ==
  LET w == LastIn(z.opts, WithKey(key), EmptyString)
  IN  IF w = EmptyString THEN default ELSE NumberOf(base, ValueOf[w])

KernelReads ==
  \A i \in DOMAIN z.opts : LET w == z.opts[i] IN
    w \in DOMAIN KeyOf =>
      /\ KeyOf[w] = "mode" => IsNumber(8, ValueOf[w])
      /\ KeyOf[w] \in {"uid", "gid"} => IsNumber(10, ValueOf[w])

KernelSize == IF z.sizeopt = -1 THEN mem \div 2 ELSE z.sizeopt

\* zram_do_normal_tmpfs; zram_tmpfs returns 0 anyway.
NormalTmpfs ==
  /\ pc = "fallback"
  /\ \/ /\ KernelReads
        /\ mount' = [as |-> "tmpfs", type |-> "tmpfs", size |-> KernelSize,
                     flags |-> z.flags,
                     mode |-> KernelValue("mode", 8, NumberOf(8, ZTmpfs)),
                     uid |-> KernelValue("uid", 10, 0), gid |-> KernelValue("gid", 10, 0)]
     \/ UNCHANGED mount
  /\ Return(0)
  /\ UNCHANGED << call, mem, argv, app, todo, spec, z, devtype, format, swaps >>
-------------------------------------------------------------------------------
\* Fault: every device gets the whole fraction.
AutoswapSizeEach(num, frac) == IF num < 1 \/ mem < 1 THEN 0 ELSE mem \div frac

\* calculate_zram_autoswap_size: every device gets its share of the fraction.
AutoswapSize(num, frac) == IF num < 1 \/ mem < 1 THEN 0 ELSE mem \div (num * frac)

\* zram_autoswap: a fraction "/<n>" of the memory, n between 1 and 99, or a size as for
\* tmpfs, which every device gets all of.
SwapSize ==
  CASE app.size = NoSize     -> 0
    [] app.size.suffix = "/" -> IF app.size.n \in 1..99
                                THEN AutoswapSize(call.num, app.size.n) ELSE 0
    [] OTHER                 -> ParseSize(app.size, mem)

Autoswap ==
  /\ pc = "autoswap"
  /\ swaps' = [swaps EXCEPT !.size = SwapSize]
  /\ IF SwapSize < 1 \/ call.num < 1 THEN Return(-1) ELSE Goto("claimswaps")
  /\ UNCHANGED << call, mem, argv, app, todo, spec, z, devtype, format, mount >>

\* zram_claim_several_next_free, which takes the number of devices for a uint8_t.
ClaimSwaps ==
  /\ pc = "claimswaps"
  /\ \/ swaps' = [swaps EXCEPT !.claimed = call.num % Byte] /\ Goto("mkswap")
     \/ Return(-1) /\ UNCHANGED swaps
  /\ UNCHANGED << call, mem, argv, app, todo, spec, z, devtype, format, mount >>

\* The loops run over all of num_swaps, which is not a uint8_t.
LoopEnd == call.num

\* The loops of _zram_do_autoswap_mkswap and _zram_do_autoswap_swapon: one device.  A
\* slot that has not been claimed is a NULL pointer.
SwapLoop(at, next, counter) ==
  /\ pc = at
  /\ \/ /\ swaps[counter] < LoopEnd
        /\ \/ /\ swaps[counter] < swaps.claimed
              /\ \/ swaps' = [swaps EXCEPT ![counter] = @ + 1] /\ Goto(at)
                 \/ swaps' = [swaps EXCEPT !.on = 0] /\ Return(-1)
           \/ /\ swaps[counter] >= swaps.claimed
              /\ pc' = "crash"
              /\ UNCHANGED << ret, swaps >>
     \/ /\ swaps[counter] >= LoopEnd
        /\ IF next = "done" THEN Return(0) ELSE Goto(next)
        /\ UNCHANGED swaps
  /\ UNCHANGED << call, mem, argv, app, todo, spec, z, devtype, format, mount >>

Mkswap == SwapLoop("mkswap", "swapon", "made")
Swapon == SwapLoop("swapon", "done", "on")

Next ==
  \/ Getopt \/ Ztmpfs \/ ParseFlags \/ ParseOpt \/ ParseEnd \/ DiskSimple
  \/ ClaimDisk \/ Mkfs \/ ReleaseUnformatted \/ MountDisk \/ SetOwner \/ FreeDev
  \/ NormalTmpfs \/ Autoswap \/ ClaimSwaps \/ Mkswap \/ Swapon

Spec == Init /\ [][Next]_vars

-------------------------------------------------------------------------------
\* What the caller has asked for, read off the call as a whole: the mount options up to
\* the n-th option of ztmpfs, all of them, and the last option of ztmpfs of a kind.
WordsUpTo ==
  LET upto[n \in 0..Len(call.argv)] ==
        IF n = 0 THEN call.opts
        ELSE upto[n-1] \o (IF call.argv[n].opt = "o" THEN call.argv[n].opts ELSE << >>)
  IN  upto
Words == WordsUpTo[Len(call.argv)]
Given(opt) == {o \in ToSet(call.argv) : o.opt = opt}
LastGiven(opt, default) == LastIn(call.argv, Given(opt), default)

\* The last -S counts, and else the last size option, and else half of the memory.
AskedSize ==
  LET S == LastGiven("S", call).size
      w == LastIn(Words, WithKey("size"), EmptyString)
      s == IF S # NoSize THEN S ELSE IF w = EmptyString THEN NoSize ELSE ValueOf[w]
  IN  IF s = NoSize \/ ParseSize(s, mem) = -1 THEN mem \div 2 ELSE ParseSize(s, mem)

\* The last -m counts, if it is a mode, and else the last mode option that is one, and
\* else the mode of the type of mount.
AskedMode ==
  LET m == LastGiven("m", [mode |-> NoDigits]).mode
      w == LastIn(Words, {v \in WithKey("mode") : IsNumber(8, ValueOf[v])}, EmptyString)
  IN  IF IsNumber(8, m) THEN m ELSE IF w # EmptyString THEN ValueOf[w]
      ELSE DefaultMode(LastGiven("t", call).type)

AskedReadonly ==
  "RDONLY" \in call.flags \/ LastIn(Words, {"ro", "rw"}, "rw") = "ro"

\* The mode of a zram disk: a read-only one keeps that of mkfs, and 0 stands for it too.
DiskMode ==
  IF AskedReadonly \/ NumberOf(8, AskedMode) = 0 THEN MkfsMode ELSE NumberOf(8, AskedMode)

\* Whatever zram_tmpfs ends up with, a zram disk or, after a failure at any stage, a
\* tmpfs, has the size that was asked for and is read-only exactly if that was.  The
\* disk is mounted as what it has been formatted as, and has the mode that was asked
\* for unless chmod fails, or the mode of mkfs, if it is read-only or if mode 0 was
\* asked for; the tmpfs has the mode that was asked for, 0 too.  (It knows only of
\* modes that are given as options, not of the default of a zdisk.  Nothing is said of
\* the owner: the disk's uid= and gid= are octal, those of the fallback are not.)
MountedAsAsked ==
  mount.as # "nothing" /\ pc = "done" =>
    /\ mount.size = AskedSize
    /\ "RDONLY" \in mount.flags <=> AskedReadonly
    /\ mount.as = "zram" => mount.type = format /\ mount.mode \in {-1, DiskMode}
    /\ mount.as = "tmpfs" => mount.mode = NumberOf(8, AskedMode) \/ AskedMode = ZDisk

\* Swap space set up as a fraction of the memory takes no more than that fraction in
\* total, however many devices it is split into; and as long as their number fits a
\* uint8_t, only devices that have been claimed are made swap space.
SwapWithinFraction ==
  call.op = "swap" =>
    /\ app.size.suffix = "/" /\ app.size.n > 0 =>
         swaps.on * swaps.size <= mem \div app.size.n
    /\ call.num < Byte => pc # "crash"
===============================================================================
