----------------------------- MODULE Cmdline_proofs -----------------------------
(***************************************************************************)
(* What the kernel command line decides, for command lines of any length   *)
(* and arguments with any values.                                          *)
(***************************************************************************)
EXTENDS Cmdline, SequenceTheorems, WellFoundedInduction, TLAPS

-----------------------------------------------------------------------------
(* The inductive invariant.                                                *)

\* x is what the last of the positions S up to n gives, by the function V; it
\* is the default d if there is none.
Settled(S, V, d, n, x) ==
  \/ S \cap (1..n) = {} /\ x = d
  \/ \E i \in S \cap (1..n) : (\A j \in S \cap (1..n) : j <= i) /\ x = V[i]

\* For each setting the arguments that decide it, and what they say.
RootAt(av) ==
  {i \in DOMAIN av : Stagedives(av[i]) \/ (av[i].key = "root" /\ HasValue(av[i]))}
RootSays(av) ==
  [i \in DOMAIN av |-> IF Stagedives(av[i]) THEN "zroot" ELSE av[i].vals[1]]
TypeAt(av) ==
  {i \in DOMAIN av : Stagedives(av[i]) \/ (av[i].key = "rootfstype" /\ HasValue(av[i]))}
TypeSays(av) ==
  [i \in DOMAIN av |-> IF Stagedives(av[i]) THEN "zdisk" ELSE av[i].vals[1]]
FlagsAt(av) == {i \in DOMAIN av : av[i].key \in {"rootfsflags", "rootflags"}}
FlagsSay(av) == [i \in DOMAIN av |-> FlagsOf(av[i].vals)]
RoAt(av) == {i \in DOMAIN av : av[i].key \in {"ro", "rw", "stagedive"}}
RoSays(av) == [i \in DOMAIN av |-> av[i].key # "ro"]
SwapAt(av) == {i \in DOMAIN av : av[i].key = "zram_swap"}
SwapSays(av) == [i \in DOMAIN av |-> IF HasValue(av[i]) THEN av[i].vals[1] ELSE "guess"]
WantAt(av) ==
  {i \in DOMAIN av : Stagedives(av[i]) \/ av[i].key \in {"norootmount", "liram", "liram_x"}}
WantSays(av) == [i \in DOMAIN av |-> Stagedives(av[i])]
InitAt(av) == {i \in DOMAIN av : av[i].key \in {"init", "real_init"} /\ HasValue(av[i])}
InitSays(av) == [i \in DOMAIN av |-> av[i].vals[Len(av[i].vals)]]
ShellAt(av) == {i \in DOMAIN av : av[i].key = "xshell"}
ShellSays(av) == [i \in DOMAIN av |-> ShellOf(av[i].vals)]
QuietAt(av) == {i \in DOMAIN av : Verbosity(av[i])}
QuietSays(av) == [i \in DOMAIN av |-> av[i].key \in {"quiet", "iquiet"}]

\* The number of arguments for which the callback has been called.
Begun(kk, it) == IF it = 0 THEN kk - 1 ELSE kk

\* The last of the values of one init= decides, and they come one by one.
InitSoFar(av, kk, it, x) ==
  IF kk <= Len(av) /\ it > 1 /\ av[kk].key \in {"init", "real_init"}
  THEN x = av[kk].vals[it - 1]
  ELSE Settled(InitAt(av), InitSays(av), Null, kk - 1, x)

\* What the first n values of xshell= ask for.
Nevers(vals, n) == {i \in 1..n : vals[i] = "never"}
Kept(vals, n) == {i \in 1..n : \A j \in Nevers(vals, n) : j < i}
BitsOf(vals, n) == UNION {ShellBits(vals[i]) : i \in Kept(vals, n)}
ShellFirst(vals, n) ==
  BitsOf(vals, n) \cup (IF Nevers(vals, n) = {} THEN {"ONERROR"} ELSE {})
    \cup (IF vals = << >> THEN {"LOOP"} ELSE {})

ShellSoFar(av, kk, it, x) ==
  IF kk <= Len(av) /\ it > 0 /\ av[kk].key = "xshell"
  THEN x = ShellFirst(av[kk].vals, it - 1)
  ELSE Settled(ShellAt(av), ShellSays(av), {}, kk - 1, x)

\* A nousrmount that has been seen.
UsrSoFar(av, n, want) ==
  (\E i \in DOMAIN av : i <= n /\ av[i].key = "nousrmount") => IsFalse(want)

\* What the arguments so far have settled.
SoFar(av, kk, it, gg) ==
  /\ Settled(RootAt(av), RootSays(av), Null, kk - 1, gg.newroot_mount.source)
  /\ Settled(TypeAt(av), TypeSays(av), "ext4", kk - 1, gg.newroot_mount.fstype)
  /\ Settled(FlagsAt(av), FlagsSay(av), {}, kk - 1, gg.newroot_mount.flags)
  /\ Settled(RoAt(av), RoSays(av), FALSE, kk - 1, IsFalse(gg.root_ro_status))
  /\ Settled(SwapAt(av), SwapSays(av), Null, Begun(kk, it), gg.zram_autoswap)
  /\ Settled(WantAt(av), WantSays(av), TRUE, Begun(kk, it), ~IsFalse(gg.want_newroot_mount))
  /\ InitSoFar(av, kk, it, gg.real_init)
  /\ ShellSoFar(av, kk, it, gg.doshell)
  /\ UsrSoFar(av, Begun(kk, it), gg.want_newroot_usr_mount)

\* argsplit: the argument and the call within it.  root= and rootfstype= are
\* left at the first value.
Where(av, kk, it) ==
  /\ kk \in 1..(Len(av) + 1) /\ it \in Nat
  /\ kk <= Len(av) => it <= Len(av[kk].vals) + 1
  /\ kk <= Len(av) /\ av[kk].key \in {"root", "rootfstype"} => it <= 1
  /\ kk > Len(av) => it = 0

\* The globals are a struct, and its two mount configurations are.
IsConfig(mc) ==
  mc = [source |-> mc.source, target |-> mc.target, fstype |-> mc.fstype,
        flags |-> mc.flags, opts |-> mc.opts, cfg |-> mc.cfg]
IsGlobals(gg) ==
  gg = [want |-> gg.want, root_ro_status |-> gg.root_ro_status,
        want_newroot_mount |-> gg.want_newroot_mount,
        want_newroot_usr_mount |-> gg.want_newroot_usr_mount,
        rootfind_delay |-> gg.rootfind_delay, doshell |-> gg.doshell,
        real_init |-> gg.real_init, load_modules |-> gg.load_modules,
        zram_autoswap |-> gg.zram_autoswap, zdisks |-> gg.zdisks,
        newroot_mount |-> gg.newroot_mount, newroot_usr_mount |-> gg.newroot_usr_mount]

\* Whatever the order of the parameters is: what is enabled has a source.
Mountable(gg) ==
  /\ IsGlobals(gg) /\ IsConfig(gg.newroot_mount) /\ IsConfig(gg.newroot_usr_mount)
  /\ gg.newroot_mount.target = "/newroot" /\ gg.newroot_usr_mount.target = "/newroot/usr"
  /\ gg.newroot_mount.fstype # Null /\ gg.newroot_usr_mount.fstype = "squashfs"
  /\ gg.newroot_usr_mount.source # Null
  /\ IsEnabled(gg.newroot_mount) => gg.newroot_mount.source # Null

\* After the last argument: everything is settled, the mounts are complete.
Processed(av, gg) ==
  LET n == Len(av)
      mc == gg.newroot_mount
  IN  /\ Settled(RootAt(av), RootSays(av), Null, n, mc.source)
      /\ Settled(TypeAt(av), TypeSays(av), "ext4", n, mc.fstype)
      /\ \E f : /\ Settled(FlagsAt(av), FlagsSay(av), {}, n, f)
                /\ mc.flags \ {"RDONLY"} = f \ {"RDONLY"}
      /\ Settled(RoAt(av), RoSays(av), FALSE, n, IsFalse(gg.root_ro_status))
      /\ Settled(SwapAt(av), SwapSays(av), Null, n, gg.zram_autoswap)
      /\ Settled(WantAt(av), WantSays(av), TRUE, n, ~IsFalse(gg.want_newroot_mount))
      /\ Settled(InitAt(av), InitSays(av), Null, n, gg.real_init)
      /\ Settled(ShellAt(av), ShellSays(av), {}, n, gg.doshell)
      /\ UsrSoFar(av, n, gg.want_newroot_usr_mount)
      /\ IsEnabled(mc) =>
           ("RDONLY" \in mc.flags <=> mc.fstype = "squashfs" \/ ~IsFalse(gg.root_ro_status))
      /\ \A c \in {gg.newroot_mount, gg.newroot_usr_mount} : IsEnabled(c) => Autoset(c) = c

\* A mount that was done is one of the two, and it was wanted and enabled.
MountsDone(ms, gg) ==
  \A i \in DOMAIN ms :
    \/ /\ ms[i] = Domount(gg.newroot_mount)
       /\ IsEnabled(gg.newroot_mount) /\ ~IsFalse(gg.want_newroot_mount)
    \/ /\ ms[i] = Domount(gg.newroot_usr_mount)
       /\ IsEnabled(gg.newroot_usr_mount) /\ ~IsFalse(gg.want_newroot_usr_mount)

\* The last word about quietness that was seen when the arguments were peeked at.
Peeked(av, want) ==
  \E d : Settled(QuietAt(av), QuietSays(av), d, Len(av), "QUIET" \in want)

CmdlineInv ==
  /\ argv \in Seq(Args) /\ Mountable(g)
  /\ pc = "read" => k = 1 /\ iter = 0 /\ ~peeked /\ SoFar(<< >>, 1, 0, g)
  /\ pc = "arg" => Where(argv, k, iter) /\ SoFar(argv, k, iter, g)
  /\ pc \in {"read", "arg", "failed", "gaveup"} => ~complete /\ mounted = << >>
  /\ pc \in {"read", "arg", "failed", "gaveup", "root", "usr", "done"}
  /\ mounted \in Seq(ToSet(mounted)) /\ MountsDone(mounted, g)
  /\ complete => Processed(argv, g)
  /\ peeked => Peeked(argv, g.want)

-----------------------------------------------------------------------------
(* Settings.                                                               *)

\* Nothing is settled before the first argument.
LEMMA SettledStart ==
  ASSUME NEW S, NEW V, NEW d
  PROVE  Settled(S, V, d, 0, d)
BY DEF Settled

\* An argument that has no say in it leaves a setting as it is.
LEMMA SettledSkip ==
  ASSUME NEW S, NEW V, NEW d, NEW x, NEW n \in Nat, n + 1 \notin S, Settled(S, V, d, n, x)
  PROVE  Settled(S, V, d, n + 1, x)
<1>1. S \cap (1..(n+1)) = S \cap (1..n)
  OBVIOUS
<1> QED
  BY <1>1 DEF Settled

\* An argument that has a say in it overrides the ones before it.
LEMMA SettledSet ==
  ASSUME NEW S, NEW V, NEW d, NEW n \in Nat \ {0}, n \in S
  PROVE  Settled(S, V, d, n, V[n])
<1>1. n \in S \cap (1..n) /\ \A j \in S \cap (1..n) : j <= n
  OBVIOUS
<1> QED
  BY <1>1 DEF Settled

\* If the latest argument has a say in it, the setting is what that one says.
LEMMA SettledLatest ==
  ASSUME NEW S, NEW V, NEW d, NEW x, NEW n \in Nat \ {0}, n \in S, Settled(S, V, d, n, x)
  PROVE  x = V[n]
<1>1. n \in S \cap (1..n) /\ \A j \in S \cap (1..n) : j <= n /\ j \in Nat
  OBVIOUS
<1>2. PICK i \in S \cap (1..n) : (\A j \in S \cap (1..n) : j <= i) /\ x = V[i]
  BY <1>1 DEF Settled
<1>3. i = n
  BY <1>1, <1>2
<1> QED
  BY <1>2, <1>3

\* After the last argument: the setting is that of the last one with a say in it.
LEMMA SettledLast ==
  ASSUME NEW n \in Nat, NEW S \in SUBSET (1..n), NEW V, NEW d, NEW x, Settled(S, V, d, n, x)
  PROVE  x = IF S = {} THEN d ELSE V[CHOOSE i \in S : \A j \in S : j <= i]
<1>0. \A i \in S : i \in 1..n /\ i \in Nat
  OBVIOUS
<1>1. S \cap (1..n) = S /\ \A i \in S : i \in Nat
  BY <1>0
<1>2. CASE S = {}
  BY <1>1, <1>2 DEF Settled
<1>3. CASE S # {}
  <2>1. PICK i \in S : (\A j \in S : j <= i) /\ x = V[i]
    BY <1>1, <1>3 DEF Settled
  <2>2. PICK l : l = CHOOSE i2 \in S : \A j \in S : j <= i2
    OBVIOUS
  <2>3. l \in S /\ \A j \in S : j <= l
    BY <2>1, <2>2
  <2>4. l = i
    BY <1>1, <2>1, <2>3
  <2> QED
    BY <1>3, <2>1, <2>2, <2>4
<1> QED
  BY <1>2, <1>3

\* The callback returns: the next call for the same argument, or the first one
\* for the next.
Moves(kk, it, kk2, it2) ==
  \/ kk2 = kk /\ it2 = it + 1
  \/ kk2 = kk + 1 /\ it2 = 0

\* What a call does to a setting that is made when the argument is left, ...
AtLeaving(S, V, kk, kk2, x, y) ==
  IF kk2 = kk THEN y = x
  ELSE (kk \notin S /\ y = x) \/ (kk \in S /\ y = V[kk])

\* ... and to one that is made in the first call.
AtStarting(S, V, kk, it, x, y) ==
  \/ kk \notin S /\ y = x
  \/ kk \in S /\ y = V[kk]
  \/ it > 0 /\ y = x

\* A setting that is made when the argument is left.
LEMMA Leaving ==
  ASSUME NEW S, NEW V, NEW d, NEW x, NEW y, NEW kk \in Nat \ {0}, NEW it, NEW kk2, NEW it2,
         Moves(kk, it, kk2, it2), AtLeaving(S, V, kk, kk2, x, y), Settled(S, V, d, kk - 1, x)
  PROVE  Settled(S, V, d, kk2 - 1, y)
<1>0. kk - 1 \in Nat /\ (kk - 1) + 1 = kk /\ (kk + 1) - 1 = kk /\ kk + 1 # kk
  OBVIOUS
<1>1. CASE kk2 = kk
  BY <1>1 DEF AtLeaving
<1>2. CASE kk2 = kk + 1 /\ kk \notin S
  <2>1. y = x
    BY <1>0, <1>2 DEF AtLeaving
  <2> QED
    BY <1>0, <1>2, <2>1, SettledSkip
<1>3. CASE kk2 = kk + 1 /\ kk \in S
  <2>1. y = V[kk]
    BY <1>0, <1>3 DEF AtLeaving
  <2> QED
    BY <1>0, <1>3, <2>1, SettledSet
<1> QED
  BY <1>1, <1>2, <1>3 DEF Moves

\* A setting that is made in the first call.
LEMMA Starting ==
  ASSUME NEW S, NEW V, NEW d, NEW x, NEW y, NEW kk \in Nat \ {0}, NEW it \in Nat, NEW kk2, NEW it2,
         Moves(kk, it, kk2, it2), AtStarting(S, V, kk, it, x, y),
         Settled(S, V, d, Begun(kk, it), x)
  PROVE  Settled(S, V, d, Begun(kk2, it2), y)
<1>0. kk - 1 \in Nat /\ (kk - 1) + 1 = kk /\ (kk + 1) - 1 = kk
  OBVIOUS
<1>1. Begun(kk2, it2) = kk
  BY DEF Begun, Moves
<1>2. CASE kk \notin S
  <2>1. y = x
    BY <1>2 DEF AtStarting
  <2>2. CASE it = 0
    <3>1. Settled(S, V, d, kk - 1, x)
      BY <2>2 DEF Begun
    <3> QED
      BY <1>0, <1>1, <1>2, <2>1, <3>1, SettledSkip
  <2>3. CASE it # 0
    BY <1>1, <2>1, <2>3 DEF Begun
  <2> QED
    BY <2>2, <2>3
<1>3. CASE kk \in S
  <2>1. CASE y = V[kk]
    BY <1>1, <1>3, <2>1, SettledSet
  <2>2. CASE it > 0 /\ y = x
    BY <1>1, <2>2 DEF Begun
  <2> QED
    BY <1>3, <2>1, <2>2 DEF AtStarting
<1> QED
  BY <1>2, <1>3

-----------------------------------------------------------------------------
(* The loops over words and over arguments.                                *)

\* A set of natural numbers has a least element.
LEMMA Least ==
  ASSUME NEW S \in SUBSET Nat, S # {}
  PROVE  \E n \in S : \A m \in S : n <= m
<1> DEFINE R == OpToRel(<, Nat)
<1>1. IsWellFoundedOn(R, Nat)
  BY NatLessThanWellFounded
<1>2. PICK x \in S : \A y \in S : ~ (<< y, x >> \in R)
  <2> HIDE DEF R
  <2> QED
    BY <1>1, WFMin
<1>3. \A y \in S : << y, x >> \in R <=> y < x
  BY DEF OpToRel
<1>4. \A y \in S : y \in Nat /\ x \in Nat /\ ~(y < x)
  <2> HIDE DEF R
  <2> QED
    BY <1>2, <1>3
<1> QED
  BY <1>4

\* Induction up to N, with a set for the predicate.
LEMMA UpTo ==
  ASSUME NEW N \in Nat, NEW S, 0 \in S,
         \A n \in 0..N : n + 1 \in 0..N /\ n \in S => n + 1 \in S
  PROVE  \A n \in 0..N : n \in S
<1> SUFFICES ASSUME (0..N) \ S # {} PROVE FALSE
  OBVIOUS
<1>1. (0..N) \ S \in SUBSET Nat
  OBVIOUS
<1>2. PICK n \in (0..N) \ S : \A m \in (0..N) \ S : n <= m
  BY <1>1, Least
<1>3. n \in Nat /\ n # 0 /\ n - 1 \in 0..N
  BY <1>2
<1>4. n - 1 \in S
  BY <1>2, <1>3
<1> QED
  BY <1>2, <1>3, <1>4

\* ParseSteps is the loop it is written as.
LEMMA ParseLoop ==
  ASSUME NEW words, Len(words) \in Nat
  PROVE  /\ ParseSteps(words)[0] = [flags |-> {}, opts |-> << >>]
         /\ \A n \in 1..Len(words) :
              ParseSteps(words)[n] = ParseWord(ParseSteps(words)[n-1], words[n])
<1> DEFINE N == Len(words)
           E == [flags |-> {}, opts |-> << >>]
           F(f, M) == [n \in 0..M |-> IF n = 0 THEN E ELSE ParseWord(f[n-1], words[n])]
           S == {M \in 0..N : \E f : f = F(f, M)}
<1>1. 0 \in S
  <2>1. PICK f : f = [n \in 0..0 |-> E]
    OBVIOUS
  <2>2. f = F(f, 0)
    <3> HIDE DEF E
    <3> QED
      BY <2>1
  <2>3. 0 \in 0..N
    OBVIOUS
  <2> HIDE DEF F
  <2> QED
    BY <2>2, <2>3
<1>2. ASSUME NEW M \in 0..N, M + 1 \in 0..N, M \in S PROVE M + 1 \in S
  <2>1. PICK f : f = F(f, M)
    BY <1>2
  <2>2. PICK h : h = [n \in 0..(M+1) |->
                        IF n = M + 1 THEN ParseWord(f[M], words[M+1]) ELSE f[n]]
    OBVIOUS
  <2> HIDE DEF E
  <2>3. \A n \in 0..M : h[n] = f[n]
    BY <2>2
  <2>4. \A n \in 0..M : f[n] = IF n = 0 THEN E ELSE ParseWord(f[n-1], words[n])
    BY <2>1
  <2>5. M \in Nat /\ \A n \in 0..(M+1) : n = M + 1 \/ n \in 0..M
    OBVIOUS
  <2>6. \A n \in 0..M : n # 0 => n - 1 \in 0..M
    OBVIOUS
  <2>7. \A n \in 0..M : h[n] = IF n = 0 THEN E ELSE ParseWord(h[n-1], words[n])
    BY <2>3, <2>4, <2>6
  <2>8. h[M+1] = ParseWord(h[M], words[M+1]) /\ M + 1 # 0 /\ (M + 1) - 1 = M
    BY <2>2, <2>3, <2>5
  <2>9. \A n \in 0..(M+1) : h[n] = IF n = 0 THEN E ELSE ParseWord(h[n-1], words[n])
    BY <2>5, <2>7, <2>8
  <2>10. h = F(h, M + 1)
    BY <2>2, <2>9
  <2> QED
    BY <1>2, <2>10
<1>3. N \in S
  <2>1. N \in Nat /\ N \in 0..N
    OBVIOUS
  <2> HIDE DEF S, N
  <2> QED
    BY <1>1, <1>2, <2>1, UpTo
<1>4. PICK f : f = F(f, N)
  BY <1>3
<1>5. ParseSteps(words) = F(ParseSteps(words), N)
  BY <1>4 DEF ParseSteps
<1> HIDE DEF E
<1>6. ParseSteps(words)[0] = E
  BY <1>5
<1>7. \A n \in 1..Len(words) : ParseSteps(words)[n] = ParseWord(ParseSteps(words)[n-1], words[n])
  BY <1>5
<1> QED
  BY <1>6, <1>7 DEF E

\* Peek is the loop it is written as.
LEMMA PeekLoop ==
  ASSUME NEW want, NEW args, Len(args) \in Nat
  PROVE  /\ Peek(want, args)[0] = Balance(want)
         /\ \A n \in 1..Len(args) :
              Peek(want, args)[n] = SetVerbosity(Peek(want, args)[n-1], args[n])
<1> DEFINE N == Len(args)
           E == Balance(want)
           F(f, M) == [n \in 0..M |-> IF n = 0 THEN E ELSE SetVerbosity(f[n-1], args[n])]
           S == {M \in 0..N : \E f : f = F(f, M)}
<1> HIDE DEF E
<1>1. 0 \in S
  <2>1. PICK f : f = [n \in 0..0 |-> E]
    OBVIOUS
  <2>2. f = F(f, 0)
    BY <2>1
  <2>3. 0 \in 0..N
    OBVIOUS
  <2> HIDE DEF F
  <2> QED
    BY <2>2, <2>3
<1>2. ASSUME NEW M \in 0..N, M + 1 \in 0..N, M \in S PROVE M + 1 \in S
  <2>1. PICK f : f = F(f, M)
    BY <1>2
  <2>2. PICK h : h = [n \in 0..(M+1) |->
                        IF n = M + 1 THEN SetVerbosity(f[M], args[M+1]) ELSE f[n]]
    OBVIOUS
  <2>3. \A n \in 0..M : h[n] = f[n]
    BY <2>2
  <2>4. \A n \in 0..M : f[n] = IF n = 0 THEN E ELSE SetVerbosity(f[n-1], args[n])
    BY <2>1
  <2>5. M \in Nat /\ \A n \in 0..(M+1) : n = M + 1 \/ n \in 0..M
    OBVIOUS
  <2>6. \A n \in 0..M : n # 0 => n - 1 \in 0..M
    OBVIOUS
  <2>7. \A n \in 0..M : h[n] = IF n = 0 THEN E ELSE SetVerbosity(h[n-1], args[n])
    BY <2>3, <2>4, <2>6
  <2>8. h[M+1] = SetVerbosity(h[M], args[M+1]) /\ M + 1 # 0 /\ (M + 1) - 1 = M
    BY <2>2, <2>3, <2>5
  <2>9. \A n \in 0..(M+1) : h[n] = IF n = 0 THEN E ELSE SetVerbosity(h[n-1], args[n])
    BY <2>5, <2>7, <2>8
  <2>10. h = F(h, M + 1)
    BY <2>2, <2>9
  <2> QED
    BY <1>2, <2>10
<1>3. N \in S
  <2>1. N \in Nat /\ N \in 0..N
    OBVIOUS
  <2> HIDE DEF S, N
  <2> QED
    BY <1>1, <1>2, <2>1, UpTo
<1>4. PICK f : f = F(f, N)
  BY <1>3
<1>5. Peek(want, args) = F(Peek(want, args), N)
  BY <1>4 DEF Peek, E
<1>6. Peek(want, args)[0] = E
  BY <1>5
<1>7. \A n \in 1..Len(args) :
        Peek(want, args)[n] = SetVerbosity(Peek(want, args)[n-1], args[n])
  BY <1>5
<1> QED
  BY <1>6, <1>7 DEF E

\* A result of parse_mount_opts_str.
IsParsed(acc) == acc = [flags |-> acc.flags, opts |-> acc.opts]

\* No word both sets and clears a flag.
LEMMA SetsOrClears ==
  /\ \A w \in DOMAIN Sets : w \notin DOMAIN Clears /\ w \notin Ignored
  /\ \A w \in DOMAIN Clears : w \notin Ignored
BY DEF Sets, Clears, Ignored

\* What one word does to the flags and to the options.
LEMMA WordResult ==
  ASSUME NEW acc, NEW w, IsParsed(acc)
  PROVE  /\ IsParsed(ParseWord(acc, w))
         /\ w \in DOMAIN Sets => /\ ParseWord(acc, w).flags = acc.flags \cup {Sets[w]}
                                 /\ ParseWord(acc, w).opts = acc.opts
         /\ w \in DOMAIN Clears => /\ ParseWord(acc, w).flags = acc.flags \ {Clears[w]}
                                   /\ ParseWord(acc, w).opts = acc.opts
         /\ w \notin DOMAIN Sets \cup DOMAIN Clears => ParseWord(acc, w).flags = acc.flags
         /\ w \in Ignored \cup {EmptyString} /\ w \notin DOMAIN Sets \cup DOMAIN Clears =>
              ParseWord(acc, w).opts = acc.opts
         /\ w \notin DOMAIN Sets \cup DOMAIN Clears \cup Ignored \cup {EmptyString} =>
              ParseWord(acc, w).opts = Append(acc.opts, w)
<1> DEFINE A == DOMAIN Sets
           B == DOMAIN Clears
           C == Ignored \cup {EmptyString}
           set == [acc EXCEPT !.flags = @ \cup {Sets[w]}]
           clear == [acc EXCEPT !.flags = @ \ {Clears[w]}]
           add == [acc EXCEPT !.opts = Append(@, w)]
<1>1. /\ w \in A => ParseWord(acc, w) = set
      /\ w \in B => ParseWord(acc, w) = clear
      /\ w \notin A /\ w \notin B /\ w \in C => ParseWord(acc, w) = acc
      /\ w \notin A /\ w \notin B /\ w \notin C => ParseWord(acc, w) = add
  <2>1. w \in A => w \notin B /\ w \notin Ignored
    BY SetsOrClears
  <2>2. w \in B => w \notin Ignored
    BY SetsOrClears
  <2>3. w \in A => w # EmptyString
    BY DEF Sets, EmptyString
  <2>4. w \in B => w # EmptyString
    BY DEF Clears, EmptyString
  <2>5. CASE w \in A
    BY <2>1, <2>3, <2>5 DEF ParseWord
  <2>6. CASE w \in B
    BY <2>1, <2>2, <2>4, <2>6 DEF ParseWord
  <2>7. CASE w \notin A /\ w \notin B /\ w \in C
    BY <2>7 DEF ParseWord
  <2>8. CASE w \notin A /\ w \notin B /\ w \notin C
    BY <2>8 DEF ParseWord
  <2> QED
    BY <2>5, <2>6, <2>7, <2>8
<1>2. \A x, y : LET r == [flags |-> x, opts |-> y]
                IN  r.flags = x /\ r.opts = y /\ IsParsed(r)
  BY DEF IsParsed
<1>3. /\ set = [flags |-> acc.flags \cup {Sets[w]}, opts |-> acc.opts]
      /\ clear = [flags |-> acc.flags \ {Clears[w]}, opts |-> acc.opts]
      /\ add = [flags |-> acc.flags, opts |-> Append(acc.opts, w)]
  <2>1. PICK fl, op : fl = acc.flags /\ op = acc.opts
    OBVIOUS
  <2>2. acc = [flags |-> fl, opts |-> op]
    BY <2>1 DEF IsParsed
  <2>3. \A v : [acc EXCEPT !.flags = v] = [flags |-> v, opts |-> op]
    BY <2>2
  <2>4. \A v : [acc EXCEPT !.opts = v] = [flags |-> fl, opts |-> v]
    BY <2>2
  <2> QED
    BY <2>1, <2>3, <2>4, Zenon
<1> HIDE DEF A, B, C, set, clear, add
<1> QED
  BY <1>1, <1>2, <1>3, SetsOrClears DEF A, B, C

\* The flags that the first n words ask for.
FlagsFirst(vals, n) ==
  {f \in {Sets[w] : w \in DOMAIN Sets} :
     \E i \in 1..n :
       /\ vals[i] \in DOMAIN Sets /\ Sets[vals[i]] = f
       /\ \A j \in (i+1)..n : vals[j] \in DOMAIN Clears => Clears[vals[j]] # f}

\* One word more.
LEMMA FlagsOfOneMore ==
  ASSUME NEW vals, NEW n \in Nat
  PROVE  /\ vals[n+1] \in DOMAIN Sets =>
              FlagsFirst(vals, n + 1) = FlagsFirst(vals, n) \cup {Sets[vals[n+1]]}
         /\ vals[n+1] \in DOMAIN Clears =>
              FlagsFirst(vals, n + 1) = FlagsFirst(vals, n) \ {Clears[vals[n+1]]}
         /\ vals[n+1] \notin DOMAIN Sets \cup DOMAIN Clears =>
              FlagsFirst(vals, n + 1) = FlagsFirst(vals, n)
<1> DEFINE A == DOMAIN Sets
           B == DOMAIN Clears
           R == {Sets[w] : w \in A}
           Has(f, i, m) == /\ vals[i] \in A /\ Sets[vals[i]] = f
                           /\ \A j \in (i+1)..m : vals[j] \in B => Clears[vals[j]] # f
           w0 == vals[n+1]
<1>1. \A m, f : f \in FlagsFirst(vals, m) <=> f \in R /\ \E i \in 1..m : Has(f, i, m)
  BY DEF FlagsFirst
<1>2. \A f : Has(f, n + 1, n + 1) <=> w0 \in A /\ Sets[w0] = f
  OBVIOUS
<1>3. \A i \in 1..n : \A j : j \in (i+1)..(n+1) <=> j \in (i+1)..n \/ j = n + 1
  OBVIOUS
<1>4. \A i \in 1..n : \A f :
        Has(f, i, n + 1) <=> Has(f, i, n) /\ (w0 \in B => Clears[w0] # f)
  BY <1>3
<1>5. \A i : i \in 1..(n+1) <=> i \in 1..n \/ i = n + 1
  OBVIOUS
<1>6. \A f : f \in FlagsFirst(vals, n + 1) <=>
        /\ f \in R
        /\ \/ \E i \in 1..n : Has(f, i, n) /\ (w0 \in B => Clears[w0] # f)
           \/ w0 \in A /\ Sets[w0] = f
  <2> HIDE DEF Has, w0
  <2> QED
    BY <1>1, <1>2, <1>4, <1>5
<1>7. w0 \in A => w0 \notin B /\ Sets[w0] \in R
  BY SetsOrClears
<1>8. \A f : f \in FlagsFirst(vals, n + 1) <=>
        \/ f \in FlagsFirst(vals, n) /\ (w0 \in B => Clears[w0] # f)
        \/ w0 \in A /\ Sets[w0] = f
  <2> HIDE DEF Has, w0, R, A, B
  <2> QED
    BY <1>1, <1>6, <1>7
<1>9. CASE w0 \in A
  <2> HIDE DEF Has, R, A, B
  <2> QED
    BY <1>7, <1>8, <1>9 DEF A, B
<1>10. CASE w0 \in B
  <2> HIDE DEF Has, R
  <2> QED
    BY <1>7, <1>8, <1>10, SetsOrClears
<1>11. CASE w0 \notin A \cup B
  <2> HIDE DEF Has, R
  <2> QED
    BY <1>8, <1>11
<1> QED
  BY <1>9, <1>10, <1>11

\* parse_mount_opts_str: the last word about a flag decides.
LEMMA ParseFlags ==
  ASSUME NEW A, NEW vals \in Seq(A)
  PROVE  ParseMountOpts(vals).flags = FlagsOf(vals)
<1> DEFINE N == Len(vals)
           acc(n) == ParseSteps(vals)[n]
           Good(n) == IsParsed(acc(n)) /\ acc(n).flags = FlagsFirst(vals, n)
           S == {n \in 0..N : Good(n)}
<1>0. N \in Nat /\ DOMAIN vals = 1..N
  OBVIOUS
<1>1. 0 \in S
  <2>1. acc(0) = [flags |-> {}, opts |-> << >>]
    BY <1>0, ParseLoop
  <2>2. FlagsFirst(vals, 0) = {}
    BY DEF FlagsFirst
  <2>3. IsParsed(acc(0)) /\ acc(0).flags = {}
    BY <2>1 DEF IsParsed
  <2>4. Good(0) /\ 0 \in 0..N
    BY <1>0, <2>2, <2>3
  <2> HIDE DEF Good
  <2> QED
    BY <2>4
<1>2. ASSUME NEW n \in 0..N, n + 1 \in 0..N, n \in S PROVE n + 1 \in S
  <2>1. n + 1 \in 1..N /\ (n + 1) - 1 = n /\ n \in Nat
    BY <1>0, <1>2
  <2>2. acc(n + 1) = ParseWord(acc(n), vals[n+1])
    BY <1>0, <2>1, ParseLoop
  <2>3. IsParsed(acc(n)) /\ acc(n).flags = FlagsFirst(vals, n)
    BY <1>2
  <2> HIDE DEF acc
  <2>4. PICK w, a : w = vals[n+1] /\ a = acc(n)
    OBVIOUS
  <2>5. IsParsed(acc(n+1)) /\ acc(n+1).flags = FlagsFirst(vals, n + 1)
    <3> DEFINE X == DOMAIN Sets
               Y == DOMAIN Clears
    <3>1. /\ IsParsed(acc(n+1))
          /\ w \in X => acc(n+1).flags = acc(n).flags \cup {Sets[w]}
          /\ w \in Y => acc(n+1).flags = acc(n).flags \ {Clears[w]}
          /\ w \notin X \cup Y => acc(n+1).flags = acc(n).flags
      <4>1. IsParsed(a) /\ acc(n+1) = ParseWord(a, w)
        BY <2>2, <2>3, <2>4
      <4>2. /\ IsParsed(ParseWord(a, w))
            /\ w \in X => ParseWord(a, w).flags = a.flags \cup {Sets[w]}
            /\ w \in Y => ParseWord(a, w).flags = a.flags \ {Clears[w]}
            /\ w \notin X \cup Y => ParseWord(a, w).flags = a.flags
        BY <4>1, WordResult
      <4> QED
        BY <2>4, <4>1, <4>2, Zenon
    <3>2. /\ w \in X => FlagsFirst(vals, n + 1) = FlagsFirst(vals, n) \cup {Sets[w]}
          /\ w \in Y => FlagsFirst(vals, n + 1) = FlagsFirst(vals, n) \ {Clears[w]}
          /\ w \notin X \cup Y => FlagsFirst(vals, n + 1) = FlagsFirst(vals, n)
      BY <2>1, <2>4, FlagsOfOneMore, Zenon
    <3> HIDE DEF X, Y
    <3> QED
      BY <2>3, <3>1, <3>2
  <2> QED
    BY <1>2, <2>5
<1>3. N \in S
  <2>1. N \in 0..N
    BY <1>0
  <2> HIDE DEF S, N
  <2> QED
    BY <1>0, <1>1, <1>2, <2>1, UpTo
<1>4. FlagsOf(vals) = FlagsFirst(vals, N)
  BY <1>0 DEF FlagsOf, FlagsFirst
<1> QED
  BY <1>3, <1>4 DEF ParseMountOpts

\* xshell=: what one value more does.
LEMMA ShellOneMore ==
  ASSUME NEW A, NEW vals \in Seq(A), NEW n \in Nat, n + 1 \in 1..Len(vals)
  PROVE  ShellFirst(vals, n + 1) =
           IF vals[n+1] = "never" THEN {} ELSE ShellFirst(vals, n) \cup ShellBits(vals[n+1])
<1> DEFINE never(m) == Nevers(vals, m)
           kept(m) == Kept(vals, m)
           bits(m) == BitsOf(vals, m)
<1>1. vals # << >>
  OBVIOUS
<1>2. \A m : ShellFirst(vals, m) = bits(m) \cup (IF never(m) = {} THEN {"ONERROR"} ELSE {})
  BY <1>1 DEF ShellFirst
<1>3. \A i : i \in 1..(n+1) <=> i \in 1..n \/ i = n + 1
  OBVIOUS
<1>4. CASE vals[n+1] = "never"
  <2>1. n + 1 \in never(n + 1)
    BY <1>4 DEF Nevers
  <2>2. kept(n + 1) = {}
    BY <2>1 DEF Kept
  <2>3. bits(n + 1) = {}
    BY <2>2 DEF BitsOf
  <2>4. never(n + 1) # {}
    BY <2>1
  <2> QED
    BY <1>2, <1>4, <2>3, <2>4
<1>5. CASE vals[n+1] # "never"
  <2>1. never(n + 1) = never(n)
    BY <1>3, <1>5 DEF Nevers
  <2>2. \A j \in never(n) : j < n + 1
    BY DEF Nevers
  <2>3. kept(n + 1) = kept(n) \cup {n + 1}
    BY <1>3, <2>1, <2>2 DEF Kept
  <2>4. bits(n + 1) = bits(n) \cup ShellBits(vals[n+1])
    BY <2>3 DEF BitsOf
  <2>5. ShellFirst(vals, n + 1) = bits(n + 1) \cup (IF never(n + 1) = {} THEN {"ONERROR"} ELSE {})
    BY <1>2
  <2>6. ShellFirst(vals, n) = bits(n) \cup (IF never(n) = {} THEN {"ONERROR"} ELSE {})
    BY <1>2
  <2>7. PICK on : on = IF never(n) = {} THEN {"ONERROR"} ELSE {}
    OBVIOUS
  <2>8. ShellFirst(vals, n + 1) = bits(n + 1) \cup on /\ ShellFirst(vals, n) = bits(n) \cup on
    BY <2>1, <2>5, <2>6, <2>7
  <2> QED
    BY <1>5, <2>4, <2>8
<1> QED
  BY <1>4, <1>5

\* xshell=: before the first value, and after the last.
LEMMA ShellEnds ==
  ASSUME NEW A, NEW vals \in Seq(A)
  PROVE  /\ ShellFirst(vals, 0) = {"ONERROR"} \cup (IF vals = << >> THEN {"LOOP"} ELSE {})
         /\ ShellFirst(vals, Len(vals)) = ShellOf(vals)
<1>1. Nevers(vals, 0) = {} /\ Kept(vals, 0) = {}
  BY DEF Nevers, Kept
<1>2. BitsOf(vals, 0) = {}
  BY <1>1 DEF BitsOf
<1>3. ShellFirst(vals, 0) = {"ONERROR"} \cup (IF vals = << >> THEN {"LOOP"} ELSE {})
  BY <1>1, <1>2 DEF ShellFirst
<1>4. DOMAIN vals = 1..Len(vals)
  OBVIOUS
<1>5. ShellFirst(vals, Len(vals)) = ShellOf(vals)
  <2> DEFINE never == {i \in DOMAIN vals : vals[i] = "never"}
             kept == {i \in DOMAIN vals : \A j \in never : j < i}
             bits == UNION {ShellBits(vals[i]) : i \in kept}
  <2>1. never = Nevers(vals, Len(vals))
    BY <1>4 DEF Nevers
  <2>2. kept = Kept(vals, Len(vals))
    <3> HIDE DEF never
    <3> QED
      BY <1>4, <2>1 DEF Kept
  <2>3. bits = BitsOf(vals, Len(vals))
    <3> HIDE DEF kept
    <3> QED
      BY <2>2 DEF BitsOf
  <2>4. ShellOf(vals) = bits \cup (IF never = {} THEN {"ONERROR"} ELSE {})
                          \cup (IF vals = << >> THEN {"LOOP"} ELSE {})
    BY DEF ShellOf
  <2> HIDE DEF bits, never
  <2> QED
    BY <2>1, <2>3, <2>4 DEF ShellFirst
<1> QED
  BY <1>3, <1>5

\* The peek: whether /init is quiet is settled by the words that were seen.
LEMMA PeekSettles ==
  ASSUME NEW want, NEW args \in Seq(Args)
  PROVE  Peeked(args, Balance(Peek(want, args)[Len(args)]))
<1> DEFINE N == Len(args)
           now(n) == Peek(want, args)[n]
           d == "QUIET" \in Balance(want)
           Good(n) == Settled(QuietAt(args), QuietSays(args), d, n, "QUIET" \in now(n))
           S == {n \in 0..N : Good(n)}
<1>0. N \in Nat /\ DOMAIN args = 1..N
  OBVIOUS
<1>1. 0 \in S
  <2>1. now(0) = Balance(want)
    BY <1>0, PeekLoop
  <2>2. Good(0)
    BY <2>1, SettledStart
  <2> HIDE DEF Good
  <2> QED
    BY <1>0, <2>2
<1>2. ASSUME NEW n \in 0..N, n + 1 \in 0..N, n \in S PROVE n + 1 \in S
  <2>1. n + 1 \in 1..N /\ (n + 1) - 1 = n /\ n \in Nat /\ n + 1 \in Nat \ {0}
    BY <1>0, <1>2
  <2>2. now(n + 1) = SetVerbosity(now(n), args[n+1])
    BY <1>0, <2>1, PeekLoop
  <2>3. Good(n)
    BY <1>2
  <2>4. PICK a : a = args[n+1]
    OBVIOUS
  <2>5. a \in Args /\ a.eq \in BOOLEAN
    BY <1>0, <2>1, <2>4, ArgsAssumption
  <2> HIDE DEF now
  <2>6. CASE Verbosity(a)
    <3>1. n + 1 \in QuietAt(args) /\ QuietSays(args)[n+1] = (a.key \in {"quiet", "iquiet"})
      BY <1>0, <2>1, <2>4, <2>6 DEF QuietAt, QuietSays
    <3>2. ("QUIET" \in SetVerbosity(now(n), a)) = (a.key \in {"quiet", "iquiet"})
      BY <2>5, <2>6 DEF SetVerbosity, Verbosity
    <3>3. ("QUIET" \in now(n + 1)) = QuietSays(args)[n+1]
      BY <2>2, <2>4, <3>1, <3>2
    <3>4. Good(n + 1)
      BY <2>1, <3>1, <3>3, SettledSet
    <3> HIDE DEF Good
    <3> QED
      BY <1>2, <3>4
  <2>7. CASE ~Verbosity(a)
    <3>1. n + 1 \notin QuietAt(args)
      BY <2>4, <2>7 DEF QuietAt
    <3>2. now(n + 1) = now(n)
      <4>1. CASE a.eq
        BY <2>2, <2>4, <4>1 DEF SetVerbosity
      <4>2. CASE ~a.eq /\ a.key \notin {"quiet", "iquiet", "inoquiet", "iverbose", "idebug"}
        BY <2>2, <2>4, <4>2 DEF SetVerbosity
      <4> QED
        BY <2>5, <2>7, <4>1, <4>2 DEF Verbosity
    <3>3. PICK b : b = ("QUIET" \in now(n))
      OBVIOUS
    <3>4. Settled(QuietAt(args), QuietSays(args), d, n, b)
      BY <2>3, <3>3
    <3>5. Settled(QuietAt(args), QuietSays(args), d, n + 1, b)
      <4> HIDE DEF d
      <4> QED
        BY <2>1, <3>1, <3>4, SettledSkip
    <3>6. Good(n + 1)
      BY <3>2, <3>3, <3>5
    <3> HIDE DEF Good
    <3> QED
      BY <1>2, <3>6
  <2> QED
    BY <2>6, <2>7
<1>3. Good(N)
  <2>1. N \in 0..N
    BY <1>0
  <2>2. N \in S
    <3> HIDE DEF S, N
    <3> QED
      BY <1>0, <1>1, <1>2, <2>1, UpTo
  <2> QED
    BY <2>2
<1>4. ("QUIET" \in Balance(now(N))) = ("QUIET" \in now(N))
  BY DEF Balance
<1> QED
  BY <1>3, <1>4 DEF Peeked

-----------------------------------------------------------------------------
(* A call of the callback.                                                 *)

\* The settings that no parameter but the ones for them changes.
LEMMA InitKept ==
  ASSUME NEW av \in Seq(Args), NEW kk, NEW it, NEW kk2, NEW it2, NEW x,
         Where(av, kk, it), kk <= Len(av), Moves(kk, it, kk2, it2),
         av[kk].key \notin {"init", "real_init"}, InitSoFar(av, kk, it, x)
  PROVE  InitSoFar(av, kk2, it2, x)
<1>1. kk \in Nat \ {0} /\ it \in Nat /\ Len(av) \in Nat
  BY DEF Where
<1>2. Settled(InitAt(av), InitSays(av), Null, kk - 1, x)
  BY DEF InitSoFar
<1>3. kk \notin InitAt(av)
  BY DEF InitAt
<1>4. AtLeaving(InitAt(av), InitSays(av), kk, kk2, x, x)
  BY <1>3 DEF AtLeaving
<1>5. Settled(InitAt(av), InitSays(av), Null, kk2 - 1, x)
  BY <1>1, <1>2, <1>4, Leaving
<1>6. ~ (kk2 <= Len(av) /\ it2 > 1 /\ av[kk2].key \in {"init", "real_init"})
  BY <1>1 DEF Moves
<1> QED
  BY <1>5, <1>6 DEF InitSoFar

\* The same for the shells.
LEMMA ShellKept ==
  ASSUME NEW av \in Seq(Args), NEW kk, NEW it, NEW kk2, NEW it2, NEW x,
         Where(av, kk, it), kk <= Len(av), Moves(kk, it, kk2, it2),
         av[kk].key # "xshell", ShellSoFar(av, kk, it, x)
  PROVE  ShellSoFar(av, kk2, it2, x)
<1>1. kk \in Nat \ {0} /\ it \in Nat /\ Len(av) \in Nat
  BY DEF Where
<1>2. Settled(ShellAt(av), ShellSays(av), {}, kk - 1, x)
  BY DEF ShellSoFar
<1>3. kk \notin ShellAt(av)
  BY DEF ShellAt
<1>4. AtLeaving(ShellAt(av), ShellSays(av), kk, kk2, x, x)
  BY <1>3 DEF AtLeaving
<1>5. Settled(ShellAt(av), ShellSays(av), {}, kk2 - 1, x)
  BY <1>1, <1>2, <1>4, Leaving
<1>6. ~ (kk2 <= Len(av) /\ it2 > 0 /\ av[kk2].key = "xshell")
  BY <1>1 DEF Moves
<1> QED
  BY <1>5, <1>6 DEF ShellSoFar

\* The same for /usr.
LEMMA UsrKept ==
  ASSUME NEW av \in Seq(Args), NEW kk, NEW it, NEW kk2, NEW it2, NEW x, NEW y,
         Where(av, kk, it), kk <= Len(av), Moves(kk, it, kk2, it2),
         av[kk].key = "nousrmount" => IsFalse(y), IsFalse(x) => IsFalse(y),
         UsrSoFar(av, Begun(kk, it), x)
  PROVE  UsrSoFar(av, Begun(kk2, it2), y)
<1>1. kk \in Nat \ {0} /\ it \in Nat /\ Len(av) \in Nat /\ DOMAIN av = 1..Len(av)
  BY DEF Where
<1>2. Begun(kk2, it2) = kk
  BY <1>1 DEF Begun, Moves
<1>3. \A i \in DOMAIN av : i <= kk => i = kk \/ i <= Begun(kk, it)
  BY <1>1 DEF Begun
<1> QED
  BY <1>1, <1>2, <1>3 DEF UsrSoFar

\* A call: each setting either is none of the argument's business or is made
\* as the argument says.
LEMMA Advance ==
  ASSUME NEW av \in Seq(Args), NEW kk, NEW it, NEW kk2, NEW it2, NEW gg, NEW gg2,
         Where(av, kk, it), kk <= Len(av), Moves(kk, it, kk2, it2), SoFar(av, kk, it, gg),
         AtLeaving(RootAt(av), RootSays(av), kk, kk2, gg.newroot_mount.source,
                   gg2.newroot_mount.source),
         AtLeaving(TypeAt(av), TypeSays(av), kk, kk2, gg.newroot_mount.fstype,
                   gg2.newroot_mount.fstype),
         AtLeaving(FlagsAt(av), FlagsSay(av), kk, kk2, gg.newroot_mount.flags,
                   gg2.newroot_mount.flags),
         AtLeaving(RoAt(av), RoSays(av), kk, kk2, IsFalse(gg.root_ro_status),
                   IsFalse(gg2.root_ro_status)),
         AtStarting(SwapAt(av), SwapSays(av), kk, it, gg.zram_autoswap, gg2.zram_autoswap),
         AtStarting(WantAt(av), WantSays(av), kk, it, ~IsFalse(gg.want_newroot_mount),
                    ~IsFalse(gg2.want_newroot_mount)),
         InitSoFar(av, kk2, it2, gg2.real_init),
         ShellSoFar(av, kk2, it2, gg2.doshell),
         av[kk].key = "nousrmount" => IsFalse(gg2.want_newroot_usr_mount),
         IsFalse(gg.want_newroot_usr_mount) => IsFalse(gg2.want_newroot_usr_mount)
  PROVE  SoFar(av, kk2, it2, gg2)
<1>1. kk \in Nat \ {0} /\ it \in Nat
  BY DEF Where
<1>2. Settled(RootAt(av), RootSays(av), Null, kk2 - 1, gg2.newroot_mount.source)
  BY <1>1, Leaving DEF SoFar
<1>3. Settled(TypeAt(av), TypeSays(av), "ext4", kk2 - 1, gg2.newroot_mount.fstype)
  BY <1>1, Leaving DEF SoFar
<1>4. Settled(FlagsAt(av), FlagsSay(av), {}, kk2 - 1, gg2.newroot_mount.flags)
  BY <1>1, Leaving DEF SoFar
<1>5. Settled(RoAt(av), RoSays(av), FALSE, kk2 - 1, IsFalse(gg2.root_ro_status))
  <2>1. PICK x, y, d : x = IsFalse(gg.root_ro_status) /\ y = IsFalse(gg2.root_ro_status) /\ d = FALSE
    OBVIOUS
  <2>2. Settled(RoAt(av), RoSays(av), d, kk - 1, x)
    BY <2>1 DEF SoFar
  <2>3. AtLeaving(RoAt(av), RoSays(av), kk, kk2, x, y)
    BY <2>1
  <2>4. Settled(RoAt(av), RoSays(av), d, kk2 - 1, y)
    BY <1>1, <2>2, <2>3, Leaving
  <2> QED
    BY <2>1, <2>4
<1>6. Settled(SwapAt(av), SwapSays(av), Null, Begun(kk2, it2), gg2.zram_autoswap)
  BY <1>1, Starting DEF SoFar
<1>7. Settled(WantAt(av), WantSays(av), TRUE, Begun(kk2, it2), ~IsFalse(gg2.want_newroot_mount))
  <2>1. PICK x, y, d : x = (~IsFalse(gg.want_newroot_mount)) /\ y = (~IsFalse(gg2.want_newroot_mount)) /\ d = TRUE
    OBVIOUS
  <2>2. Settled(WantAt(av), WantSays(av), d, Begun(kk, it), x)
    BY <2>1 DEF SoFar
  <2>3. AtStarting(WantAt(av), WantSays(av), kk, it, x, y)
    BY <2>1
  <2>4. Settled(WantAt(av), WantSays(av), d, Begun(kk2, it2), y)
    BY <1>1, <2>2, <2>3, Starting
  <2> QED
    BY <2>1, <2>4
<1>8. UsrSoFar(av, Begun(kk2, it2), gg2.want_newroot_usr_mount)
  BY UsrKept DEF SoFar
<1> QED
  BY <1>2, <1>3, <1>4, <1>5, <1>6, <1>7, <1>8 DEF SoFar

\* A call that lets argsplit go on keeps the invariant if it keeps the parts
\* of it about the current argument and about the globals.
WellCalled ==
  /\ UNCHANGED << argv, pc, peeked, complete, mounted >>
  /\ Moves(k, iter, k', iter') /\ Where(argv, k', iter')
  /\ Mountable(g') /\ SoFar(argv, k', iter', g') /\ g'.want = g.want

\* A call that is as it should be keeps the invariant.
LEMMA WellCalledKeeps ==
  ASSUME CmdlineInv, pc = "arg", WellCalled
  PROVE  CmdlineInv'
<1>1. ~complete /\ mounted = << >>
  BY DEF CmdlineInv
<1>2. MountsDone(mounted', g')
  BY <1>1 DEF MountsDone, WellCalled
<1>3. peeked' => Peeked(argv', g'.want)
  BY DEF WellCalled, CmdlineInv
<1>4. mounted' \in Seq(ToSet(mounted'))
  BY DEF WellCalled, CmdlineInv
<1>5. argv' \in Seq(Args) /\ Mountable(g') /\ pc' = "arg" /\ ~complete' /\ mounted' = << >>
  BY <1>1 DEF WellCalled, CmdlineInv
<1>6. Where(argv', k', iter') /\ SoFar(argv', k', iter', g')
  BY DEF WellCalled
<1> QED
  BY <1>2, <1>3, <1>4, <1>5, <1>6 DEF CmdlineInv

\* What is known at a call.
LEMMA AtCall ==
  ASSUME CmdlineInv, pc = "arg", k <= Len(argv)
  PROVE  /\ argv \in Seq(Args) /\ Len(argv) \in Nat /\ DOMAIN argv = 1..Len(argv)
         /\ k \in DOMAIN argv /\ k \in Nat \ {0} /\ iter \in Nat
         /\ Arg \in Args /\ Len(Arg.vals) \in Nat /\ Arg.vals \in Seq(ToSet(Arg.vals))
         /\ DOMAIN Arg.vals = 1..Len(Arg.vals)
         /\ iter <= Len(Arg.vals) + 1
         /\ Where(argv, k, iter) /\ SoFar(argv, k, iter, g) /\ Mountable(g)
<1>1. argv \in Seq(Args) /\ Where(argv, k, iter) /\ SoFar(argv, k, iter, g) /\ Mountable(g)
  BY DEF CmdlineInv
<1>2. Len(argv) \in Nat /\ DOMAIN argv = 1..Len(argv)
  BY <1>1
<1>3. k \in DOMAIN argv /\ k \in Nat \ {0} /\ iter \in Nat /\ iter <= Len(Arg.vals) + 1
  BY <1>1, <1>2 DEF Where, Arg
<1>4. Arg \in Args
  BY <1>1, <1>2, <1>3 DEF Arg
<1>5. Arg.vals \in Seq(ToSet(Arg.vals))
  BY <1>4, ArgsAssumption
<1>6. Len(Arg.vals) \in Nat /\ DOMAIN Arg.vals = 1..Len(Arg.vals)
  BY <1>5
<1> QED
  BY <1>1, <1>2, <1>3, <1>4, <1>5, <1>6

\* The two ways to go on.
LEMMA Going ==
  ASSUME CmdlineInv, pc = "arg", k <= Len(argv), KeepGoing,
         Arg.key \in {"root", "rootfstype"} => ~AtValue
  PROVE  /\ UNCHANGED << argv, pc, peeked, complete, mounted >>
         /\ Moves(k, iter, k', iter') /\ Where(argv, k', iter')
         /\ k' = k <=> ~AtEnd
<1>1. UNCHANGED << argv, pc, peeked, complete, mounted >>
  BY DEF KeepGoing
<1>2. Moves(k, iter, k', iter')
  BY DEF KeepGoing, Moves
<1>3. CASE AtEnd
  <2>1. k' = k + 1 /\ iter' = 0
    BY <1>3 DEF KeepGoing
  <2> QED
    BY <1>1, <1>2, <1>3, <2>1, AtCall DEF Where
<1>4. CASE ~AtEnd
  <2>1. k' = k /\ iter' = iter + 1
    BY <1>4 DEF KeepGoing
  <2>2. iter' <= Len(Arg.vals) + 1 /\ iter' \in Nat
    BY <1>4, <2>1, AtCall DEF AtEnd
  <2>3. Arg.key \in {"root", "rootfstype"} => iter' <= 1
    <3>1. SUFFICES ASSUME Arg.key \in {"root", "rootfstype"} PROVE iter' <= 1
      OBVIOUS
    <3>2. iter <= 1
      BY <3>1, AtCall DEF Where, Arg
    <3> QED
      BY <1>4, <2>1, <3>1, <3>2, AtCall DEF AtValue, AtEnd
  <2> QED
    BY <1>1, <1>2, <1>4, <2>1, <2>2, <2>3, AtCall DEF Where, Arg
<1> QED
  BY <1>3, <1>4

\* ARGSPLIT_NEXT_ARG moves on to the next argument.
LEMMA Leaves ==
  ASSUME CmdlineInv, pc = "arg", k <= Len(argv), NextArg
  PROVE  /\ UNCHANGED << argv, pc, peeked, complete, mounted >>
         /\ Moves(k, iter, k', iter') /\ Where(argv, k', iter')
         /\ k' = k + 1 /\ iter' = 0
<1>1. UNCHANGED << argv, pc, peeked, complete, mounted >> /\ k' = k + 1 /\ iter' = 0
  BY DEF NextArg
<1> QED
  BY <1>1, AtCall DEF Where, Moves

\* What the current argument decides, and what it says.
LEMMA Says ==
  ASSUME NEW av, NEW i \in DOMAIN av
  PROVE  /\ i \in RootAt(av) <=> av[i].key = "stagedive" \/ (av[i].key = "root" /\ av[i].vals # << >>)
         /\ RootSays(av)[i] = IF av[i].key = "stagedive" THEN "zroot" ELSE av[i].vals[1]
         /\ i \in TypeAt(av) <=> av[i].key = "stagedive" \/ (av[i].key = "rootfstype" /\ av[i].vals # << >>)
         /\ TypeSays(av)[i] = IF av[i].key = "stagedive" THEN "zdisk" ELSE av[i].vals[1]
         /\ i \in FlagsAt(av) <=> av[i].key \in {"rootfsflags", "rootflags"}
         /\ FlagsSay(av)[i] = FlagsOf(av[i].vals)
         /\ i \in RoAt(av) <=> av[i].key \in {"ro", "rw", "stagedive"}
         /\ RoSays(av)[i] = (av[i].key # "ro")
         /\ i \in SwapAt(av) <=> av[i].key = "zram_swap"
         /\ SwapSays(av)[i] = IF av[i].vals # << >> THEN av[i].vals[1] ELSE "guess"
         /\ i \in WantAt(av) <=> av[i].key \in {"stagedive", "norootmount", "liram", "liram_x"}
         /\ WantSays(av)[i] = (av[i].key = "stagedive")
<1>1. /\ i \in RootAt(av) <=> av[i].key = "stagedive" \/ (av[i].key = "root" /\ av[i].vals # << >>)
      /\ RootSays(av)[i] = IF av[i].key = "stagedive" THEN "zroot" ELSE av[i].vals[1]
  BY DEF RootAt, RootSays, Stagedives, HasValue
<1>2. /\ i \in TypeAt(av) <=> av[i].key = "stagedive" \/ (av[i].key = "rootfstype" /\ av[i].vals # << >>)
      /\ TypeSays(av)[i] = IF av[i].key = "stagedive" THEN "zdisk" ELSE av[i].vals[1]
  BY DEF TypeAt, TypeSays, Stagedives, HasValue
<1>3. /\ i \in FlagsAt(av) <=> av[i].key \in {"rootfsflags", "rootflags"}
      /\ FlagsSay(av)[i] = FlagsOf(av[i].vals)
  BY DEF FlagsAt, FlagsSay
<1>4. /\ i \in RoAt(av) <=> av[i].key \in {"ro", "rw", "stagedive"}
      /\ RoSays(av)[i] = (av[i].key # "ro")
  BY DEF RoAt, RoSays
<1>5. /\ i \in SwapAt(av) <=> av[i].key = "zram_swap"
      /\ SwapSays(av)[i] = IF av[i].vals # << >> THEN av[i].vals[1] ELSE "guess"
  BY DEF SwapAt, SwapSays, HasValue
<1>6. /\ i \in WantAt(av) <=> av[i].key \in {"stagedive", "norootmount", "liram", "liram_x"}
      /\ WantSays(av)[i] = (av[i].key = "stagedive")
  BY DEF WantAt, WantSays, Stagedives
<1> QED
  BY <1>1, <1>2, <1>3, <1>4, <1>5, <1>6

\* The settings that the parameters decide.
SameSettings ==
  /\ g'.newroot_mount = g.newroot_mount /\ g'.root_ro_status = g.root_ro_status
  /\ g'.zram_autoswap = g.zram_autoswap /\ g'.want_newroot_mount = g.want_newroot_mount
  /\ g'.real_init = g.real_init /\ g'.doshell = g.doshell

\* A call for a parameter that decides none of them.
LEMMA OtherCall ==
  ASSUME CmdlineInv, pc = "arg", k <= Len(argv), KeepGoing \/ NextArg,
         Arg.key \notin {"stagedive", "root", "rootfstype", "rootfsflags", "rootflags", "ro",
            "rw", "zram_swap", "norootmount", "liram", "liram_x", "init", "real_init", "xshell"},
         SameSettings, Mountable(g'), g'.want = g.want,
         Arg.key = "nousrmount" => IsFalse(g'.want_newroot_usr_mount),
         IsFalse(g.want_newroot_usr_mount) => IsFalse(g'.want_newroot_usr_mount)
  PROVE  CmdlineInv'
<1>1. /\ UNCHANGED << argv, pc, peeked, complete, mounted >>
      /\ Moves(k, iter, k', iter') /\ Where(argv, k', iter')
  BY Going, Leaves
<1>2. /\ k \notin RootAt(argv) /\ k \notin TypeAt(argv) /\ k \notin FlagsAt(argv)
      /\ k \notin RoAt(argv) /\ k \notin SwapAt(argv) /\ k \notin WantAt(argv)
  BY AtCall, Says DEF Arg
<1>3. /\ AtLeaving(RootAt(argv), RootSays(argv), k, k', g.newroot_mount.source, g'.newroot_mount.source)
      /\ AtLeaving(TypeAt(argv), TypeSays(argv), k, k', g.newroot_mount.fstype, g'.newroot_mount.fstype)
      /\ AtLeaving(FlagsAt(argv), FlagsSay(argv), k, k', g.newroot_mount.flags, g'.newroot_mount.flags)
  BY <1>2 DEF AtLeaving, SameSettings
<1>4. /\ AtLeaving(RoAt(argv), RoSays(argv), k, k', IsFalse(g.root_ro_status), IsFalse(g'.root_ro_status))
      /\ AtStarting(SwapAt(argv), SwapSays(argv), k, iter, g.zram_autoswap, g'.zram_autoswap)
      /\ AtStarting(WantAt(argv), WantSays(argv), k, iter, ~IsFalse(g.want_newroot_mount),
                    ~IsFalse(g'.want_newroot_mount))
  BY <1>2 DEF AtLeaving, AtStarting, SameSettings
<1>5. InitSoFar(argv, k', iter', g'.real_init)
  <2>1. InitSoFar(argv, k, iter, g.real_init)
    BY AtCall DEF SoFar
  <2> QED
    BY <1>1, <2>1, AtCall, InitKept DEF Arg, SameSettings
<1>6. ShellSoFar(argv, k', iter', g'.doshell)
  <2>1. ShellSoFar(argv, k, iter, g.doshell)
    BY AtCall DEF SoFar
  <2> QED
    BY <1>1, <2>1, AtCall, ShellKept DEF Arg, SameSettings
<1>7. SoFar(argv, k', iter', g')
  BY <1>1, <1>3, <1>4, <1>5, <1>6, AtCall, Advance DEF Arg
<1> QED
  BY <1>1, <1>7, WellCalledKeeps DEF WellCalled

\* The globals with other mounts are still a struct.
LEMMA MountableSame ==
  ASSUME NEW gg, NEW gg2, Mountable(gg), IsGlobals(gg2),
         gg2.newroot_mount = gg.newroot_mount, gg2.newroot_usr_mount = gg.newroot_usr_mount
  PROVE  Mountable(gg2)
BY DEF Mountable

\* A parameter that is of no concern to /init settles nothing.
LEMMA DontCareKeeps ==
  ASSUME CmdlineInv, DontCare
  PROVE  CmdlineInv'
<1>1. pc = "arg" /\ k <= Len(argv) /\ g' = g /\ KeepGoing
  BY DEF DontCare
<1>2. Mountable(g)
  BY <1>1, AtCall
<1> QED
  BY <1>1, <1>2, OtherCall DEF SameSettings, DontCare

\* modprobe= settles none of the settings.
LEMMA ModprobeKeeps ==
  ASSUME CmdlineInv, Modprobe
  PROVE  CmdlineInv'
<1>1. pc = "arg" /\ k <= Len(argv) /\ KeepGoing /\ Arg.key \in {"modprobe", "load_modules"}
  BY DEF Modprobe, Called
<1>2. Mountable(g) /\ IsGlobals(g)
  BY <1>1, AtCall DEF Mountable
<1>3. PICK v : g' = [g EXCEPT !.load_modules = v] \/ g' = g
  BY DEF Modprobe
<1>4. SameSettings /\ g'.want = g.want /\ g'.newroot_usr_mount = g.newroot_usr_mount
      /\ g'.want_newroot_usr_mount = g.want_newroot_usr_mount /\ IsGlobals(g')
  BY <1>2, <1>3 DEF SameSettings, IsGlobals
<1>5. Mountable(g')
  BY <1>2, <1>4, MountableSame DEF SameSettings
<1> QED
  BY <1>1, <1>4, <1>5, OtherCall

\* rootfind= settles none of the settings.
LEMMA RootfindKeeps ==
  ASSUME CmdlineInv, Rootfind
  PROVE  CmdlineInv'
<1>1. pc = "arg" /\ k <= Len(argv) /\ KeepGoing /\ Arg.key = "rootfind"
  BY DEF Rootfind, Called
<1>2. Mountable(g) /\ IsGlobals(g)
  BY <1>1, AtCall DEF Mountable
<1>3. PICK v : g' = [g EXCEPT !.rootfind_delay = v]
  BY DEF Rootfind
<1>4. SameSettings /\ g'.want = g.want /\ g'.newroot_usr_mount = g.newroot_usr_mount
      /\ g'.want_newroot_usr_mount = g.want_newroot_usr_mount /\ IsGlobals(g')
  BY <1>2, <1>3 DEF SameSettings, IsGlobals
<1>5. Mountable(g')
  BY <1>2, <1>4, MountableSame DEF SameSettings
<1> QED
  BY <1>1, <1>4, <1>5, OtherCall

\* nousrmount rules out /usr for good.
LEMMA NoUsrMountKeeps ==
  ASSUME CmdlineInv, NoUsrMount
  PROVE  CmdlineInv'
<1>1. pc = "arg" /\ k <= Len(argv) /\ KeepGoing /\ Arg.key = "nousrmount"
  BY DEF NoUsrMount, Called
<1>2. Mountable(g) /\ IsGlobals(g)
  BY <1>1, AtCall DEF Mountable
<1>3. g' = [g EXCEPT !.want_newroot_usr_mount = False]
  BY DEF NoUsrMount
<1>4. SameSettings /\ g'.want = g.want /\ g'.newroot_usr_mount = g.newroot_usr_mount
      /\ g'.want_newroot_usr_mount = False /\ IsGlobals(g')
  BY <1>2, <1>3 DEF SameSettings, IsGlobals
<1>5. Mountable(g')
  BY <1>2, <1>4, MountableSame DEF SameSettings
<1>6. IsFalse(g'.want_newroot_usr_mount)
  BY <1>4 DEF IsFalse, False
<1> QED
  BY <1>1, <1>4, <1>5, <1>6, OtherCall

\* A failed call ends it all.
LEMMA FailKeeps ==
  ASSUME CmdlineInv, pc = "arg", Fail, g' = g
  PROVE  CmdlineInv'
<1>1. ~complete /\ mounted = << >>
  BY DEF CmdlineInv
<1>2. /\ argv' = argv /\ pc' = "failed" /\ g' = g /\ complete' = complete
      /\ mounted' = mounted /\ peeked' = peeked
  BY DEF Fail
<1>3. MountsDone(mounted', g')
  BY <1>1, <1>2 DEF MountsDone
<1> QED
  BY <1>1, <1>2, <1>3 DEF CmdlineInv

\* zram_disk= settles none of the settings, and may end it all.
LEMMA ZramDiskKeeps ==
  ASSUME CmdlineInv, ZramDisk
  PROVE  CmdlineInv'
<1>1. pc = "arg" /\ k <= Len(argv) /\ Arg.key \in {"zram_disk", "zdisk"}
  BY DEF ZramDisk, Called
<1>2. Mountable(g) /\ IsGlobals(g)
  BY <1>1, AtCall DEF Mountable
<1>3. CASE g' = g /\ Fail
  BY <1>1, <1>3, FailKeeps
<1>4. CASE KeepGoing \/ NextArg
  <2>1. PICK v : g' = [g EXCEPT !.zdisks = v] \/ g' = g
    BY DEF ZramDisk
  <2>2. SameSettings /\ g'.want = g.want /\ g'.newroot_usr_mount = g.newroot_usr_mount
        /\ g'.want_newroot_usr_mount = g.want_newroot_usr_mount /\ IsGlobals(g')
    BY <1>2, <2>1 DEF SameSettings, IsGlobals
  <2>3. Mountable(g')
    BY <1>2, <2>2, MountableSame DEF SameSettings
  <2> QED
    BY <1>1, <1>4, <2>2, <2>3, OtherCall
<1> QED
  BY <1>3, <1>4 DEF ZramDisk

\* squashed_usr= keeps the configuration of /usr mountable, and a nousrmount in force.
LEMMA SquashedUsrKeeps ==
  ASSUME CmdlineInv, SquashedUsr
  PROVE  CmdlineInv'
<1>1. pc = "arg" /\ k <= Len(argv) /\ KeepGoing /\ Arg.key = "squashed_usr"
  BY DEF SquashedUsr, Called
<1>2. Mountable(g) /\ IsGlobals(g)
  BY <1>1, AtCall DEF Mountable
<1> DEFINE usr == g.newroot_usr_mount
<1>3. \/ g' = g
      \/ \E mc : /\ g' = [g EXCEPT !.newroot_usr_mount = mc]
                 /\ \/ mc = Enable(usr, {"IS_ENABLED"})
                    \/ mc = DisableFlag(usr, {"RDONLY"}) \/ mc = EnableFlag(usr, {"RDONLY"})
                    \/ mc = [usr EXCEPT !.source = "/u.sfs"]
      \/ g' = [g EXCEPT !.want_newroot_usr_mount = Enforce(@)]
  BY DEF SquashedUsr
<1>4. CASE g' = g
  BY <1>1, <1>2, <1>4, OtherCall DEF SameSettings
<1>5. CASE g' = [g EXCEPT !.want_newroot_usr_mount = Enforce(@)]
  <2>1. PICK v : v = Enforce(g.want_newroot_usr_mount) /\ g' = [g EXCEPT !.want_newroot_usr_mount = v]
    BY <1>5
  <2>2. SameSettings /\ g'.want = g.want /\ g'.newroot_usr_mount = g.newroot_usr_mount
        /\ g'.want_newroot_usr_mount = v /\ IsGlobals(g')
    BY <1>2, <2>1 DEF SameSettings, IsGlobals
  <2>3. Mountable(g')
    BY <1>2, <2>2, MountableSame DEF SameSettings
  <2>4. IsFalse(g.want_newroot_usr_mount) => IsFalse(g'.want_newroot_usr_mount)
    BY <2>1, <2>2 DEF IsFalse, Enforce
  <2> QED
    BY <1>1, <2>2, <2>3, <2>4, OtherCall
<1>6. ASSUME NEW mc, g' = [g EXCEPT !.newroot_usr_mount = mc],
             \/ mc = Enable(usr, {"IS_ENABLED"})
             \/ mc = DisableFlag(usr, {"RDONLY"}) \/ mc = EnableFlag(usr, {"RDONLY"})
             \/ mc = [usr EXCEPT !.source = "/u.sfs"]
      PROVE  CmdlineInv'
  <2>1. SameSettings /\ g'.want = g.want /\ g'.newroot_usr_mount = mc
        /\ g'.want_newroot_usr_mount = g.want_newroot_usr_mount /\ IsGlobals(g')
    BY <1>2, <1>6 DEF SameSettings, IsGlobals
  <2>2. IsConfig(usr) /\ usr.target = "/newroot/usr" /\ usr.fstype = "squashfs" /\ usr.source # Null
    BY <1>2 DEF Mountable
  <2>3. PICK u : u = usr
    OBVIOUS
  <2>4. IsConfig(mc) /\ mc.target = u.target /\ mc.fstype = u.fstype
        /\ mc.source \in {u.source, "/u.sfs"}
    <3> HIDE DEF usr
    <3>1. IsConfig(u)
      BY <2>2, <2>3
    <3>2. PICK c, f : mc = [u EXCEPT !.cfg = c] \/ mc = [u EXCEPT !.flags = f]
                      \/ mc = [u EXCEPT !.source = "/u.sfs"]
      BY <1>6, <2>3 DEF Enable, EnableFlag, DisableFlag
    <3> QED
      BY <3>1, <3>2 DEF IsConfig
  <2>5. Mountable(g')
    BY <1>2, <2>1, <2>2, <2>3, <2>4 DEF Mountable, SameSettings, Null
  <2> QED
    BY <1>1, <2>1, <2>5, OtherCall
<1> QED
  BY <1>3, <1>4, <1>5, <1>6

\* A call for a parameter that decides how the root file system is mounted, or
\* the swap space.
LEMMA MainCall ==
  ASSUME CmdlineInv, pc = "arg", k <= Len(argv), Moves(k, iter, k', iter'), Where(argv, k', iter'),
         UNCHANGED << argv, pc, peeked, complete, mounted >>,
         Arg.key \notin {"init", "real_init", "xshell", "nousrmount"},
         g'.real_init = g.real_init, g'.doshell = g.doshell, g'.want = g.want,
         g'.want_newroot_usr_mount = g.want_newroot_usr_mount, Mountable(g'),
         AtLeaving(RootAt(argv), RootSays(argv), k, k', g.newroot_mount.source, g'.newroot_mount.source),
         AtLeaving(TypeAt(argv), TypeSays(argv), k, k', g.newroot_mount.fstype, g'.newroot_mount.fstype),
         AtLeaving(FlagsAt(argv), FlagsSay(argv), k, k', g.newroot_mount.flags, g'.newroot_mount.flags),
         AtLeaving(RoAt(argv), RoSays(argv), k, k', IsFalse(g.root_ro_status), IsFalse(g'.root_ro_status)),
         AtStarting(SwapAt(argv), SwapSays(argv), k, iter, g.zram_autoswap, g'.zram_autoswap),
         AtStarting(WantAt(argv), WantSays(argv), k, iter, ~IsFalse(g.want_newroot_mount),
                    ~IsFalse(g'.want_newroot_mount))
  PROVE  CmdlineInv'
<1>1. InitSoFar(argv, k', iter', g'.real_init)
  <2>1. InitSoFar(argv, k, iter, g.real_init)
    BY AtCall DEF SoFar
  <2> QED
    BY <2>1, AtCall, InitKept DEF Arg
<1>2. ShellSoFar(argv, k', iter', g'.doshell)
  <2>1. ShellSoFar(argv, k, iter, g.doshell)
    BY AtCall DEF SoFar
  <2> QED
    BY <2>1, AtCall, ShellKept DEF Arg
<1>3. SoFar(argv, k', iter', g')
  BY <1>1, <1>2, AtCall, Advance DEF Arg
<1> QED
  BY <1>3, WellCalledKeeps DEF WellCalled

\* ro and rw settle whether the root file system is writable.
LEMMA RoRwKeeps ==
  ASSUME CmdlineInv, RoRw
  PROVE  CmdlineInv'
<1>1. pc = "arg" /\ k <= Len(argv) /\ NextArg /\ Arg.key \in {"ro", "rw"}
  BY DEF RoRw, Called
<1>2. Mountable(g) /\ IsGlobals(g)
  BY <1>1, AtCall DEF Mountable
<1>3. PICK v : v = (IF Arg.key = "ro" THEN True ELSE False) /\ g' = [g EXCEPT !.root_ro_status = v]
  BY DEF RoRw
<1>4. /\ g'.real_init = g.real_init /\ g'.doshell = g.doshell /\ g'.want = g.want
      /\ g'.want_newroot_usr_mount = g.want_newroot_usr_mount
      /\ g'.newroot_mount = g.newroot_mount /\ g'.newroot_usr_mount = g.newroot_usr_mount
      /\ g'.zram_autoswap = g.zram_autoswap /\ g'.want_newroot_mount = g.want_newroot_mount
      /\ g'.root_ro_status = v /\ IsGlobals(g')
  BY <1>2, <1>3 DEF IsGlobals
<1>5. Mountable(g')
  BY <1>2, <1>4, MountableSame
<1>6. /\ k \notin RootAt(argv) /\ k \notin TypeAt(argv) /\ k \notin FlagsAt(argv)
      /\ k \in RoAt(argv) /\ k \notin SwapAt(argv) /\ k \notin WantAt(argv)
      /\ RoSays(argv)[k] = (Arg.key # "ro")
  BY <1>1, AtCall, Says DEF Arg
<1>7. IsFalse(v) = (Arg.key # "ro")
  BY <1>1, <1>3 DEF IsFalse, True, False
<1>8. AtLeaving(RoAt(argv), RoSays(argv), k, k', IsFalse(g.root_ro_status), IsFalse(g'.root_ro_status))
  <2>1. k' # k
    BY <1>1, AtCall, Leaves
  <2> QED
    BY <1>4, <1>6, <1>7, <2>1 DEF AtLeaving
<1>9. /\ AtLeaving(RootAt(argv), RootSays(argv), k, k', g.newroot_mount.source, g'.newroot_mount.source)
      /\ AtLeaving(TypeAt(argv), TypeSays(argv), k, k', g.newroot_mount.fstype, g'.newroot_mount.fstype)
      /\ AtLeaving(FlagsAt(argv), FlagsSay(argv), k, k', g.newroot_mount.flags, g'.newroot_mount.flags)
      /\ AtStarting(SwapAt(argv), SwapSays(argv), k, iter, g.zram_autoswap, g'.zram_autoswap)
      /\ AtStarting(WantAt(argv), WantSays(argv), k, iter, ~IsFalse(g.want_newroot_mount),
                    ~IsFalse(g'.want_newroot_mount))
  BY <1>4, <1>6 DEF AtLeaving, AtStarting
<1> QED
  BY <1>1, <1>4, <1>5, <1>8, <1>9, Leaves, MainCall

\* norootmount and liram= settle that no root file system is mounted.
LEMMA NoRootMountKeeps ==
  ASSUME CmdlineInv, NoRootMount
  PROVE  CmdlineInv'
<1>1. pc = "arg" /\ k <= Len(argv) /\ KeepGoing /\ Arg.key \in {"norootmount", "liram", "liram_x"}
  BY DEF NoRootMount, Called
<1>2. Mountable(g) /\ IsGlobals(g)
  BY <1>1, AtCall DEF Mountable
<1>3. g' = [g EXCEPT !.want_newroot_mount = False]
  BY DEF NoRootMount
<1>4. /\ g'.real_init = g.real_init /\ g'.doshell = g.doshell /\ g'.want = g.want
      /\ g'.want_newroot_usr_mount = g.want_newroot_usr_mount
      /\ g'.newroot_mount = g.newroot_mount /\ g'.newroot_usr_mount = g.newroot_usr_mount
      /\ g'.zram_autoswap = g.zram_autoswap /\ g'.want_newroot_mount = False
      /\ g'.root_ro_status = g.root_ro_status /\ IsGlobals(g')
  BY <1>2, <1>3 DEF IsGlobals
<1>5. Mountable(g')
  BY <1>2, <1>4, MountableSame
<1>6. /\ k \notin RootAt(argv) /\ k \notin TypeAt(argv) /\ k \notin FlagsAt(argv)
      /\ k \notin RoAt(argv) /\ k \notin SwapAt(argv) /\ k \in WantAt(argv)
      /\ WantSays(argv)[k] = FALSE
  BY <1>1, AtCall, Says DEF Arg
<1>7. (~IsFalse(g'.want_newroot_mount)) = FALSE
  BY <1>4 DEF IsFalse, False
<1>8. AtStarting(WantAt(argv), WantSays(argv), k, iter, ~IsFalse(g.want_newroot_mount),
                 ~IsFalse(g'.want_newroot_mount))
  BY <1>6, <1>7 DEF AtStarting
<1>9. /\ AtLeaving(RootAt(argv), RootSays(argv), k, k', g.newroot_mount.source, g'.newroot_mount.source)
      /\ AtLeaving(TypeAt(argv), TypeSays(argv), k, k', g.newroot_mount.fstype, g'.newroot_mount.fstype)
      /\ AtLeaving(FlagsAt(argv), FlagsSay(argv), k, k', g.newroot_mount.flags, g'.newroot_mount.flags)
      /\ AtLeaving(RoAt(argv), RoSays(argv), k, k', IsFalse(g.root_ro_status), IsFalse(g'.root_ro_status))
      /\ AtStarting(SwapAt(argv), SwapSays(argv), k, iter, g.zram_autoswap, g'.zram_autoswap)
  BY <1>4, <1>6 DEF AtLeaving, AtStarting
<1> QED
  BY <1>1, <1>4, <1>5, <1>8, <1>9, Going, MainCall

\* zram_swap= settles the size of the swap space in its first call.
LEMMA ZramSwapKeeps ==
  ASSUME CmdlineInv, ZramSwap
  PROVE  CmdlineInv'
<1>1. pc = "arg" /\ k <= Len(argv) /\ KeepGoing /\ Arg.key = "zram_swap"
  BY DEF ZramSwap, Called
<1>2. Mountable(g) /\ IsGlobals(g)
  BY <1>1, AtCall DEF Mountable
<1>3. PICK v : /\ v = IF AtStart THEN (IF Arg.vals = << >> THEN "guess" ELSE Arg.vals[1])
                      ELSE g.zram_autoswap
               /\ IF AtStart THEN g' = [g EXCEPT !.zram_autoswap = v] ELSE g' = g
  BY DEF ZramSwap
<1>4. /\ g'.real_init = g.real_init /\ g'.doshell = g.doshell /\ g'.want = g.want
      /\ g'.want_newroot_usr_mount = g.want_newroot_usr_mount
      /\ g'.newroot_mount = g.newroot_mount /\ g'.newroot_usr_mount = g.newroot_usr_mount
      /\ g'.zram_autoswap = v /\ g'.want_newroot_mount = g.want_newroot_mount
      /\ g'.root_ro_status = g.root_ro_status /\ IsGlobals(g')
  BY <1>2, <1>3 DEF IsGlobals
<1>5. Mountable(g')
  BY <1>2, <1>4, MountableSame
<1>6. /\ k \notin RootAt(argv) /\ k \notin TypeAt(argv) /\ k \notin FlagsAt(argv)
      /\ k \notin RoAt(argv) /\ k \in SwapAt(argv) /\ k \notin WantAt(argv)
      /\ SwapSays(argv)[k] = IF Arg.vals # << >> THEN Arg.vals[1] ELSE "guess"
  BY <1>1, AtCall, Says DEF Arg
<1>7. AtStarting(SwapAt(argv), SwapSays(argv), k, iter, g.zram_autoswap, g'.zram_autoswap)
  BY <1>1, <1>3, <1>4, <1>6, AtCall DEF AtStarting, AtStart
<1>9. /\ AtLeaving(RootAt(argv), RootSays(argv), k, k', g.newroot_mount.source, g'.newroot_mount.source)
      /\ AtLeaving(TypeAt(argv), TypeSays(argv), k, k', g.newroot_mount.fstype, g'.newroot_mount.fstype)
      /\ AtLeaving(FlagsAt(argv), FlagsSay(argv), k, k', g.newroot_mount.flags, g'.newroot_mount.flags)
      /\ AtLeaving(RoAt(argv), RoSays(argv), k, k', IsFalse(g.root_ro_status), IsFalse(g'.root_ro_status))
      /\ AtStarting(WantAt(argv), WantSays(argv), k, iter, ~IsFalse(g.want_newroot_mount),
                    ~IsFalse(g'.want_newroot_mount))
  BY <1>4, <1>6 DEF AtLeaving, AtStarting
<1> QED
  BY <1>1, <1>4, <1>5, <1>7, <1>9, Going, MainCall

\* A new configuration of the root file system.
LEMMA NewRoot ==
  ASSUME Mountable(g), NEW mc, g' = [g EXCEPT !.newroot_mount = mc],
         IsConfig(mc), mc.target = "/newroot", mc.fstype # Null, IsEnabled(mc) => mc.source # Null
  PROVE  /\ g'.real_init = g.real_init /\ g'.doshell = g.doshell /\ g'.want = g.want
         /\ g'.want_newroot_usr_mount = g.want_newroot_usr_mount
         /\ g'.newroot_mount = mc /\ g'.zram_autoswap = g.zram_autoswap
         /\ g'.want_newroot_mount = g.want_newroot_mount
         /\ g'.root_ro_status = g.root_ro_status /\ Mountable(g')
<1>1. IsGlobals(g)
  BY DEF Mountable
<1>2. /\ g'.real_init = g.real_init /\ g'.doshell = g.doshell /\ g'.want = g.want
      /\ g'.want_newroot_usr_mount = g.want_newroot_usr_mount
      /\ g'.newroot_mount = mc /\ g'.newroot_usr_mount = g.newroot_usr_mount
      /\ g'.zram_autoswap = g.zram_autoswap /\ g'.want_newroot_mount = g.want_newroot_mount
      /\ g'.root_ro_status = g.root_ro_status /\ IsGlobals(g')
  BY <1>1 DEF IsGlobals
<1> QED
  BY <1>2 DEF Mountable

\* root= settles the source at its first value, and enables the mount.
LEMMA RootKeeps ==
  ASSUME CmdlineInv, Root
  PROVE  CmdlineInv'
<1>1. pc = "arg" /\ k <= Len(argv) /\ Arg.key = "root"
  BY DEF Root, Called
<1>2. Mountable(g) /\ IsGlobals(g)
  BY <1>1, AtCall DEF Mountable
<1>3. /\ k \notin TypeAt(argv) /\ k \notin FlagsAt(argv)
      /\ k \notin RoAt(argv) /\ k \notin SwapAt(argv) /\ k \notin WantAt(argv)
      /\ k \in RootAt(argv) <=> Arg.vals # << >>
      /\ RootSays(argv)[k] = Arg.vals[1]
  BY <1>1, AtCall, Says DEF Arg
<1>4. CASE AtValue
  <2>0. NextArg /\ g' = [g EXCEPT !.newroot_mount = Enable([@ EXCEPT !.source = Value], {"IS_ENABLED"})]
    BY <1>4 DEF Root
  <2>1. PICK mc : /\ mc = Enable([g.newroot_mount EXCEPT !.source = Value], {"IS_ENABLED"})
                  /\ g' = [g EXCEPT !.newroot_mount = mc]
    BY <2>0
  <2>2. iter = 1 /\ Value = Arg.vals[1] /\ Arg.vals # << >> /\ Value # Null
    <3>1. iter <= 1 /\ iter \in 1..Len(Arg.vals)
      BY <1>1, <1>4, AtCall DEF Where, Arg, AtValue
    <3>2. iter = 1 /\ 1 \in DOMAIN Arg.vals
      BY <1>1, <3>1, AtCall
    <3> QED
      BY <1>1, <3>2, AtCall, ArgsAssumption DEF Value
  <2>3. PICK old, val : old = g.newroot_mount /\ val = Value
    OBVIOUS
  <2>4. IsConfig(old) /\ old.target = "/newroot" /\ old.fstype # Null
    BY <1>2, <2>3 DEF Mountable
  <2>5. PICK c : mc = [[old EXCEPT !.source = val] EXCEPT !.cfg = c]
    BY <2>1, <2>3 DEF Enable
  <2>6. /\ IsConfig(mc) /\ mc.target = old.target /\ mc.fstype = old.fstype
        /\ mc.flags = old.flags /\ mc.source = val
    BY <2>4, <2>5 DEF IsConfig
  <2>7. /\ g'.real_init = g.real_init /\ g'.doshell = g.doshell /\ g'.want = g.want
        /\ g'.want_newroot_usr_mount = g.want_newroot_usr_mount
        /\ g'.newroot_mount = mc /\ g'.zram_autoswap = g.zram_autoswap
        /\ g'.want_newroot_mount = g.want_newroot_mount
        /\ g'.root_ro_status = g.root_ro_status /\ Mountable(g')
    BY <1>2, <2>1, <2>2, <2>3, <2>4, <2>6, NewRoot
  <2>8. k' = k + 1 /\ k' # k
    BY <1>1, <2>0, AtCall, Leaves
  <2>9. AtLeaving(RootAt(argv), RootSays(argv), k, k', g.newroot_mount.source, g'.newroot_mount.source)
    BY <1>3, <2>2, <2>3, <2>6, <2>7, <2>8 DEF AtLeaving
  <2>10. /\ AtLeaving(TypeAt(argv), TypeSays(argv), k, k', g.newroot_mount.fstype, g'.newroot_mount.fstype)
         /\ AtLeaving(FlagsAt(argv), FlagsSay(argv), k, k', g.newroot_mount.flags, g'.newroot_mount.flags)
         /\ AtLeaving(RoAt(argv), RoSays(argv), k, k', IsFalse(g.root_ro_status), IsFalse(g'.root_ro_status))
         /\ AtStarting(SwapAt(argv), SwapSays(argv), k, iter, g.zram_autoswap, g'.zram_autoswap)
         /\ AtStarting(WantAt(argv), WantSays(argv), k, iter, ~IsFalse(g.want_newroot_mount),
                       ~IsFalse(g'.want_newroot_mount))
    BY <1>3, <2>3, <2>6, <2>7 DEF AtLeaving, AtStarting
  <2> QED
    BY <1>1, <2>0, <2>7, <2>9, <2>10, Leaves, MainCall
<1>5. CASE ~AtValue
  <2>1. KeepGoing /\ g' = g
    BY <1>5 DEF Root
  <2>2. k' = k \/ k \notin RootAt(argv)
    <3>1. SUFFICES ASSUME k' # k PROVE Arg.vals = << >>
      BY <1>3
    <3>2. AtEnd
      BY <1>1, <1>5, <2>1, <3>1, Going
    <3>3. iter <= 1
      BY <1>1, AtCall DEF Where, Arg
    <3> QED
      BY <1>1, <3>2, <3>3, AtCall DEF AtEnd
  <2>3. /\ AtLeaving(RootAt(argv), RootSays(argv), k, k', g.newroot_mount.source, g'.newroot_mount.source)
        /\ AtLeaving(TypeAt(argv), TypeSays(argv), k, k', g.newroot_mount.fstype, g'.newroot_mount.fstype)
        /\ AtLeaving(FlagsAt(argv), FlagsSay(argv), k, k', g.newroot_mount.flags, g'.newroot_mount.flags)
        /\ AtLeaving(RoAt(argv), RoSays(argv), k, k', IsFalse(g.root_ro_status), IsFalse(g'.root_ro_status))
        /\ AtStarting(SwapAt(argv), SwapSays(argv), k, iter, g.zram_autoswap, g'.zram_autoswap)
        /\ AtStarting(WantAt(argv), WantSays(argv), k, iter, ~IsFalse(g.want_newroot_mount),
                      ~IsFalse(g'.want_newroot_mount))
    BY <1>3, <2>1, <2>2 DEF AtLeaving, AtStarting
  <2> QED
    BY <1>1, <1>2, <1>5, <2>1, <2>3, Going, MainCall
<1> QED
  BY <1>4, <1>5

\* rootfstype= settles the type at its first value.
LEMMA RootfstypeKeeps ==
  ASSUME CmdlineInv, Rootfstype
  PROVE  CmdlineInv'
<1>1. pc = "arg" /\ k <= Len(argv) /\ Arg.key = "rootfstype"
  BY DEF Rootfstype, Called
<1>2. Mountable(g) /\ IsGlobals(g)
  BY <1>1, AtCall DEF Mountable
<1>3. /\ k \notin RootAt(argv) /\ k \notin FlagsAt(argv)
      /\ k \notin RoAt(argv) /\ k \notin SwapAt(argv) /\ k \notin WantAt(argv)
      /\ k \in TypeAt(argv) <=> Arg.vals # << >>
      /\ TypeSays(argv)[k] = Arg.vals[1]
  BY <1>1, AtCall, Says DEF Arg
<1>4. CASE AtValue
  <2>0. NextArg /\ g' = [g EXCEPT !.newroot_mount.fstype = Value]
    BY <1>4 DEF Rootfstype
  <2>1. PICK mc : /\ mc = [g.newroot_mount EXCEPT !.fstype = Value]
                  /\ g' = [g EXCEPT !.newroot_mount = mc]
    BY <2>0
  <2>2. iter = 1 /\ Value = Arg.vals[1] /\ Arg.vals # << >> /\ Value # Null
    <3>1. iter <= 1 /\ iter \in 1..Len(Arg.vals)
      BY <1>1, <1>4, AtCall DEF Where, Arg, AtValue
    <3>2. iter = 1 /\ 1 \in DOMAIN Arg.vals
      BY <1>1, <3>1, AtCall
    <3> QED
      BY <1>1, <3>2, AtCall, ArgsAssumption DEF Value
  <2>3. PICK old, val : old = g.newroot_mount /\ val = Value
    OBVIOUS
  <2>4. /\ IsConfig(old) /\ old.target = "/newroot"
        /\ IsEnabled(old) => old.source # Null
    BY <1>2, <2>3 DEF Mountable
  <2>5. mc = [old EXCEPT !.fstype = val]
    BY <2>1, <2>3
  <2>6. /\ IsConfig(mc) /\ mc.target = old.target /\ mc.fstype = val
        /\ mc.flags = old.flags /\ mc.source = old.source /\ mc.cfg = old.cfg
    BY <2>4, <2>5 DEF IsConfig
  <2>7. /\ g'.real_init = g.real_init /\ g'.doshell = g.doshell /\ g'.want = g.want
        /\ g'.want_newroot_usr_mount = g.want_newroot_usr_mount
        /\ g'.newroot_mount = mc /\ g'.zram_autoswap = g.zram_autoswap
        /\ g'.want_newroot_mount = g.want_newroot_mount
        /\ g'.root_ro_status = g.root_ro_status /\ Mountable(g')
    BY <1>2, <2>1, <2>2, <2>3, <2>4, <2>6, NewRoot DEF IsEnabled
  <2>8. k' = k + 1 /\ k' # k
    BY <1>1, <2>0, AtCall, Leaves
  <2>9. AtLeaving(TypeAt(argv), TypeSays(argv), k, k', g.newroot_mount.fstype, g'.newroot_mount.fstype)
    BY <1>3, <2>2, <2>3, <2>6, <2>7, <2>8 DEF AtLeaving
  <2>10. /\ AtLeaving(RootAt(argv), RootSays(argv), k, k', g.newroot_mount.source, g'.newroot_mount.source)
         /\ AtLeaving(FlagsAt(argv), FlagsSay(argv), k, k', g.newroot_mount.flags, g'.newroot_mount.flags)
         /\ AtLeaving(RoAt(argv), RoSays(argv), k, k', IsFalse(g.root_ro_status), IsFalse(g'.root_ro_status))
         /\ AtStarting(SwapAt(argv), SwapSays(argv), k, iter, g.zram_autoswap, g'.zram_autoswap)
         /\ AtStarting(WantAt(argv), WantSays(argv), k, iter, ~IsFalse(g.want_newroot_mount),
                       ~IsFalse(g'.want_newroot_mount))
    BY <1>3, <2>3, <2>6, <2>7 DEF AtLeaving, AtStarting
  <2> QED
    BY <1>1, <2>0, <2>7, <2>9, <2>10, Leaves, MainCall
<1>5. CASE ~AtValue
  <2>1. KeepGoing /\ g' = g
    BY <1>5 DEF Rootfstype
  <2>2. k' = k \/ k \notin TypeAt(argv)
    <3>1. SUFFICES ASSUME k' # k PROVE Arg.vals = << >>
      BY <1>3
    <3>2. AtEnd
      BY <1>1, <1>5, <2>1, <3>1, Going
    <3>3. iter <= 1
      BY <1>1, AtCall DEF Where, Arg
    <3> QED
      BY <1>1, <3>2, <3>3, AtCall DEF AtEnd
  <2>3. /\ AtLeaving(RootAt(argv), RootSays(argv), k, k', g.newroot_mount.source, g'.newroot_mount.source)
        /\ AtLeaving(TypeAt(argv), TypeSays(argv), k, k', g.newroot_mount.fstype, g'.newroot_mount.fstype)
        /\ AtLeaving(FlagsAt(argv), FlagsSay(argv), k, k', g.newroot_mount.flags, g'.newroot_mount.flags)
        /\ AtLeaving(RoAt(argv), RoSays(argv), k, k', IsFalse(g.root_ro_status), IsFalse(g'.root_ro_status))
        /\ AtStarting(SwapAt(argv), SwapSays(argv), k, iter, g.zram_autoswap, g'.zram_autoswap)
        /\ AtStarting(WantAt(argv), WantSays(argv), k, iter, ~IsFalse(g.want_newroot_mount),
                      ~IsFalse(g'.want_newroot_mount))
    BY <1>3, <2>1, <2>2 DEF AtLeaving, AtStarting
  <2> QED
    BY <1>1, <1>2, <1>5, <2>1, <2>3, Going, MainCall
<1> QED
  BY <1>4, <1>5

\* rootfsflags= settles the flags in its first call, or ends it all.
LEMMA RootfsflagsKeeps ==
  ASSUME CmdlineInv, Rootfsflags
  PROVE  CmdlineInv'
<1>1. pc = "arg" /\ k <= Len(argv) /\ Arg.key \in {"rootfsflags", "rootflags"}
  BY DEF Rootfsflags, Called
<1>2. Mountable(g) /\ IsGlobals(g)
  BY <1>1, AtCall DEF Mountable
<1>3. CASE g' = g /\ Fail
  BY <1>1, <1>3, FailKeeps
<1>4. ASSUME NextArg, NEW fl, NEW op, fl = FlagsOf(Arg.vals),
             NEW mc, mc = [[g.newroot_mount EXCEPT !.flags = fl] EXCEPT !.opts = op],
             g' = [g EXCEPT !.newroot_mount = mc]
      PROVE  CmdlineInv'
  <2>1. PICK old : old = g.newroot_mount
    OBVIOUS
  <2>2. /\ IsConfig(old) /\ old.target = "/newroot" /\ old.fstype # Null
        /\ IsEnabled(old) => old.source # Null
    BY <1>2, <2>1 DEF Mountable
  <2>3. mc = [[old EXCEPT !.flags = fl] EXCEPT !.opts = op]
    BY <1>4, <2>1
  <2>4. /\ IsConfig(mc) /\ mc.target = old.target /\ mc.fstype = old.fstype
        /\ mc.flags = fl /\ mc.source = old.source /\ mc.cfg = old.cfg
    BY <2>2, <2>3 DEF IsConfig
  <2>5. /\ g'.real_init = g.real_init /\ g'.doshell = g.doshell /\ g'.want = g.want
        /\ g'.want_newroot_usr_mount = g.want_newroot_usr_mount
        /\ g'.newroot_mount = mc /\ g'.zram_autoswap = g.zram_autoswap
        /\ g'.want_newroot_mount = g.want_newroot_mount
        /\ g'.root_ro_status = g.root_ro_status /\ Mountable(g')
    BY <1>2, <1>4, <2>2, <2>4, NewRoot DEF IsEnabled
  <2>6. /\ k \notin RootAt(argv) /\ k \notin TypeAt(argv)
        /\ k \notin RoAt(argv) /\ k \notin SwapAt(argv) /\ k \notin WantAt(argv)
        /\ k \in FlagsAt(argv) /\ FlagsSay(argv)[k] = FlagsOf(Arg.vals)
    BY <1>1, AtCall, Says DEF Arg
  <2>7. k' # k
    BY <1>1, <1>4, AtCall, Leaves
  <2>8. AtLeaving(FlagsAt(argv), FlagsSay(argv), k, k', g.newroot_mount.flags, g'.newroot_mount.flags)
    BY <1>4, <2>4, <2>5, <2>6, <2>7 DEF AtLeaving
  <2>9. /\ AtLeaving(RootAt(argv), RootSays(argv), k, k', g.newroot_mount.source, g'.newroot_mount.source)
        /\ AtLeaving(TypeAt(argv), TypeSays(argv), k, k', g.newroot_mount.fstype, g'.newroot_mount.fstype)
        /\ AtLeaving(RoAt(argv), RoSays(argv), k, k', IsFalse(g.root_ro_status), IsFalse(g'.root_ro_status))
        /\ AtStarting(SwapAt(argv), SwapSays(argv), k, iter, g.zram_autoswap, g'.zram_autoswap)
        /\ AtStarting(WantAt(argv), WantSays(argv), k, iter, ~IsFalse(g.want_newroot_mount),
                      ~IsFalse(g'.want_newroot_mount))
    BY <2>1, <2>4, <2>5, <2>6 DEF AtLeaving, AtStarting
  <2> QED
    BY <1>1, <1>4, <2>5, <2>8, <2>9, Leaves, MainCall
<1>5. CASE /\ Arg.vals = << >> /\ NextArg
           /\ g' = [g EXCEPT !.newroot_mount.opts = NullOpts, !.newroot_mount.flags = {}]
  <2>1. PICK mc, old : /\ old = g.newroot_mount
                       /\ mc = [[old EXCEPT !.opts = NullOpts] EXCEPT !.flags = {}]
    OBVIOUS
  <2>2. g' = [g EXCEPT !.newroot_mount = mc]
    BY <1>2, <1>5, <2>1 DEF IsGlobals
  <2>3. IsConfig(old)
    BY <1>2, <2>1 DEF Mountable
  <2>4. mc = [[old EXCEPT !.flags = {}] EXCEPT !.opts = NullOpts]
    BY <2>1, <2>3 DEF IsConfig
  <2>5. FlagsOf(Arg.vals) = {}
    BY <1>5 DEF FlagsOf
  <2>6. PICK fl, op : fl = {} /\ op = NullOpts
    OBVIOUS
  <2>7. fl = FlagsOf(Arg.vals) /\ mc = [[g.newroot_mount EXCEPT !.flags = fl] EXCEPT !.opts = op]
    BY <2>1, <2>4, <2>5, <2>6
  <2>8. NextArg
    BY <1>5
  <2> QED
    BY <1>4, <2>2, <2>7, <2>8
<1>6. CASE /\ NextArg
           /\ g' = [g EXCEPT !.newroot_mount = AssignOpts(@, Arg.vals)]
  <2>1. PICK fl, op : fl = ParseMountOpts(Arg.vals).flags /\ op = ParseMountOpts(Arg.vals).opts
    OBVIOUS
  <2>2. fl = FlagsOf(Arg.vals)
    BY <1>1, <2>1, AtCall, ParseFlags
  <2>3. PICK mc : mc = [g.newroot_mount EXCEPT !.flags = fl, !.opts = op]
    OBVIOUS
  <2>4. g' = [g EXCEPT !.newroot_mount = mc]
    BY <1>6, <2>1, <2>3 DEF AssignOpts
  <2>5. mc = [[g.newroot_mount EXCEPT !.flags = fl] EXCEPT !.opts = op]
    BY <2>3
  <2> QED
    BY <1>4, <1>6, <2>2, <2>4, <2>5
<1> QED
  BY <1>3, <1>5, <1>6 DEF Rootfsflags

\* stagedive settles source, type, writability and the wish for a root mount.
LEMMA StagediveKeeps ==
  ASSUME CmdlineInv, Stagedive
  PROVE  CmdlineInv'
<1>1. pc = "arg" /\ k <= Len(argv) /\ NextArg /\ Arg.key = "stagedive"
  BY DEF Stagedive, Called
<1>2. Mountable(g) /\ IsGlobals(g)
  BY <1>1, AtCall DEF Mountable
<1>3. PICK mc, old, ro, want :
        /\ old = g.newroot_mount /\ ro = False /\ want = True
        /\ mc = Enable([old EXCEPT !.source = "zroot", !.fstype = "zdisk", !.opts = NullOpts],
                       {"IS_ENABLED"})
        /\ g' = [g EXCEPT !.newroot_mount = mc, !.root_ro_status = ro, !.want_newroot_mount = want]
  BY DEF Stagedive
<1>4. IsConfig(old) /\ old.target = "/newroot"
  BY <1>2, <1>3 DEF Mountable
<1>5. PICK c : mc = [[old EXCEPT !.source = "zroot", !.fstype = "zdisk", !.opts = NullOpts]
                       EXCEPT !.cfg = c]
  BY <1>3 DEF Enable
<1>6. /\ IsConfig(mc) /\ mc.target = old.target /\ mc.fstype = "zdisk"
      /\ mc.flags = old.flags /\ mc.source = "zroot"
  BY <1>4, <1>5 DEF IsConfig
<1>7. /\ g'.real_init = g.real_init /\ g'.doshell = g.doshell /\ g'.want = g.want
      /\ g'.want_newroot_usr_mount = g.want_newroot_usr_mount
      /\ g'.newroot_mount = mc /\ g'.newroot_usr_mount = g.newroot_usr_mount
      /\ g'.zram_autoswap = g.zram_autoswap
      /\ g'.want_newroot_mount = want /\ g'.root_ro_status = ro /\ IsGlobals(g')
  BY <1>2, <1>3 DEF IsGlobals
<1>8. Mountable(g')
  BY <1>2, <1>4, <1>6, <1>7 DEF Mountable, Null
<1>9. /\ k \in RootAt(argv) /\ k \in TypeAt(argv) /\ k \notin FlagsAt(argv)
      /\ k \in RoAt(argv) /\ k \notin SwapAt(argv) /\ k \in WantAt(argv)
      /\ RootSays(argv)[k] = "zroot" /\ TypeSays(argv)[k] = "zdisk"
      /\ RoSays(argv)[k] = TRUE /\ WantSays(argv)[k] = TRUE
  BY <1>1, AtCall, Says DEF Arg
<1>10. k' # k
  BY <1>1, AtCall, Leaves
<1>11. IsFalse(g'.root_ro_status) = TRUE /\ (~IsFalse(g'.want_newroot_mount)) = TRUE
  BY <1>3, <1>7 DEF IsFalse, True, False
<1>12. AtLeaving(RootAt(argv), RootSays(argv), k, k', g.newroot_mount.source, g'.newroot_mount.source)
  BY <1>6, <1>7, <1>9, <1>10 DEF AtLeaving
<1>13. AtLeaving(TypeAt(argv), TypeSays(argv), k, k', g.newroot_mount.fstype, g'.newroot_mount.fstype)
  BY <1>6, <1>7, <1>9, <1>10 DEF AtLeaving
<1>14. AtLeaving(FlagsAt(argv), FlagsSay(argv), k, k', g.newroot_mount.flags, g'.newroot_mount.flags)
  BY <1>3, <1>6, <1>7, <1>9 DEF AtLeaving
<1>15. AtLeaving(RoAt(argv), RoSays(argv), k, k', IsFalse(g.root_ro_status), IsFalse(g'.root_ro_status))
  BY <1>9, <1>10, <1>11 DEF AtLeaving
<1>16. AtStarting(SwapAt(argv), SwapSays(argv), k, iter, g.zram_autoswap, g'.zram_autoswap)
  BY <1>7, <1>9 DEF AtStarting
<1>17. AtStarting(WantAt(argv), WantSays(argv), k, iter, ~IsFalse(g.want_newroot_mount),
                  ~IsFalse(g'.want_newroot_mount))
  BY <1>9, <1>11 DEF AtStarting
<1> QED
  BY <1>1, <1>7, <1>8, <1>12, <1>13, <1>14, <1>15, <1>16, <1>17, Leaves, MainCall

\* A call for a parameter that decides neither of these.
LEMMA InitOrShellCall ==
  ASSUME CmdlineInv, pc = "arg", k <= Len(argv), KeepGoing,
         Arg.key \in {"init", "real_init", "xshell"},
         g'.newroot_mount = g.newroot_mount, g'.newroot_usr_mount = g.newroot_usr_mount,
         g'.root_ro_status = g.root_ro_status, g'.zram_autoswap = g.zram_autoswap,
         g'.want_newroot_mount = g.want_newroot_mount, g'.want = g.want,
         g'.want_newroot_usr_mount = g.want_newroot_usr_mount, IsGlobals(g'),
         InitSoFar(argv, k', iter', g'.real_init), ShellSoFar(argv, k', iter', g'.doshell)
  PROVE  CmdlineInv'
<1>1. /\ UNCHANGED << argv, pc, peeked, complete, mounted >>
      /\ Moves(k, iter, k', iter') /\ Where(argv, k', iter')
  BY Going
<1>2. /\ k \notin RootAt(argv) /\ k \notin TypeAt(argv) /\ k \notin FlagsAt(argv)
      /\ k \notin RoAt(argv) /\ k \notin SwapAt(argv) /\ k \notin WantAt(argv)
  BY AtCall, Says DEF Arg
<1>3. /\ AtLeaving(RootAt(argv), RootSays(argv), k, k', g.newroot_mount.source, g'.newroot_mount.source)
      /\ AtLeaving(TypeAt(argv), TypeSays(argv), k, k', g.newroot_mount.fstype, g'.newroot_mount.fstype)
      /\ AtLeaving(FlagsAt(argv), FlagsSay(argv), k, k', g.newroot_mount.flags, g'.newroot_mount.flags)
      /\ AtLeaving(RoAt(argv), RoSays(argv), k, k', IsFalse(g.root_ro_status), IsFalse(g'.root_ro_status))
      /\ AtStarting(SwapAt(argv), SwapSays(argv), k, iter, g.zram_autoswap, g'.zram_autoswap)
      /\ AtStarting(WantAt(argv), WantSays(argv), k, iter, ~IsFalse(g.want_newroot_mount),
                    ~IsFalse(g'.want_newroot_mount))
  BY <1>2 DEF AtLeaving, AtStarting
<1>4. SoFar(argv, k', iter', g')
  BY <1>1, <1>3, AtCall, Advance DEF Arg
<1>5. Mountable(g')
  BY AtCall, MountableSame
<1> QED
  BY <1>1, <1>4, <1>5, WellCalledKeeps DEF WellCalled

\* init= settles the program, value by value.
LEMMA RealInitKeeps ==
  ASSUME CmdlineInv, RealInit
  PROVE  CmdlineInv'
<1>1. pc = "arg" /\ k <= Len(argv) /\ KeepGoing /\ Arg.key \in {"init", "real_init"}
  BY DEF RealInit, Called
<1>2. Mountable(g) /\ IsGlobals(g)
  BY <1>1, AtCall DEF Mountable
<1>3. PICK v : /\ v = IF AtValue THEN Value ELSE g.real_init
               /\ IF AtValue THEN g' = [g EXCEPT !.real_init = v] ELSE g' = g
  BY DEF RealInit
<1>4. /\ g'.real_init = v /\ g'.doshell = g.doshell /\ g'.want = g.want
      /\ g'.want_newroot_usr_mount = g.want_newroot_usr_mount
      /\ g'.newroot_mount = g.newroot_mount /\ g'.newroot_usr_mount = g.newroot_usr_mount
      /\ g'.zram_autoswap = g.zram_autoswap /\ g'.want_newroot_mount = g.want_newroot_mount
      /\ g'.root_ro_status = g.root_ro_status /\ IsGlobals(g')
  BY <1>2, <1>3 DEF IsGlobals
<1>5. ShellSoFar(argv, k', iter', g'.doshell)
  <2>1. ShellSoFar(argv, k, iter, g.doshell)
    BY <1>1, AtCall DEF SoFar
  <2> QED
    BY <1>1, <1>4, <2>1, AtCall, Going, ShellKept DEF Arg
<1>6. InitSoFar(argv, k', iter', v)
  <2>0. InitSoFar(argv, k, iter, g.real_init)
    BY <1>1, AtCall DEF SoFar
  <2>1. CASE AtValue
    <3>1. k' = k /\ iter' = iter + 1 /\ iter >= 1
      BY <1>1, <2>1, AtCall DEF KeepGoing, AtEnd, AtValue
    <3>2. v = Arg.vals[iter]
      BY <1>3, <2>1 DEF Value
    <3>3. iter' > 1 /\ iter' - 1 = iter
      BY <1>1, <3>1, AtCall
    <3> QED
      BY <1>1, <3>1, <3>2, <3>3 DEF InitSoFar, Arg
  <2>2. CASE iter = 0
    <3>1. k' = k /\ iter' = 1 /\ ~AtValue
      BY <1>1, <2>2, AtCall DEF KeepGoing, AtEnd, AtValue
    <3>2. v = g.real_init
      BY <1>3, <3>1
    <3> QED
      BY <2>0, <2>2, <3>1, <3>2 DEF InitSoFar
  <2>3. CASE AtEnd
    <3>1. k' = k + 1 /\ iter' = 0 /\ iter = Len(Arg.vals) + 1 /\ ~AtValue
      BY <1>1, <2>3, AtCall DEF KeepGoing, AtEnd, AtValue
    <3>2. v = g.real_init
      BY <1>3, <3>1
    <3>3. (k + 1) - 1 = k /\ (k - 1) + 1 = k /\ k - 1 \in Nat /\ k \in Nat \ {0}
      BY <1>1, AtCall
    <3>4. Settled(InitAt(argv), InitSays(argv), Null, k, v)
      <4>1. CASE Arg.vals = << >>
        <5>1. iter = 1 /\ k \notin InitAt(argv)
          BY <3>1, <4>1 DEF InitAt, HasValue, Arg
        <5>2. Settled(InitAt(argv), InitSays(argv), Null, k - 1, v)
          BY <2>0, <3>2, <5>1 DEF InitSoFar
        <5> QED
          BY <3>3, <5>1, <5>2, SettledSkip
      <4>2. CASE Arg.vals # << >>
        <5>1. Len(Arg.vals) > 0 /\ iter > 1 /\ iter - 1 = Len(Arg.vals)
          BY <1>1, <3>1, <4>2, AtCall
        <5>2. k \in InitAt(argv) /\ InitSays(argv)[k] = Arg.vals[Len(Arg.vals)]
          BY <1>1, <4>2, AtCall DEF InitAt, InitSays, HasValue, Arg
        <5>3. v = Arg.vals[Len(Arg.vals)]
          BY <1>1, <2>0, <3>2, <5>1 DEF InitSoFar, Arg
        <5> QED
          BY <3>3, <5>2, <5>3, SettledSet
      <4> QED
        BY <4>1, <4>2
    <3> QED
      BY <3>1, <3>3, <3>4 DEF InitSoFar
  <2> QED
    BY <1>1, <2>1, <2>2, <2>3, AtCall DEF AtValue, AtEnd
<1> QED
  BY <1>1, <1>4, <1>5, <1>6, InitOrShellCall

\* xshell= settles the shells, value by value.
LEMMA XshellKeeps ==
  ASSUME CmdlineInv, Xshell
  PROVE  CmdlineInv'
<1>1. pc = "arg" /\ k <= Len(argv) /\ KeepGoing /\ Arg.key = "xshell"
  BY DEF Xshell, Called
<1>2. Mountable(g) /\ IsGlobals(g)
  BY <1>1, AtCall DEF Mountable
<1>3. PICK v : /\ v = IF AtStart THEN {"ONERROR"} \cup (IF Arg.vals = << >> THEN {"LOOP"} ELSE {})
                      ELSE IF AtEnd THEN g.doshell
                      ELSE IF Value = "never" THEN {} ELSE g.doshell \cup ShellBits(Value)
               /\ g' = [g EXCEPT !.doshell = v]
  BY DEF Xshell
<1>4. /\ g'.real_init = g.real_init /\ g'.doshell = v /\ g'.want = g.want
      /\ g'.want_newroot_usr_mount = g.want_newroot_usr_mount
      /\ g'.newroot_mount = g.newroot_mount /\ g'.newroot_usr_mount = g.newroot_usr_mount
      /\ g'.zram_autoswap = g.zram_autoswap /\ g'.want_newroot_mount = g.want_newroot_mount
      /\ g'.root_ro_status = g.root_ro_status /\ IsGlobals(g')
  BY <1>2, <1>3 DEF IsGlobals
<1>5. InitSoFar(argv, k', iter', g'.real_init)
  <2>1. InitSoFar(argv, k, iter, g.real_init)
    BY <1>1, AtCall DEF SoFar
  <2> QED
    BY <1>1, <1>4, <2>1, AtCall, Going, InitKept DEF Arg
<1>6. ShellSoFar(argv, k', iter', v)
  <2>0. ShellSoFar(argv, k, iter, g.doshell)
    BY <1>1, AtCall DEF SoFar
  <2>1. iter > 0 => g.doshell = ShellFirst(Arg.vals, iter - 1)
    BY <1>1, <2>0 DEF ShellSoFar, Arg
  <2>2. CASE AtStart
    <3>1. k' = k /\ iter' = 1 /\ iter' - 1 = 0
      BY <1>1, <2>2, AtCall DEF KeepGoing, AtEnd, AtStart
    <3>2. v = ShellFirst(Arg.vals, 0)
      <4>1. v = {"ONERROR"} \cup (IF Arg.vals = << >> THEN {"LOOP"} ELSE {})
        BY <1>3, <2>2
      <4> QED
        BY <1>1, <4>1, AtCall, ShellEnds
    <3> QED
      BY <1>1, <3>1, <3>2 DEF ShellSoFar, Arg
  <2>3. CASE AtValue
    <3>1. k' = k /\ iter' = iter + 1 /\ iter >= 1 /\ ~AtStart /\ ~AtEnd
      BY <1>1, <2>3, AtCall DEF KeepGoing, AtEnd, AtValue, AtStart
    <3>2. iter > 0 /\ iter' > 0 /\ iter' - 1 = iter /\ iter - 1 \in Nat /\ (iter - 1) + 1 = iter
          /\ iter \in 1..Len(Arg.vals)
      BY <1>1, <2>3, <3>1, AtCall DEF AtValue
    <3>3. v = IF Arg.vals[iter] = "never" THEN {}
              ELSE ShellFirst(Arg.vals, iter - 1) \cup ShellBits(Arg.vals[iter])
      BY <1>3, <2>1, <3>1, <3>2 DEF Value
    <3>4. v = ShellFirst(Arg.vals, iter)
      BY <1>1, <3>2, <3>3, AtCall, ShellOneMore
    <3> QED
      BY <1>1, <3>1, <3>2, <3>4 DEF ShellSoFar, Arg
  <2>4. CASE AtEnd
    <3>1. /\ k' = k + 1 /\ iter' = 0 /\ iter = Len(Arg.vals) + 1 /\ ~AtStart
          /\ iter > 0 /\ iter - 1 = Len(Arg.vals)
      BY <1>1, <2>4, AtCall DEF KeepGoing, AtEnd, AtStart
    <3>2. v = g.doshell
      BY <1>3, <2>4, <3>1
    <3>3. (k + 1) - 1 = k /\ k \in Nat \ {0}
      BY <1>1, AtCall
    <3>4. v = ShellOf(Arg.vals)
      BY <1>1, <2>1, <3>1, <3>2, AtCall, ShellEnds
    <3>5. k \in ShellAt(argv) /\ ShellSays(argv)[k] = ShellOf(Arg.vals)
      BY <1>1, AtCall DEF ShellAt, ShellSays, Arg
    <3>6. Settled(ShellAt(argv), ShellSays(argv), {}, k, v)
      BY <3>3, <3>4, <3>5, SettledSet
    <3> QED
      BY <3>1, <3>3, <3>6 DEF ShellSoFar
  <2> QED
    BY <1>1, <2>2, <2>3, <2>4, AtCall DEF AtValue, AtEnd, AtStart
<1> QED
  BY <1>1, <1>4, <1>5, <1>6, InitOrShellCall

-----------------------------------------------------------------------------
(* mount_config_autoset.                                                   *)

\* The updates of a configuration.
LEMMA Updated ==
  ASSUME NEW mc, IsConfig(mc), NEW B
  PROVE  /\ IsConfig(Enable(mc, B)) /\ Enable(mc, B).cfg = mc.cfg \cup B
         /\ Enable(mc, B).source = mc.source /\ Enable(mc, B).target = mc.target
         /\ Enable(mc, B).fstype = mc.fstype /\ Enable(mc, B).flags = mc.flags
         /\ Enable(mc, B).opts = mc.opts
         /\ IsConfig(EnableFlag(mc, B)) /\ EnableFlag(mc, B).cfg = mc.cfg
         /\ EnableFlag(mc, B).source = mc.source /\ EnableFlag(mc, B).target = mc.target
         /\ EnableFlag(mc, B).fstype = mc.fstype /\ EnableFlag(mc, B).flags = mc.flags \cup B
         /\ EnableFlag(mc, B).opts = mc.opts
         /\ IsConfig(DisableFlag(mc, B)) /\ DisableFlag(mc, B).cfg = mc.cfg
         /\ DisableFlag(mc, B).source = mc.source /\ DisableFlag(mc, B).target = mc.target
         /\ DisableFlag(mc, B).fstype = mc.fstype /\ DisableFlag(mc, B).flags = mc.flags \ B
         /\ DisableFlag(mc, B).opts = mc.opts
<1>1. PICK c, f, f2 : c = mc.cfg \cup B /\ f = mc.flags \cup B /\ f2 = mc.flags \ B
  OBVIOUS
<1>2. Enable(mc, B) = [mc EXCEPT !.cfg = c] /\ EnableFlag(mc, B) = [mc EXCEPT !.flags = f]
      /\ DisableFlag(mc, B) = [mc EXCEPT !.flags = f2]
  BY <1>1 DEF Enable, EnableFlag, DisableFlag
<1>3. /\ IsConfig(Enable(mc, B)) /\ Enable(mc, B).cfg = c
      /\ Enable(mc, B).source = mc.source /\ Enable(mc, B).target = mc.target
      /\ Enable(mc, B).fstype = mc.fstype /\ Enable(mc, B).flags = mc.flags
      /\ Enable(mc, B).opts = mc.opts
  BY <1>2 DEF IsConfig
<1>4. /\ IsConfig(EnableFlag(mc, B)) /\ EnableFlag(mc, B).cfg = mc.cfg
      /\ EnableFlag(mc, B).source = mc.source /\ EnableFlag(mc, B).target = mc.target
      /\ EnableFlag(mc, B).fstype = mc.fstype /\ EnableFlag(mc, B).flags = f
      /\ EnableFlag(mc, B).opts = mc.opts
  BY <1>2 DEF IsConfig
<1>5. /\ IsConfig(DisableFlag(mc, B)) /\ DisableFlag(mc, B).cfg = mc.cfg
      /\ DisableFlag(mc, B).source = mc.source /\ DisableFlag(mc, B).target = mc.target
      /\ DisableFlag(mc, B).fstype = mc.fstype /\ DisableFlag(mc, B).flags = f2
      /\ DisableFlag(mc, B).opts = mc.opts
  BY <1>2 DEF IsConfig
<1> QED
  BY <1>1, <1>3, <1>4, <1>5

\* Configurations are equal if their members are.
LEMMA SameConfig ==
  ASSUME NEW a, NEW b, IsConfig(a), IsConfig(b), a.source = b.source, a.target = b.target,
         a.fstype = b.fstype, a.flags = b.flags, a.opts = b.opts, a.cfg = b.cfg
  PROVE  a = b
BY DEF IsConfig

\* What the first switch of mount_config_autoset leaves.
TypeDone(mc) ==
  /\ mc.fstype = "auto" => "NEED_EXTERNAL" \in mc.cfg
  /\ mc.fstype = "squashfs" => {"NEED_LOOP", "NODEV"} \subseteq mc.cfg /\ "RDONLY" \in mc.flags
  /\ mc.fstype \in {"tmpfs", "devtmpfs"} => "NODEV" \in mc.cfg /\ mc.opts # NullOpts
  /\ mc.fstype \in {"nfs", "cifs"} => {"NEED_EXTERNAL", "NEED_NETWORK", "NODEV"} \subseteq mc.cfg
  /\ mc.fstype \in {"ztmpfs", "zdisk"} => "IS_ZRAM" \in mc.cfg

\* The first switch of mount_config_autoset does what is left to do for the type,
\* and nothing if that has been done.
LEMMA FstypeSwitch ==
  ASSUME NEW mc, IsConfig(mc), mc.source # Null, NEW c, c = AutosetFstype(mc)
  PROVE  /\ IsConfig(c) /\ c.source = mc.source /\ c.target = mc.target /\ c.fstype = mc.fstype
         /\ c.flags = IF mc.fstype = "squashfs" THEN mc.flags \cup {"RDONLY"} ELSE mc.flags
         /\ c.opts = mc.opts \/ (mc.opts = NullOpts /\ c.opts = << "mode=0755" >>)
         /\ IsEnabled(c) <=> IsEnabled(mc)
         /\ mc.cfg \subseteq c.cfg
         /\ TypeDone(c) /\ (TypeDone(mc) => c = mc)
<1>1. CASE mc.fstype = "auto"
  <2>1. c = Enable(mc, {"NEED_EXTERNAL"})
    BY <1>1 DEF AutosetFstype
  <2>2. /\ IsConfig(c) /\ c.cfg = mc.cfg \cup {"NEED_EXTERNAL"}
        /\ c.source = mc.source /\ c.target = mc.target /\ c.fstype = mc.fstype
        /\ c.flags = mc.flags /\ c.opts = mc.opts
    BY <2>1, Updated
  <2>3. TypeDone(mc) => c.cfg = mc.cfg
    BY <1>1, <2>2 DEF TypeDone
  <2>4. TypeDone(mc) => c = mc
    BY <2>2, <2>3, SameConfig
  <2>5. (IsEnabled(c) <=> IsEnabled(mc)) /\ mc.cfg \subseteq c.cfg /\ TypeDone(c)
    BY <1>1, <2>2 DEF TypeDone, IsEnabled
  <2> QED
    BY <1>1, <2>2, <2>4, <2>5
<1>2. CASE mc.fstype = "squashfs"
  <2>1. PICK e : e = Enable(mc, {"NEED_LOOP", "NODEV"}) /\ c = EnableFlag(e, {"RDONLY"})
    BY <1>2 DEF AutosetFstype
  <2>2. /\ IsConfig(e) /\ e.cfg = mc.cfg \cup {"NEED_LOOP", "NODEV"} /\ e.source = mc.source
        /\ e.target = mc.target /\ e.fstype = mc.fstype /\ e.flags = mc.flags /\ e.opts = mc.opts
    BY <2>1, Updated
  <2>3. /\ IsConfig(c) /\ c.cfg = e.cfg /\ c.source = e.source /\ c.target = e.target
        /\ c.fstype = e.fstype /\ c.flags = e.flags \cup {"RDONLY"} /\ c.opts = e.opts
    BY <2>1, <2>2, Updated
  <2>4. TypeDone(mc) => c.cfg = mc.cfg /\ c.flags = mc.flags
    BY <1>2, <2>2, <2>3 DEF TypeDone
  <2>5. TypeDone(mc) => c = mc
    BY <2>2, <2>3, <2>4, SameConfig
  <2> QED
    BY <1>2, <2>2, <2>3, <2>5 DEF TypeDone, IsEnabled
<1>3. CASE mc.fstype \in {"tmpfs", "devtmpfs"}
  <2>1. PICK e, op : /\ e = Enable(mc, {"NODEV"})
                     /\ op = IF e.opts = NullOpts THEN << "mode=0755" >> ELSE e.opts
                     /\ c = [e EXCEPT !.opts = op,
                                      !.source = IF @ = Null THEN "tmpfs" ELSE @]
    BY <1>3 DEF AutosetFstype
  <2>2. /\ IsConfig(e) /\ e.cfg = mc.cfg \cup {"NODEV"} /\ e.source = mc.source
        /\ e.target = mc.target /\ e.fstype = mc.fstype /\ e.flags = mc.flags /\ e.opts = mc.opts
    BY <2>1, Updated
  <2>3. c = [e EXCEPT !.opts = op]
    BY <2>1, <2>2 DEF IsConfig
  <2>4. /\ IsConfig(c) /\ c.cfg = e.cfg /\ c.source = e.source /\ c.target = e.target
        /\ c.fstype = e.fstype /\ c.flags = e.flags /\ c.opts = op
    BY <2>2, <2>3 DEF IsConfig
  <2>5. op # NullOpts /\ (op = mc.opts \/ (mc.opts = NullOpts /\ op = << "mode=0755" >>))
    <3>1. << "mode=0755" >> # NullOpts
      BY DEF NullOpts, Null
    <3> QED
      BY <2>1, <2>2, <3>1
  <2>6. TypeDone(mc) => c.cfg = mc.cfg /\ c.opts = mc.opts
    BY <1>3, <2>1, <2>2, <2>4 DEF TypeDone
  <2>7. TypeDone(mc) => c = mc
    BY <2>2, <2>4, <2>6, SameConfig
  <2> QED
    BY <1>3, <2>2, <2>4, <2>5, <2>7 DEF TypeDone, IsEnabled
<1>4. CASE mc.fstype \in {"nfs", "cifs"}
  <2>1. c = Enable(mc, {"NEED_EXTERNAL", "NEED_NETWORK", "NODEV"})
    BY <1>4 DEF AutosetFstype
  <2>2. /\ IsConfig(c) /\ c.cfg = mc.cfg \cup {"NEED_EXTERNAL", "NEED_NETWORK", "NODEV"}
        /\ c.source = mc.source /\ c.target = mc.target /\ c.fstype = mc.fstype
        /\ c.flags = mc.flags /\ c.opts = mc.opts
    BY <2>1, Updated
  <2>3. TypeDone(mc) => c.cfg = mc.cfg
    BY <1>4, <2>2 DEF TypeDone
  <2>4. TypeDone(mc) => c = mc
    BY <2>2, <2>3, SameConfig
  <2>5. (IsEnabled(c) <=> IsEnabled(mc)) /\ mc.cfg \subseteq c.cfg /\ TypeDone(c)
    BY <1>4, <2>2 DEF TypeDone, IsEnabled
  <2> QED
    BY <1>4, <2>2, <2>4, <2>5
<1>5. CASE mc.fstype \in {"ztmpfs", "zdisk"}
  <2>1. c = Enable(mc, {"IS_ZRAM"})
    BY <1>5 DEF AutosetFstype
  <2>2. /\ IsConfig(c) /\ c.cfg = mc.cfg \cup {"IS_ZRAM"}
        /\ c.source = mc.source /\ c.target = mc.target /\ c.fstype = mc.fstype
        /\ c.flags = mc.flags /\ c.opts = mc.opts
    BY <2>1, Updated
  <2>3. TypeDone(mc) => c.cfg = mc.cfg
    BY <1>5, <2>2 DEF TypeDone
  <2>4. TypeDone(mc) => c = mc
    BY <2>2, <2>3, SameConfig
  <2>5. (IsEnabled(c) <=> IsEnabled(mc)) /\ mc.cfg \subseteq c.cfg /\ TypeDone(c)
    BY <1>5, <2>2 DEF TypeDone, IsEnabled
  <2> QED
    BY <1>5, <2>2, <2>4, <2>5
<1>6. CASE mc.fstype \notin {"auto", "squashfs", "tmpfs", "devtmpfs", "nfs", "cifs", "ztmpfs", "zdisk"}
  <2>1. c = mc
    BY <1>6 DEF AutosetFstype
  <2> QED
    BY <1>6, <2>1 DEF TypeDone
<1> QED
  BY <1>1, <1>2, <1>3, <1>4, <1>5, <1>6

\* mount_config_autoset, for a configuration that has a source: it completes
\* it, and does nothing the second time.
LEMMA AutosetCompletes ==
  ASSUME NEW mc, IsConfig(mc), mc.source # Null, NEW m, m = Autoset(mc)
  PROVE  /\ IsConfig(m) /\ m.source = mc.source /\ m.target = mc.target /\ m.fstype = mc.fstype
         /\ m.flags = IF mc.fstype = "squashfs" THEN mc.flags \cup {"RDONLY"} ELSE mc.flags
         /\ m.opts = mc.opts \/ (mc.opts = NullOpts /\ m.opts = << "mode=0755" >>)
         /\ IsEnabled(m) <=> IsEnabled(mc)
         /\ Autoset(m) = m
<1>1. PICK c : c = AutosetFstype(mc)
  OBVIOUS
<1>2. /\ IsConfig(c) /\ c.source = mc.source /\ c.target = mc.target /\ c.fstype = mc.fstype
      /\ c.flags = IF mc.fstype = "squashfs" THEN mc.flags \cup {"RDONLY"} ELSE mc.flags
      /\ c.opts = mc.opts \/ (mc.opts = NullOpts /\ c.opts = << "mode=0755" >>)
      /\ IsEnabled(c) <=> IsEnabled(mc)
      /\ TypeDone(c)
  BY <1>1, FstypeSwitch
<1>3. AutosetSource(c) = c
  BY <1>2 DEF AutosetSource
<1>4. m = IF c.source \in FindfsSource THEN Enable(c, {"NEED_FINDFS"}) ELSE c
  BY <1>1, <1>3 DEF Autoset
<1>5. /\ IsConfig(m) /\ m.source = c.source /\ m.target = c.target /\ m.fstype = c.fstype
      /\ m.flags = c.flags /\ m.opts = c.opts /\ c.cfg \subseteq m.cfg
      /\ IsEnabled(m) <=> IsEnabled(c)
      /\ m.source \in FindfsSource => "NEED_FINDFS" \in m.cfg
  BY <1>2, <1>4, Updated DEF IsEnabled
<1>6. TypeDone(m)
  BY <1>2, <1>5 DEF TypeDone
<1>7. AutosetFstype(m) = m
  BY <1>2, <1>5, <1>6, FstypeSwitch
<1>8. AutosetSource(m) = m
  BY <1>2, <1>5 DEF AutosetSource
<1>9. m.source \in FindfsSource => Enable(m, {"NEED_FINDFS"}) = m
  <2>1. SUFFICES ASSUME m.source \in FindfsSource PROVE Enable(m, {"NEED_FINDFS"}) = m
    OBVIOUS
  <2>2. PICK e : e = Enable(m, {"NEED_FINDFS"})
    OBVIOUS
  <2>3. /\ IsConfig(e) /\ e.cfg = m.cfg \cup {"NEED_FINDFS"}
        /\ e.source = m.source /\ e.target = m.target /\ e.fstype = m.fstype
        /\ e.flags = m.flags /\ e.opts = m.opts
    BY <1>5, <2>2, Updated
  <2>4. e.cfg = m.cfg
    BY <1>5, <2>1, <2>3
  <2> QED
    BY <1>5, <2>2, <2>3, <2>4, SameConfig
<1>10. Autoset(m) = m
  BY <1>7, <1>8, <1>9 DEF Autoset
<1> QED
  BY <1>2, <1>5, <1>10

-----------------------------------------------------------------------------
(* Before the first argument, and after the last.                          *)

\* Before the first argument every setting has its default.
LEMMA Defaults ==
  ASSUME NEW S, NEW V, NEW d, NEW x
  PROVE  Settled(S, V, d, 0, x) <=> x = d
BY DEF Settled

Default(gg) ==
  /\ gg.newroot_mount.source = Null /\ gg.newroot_mount.fstype = "ext4"
  /\ gg.newroot_mount.flags = {} /\ IsFalse(gg.root_ro_status) = FALSE
  /\ gg.zram_autoswap = Null /\ (~IsFalse(gg.want_newroot_mount)) = TRUE
  /\ gg.real_init = Null /\ gg.doshell = {}

\* The default settings, before the first argument.
LEMMA SoFarDefault ==
  ASSUME NEW av \in Seq(Args), NEW gg
  PROVE  SoFar(av, 1, 0, gg) <=> Default(gg)
<1>1. Begun(1, 0) = 0 /\ 1 - 1 = 0
  BY DEF Begun
<1>2. \A x : InitSoFar(av, 1, 0, x) <=> x = Null
  BY <1>1, Defaults DEF InitSoFar
<1>0. PICK e : e = {}
  OBVIOUS
<1>3. \A x : ShellSoFar(av, 1, 0, x) <=> x = {}
  <2>1. \A x : Settled(ShellAt(av), ShellSays(av), e, 0, x) <=> x = e
    BY Defaults
  <2>2. \A x : ShellSoFar(av, 1, 0, x) <=> Settled(ShellAt(av), ShellSays(av), e, 0, x)
    BY <1>0, <1>1 DEF ShellSoFar
  <2> QED
    BY <1>0, <2>1, <2>2, Zenon
<1>4. \A x : UsrSoFar(av, 0, x)
  BY DEF UsrSoFar
<1>5. /\ Settled(RoAt(av), RoSays(av), FALSE, 0, IsFalse(gg.root_ro_status))
           <=> IsFalse(gg.root_ro_status) = FALSE
      /\ Settled(WantAt(av), WantSays(av), TRUE, 0, ~IsFalse(gg.want_newroot_mount))
           <=> (~IsFalse(gg.want_newroot_mount)) = TRUE
  BY DEF Settled
<1>6. /\ Settled(RootAt(av), RootSays(av), Null, 0, gg.newroot_mount.source)
           <=> gg.newroot_mount.source = Null
      /\ Settled(TypeAt(av), TypeSays(av), "ext4", 0, gg.newroot_mount.fstype)
           <=> gg.newroot_mount.fstype = "ext4"
      /\ Settled(SwapAt(av), SwapSays(av), Null, 0, gg.zram_autoswap) <=> gg.zram_autoswap = Null
  BY Defaults
<1>7. Settled(FlagsAt(av), FlagsSay(av), {}, 0, gg.newroot_mount.flags)
        <=> gg.newroot_mount.flags = {}
  <2>1. Settled(FlagsAt(av), FlagsSay(av), e, 0, gg.newroot_mount.flags)
          <=> gg.newroot_mount.flags = e
    BY Defaults
  <2> QED
    BY <1>0, <2>1, Zenon
<1> QED
  BY <1>1, <1>2, <1>3, <1>4, <1>5, <1>6, <1>7 DEF SoFar, Default

\* The invariant holds at the start.
LEMMA InitHolds ==
  ASSUME Init
  PROVE  CmdlineInv
<1>1. argv \in Seq(Args)
  <2>1. PICK n \in 0..MaxArgs : argv \in [1..n -> Args]
    BY DEF Init
  <2>2. n \in Nat
    BY <2>1, BoundsAssumption
  <2> QED
    BY <2>1, <2>2
<1>2. /\ pc = "read" /\ k = 1 /\ iter = 0 /\ peeked = FALSE /\ complete = FALSE
      /\ mounted = << >>
  BY DEF Init
<1>3. PICK f : g = [Globals EXCEPT !.want = f]
  BY DEF Init
<1>4. PICK root, usr :
        /\ root = NewMountConfig(Null, "/newroot", "ext4", {}, NullOpts, {})
        /\ usr = NewMountConfig("/newroot/usr.squashfs", "/newroot/usr", "squashfs",
                                {"RDONLY"}, NullOpts, {"NEED_LOOP"})
  OBVIOUS
<1>5. /\ IsGlobals(g) /\ g.newroot_mount = root /\ g.newroot_usr_mount = usr
      /\ g.root_ro_status = Undecided /\ g.want_newroot_mount = Undecided
      /\ g.want_newroot_usr_mount = Undecided /\ g.doshell = {} /\ g.real_init = Null
      /\ g.zram_autoswap = Null
  BY <1>3, <1>4 DEF Globals, IsGlobals
<1>6. /\ IsConfig(root) /\ root.source = Null /\ root.target = "/newroot" /\ root.fstype = "ext4"
      /\ root.flags = {} /\ root.cfg = {}
      /\ IsConfig(usr) /\ usr.source = "/newroot/usr.squashfs" /\ usr.target = "/newroot/usr"
      /\ usr.fstype = "squashfs"
  BY <1>4 DEF NewMountConfig, IsConfig
<1>7. Mountable(g)
  BY <1>5, <1>6 DEF Mountable, IsEnabled, Null
<1>8. IsFalse(g.root_ro_status) = FALSE /\ (~IsFalse(g.want_newroot_mount)) = TRUE
  BY <1>5 DEF IsFalse, Undecided
<1>9. SoFar(<< >>, 1, 0, g)
  <2>1. << >> \in Seq(Args)
    OBVIOUS
  <2>2. Default(g)
    BY <1>5, <1>6, <1>8 DEF Default
  <2> QED
    BY <2>1, <2>2, SoFarDefault
<1>10. MountsDone(mounted, g) /\ mounted \in Seq(ToSet(mounted))
  BY <1>2 DEF MountsDone
<1> QED
  BY <1>1, <1>2, <1>7, <1>9, <1>10 DEF CmdlineInv

\* Reading the command line, in whole or in part.
LEMMA ReadKeeps ==
  ASSUME CmdlineInv, ReadCmdline \/ ReadCmdlineFails
  PROVE  CmdlineInv'
<1>1. /\ argv \in Seq(Args) /\ Mountable(g) /\ IsGlobals(g) /\ k = 1 /\ iter = 0 /\ ~peeked
      /\ SoFar(<< >>, 1, 0, g) /\ ~complete /\ mounted = << >>
  BY DEF CmdlineInv, ReadCmdline, ReadCmdlineFails, Mountable
<1>2. PICK v : g' = [g EXCEPT !.want = v]
  BY DEF ReadCmdline, ReadCmdlineFails
<1>3. /\ IsGlobals(g') /\ g'.newroot_mount = g.newroot_mount
      /\ g'.newroot_usr_mount = g.newroot_usr_mount /\ g'.root_ro_status = g.root_ro_status
      /\ g'.want_newroot_mount = g.want_newroot_mount /\ g'.doshell = g.doshell
      /\ g'.real_init = g.real_init /\ g'.zram_autoswap = g.zram_autoswap /\ g'.want = v
  BY <1>1, <1>2 DEF IsGlobals
<1>4. Mountable(g')
  BY <1>1, <1>3, MountableSame
<1>5. /\ pc' = "arg" /\ k' = 1 /\ iter' = 0 /\ complete' = complete /\ mounted' = << >>
      /\ MountsDone(mounted', g') /\ mounted' \in Seq(ToSet(mounted'))
  <2>1. pc' = "arg" /\ k' = 1 /\ iter' = 0 /\ complete' = complete /\ mounted' = << >>
    BY <1>1 DEF ReadCmdline, ReadCmdlineFails
  <2> QED
    BY <2>1 DEF MountsDone
<1>6. argv' \in Seq(Args)
  <2>1. CASE ReadCmdline
    BY <1>1, <2>1 DEF ReadCmdline
  <2>2. CASE ReadCmdlineFails
    <3>1. PICK n \in 0..Len(argv) : argv' = SubSeq(argv, 1, n)
      BY <2>2 DEF ReadCmdlineFails
    <3>2. \A i \in 1..n : argv[i] \in Args
      BY <1>1
    <3> QED
      BY <1>1, <3>1, <3>2, SubSeqProperties
  <2> QED
    BY <2>1, <2>2
<1>7. Where(argv', k', iter')
  <2>1. Len(argv') \in Nat
    BY <1>6
  <2>2. Len(argv') >= 1 => argv'[1] \in Args
    BY <1>6, <2>1
  <2>3. Len(argv') >= 1 => Len(argv'[1].vals) \in Nat
    BY <2>2, ArgsAssumption
  <2> QED
    BY <1>5, <2>1, <2>3 DEF Where
<1>8. SoFar(argv', k', iter', g')
  <2>1. Default(g)
    <3>1. << >> \in Seq(Args)
      OBVIOUS
    <3> QED
      BY <1>1, <3>1, SoFarDefault
  <2>2. Default(g')
    BY <1>3, <2>1 DEF Default
  <2> QED
    BY <1>5, <1>6, <2>2, SoFarDefault
<1>9. peeked' => Peeked(argv', g'.want)
  <2>1. CASE ReadCmdline
    <3>1. argv' = argv /\ g'.want = Balance(Peek(g.want, argv)[Len(argv)])
      BY <1>1, <2>1 DEF ReadCmdline, IsGlobals
    <3> QED
      BY <1>1, <3>1, PeekSettles
  <2>2. CASE ReadCmdlineFails
    BY <1>1, <2>2 DEF ReadCmdlineFails
  <2> QED
    BY <2>1, <2>2
<1> QED
  BY <1>1, <1>4, <1>5, <1>6, <1>7, <1>8, <1>9 DEF CmdlineInv

\* After the last argument all of them have been called for.
LEMMA AllSeen ==
  ASSUME CmdlineInv, pc = "arg", k > Len(argv)
  PROVE  /\ argv \in Seq(Args) /\ Len(argv) \in Nat /\ Mountable(g) /\ ~complete
         /\ k - 1 = Len(argv) /\ Begun(k, iter) = Len(argv) /\ SoFar(argv, k, iter, g)
         /\ Settled(InitAt(argv), InitSays(argv), Null, Len(argv), g.real_init)
         /\ Settled(ShellAt(argv), ShellSays(argv), {}, Len(argv), g.doshell)
<1>1. argv \in Seq(Args) /\ Mountable(g) /\ ~complete /\ Where(argv, k, iter) /\ SoFar(argv, k, iter, g)
  BY DEF CmdlineInv
<1>2. Len(argv) \in Nat
  BY <1>1
<1>3. iter = 0 /\ k - 1 = Len(argv) /\ Begun(k, iter) = Len(argv)
  BY <1>1, <1>2 DEF Where, Begun
<1>4. InitSoFar(argv, k, iter, g.real_init) /\ ShellSoFar(argv, k, iter, g.doshell)
  BY <1>1 DEF SoFar
<1>5. Settled(InitAt(argv), InitSays(argv), Null, Len(argv), g.real_init)
  BY <1>3, <1>4 DEF InitSoFar
<1>6. Settled(ShellAt(argv), ShellSays(argv), {}, Len(argv), g.doshell)
  BY <1>3, <1>4 DEF ShellSoFar
<1> QED
  BY <1>1, <1>2, <1>3, <1>5, <1>6

\* After the last argument everything is settled and complete.
LEMMA PostprocessKeeps ==
  ASSUME CmdlineInv, Postprocess
  PROVE  CmdlineInv'
<1> DEFINE n == Len(argv)
<1>1. pc = "arg" /\ k > Len(argv)
  BY DEF Postprocess
<1>2. /\ argv \in Seq(Args) /\ n \in Nat /\ Mountable(g) /\ IsGlobals(g)
      /\ k - 1 = n /\ Begun(k, iter) = n /\ SoFar(argv, k, iter, g)
      /\ mounted = << >> /\ (peeked => Peeked(argv, g.want))
  BY <1>1, AllSeen DEF Mountable, CmdlineInv
<1>3. PICK mc, usr : mc = g.newroot_mount /\ usr = g.newroot_usr_mount
  OBVIOUS
<1>4. PICK r : r = IF IsFalse(g.root_ro_status) THEN DisableFlag(mc, {"RDONLY"})
                   ELSE EnableFlag(mc, {"RDONLY"})
  OBVIOUS
<1>5. PICK new, nusr : /\ new = IF IsEnabled(r) THEN Autoset(r) ELSE r
                       /\ nusr = IF IsEnabled(usr) THEN Autoset(usr) ELSE usr
  OBVIOUS
<1>6. g' = [g EXCEPT !.newroot_mount = new, !.newroot_usr_mount = nusr]
  BY <1>2, <1>3, <1>4, <1>5 DEF Postprocess, IsGlobals
<1>7. /\ IsGlobals(g') /\ g'.newroot_mount = new
      /\ g'.newroot_usr_mount = nusr /\ g'.root_ro_status = g.root_ro_status
      /\ g'.want_newroot_mount = g.want_newroot_mount /\ g'.doshell = g.doshell
      /\ g'.want_newroot_usr_mount = g.want_newroot_usr_mount
      /\ g'.real_init = g.real_init /\ g'.zram_autoswap = g.zram_autoswap /\ g'.want = g.want
  BY <1>2, <1>6 DEF IsGlobals
<1>8. /\ IsConfig(mc) /\ IsConfig(usr) /\ mc.target = "/newroot" /\ usr.target = "/newroot/usr"
      /\ mc.fstype # Null /\ usr.fstype = "squashfs" /\ usr.source # Null
      /\ IsEnabled(mc) => mc.source # Null
  BY <1>2, <1>3 DEF Mountable
<1>9. /\ IsConfig(r) /\ r.cfg = mc.cfg /\ r.source = mc.source /\ r.target = mc.target
      /\ r.fstype = mc.fstype
      /\ r.flags = IF IsFalse(g.root_ro_status) THEN mc.flags \ {"RDONLY"}
                   ELSE mc.flags \cup {"RDONLY"}
  <2>1. CASE IsFalse(g.root_ro_status)
    <3>1. r = DisableFlag(mc, {"RDONLY"})
      BY <1>4, <2>1
    <3> QED
      BY <1>8, <2>1, <3>1, Updated
  <2>2. CASE ~IsFalse(g.root_ro_status)
    <3>1. r = EnableFlag(mc, {"RDONLY"})
      BY <1>4, <2>2
    <3> QED
      BY <1>8, <2>2, <3>1, Updated
  <2> QED
    BY <2>1, <2>2
<1>10. /\ IsConfig(new) /\ new.source = r.source /\ new.target = r.target /\ new.fstype = r.fstype
       /\ new.flags = IF IsEnabled(r) /\ r.fstype = "squashfs" THEN r.flags \cup {"RDONLY"} ELSE r.flags
       /\ IsEnabled(new) <=> IsEnabled(mc)
       /\ IsEnabled(new) => Autoset(new) = new
  <2>1. IsEnabled(r) <=> IsEnabled(mc)
    BY <1>9 DEF IsEnabled
  <2>2. CASE IsEnabled(r)
    <3>1. new = Autoset(r) /\ r.source # Null
      BY <1>5, <1>8, <1>9, <2>1, <2>2
    <3> QED
      BY <1>9, <2>1, <2>2, <3>1, AutosetCompletes
  <2>3. CASE ~IsEnabled(r)
    BY <1>5, <1>9, <2>1, <2>3
  <2> QED
    BY <2>2, <2>3
<1>11. /\ IsConfig(nusr) /\ nusr.source = usr.source /\ nusr.target = usr.target
       /\ nusr.fstype = usr.fstype
       /\ IsEnabled(nusr) => Autoset(nusr) = nusr
  <2>1. CASE IsEnabled(usr)
    BY <1>5, <1>8, <2>1, AutosetCompletes
  <2>2. CASE ~IsEnabled(usr)
    BY <1>5, <1>8, <2>2
  <2> QED
    BY <2>1, <2>2
<1>12. Mountable(g')
  BY <1>7, <1>8, <1>9, <1>10, <1>11 DEF Mountable
<1>13. /\ argv' = argv /\ pc' = "root" /\ complete' = TRUE /\ peeked' = peeked
       /\ mounted' = << >>
  BY <1>2 DEF Postprocess
<1>14. IsEnabled(new) => ("RDONLY" \in new.flags <=> new.fstype = "squashfs" \/ ~IsFalse(g'.root_ro_status))
  <2>1. IsEnabled(new) <=> IsEnabled(r)
    BY <1>9, <1>10 DEF IsEnabled
  <2> QED
    BY <1>7, <1>9, <1>10, <2>1
<1>15. new.flags \ {"RDONLY"} = mc.flags \ {"RDONLY"}
  BY <1>9, <1>10
<1>16. Processed(argv, g')
  <2>1. /\ Settled(RootAt(argv), RootSays(argv), Null, n, new.source)
        /\ Settled(TypeAt(argv), TypeSays(argv), "ext4", n, new.fstype)
    BY <1>2, <1>3, <1>9, <1>10 DEF SoFar
  <2>2. \E f : /\ Settled(FlagsAt(argv), FlagsSay(argv), {}, n, f)
               /\ new.flags \ {"RDONLY"} = f \ {"RDONLY"}
    <3>1. Settled(FlagsAt(argv), FlagsSay(argv), {}, n, mc.flags)
      BY <1>2, <1>3 DEF SoFar
    <3> QED
      BY <1>15, <3>1
  <2>3. /\ Settled(RoAt(argv), RoSays(argv), FALSE, n, IsFalse(g'.root_ro_status))
        /\ Settled(WantAt(argv), WantSays(argv), TRUE, n, ~IsFalse(g'.want_newroot_mount))
    BY <1>2, <1>7 DEF SoFar
  <2>4. /\ Settled(SwapAt(argv), SwapSays(argv), Null, n, g'.zram_autoswap)
        /\ UsrSoFar(argv, n, g'.want_newroot_usr_mount)
    BY <1>2, <1>7 DEF SoFar
  <2>5. /\ Settled(InitAt(argv), InitSays(argv), Null, n, g'.real_init)
        /\ Settled(ShellAt(argv), ShellSays(argv), {}, n, g'.doshell)
    BY <1>1, <1>7, AllSeen
  <2>6. \A c \in {g'.newroot_mount, g'.newroot_usr_mount} : IsEnabled(c) => Autoset(c) = c
    BY <1>7, <1>10, <1>11
  <2> HIDE DEF n
  <2> QED
    BY <1>7, <1>14, <2>1, <2>2, <2>3, <2>4, <2>5, <2>6 DEF Processed, n
<1>17. MountsDone(mounted', g') /\ mounted' \in Seq(ToSet(mounted'))
  BY <1>13 DEF MountsDone
<1> QED
  BY <1>2, <1>7, <1>12, <1>13, <1>16, <1>17 DEF CmdlineInv

\* After a failure nothing is complete.
LEMMA OnErrorShellKeeps ==
  ASSUME CmdlineInv, OnErrorShell
  PROVE  CmdlineInv'
<1>1. pc = "failed" /\ pc' \in {"root", "gaveup"} /\ UNCHANGED << argv, g, peeked, complete, mounted >>
  BY DEF OnErrorShell
<1> QED
  BY <1>1 DEF CmdlineInv

\* One more mount.
LEMMA MountsMore ==
  ASSUME NEW ms, ms \in Seq(ToSet(ms)), NEW m
  PROVE  /\ Append(ms, m) \in Seq(ToSet(Append(ms, m)))
         /\ \A i \in DOMAIN Append(ms, m) : Append(ms, m)[i] = m \/ (i \in DOMAIN ms /\ Append(ms, m)[i] = ms[i])
<1>1. PICK T : T = ToSet(ms)
  OBVIOUS
<1>2. ms \in Seq(T \cup {m}) /\ m \in T \cup {m}
  BY <1>1, SeqMonotonic
<1>3. PICK s : s = Append(ms, m)
  OBVIOUS
<1>4. /\ s \in Seq(T \cup {m}) /\ Len(ms) \in Nat /\ Len(s) = Len(ms) + 1
      /\ DOMAIN ms = 1..Len(ms) /\ DOMAIN s = 1..(Len(ms) + 1)
      /\ s[Len(ms) + 1] = m /\ \A i \in 1..Len(ms) : s[i] = ms[i]
  BY <1>2, <1>3
<1>5. \A i \in 1..Len(s) : s[i] \in ToSet(s)
  BY <1>4 DEF ToSet
<1>6. s \in Seq(ToSet(s))
  BY <1>4, <1>5, SeqDef
<1> QED
  BY <1>3, <1>4, <1>6

\* The two mounts.
LEMMA MountKeeps ==
  ASSUME CmdlineInv, MountRoot \/ MountUsr
  PROVE  CmdlineInv'
<1>1. /\ pc \in {"root", "usr"} /\ pc' \in {"usr", "done"}
      /\ UNCHANGED << argv, g, peeked, complete >>
  BY DEF MountRoot, MountUsr, MountNewroot
<1>2. /\ mounted \in Seq(ToSet(mounted)) /\ MountsDone(mounted, g)
  BY DEF CmdlineInv
<1>3. \/ mounted' = mounted
      \/ /\ mounted' = Append(mounted, Domount(g.newroot_mount))
         /\ IsEnabled(g.newroot_mount) /\ ~IsFalse(g.want_newroot_mount)
      \/ /\ mounted' = Append(mounted, Domount(g.newroot_usr_mount))
         /\ IsEnabled(g.newroot_usr_mount) /\ ~IsFalse(g.want_newroot_usr_mount)
  BY DEF MountRoot, MountUsr, MountNewroot
<1>4. mounted' \in Seq(ToSet(mounted')) /\ MountsDone(mounted', g)
  <2>1. ASSUME NEW m, mounted' = Append(mounted, m),
               \/ /\ m = Domount(g.newroot_mount)
                  /\ IsEnabled(g.newroot_mount) /\ ~IsFalse(g.want_newroot_mount)
               \/ /\ m = Domount(g.newroot_usr_mount)
                  /\ IsEnabled(g.newroot_usr_mount) /\ ~IsFalse(g.want_newroot_usr_mount)
        PROVE  mounted' \in Seq(ToSet(mounted')) /\ MountsDone(mounted', g)
    <3>1. /\ mounted' \in Seq(ToSet(mounted'))
          /\ \A i \in DOMAIN mounted' : mounted'[i] = m \/ (i \in DOMAIN mounted /\ mounted'[i] = mounted[i])
      BY <1>2, <2>1, MountsMore
    <3> QED
      BY <1>2, <2>1, <3>1 DEF MountsDone
  <2> QED
    BY <1>2, <1>3, <2>1
<1> QED
  BY <1>1, <1>4 DEF CmdlineInv

\* What the command line has settled so far, for every command line.
THEOREM SettingsInvariant == Spec => []CmdlineInv
<1>1. Init => CmdlineInv
  BY InitHolds
<1>2. CmdlineInv /\ [Next]_vars => CmdlineInv'
  <2> SUFFICES ASSUME CmdlineInv, [Next]_vars PROVE CmdlineInv'
    OBVIOUS
  <2>1. CASE UNCHANGED vars
    BY <2>1 DEF vars, CmdlineInv
  <2>2. CASE Next
    BY <2>2, DontCareKeeps, ModprobeKeeps, RealInitKeeps, RoRwKeeps, NoRootMountKeeps, RootKeeps,
       RootfstypeKeeps, RootfsflagsKeeps, RootfindKeeps, StagediveKeeps, SquashedUsrKeeps,
       NoUsrMountKeeps, ZramSwapKeeps, ZramDiskKeeps, XshellKeeps, ReadKeeps, PostprocessKeeps,
       OnErrorShellKeeps, MountKeeps DEF Next
  <2> QED
    BY <2>1, <2>2
<1> QED
  BY <1>1, <1>2, PTL DEF Spec

-----------------------------------------------------------------------------
(* What follows from it.                                                   *)

\* The last of some positions.
Latest(S) == CHOOSE i \in S : \A j \in S : j <= i

\* A setting that is settled by all arguments is what the last of those says
\* that have a say in it.
LEMMA LastOf ==
  ASSUME NEW av, av \in Seq(Args), NEW S, \A i \in S : i \in DOMAIN av, NEW V, NEW d, NEW x,
         Settled(S, V, d, Len(av), x)
  PROVE  \/ S = {} /\ x = d
         \/ S # {} /\ Latest(S) \in S /\ x = V[Latest(S)]
<1>1. Len(av) \in Nat /\ DOMAIN av = 1..Len(av)
  OBVIOUS
<1>2. S \in SUBSET (1..Len(av))
  BY <1>1
<1>3. x = IF S = {} THEN d ELSE V[Latest(S)]
  BY <1>1, <1>2, SettledLast DEF Latest
<1>4. S # {} => \E i \in S : \A j \in S : j <= i
  <2>1. S \cap (1..Len(av)) = S
    BY <1>2
  <2>2. CASE S = {}
    BY <2>2
  <2>3. CASE S # {}
    BY <2>1, <2>3 DEF Settled
  <2> QED
    BY <2>2, <2>3
<1>5. S # {} => Latest(S) \in S
  BY <1>4 DEF Latest
<1> QED
  BY <1>3, <1>5

\* The source of the root file system.
LEMMA RootIsLast ==
  ASSUME argv \in Seq(Args), NEW x, Settled(RootAt(argv), RootSays(argv), Null, Len(argv), x)
  PROVE  x = LastGiven(LAMBDA a : Stagedives(a) \/ (a.key = "root" /\ HasValue(a)),
                       LAMBDA a : IF Stagedives(a) THEN "zroot" ELSE a.vals[1], Null)
<1>1. PICK S, V : S = RootAt(argv) /\ V = RootSays(argv)
  OBVIOUS
<1>2. \A i \in S : i \in DOMAIN argv
  BY <1>1 DEF RootAt
<1>3. \/ S = {} /\ x = Null
      \/ S # {} /\ Latest(S) \in S /\ x = V[Latest(S)]
  BY <1>1, <1>2, LastOf
<1>4. \A c \in S : V[c] = IF Stagedives(argv[c]) THEN "zroot" ELSE argv[c].vals[1]
  BY <1>1, <1>2 DEF RootSays
<1>5. S = {i \in DOMAIN argv : Stagedives(argv[i]) \/ (argv[i].key = "root" /\ HasValue(argv[i]))}
  BY <1>1 DEF RootAt
<1>6. LastGiven(LAMBDA a : Stagedives(a) \/ (a.key = "root" /\ HasValue(a)),
                LAMBDA a : IF Stagedives(a) THEN "zroot" ELSE a.vals[1], Null)
        = IF S = {} THEN Null
          ELSE IF Stagedives(argv[Latest(S)]) THEN "zroot" ELSE argv[Latest(S)].vals[1]
  BY <1>5 DEF LastGiven, Latest
<1> QED
  BY <1>3, <1>4, <1>6

\* The type of the root file system.
LEMMA TypeIsLast ==
  ASSUME argv \in Seq(Args), NEW x, Settled(TypeAt(argv), TypeSays(argv), "ext4", Len(argv), x)
  PROVE  x = LastGiven(LAMBDA a : Stagedives(a) \/ (a.key = "rootfstype" /\ HasValue(a)),
                       LAMBDA a : IF Stagedives(a) THEN "zdisk" ELSE a.vals[1], "ext4")
<1>1. PICK S, V, d : S = TypeAt(argv) /\ V = TypeSays(argv) /\ d = "ext4"
  OBVIOUS
<1>2. \A i \in S : i \in DOMAIN argv
  BY <1>1 DEF TypeAt
<1>3. \/ S = {} /\ x = d
      \/ S # {} /\ Latest(S) \in S /\ x = V[Latest(S)]
  BY <1>1, <1>2, LastOf
<1>4. \A c \in S : V[c] = (IF Stagedives(argv[c]) THEN "zdisk" ELSE argv[c].vals[1])
  BY <1>1, <1>2 DEF TypeSays
<1>5. S = {i \in DOMAIN argv : Stagedives(argv[i]) \/ (argv[i].key = "rootfstype" /\ HasValue(argv[i]))}
  BY <1>1 DEF TypeAt
<1>6. LastGiven(LAMBDA a : Stagedives(a) \/ (a.key = "rootfstype" /\ HasValue(a)),
                LAMBDA a : IF Stagedives(a) THEN "zdisk" ELSE a.vals[1], "ext4")
        = IF S = {} THEN "ext4" ELSE (IF Stagedives(argv[Latest(S)]) THEN "zdisk" ELSE argv[Latest(S)].vals[1])
  BY <1>5 DEF LastGiven, Latest
<1> QED
  BY <1>1, <1>3, <1>4, <1>6

\* The mount flags of rootfsflags=.
LEMMA FlagsIsLast ==
  ASSUME argv \in Seq(Args), NEW x, Settled(FlagsAt(argv), FlagsSay(argv), {}, Len(argv), x)
  PROVE  x = LastGiven(LAMBDA a : a.key \in {"rootfsflags", "rootflags"},
                       LAMBDA a : FlagsOf(a.vals), {})
<1>1. PICK S, V, d : S = FlagsAt(argv) /\ V = FlagsSay(argv) /\ d = {}
  OBVIOUS
<1>2. \A i \in S : i \in DOMAIN argv
  BY <1>1 DEF FlagsAt
<1>3. \/ S = {} /\ x = d
      \/ S # {} /\ Latest(S) \in S /\ x = V[Latest(S)]
  BY <1>1, <1>2, LastOf
<1>4. \A c \in S : V[c] = (FlagsOf(argv[c].vals))
  BY <1>1, <1>2 DEF FlagsSay
<1>5. S = {i \in DOMAIN argv : argv[i].key \in {"rootfsflags", "rootflags"}}
  BY <1>1 DEF FlagsAt
<1>6. LastGiven(LAMBDA a : a.key \in {"rootfsflags", "rootflags"},
                LAMBDA a : FlagsOf(a.vals), {})
        = IF S = {} THEN {} ELSE (FlagsOf(argv[Latest(S)].vals))
  BY <1>5 DEF LastGiven, Latest
<1> QED
  BY <1>1, <1>3, <1>4, <1>6

\* The init program.
LEMMA InitIsLast ==
  ASSUME argv \in Seq(Args), NEW x, Settled(InitAt(argv), InitSays(argv), Null, Len(argv), x)
  PROVE  x = LastGiven(LAMBDA a : a.key \in {"init", "real_init"} /\ HasValue(a),
                       LAMBDA a : a.vals[Len(a.vals)], Null)
<1>1. PICK S, V, d : S = InitAt(argv) /\ V = InitSays(argv) /\ d = Null
  OBVIOUS
<1>2. \A i \in S : i \in DOMAIN argv
  BY <1>1 DEF InitAt
<1>3. \/ S = {} /\ x = d
      \/ S # {} /\ Latest(S) \in S /\ x = V[Latest(S)]
  BY <1>1, <1>2, LastOf
<1>4. \A c \in S : V[c] = (argv[c].vals[Len(argv[c].vals)])
  BY <1>1, <1>2 DEF InitSays
<1>5. S = {i \in DOMAIN argv : argv[i].key \in {"init", "real_init"} /\ HasValue(argv[i])}
  BY <1>1 DEF InitAt
<1>6. LastGiven(LAMBDA a : a.key \in {"init", "real_init"} /\ HasValue(a),
                LAMBDA a : a.vals[Len(a.vals)], Null)
        = IF S = {} THEN Null ELSE (argv[Latest(S)].vals[Len(argv[Latest(S)].vals)])
  BY <1>5 DEF LastGiven, Latest
<1> QED
  BY <1>1, <1>3, <1>4, <1>6

\* The size of the swap space.
LEMMA SwapIsLast ==
  ASSUME argv \in Seq(Args), NEW x, Settled(SwapAt(argv), SwapSays(argv), Null, Len(argv), x)
  PROVE  x = LastGiven(LAMBDA a : a.key = "zram_swap",
                       LAMBDA a : IF HasValue(a) THEN a.vals[1] ELSE "guess", Null)
<1>1. PICK S, V, d : S = SwapAt(argv) /\ V = SwapSays(argv) /\ d = Null
  OBVIOUS
<1>2. \A i \in S : i \in DOMAIN argv
  BY <1>1 DEF SwapAt
<1>3. \/ S = {} /\ x = d
      \/ S # {} /\ Latest(S) \in S /\ x = V[Latest(S)]
  BY <1>1, <1>2, LastOf
<1>4. \A c \in S : V[c] = (IF HasValue(argv[c]) THEN argv[c].vals[1] ELSE "guess")
  BY <1>1, <1>2 DEF SwapSays
<1>5. S = {i \in DOMAIN argv : argv[i].key = "zram_swap"}
  BY <1>1 DEF SwapAt
<1>6. LastGiven(LAMBDA a : a.key = "zram_swap",
                LAMBDA a : IF HasValue(a) THEN a.vals[1] ELSE "guess", Null)
        = IF S = {} THEN Null ELSE (IF HasValue(argv[Latest(S)]) THEN argv[Latest(S)].vals[1] ELSE "guess")
  BY <1>5 DEF LastGiven, Latest
<1> QED
  BY <1>1, <1>3, <1>4, <1>6

\* The shells.
LEMMA ShellIsLast ==
  ASSUME argv \in Seq(Args), NEW x, Settled(ShellAt(argv), ShellSays(argv), {}, Len(argv), x)
  PROVE  x = LastGiven(LAMBDA a : a.key = "xshell",
                       LAMBDA a : ShellOf(a.vals), {})
<1>1. PICK S, V, d : S = ShellAt(argv) /\ V = ShellSays(argv) /\ d = {}
  OBVIOUS
<1>2. \A i \in S : i \in DOMAIN argv
  BY <1>1 DEF ShellAt
<1>3. \/ S = {} /\ x = d
      \/ S # {} /\ Latest(S) \in S /\ x = V[Latest(S)]
  BY <1>1, <1>2, LastOf
<1>4. \A c \in S : V[c] = (ShellOf(argv[c].vals))
  BY <1>1, <1>2 DEF ShellSays
<1>5. S = {i \in DOMAIN argv : argv[i].key = "xshell"}
  BY <1>1 DEF ShellAt
<1>6. LastGiven(LAMBDA a : a.key = "xshell",
                LAMBDA a : ShellOf(a.vals), {})
        = IF S = {} THEN {} ELSE (ShellOf(argv[Latest(S)].vals))
  BY <1>5 DEF LastGiven, Latest
<1> QED
  BY <1>1, <1>3, <1>4, <1>6

\* The wish for a root mount.
LEMMA WantIsLast ==
  ASSUME argv \in Seq(Args), NEW x, Settled(WantAt(argv), WantSays(argv), TRUE, Len(argv), x)
  PROVE  x = LastGiven(LAMBDA a : Stagedives(a) \/ a.key \in {"norootmount", "liram", "liram_x"},
                       Stagedives, TRUE)
<1>1. PICK S, V, d : S = WantAt(argv) /\ V = WantSays(argv) /\ d = TRUE
  OBVIOUS
<1>2. \A i \in S : i \in DOMAIN argv
  BY <1>1 DEF WantAt
<1>3. \/ S = {} /\ x = d
      \/ S # {} /\ Latest(S) \in S /\ x = V[Latest(S)]
  BY <1>1, <1>2, LastOf
<1>4. \A c \in S : V[c] = (Stagedives(argv[c]))
  BY <1>1, <1>2 DEF WantSays
<1>5. S = {i \in DOMAIN argv : Stagedives(argv[i]) \/ argv[i].key \in {"norootmount", "liram", "liram_x"}}
  BY <1>1 DEF WantAt
<1>6. LastGiven(LAMBDA a : Stagedives(a) \/ a.key \in {"norootmount", "liram", "liram_x"},
                Stagedives, TRUE)
        = IF S = {} THEN TRUE ELSE (Stagedives(argv[Latest(S)]))
  BY <1>5 DEF LastGiven, Latest
<1> QED
  BY <1>1, <1>3, <1>4, <1>6

\* Whether the root file system is to be writable.
LEMMA RoIsLast ==
  ASSUME argv \in Seq(Args), NEW x, Settled(RoAt(argv), RoSays(argv), FALSE, Len(argv), x)
  PROVE  x = LastGiven(LAMBDA a : a.key \in {"ro", "rw", "stagedive"},
                       LAMBDA a : a.key # "ro", FALSE)
<1>1. PICK S, V, d : S = RoAt(argv) /\ V = RoSays(argv) /\ d = FALSE
  OBVIOUS
<1>2. \A i \in S : i \in DOMAIN argv
  BY <1>1 DEF RoAt
<1>3. \/ S = {} /\ x = d
      \/ S # {} /\ Latest(S) \in S /\ x = V[Latest(S)]
  BY <1>1, <1>2, LastOf
<1>4. \A c \in S : V[c] = (argv[c].key # "ro")
  BY <1>1, <1>2 DEF RoSays
<1>5. S = {i \in DOMAIN argv : argv[i].key \in {"ro", "rw", "stagedive"}}
  BY <1>1 DEF RoAt
<1>6. LastGiven(LAMBDA a : a.key \in {"ro", "rw", "stagedive"},
                LAMBDA a : a.key # "ro", FALSE)
        = IF S = {} THEN FALSE ELSE (argv[Latest(S)].key # "ro")
  BY <1>5 DEF LastGiven, Latest
<1> QED
  BY <1>1, <1>3, <1>4, <1>6

\* Quietness, if there is a word about it.
LEMMA QuietIsLast ==
  ASSUME argv \in Seq(Args), NEW x, NEW d, QuietAt(argv) # {},
         Settled(QuietAt(argv), QuietSays(argv), d, Len(argv), x)
  PROVE  x = LastGiven(Verbosity, LAMBDA a : a.key \in {"quiet", "iquiet"}, FALSE)
<1>1. PICK S, V : S = QuietAt(argv) /\ V = QuietSays(argv)
  OBVIOUS
<1>2. \A i \in S : i \in DOMAIN argv
  BY <1>1 DEF QuietAt
<1>3. Latest(S) \in S /\ x = V[Latest(S)]
  BY <1>1, <1>2, LastOf
<1>4. \A c \in S : V[c] = (argv[c].key \in {"quiet", "iquiet"})
  BY <1>1, <1>2 DEF QuietSays
<1>5. S = {i \in DOMAIN argv : Verbosity(argv[i])}
  BY <1>1 DEF QuietAt
<1>6. LastGiven(Verbosity, LAMBDA a : a.key \in {"quiet", "iquiet"}, FALSE)
        = IF S = {} THEN FALSE ELSE (argv[Latest(S)].key \in {"quiet", "iquiet"})
  BY <1>5 DEF LastGiven, Latest
<1> QED
  BY <1>1, <1>3, <1>4, <1>6

\* What the invariant says of a command line that has been processed.
LEMMA WhenComplete ==
  ASSUME CmdlineInv, complete
  PROVE  /\ argv \in Seq(Args) /\ Len(argv) \in Nat /\ DOMAIN argv = 1..Len(argv)
         /\ Mountable(g) /\ Processed(argv, g) /\ MountsDone(mounted, g)
         /\ DOMAIN mounted = 1..Len(mounted)
         /\ peeked => Peeked(argv, g.want)
<1>1. /\ argv \in Seq(Args) /\ Mountable(g) /\ Processed(argv, g) /\ MountsDone(mounted, g)
      /\ mounted \in Seq(ToSet(mounted)) /\ (peeked => Peeked(argv, g.want))
  BY DEF CmdlineInv
<1>2. PICK T : T = ToSet(mounted)
  OBVIOUS
<1>3. mounted \in Seq(T)
  BY <1>1, <1>2
<1>4. DOMAIN mounted = 1..Len(mounted)
  BY <1>3
<1> QED
  BY <1>1, <1>4

\* The settings are those that the properties call the last ones given.
LEMMA SettingsAreLast ==
  ASSUME CmdlineInv
  PROVE  LaterParameterWins
<1> SUFFICES ASSUME complete PROVE LaterParameterWins
  BY DEF LaterParameterWins
<1>1. /\ argv \in Seq(Args) /\ DOMAIN argv = 1..Len(argv) /\ Processed(argv, g)
      /\ peeked => Peeked(argv, g.want)
  BY WhenComplete
<1>2. /\ Settled(RootAt(argv), RootSays(argv), Null, Len(argv), g.newroot_mount.source)
      /\ Settled(TypeAt(argv), TypeSays(argv), "ext4", Len(argv), g.newroot_mount.fstype)
      /\ Settled(SwapAt(argv), SwapSays(argv), Null, Len(argv), g.zram_autoswap)
      /\ Settled(InitAt(argv), InitSays(argv), Null, Len(argv), g.real_init)
      /\ Settled(ShellAt(argv), ShellSays(argv), {}, Len(argv), g.doshell)
      /\ Settled(WantAt(argv), WantSays(argv), TRUE, Len(argv), ~IsFalse(g.want_newroot_mount))
      /\ \E f : /\ Settled(FlagsAt(argv), FlagsSay(argv), {}, Len(argv), f)
                /\ g.newroot_mount.flags \ {"RDONLY"} = f \ {"RDONLY"}
  BY <1>1 DEF Processed
<1>3. g.newroot_mount.source =
        LastGiven(LAMBDA a : Stagedives(a) \/ (a.key = "root" /\ HasValue(a)),
             LAMBDA a : IF Stagedives(a) THEN "zroot" ELSE a.vals[1], Null)
  BY <1>1, <1>2, RootIsLast
<1>4. g.newroot_mount.fstype =
        LastGiven(LAMBDA a : Stagedives(a) \/ (a.key = "rootfstype" /\ HasValue(a)),
             LAMBDA a : IF Stagedives(a) THEN "zdisk" ELSE a.vals[1], "ext4")
  BY <1>1, <1>2, TypeIsLast
<1>5. g.newroot_mount.flags \ {"RDONLY"} =
        LastGiven(LAMBDA a : a.key \in {"rootfsflags", "rootflags"},
                  LAMBDA a : FlagsOf(a.vals), {}) \ {"RDONLY"}
  <2>1. PICK f : /\ Settled(FlagsAt(argv), FlagsSay(argv), {}, Len(argv), f)
                 /\ g.newroot_mount.flags \ {"RDONLY"} = f \ {"RDONLY"}
    BY <1>2
  <2>2. f = LastGiven(LAMBDA a : a.key \in {"rootfsflags", "rootflags"},
                      LAMBDA a : FlagsOf(a.vals), {})
    BY <1>1, <2>1, FlagsIsLast
  <2> QED
    BY <2>1, <2>2
<1>6. g.real_init = LastGiven(LAMBDA a : a.key \in {"init", "real_init"} /\ HasValue(a),
                              LAMBDA a : a.vals[Len(a.vals)], Null)
  BY <1>1, <1>2, InitIsLast
<1>7. g.zram_autoswap = LastGiven(LAMBDA a : a.key = "zram_swap",
                                  LAMBDA a : IF HasValue(a) THEN a.vals[1] ELSE "guess", Null)
  BY <1>1, <1>2, SwapIsLast
<1>8. g.doshell = LastGiven(LAMBDA a : a.key = "xshell", LAMBDA a : ShellOf(a.vals), {})
  BY <1>1, <1>2, ShellIsLast
<1>9. ~IsFalse(g.want_newroot_mount) =
        LastGiven(LAMBDA a : Stagedives(a) \/ a.key \in {"norootmount", "liram", "liram_x"},
             Stagedives, TRUE)
  <2>1. PICK b : b = (~IsFalse(g.want_newroot_mount))
    OBVIOUS
  <2>2. Settled(WantAt(argv), WantSays(argv), TRUE, Len(argv), b)
    BY <1>2, <2>1
  <2>3. b = LastGiven(LAMBDA a : Stagedives(a) \/ a.key \in {"norootmount", "liram", "liram_x"},
                      Stagedives, TRUE)
    BY <1>1, <2>2, WantIsLast
  <2> QED
    BY <2>1, <2>3
<1>10. ASSUME peeked, \E a \in ToSet(argv) : Verbosity(a)
       PROVE  ("QUIET" \in g.want) = LastGiven(Verbosity,
                                               LAMBDA a : a.key \in {"quiet", "iquiet"}, FALSE)
  <2>1. PICK d, b : /\ b = ("QUIET" \in g.want)
                    /\ Settled(QuietAt(argv), QuietSays(argv), d, Len(argv), b)
    BY <1>1, <1>10 DEF Peeked
  <2>2. QuietAt(argv) # {}
    BY <1>10 DEF QuietAt, ToSet
  <2>3. b = LastGiven(Verbosity, LAMBDA a : a.key \in {"quiet", "iquiet"}, FALSE)
    BY <1>1, <2>1, <2>2, QuietIsLast
  <2> QED
    BY <2>1, <2>3
<1> QED
  BY <1>3, <1>4, <1>5, <1>6, <1>7, <1>8, <1>9, <1>10 DEF LaterParameterWins

\* After all arguments, each setting is that of the last parameter about it
\* (_initramfs_cmdline_process_arg, called in any order of parameters), for
\* command lines of any length.
THEOREM LaterWins == Spec => []LaterParameterWins
<1>1. CmdlineInv => LaterParameterWins
  BY SettingsAreLast
<1> QED
  BY <1>1, SettingsInvariant, PTL

\* A mount that was done is the one of the two that its target tells.
LEMMA MountIs ==
  ASSUME CmdlineInv, NEW i \in DOMAIN mounted
  PROVE  \/ /\ mounted[i] = Domount(g.newroot_mount) /\ mounted[i].target = "/newroot"
            /\ IsEnabled(g.newroot_mount)
         \/ /\ mounted[i] = Domount(g.newroot_usr_mount) /\ mounted[i].target = "/newroot/usr"
            /\ IsEnabled(g.newroot_usr_mount) /\ ~IsFalse(g.want_newroot_usr_mount)
<1>1. /\ g.newroot_mount.target = "/newroot" /\ g.newroot_usr_mount.target = "/newroot/usr"
      /\ MountsDone(mounted, g)
  BY DEF CmdlineInv, Mountable
<1>2. \A mc : Domount(mc).target = mc.target
  BY DEF Domount
<1> QED
  BY <1>1, <1>2 DEF MountsDone

\* What is mounted is as the command line wants it.
LEMMA MountsAreTold ==
  ASSUME CmdlineInv
  PROVE  MountedAsTold
<1> SUFFICES ASSUME complete PROVE RootReadonlyByDefault /\ NoUsrMountIsFinal
  BY DEF MountedAsTold
<1>1. /\ argv \in Seq(Args) /\ DOMAIN argv = 1..Len(argv) /\ Processed(argv, g)
      /\ DOMAIN mounted = 1..Len(mounted)
  BY WhenComplete
<1>2. RootReadonlyByDefault
  <2>1. PICK w : w = IsFalse(g.root_ro_status)
    OBVIOUS
  <2>2. Settled(RoAt(argv), RoSays(argv), FALSE, Len(argv), w)
    BY <1>1, <2>1 DEF Processed
  <2>3. w = LastGiven(LAMBDA a : a.key \in {"ro", "rw", "stagedive"},
                      LAMBDA a : a.key # "ro", FALSE)
    BY <1>1, <2>2, RoIsLast
  <2>4. ASSUME NEW i \in DOMAIN mounted, mounted[i].target = "/newroot"
        PROVE  mounted[i].ro = (g.newroot_mount.fstype = "squashfs" \/ ~w)
    <3>1. mounted[i] = Domount(g.newroot_mount) /\ IsEnabled(g.newroot_mount)
      BY <2>4, MountIs
    <3>2. mounted[i].ro = ("RDONLY" \in g.newroot_mount.flags)
      BY <3>1 DEF Domount
    <3>3. "RDONLY" \in g.newroot_mount.flags <=>
             g.newroot_mount.fstype = "squashfs" \/ ~IsFalse(g.root_ro_status)
      BY <1>1, <3>1 DEF Processed
    <3> QED
      BY <2>1, <3>2, <3>3
  <2> QED
    BY <2>3, <2>4 DEF RootReadonlyByDefault, ToSet
<1>3. NoUsrMountIsFinal
  <2> SUFFICES ASSUME NEW a \in ToSet(argv), a.key = "nousrmount",
                      NEW i \in DOMAIN mounted
               PROVE  mounted[i].target # "/newroot/usr"
    BY DEF NoUsrMountIsFinal, ToSet
  <2>1. \E j \in DOMAIN argv : j <= Len(argv) /\ argv[j].key = "nousrmount"
    BY <1>1 DEF ToSet
  <2>2. IsFalse(g.want_newroot_usr_mount)
    BY <1>1, <2>1 DEF Processed, UsrSoFar
  <2> QED
    BY <2>2, MountIs
<1> QED
  BY <1>2, <1>3

\* A configuration that is complete is looked up where it has to be.
LEMMA FindfsIsNeeded ==
  ASSUME NEW mc, IsConfig(mc), mc.source # Null, Autoset(mc) = mc, mc.source \in FindfsSource
  PROVE  "NEED_FINDFS" \in mc.cfg
<1>1. PICK c : c = AutosetFstype(mc)
  OBVIOUS
<1>2. IsConfig(c) /\ c.source = mc.source
  BY <1>1, FstypeSwitch
<1>3. AutosetSource(c) = c
  BY <1>2 DEF AutosetSource
<1>4. mc = Enable(c, {"NEED_FINDFS"})
  BY <1>1, <1>2, <1>3 DEF Autoset
<1>5. Enable(c, {"NEED_FINDFS"}).cfg = c.cfg \cup {"NEED_FINDFS"}
  BY <1>2, Updated
<1> QED
  BY <1>4, <1>5

\* What is enabled can be mounted.
LEMMA MountsCan ==
  ASSUME CmdlineInv
  PROVE  MountsWhatItCan
<1> SUFFICES ASSUME NEW i \in DOMAIN mounted, complete, mounted[i].how # "zram"
             PROVE  /\ mounted[i].how # "refused"
                    /\ mounted[i].source \in FindfsSource => mounted[i].by = "findfs"
  BY DEF MountsWhatItCan
<1>1. Mountable(g) /\ Processed(argv, g)
  BY WhenComplete
<1>2. PICK mc : /\ mounted[i] = Domount(mc) /\ IsEnabled(mc)
                /\ mc = g.newroot_mount \/ mc = g.newroot_usr_mount
  BY MountIs
<1>3. /\ IsConfig(mc) /\ mc.source # Null
      /\ mc.target \in {"/newroot", "/newroot/usr"} /\ mc.fstype # Null
  BY <1>1, <1>2 DEF Mountable, Null
<1>4. Autoset(mc) = mc
  BY <1>1, <1>2 DEF Processed
<1>5. IsValid(mc)
  BY <1>3 DEF IsValid, Null
<1>6. "IS_ZRAM" \notin mc.cfg
  BY <1>2 DEF Domount
<1>7. mounted[i].source = mc.source /\ mounted[i].by = SourceStep(mc) /\ mounted[i].how = MountStep(mc)
  BY <1>2, <1>5, <1>6 DEF Domount
<1>8. mounted[i].how # "refused"
  BY <1>7 DEF MountStep
<1>9. mounted[i].source \in FindfsSource => mounted[i].by = "findfs"
  BY <1>3, <1>4, <1>7, FindfsIsNeeded DEF SourceStep
<1> QED
  BY <1>8, <1>9

\* The root file system is mounted read-only unless the last of ro, rw and
\* stagedive says otherwise, and nousrmount keeps /usr from being mounted
\* (_initramfs_postprocess_cmdline, _initramfs_mount_newroot_default).
THEOREM AsTold == Spec => []MountedAsTold
<1>1. CmdlineInv => MountedAsTold
  BY MountsAreTold
<1> QED
  BY <1>1, SettingsInvariant, PTL

\* domount_from_config never refuses what the command line has enabled, and
\* LABEL=, UUID= and PARTUUID= are looked up (mount_config_autoset), whatever
\* the order of root=, rootfstype=, stagedive and squashed_usr= is.
THEOREM CanBeMounted == Spec => []MountsWhatItCan
<1>1. CmdlineInv => MountsWhatItCan
  BY MountsCan
<1> QED
  BY <1>1, SettingsInvariant, PTL

-----------------------------------------------------------------------------
(* Mount options, there and back again.                                    *)

\* The flags that words of an option string can set, and the words that stay
\* options.
FlagNames == {Sets[w] : w \in DOMAIN Sets}
IsPlain(w) == w \notin DOMAIN Sets \cup DOMAIN Clears \cup Ignored \cup {EmptyString, Null}
PlainWords(op) == \E T : (\A w \in T : IsPlain(w)) /\ op \in Seq(T)

\* What parse_mount_opts_str can have made, or the NULL that was there before.
Spellable(mc) == mc.flags \subseteq FlagNames /\ (mc.opts = NullOpts \/ PlainWords(mc.opts))

OptsInv == Spellable(g.newroot_mount) /\ Spellable(g.newroot_usr_mount)

\* One more option.
LEMMA PlainOneMore ==
  ASSUME NEW op, PlainWords(op), NEW w, IsPlain(w)
  PROVE  PlainWords(Append(op, w))
<1>1. PICK T : (\A x \in T : IsPlain(x)) /\ op \in Seq(T)
  BY DEF PlainWords
<1>2. op \in Seq(T \cup {w}) /\ w \in T \cup {w} /\ \A x \in T \cup {w} : IsPlain(x)
  BY <1>1, SeqMonotonic
<1>3. Append(op, w) \in Seq(T \cup {w})
  BY <1>2, AppendProperties
<1> QED
  BY <1>2, <1>3 DEF PlainWords

\* What parse_mount_opts_str leaves behind of any words.
LEMMA ParsedIsSpellable ==
  ASSUME NEW words, Len(words) \in Nat, \A i \in 1..Len(words) : words[i] # Null
  PROVE  /\ IsParsed(ParseMountOpts(words)) /\ PlainWords(ParseMountOpts(words).opts)
<1> DEFINE N == Len(words)
           S == {n \in 0..N : /\ IsParsed(ParseSteps(words)[n])
                              /\ PlainWords(ParseSteps(words)[n].opts)}
<1>1. 0 \in S
  <2>1. PICK a : a = ParseSteps(words)[0]
    OBVIOUS
  <2>2. a = [flags |-> {}, opts |-> << >>]
    BY <2>1, ParseLoop
  <2>3. IsParsed(a) /\ a.opts = << >>
    BY <2>2 DEF IsParsed
  <2>4. PlainWords(<< >>)
    <3>1. << >> \in Seq({}) /\ \A w \in {} : IsPlain(w)
      OBVIOUS
    <3> QED
      BY <3>1 DEF PlainWords
  <2> QED
    BY <2>1, <2>3, <2>4
<1>2. ASSUME NEW n \in 0..N, n + 1 \in 0..N, n \in S PROVE n + 1 \in S
  <2>1. PICK a, b, w : a = ParseSteps(words)[n] /\ b = ParseSteps(words)[n+1] /\ w = words[n+1]
    OBVIOUS
  <2>2. n + 1 \in 1..N /\ (n + 1) - 1 = n
    BY <1>2
  <2>3. b = ParseWord(a, w) /\ w # Null
    BY <2>1, <2>2, ParseLoop
  <2>4. IsParsed(a) /\ PlainWords(a.opts)
    BY <1>2, <2>1
  <2>5. IsParsed(b) /\ (b.opts = a.opts \/ (IsPlain(w) /\ b.opts = Append(a.opts, w)))
    BY <2>3, <2>4, WordResult DEF IsPlain
  <2>6. PlainWords(b.opts)
    BY <2>4, <2>5, PlainOneMore
  <2> QED
    BY <1>2, <2>1, <2>5, <2>6
<1>3. N \in S
  <2>1. N \in Nat /\ N \in 0..N
    OBVIOUS
  <2> HIDE DEF S, N
  <2> QED
    BY <1>1, <1>2, <2>1, UpTo
<1> QED
  BY <1>3 DEF ParseMountOpts

\* The loop does the same for the words that two option strings begin with.
LEMMA ParsePrefix ==
  ASSUME NEW s, NEW t, Len(s) \in Nat, Len(t) \in Nat, Len(s) <= Len(t),
         \A i \in 1..Len(s) : s[i] = t[i]
  PROVE  ParseSteps(t)[Len(s)] = ParseMountOpts(s)
<1> DEFINE N == Len(s)
           S == {n \in 0..N : ParseSteps(s)[n] = ParseSteps(t)[n]}
<1>1. 0 \in S
  BY ParseLoop
<1>2. ASSUME NEW n \in 0..N, n + 1 \in 0..N, n \in S PROVE n + 1 \in S
  <2>1. /\ n + 1 \in 1..Len(s) /\ n + 1 \in 1..Len(t) /\ (n + 1) - 1 = n
        /\ ParseSteps(s)[n] = ParseSteps(t)[n] /\ s[n+1] = t[n+1]
    BY <1>2
  <2>2. /\ ParseSteps(s)[n+1] = ParseWord(ParseSteps(s)[n], s[n+1])
        /\ ParseSteps(t)[n+1] = ParseWord(ParseSteps(t)[n], t[n+1])
    BY <2>1, ParseLoop
  <2> QED
    BY <1>2, <2>1, <2>2
<1>3. N \in S
  <2>1. N \in Nat /\ N \in 0..N
    OBVIOUS
  <2> HIDE DEF S, N
  <2> QED
    BY <1>1, <1>2, <2>1, UpTo
<1> QED
  BY <1>3 DEF ParseMountOpts

\* One more word at the end.
LEMMA ParseOneMore ==
  ASSUME NEW T, NEW s \in Seq(T), NEW w \in T
  PROVE  ParseMountOpts(s \o << w >>) = ParseWord(ParseMountOpts(s), w)
<1>1. PICK t : t = s \o << w >>
  OBVIOUS
<1>2. /\ Len(s) \in Nat /\ Len(t) = Len(s) + 1 /\ t[Len(s) + 1] = w
      /\ \A i \in 1..Len(s) : t[i] = s[i]
  BY <1>1
<1>3. ParseSteps(t)[Len(s)] = ParseMountOpts(s)
  BY <1>2, ParsePrefix
<1>4. Len(t) \in Nat /\ Len(s) + 1 \in 1..Len(t) /\ (Len(s) + 1) - 1 = Len(s)
  BY <1>2
<1>5. ParseSteps(t)[Len(s) + 1] = ParseWord(ParseSteps(t)[Len(s)], t[Len(s) + 1])
  BY <1>4, ParseLoop
<1> QED
  BY <1>1, <1>2, <1>3, <1>5 DEF ParseMountOpts

\* FlattenSeq puts one sequence after the other.
LEMMA Flattens ==
  ASSUME NEW seqs, Len(seqs) \in Nat, Len(seqs) # 0
  PROVE  \E f : /\ f[1] = seqs[1]
                /\ \A n \in 1..Len(seqs) : n # 1 => f[n] = f[n-1] \o seqs[n]
                /\ FlattenSeq(seqs) = f[Len(seqs)]
<1> DEFINE N == Len(seqs)
           F(f, M) == [n \in 1..M |-> IF n = 1 THEN seqs[n] ELSE f[n-1] \o seqs[n]]
           S == {M \in 0..N : \E f : f = F(f, M)}
<1>1. 0 \in S
  <2>1. PICK f : f = [n \in 1..0 |-> seqs[n]]
    OBVIOUS
  <2>2. f = F(f, 0)
    BY <2>1
  <2>3. 0 \in 0..N
    OBVIOUS
  <2> HIDE DEF F
  <2> QED
    BY <2>2, <2>3
<1>2. ASSUME NEW M \in 0..N, M + 1 \in 0..N, M \in S PROVE M + 1 \in S
  <2>1. PICK f : f = F(f, M)
    BY <1>2
  <2>2. PICK x : x = IF M = 0 THEN seqs[1] ELSE f[M] \o seqs[M+1]
    OBVIOUS
  <2>3. PICK h : h = [n \in 1..(M+1) |-> IF n = M + 1 THEN x ELSE f[n]]
    OBVIOUS
  <2>4. M \in Nat /\ \A n \in 1..(M+1) : n = M + 1 \/ n \in 1..M
    OBVIOUS
  <2>5. \A n \in 1..M : h[n] = f[n]
    BY <2>3, <2>4
  <2>6. \A n \in 1..M : f[n] = IF n = 1 THEN seqs[n] ELSE f[n-1] \o seqs[n]
    BY <2>1
  <2>7. \A n \in 1..M : n # 1 => n - 1 \in 1..M
    BY <2>4
  <2>8. \A n \in 1..M : h[n] = IF n = 1 THEN seqs[n] ELSE h[n-1] \o seqs[n]
    BY <2>5, <2>6, <2>7
  <2>9. h[M+1] = IF M + 1 = 1 THEN seqs[M+1] ELSE h[M] \o seqs[M+1]
    <3>1. h[M+1] = x
      BY <2>3, <2>4
    <3>2. CASE M = 0
      BY <2>2, <3>1, <3>2
    <3>3. CASE M # 0
      <4>1. M \in 1..M /\ M + 1 # 1
        BY <2>4, <3>3
      <4> QED
        BY <2>2, <2>5, <3>1, <3>3, <4>1
    <3> QED
      BY <3>2, <3>3
  <2>10. (M + 1) - 1 = M
    BY <2>4
  <2>11. \A n \in 1..(M+1) : h[n] = IF n = 1 THEN seqs[n] ELSE h[n-1] \o seqs[n]
    BY <2>4, <2>8, <2>9, <2>10
  <2>12. h = F(h, M + 1)
    BY <2>3, <2>11
  <2> QED
    BY <1>2, <2>12
<1>3. N \in S
  <2>1. N \in Nat /\ N \in 0..N
    OBVIOUS
  <2> HIDE DEF S, N
  <2> QED
    BY <1>1, <1>2, <2>1, UpTo
<1>4. \E f : f = F(f, N)
  BY <1>3
<1>5. PICK f : f = (CHOOSE h : h = F(h, N)) /\ f = F(f, N)
  BY <1>4
<1>6. FlattenSeq(seqs) = f[N]
  BY <1>5 DEF FlattenSeq
<1>7. f[1] = seqs[1] /\ \A n \in 1..Len(seqs) : n # 1 => f[n] = f[n-1] \o seqs[n]
  <2>1. f = [n \in 1..N |-> IF n = 1 THEN seqs[n] ELSE f[n-1] \o seqs[n]]
    BY <1>5
  <2>2. \A n \in 1..N : f[n] = IF n = 1 THEN seqs[n] ELSE f[n-1] \o seqs[n]
    BY <2>1
  <2>3. 1 \in 1..N
    OBVIOUS
  <2> QED
    BY <2>2, <2>3
<1> QED
  BY <1>6, <1>7

\* The word for a flag sets that flag; every flag but SYNCHRONOUS has one.
LEMMA SpelledWords ==
  /\ Len(Spelled) = 15 /\ DOMAIN Spelled = 1..15
  /\ \A i \in 1..15 :
       \/ Spelled[i][1] = "MOVE" \/ Spelled[i][1] = "SYNCHRONOUS"
       \/ Spelled[i][2] \in DOMAIN Sets /\ Sets[Spelled[i][2]] = Spelled[i][1]
  /\ \A f \in FlagNames : f # "MOVE" /\ \E i \in 1..15 : Spelled[i][1] = f
<1>1. Len(Spelled) = 15 /\ DOMAIN Spelled = 1..15
  BY DEF Spelled
<1>2. ASSUME NEW i \in 1..15
      PROVE  \/ Spelled[i][1] = "MOVE" \/ Spelled[i][1] = "SYNCHRONOUS"
             \/ Spelled[i][2] \in DOMAIN Sets /\ Sets[Spelled[i][2]] = Spelled[i][1]
  BY DEF Spelled, Sets
<1>3. FlagNames = {"NOATIME", "NODEV", "NODIRATIME", "NOEXEC", "MANDLOCK", "RELATIME",
                   "STRICTATIME", "NOSUID", "SILENT", "REMOUNT", "RDONLY", "SYNCHRONOUS",
                   "BIND", "DIRSYNC"}
  BY DEF FlagNames, Sets
<1>4. ASSUME NEW f \in FlagNames
      PROVE  f # "MOVE" /\ \E i \in 1..15 : Spelled[i][1] = f
  <2>1. /\ Spelled[1][1] = "REMOUNT" /\ Spelled[2][1] = "BIND" /\ Spelled[4][1] = "DIRSYNC"
        /\ Spelled[5][1] = "MANDLOCK" /\ Spelled[6][1] = "NOATIME" /\ Spelled[7][1] = "NODEV"
        /\ Spelled[8][1] = "NODIRATIME" /\ Spelled[9][1] = "NOEXEC" /\ Spelled[10][1] = "NOSUID"
        /\ Spelled[11][1] = "RDONLY" /\ Spelled[12][1] = "RELATIME" /\ Spelled[13][1] = "SILENT"
        /\ Spelled[14][1] = "STRICTATIME" /\ Spelled[15][1] = "SYNCHRONOUS"
    BY DEF Spelled
  <2> QED
    BY <1>3, <2>1
<1> QED
  BY <1>1, <1>2, <1>4

\* Words that are no options of their own: each leaves the options alone, and
\* after all of them the flags are the ones that were spelled out.
LEMMA SpellsFlags ==
  ASSUME NEW flags, flags \subseteq FlagNames, "SYNCHRONOUS" \notin flags,
         NEW word, DOMAIN word = 1..15, Len(word) = 15,
         \A i \in 1..15 : word[i] = IF Spelled[i][1] \in flags THEN << Spelled[i][2] >>
                                    ELSE IF Spelled[i][1] = "RDONLY" THEN << "rw" >> ELSE << >>
  PROVE  \E T : /\ FlattenSeq(word) \in Seq(T)
                /\ ParseMountOpts(FlattenSeq(word)) = [flags |-> flags, opts |-> << >>]
<1> DEFINE T == {Spelled[i][2] : i \in 1..15} \cup {"rw"}
           Seen(n) == {Spelled[i][1] : i \in 1..n} \cap flags
<1>1. PICK f : /\ f[1] = word[1]
               /\ \A n \in 1..15 : n # 1 => f[n] = f[n-1] \o word[n]
               /\ FlattenSeq(word) = f[15]
  <2>1. Len(word) \in Nat /\ Len(word) # 0
    OBVIOUS
  <2>2. \E f : /\ f[1] = word[1]
               /\ \A n \in 1..Len(word) : n # 1 => f[n] = f[n-1] \o word[n]
               /\ FlattenSeq(word) = f[Len(word)]
    BY <2>1, Flattens
  <2> QED
    BY <2>2
<1>2. PICK h : h = [n \in 0..15 |-> IF n = 0 THEN << >> ELSE f[n]]
  OBVIOUS
<1>3. h[0] = << >> /\ h[15] = f[15] /\ \A n \in 1..15 : h[n] = f[n]
  BY <1>2
<1> DEFINE Good(n) == /\ h[n] \in Seq(T)
                      /\ ParseMountOpts(h[n]) = [flags |-> Seen(n), opts |-> << >>]
           S == {n \in 0..15 : Good(n)}
<1>4. 0 \in S
  <2>1. ParseMountOpts(<< >>) = [flags |-> {}, opts |-> << >>]
    <3>1. Len(<< >>) = 0
      OBVIOUS
    <3> QED
      BY <3>1, ParseLoop DEF ParseMountOpts
  <2>2. Seen(0) = {}
    OBVIOUS
  <2>3. << >> \in Seq(T)
    OBVIOUS
  <2>4. PICK e : e = h[0] /\ e = << >>
    BY <1>3
  <2> HIDE DEF T, Seen
  <2>5. h[0] \in Seq(T)
    BY <2>3, <2>4
  <2>6. ParseMountOpts(h[0]) = [flags |-> Seen(0), opts |-> << >>]
    BY <2>1, <2>2, <2>4
  <2>7. 0 \in 0..15
    OBVIOUS
  <2> QED
    BY <2>5, <2>6, <2>7
<1>5. ASSUME NEW n \in 0..15, n + 1 \in 0..15, n \in S PROVE n + 1 \in S
  <2>1. n + 1 \in 1..15 /\ (n + 1) - 1 = n
    BY <1>5
  <2>2. PICK s, p, q : s = h[n] /\ p = Spelled[n+1][1] /\ q = Spelled[n+1][2]
    OBVIOUS
  <2>3. s \in Seq(T) /\ ParseMountOpts(s) = [flags |-> Seen(n), opts |-> << >>]
    BY <1>5, <2>2
  <2>4. q \in T /\ "rw" \in T
    BY <2>1, <2>2
  <2>5. \A x : x \in Seen(n + 1) <=> x \in Seen(n) \/ (x = p /\ x \in flags)
    <3>1. \A i : i \in 1..(n+1) <=> i \in 1..n \/ i = n + 1
      BY <2>1
    <3> QED
      BY <2>2, <3>1
  <2>6. p = "MOVE" \/ p = "SYNCHRONOUS" \/ (q \in DOMAIN Sets /\ Sets[q] = p)
    BY <2>1, <2>2, SpelledWords
  <2>7. h[n+1] = s \o word[n+1]
    <3>1. CASE n = 0
      <4>1. word[1] \in Seq(T)
        <5>1. word[n+1] = << q >> \/ word[n+1] = << "rw" >> \/ word[n+1] = << >>
          BY <2>1, <2>2
        <5>2. << q >> \in Seq(T) /\ << "rw" >> \in Seq(T) /\ << >> \in Seq(T)
          <6> HIDE DEF T
          <6> QED
            BY <2>4
        <5>3. word[n+1] = word[1]
          BY <3>1
        <5> HIDE DEF T
        <5> QED
          BY <5>1, <5>2, <5>3
      <4>2. << >> \o word[1] = word[1]
        BY <4>1, ConcatEmptySeq
      <4> QED
        <5>1. s = << >> /\ h[1] = f[1] /\ n + 1 = 1
          BY <1>3, <2>1, <2>2, <3>1
        <5> QED
          BY <1>1, <4>2, <5>1
    <3>2. CASE n # 0
      <4>1. n \in 1..15 /\ n + 1 # 1
        BY <1>5, <3>2
      <4> QED
        BY <1>1, <1>3, <2>1, <2>2, <4>1
    <3> QED
      BY <3>1, <3>2
  <2> HIDE DEF Seen, T
  <2>8. PICK r : r = ParseMountOpts(s) /\ IsParsed(r) /\ r.flags = Seen(n) /\ r.opts = << >>
    <3>1. PICK fl, op : fl = Seen(n) /\ op = << >>
      OBVIOUS
    <3>2. PICK r : r = ParseMountOpts(s) /\ r = [flags |-> fl, opts |-> op]
      BY <2>3, <3>1
    <3>3. IsParsed(r) /\ r.flags = fl /\ r.opts = op
      BY <3>2 DEF IsParsed
    <3> QED
      BY <3>1, <3>2, <3>3
  <2>9. CASE p \in flags
    <3>1. word[n+1] = << q >> /\ q \in DOMAIN Sets /\ Sets[q] = p
      BY <2>1, <2>2, <2>6, <2>9, SpelledWords
    <3>2. h[n+1] \in Seq(T) /\ ParseMountOpts(h[n+1]) = ParseWord(r, q)
      BY <2>3, <2>4, <2>7, <2>8, <3>1, ParseOneMore
    <3>3. PICK r2 : r2 = ParseWord(r, q)
      OBVIOUS
    <3>4. IsParsed(r2) /\ r2.flags = Seen(n) \cup {p} /\ r2.opts = << >>
      BY <2>8, <3>1, <3>3, WordResult
    <3>5. Seen(n + 1) = Seen(n) \cup {p}
      BY <2>5, <2>9
    <3> QED
      BY <1>5, <3>2, <3>3, <3>4, <3>5 DEF IsParsed
  <2>10. CASE p \notin flags /\ p = "RDONLY"
    <3>1. word[n+1] = << "rw" >>
      BY <2>1, <2>2, <2>10
    <3>2. h[n+1] \in Seq(T) /\ ParseMountOpts(h[n+1]) = ParseWord(r, "rw")
      BY <2>3, <2>4, <2>7, <2>8, <3>1, ParseOneMore
    <3>3. "rw" \in DOMAIN Clears /\ Clears["rw"] = "RDONLY"
      BY DEF Clears
    <3>4. PICK r2, w : r2 = ParseWord(r, w) /\ w = "rw"
      OBVIOUS
    <3>5. IsParsed(r2) /\ r2.flags = Seen(n) \ {"RDONLY"} /\ r2.opts = << >>
      BY <2>8, <3>3, <3>4, WordResult
    <3>6. Seen(n + 1) = Seen(n) \ {"RDONLY"}
      BY <2>5, <2>10 DEF Seen
    <3> QED
      BY <1>5, <3>2, <3>4, <3>5, <3>6 DEF IsParsed
  <2>11. CASE p \notin flags /\ p # "RDONLY"
    <3>1. word[n+1] = << >>
      BY <2>1, <2>2, <2>11
    <3>2. h[n+1] = s
      BY <2>3, <2>7, <3>1, ConcatEmptySeq
    <3>3. Seen(n + 1) = Seen(n)
      BY <2>5, <2>11
    <3> QED
      BY <1>5, <2>3, <3>2, <3>3
  <2> QED
    BY <2>9, <2>10, <2>11
<1>6. 15 \in S
  <2>1. 15 \in Nat /\ 15 \in 0..15
    OBVIOUS
  <2> HIDE DEF S
  <2> QED
    BY <1>4, <1>5, <2>1, UpTo
<1>7. Seen(15) = flags
  BY SpelledWords
<1>8. Good(15)
  BY <1>6
<1>9. FlattenSeq(word) \in Seq(T) /\ ParseMountOpts(FlattenSeq(word)) = [flags |-> flags, opts |-> << >>]
  <2> HIDE DEF T, Seen
  <2> QED
    BY <1>1, <1>3, <1>7, <1>8
<1> QED
  BY <1>9

\* parse_mount_opts_str undoes get_mount_opts_str.
LEMMA ThereAndBack ==
  ASSUME NEW mc, Spellable(mc), "SYNCHRONOUS" \notin mc.flags
  PROVE  ParseMountOpts(GetMountOpts(mc.flags, mc.opts)) =
           [flags |-> mc.flags, opts |-> IF mc.opts = NullOpts THEN << >> ELSE mc.opts]
<1>1. PICK flags, o : flags = mc.flags /\ o = IF mc.opts = NullOpts THEN << >> ELSE mc.opts
  OBVIOUS
<1>2. PICK word : word = [i \in DOMAIN Spelled |->
                            IF Spelled[i][1] \in flags THEN << Spelled[i][2] >>
                            ELSE IF Spelled[i][1] = "RDONLY" THEN << "rw" >> ELSE << >>]
  OBVIOUS
<1>3. DOMAIN word = 1..15
  BY <1>2, SpelledWords
<1>4. Len(word) = 15
  <2>1. PICK B : B = {word[i] : i \in 1..15}
    OBVIOUS
  <2>2. PICK n \in Nat : n = 15
    OBVIOUS
  <2>3. DOMAIN word = 1..n /\ word = [i \in 1..n |-> word[i]] /\ \A i \in 1..n : word[i] \in B
    BY <1>2, <1>3, <2>1, <2>2
  <2>4. word \in [1..n -> B]
    BY <2>3
  <2>5. word \in Seq(B)
    BY <2>4
  <2> QED
    BY <2>2, <2>3, <2>5, LenProperties
<1>5. \A i \in 1..15 : word[i] = IF Spelled[i][1] \in flags THEN << Spelled[i][2] >>
                                 ELSE IF Spelled[i][1] = "RDONLY" THEN << "rw" >> ELSE << >>
  BY <1>2, SpelledWords
<1>6. flags \subseteq FlagNames /\ "SYNCHRONOUS" \notin flags
  BY <1>1 DEF Spellable
<1>7. PICK W, T : /\ W = FlattenSeq(word) /\ W \in Seq(T)
                  /\ ParseMountOpts(W) = [flags |-> flags, opts |-> << >>]
  BY <1>3, <1>4, <1>5, <1>6, SpellsFlags
<1>8. PICK U : (\A w \in U : IsPlain(w)) /\ o \in Seq(U)
  <2>1. CASE mc.opts = NullOpts
    <3>1. o = << >> /\ << >> \in Seq({}) /\ \A w \in {} : IsPlain(w)
      BY <1>1, <2>1
    <3> QED
      BY <3>1
  <2>2. CASE mc.opts # NullOpts
    BY <1>1, <2>2 DEF Spellable, PlainWords
  <2> QED
    BY <2>1, <2>2
<1>9. PICK t : t = W \o o
  OBVIOUS
<1>10. /\ Len(W) \in Nat /\ Len(o) \in Nat /\ Len(t) = Len(W) + Len(o)
       /\ \A i \in 1..Len(W) : W[i] = t[i]
       /\ \A j \in 1..Len(o) : t[Len(W) + j] = o[j]
  <2>1. W \in Seq(T \cup U) /\ o \in Seq(T \cup U)
    BY <1>7, <1>8, SeqMonotonic
  <2> QED
    BY <1>9, <2>1, ConcatProperties
<1>11. GetMountOpts(mc.flags, mc.opts) = t
  BY <1>1, <1>2, <1>7, <1>9 DEF GetMountOpts
<1> DEFINE Good(j) == ParseSteps(t)[Len(W) + j] = [flags |-> flags, opts |-> SubSeq(o, 1, j)]
           S == {j \in 0..Len(o) : Good(j)}
<1>12. 0 \in S
  <2>1. Len(t) \in Nat /\ Len(W) <= Len(t)
    BY <1>10
  <2>2. ParseSteps(t)[Len(W)] = ParseMountOpts(W)
    BY <1>10, <2>1, ParsePrefix
  <2>3. SubSeq(o, 1, 0) = << >>
    BY <1>8
  <2>4. Len(W) + 0 = Len(W) /\ 0 \in 0..Len(o)
    BY <1>10
  <2> QED
    BY <1>7, <2>2, <2>3, <2>4
<1>13. ASSUME NEW j \in 0..Len(o), j + 1 \in 0..Len(o), j \in S PROVE j + 1 \in S
  <2>1. PICK n : n = Len(W) + j
    OBVIOUS
  <2>2. /\ n + 1 \in 1..Len(t) /\ (n + 1) - 1 = n /\ Len(t) \in Nat
        /\ j + 1 \in 1..Len(o) /\ Len(W) + (j + 1) = n + 1
    BY <1>10, <1>13, <2>1
  <2>3. PICK a, b, w, so : /\ a = ParseSteps(t)[n] /\ b = ParseSteps(t)[n+1] /\ w = o[j+1]
                           /\ so = SubSeq(o, 1, j)
    OBVIOUS
  <2>4. t[n+1] = w /\ w \in U
    BY <1>8, <1>10, <2>2, <2>3
  <2>5. b = ParseWord(a, w)
    BY <2>2, <2>3, <2>4, ParseLoop
  <2>6. a = [flags |-> flags, opts |-> so]
    BY <1>13, <2>1, <2>3
  <2>7. IsParsed(a) /\ a.flags = flags /\ a.opts = so
    BY <2>6 DEF IsParsed
  <2>8. IsParsed(b) /\ b.flags = flags /\ b.opts = Append(so, w)
    BY <1>8, <2>4, <2>5, <2>7, WordResult DEF IsPlain
  <2>9. Append(so, w) = SubSeq(o, 1, j + 1)
    BY <1>8, <1>10, <2>2, <2>3
  <2>10. b = [flags |-> flags, opts |-> SubSeq(o, 1, j + 1)]
    BY <2>8, <2>9 DEF IsParsed
  <2> QED
    BY <1>13, <2>2, <2>3, <2>10
<1>14. Len(o) \in S
  <2>1. Len(o) \in Nat /\ Len(o) \in 0..Len(o)
    BY <1>10
  <2> HIDE DEF S
  <2> QED
    BY <1>12, <1>13, <2>1, UpTo
<1>15. SubSeq(o, 1, Len(o)) = o
  BY <1>8, <1>10
<1>16. ParseMountOpts(t) = [flags |-> flags, opts |-> o]
  BY <1>10, <1>14, <1>15 DEF ParseMountOpts
<1> QED
  BY <1>1, <1>11, <1>16

\* Spelling looks at flags and options only.
LEMMA SpellableSame ==
  ASSUME NEW old, NEW mc, Spellable(old), mc.opts = old.opts \/ mc.opts = NullOpts,
         \/ mc.flags = old.flags \/ mc.flags = old.flags \ {"RDONLY"}
         \/ mc.flags = old.flags \cup {"RDONLY"}
  PROVE  Spellable(mc)
<1>1. "RDONLY" \in FlagNames
  <2>1. "ro" \in DOMAIN Sets /\ Sets["ro"] = "RDONLY"
    BY DEF Sets
  <2> QED
    BY <2>1 DEF FlagNames
<1> QED
  BY <1>1 DEF Spellable

\* The steps that do not touch the two configurations.
LEMMA OtherSteps ==
  ASSUME IsGlobals(g),
         \/ DontCare \/ Modprobe \/ RealInit \/ RoRw \/ NoRootMount \/ Rootfind \/ NoUsrMount
         \/ ZramSwap \/ ZramDisk \/ Xshell \/ ReadCmdline \/ ReadCmdlineFails
         \/ OnErrorShell \/ MountRoot \/ MountUsr
  PROVE  g'.newroot_mount = g.newroot_mount /\ g'.newroot_usr_mount = g.newroot_usr_mount
<1>1. \E v : \/ g' = g
             \/ g' = [g EXCEPT !.load_modules = v] \/ g' = [g EXCEPT !.real_init = v]
             \/ g' = [g EXCEPT !.root_ro_status = v] \/ g' = [g EXCEPT !.want_newroot_mount = v]
             \/ g' = [g EXCEPT !.rootfind_delay = v] \/ g' = [g EXCEPT !.want_newroot_usr_mount = v]
             \/ g' = [g EXCEPT !.zram_autoswap = v] \/ g' = [g EXCEPT !.zdisks = v]
             \/ g' = [g EXCEPT !.doshell = v] \/ g' = [g EXCEPT !.want = v]
  <2>1. CASE DontCare \/ OnErrorShell \/ MountRoot \/ MountUsr
    BY <2>1 DEF DontCare, OnErrorShell, MountRoot, MountUsr, MountNewroot
  <2>2. CASE Modprobe
    BY <2>2 DEF Modprobe
  <2>3. CASE RealInit
    BY <2>3 DEF RealInit
  <2>4. CASE RoRw
    BY <2>4 DEF RoRw
  <2>5. CASE NoRootMount
    BY <2>5 DEF NoRootMount
  <2>6. CASE Rootfind
    BY <2>6 DEF Rootfind
  <2>7. CASE NoUsrMount
    BY <2>7 DEF NoUsrMount
  <2>8. CASE ZramSwap
    BY <2>8 DEF ZramSwap
  <2>9. CASE ZramDisk
    BY <2>9 DEF ZramDisk
  <2>10. CASE Xshell
    BY <2>10 DEF Xshell
  <2>11. CASE ReadCmdline
    BY <2>11 DEF ReadCmdline
  <2>12. CASE ReadCmdlineFails
    BY <2>12 DEF ReadCmdlineFails
  <2> QED
    BY <2>1, <2>2, <2>3, <2>4, <2>5, <2>6, <2>7, <2>8, <2>9, <2>10, <2>11, <2>12
<1> QED
  BY <1>1 DEF IsGlobals

\* A step that gives the root file system a new configuration.
LEMMA RootSteps ==
  ASSUME CmdlineInv, OptsInv, Root \/ Rootfstype \/ Rootfsflags \/ Stagedive
  PROVE  OptsInv'
<1>1. IsGlobals(g) /\ IsConfig(g.newroot_mount)
  BY DEF CmdlineInv, Mountable
<1>2. PICK old, usr : old = g.newroot_mount /\ usr = g.newroot_usr_mount
  OBVIOUS
<1>3. IsConfig(old) /\ Spellable(old) /\ Spellable(usr)
  BY <1>1, <1>2 DEF OptsInv
<1>4. CASE g' = g
  BY <1>4 DEF OptsInv
<1>5. ASSUME NEW mc, g' = [g EXCEPT !.newroot_mount = mc], Spellable(mc) PROVE OptsInv'
  <2>1. g'.newroot_mount = mc /\ g'.newroot_usr_mount = usr
    BY <1>1, <1>2, <1>5 DEF IsGlobals
  <2> QED
    BY <1>3, <1>5, <2>1 DEF OptsInv
<1>6. CASE Root
  <2>1. CASE g' # g
    <3>1. PICK val, mc : /\ mc = Enable([old EXCEPT !.source = val], {"IS_ENABLED"})
                         /\ g' = [g EXCEPT !.newroot_mount = mc]
      BY <1>2, <1>6, <2>1 DEF Root
    <3>2. PICK c : mc = [[old EXCEPT !.source = val] EXCEPT !.cfg = c]
      BY <3>1 DEF Enable
    <3>3. mc.flags = old.flags /\ mc.opts = old.opts
      BY <1>3, <3>2 DEF IsConfig
    <3> QED
      BY <1>3, <1>5, <3>1, <3>3, SpellableSame
  <2> QED
    BY <1>4, <2>1
<1>7. CASE Rootfstype
  <2>1. CASE g' # g
    <3>1. PICK val, mc : /\ mc = [old EXCEPT !.fstype = val]
                         /\ g' = [g EXCEPT !.newroot_mount = mc]
      BY <1>2, <1>7, <2>1 DEF Rootfstype
    <3>2. mc.flags = old.flags /\ mc.opts = old.opts
      BY <1>3, <3>1 DEF IsConfig
    <3> QED
      BY <1>3, <1>5, <3>1, <3>2, SpellableSame
  <2> QED
    BY <1>4, <2>1
<1>8. CASE Stagedive
  <2>1. PICK mc, ro, want :
          /\ mc = Enable([old EXCEPT !.source = "zroot", !.fstype = "zdisk", !.opts = NullOpts],
                         {"IS_ENABLED"})
          /\ g' = [g EXCEPT !.newroot_mount = mc, !.root_ro_status = ro, !.want_newroot_mount = want]
    BY <1>2, <1>8 DEF Stagedive
  <2>2. PICK c : mc = [[old EXCEPT !.source = "zroot", !.fstype = "zdisk", !.opts = NullOpts]
                         EXCEPT !.cfg = c]
    BY <2>1 DEF Enable
  <2>3. mc.flags = old.flags /\ mc.opts = NullOpts
    BY <1>3, <2>2 DEF IsConfig
  <2>4. Spellable(mc)
    BY <1>3, <2>3, SpellableSame
  <2>5. g'.newroot_mount = mc /\ g'.newroot_usr_mount = usr
    BY <1>1, <1>2, <2>1 DEF IsGlobals
  <2> QED
    BY <1>3, <2>4, <2>5 DEF OptsInv
<1>9. CASE Rootfsflags
  <2>1. CASE g' = [g EXCEPT !.newroot_mount.opts = NullOpts, !.newroot_mount.flags = {}]
    <3>1. PICK mc : mc = [[old EXCEPT !.opts = NullOpts] EXCEPT !.flags = {}]
      OBVIOUS
    <3>2. g' = [g EXCEPT !.newroot_mount = mc]
      BY <1>1, <1>2, <2>1, <3>1 DEF IsGlobals
    <3>3. mc.flags = {} /\ mc.opts = NullOpts
      BY <1>3, <3>1 DEF IsConfig
    <3>4. Spellable(mc)
      BY <3>3 DEF Spellable
    <3> QED
      BY <1>5, <3>2, <3>4
  <2>2. CASE g' = [g EXCEPT !.newroot_mount = AssignOpts(@, Arg.vals)]
    <3>1. pc = "arg" /\ k <= Len(argv)
      BY <1>9 DEF Rootfsflags, Called
    <3>2. /\ Arg \in Args /\ Len(Arg.vals) \in Nat /\ DOMAIN Arg.vals = 1..Len(Arg.vals)
          /\ Arg.vals \in Seq(ToSet(Arg.vals))
      BY <3>1, AtCall, ArgsAssumption
    <3>3. PICK vals : vals = Arg.vals
      OBVIOUS
    <3>4. Len(vals) \in Nat /\ \A i \in 1..Len(vals) : vals[i] # Null
      BY <3>2, <3>3, ArgsAssumption
    <3>5. PICK fl, op : fl = ParseMountOpts(vals).flags /\ op = ParseMountOpts(vals).opts
      OBVIOUS
    <3>6. PlainWords(op)
      BY <3>4, <3>5, ParsedIsSpellable
    <3>7. fl = FlagsOf(vals)
      BY <3>2, <3>3, <3>5, ParseFlags
    <3>8. fl \subseteq FlagNames
      BY <3>7 DEF FlagsOf, FlagNames
    <3>9. PICK mc : mc = [[old EXCEPT !.flags = fl] EXCEPT !.opts = op]
      OBVIOUS
    <3>10. g' = [g EXCEPT !.newroot_mount = mc]
      BY <1>2, <2>2, <3>3, <3>5, <3>9 DEF AssignOpts
    <3>11. mc.flags = fl /\ mc.opts = op
      BY <1>3, <3>9 DEF IsConfig
    <3>12. Spellable(mc)
      BY <3>6, <3>8, <3>11 DEF Spellable
    <3> QED
      BY <1>5, <3>10, <3>12
  <2> QED
    BY <1>4, <1>9, <2>1, <2>2 DEF Rootfsflags
<1> QED
  BY <1>6, <1>7, <1>8, <1>9

\* squashed_usr= changes RDONLY at most.
LEMMA UsrSteps ==
  ASSUME CmdlineInv, OptsInv, SquashedUsr
  PROVE  OptsInv'
<1>1. IsGlobals(g) /\ IsConfig(g.newroot_usr_mount)
  BY DEF CmdlineInv, Mountable
<1>2. PICK old, usr : old = g.newroot_mount /\ usr = g.newroot_usr_mount
  OBVIOUS
<1>3. IsConfig(usr) /\ Spellable(old) /\ Spellable(usr)
  BY <1>1, <1>2 DEF OptsInv
<1>4. \/ g' = g
      \/ \E mc : /\ g' = [g EXCEPT !.newroot_usr_mount = mc]
                 /\ \/ mc = Enable(usr, {"IS_ENABLED"})
                    \/ mc = DisableFlag(usr, {"RDONLY"}) \/ mc = EnableFlag(usr, {"RDONLY"})
                    \/ mc = [usr EXCEPT !.source = "/u.sfs"]
      \/ \E v : g' = [g EXCEPT !.want_newroot_usr_mount = v]
  BY <1>2 DEF SquashedUsr
<1>5. CASE g' = g
  BY <1>5 DEF OptsInv
<1>6. CASE \E v : g' = [g EXCEPT !.want_newroot_usr_mount = v]
  <2>1. g'.newroot_mount = old /\ g'.newroot_usr_mount = usr
    BY <1>1, <1>2, <1>6 DEF IsGlobals
  <2> QED
    BY <1>3, <2>1 DEF OptsInv
<1>7. ASSUME NEW mc, g' = [g EXCEPT !.newroot_usr_mount = mc],
             \/ mc = Enable(usr, {"IS_ENABLED"})
             \/ mc = DisableFlag(usr, {"RDONLY"}) \/ mc = EnableFlag(usr, {"RDONLY"})
             \/ mc = [usr EXCEPT !.source = "/u.sfs"]
      PROVE  OptsInv'
  <2>1. g'.newroot_mount = old /\ g'.newroot_usr_mount = mc
    BY <1>1, <1>2, <1>7 DEF IsGlobals
  <2>2. /\ mc.opts = usr.opts
        /\ \/ mc.flags = usr.flags \/ mc.flags = usr.flags \ {"RDONLY"}
           \/ mc.flags = usr.flags \cup {"RDONLY"}
    <3>1. CASE mc = [usr EXCEPT !.source = "/u.sfs"]
      BY <1>3, <3>1 DEF IsConfig
    <3>2. CASE mc = Enable(usr, {"IS_ENABLED"})
      BY <1>3, <3>2, Updated
    <3>3. CASE mc = DisableFlag(usr, {"RDONLY"})
      BY <1>3, <3>3, Updated
    <3>4. CASE mc = EnableFlag(usr, {"RDONLY"})
      BY <1>3, <3>4, Updated
    <3> QED
      BY <1>7, <3>1, <3>2, <3>3, <3>4
  <2>3. Spellable(mc)
    BY <1>3, <2>2, SpellableSame
  <2> QED
    BY <1>3, <2>1, <2>3 DEF OptsInv
<1> QED
  BY <1>4, <1>5, <1>6, <1>7

\* mount_config_autoset adds an option of its own at most.
LEMMA AutosetSpellable ==
  ASSUME NEW mc, IsConfig(mc), mc.source # Null, Spellable(mc)
  PROVE  Spellable(Autoset(mc))
<1>1. PICK m : m = Autoset(mc)
  OBVIOUS
<1>2. /\ m.flags = mc.flags \/ m.flags = mc.flags \cup {"RDONLY"}
      /\ m.opts = mc.opts \/ (mc.opts = NullOpts /\ m.opts = << "mode=0755" >>)
  BY <1>1, AutosetCompletes
<1>3. CASE m.opts = mc.opts
  BY <1>1, <1>2, <1>3, SpellableSame
<1>4. CASE mc.opts = NullOpts /\ m.opts = << "mode=0755" >>
  <2>1. PICK x : x = [mc EXCEPT !.flags = m.flags]
    OBVIOUS
  <2>2. x.flags = m.flags /\ x.opts = mc.opts
    BY <2>1 DEF IsConfig
  <2>3. Spellable(x)
    BY <1>2, <2>2, SpellableSame
  <2>4. IsPlain("mode=0755")
    BY DEF IsPlain, Sets, Clears, Ignored, EmptyString, Null
  <2>5. PlainWords(m.opts)
    <3>1. PICK w : w = "mode=0755"
      OBVIOUS
    <3>2. << w >> \in Seq({w}) /\ \A y \in {w} : IsPlain(y)
      BY <2>4, <3>1
    <3> QED
      BY <1>4, <3>1, <3>2 DEF PlainWords
  <2> QED
    BY <1>1, <2>2, <2>3, <2>5 DEF Spellable
<1> QED
  BY <1>2, <1>3, <1>4

\* After the last argument: RDONLY, and what mount_config_autoset adds.
LEMMA PostprocessOpts ==
  ASSUME CmdlineInv, OptsInv, Postprocess
  PROVE  OptsInv'
<1>1. PICK mc, usr : mc = g.newroot_mount /\ usr = g.newroot_usr_mount
  OBVIOUS
<1>2. /\ IsGlobals(g) /\ IsConfig(mc) /\ IsConfig(usr) /\ usr.source # Null
      /\ IsEnabled(mc) => mc.source # Null
  BY <1>1 DEF CmdlineInv, Mountable
<1>3. Spellable(mc) /\ Spellable(usr)
  BY <1>1 DEF OptsInv
<1>4. PICK r : r = IF IsFalse(g.root_ro_status) THEN DisableFlag(mc, {"RDONLY"})
                   ELSE EnableFlag(mc, {"RDONLY"})
  OBVIOUS
<1>5. PICK new, nusr : /\ new = IF IsEnabled(r) THEN Autoset(r) ELSE r
                       /\ nusr = IF IsEnabled(usr) THEN Autoset(usr) ELSE usr
  OBVIOUS
<1>6. g' = [g EXCEPT !.newroot_mount = new, !.newroot_usr_mount = nusr]
  BY <1>1, <1>2, <1>4, <1>5 DEF Postprocess, IsGlobals
<1>7. g'.newroot_mount = new /\ g'.newroot_usr_mount = nusr
  BY <1>2, <1>6 DEF IsGlobals
<1>8. /\ IsConfig(r) /\ r.cfg = mc.cfg /\ r.source = mc.source /\ r.opts = mc.opts
      /\ r.flags = mc.flags \ {"RDONLY"} \/ r.flags = mc.flags \cup {"RDONLY"}
  <2>1. CASE r = DisableFlag(mc, {"RDONLY"})
    BY <1>2, <2>1, Updated
  <2>2. CASE r = EnableFlag(mc, {"RDONLY"})
    BY <1>2, <2>2, Updated
  <2> QED
    BY <1>4, <2>1, <2>2
<1>9. Spellable(r)
  BY <1>3, <1>8, SpellableSame
<1>10. Spellable(new)
  <2>1. IsEnabled(r) => r.source # Null
    BY <1>2, <1>8 DEF IsEnabled
  <2> QED
    BY <1>5, <1>8, <1>9, <2>1, AutosetSpellable
<1>11. Spellable(nusr)
  BY <1>2, <1>3, <1>5, AutosetSpellable
<1> QED
  BY <1>7, <1>10, <1>11 DEF OptsInv

\* Flags and options stay what parse_mount_opts_str can read back.
LEMMA OptsKept ==
  ASSUME CmdlineInv, OptsInv, [Next]_vars
  PROVE  OptsInv'
<1>1. CASE UNCHANGED vars
  BY <1>1 DEF vars, OptsInv
<1>2. CASE \/ DontCare \/ Modprobe \/ RealInit \/ RoRw \/ NoRootMount \/ Rootfind \/ NoUsrMount
           \/ ZramSwap \/ ZramDisk \/ Xshell \/ ReadCmdline \/ ReadCmdlineFails
           \/ OnErrorShell \/ MountRoot \/ MountUsr
  <2>1. IsGlobals(g)
    BY DEF CmdlineInv, Mountable
  <2>2. g'.newroot_mount = g.newroot_mount /\ g'.newroot_usr_mount = g.newroot_usr_mount
    BY <1>2, <2>1, OtherSteps
  <2> QED
    BY <2>2 DEF OptsInv
<1> QED
  BY <1>1, <1>2, RootSteps, UsrSteps, PostprocessOpts DEF Next

\* What the properties say of options.
LEMMA OptionsAreKept ==
  ASSUME CmdlineInv, OptsInv
  PROVE  OptionsSurvive
<1> SUFFICES ASSUME complete, NEW mc \in {g.newroot_mount, g.newroot_usr_mount}
             PROVE  /\ IsEnabled(mc) => Autoset(mc) = mc
                    /\ "SYNCHRONOUS" \notin mc.flags =>
                         ParseMountOpts(GetMountOpts(mc.flags, mc.opts)) =
                           [flags |-> mc.flags, opts |-> IF mc.opts = NullOpts THEN << >> ELSE mc.opts]
  BY DEF OptionsSurvive
<1>1. Processed(argv, g)
  BY WhenComplete
<1>2. IsEnabled(mc) => Autoset(mc) = mc
  BY <1>1 DEF Processed
<1>3. Spellable(mc)
  BY DEF OptsInv
<1> QED
  BY <1>2, <1>3, ThereAndBack

\* Completing a configuration a second time (domount_from_config_if_enabled)
\* changes nothing, and the options that get_mount_opts_str spells out for an
\* external mount program are read back as the same flags and options, for
\* every command line.
THEOREM OptionsKept == Spec => []OptionsSurvive
<1>1. Init => OptsInv
  <2> SUFFICES ASSUME Init PROVE OptsInv
    OBVIOUS
  <2>1. PICK f : g = [Globals EXCEPT !.want = f]
    BY DEF Init
  <2>2. /\ g.newroot_mount = NewMountConfig(Null, "/newroot", "ext4", {}, NullOpts, {})
        /\ g.newroot_usr_mount =
             NewMountConfig("/newroot/usr.squashfs", "/newroot/usr", "squashfs",
                            {"RDONLY"}, NullOpts, {"NEED_LOOP"})
    BY <2>1 DEF Globals
  <2>3. PICK r, u : r = g.newroot_mount /\ u = g.newroot_usr_mount
    OBVIOUS
  <2>4. r.flags = {} /\ r.opts = NullOpts /\ u.flags = {} \cup {"RDONLY"} /\ u.opts = NullOpts
    BY <2>2, <2>3 DEF NewMountConfig
  <2>5. Spellable(r)
    BY <2>4 DEF Spellable
  <2>6. Spellable(u)
    BY <2>4, <2>5, SpellableSame
  <2> QED
    BY <2>3, <2>5, <2>6 DEF OptsInv
<1>2. CmdlineInv /\ OptsInv /\ [Next]_vars => OptsInv'
  BY OptsKept
<1>3. CmdlineInv /\ OptsInv => OptionsSurvive
  BY OptionsAreKept
<1> QED
  BY <1>1, <1>2, <1>3, SettingsInvariant, PTL DEF Spec
===============================================================================
