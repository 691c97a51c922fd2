------------------------------ MODULE Mounts_proofs ------------------------------
(***************************************************************************)
(* What /init leaves behind when it ends, and the order in which it        *)
(* unmounts, for any number of attempts and any other mounts.              *)
(***************************************************************************)
EXTENDS Mounts, FiniteSetTheorems, SequenceTheorems, NaturalsInduction,
        WellFoundedInduction, TLAPS

-------------------------------------------------------------------------------
(* The mount table.                                                           *)

BaseNames == {"proc", "sys", "dev", "run", "tmp"}
HandNames == {"dev", "sys", "proc"}
SubNames == {"pts", "shm"}

\* The directories mounted on in the initramfs and in newroot, newroot being
\* what is visible there.
OnRoot(x) == Dir(Root, <<x>>)
NR == Follow(OnRoot("newroot"))
OnNR(x) == Enter(NR, x)

\* Mount numbers, and records with all of their fields.
Types ==
  /\ DOMAIN tab \subseteq Nat \ {Root} /\ IsFiniteSet(DOMAIN tab)
  /\ tab = [m \in DOMAIN tab |-> tab[m]]
  /\ \A m \in DOMAIN tab :
       /\ tab[m] = [fs |-> tab[m].fs, by |-> tab[m].by, dir |-> tab[m].dir, level |-> tab[m].level]
       /\ tab[m].dir = Dir(tab[m].dir.mnt, tab[m].dir.path)

\* The mounts on a directory are numbered from below.
Levels ==
  /\ \A m \in DOMAIN tab :
       tab[m].level \in Nat /\ tab[m].level < Cardinality(Stack(tab[m].dir))
  /\ \A m, n \in DOMAIN tab :
       tab[m].dir = tab[n].dir /\ tab[m].level = tab[n].level => m = n

IsTop(m) == \A n \in DOMAIN tab : tab[n].dir = tab[m].dir => tab[n].level <= tab[m].level

\* A mount somewhere in a mount of the given kind on the given directory.
Inside(m, by, d) ==
  /\ \E y \in SubNames : tab[m].dir.path = <<y>>
  /\ tab[m].dir.mnt \in DOMAIN tab
  /\ tab[tab[m].dir.mnt].by = by /\ tab[tab[m].dir.mnt].dir = d

\* A directory that only /init mounts on.
Below(d) ==
  \/ d.mnt = Root /\ Reserved(d.path)
     /\ d.path # <<"newroot">>
  \/ d.mnt \in DOMAIN tab /\ tab[d.mnt].dir = OnRoot("newroot") /\ d.path[1] \in HandNames

BasePlace(m) ==
  \/ \E x \in BaseNames : tab[m].dir = OnRoot(x)
  \/ \E x \in HandNames : tab[m].dir = OnNR(x)
  \/ Inside(m, "base", OnRoot("dev"))
TempPlace(m) ==
  \/ \E x \in HandNames : tab[m].dir = OnNR(x)
  \/ Inside(m, "temp", OnNR("dev"))
OtherPlace(m) ==
  LET d == tab[m].dir
  IN  /\ d.mnt = Root \/ (d.mnt \in DOMAIN tab /\ tab[d.mnt].by = "other")
      /\ d.path # <<>> /\ ~ Below(d)

\* Who mounts where.
Placed(m) ==
  /\ tab[m].by \in {"base", "temp", "other"}
  /\ tab[m].by = "base" => BasePlace(m)
  /\ tab[m].by = "temp" => TempPlace(m)
  /\ tab[m].by = "other" => OtherPlace(m)
Places == \A m \in DOMAIN tab : Placed(m)

\* Only in newroot does /init mount twice on a directory.
Single ==
  \A m, n \in DOMAIN tab :
    tab[m].by # "other" /\ tab[n].dir = tab[m].dir /\ n # m =>
      \E x \in HandNames : tab[m].dir = OnNR(x)

TreeInv == Types /\ Levels /\ Places /\ Single

-------------------------------------------------------------------------------
(* How far the lists of calls have come.                                      *)

ListOf(at) ==
  CASE at = "base" -> BaseMounts [] at = "binds" -> NewrootBasemounts
    [] at = "aux" -> EjectAuxMounts [] at = "preswitch" -> PreswitchUmount
    [] at = "eject" -> EjectMounts [] OTHER -> <<>>

\* s is what is left of the list.
IsRest(s, list) ==
  /\ s \in Seq(ToSet(s)) /\ Len(s) <= Len(list)
  /\ \A j \in 1..Len(s) : s[j] = list[Len(list) - Len(s) + j]

Left == Len(todo)

Counters ==
  /\ pc \in {"base", "work", "binds", "bindlatch", "late", "aux", "last", "preswitch",
             "exec", "switchlatch", "switched", "eject", "panic"}
  /\ IsRest(todo, ListOf(pc))
  /\ binds \in Nat /\ switches \in Nat
  /\ pc \in {"base", "work"} => binds = 0
  /\ pc \in {"binds", "bindlatch"} => binds # 0
  /\ pc \in {"base", "work", "binds", "bindlatch", "late", "aux", "last"} => switches = 0
  /\ pc \in {"preswitch", "exec", "switchlatch", "switched"} => switches # 0

\* Nothing is mounted on a directory: of the initramfs, of somebody's mounts, of
\* newroot on somebody's behalf, or in a given mount.
Free(d) == \A m \in DOMAIN tab : tab[m].dir # d
RootFree(x) == Free(OnRoot(x))
NoneIn(by, y) == \A m \in DOMAIN tab : tab[m].by = by => tab[m].dir.path # <<y>>
NewrootNone(by, x) == \A m \in DOMAIN tab : tab[m].by = by => tab[m].dir # OnNR(x)
DevFree(D, y) == Free(Dir(D, <<y>>))

\* Who has mounted at all, and the temporary mounts once at most on a directory.
AllBase == \A m \in DOMAIN tab : tab[m].by = "base"
NoTemp == \A m \in DOMAIN tab : tab[m].by # "temp"
TempOnce ==
  \A m, n \in DOMAIN tab :
    tab[m].by = "temp" /\ tab[n].by = "temp" /\ tab[m].dir = tab[n].dir => m = n

\* The base mounts that are still to be made.
BaseProgress ==
  pc = "base" =>
    /\ AllBase
    /\ Left >= 8 => RootFree("proc")
    /\ Left >= 7 => RootFree("sys")
    /\ Left >= 6 => RootFree("dev")
    /\ Left >= 5 => NoneIn("base", "pts")
    /\ Left >= 4 => NoneIn("base", "shm")
    /\ Left >= 2 => RootFree("run")
    /\ Left >= 1 => RootFree("tmp")
    /\ Left \in {4, 5} => ~ RootFree("dev")

\* What is mounted on newroot's /dev is new, with nothing on the names in S.
DevReady(S) ==
  \E D \in DOMAIN tab :
    /\ tab[D].dir = OnNR("dev") /\ tab[D].by = "temp" /\ IsTop(D)
    /\ \A y \in S : DevFree(D, y)

\* The temporary mounts in newroot that are still to be made.
BindProgress ==
  /\ pc \in {"base", "work"} => NoTemp
  /\ pc = "binds" /\ Left \in 2..4 => DevReady({"shm", "pts"})
  /\ pc = "binds" /\ Left = 1 => DevReady({"pts"})
  /\ pc = "binds" /\ binds = 1 =>
       /\ Left >= 5 => NoTemp
       /\ Left >= 4 => NewrootNone("temp", "sys")
       /\ Left >= 3 => NewrootNone("temp", "proc")
  /\ binds <= 1 => TempOnce

\* The first initramfs_preswitch_umount has no more than n calls left to do.
Passed(n) == switches > 1 \/ (switches = 1 /\ (pc = "preswitch" => Left <= n))

\* The unmounts in newroot, of initramfs_preswitch_umount or initramfs_eject_mounts.
Ejected(n) == Passed(7 + n) \/ (pc = "eject" /\ Left <= 1 + n) \/ pc = "panic"

TempProgress ==
  binds <= 1 =>
    /\ Ejected(4) => NoneIn("temp", "shm")
    /\ Ejected(3) => NoneIn("temp", "pts")
    /\ Ejected(2) => NewrootNone("temp", "dev")
    /\ Ejected(1) => NewrootNone("temp", "sys")
    /\ Ejected(0) => NewrootNone("temp", "proc")

\* When newroot's /dev is unmounted, nothing is mounted inside of it.
TopDevFree(y) == \A D \in DOMAIN tab : tab[D].dir = OnNR("dev") /\ IsTop(D) => DevFree(D, y)
LeafProgress ==
  /\ pc = "preswitch" /\ Left \in {10, 11} => TopDevFree("shm")
  /\ pc = "preswitch" /\ Left = 10 => TopDevFree("pts")
  /\ pc = "eject" /\ Left \in {4, 5} => TopDevFree("shm")
  /\ pc = "eject" /\ Left = 4 => TopDevFree("pts")

\* The mounts of the initramfs that are gone.
SwitchProgress ==
  /\ Passed(6) => RootFree("run")
  /\ Passed(5) => RootFree("tmp")
  /\ Passed(4) => NoneIn("base", "shm")
  /\ Passed(3) => NoneIn("base", "pts")
  /\ Passed(2) => RootFree("dev")
  /\ Passed(1) => RootFree("sys")
  /\ Passed(0) => RootFree("proc")

\* What has been moved to newroot by the first call, when it has n calls left, is on
\* top there.
BaseTop(x) == \A m \in DOMAIN tab : tab[m].by = "base" /\ tab[m].dir = OnNR(x) => IsTop(m)
Hand(x, n) ==
  /\ ~ Passed(n) => NewrootNone("base", x) /\ <<x>> \notin refused
  /\ switches = 1 /\ pc \notin {"eject", "panic"} =>
       /\ <<x>> \in refused => NewrootNone("base", x)
       /\ Passed(n) /\ <<x>> \notin refused => ~ NewrootNone("base", x)
       /\ BaseTop(x)
HandProgress == Hand("dev", 2) /\ Hand("sys", 1) /\ Hand("proc", 0)

MountsInv ==
  /\ TreeInv /\ Counters
  /\ BaseProgress /\ BindProgress /\ TempProgress
  /\ LeafProgress /\ SwitchProgress /\ HandProgress

-------------------------------------------------------------------------------
(* Numbers and loops.                                                         *)

\* A set of natural numbers that is not empty has a least element.
LEMMA Least ==
  ASSUME NEW S \in SUBSET Nat, S # {}
  PROVE  \E n \in S : \A m \in S : n <= m
<1> DEFINE R == OpToRel(<, Nat)
<1>1. IsWellFoundedOn(R, Nat)
  BY NatLessThanWellFounded
<1>2. PICK x \in S : \A y \in S : ~ (<< y, x >> \in R)
  <2> HIDE DEF R
  <2> QED
    BY <1>1, WFMin
<1>3. \A y \in S : << y, x >> \in R <=> y < x
  BY DEF OpToRel
<1>4. \A y \in S : y \in Nat /\ x \in Nat /\ ~(y < x)
  <2> HIDE DEF R
  <2> QED
    BY <1>2, <1>3
<1> QED
  BY <1>4

\* Induction up to N, with a set for the predicate.
LEMMA UpTo ==
  ASSUME NEW N \in Nat, NEW S, 0 \in S,
         \A n \in 0..N : n + 1 \in 0..N /\ n \in S => n + 1 \in S
  PROVE  \A n \in 0..N : n \in S
<1> SUFFICES ASSUME (0..N) \ S # {} PROVE FALSE
  OBVIOUS
<1>1. (0..N) \ S \in SUBSET Nat
  OBVIOUS
<1>2. PICK n \in (0..N) \ S : \A m \in (0..N) \ S : n <= m
  BY <1>1, Least
<1>3. n \in Nat /\ n # 0 /\ n - 1 \in 0..N
  BY <1>2
<1>4. n - 1 \in S
  BY <1>2, <1>3
<1> QED
  BY <1>2, <1>3, <1>4

\* Walk is the walk along a path that it is written as.
LEMMA WalkLoop ==
  ASSUME NEW p, Len(p) \in Nat
  PROVE  /\ Walk(p)[0] = Dir(Root, <<>>)
         /\ \A n \in 1..Len(p) : Walk(p)[n] = Follow(Enter(Walk(p)[n-1], p[n]))
<1> DEFINE N == Len(p)
           E == Dir(Root, <<>>)
           G(d, n) == Follow(Enter(d, p[n]))
           F(f, M) == [n \in 0..M |-> IF n = 0 THEN E ELSE G(f[n-1], n)]
           S == {M \in 0..N : \E f : f = F(f, M)}
<1>0. Walk(p) = CHOOSE f : f = F(f, N)
  BY DEF Walk
<1> HIDE DEF E, G
<1>1. 0 \in S
  <2>1. PICK f : f = [n \in 0..0 |-> E]
    OBVIOUS
  <2>2. f = F(f, 0)
    BY <2>1
  <2>3. 0 \in 0..N
    OBVIOUS
  <2> HIDE DEF F
  <2> QED
    BY <2>2, <2>3
<1>2. ASSUME NEW M \in 0..N, M + 1 \in 0..N, M \in S PROVE M + 1 \in S
  <2>1. PICK f : f = F(f, M)
    BY <1>2
  <2>2. PICK h : h = [n \in 0..(M+1) |-> IF n = M + 1 THEN G(f[M], M+1) ELSE f[n]]
    OBVIOUS
  <2>3. \A n \in 0..M : h[n] = f[n]
    BY <2>2
  <2>4. \A n \in 0..M : f[n] = IF n = 0 THEN E ELSE G(f[n-1], n)
    BY <2>1
  <2>5. M \in Nat /\ \A n \in 0..(M+1) : n = M + 1 \/ n \in 0..M
    OBVIOUS
  <2>6. \A n \in 0..M : n # 0 => n - 1 \in 0..M
    OBVIOUS
  <2>7. \A n \in 0..M : h[n] = IF n = 0 THEN E ELSE G(h[n-1], n)
    BY <2>3, <2>4, <2>6
  <2>8. h[M+1] = G(h[M], M+1) /\ M + 1 # 0 /\ (M + 1) - 1 = M
    BY <2>2, <2>3, <2>5
  <2>9. \A n \in 0..(M+1) : h[n] = IF n = 0 THEN E ELSE G(h[n-1], n)
    BY <2>5, <2>7, <2>8
  <2>10. h = F(h, M + 1)
    BY <2>2, <2>9
  <2> QED
    BY <1>2, <2>10
<1>3. N \in S
  <2>1. N \in Nat /\ N \in 0..N
    OBVIOUS
  <2> HIDE DEF S, N
  <2> QED
    BY <1>1, <1>2, <2>1, UpTo
<1>4. \E f : f = F(f, N)
  BY <1>3
<1>5. Walk(p) = F(Walk(p), N)
  BY <1>0, <1>4
<1>6. Walk(p)[0] = E
  BY <1>5
<1>7. \A n \in 1..Len(p) : Walk(p)[n] = G(Walk(p)[n-1], n)
  BY <1>5
<1> QED
  BY <1>6, <1>7 DEF E, G

\* Paths of one, two and three names.
LEMMA ShortPaths ==
  ASSUME NEW a, NEW b, NEW c
  PROVE  /\ Lookup(<<>>) = Dir(Root, <<>>)
         /\ Lookup(<<a>>) = Follow(OnRoot(a))
         /\ Lookup(<<a, b>>) = Follow(Enter(Follow(OnRoot(a)), b))
         /\ Mountpoint(<<a>>) = OnRoot(a)
         /\ Mountpoint(<<a, b>>) = Enter(Follow(OnRoot(a)), b)
         /\ Mountpoint(<<a, b, c>>) = Enter(Follow(Enter(Follow(OnRoot(a)), b)), c)
<1>0. Enter(Dir(Root, <<>>), a) = OnRoot(a)
  BY DEF Enter, Dir, OnRoot
<1>1. Lookup(<<>>) = Dir(Root, <<>>)
  <2>1. Len(<<>>) = 0
    OBVIOUS
  <2> QED
    BY <2>1, WalkLoop DEF Lookup
<1>2. Lookup(<<a>>) = Follow(OnRoot(a))
  <2>1. Len(<<a>>) = 1 /\ <<a>>[1] = a /\ 1 \in 1..1 /\ 1 - 1 = 0
    OBVIOUS
  <2>2. Walk(<<a>>)[0] = Dir(Root, <<>>) /\ Walk(<<a>>)[1] = Follow(Enter(Walk(<<a>>)[0], a))
    BY <2>1, WalkLoop
  <2> QED
    BY <1>0, <2>1, <2>2 DEF Lookup
<1>3. Lookup(<<a, b>>) = Follow(Enter(Follow(OnRoot(a)), b))
  <2> DEFINE p == <<a, b>>
  <2>1. Len(p) = 2 /\ p[1] = a /\ p[2] = b
    OBVIOUS
  <2> HIDE DEF p
  <2>2. /\ Walk(p)[0] = Dir(Root, <<>>)
        /\ \A n \in 1..2 : Walk(p)[n] = Follow(Enter(Walk(p)[n-1], p[n]))
    BY <2>1, WalkLoop
  <2>3. Walk(p)[1] = Follow(Enter(Walk(p)[0], a))
    <3>1. 1 \in 1..2 /\ 1 - 1 = 0
      OBVIOUS
    <3> QED
      BY <2>1, <2>2, <3>1
  <2>4. Walk(p)[2] = Follow(Enter(Walk(p)[1], b))
    <3>1. 2 \in 1..2 /\ 2 - 1 = 1
      OBVIOUS
    <3> QED
      BY <2>1, <2>2, <3>1
  <2> QED
    BY <1>0, <2>1, <2>2, <2>3, <2>4 DEF Lookup, p
<1>4. /\ Front(<<a>>) = <<>> /\ Last(<<a>>) = a
      /\ Front(<<a, b>>) = <<a>> /\ Last(<<a, b>>) = b
      /\ Front(<<a, b, c>>) = <<a, b>> /\ Last(<<a, b, c>>) = c
  <2>1. Front(<<a>>) = <<>>
    <3>1. SubSeq(<<a>>, 1, 0) = <<>> /\ Len(<<a>>) - 1 = 0
      OBVIOUS
    <3> QED
      BY <3>1 DEF Front
  <2>2. Front(<<a, b>>) = <<a>>
    <3>1. Len(<<a, b>>) - 1 = 1
      OBVIOUS
    <3>2. SubSeq(<<a, b>>, 1, 1) = <<a>>
      <4>1. \A i \in 1..1 : <<a, b>>[i] \in {a}
        OBVIOUS
      <4>2. SubSeq(<<a, b>>, 1, 1) \in Seq({a}) /\ Len(SubSeq(<<a, b>>, 1, 1)) = 1
            /\ SubSeq(<<a, b>>, 1, 1)[1] = <<a, b>>[1]
        BY <4>1, SubSeqProperties
      <4>3. <<a>> \in Seq({a}) /\ Len(<<a>>) = 1 /\ <<a>>[1] = <<a, b>>[1]
        OBVIOUS
      <4>4. PICK s : s = SubSeq(<<a, b>>, 1, 1)
        OBVIOUS
      <4>5. PICK t : t = <<a>>
        OBVIOUS
      <4>6. s \in Seq({a}) /\ t \in Seq({a}) /\ Len(s) = Len(t) /\ \A i \in 1..Len(s) : s[i] = t[i]
        BY <4>2, <4>3, <4>4, <4>5
      <4> QED
        BY <4>4, <4>5, <4>6, SeqEqual
    <3> QED
      BY <3>1, <3>2 DEF Front
  <2>3. Front(<<a, b, c>>) = <<a, b>>
    <3>1. Len(<<a, b, c>>) - 1 = 2
      OBVIOUS
    <3>2. SubSeq(<<a, b, c>>, 1, 2) = <<a, b>>
      <4>1. \A i \in 1..2 : <<a, b, c>>[i] \in {a, b}
        OBVIOUS
      <4>2. SubSeq(<<a, b, c>>, 1, 2) \in Seq({a, b}) /\ Len(SubSeq(<<a, b, c>>, 1, 2)) = 2
            /\ \A i \in 1..2 : SubSeq(<<a, b, c>>, 1, 2)[i] = <<a, b, c>>[i]
        BY <4>1, SubSeqProperties
      <4>3. <<a, b>> \in Seq({a, b}) /\ Len(<<a, b>>) = 2 /\ \A i \in 1..2 : <<a, b>>[i] = <<a, b, c>>[i]
        OBVIOUS
      <4>4. PICK s : s = SubSeq(<<a, b, c>>, 1, 2)
        OBVIOUS
      <4>5. PICK t : t = <<a, b>>
        OBVIOUS
      <4>6. s \in Seq({a, b}) /\ t \in Seq({a, b}) /\ Len(s) = Len(t) /\ \A i \in 1..Len(s) : s[i] = t[i]
        BY <4>2, <4>3, <4>4, <4>5
      <4> QED
        BY <4>4, <4>5, <4>6, SeqEqual
    <3> QED
      BY <3>1, <3>2 DEF Front
  <2>4. Last(<<a>>) = a /\ Last(<<a, b>>) = b /\ Last(<<a, b, c>>) = c
    BY DEF Last
  <2> QED
    BY <2>1, <2>2, <2>3, <2>4
<1> QED
  BY <1>0, <1>1, <1>2, <1>3, <1>4 DEF Mountpoint

-------------------------------------------------------------------------------
(* What is visible.                                                           *)

\* The number of mounts on a directory is one.
LEMMA StackSize ==
  ASSUME Types, NEW d
  PROVE  IsFiniteSet(Stack(d)) /\ Cardinality(Stack(d)) \in Nat
<1>1. Stack(d) \subseteq DOMAIN tab
  BY DEF Stack
<1> QED
  BY <1>1, FS_Subset, FS_CardinalityType DEF Types

\* There is one mount on top of the others on a directory, and it is the one that
\* is visible.
TopFacts ==
  \A d :
    /\ Free(d) => Stack(d) = {} /\ Follow(d) = d
    /\ ~ Free(d) => Stack(d) # {} /\ \E m \in DOMAIN tab : tab[m].dir = d /\ IsTop(m)
    /\ \A m \in DOMAIN tab : tab[m].dir = d /\ IsTop(m) =>
         Stack(d) # {} /\ TopOf(Stack(d)) = m /\ Follow(d) = Dir(m, <<>>)

\* This follows from the numbering of the mounts on a directory.
LEMMA FollowTop ==
  Types /\ Levels => TopFacts
<1> SUFFICES ASSUME Types, Levels, NEW d
             PROVE  /\ Free(d) => Stack(d) = {} /\ Follow(d) = d
                    /\ ~ Free(d) => Stack(d) # {} /\ \E m \in DOMAIN tab : tab[m].dir = d /\ IsTop(m)
                    /\ \A m \in DOMAIN tab : tab[m].dir = d /\ IsTop(m) =>
                         Stack(d) # {} /\ TopOf(Stack(d)) = m /\ Follow(d) = Dir(m, <<>>)
  BY DEF TopFacts
<1>1. Free(d) => Stack(d) = {} /\ Follow(d) = d
  BY DEF Free, Stack, Follow
<1>2. ASSUME ~ Free(d)
      PROVE  Stack(d) # {} /\ \E m \in DOMAIN tab : tab[m].dir = d /\ IsTop(m)
  <2>1. PICK n \in DOMAIN tab : tab[n].dir = d
    BY <1>2 DEF Free
  <2>2. Stack(d) # {} /\ n \in Stack(d)
    BY <2>1 DEF Stack
  <2> DEFINE C == Cardinality(Stack(d))
             T == {C - tab[m].level : m \in Stack(d)}
  <2>3. C \in Nat
    BY StackSize
  <2>4. \A m \in Stack(d) : m \in DOMAIN tab /\ tab[m].dir = d /\ tab[m].level \in Nat /\ tab[m].level < C
    BY DEF Stack, Levels
  <2> HIDE DEF C
  <2>5. T \in SUBSET Nat /\ T # {}
    BY <2>2, <2>3, <2>4
  <2>6. PICK t \in T : \A u \in T : t <= u
    <3> HIDE DEF T
    <3> QED
      BY <2>5, Least
  <2>7. PICK m \in Stack(d) : t = C - tab[m].level
    BY <2>6
  <2>8. \A k \in Stack(d) : C - tab[m].level <= C - tab[k].level
    BY <2>6, <2>7
  <2>9. \A k \in Stack(d) : tab[k].level <= tab[m].level
    BY <2>3, <2>4, <2>7, <2>8
  <2>10. \A k \in DOMAIN tab : tab[k].dir = d => k \in Stack(d)
    BY DEF Stack
  <2> QED
    BY <2>2, <2>4, <2>7, <2>9, <2>10 DEF IsTop
<1>3. ASSUME NEW m \in DOMAIN tab, tab[m].dir = d, IsTop(m)
      PROVE  Stack(d) # {} /\ TopOf(Stack(d)) = m /\ Follow(d) = Dir(m, <<>>)
  <2>1. m \in Stack(d)
    BY <1>3 DEF Stack
  <2>2. \A n \in Stack(d) : tab[n].level <= tab[m].level
    BY <1>3 DEF IsTop, Stack
  <2>3. TopOf(Stack(d)) \in Stack(d) /\ \A n \in Stack(d) : tab[n].level <= tab[TopOf(Stack(d))].level
    BY <2>1, <2>2 DEF TopOf
  <2> DEFINE k == TopOf(Stack(d))
  <2>4. k \in DOMAIN tab /\ tab[k].dir = d /\ tab[k].level \in Nat /\ tab[m].level \in Nat
    BY <2>3 DEF Stack, Levels
  <2>5. tab[k].level = tab[m].level
    BY <2>1, <2>2, <2>3, <2>4
  <2>6. k = m
    BY <1>3, <2>4, <2>5 DEF Levels
  <2> QED
    BY <2>1, <2>6 DEF Follow
<1> QED
  BY <1>1, <1>2, <1>3

\* The same after a step.
LEMMA FollowTopNext ==
  Types' /\ Levels' => TopFacts'
  BY FollowTop, PTL

\* The number of a new mount is one that is not taken.
LEMMA FreshIsNew ==
  ASSUME Types
  PROVE  Fresh \in Nat \ {Root} /\ Fresh \notin DOMAIN tab
<1> DEFINE C == Cardinality(DOMAIN tab)
<1>1. IsFiniteSet(DOMAIN tab) /\ C \in Nat
  BY FS_CardinalityType DEF Types
<1>2. IsFiniteSet(1..(C + 1)) /\ Cardinality(1..(C + 1)) = C + 1
  <2>1. 1 \in Int /\ C + 1 \in Int /\ ~(1 > C + 1)
    BY <1>1
  <2> QED
    BY <1>1, <2>1, FS_Interval
<1>3. ~ (1..(C + 1) \subseteq DOMAIN tab)
  <2> SUFFICES ASSUME 1..(C + 1) \subseteq DOMAIN tab PROVE FALSE
    OBVIOUS
  <2>1. Cardinality(1..(C + 1)) <= Cardinality(DOMAIN tab)
    BY <1>1, FS_Subset
  <2> QED
    BY <1>1, <1>2, <2>1
<1>4. Fresh \in 1..(C + 1) /\ Fresh \notin DOMAIN tab
  BY <1>3 DEF Fresh
<1> QED
  BY <1>1, <1>4 DEF Root

\* What is mounted in a mount with nothing mounted in it is that mount alone.
LEMMA SubtreeLeaf ==
  ASSUME Types, NEW m, \A n \in DOMAIN tab : tab[n].dir.mnt # m
  PROVE  Subtree(m) = {m}
<1> DEFINE C == Cardinality(DOMAIN tab)
           G(s) == s \cup {n \in DOMAIN tab : tab[n].dir.mnt \in s}
           F(f) == [k \in 0..C |-> IF k = 0 THEN {m} ELSE G(f[k-1])]
<1>1. C \in Nat
  BY FS_CardinalityType DEF Types
<1>2. PICK g : g = CHOOSE f : f = F(f)
  OBVIOUS
<1>3. Subtree(m) = g[C]
  BY <1>2 DEF Subtree
<1>4. G({m}) = {m}
  OBVIOUS
<1> HIDE DEF C, G
<1>5. \E f : f = F(f)
  <2>1. PICK f : f = [k \in 0..C |-> {m}]
    OBVIOUS
  <2>2. \A k \in 0..C : k # 0 => k - 1 \in 0..C
    BY <1>1
  <2>3. \A k \in 0..C : f[k] = IF k = 0 THEN {m} ELSE G(f[k-1])
    BY <1>4, <2>1, <2>2
  <2>4. f = F(f)
    BY <2>1, <2>3
  <2> QED
    BY <2>4
<1>6. g = F(g)
  BY <1>2, <1>5
<1>7. g[0] = {m} /\ \A k \in 0..C : k # 0 => g[k] = G(g[k-1])
  <2>1. 0 \in 0..C
    BY <1>1
  <2>2. \A k \in 0..C : g[k] = IF k = 0 THEN {m} ELSE G(g[k-1])
    BY <1>6, Zenon
  <2> QED
    BY <2>1, <2>2
<1> DEFINE S == {k \in 0..C : g[k] = {m}}
<1>8. 0 \in S
  BY <1>1, <1>7
<1>9. \A k \in 0..C : k + 1 \in 0..C /\ k \in S => k + 1 \in S
  <2> SUFFICES ASSUME NEW k \in 0..C, k + 1 \in 0..C, k \in S PROVE k + 1 \in S
    OBVIOUS
  <2>1. k + 1 # 0 /\ (k + 1) - 1 = k
    OBVIOUS
  <2> QED
    BY <1>4, <1>7, <2>1
<1>10. C \in 0..C
  BY <1>1
<1>11. C \in S
  <2> HIDE DEF S
  <2> QED
    BY <1>1, <1>8, <1>9, <1>10, UpTo
<1> QED
  BY <1>3, <1>11

-------------------------------------------------------------------------------
(* What a call does to the table.                                             *)

\* A mount with a new number, on top of what is mounted on d.
Added(new, by, d) ==
  /\ new \in Nat \ {Root} /\ new \notin DOMAIN tab
  /\ DOMAIN tab' = DOMAIN tab \cup {new}
  /\ \A m \in DOMAIN tab : tab'[m] = tab[m]
  /\ tab'[new].by = by /\ tab'[new].dir = d
  /\ IsTop(new)'
  /\ \A m \in DOMAIN tab : tab[m].dir # d => (IsTop(m)' <=> IsTop(m))

\* The removal of a mount.
Removed(m) ==
  /\ m \in DOMAIN tab /\ DOMAIN tab' = DOMAIN tab \ {m}
  /\ \A n \in DOMAIN tab' : tab'[n] = tab[n]
  /\ \A n \in DOMAIN tab' : tab[n].dir # tab[m].dir => (IsTop(n)' <=> IsTop(n))

\* A mount that is moved on top of what is mounted on d.
MovedTo(m, d) ==
  /\ m \in DOMAIN tab /\ DOMAIN tab' = DOMAIN tab
  /\ \A n \in DOMAIN tab : n # m => tab'[n] = tab[n]
  /\ tab'[m].by = tab[m].by /\ tab'[m].dir = d
  /\ IsTop(m)'
  /\ \A n \in DOMAIN tab : tab[n].dir \notin {d, tab[m].dir} => (IsTop(n)' <=> IsTop(n))

\* mount(2).
LEMMA MountEffect ==
  ASSUME Types, Levels, NEW fs, NEW by, NEW p, tab' = Mounted(fs, by, p),
         NEW d, Mountpoint(p) = d, d = Dir(d.mnt, d.path)
  PROVE  Types' /\ Levels' /\ \E new : Added(new, by, d)
<1>1. PICK new : new = Fresh
  OBVIOUS
<1>2. new \in Nat \ {Root} /\ new \notin DOMAIN tab
  BY <1>1, FreshIsNew
<1>3. PICK c : c = Cardinality(Stack(d))
  OBVIOUS
<1>4. c \in Nat /\ IsFiniteSet(Stack(d))
  BY <1>3, StackSize
<1>5. tab' = [m \in DOMAIN tab \cup {new} |->
                IF m = new THEN [fs |-> fs, by |-> by, dir |-> d, level |-> c] ELSE tab[m]]
  BY <1>1, <1>3 DEF Mounted, MountRecord
<1>6. /\ DOMAIN tab' = DOMAIN tab \cup {new}
      /\ \A m \in DOMAIN tab : tab'[m] = tab[m]
      /\ tab'[new] = [fs |-> fs, by |-> by, dir |-> d, level |-> c]
  BY <1>2, <1>5
<1>7. Types'
  <2>1. IsFiniteSet(DOMAIN tab')
    BY <1>6, FS_AddElement DEF Types
  <2>2. tab' = [m \in DOMAIN tab' |-> tab'[m]]
    BY <1>5
  <2>3. DOMAIN tab' \subseteq Nat \ {Root}
    BY <1>2, <1>6 DEF Types
  <2>4. \A m \in DOMAIN tab' :
       /\ tab'[m] = [fs |-> tab'[m].fs, by |-> tab'[m].by, dir |-> tab'[m].dir, level |-> tab'[m].level]
       /\ tab'[m].dir = Dir(tab'[m].dir.mnt, tab'[m].dir.path)
    <3>1. \A m \in DOMAIN tab : 
       /\ tab[m] = [fs |-> tab[m].fs, by |-> tab[m].by, dir |-> tab[m].dir, level |-> tab[m].level]
       /\ tab[m].dir = Dir(tab[m].dir.mnt, tab[m].dir.path)
      BY DEF Types
    <3>2. /\ tab'[new] = [fs |-> tab'[new].fs, by |-> tab'[new].by, dir |-> tab'[new].dir, level |-> tab'[new].level]
          /\ tab'[new].dir = d
      BY <1>6
    <3> QED
      BY <1>6, <3>1, <3>2
  <2> QED
    BY <2>1, <2>2, <2>3, <2>4 DEF Types, Dir
<1>8. /\ \A e : e # d => Stack(e)' = Stack(e)
      /\ Stack(d)' = Stack(d) \cup {new} /\ new \notin Stack(d)
  BY <1>2, <1>6 DEF Stack
<1>9. Cardinality(Stack(d)') = c + 1
  BY <1>3, <1>4, <1>8, FS_AddElement
<1>10. \A m \in DOMAIN tab : tab[m].level \in Nat /\ tab[m].level < Cardinality(Stack(tab[m].dir))
  BY DEF Levels
<1>11. \A m \in DOMAIN tab : tab[m].dir = d => tab[m].level < c
  BY <1>3, <1>10
<1>12. Levels'
  <2>1. \A e : \A m \in DOMAIN tab' : tab'[m].dir = e =>
          tab'[m].level \in Nat /\ tab'[m].level < Cardinality(Stack(e)')
    <3> SUFFICES ASSUME NEW e, NEW m \in DOMAIN tab', tab'[m].dir = e
                 PROVE  tab'[m].level \in Nat /\ tab'[m].level < Cardinality(Stack(e)')
      OBVIOUS
    <3>1. CASE m = new
      BY <1>4, <1>6, <1>9, <3>1
    <3>2. CASE m \in DOMAIN tab /\ tab[m].dir = d
      BY <1>4, <1>6, <1>9, <1>10, <1>11, <3>2
    <3>3. CASE m \in DOMAIN tab /\ tab[m].dir # d
      BY <1>6, <1>8, <1>10, <3>3
    <3> QED
      BY <1>6, <3>1, <3>2, <3>3
  <2>2. \A m, n \in DOMAIN tab' :
       tab'[m].dir = tab'[n].dir /\ tab'[m].level = tab'[n].level => m = n
    <3>1. \A m, n \in DOMAIN tab : tab[m].dir = tab[n].dir /\ tab[m].level = tab[n].level => m = n
      BY DEF Levels
    <3>2. \A m \in DOMAIN tab : tab[m].dir = d => tab[m].level # c
      BY <1>4, <1>10, <1>11
    <3> QED
      BY <1>6, <3>1, <3>2
  <2> QED
    BY <2>1, <2>2 DEF Levels
<1>13. IsTop(new)'
  <2>1. \A n \in DOMAIN tab' : tab'[n].dir = d => tab'[n].level <= c
    BY <1>4, <1>6, <1>10, <1>11
  <2> QED
    BY <1>6, <2>1 DEF IsTop
<1>14. \A m \in DOMAIN tab : tab[m].dir # d => (IsTop(m)' <=> IsTop(m))
  BY <1>6 DEF IsTop
<1>15. tab'[new].by = by /\ tab'[new].dir = d
  BY <1>6
<1>16. Added(new, by, d)
  BY <1>2, <1>6, <1>13, <1>14, <1>15 DEF Added
<1> QED
  BY <1>7, <1>12, <1>16

\* umount(2), of a mount with nothing mounted in it.
LEMMA UmountEffect ==
  ASSUME Types, Levels, NEW p, tab' = Umounted(p), NEW d, Mountpoint(p) = d,
         \A m \in DOMAIN tab : tab[m].dir = d /\ IsTop(m) => \A n \in DOMAIN tab : tab[n].dir.mnt # m
  PROVE  /\ Types' /\ Levels'
         /\ \/ Free(d) /\ tab' = tab
            \/ \E m \in DOMAIN tab : tab[m].dir = d /\ IsTop(m) /\ Removed(m)
<1>1. TopFacts
  BY FollowTop
<1>2. CASE Free(d)
  <2>1. ~ IsMountpoint(p)
    BY <1>1, <1>2 DEF IsMountpoint, TopFacts
  <2>2. tab' = [m \in DOMAIN tab |-> tab[m]]
    BY <2>1 DEF Umounted
  <2>3. tab' = tab
    BY <2>2 DEF Types
  <2>4. Types'
    BY <2>3 DEF Types, Dir
  <2>5. Levels'
    BY <2>3 DEF Levels, Stack
  <2> QED
    BY <1>2, <2>3, <2>4, <2>5
<1>3. CASE ~ Free(d)
  <2>1. PICK t \in DOMAIN tab : tab[t].dir = d /\ IsTop(t)
    BY <1>1, <1>3 DEF TopFacts
  <2>2. IsMountpoint(p) /\ TopOf(Stack(d)) = t
    BY <1>1, <2>1 DEF TopFacts, IsMountpoint
  <2>3. Subtree(t) = {t}
    BY <2>1, SubtreeLeaf
  <2>4. tab' = [m \in DOMAIN tab \ {t} |-> tab[m]]
    BY <2>2, <2>3 DEF Umounted
  <2>5. DOMAIN tab' = DOMAIN tab \ {t} /\ \A n \in DOMAIN tab' : tab'[n] = tab[n]
    BY <2>4
  <2>6. Types'
    <3>1. IsFiniteSet(DOMAIN tab')
      BY <2>5, FS_RemoveElement DEF Types
    <3>2. tab' = [m \in DOMAIN tab' |-> tab'[m]]
      BY <2>4
    <3> QED
      BY <2>5, <3>1, <3>2 DEF Types, Dir
  <2>7. /\ \A e : e # d => Stack(e)' = Stack(e)
        /\ Stack(d)' = Stack(d) \ {t} /\ t \in Stack(d)
    BY <2>1, <2>5 DEF Stack
  <2> DEFINE c == Cardinality(Stack(d))
  <2>8. c \in Nat /\ Cardinality(Stack(d)') = c - 1
    <3>1. IsFiniteSet(Stack(d)) /\ c \in Nat
      BY StackSize
    <3>2. Cardinality(Stack(d) \ {t}) = c - 1
      BY <2>7, <3>1, FS_RemoveElement
    <3> QED
      BY <2>7, <3>1, <3>2
  <2>9. \A m \in DOMAIN tab : tab[m].level \in Nat /\ tab[m].level < Cardinality(Stack(tab[m].dir))
    BY DEF Levels
  <2>10. \A m, n \in DOMAIN tab : tab[m].dir = tab[n].dir /\ tab[m].level = tab[n].level => m = n
    BY DEF Levels
  <2>11. tab[t].level < c
    BY <2>1, <2>9
  <2> HIDE DEF c
  <2>12. \A m \in DOMAIN tab' : tab[m].dir = d => tab[m].level < tab[t].level
    BY <2>1, <2>5, <2>9, <2>10 DEF IsTop
  <2>13. Levels'
    <3>1. \A e : \A m \in DOMAIN tab' : tab'[m].dir = e =>
            tab'[m].level \in Nat /\ tab'[m].level < Cardinality(Stack(e)')
      <4> SUFFICES ASSUME NEW e, NEW m \in DOMAIN tab', tab'[m].dir = e
                   PROVE  tab'[m].level \in Nat /\ tab'[m].level < Cardinality(Stack(e)')
        OBVIOUS
      <4>1. CASE e = d
        BY <2>1, <2>5, <2>8, <2>9, <2>11, <2>12, <4>1
      <4>2. CASE e # d
        BY <2>5, <2>7, <2>9, <4>2
      <4> QED
        BY <4>1, <4>2
    <3>2. \A m, n \in DOMAIN tab' : tab'[m].dir = tab'[n].dir /\ tab'[m].level = tab'[n].level => m = n
      BY <2>5, <2>10
    <3> QED
      BY <3>1, <3>2 DEF Levels
  <2>14. Removed(t)
    <3>1. \A n \in DOMAIN tab' : tab[n].dir # tab[t].dir => (IsTop(n)' <=> IsTop(n))
      BY <2>1, <2>5 DEF IsTop
    <3> QED
      BY <2>5, <3>1 DEF Removed
  <2> QED
    BY <2>1, <2>6, <2>13, <2>14
<1> QED
  BY <1>2, <1>3

\* mount(2) with MS_MOVE.
LEMMA MoveEffect ==
  ASSUME Types, Levels, NEW src, NEW dst, IsMountpoint(src), tab' = Moved(src, dst),
         NEW e, Mountpoint(src) = e, NEW d, Mountpoint(dst) = d, d # e,
         d = Dir(d.mnt, d.path)
  PROVE  /\ Types' /\ Levels'
         /\ \E m \in DOMAIN tab : tab[m].dir = e /\ IsTop(m) /\ MovedTo(m, d)
<1>1. TopFacts
  BY FollowTop
<1>2. ~ Free(e)
  BY <1>1 DEF TopFacts, IsMountpoint
<1>3. PICK t \in DOMAIN tab : tab[t].dir = e /\ IsTop(t)
  BY <1>1, <1>2 DEF TopFacts
<1>4. TopOf(Stack(e)) = t
  BY <1>1, <1>3 DEF TopFacts
<1>5. PICK c : c = Cardinality(Stack(d))
  OBVIOUS
<1>6. c \in Nat /\ IsFiniteSet(Stack(d))
  BY <1>5, StackSize
<1>7. tab' = [tab EXCEPT ![t] = [@ EXCEPT !.dir = d, !.level = c]]
  BY <1>4, <1>5 DEF Moved
<1>8. tab[t] = [fs |-> tab[t].fs, by |-> tab[t].by, dir |-> tab[t].dir, level |-> tab[t].level]
  BY DEF Types
<1>9. /\ DOMAIN tab' = DOMAIN tab
      /\ \A n \in DOMAIN tab : n # t => tab'[n] = tab[n]
      /\ tab'[t] = [fs |-> tab[t].fs, by |-> tab[t].by, dir |-> d, level |-> c]
  <2>1. DOMAIN tab' = DOMAIN tab /\ \A n \in DOMAIN tab : n # t => tab'[n] = tab[n]
    BY <1>7
  <2>2. PICK r : r = tab[t]
    OBVIOUS
  <2>3. tab'[t] = [r EXCEPT !.dir = d, !.level = c]
    BY <1>7, <2>2
  <2>4. tab'[t] = [fs |-> r.fs, by |-> r.by, dir |-> d, level |-> c]
    BY <1>8, <2>2, <2>3
  <2> QED
    BY <2>1, <2>2, <2>4
<1>10. Types'
  <2>1. tab' = [m \in DOMAIN tab' |-> tab'[m]]
    BY <1>7
  <2>2. \A m \in DOMAIN tab' :
       /\ tab'[m] = [fs |-> tab'[m].fs, by |-> tab'[m].by, dir |-> tab'[m].dir, level |-> tab'[m].level]
       /\ tab'[m].dir = Dir(tab'[m].dir.mnt, tab'[m].dir.path)
    <3>1. \A m \in DOMAIN tab : 
       /\ tab[m] = [fs |-> tab[m].fs, by |-> tab[m].by, dir |-> tab[m].dir, level |-> tab[m].level]
       /\ tab[m].dir = Dir(tab[m].dir.mnt, tab[m].dir.path)
      BY DEF Types
    <3>2. /\ tab'[t] = [fs |-> tab'[t].fs, by |-> tab'[t].by, dir |-> tab'[t].dir, level |-> tab'[t].level]
          /\ tab'[t].dir = d
      BY <1>9
    <3> QED
      BY <1>9, <3>1, <3>2
  <2> QED
    BY <1>9, <2>1, <2>2 DEF Types, Dir
<1>11. /\ \A f : f # d /\ f # e => Stack(f)' = Stack(f)
       /\ Stack(d)' = Stack(d) \cup {t} /\ t \notin Stack(d)
       /\ Stack(e)' = Stack(e) \ {t} /\ t \in Stack(e)
  BY <1>3, <1>9 DEF Stack
<1>12. Cardinality(Stack(d)') = c + 1
  BY <1>5, <1>6, <1>11, FS_AddElement
<1> DEFINE k == Cardinality(Stack(e))
<1>13. k \in Nat /\ Cardinality(Stack(e)') = k - 1
  <2>1. IsFiniteSet(Stack(e)) /\ k \in Nat
    BY StackSize
  <2>2. Cardinality(Stack(e) \ {t}) = k - 1
    BY <1>11, <2>1, FS_RemoveElement
  <2> QED
    BY <1>11, <2>1, <2>2
<1>14. \A m \in DOMAIN tab : tab[m].level \in Nat /\ tab[m].level < Cardinality(Stack(tab[m].dir))
  BY DEF Levels
<1>15. \A m, n \in DOMAIN tab : tab[m].dir = tab[n].dir /\ tab[m].level = tab[n].level => m = n
  BY DEF Levels
<1>16. tab[t].level < k /\ \A m \in DOMAIN tab : tab[m].dir = d => tab[m].level < c
  BY <1>3, <1>5, <1>14
<1> HIDE DEF k
<1>17. \A m \in DOMAIN tab : tab[m].dir = e /\ m # t => tab[m].level < tab[t].level
  BY <1>3, <1>14, <1>15 DEF IsTop
<1>18. Levels'
  <2>1. \A f : \A m \in DOMAIN tab' : tab'[m].dir = f =>
          tab'[m].level \in Nat /\ tab'[m].level < Cardinality(Stack(f)')
    <3> SUFFICES ASSUME NEW f, NEW m \in DOMAIN tab', tab'[m].dir = f
                 PROVE  tab'[m].level \in Nat /\ tab'[m].level < Cardinality(Stack(f)')
      OBVIOUS
    <3>1. CASE m = t
      BY <1>6, <1>9, <1>12, <3>1
    <3>2. CASE m # t /\ f = d
      BY <1>6, <1>9, <1>12, <1>14, <1>16, <3>2
    <3>3. CASE m # t /\ f = e
      BY <1>3, <1>9, <1>13, <1>14, <1>16, <1>17, <3>3
    <3>4. CASE m # t /\ f # d /\ f # e
      BY <1>9, <1>11, <1>14, <3>4
    <3> QED
      BY <3>1, <3>2, <3>3, <3>4
  <2>2. \A m, n \in DOMAIN tab' :
       tab'[m].dir = tab'[n].dir /\ tab'[m].level = tab'[n].level => m = n
    <3>1. \A m \in DOMAIN tab : tab[m].dir = d => tab[m].level # c
      BY <1>6, <1>14, <1>16
    <3> QED
      BY <1>9, <1>15, <3>1
  <2> QED
    BY <2>1, <2>2 DEF Levels
<1>19. MovedTo(t, d)
  <2>1. \A n \in DOMAIN tab' : tab'[n].dir = d => tab'[n].level <= c
    BY <1>6, <1>9, <1>14, <1>16
  <2>2. IsTop(t)'
    BY <1>9, <2>1 DEF IsTop
  <2>3. \A n \in DOMAIN tab : tab[n].dir \notin {d, tab[t].dir} => (IsTop(n)' <=> IsTop(n))
    BY <1>3, <1>9 DEF IsTop
  <2>4. tab'[t].by = tab[t].by /\ tab'[t].dir = d
    BY <1>9
  <2> QED
    BY <1>9, <2>2, <2>3, <2>4 DEF MovedTo
<1> QED
  BY <1>3, <1>10, <1>18, <1>19

-------------------------------------------------------------------------------
(* Who is mounted where.                                                      *)

\* newroot is a directory of the initramfs, or what is mounted there.
LEMMA NewrootIs ==
  ASSUME Types, Levels
  PROVE  \/ /\ Free(OnRoot("newroot")) /\ NR = OnRoot("newroot")
            /\ \A x : OnNR(x) = Dir(Root, <<"newroot", x>>)
         \/ \E M \in DOMAIN tab :
              /\ tab[M].dir = OnRoot("newroot") /\ IsTop(M) /\ NR = Dir(M, <<>>)
              /\ \A x : OnNR(x) = Dir(M, <<x>>)
<1>1. TopFacts
  BY FollowTop
<1>2. CASE Free(OnRoot("newroot"))
  <2>1. NR = OnRoot("newroot")
    BY <1>1, <1>2 DEF TopFacts, NR
  <2>2. ASSUME NEW x PROVE OnNR(x) = Dir(Root, <<"newroot", x>>)
    BY <2>1 DEF OnNR, Enter, OnRoot, Dir
  <2> QED
    BY <1>2, <2>1, <2>2
<1>3. CASE ~ Free(OnRoot("newroot"))
  <2>1. PICK M \in DOMAIN tab : tab[M].dir = OnRoot("newroot") /\ IsTop(M)
    BY <1>1, <1>3 DEF TopFacts
  <2>2. NR = Dir(M, <<>>)
    BY <1>1, <2>1 DEF TopFacts, NR
  <2>3. ASSUME NEW x PROVE OnNR(x) = Dir(M, <<x>>)
    BY <2>2 DEF OnNR, Enter, Dir
  <2> QED
    BY <2>1, <2>2, <2>3
<1> QED
  BY <1>2, <1>3

\* Directories with different names differ, and so do those of the initramfs and
\* those of newroot.
Apart ==
  /\ \A x, y : OnNR(x) = OnNR(y) => x = y
  /\ \A x, y : OnRoot(x) = OnRoot(y) => x = y
  /\ \A x, y : OnNR(x) # OnRoot(y)
  /\ \A x : OnNR(x) = Dir(OnNR(x).mnt, OnNR(x).path)
  /\ \A x \in HandNames, y \in SubNames : OnNR(x).path # <<y>>
  /\ \A m, n, x, y : Dir(m, <<x>>) = Dir(n, <<y>>) => m = n /\ x = y

\* This does not depend on what is mounted.
LEMMA NamesApart ==
  ASSUME Types, Levels
  PROVE  Apart
<1>1. \A m, n, p, q : Dir(m, p) = Dir(n, q) => m = n /\ p = q
  BY DEF Dir
<1>2. \A m, p : Dir(m, p).mnt = m /\ Dir(m, p).path = p
  BY DEF Dir
<1>3. \A x, y : <<x>> = <<y>> => x = y
  <2> SUFFICES ASSUME NEW x, NEW y, <<x>> = <<y>> PROVE x = y
    OBVIOUS
  <2>1. <<x>>[1] = <<y>>[1]
    OBVIOUS
  <2> QED
    BY <2>1
<1>4. \A z, x, y : <<z, x>> = <<z, y>> => x = y
  <2> SUFFICES ASSUME NEW z, NEW x, NEW y, <<z, x>> = <<z, y>> PROVE x = y
    OBVIOUS
  <2>1. <<z, x>>[2] = <<z, y>>[2]
    OBVIOUS
  <2> QED
    BY <2>1
<1>5. \A z, x, y : <<z, x>> # <<y>>
  <2> SUFFICES ASSUME NEW z, NEW x, NEW y, <<z, x>> = <<y>> PROVE FALSE
    OBVIOUS
  <2>1. Len(<<z, x>>) = 2 /\ Len(<<y>>) = 1
    OBVIOUS
  <2> QED
    BY <2>1
<1>7. Root \notin DOMAIN tab
  BY DEF Types
<1>8. \A x \in HandNames, y \in SubNames : x # y
  BY DEF HandNames, SubNames
<1>9. \/ \A x : OnNR(x) = Dir(Root, <<"newroot", x>>)
      \/ \E M : M # Root /\ \A x : OnNR(x) = Dir(M, <<x>>)
  BY <1>7, NewrootIs
<1>10. \A x : OnRoot(x) = Dir(Root, <<x>>)
  BY DEF OnRoot
<1>11. CASE \A x : OnNR(x) = Dir(Root, <<"newroot", x>>)
  <2>1. \A x, y : OnNR(x) = OnNR(y) => x = y
    BY <1>1, <1>4, <1>11
  <2>2. \A x, y : OnRoot(x) = OnRoot(y) => x = y
    BY <1>1, <1>3, <1>10
  <2>3. \A x, y : OnNR(x) # OnRoot(y)
    BY <1>1, <1>5, <1>10, <1>11
  <2>4. \A x : OnNR(x) = Dir(OnNR(x).mnt, OnNR(x).path)
    BY <1>2, <1>11
  <2>6. \A x \in HandNames, y \in SubNames : OnNR(x).path # <<y>>
    <3>1. \A x : OnNR(x).path = <<"newroot", x>>
      BY <1>2, <1>11
    <3> QED
      BY <1>5, <3>1
  <2>7. \A m, n, x, y : Dir(m, <<x>>) = Dir(n, <<y>>) => m = n /\ x = y
    BY <1>1, <1>3
  <2> QED
    BY <2>1, <2>2, <2>3, <2>4, <2>6, <2>7 DEF Apart
<1>12. CASE \E M : M # Root /\ \A x : OnNR(x) = Dir(M, <<x>>)
  <2>0. PICK M : M # Root /\ \A x : OnNR(x) = Dir(M, <<x>>)
    BY <1>12
  <2>1. \A x, y : OnNR(x) = OnNR(y) => x = y
    BY <1>1, <1>3, <2>0
  <2>2. \A x, y : OnRoot(x) = OnRoot(y) => x = y
    BY <1>1, <1>3, <1>10
  <2>3. \A x, y : OnNR(x) # OnRoot(y)
    BY <1>1, <1>10, <2>0
  <2>4. \A x : OnNR(x) = Dir(OnNR(x).mnt, OnNR(x).path)
    BY <1>2, <2>0
  <2>6. \A x \in HandNames, y \in SubNames : OnNR(x).path # <<y>>
    <3>1. \A x : OnNR(x).path = <<x>>
      BY <1>2, <2>0
    <3> QED
      BY <1>3, <1>8, <3>1
  <2>7. \A m, n, x, y : Dir(m, <<x>>) = Dir(n, <<y>>) => m = n /\ x = y
    BY <1>1, <1>3
  <2> QED
    BY <2>1, <2>2, <2>3, <2>4, <2>6, <2>7 DEF Apart
<1> QED
  BY <1>9, <1>11, <1>12

\* /init's own directories are its own, and so are its mounts: only those of /dev
\* have others mounted in them.
Owned ==
  /\ \A m \in DOMAIN tab : tab[m].dir.mnt = Root \/ tab[m].dir.mnt \in DOMAIN tab
  /\ \A m \in DOMAIN tab : tab[m].dir = OnRoot("newroot") => tab[m].by = "other"
  /\ \A m \in DOMAIN tab : tab[m].by = "other" =>
       /\ \A x \in HandNames : tab[m].dir # OnNR(x)
       /\ \A x \in BaseNames : tab[m].dir # OnRoot(x)
  /\ \A m, n \in DOMAIN tab : tab[m].by # "other" /\ tab[n].dir.mnt = m =>
       /\ tab[n].by = tab[m].by /\ \E y \in SubNames : tab[n].dir = Dir(m, <<y>>)
       /\ \/ tab[m].by = "base" /\ tab[m].dir = OnRoot("dev")
          \/ tab[m].by = "temp" /\ tab[m].dir = OnNR("dev")
  /\ \A m \in DOMAIN tab, y \in SubNames : tab[m].dir.path = <<y>> =>
       /\ tab[m].by = "base" => Inside(m, "base", OnRoot("dev"))
       /\ tab[m].by = "temp" => Inside(m, "temp", OnNR("dev"))
  /\ \A m \in DOMAIN tab :
       Inside(m, "base", OnRoot("dev")) \/ Inside(m, "temp", OnNR("dev")) =>
         \A x : tab[m].dir # OnRoot(x) /\ tab[m].dir # OnNR(x)

\* It follows from the places that the mounts are made on.
LEMMA OwnedByInit ==
  ASSUME Types, Levels, Places
  PROVE  Apart /\ Owned
<1> USE Types, Levels, Places
<1>1. Apart
  BY NamesApart
<1>2. Root \notin DOMAIN tab
  BY DEF Types
<1>3. \A x : OnRoot(x).mnt = Root /\ OnRoot(x).path = <<x>>
  BY DEF OnRoot, Dir
<1>4. \A m \in DOMAIN tab : tab[m].dir = Dir(tab[m].dir.mnt, tab[m].dir.path)
  BY DEF Types
<1>5. "newroot" \notin BaseNames /\ "dev" # "newroot" /\ HandNames \subseteq BaseNames
      /\ \A x \in BaseNames, y \in SubNames : x # y
  BY DEF BaseNames, HandNames, SubNames
<1>6. \A m \in DOMAIN tab : tab[m].dir = OnRoot("newroot") => tab[m].by = "other"
  <2> SUFFICES ASSUME NEW m \in DOMAIN tab, tab[m].dir = OnRoot("newroot"), tab[m].by # "other"
               PROVE  FALSE
    OBVIOUS
  <2>1. BasePlace(m) \/ TempPlace(m)
    BY DEF Places, Placed
  <2>2. ~ Inside(m, "base", OnRoot("dev")) /\ ~ Inside(m, "temp", OnNR("dev"))
    BY <1>2, <1>3 DEF Inside
  <2> QED
    BY <1>1, <1>5, <2>1, <2>2 DEF BasePlace, TempPlace, Apart
<1>7. \/ \A x : OnNR(x).mnt = Root /\ OnNR(x).path = <<"newroot", x>>
      \/ \E M \in DOMAIN tab : /\ tab[M].dir = OnRoot("newroot") /\ tab[M].by = "other"
                               /\ \A x : OnNR(x).mnt = M /\ OnNR(x).path = <<x>>
  <2>1. \A m, p : Dir(m, p).mnt = m /\ Dir(m, p).path = p
    BY DEF Dir
  <2>2. CASE \A x : OnNR(x) = Dir(Root, <<"newroot", x>>)
    BY <2>1, <2>2
  <2>3. CASE \E M \in DOMAIN tab : tab[M].dir = OnRoot("newroot") /\ \A x : OnNR(x) = Dir(M, <<x>>)
    <3>1. PICK M \in DOMAIN tab : tab[M].dir = OnRoot("newroot") /\ \A x : OnNR(x) = Dir(M, <<x>>)
      BY <2>3
    <3>2. tab[M].by = "other"
      BY <1>6, <3>1
    <3>3. \A x : OnNR(x).mnt = M /\ OnNR(x).path = <<x>>
      BY <2>1, <3>1
    <3> QED
      BY <3>1, <3>2, <3>3
  <2> QED
    BY <2>2, <2>3, NewrootIs
<1>8. \A x : OnNR(x).mnt = Root \/
             (OnNR(x).mnt \in DOMAIN tab /\ tab[OnNR(x).mnt].by = "other" /\ tab[OnNR(x).mnt].dir = OnRoot("newroot"))
  BY <1>7
<1>9. \A m \in DOMAIN tab : tab[m].dir.mnt = Root \/ tab[m].dir.mnt \in DOMAIN tab
  <2> SUFFICES ASSUME NEW m \in DOMAIN tab
               PROVE  tab[m].dir.mnt = Root \/ tab[m].dir.mnt \in DOMAIN tab
    OBVIOUS
  <2>1. BasePlace(m) \/ TempPlace(m) \/ OtherPlace(m)
    BY DEF Places, Placed
  <2> QED
    BY <1>3, <1>8, <2>1 DEF BasePlace, TempPlace, OtherPlace, Inside
<1>10. \A m \in DOMAIN tab : tab[m].by = "other" =>
       /\ \A x \in HandNames : tab[m].dir # OnNR(x)
       /\ \A x \in BaseNames : tab[m].dir # OnRoot(x)
  <2> SUFFICES ASSUME NEW m \in DOMAIN tab, tab[m].by = "other"
               PROVE  /\ \A x \in HandNames : tab[m].dir # OnNR(x)
                      /\ \A x \in BaseNames : tab[m].dir # OnRoot(x)
    OBVIOUS
  <2>1. ~ Below(tab[m].dir)
    BY DEF Places, Placed, OtherPlace
  <2>2. \A x \in BaseNames : Below(OnRoot(x))
    <3> SUFFICES ASSUME NEW x \in BaseNames PROVE Below(OnRoot(x))
      OBVIOUS
    <3>1. <<x>>[1] = x /\ x # "newroot"
      BY <1>5
    <3>2. <<x>> # <<"newroot">>
      BY <3>1
    <3> QED
      BY <1>3, <3>1, <3>2 DEF Below, Reserved, BaseNames
  <2>3. \A x \in HandNames : Below(OnNR(x))
    <3> SUFFICES ASSUME NEW x \in HandNames PROVE Below(OnNR(x))
      OBVIOUS
    <3>1. CASE OnNR(x).mnt = Root /\ OnNR(x).path = <<"newroot", x>>
      <4>1. <<"newroot", x>>[1] = "newroot" /\ <<"newroot", x>>[2] = x
            /\ Len(<<"newroot", x>>) = 2 /\ Len(<<"newroot">>) = 1
        OBVIOUS
      <4>2. <<"newroot", x>> # <<"newroot">>
        BY <4>1
      <4> QED
        BY <3>1, <4>1, <4>2 DEF Below, Reserved, HandNames
    <3>2. CASE /\ OnNR(x).mnt \in DOMAIN tab /\ tab[OnNR(x).mnt].dir = OnRoot("newroot")
               /\ OnNR(x).path = <<x>>
      <4>1. <<x>>[1] = x
        OBVIOUS
      <4> QED
        BY <3>2, <4>1 DEF Below
    <3> QED
      BY <1>7, <3>1, <3>2
  <2> QED
    BY <2>1, <2>2, <2>3
<1>11. \A m \in DOMAIN tab :
       Inside(m, "base", OnRoot("dev")) \/ Inside(m, "temp", OnNR("dev")) =>
         \A x : tab[m].dir # OnRoot(x) /\ tab[m].dir # OnNR(x)
  <2> SUFFICES ASSUME NEW m \in DOMAIN tab, NEW x,
                      Inside(m, "base", OnRoot("dev")) \/ Inside(m, "temp", OnNR("dev"))
               PROVE  tab[m].dir # OnRoot(x) /\ tab[m].dir # OnNR(x)
    OBVIOUS
  <2>1. tab[m].dir.mnt \in DOMAIN tab /\ tab[tab[m].dir.mnt].by # "other"
    BY DEF Inside
  <2> QED
    BY <1>2, <1>3, <1>8, <2>1
<1>12. \A m \in DOMAIN tab, y \in SubNames : tab[m].dir.path = <<y>> =>
       /\ tab[m].by = "base" => Inside(m, "base", OnRoot("dev"))
       /\ tab[m].by = "temp" => Inside(m, "temp", OnNR("dev"))
  <2> SUFFICES ASSUME NEW m \in DOMAIN tab, NEW y \in SubNames, tab[m].dir.path = <<y>>
               PROVE  /\ tab[m].by = "base" => Inside(m, "base", OnRoot("dev"))
                      /\ tab[m].by = "temp" => Inside(m, "temp", OnNR("dev"))
    OBVIOUS
  <2>1. \A x \in BaseNames : <<x>> # <<y>>
    <3> SUFFICES ASSUME NEW x \in BaseNames PROVE <<x>> # <<y>>
      OBVIOUS
    <3>1. <<x>>[1] # <<y>>[1]
      BY <1>5
    <3> QED
      BY <3>1
  <2>2. \A x \in BaseNames : tab[m].dir # OnRoot(x)
    BY <1>3, <2>1
  <2>3. \A x \in HandNames : tab[m].dir # OnNR(x)
    BY <1>1 DEF Apart
  <2> QED
    BY <2>2, <2>3 DEF Places, Placed, BasePlace, TempPlace
<1>13. \A m, n \in DOMAIN tab : tab[m].by # "other" /\ tab[n].dir.mnt = m =>
       /\ tab[n].by = tab[m].by /\ \E y \in SubNames : tab[n].dir = Dir(m, <<y>>)
       /\ \/ tab[m].by = "base" /\ tab[m].dir = OnRoot("dev")
          \/ tab[m].by = "temp" /\ tab[m].dir = OnNR("dev")
  <2> SUFFICES ASSUME NEW m \in DOMAIN tab, NEW n \in DOMAIN tab,
                      tab[m].by # "other", tab[n].dir.mnt = m
       PROVE  /\ tab[n].by = tab[m].by /\ \E y \in SubNames : tab[n].dir = Dir(m, <<y>>)
              /\ \/ tab[m].by = "base" /\ tab[m].dir = OnRoot("dev")
                 \/ tab[m].by = "temp" /\ tab[m].dir = OnNR("dev")
    OBVIOUS
  <2>1. tab[n].by # "other"
    BY <1>2 DEF Places, Placed, OtherPlace
  <2>2. \A x : tab[n].dir # OnRoot(x) /\ tab[n].dir # OnNR(x)
    BY <1>2, <1>3, <1>8
  <2>3. \/ tab[n].by = "base" /\ Inside(n, "base", OnRoot("dev"))
        \/ tab[n].by = "temp" /\ Inside(n, "temp", OnNR("dev"))
    BY <2>1, <2>2 DEF Places, Placed, BasePlace, TempPlace
  <2> QED
    BY <1>4, <2>3 DEF Inside
<1> QED
  BY <1>1, <1>6, <1>9, <1>10, <1>11, <1>12, <1>13 DEF Owned

\* A name put after one and after two others.
LEMMA Appended ==
  ASSUME NEW a, NEW b, NEW c
  PROVE  Append(<<a>>, b) = <<a, b>> /\ Append(<<a, b>>, c) = <<a, b, c>>
<1>1. PICK S : S = {a, b, c}
  OBVIOUS
<1>2. Append(<<a>>, b) = <<a, b>>
  <2>1. PICK s : s = <<a>>
    OBVIOUS
  <2>2. PICK u : u = <<a, b>>
    OBVIOUS
  <2>3. PICK v : v = Append(s, b)
    OBVIOUS
  <2>4. s \in Seq(S) /\ Len(s) = 1 /\ s[1] = a /\ b \in S
    BY <1>1, <2>1
  <2>5. u \in Seq(S) /\ Len(u) = 2 /\ u[1] = a /\ u[2] = b
    BY <1>1, <2>2
  <2>6. /\ v \in Seq(S) /\ Len(v) = Len(s) + 1 /\ v[Len(s) + 1] = b
        /\ \A i \in 1..Len(s) : v[i] = s[i]
    <3>1. s \in Seq(S) /\ b \in S
      BY <2>4
    <3>2. /\ Append(s, b) \in Seq(S) /\ Len(Append(s, b)) = Len(s) + 1
          /\ Append(s, b)[Len(s) + 1] = b /\ \A i \in 1..Len(s) : Append(s, b)[i] = s[i]
      BY <3>1, AppendProperties
    <3> QED
      BY <2>3, <3>2, Zenon
  <2>7. Len(v) = 2 /\ v[1] = a /\ v[2] = b
    BY <2>4, <2>6
  <2>8. \A i \in 1..Len(v) : v[i] = u[i]
    BY <2>5, <2>7
  <2>9. v = u
    BY <2>5, <2>6, <2>7, <2>8, SeqEqual
  <2> QED
    BY <2>1, <2>2, <2>3, <2>9
<1>3. Append(<<a, b>>, c) = <<a, b, c>>
  <2>1. PICK s : s = <<a, b>>
    OBVIOUS
  <2>2. PICK u : u = <<a, b, c>>
    OBVIOUS
  <2>3. PICK v : v = Append(s, c)
    OBVIOUS
  <2>4. s \in Seq(S) /\ Len(s) = 2 /\ s[1] = a /\ s[2] = b /\ c \in S
    BY <1>1, <2>1
  <2>5. u \in Seq(S) /\ Len(u) = 3 /\ u[1] = a /\ u[2] = b /\ u[3] = c
    <3>1. u \in Seq(S) /\ Len(u) = 3
      BY <1>1, <2>2
    <3>2. u[1] = a /\ u[2] = b /\ u[3] = c
      BY <2>2
    <3> QED
      BY <3>1, <3>2
  <2>6. /\ v \in Seq(S) /\ Len(v) = Len(s) + 1 /\ v[Len(s) + 1] = c
        /\ \A i \in 1..Len(s) : v[i] = s[i]
    <3>1. s \in Seq(S) /\ c \in S
      BY <2>4
    <3>2. /\ Append(s, c) \in Seq(S) /\ Len(Append(s, c)) = Len(s) + 1
          /\ Append(s, c)[Len(s) + 1] = c /\ \A i \in 1..Len(s) : Append(s, c)[i] = s[i]
      BY <3>1, AppendProperties
    <3> QED
      BY <2>3, <3>2, Zenon
  <2>7. Len(v) = 3 /\ v[1] = a /\ v[2] = b /\ v[3] = c
    BY <2>4, <2>6
  <2>8. \A i \in 1..Len(v) : v[i] = u[i]
    BY <2>5, <2>7
  <2>9. v = u
    BY <2>5, <2>6, <2>7, <2>8, SeqEqual
  <2> QED
    BY <2>1, <2>2, <2>3, <2>9
<1> QED
  BY <1>2, <1>3

\* The directories in /dev and newroot's /dev themselves are not mounted on.
LEMMA DevVacant ==
  ASSUME Types, Levels, Places, NEW y \in SubNames
  PROVE  Free(Enter(OnRoot("dev"), y)) /\ Free(Enter(OnNR("dev"), y))
<1>1. Apart /\ Owned
  BY OwnedByInit
<1>2. Enter(OnRoot("dev"), y) = Dir(Root, <<"dev", y>>)
  BY DEF Enter, OnRoot, Dir
<1>3. \A m, n, p, q : Dir(m, p) = Dir(n, q) => m = n /\ p = q
  BY DEF Dir
<1>4. \A m, p : Dir(m, p).mnt = m /\ Dir(m, p).path = p
  BY DEF Dir
<1>5. \A m \in DOMAIN tab : m # Root
  BY DEF Types
<1>6. \A a, b, c, x : <<a, b>> # <<x>> /\ <<a, b, c>> # <<x>>
  <2> SUFFICES ASSUME NEW a, NEW b, NEW c, NEW x PROVE <<a, b>> # <<x>> /\ <<a, b, c>> # <<x>>
    OBVIOUS
  <2>1. Len(<<a, b>>) = 2 /\ Len(<<a, b, c>>) = 3 /\ Len(<<x>>) = 1
    OBVIOUS
  <2> QED
    BY <2>1
<1>7. \A a, b, c, u, v : <<a, b, c>> # <<u, v>>
  <2> SUFFICES ASSUME NEW a, NEW b, NEW c, NEW u, NEW v PROVE <<a, b, c>> # <<u, v>>
    OBVIOUS
  <2>1. Len(<<u, v>>) = 2 /\ Len(<<a, b, c>>) = 3
    OBVIOUS
  <2> QED
    BY <2>1
<1>8. \A x : <<"dev", y>> # <<"newroot", x>>
  <2> SUFFICES ASSUME NEW x PROVE <<"dev", y>> # <<"newroot", x>>
    OBVIOUS
  <2>1. <<"dev", y>>[1] = "dev" /\ <<"newroot", x>>[1] = "newroot"
    OBVIOUS
  <2> QED
    BY <2>1
<1>9. \A x : OnRoot(x) = Dir(Root, <<x>>)
  BY DEF OnRoot
<1>10. \A m \in DOMAIN tab : \A d : tab[m].dir = d /\ Below(d) =>
         \/ \E x : d = OnRoot(x)
         \/ \E x : d = OnNR(x)
         \/ d.mnt \in DOMAIN tab /\ tab[d.mnt].by # "other"
  <2> SUFFICES ASSUME NEW m \in DOMAIN tab, Below(tab[m].dir)
               PROVE  \/ \E x : tab[m].dir = OnRoot(x)
                      \/ \E x : tab[m].dir = OnNR(x)
                      \/ tab[m].dir.mnt \in DOMAIN tab /\ tab[tab[m].dir.mnt].by # "other"
    OBVIOUS
  <2>1. tab[m].by # "other"
    BY DEF Places, Placed, OtherPlace
  <2> QED
    BY <2>1 DEF Places, Placed, BasePlace, TempPlace, Inside
<1>11. ASSUME NEW d, Below(d), d.mnt = Root \/ (d.mnt \in DOMAIN tab /\ tab[d.mnt].by = "other"),
              \A x : d # OnRoot(x) /\ d # OnNR(x)
       PROVE  Free(d)
  BY <1>5, <1>10, <1>11 DEF Free
<1>12. Free(Enter(OnRoot("dev"), y))
  <2> DEFINE d == Dir(Root, <<"dev", y>>)
  <2>1. <<"dev", y>>[1] = "dev" /\ <<"dev", y>> # <<"newroot">>
    BY <1>6
  <2>2. Below(d)
    BY <1>4, <2>1 DEF Below, Reserved
  <2>3. \A x : d # OnRoot(x)
    BY <1>3, <1>6, <1>9
  <2>4. \A x : d # OnNR(x)
    <3>1. \/ \A x : OnNR(x) = Dir(Root, <<"newroot", x>>)
          \/ \E M \in DOMAIN tab : \A x : OnNR(x) = Dir(M, <<x>>)
      BY NewrootIs
    <3>2. CASE \A x : OnNR(x) = Dir(Root, <<"newroot", x>>)
      BY <1>3, <1>8, <3>2
    <3>3. CASE \E M \in DOMAIN tab : \A x : OnNR(x) = Dir(M, <<x>>)
      <4>1. PICK M \in DOMAIN tab : \A x : OnNR(x) = Dir(M, <<x>>)
        BY <3>3
      <4>2. \A x : OnNR(x).mnt = M
        BY <1>4, <4>1
      <4>3. d.mnt = Root
        BY <1>4
      <4> QED
        BY <1>5, <4>2, <4>3
    <3> QED
      BY <3>1, <3>2, <3>3
  <2>5. d.mnt = Root
    BY <1>4
  <2> HIDE DEF d
  <2>6. Free(d)
    BY <1>11, <2>2, <2>3, <2>4, <2>5
  <2> QED
    BY <1>2, <2>6 DEF d
<1>13. Free(Enter(OnNR("dev"), y))
  <2>1. CASE \A x : OnNR(x) = Dir(Root, <<"newroot", x>>)
    <3> DEFINE p == <<"newroot", "dev", y>>
               d == Dir(Root, p)
    <3>1. Enter(OnNR("dev"), y) = d
      <4>1. OnNR("dev").mnt = Root /\ OnNR("dev").path = <<"newroot", "dev">>
        BY <2>1 DEF Dir
      <4>2. Append(<<"newroot", "dev">>, y) = p
        BY Appended
      <4> QED
        BY <4>1, <4>2 DEF Enter
    <3>2. p[1] = "newroot" /\ p[2] = "dev" /\ Len(p) = 3 /\ p # <<"newroot">>
      BY <1>6
    <3>3. d.mnt = Root /\ d.path = p
      BY <1>4
    <3>4. \A x : d # OnRoot(x) /\ d # OnNR(x)
      <4>1. \A x : p # <<x>> /\ p # <<"newroot", x>>
        BY <1>6, <1>7
      <4> HIDE DEF p
      <4> QED
        BY <1>3, <1>9, <2>1, <4>1
    <3> HIDE DEF d, p
    <3>5. Below(d)
      BY <3>2, <3>3 DEF Below, Reserved
    <3> QED
      BY <1>11, <3>1, <3>3, <3>4, <3>5
  <2>2. CASE \E M \in DOMAIN tab : tab[M].dir = OnRoot("newroot") /\ \A x : OnNR(x) = Dir(M, <<x>>)
    <3>0. PICK M \in DOMAIN tab : tab[M].dir = OnRoot("newroot") /\ \A x : OnNR(x) = Dir(M, <<x>>)
      BY <2>2
    <3> DEFINE p == <<"dev", y>>
               d == Dir(M, p)
    <3>1. Enter(OnNR("dev"), y) = d
      <4>1. OnNR("dev").mnt = M /\ OnNR("dev").path = <<"dev">>
        BY <3>0 DEF Dir
      <4>2. Append(<<"dev">>, y) = p
        BY Appended
      <4> QED
        BY <4>1, <4>2 DEF Enter
    <3>2. p[1] = "dev"
      OBVIOUS
    <3>3. d.mnt = M /\ d.path = p /\ tab[M].by = "other"
      BY <1>1, <1>4, <3>0 DEF Owned
    <3>4. \A x : d # OnRoot(x) /\ d # OnNR(x)
      <4>1. \A x : p # <<x>>
        BY <1>6
      <4> HIDE DEF p
      <4> QED
        <5>1. \A x : OnRoot(x).path = <<x>> /\ OnNR(x).path = <<x>>
          BY <1>4, <1>9, <3>0
        <5> QED
          BY <3>3, <4>1, <5>1
    <3> HIDE DEF d, p
    <3>5. Below(d)
      BY <3>0, <3>2, <3>3 DEF Below, HandNames
    <3> QED
      BY <1>11, <3>1, <3>3, <3>4, <3>5
  <2> QED
    BY <2>1, <2>2, NewrootIs
<1> QED
  BY <1>12, <1>13

\* Where the paths of /init's mounts lead to.
LEMMA Mountpoints ==
  ASSUME Types, Levels, Places
  PROVE  /\ \A x : Mountpoint(<<x>>) = OnRoot(x) /\ Mountpoint(<<"newroot", x>>) = OnNR(x)
         /\ \A x : Lookup(<<"newroot", x>>) = Follow(OnNR(x))
         /\ \A y \in SubNames :
              \/ Free(OnRoot("dev")) /\ Free(Mountpoint(<<"dev", y>>))
              \/ \E D \in DOMAIN tab : /\ tab[D].dir = OnRoot("dev") /\ IsTop(D)
                                       /\ Mountpoint(<<"dev", y>>) = Dir(D, <<y>>)
         /\ \A y \in SubNames :
              \/ Free(OnNR("dev")) /\ Free(Mountpoint(<<"newroot", "dev", y>>))
              \/ \E D \in DOMAIN tab : /\ tab[D].dir = OnNR("dev") /\ IsTop(D)
                                       /\ Mountpoint(<<"newroot", "dev", y>>) = Dir(D, <<y>>)
<1>1. TopFacts
  BY FollowTop
<1>2. \A x : Mountpoint(<<x>>) = OnRoot(x) /\ Mountpoint(<<"newroot", x>>) = OnNR(x)
             /\ Lookup(<<"newroot", x>>) = Follow(OnNR(x))
  BY ShortPaths DEF OnNR, NR
<1>3. \A y : Mountpoint(<<"dev", y>>) = Enter(Follow(OnRoot("dev")), y)
             /\ Mountpoint(<<"newroot", "dev", y>>) = Enter(Follow(OnNR("dev")), y)
  BY ShortPaths DEF OnNR, NR
<1>4. ASSUME NEW d, ~ Free(d), NEW y
      PROVE  \E D \in DOMAIN tab : tab[D].dir = d /\ IsTop(D) /\ Enter(Follow(d), y) = Dir(D, <<y>>)
  <2>1. PICK D \in DOMAIN tab : tab[D].dir = d /\ IsTop(D)
    BY <1>1, <1>4 DEF TopFacts
  <2>2. Follow(d) = Dir(D, <<>>)
    BY <1>1, <2>1 DEF TopFacts
  <2>3. Enter(Dir(D, <<>>), y) = Dir(D, <<y>>)
    BY DEF Enter, Dir
  <2> QED
    BY <2>1, <2>2, <2>3
<1>5. \A d : Free(d) => Follow(d) = d
  BY <1>1 DEF TopFacts
<1>6. ASSUME NEW y \in SubNames
      PROVE  \/ Free(OnRoot("dev")) /\ Free(Mountpoint(<<"dev", y>>))
             \/ \E D \in DOMAIN tab : /\ tab[D].dir = OnRoot("dev") /\ IsTop(D)
                                      /\ Mountpoint(<<"dev", y>>) = Dir(D, <<y>>)
  BY <1>3, <1>4, <1>5, DevVacant
<1>7. ASSUME NEW y \in SubNames
      PROVE  \/ Free(OnNR("dev")) /\ Free(Mountpoint(<<"newroot", "dev", y>>))
             \/ \E D \in DOMAIN tab : /\ tab[D].dir = OnNR("dev") /\ IsTop(D)
                                      /\ Mountpoint(<<"newroot", "dev", y>>) = Dir(D, <<y>>)
  BY <1>3, <1>4, <1>5, DevVacant
<1> QED
  BY <1>2, <1>6, <1>7

-------------------------------------------------------------------------------
(* The lists of calls.                                                        *)

\* What is left after a call is left of the same list.
LEMMA RestStep ==
  ASSUME NEW s, NEW list, Len(list) \in Nat, IsRest(s, list), s # <<>>
  PROVE  /\ IsRest(Tail(s), list) /\ Len(s) \in 1..Len(list) /\ Len(Tail(s)) = Len(s) - 1
         /\ Head(s) = list[Len(list) - Len(s) + 1]
<1>1. s \in Seq(ToSet(s)) /\ Len(s) \in Nat /\ Len(s) # 0 /\ Len(s) <= Len(list)
  BY DEF IsRest
<1>2. \A j \in 1..Len(s) : s[j] = list[Len(list) - Len(s) + j]
  BY DEF IsRest
<1>3. PICK t : t = Tail(s)
  OBVIOUS
<1>4. t \in Seq(ToSet(s)) /\ Len(t) = Len(s) - 1 /\ \A j \in 1..Len(t) : t[j] = s[j+1]
  BY <1>1, <1>3, HeadTailProperties
<1>5. t \in Seq(ToSet(t))
  <2>1. \A j \in 1..Len(t) : t[j] \in ToSet(t)
    BY <1>4 DEF ToSet
  <2>2. t = [j \in 1..Len(t) |-> t[j]] /\ Len(t) \in Nat
    BY <1>4, LenProperties
  <2>3. t \in [1..Len(t) -> ToSet(t)]
    BY <2>1, <2>2
  <2> QED
    BY <2>2, <2>3, SeqDef
<1>6. \A j \in 1..Len(t) : t[j] = list[Len(list) - Len(t) + j]
  <2> SUFFICES ASSUME NEW j \in 1..Len(t) PROVE t[j] = list[Len(list) - Len(t) + j]
    OBVIOUS
  <2>1. j + 1 \in 1..Len(s) /\ Len(list) - Len(s) + (j + 1) = Len(list) - Len(t) + j
    BY <1>1, <1>4
  <2> QED
    BY <1>2, <1>4, <2>1
<1>7. Head(s) = s[1] /\ 1 \in 1..Len(s)
  BY <1>1
<1> QED
  BY <1>1, <1>2, <1>3, <1>4, <1>5, <1>6, <1>7 DEF IsRest

\* All and nothing of a list is left of it.
LEMMA RestEnds ==
  ASSUME NEW S, NEW list \in Seq(S)
  PROVE  IsRest(list, list) /\ IsRest(<<>>, list) /\ Len(<<>>) = 0
<1>1. Len(list) \in Nat
  OBVIOUS
<1>2. list \in Seq(ToSet(list))
  <2>1. \A j \in 1..Len(list) : list[j] \in ToSet(list)
    BY DEF ToSet
  <2>2. list = [j \in 1..Len(list) |-> list[j]]
    BY LenProperties
  <2>3. list \in [1..Len(list) -> ToSet(list)]
    BY <2>1, <2>2
  <2> QED
    BY <1>1, <2>3, SeqDef
<1>3. \A j \in 1..Len(list) : Len(list) - Len(list) + j = j
  BY <1>1
<1>4. <<>> \in Seq(ToSet(<<>>)) /\ Len(<<>>) = 0
  OBVIOUS
<1> QED
  BY <1>1, <1>2, <1>3, <1>4 DEF IsRest

\* Six calls and two, put together.
LEMMA Join62 ==
  ASSUME NEW a1, NEW a2, NEW a3, NEW a4, NEW a5, NEW a6,
         NEW b1, NEW b2
  PROVE  <<a1, a2, a3, a4, a5, a6>> \o <<b1, b2>>
           = <<a1, a2, a3, a4, a5, a6, b1, b2>>
<1>1. PICK s : s = <<a1, a2, a3, a4, a5, a6>>
  OBVIOUS
<1>2. PICK t : t = <<b1, b2>>
  OBVIOUS
<1>3. PICK u : u = <<a1, a2, a3, a4, a5, a6, b1, b2>>
  OBVIOUS
<1>4. PICK S : S = {a1, a2, a3, a4, a5, a6, b1, b2}
  OBVIOUS
<1>5. Len(s) = 6 /\ s \in Seq(S) /\ s[1] = a1 /\ s[2] = a2 /\ s[3] = a3 /\ s[4] = a4 /\ s[5] = a5 /\ s[6] = a6
  BY <1>1, <1>4
<1>6. Len(t) = 2 /\ t \in Seq(S) /\ t[1] = b1 /\ t[2] = b2
  BY <1>2, <1>4
<1>7. Len(u) = 8 /\ u \in Seq(S)
  BY <1>3, <1>4
<1>8. u[1] = a1 /\ u[2] = a2 /\ u[3] = a3 /\ u[4] = a4 /\ u[5] = a5 /\ u[6] = a6 /\ u[7] = b1 /\ u[8] = b2
  BY <1>3
<1>9. PICK v : v = s \o t
  OBVIOUS
<1>10. /\ v \in Seq(S) /\ Len(v) = 8 /\ \A i \in 1..8 : v[i] = IF i <= 6 THEN s[i] ELSE t[i - 6]
  <2>1. s \in Seq(S) /\ t \in Seq(S)
    BY <1>5, <1>6
  <2>2. /\ s \o t \in Seq(S) /\ Len(s \o t) = Len(s) + Len(t)
        /\ \A i \in 1 .. Len(s) + Len(t) : (s \o t)[i] = IF i <= Len(s) THEN s[i] ELSE t[i - Len(s)]
    BY <2>1, ConcatProperties
  <2>3. Len(s) = 6 /\ Len(t) = 2 /\ Len(s) + Len(t) = 8
    BY <1>5, <1>6
  <2> QED
    BY <1>9, <2>2, <2>3
<1>11. v[1] = a1 /\ v[2] = a2 /\ v[3] = a3 /\ v[4] = a4 /\ v[5] = a5 /\ v[6] = a6 /\ v[7] = b1 /\ v[8] = b2
  BY <1>5, <1>6, <1>10
<1>12. \A i \in 1..8 : v[i] = u[i]
  <2>1. \A i \in 1..8 : i = 1 \/ i = 2 \/ i = 3 \/ i = 4 \/ i = 5 \/ i = 6 \/ i = 7 \/ i = 8
    OBVIOUS
  <2> QED
    BY <1>8, <1>11, <2>1
<1> QED
  BY <1>1, <1>2, <1>3, <1>7, <1>9, <1>10, <1>12, SeqEqual

\* Five calls and seven.
LEMMA Join57 ==
  ASSUME NEW a1, NEW a2, NEW a3, NEW a4, NEW a5,
         NEW b1, NEW b2, NEW b3, NEW b4, NEW b5, NEW b6, NEW b7
  PROVE  <<a1, a2, a3, a4, a5>> \o <<b1, b2, b3, b4, b5, b6, b7>>
           = <<a1, a2, a3, a4, a5, b1, b2, b3, b4, b5, b6, b7>>
<1>1. PICK s : s = <<a1, a2, a3, a4, a5>>
  OBVIOUS
<1>2. PICK t : t = <<b1, b2, b3, b4, b5, b6, b7>>
  OBVIOUS
<1>3. PICK u : u = <<a1, a2, a3, a4, a5, b1, b2, b3, b4, b5, b6, b7>>
  OBVIOUS
<1>4. PICK S : S = {a1, a2, a3, a4, a5, b1, b2, b3, b4, b5, b6, b7}
  OBVIOUS
<1>5. Len(s) = 5 /\ s \in Seq(S) /\ s[1] = a1 /\ s[2] = a2 /\ s[3] = a3 /\ s[4] = a4 /\ s[5] = a5
  BY <1>1, <1>4
<1>6. Len(t) = 7 /\ t \in Seq(S) /\ t[1] = b1 /\ t[2] = b2 /\ t[3] = b3 /\ t[4] = b4 /\ t[5] = b5 /\ t[6] = b6 /\ t[7] = b7
  BY <1>2, <1>4
<1>7. Len(u) = 12 /\ u \in Seq(S)
  BY <1>3, <1>4
<1>8. u[1] = a1 /\ u[2] = a2 /\ u[3] = a3 /\ u[4] = a4 /\ u[5] = a5 /\ u[6] = b1 /\ u[7] = b2 /\ u[8] = b3 /\ u[9] = b4 /\ u[10] = b5 /\ u[11] = b6 /\ u[12] = b7
  BY <1>3
<1>9. PICK v : v = s \o t
  OBVIOUS
<1>10. /\ v \in Seq(S) /\ Len(v) = 12 /\ \A i \in 1..12 : v[i] = IF i <= 5 THEN s[i] ELSE t[i - 5]
  <2>1. s \in Seq(S) /\ t \in Seq(S)
    BY <1>5, <1>6
  <2>2. /\ s \o t \in Seq(S) /\ Len(s \o t) = Len(s) + Len(t)
        /\ \A i \in 1 .. Len(s) + Len(t) : (s \o t)[i] = IF i <= Len(s) THEN s[i] ELSE t[i - Len(s)]
    BY <2>1, ConcatProperties
  <2>3. Len(s) = 5 /\ Len(t) = 7 /\ Len(s) + Len(t) = 12
    BY <1>5, <1>6
  <2> QED
    BY <1>9, <2>2, <2>3
<1>11. v[1] = a1 /\ v[2] = a2 /\ v[3] = a3 /\ v[4] = a4 /\ v[5] = a5 /\ v[6] = b1 /\ v[7] = b2 /\ v[8] = b3 /\ v[9] = b4 /\ v[10] = b5 /\ v[11] = b6 /\ v[12] = b7
  BY <1>5, <1>6, <1>10
<1>12. \A i \in 1..12 : v[i] = u[i]
  <2>1. \A i \in 1..12 : i = 1 \/ i = 2 \/ i = 3 \/ i = 4 \/ i = 5 \/ i = 6 \/ i = 7 \/ i = 8 \/ i = 9 \/ i = 10 \/ i = 11 \/ i = 12
    OBVIOUS
  <2> QED
    BY <1>8, <1>11, <2>1
<1> QED
  BY <1>1, <1>2, <1>3, <1>7, <1>9, <1>10, <1>12, SeqEqual

\* One call and five.
LEMMA Join15 ==
  ASSUME NEW a1,
         NEW b1, NEW b2, NEW b3, NEW b4, NEW b5
  PROVE  <<a1>> \o <<b1, b2, b3, b4, b5>>
           = <<a1, b1, b2, b3, b4, b5>>
<1>1. PICK s : s = <<a1>>
  OBVIOUS
<1>2. PICK t : t = <<b1, b2, b3, b4, b5>>
  OBVIOUS
<1>3. PICK u : u = <<a1, b1, b2, b3, b4, b5>>
  OBVIOUS
<1>4. PICK S : S = {a1, b1, b2, b3, b4, b5}
  OBVIOUS
<1>5. Len(s) = 1 /\ s \in Seq(S) /\ s[1] = a1
  BY <1>1, <1>4
<1>6. Len(t) = 5 /\ t \in Seq(S) /\ t[1] = b1 /\ t[2] = b2 /\ t[3] = b3 /\ t[4] = b4 /\ t[5] = b5
  BY <1>2, <1>4
<1>7. Len(u) = 6 /\ u \in Seq(S)
  BY <1>3, <1>4
<1>8. u[1] = a1 /\ u[2] = b1 /\ u[3] = b2 /\ u[4] = b3 /\ u[5] = b4 /\ u[6] = b5
  BY <1>3
<1>9. PICK v : v = s \o t
  OBVIOUS
<1>10. /\ v \in Seq(S) /\ Len(v) = 6 /\ \A i \in 1..6 : v[i] = IF i <= 1 THEN s[i] ELSE t[i - 1]
  <2>1. s \in Seq(S) /\ t \in Seq(S)
    BY <1>5, <1>6
  <2>2. /\ s \o t \in Seq(S) /\ Len(s \o t) = Len(s) + Len(t)
        /\ \A i \in 1 .. Len(s) + Len(t) : (s \o t)[i] = IF i <= Len(s) THEN s[i] ELSE t[i - Len(s)]
    BY <2>1, ConcatProperties
  <2>3. Len(s) = 1 /\ Len(t) = 5 /\ Len(s) + Len(t) = 6
    BY <1>5, <1>6
  <2> QED
    BY <1>9, <2>2, <2>3
<1>11. v[1] = a1 /\ v[2] = b1 /\ v[3] = b2 /\ v[4] = b3 /\ v[5] = b4 /\ v[6] = b5
  BY <1>5, <1>6, <1>10
<1>12. \A i \in 1..6 : v[i] = u[i]
  <2>1. \A i \in 1..6 : i = 1 \/ i = 2 \/ i = 3 \/ i = 4 \/ i = 5 \/ i = 6
    OBVIOUS
  <2> QED
    BY <1>8, <1>11, <2>1
<1> QED
  BY <1>1, <1>2, <1>3, <1>7, <1>9, <1>10, <1>12, SeqEqual

\* Six calls and one.
LEMMA Join61 ==
  ASSUME NEW a1, NEW a2, NEW a3, NEW a4, NEW a5, NEW a6,
         NEW b1
  PROVE  <<a1, a2, a3, a4, a5, a6>> \o <<b1>>
           = <<a1, a2, a3, a4, a5, a6, b1>>
<1>1. PICK s : s = <<a1, a2, a3, a4, a5, a6>>
  OBVIOUS
<1>2. PICK t : t = <<b1>>
  OBVIOUS
<1>3. PICK u : u = <<a1, a2, a3, a4, a5, a6, b1>>
  OBVIOUS
<1>4. PICK S : S = {a1, a2, a3, a4, a5, a6, b1}
  OBVIOUS
<1>5. Len(s) = 6 /\ s \in Seq(S) /\ s[1] = a1 /\ s[2] = a2 /\ s[3] = a3 /\ s[4] = a4 /\ s[5] = a5 /\ s[6] = a6
  BY <1>1, <1>4
<1>6. Len(t) = 1 /\ t \in Seq(S) /\ t[1] = b1
  BY <1>2, <1>4
<1>7. Len(u) = 7 /\ u \in Seq(S)
  BY <1>3, <1>4
<1>8. u[1] = a1 /\ u[2] = a2 /\ u[3] = a3 /\ u[4] = a4 /\ u[5] = a5 /\ u[6] = a6 /\ u[7] = b1
  BY <1>3
<1>9. PICK v : v = s \o t
  OBVIOUS
<1>10. /\ v \in Seq(S) /\ Len(v) = 7 /\ \A i \in 1..7 : v[i] = IF i <= 6 THEN s[i] ELSE t[i - 6]
  <2>1. s \in Seq(S) /\ t \in Seq(S)
    BY <1>5, <1>6
  <2>2. /\ s \o t \in Seq(S) /\ Len(s \o t) = Len(s) + Len(t)
        /\ \A i \in 1 .. Len(s) + Len(t) : (s \o t)[i] = IF i <= Len(s) THEN s[i] ELSE t[i - Len(s)]
    BY <2>1, ConcatProperties
  <2>3. Len(s) = 6 /\ Len(t) = 1 /\ Len(s) + Len(t) = 7
    BY <1>5, <1>6
  <2> QED
    BY <1>9, <2>2, <2>3
<1>11. v[1] = a1 /\ v[2] = a2 /\ v[3] = a3 /\ v[4] = a4 /\ v[5] = a5 /\ v[6] = a6 /\ v[7] = b1
  BY <1>5, <1>6, <1>10
<1>12. \A i \in 1..7 : v[i] = u[i]
  <2>1. \A i \in 1..7 : i = 1 \/ i = 2 \/ i = 3 \/ i = 4 \/ i = 5 \/ i = 6 \/ i = 7
    OBVIOUS
  <2> QED
    BY <1>8, <1>11, <2>1
<1> QED
  BY <1>1, <1>2, <1>3, <1>7, <1>9, <1>10, <1>12, SeqEqual

\* One name and one.
LEMMA Join11 ==
  ASSUME NEW a1,
         NEW b1
  PROVE  <<a1>> \o <<b1>>
           = <<a1, b1>>
<1>1. PICK s : s = <<a1>>
  OBVIOUS
<1>2. PICK t : t = <<b1>>
  OBVIOUS
<1>3. PICK u : u = <<a1, b1>>
  OBVIOUS
<1>4. PICK S : S = {a1, b1}
  OBVIOUS
<1>5. Len(s) = 1 /\ s \in Seq(S) /\ s[1] = a1
  BY <1>1, <1>4
<1>6. Len(t) = 1 /\ t \in Seq(S) /\ t[1] = b1
  BY <1>2, <1>4
<1>7. Len(u) = 2 /\ u \in Seq(S)
  BY <1>3, <1>4
<1>8. u[1] = a1 /\ u[2] = b1
  BY <1>3
<1>9. PICK v : v = s \o t
  OBVIOUS
<1>10. /\ v \in Seq(S) /\ Len(v) = 2 /\ \A i \in 1..2 : v[i] = IF i <= 1 THEN s[i] ELSE t[i - 1]
  <2>1. s \in Seq(S) /\ t \in Seq(S)
    BY <1>5, <1>6
  <2>2. /\ s \o t \in Seq(S) /\ Len(s \o t) = Len(s) + Len(t)
        /\ \A i \in 1 .. Len(s) + Len(t) : (s \o t)[i] = IF i <= Len(s) THEN s[i] ELSE t[i - Len(s)]
    BY <2>1, ConcatProperties
  <2>3. Len(s) = 1 /\ Len(t) = 1 /\ Len(s) + Len(t) = 2
    BY <1>5, <1>6
  <2> QED
    BY <1>9, <2>2, <2>3
<1>11. v[1] = a1 /\ v[2] = b1
  BY <1>5, <1>6, <1>10
<1>12. \A i \in 1..2 : v[i] = u[i]
  <2>1. \A i \in 1..2 : i = 1 \/ i = 2
    OBVIOUS
  <2> QED
    BY <1>8, <1>11, <2>1
<1> QED
  BY <1>1, <1>2, <1>3, <1>7, <1>9, <1>10, <1>12, SeqEqual

\* One name and two.
LEMMA Join12 ==
  ASSUME NEW a1,
         NEW b1, NEW b2
  PROVE  <<a1>> \o <<b1, b2>>
           = <<a1, b1, b2>>
<1>1. PICK s : s = <<a1>>
  OBVIOUS
<1>2. PICK t : t = <<b1, b2>>
  OBVIOUS
<1>3. PICK u : u = <<a1, b1, b2>>
  OBVIOUS
<1>4. PICK S : S = {a1, b1, b2}
  OBVIOUS
<1>5. Len(s) = 1 /\ s \in Seq(S) /\ s[1] = a1
  BY <1>1, <1>4
<1>6. Len(t) = 2 /\ t \in Seq(S) /\ t[1] = b1 /\ t[2] = b2
  BY <1>2, <1>4
<1>7. Len(u) = 3 /\ u \in Seq(S)
  BY <1>3, <1>4
<1>8. u[1] = a1 /\ u[2] = b1 /\ u[3] = b2
  BY <1>3
<1>9. PICK v : v = s \o t
  OBVIOUS
<1>10. /\ v \in Seq(S) /\ Len(v) = 3 /\ \A i \in 1..3 : v[i] = IF i <= 1 THEN s[i] ELSE t[i - 1]
  <2>1. s \in Seq(S) /\ t \in Seq(S)
    BY <1>5, <1>6
  <2>2. /\ s \o t \in Seq(S) /\ Len(s \o t) = Len(s) + Len(t)
        /\ \A i \in 1 .. Len(s) + Len(t) : (s \o t)[i] = IF i <= Len(s) THEN s[i] ELSE t[i - Len(s)]
    BY <2>1, ConcatProperties
  <2>3. Len(s) = 1 /\ Len(t) = 2 /\ Len(s) + Len(t) = 3
    BY <1>5, <1>6
  <2> QED
    BY <1>9, <2>2, <2>3
<1>11. v[1] = a1 /\ v[2] = b1 /\ v[3] = b2
  BY <1>5, <1>6, <1>10
<1>12. \A i \in 1..3 : v[i] = u[i]
  <2>1. \A i \in 1..3 : i = 1 \/ i = 2 \/ i = 3
    OBVIOUS
  <2> QED
    BY <1>8, <1>11, <2>1
<1> QED
  BY <1>1, <1>2, <1>3, <1>7, <1>9, <1>10, <1>12, SeqEqual

\* The paths of the mounts in newroot.
LEMMA NewrootPaths ==
  /\ Newroot(<<>>) = <<"newroot">>
  /\ Newroot(Dev) = <<"newroot", "dev">> /\ Newroot(Sys) = <<"newroot", "sys">>
  /\ Newroot(Proc) = <<"newroot", "proc">>
  /\ Newroot(Shm) = <<"newroot", "dev", "shm">> /\ Newroot(Pts) = <<"newroot", "dev", "pts">>
<1>1. Newroot(<<>>) = <<"newroot">>
  <2>1. <<"newroot">> \in Seq({"newroot"})
    OBVIOUS
  <2> QED
    BY <2>1, ConcatEmptySeq DEF Newroot
<1>2. Newroot(Dev) = <<"newroot", "dev">> /\ Newroot(Sys) = <<"newroot", "sys">>
      /\ Newroot(Proc) = <<"newroot", "proc">>
  BY Join11 DEF Newroot, Dev, Sys, Proc
<1>3. Newroot(Shm) = <<"newroot", "dev", "shm">> /\ Newroot(Pts) = <<"newroot", "dev", "pts">>
  BY Join12 DEF Newroot, Shm, Pts
<1> QED
  BY <1>1, <1>2, <1>3

\* The lists in full.
LEMMA ListsInFull ==
  /\ BaseMounts = << Call("mount", "proc", Proc), Call("mount", "sysfs", Sys),
                     Call("mount", "devfs", Dev), Call("mount", "devpts", Pts),
                     Call("mount", "shm", Shm), Call("seed", "none", Dev),
                     Call("mount", "run", Run), Call("mount", "tmp", Tmp) >>
  /\ PreswitchUmount = << Umount(Newroot(Shm)), Umount(Newroot(Pts)), Umount(Newroot(Dev)),
                          Umount(Newroot(Sys)), Umount(Newroot(Proc)),
                          Umount(Run), Umount(Tmp), Umount(Shm), Umount(Pts),
                          Move(Dev), Move(Sys), Move(Proc) >>
  /\ EjectMounts = << UmountAll(Newroot(<<>>)), Umount(Newroot(Shm)), Umount(Newroot(Pts)),
                      Umount(Newroot(Dev)), Umount(Newroot(Sys)), Umount(Newroot(Proc)),
                      UmountAll(Aux) >>
<1>1. BaseMounts = << Call("mount", "proc", Proc), Call("mount", "sysfs", Sys),
                     Call("mount", "devfs", Dev), Call("mount", "devpts", Pts),
                     Call("mount", "shm", Shm), Call("seed", "none", Dev),
                     Call("mount", "run", Run), Call("mount", "tmp", Tmp) >>
  BY Join62, SMTT(30) DEF BaseMounts, MountsAfterDev
<1>2. PreswitchUmount = << Umount(Newroot(Shm)), Umount(Newroot(Pts)), Umount(Newroot(Dev)),
                          Umount(Newroot(Sys)), Umount(Newroot(Proc)),
                          Umount(Run), Umount(Tmp), Umount(Shm), Umount(Pts),
                          Move(Dev), Move(Sys), Move(Proc) >>
  BY Join57, SMTT(30) DEF PreswitchUmount, EjectNewrootBasemounts
<1>3. EjectMounts = << UmountAll(Newroot(<<>>)), Umount(Newroot(Shm)), Umount(Newroot(Pts)),
                      Umount(Newroot(Dev)), Umount(Newroot(Sys)), Umount(Newroot(Proc)),
                      UmountAll(Aux) >>
  <2>1. << UmountAll(Newroot(<<>>)) >> \o EjectNewrootBasemounts
          = << UmountAll(Newroot(<<>>)), Umount(Newroot(Shm)), Umount(Newroot(Pts)),
               Umount(Newroot(Dev)), Umount(Newroot(Sys)), Umount(Newroot(Proc)) >>
    BY Join15, Zenon DEF EjectNewrootBasemounts
  <2>2. EjectMounts = << UmountAll(Newroot(<<>>)), Umount(Newroot(Shm)), Umount(Newroot(Pts)),
                         Umount(Newroot(Dev)), Umount(Newroot(Sys)), Umount(Newroot(Proc)) >>
                        \o << UmountAll(Aux) >>
    BY <2>1, Zenon DEF EjectMounts, EjectAuxMounts
  <2> QED
    BY <2>2, Join61, Zenon
<1> QED
  BY <1>1, <1>2, <1>3

\* What is to be called next, by how many calls are left.
LEMMA NextCall ==
  ASSUME Counters, todo # <<>>
  PROVE  /\ IsRest(Tail(todo), ListOf(pc)) /\ Left \in Nat /\ Len(Tail(todo)) = Left - 1
         /\ pc \in {"base", "binds", "aux", "preswitch", "eject"}
         /\ pc = "base" =>
              \/ Left = 8 /\ Head(todo) = Call("mount", "proc", Proc)
              \/ Left = 7 /\ Head(todo) = Call("mount", "sysfs", Sys)
              \/ Left = 6 /\ Head(todo) = Call("mount", "devfs", Dev)
              \/ Left = 5 /\ Head(todo) = Call("mount", "devpts", Pts)
              \/ Left = 4 /\ Head(todo) = Call("mount", "shm", Shm)
              \/ Left = 3 /\ Head(todo) = Call("seed", "none", Dev)
              \/ Left = 2 /\ Head(todo) = Call("mount", "run", Run)
              \/ Left = 1 /\ Head(todo) = Call("mount", "tmp", Tmp)
         /\ pc = "binds" =>
              \/ Left = 5 /\ Head(todo) = Call("bind", "none", Dev)
              \/ Left = 4 /\ Head(todo) = Call("bind", "none", Sys)
              \/ Left = 3 /\ Head(todo) = Call("bind", "none", Proc)
              \/ Left = 2 /\ Head(todo) = Call("mount", "shm", Newroot(Shm))
              \/ Left = 1 /\ Head(todo) = Call("mount", "devpts", Newroot(Pts))
         /\ pc = "aux" => Left = 1 /\ Head(todo) = UmountAll(Aux)
         /\ pc = "preswitch" =>
              \/ Left = 12 /\ Head(todo) = Umount(Newroot(Shm))
              \/ Left = 11 /\ Head(todo) = Umount(Newroot(Pts))
              \/ Left = 10 /\ Head(todo) = Umount(Newroot(Dev))
              \/ Left = 9 /\ Head(todo) = Umount(Newroot(Sys))
              \/ Left = 8 /\ Head(todo) = Umount(Newroot(Proc))
              \/ Left = 7 /\ Head(todo) = Umount(Run)
              \/ Left = 6 /\ Head(todo) = Umount(Tmp)
              \/ Left = 5 /\ Head(todo) = Umount(Shm)
              \/ Left = 4 /\ Head(todo) = Umount(Pts)
              \/ Left = 3 /\ Head(todo) = Move(Dev)
              \/ Left = 2 /\ Head(todo) = Move(Sys)
              \/ Left = 1 /\ Head(todo) = Move(Proc)
         /\ pc = "eject" =>
              \/ Left = 7 /\ Head(todo) = UmountAll(Newroot(<<>>))
              \/ Left = 6 /\ Head(todo) = Umount(Newroot(Shm))
              \/ Left = 5 /\ Head(todo) = Umount(Newroot(Pts))
              \/ Left = 4 /\ Head(todo) = Umount(Newroot(Dev))
              \/ Left = 3 /\ Head(todo) = Umount(Newroot(Sys))
              \/ Left = 2 /\ Head(todo) = Umount(Newroot(Proc))
              \/ Left = 1 /\ Head(todo) = UmountAll(Aux)
<1>1. IsRest(todo, ListOf(pc))
  BY DEF Counters
<1>2. ASSUME NEW list, list = ListOf(pc), NEW N \in Nat, Len(list) = N
      PROVE  /\ IsRest(Tail(todo), ListOf(pc)) /\ Left \in 1..N /\ Left \in Nat
             /\ Len(Tail(todo)) = Left - 1 /\ Head(todo) = list[N - Left + 1]
  BY <1>1, <1>2, RestStep DEF Left
<1>3. CASE pc = "base"
  <2>1. PICK l : l = BaseMounts
    OBVIOUS
  <2>2. Len(l) = 8 /\ l[1] = Call("mount", "proc", Proc) /\ l[2] = Call("mount", "sysfs", Sys)
        /\ l[3] = Call("mount", "devfs", Dev) /\ l[4] = Call("mount", "devpts", Pts)
        /\ l[5] = Call("mount", "shm", Shm) /\ l[6] = Call("seed", "none", Dev)
        /\ l[7] = Call("mount", "run", Run) /\ l[8] = Call("mount", "tmp", Tmp)
    BY <2>1, ListsInFull
  <2>3. ListOf(pc) = l
    BY <1>3, <2>1 DEF ListOf
  <2>4. /\ IsRest(Tail(todo), ListOf(pc)) /\ Left \in 1..8 /\ Left \in Nat
        /\ Len(Tail(todo)) = Left - 1 /\ Head(todo) = l[8 - Left + 1]
    <3>1. Len(l) \in Nat
      BY <2>2
    <3> QED
      BY <1>2, <2>2, <2>3, <3>1, Zenon
  <2>5. Left = 8 \/ Left = 7 \/ Left = 6 \/ Left = 5 \/ Left = 4 \/ Left = 3 \/ Left = 2 \/ Left = 1
    BY <2>4
  <2>6. \/ Left = 8 /\ Head(todo) = l[1]
        \/ Left = 7 /\ Head(todo) = l[2]
        \/ Left = 6 /\ Head(todo) = l[3]
        \/ Left = 5 /\ Head(todo) = l[4]
        \/ Left = 4 /\ Head(todo) = l[5]
        \/ Left = 3 /\ Head(todo) = l[6]
        \/ Left = 2 /\ Head(todo) = l[7]
        \/ Left = 1 /\ Head(todo) = l[8]
    BY <2>4, <2>5
  <2>7. \/ Left = 8 /\ Head(todo) = Call("mount", "proc", Proc)
        \/ Left = 7 /\ Head(todo) = Call("mount", "sysfs", Sys)
        \/ Left = 6 /\ Head(todo) = Call("mount", "devfs", Dev)
        \/ Left = 5 /\ Head(todo) = Call("mount", "devpts", Pts)
        \/ Left = 4 /\ Head(todo) = Call("mount", "shm", Shm)
        \/ Left = 3 /\ Head(todo) = Call("seed", "none", Dev)
        \/ Left = 2 /\ Head(todo) = Call("mount", "run", Run)
        \/ Left = 1 /\ Head(todo) = Call("mount", "tmp", Tmp)
    BY <2>2, <2>6
  <2> QED
    BY <1>3, <2>4, <2>7
<1>4. CASE pc = "binds"
  <2>1. PICK l : l = NewrootBasemounts
    OBVIOUS
  <2>2. Len(l) = 5 /\ l[1] = Call("bind", "none", Dev) /\ l[2] = Call("bind", "none", Sys)
        /\ l[3] = Call("bind", "none", Proc) /\ l[4] = Call("mount", "shm", Newroot(Shm))
        /\ l[5] = Call("mount", "devpts", Newroot(Pts))
    BY <2>1 DEF NewrootBasemounts
  <2>3. ListOf(pc) = l
    BY <1>4, <2>1 DEF ListOf
  <2>4. /\ IsRest(Tail(todo), ListOf(pc)) /\ Left \in 1..5 /\ Left \in Nat
        /\ Len(Tail(todo)) = Left - 1 /\ Head(todo) = l[5 - Left + 1]
    <3>1. Len(l) \in Nat
      BY <2>2
    <3> QED
      BY <1>2, <2>2, <2>3, <3>1, Zenon
  <2>5. Left = 5 \/ Left = 4 \/ Left = 3 \/ Left = 2 \/ Left = 1
    BY <2>4
  <2>6. \/ Left = 5 /\ Head(todo) = l[1]
        \/ Left = 4 /\ Head(todo) = l[2]
        \/ Left = 3 /\ Head(todo) = l[3]
        \/ Left = 2 /\ Head(todo) = l[4]
        \/ Left = 1 /\ Head(todo) = l[5]
    BY <2>4, <2>5
  <2>7. \/ Left = 5 /\ Head(todo) = Call("bind", "none", Dev)
        \/ Left = 4 /\ Head(todo) = Call("bind", "none", Sys)
        \/ Left = 3 /\ Head(todo) = Call("bind", "none", Proc)
        \/ Left = 2 /\ Head(todo) = Call("mount", "shm", Newroot(Shm))
        \/ Left = 1 /\ Head(todo) = Call("mount", "devpts", Newroot(Pts))
    BY <2>2, <2>6
  <2> QED
    BY <1>4, <2>4, <2>7
<1>5. CASE pc = "aux"
  <2>1. PICK l : l = EjectAuxMounts
    OBVIOUS
  <2>2. Len(l) = 1 /\ l[1] = UmountAll(Aux)
    BY <2>1 DEF EjectAuxMounts
  <2>3. ListOf(pc) = l
    BY <1>5, <2>1 DEF ListOf
  <2>4. /\ IsRest(Tail(todo), ListOf(pc)) /\ Left \in 1..1 /\ Left \in Nat
        /\ Len(Tail(todo)) = Left - 1 /\ Head(todo) = l[1 - Left + 1]
    <3>1. Len(l) \in Nat
      BY <2>2
    <3> QED
      BY <1>2, <2>2, <2>3, <3>1, Zenon
  <2>5. Left = 1
    BY <2>4
  <2>6. Left = 1 /\ Head(todo) = l[1]
    BY <2>4, <2>5
  <2>7. Left = 1 /\ Head(todo) = UmountAll(Aux)
    BY <2>2, <2>6
  <2> QED
    BY <1>5, <2>4, <2>7
<1>6. CASE pc = "preswitch"
  <2>1. PICK l : l = PreswitchUmount
    OBVIOUS
  <2>2. Len(l) = 12 /\ l[1] = Umount(Newroot(Shm)) /\ l[2] = Umount(Newroot(Pts))
        /\ l[3] = Umount(Newroot(Dev)) /\ l[4] = Umount(Newroot(Sys)) /\ l[5] = Umount(Newroot(Proc))
        /\ l[6] = Umount(Run) /\ l[7] = Umount(Tmp) /\ l[8] = Umount(Shm) /\ l[9] = Umount(Pts)
        /\ l[10] = Move(Dev) /\ l[11] = Move(Sys) /\ l[12] = Move(Proc)
    BY <2>1, ListsInFull
  <2>3. ListOf(pc) = l
    BY <1>6, <2>1 DEF ListOf
  <2>4. /\ IsRest(Tail(todo), ListOf(pc)) /\ Left \in 1..12 /\ Left \in Nat
        /\ Len(Tail(todo)) = Left - 1 /\ Head(todo) = l[12 - Left + 1]
    <3>1. Len(l) \in Nat
      BY <2>2
    <3> QED
      BY <1>2, <2>2, <2>3, <3>1, Zenon
  <2>5. \/ Left = 12 \/ Left = 11 \/ Left = 10 \/ Left = 9 \/ Left = 8 \/ Left = 7
        \/ Left = 6 \/ Left = 5 \/ Left = 4 \/ Left = 3 \/ Left = 2 \/ Left = 1
    BY <2>4
  <2>6. \/ Left = 12 /\ Head(todo) = l[1]
        \/ Left = 11 /\ Head(todo) = l[2]
        \/ Left = 10 /\ Head(todo) = l[3]
        \/ Left = 9 /\ Head(todo) = l[4]
        \/ Left = 8 /\ Head(todo) = l[5]
        \/ Left = 7 /\ Head(todo) = l[6]
        \/ Left = 6 /\ Head(todo) = l[7]
        \/ Left = 5 /\ Head(todo) = l[8]
        \/ Left = 4 /\ Head(todo) = l[9]
        \/ Left = 3 /\ Head(todo) = l[10]
        \/ Left = 2 /\ Head(todo) = l[11]
        \/ Left = 1 /\ Head(todo) = l[12]
    BY <2>4, <2>5
  <2>7. \/ Left = 12 /\ Head(todo) = Umount(Newroot(Shm))
        \/ Left = 11 /\ Head(todo) = Umount(Newroot(Pts))
        \/ Left = 10 /\ Head(todo) = Umount(Newroot(Dev))
        \/ Left = 9 /\ Head(todo) = Umount(Newroot(Sys))
        \/ Left = 8 /\ Head(todo) = Umount(Newroot(Proc))
        \/ Left = 7 /\ Head(todo) = Umount(Run)
        \/ Left = 6 /\ Head(todo) = Umount(Tmp)
        \/ Left = 5 /\ Head(todo) = Umount(Shm)
        \/ Left = 4 /\ Head(todo) = Umount(Pts)
        \/ Left = 3 /\ Head(todo) = Move(Dev)
        \/ Left = 2 /\ Head(todo) = Move(Sys)
        \/ Left = 1 /\ Head(todo) = Move(Proc)
    BY <2>2, <2>6
  <2> QED
    BY <1>6, <2>4, <2>7
<1>7. CASE pc = "eject"
  <2>1. PICK l : l = EjectMounts
    OBVIOUS
  <2>2. Len(l) = 7 /\ l[1] = UmountAll(Newroot(<<>>)) /\ l[2] = Umount(Newroot(Shm))
        /\ l[3] = Umount(Newroot(Pts)) /\ l[4] = Umount(Newroot(Dev))
        /\ l[5] = Umount(Newroot(Sys)) /\ l[6] = Umount(Newroot(Proc)) /\ l[7] = UmountAll(Aux)
    BY <2>1, ListsInFull
  <2>3. ListOf(pc) = l
    BY <1>7, <2>1 DEF ListOf
  <2>4. /\ IsRest(Tail(todo), ListOf(pc)) /\ Left \in 1..7 /\ Left \in Nat
        /\ Len(Tail(todo)) = Left - 1 /\ Head(todo) = l[7 - Left + 1]
    <3>1. Len(l) \in Nat
      BY <2>2
    <3> QED
      BY <1>2, <2>2, <2>3, <3>1, Zenon
  <2>5. Left = 7 \/ Left = 6 \/ Left = 5 \/ Left = 4 \/ Left = 3 \/ Left = 2 \/ Left = 1
    BY <2>4
  <2>6. \/ Left = 7 /\ Head(todo) = l[1]
        \/ Left = 6 /\ Head(todo) = l[2]
        \/ Left = 5 /\ Head(todo) = l[3]
        \/ Left = 4 /\ Head(todo) = l[4]
        \/ Left = 3 /\ Head(todo) = l[5]
        \/ Left = 2 /\ Head(todo) = l[6]
        \/ Left = 1 /\ Head(todo) = l[7]
    BY <2>4, <2>5
  <2>7. \/ Left = 7 /\ Head(todo) = UmountAll(Newroot(<<>>))
        \/ Left = 6 /\ Head(todo) = Umount(Newroot(Shm))
        \/ Left = 5 /\ Head(todo) = Umount(Newroot(Pts))
        \/ Left = 4 /\ Head(todo) = Umount(Newroot(Dev))
        \/ Left = 3 /\ Head(todo) = Umount(Newroot(Sys))
        \/ Left = 2 /\ Head(todo) = Umount(Newroot(Proc))
        \/ Left = 1 /\ Head(todo) = UmountAll(Aux)
    BY <2>2, <2>6
  <2> QED
    BY <1>7, <2>4, <2>7
<1>8. CASE pc \notin {"base", "binds", "aux", "preswitch", "eject"}
  <2>1. ListOf(pc) = <<>> /\ Len(<<>>) = 0
    BY <1>8 DEF ListOf
  <2>2. Left \in 1..0
    BY <1>2, <2>1
  <2> QED
    BY <2>2
<1> QED
  BY <1>3, <1>4, <1>5, <1>6, <1>7, <1>8

\* All of a list, and the last of it.
LEMMA WholeLists ==
  ASSUME NEW to
  PROVE  /\ IsRest(ListOf(to), ListOf(to)) /\ IsRest(<<>>, ListOf(to)) /\ Len(<<>>) = 0
         /\ Len(BaseMounts) = 8 /\ Len(NewrootBasemounts) = 5 /\ Len(EjectAuxMounts) = 1
         /\ Len(PreswitchUmount) = 12 /\ Len(EjectMounts) = 7
         /\ IsRest(MountsAfterDev, BaseMounts) /\ Len(MountsAfterDev) = 2
<1>1. /\ Len(BaseMounts) = 8 /\ Len(NewrootBasemounts) = 5 /\ Len(EjectAuxMounts) = 1
      /\ Len(PreswitchUmount) = 12 /\ Len(EjectMounts) = 7 /\ Len(<<>>) = 0
  BY ListsInFull DEF NewrootBasemounts, EjectAuxMounts
<1>2. ASSUME NEW a1, NEW a2, NEW a3, NEW a4, NEW a5, NEW a6, NEW a7, NEW a8, NEW a9, NEW a10, NEW a11, NEW a12
      PROVE  /\ <<a1>> \in Seq({a1}) /\ <<a1, a2, a3, a4, a5>> \in Seq({a1, a2, a3, a4, a5})
             /\ <<a1, a2, a3, a4, a5, a6, a7>> \in Seq({a1, a2, a3, a4, a5, a6, a7})
             /\ <<a1, a2, a3, a4, a5, a6, a7, a8>> \in Seq({a1, a2, a3, a4, a5, a6, a7, a8})
             /\ <<a1, a2, a3, a4, a5, a6, a7, a8, a9, a10, a11, a12>>
                  \in Seq({a1, a2, a3, a4, a5, a6, a7, a8, a9, a10, a11, a12})
  OBVIOUS
<1>3. \E S : BaseMounts \in Seq(S)
  BY <1>2, ListsInFull, Zenon
<1>4. \E S : NewrootBasemounts \in Seq(S)
  BY <1>2, Zenon DEF NewrootBasemounts
<1>5. \E S : EjectAuxMounts \in Seq(S)
  BY <1>2, Zenon DEF EjectAuxMounts
<1>6. \E S : PreswitchUmount \in Seq(S)
  BY <1>2, ListsInFull, Zenon
<1>7. \E S : EjectMounts \in Seq(S)
  BY <1>2, ListsInFull, Zenon
<1>8. \E S : <<>> \in Seq(S)
  OBVIOUS
<1>9. \E S : ListOf(to) \in Seq(S)
  BY <1>3, <1>4, <1>5, <1>6, <1>7, <1>8 DEF ListOf
<1>10. IsRest(ListOf(to), ListOf(to)) /\ IsRest(<<>>, ListOf(to))
  BY <1>9, RestEnds
<1>11. IsRest(MountsAfterDev, BaseMounts) /\ Len(MountsAfterDev) = 2
  <2>1. PICK s : s = MountsAfterDev
    OBVIOUS
  <2>2. PICK l : l = BaseMounts
    OBVIOUS
  <2>3. /\ Len(s) = 2 /\ s[1] = Call("mount", "run", Run) /\ s[2] = Call("mount", "tmp", Tmp)
        /\ s \in Seq({Call("mount", "run", Run), Call("mount", "tmp", Tmp)})
    BY <2>1 DEF MountsAfterDev
  <2>4. Len(l) = 8 /\ l[7] = Call("mount", "run", Run) /\ l[8] = Call("mount", "tmp", Tmp)
    BY <2>2, ListsInFull
  <2>5. IsRest(s, s)
    BY <2>3, RestEnds
  <2>6. \A j \in 1..2 : s[j] = l[8 - 2 + j]
    <3>1. \A j \in 1..2 : j = 1 \/ j = 2
      OBVIOUS
    <3> QED
      BY <2>3, <2>4, <3>1
  <2>7. IsRest(s, l)
    BY <2>3, <2>4, <2>5, <2>6 DEF IsRest
  <2> QED
    BY <2>1, <2>2, <2>3, <2>7
<1> QED
  BY <1>1, <1>10, <1>11

-------------------------------------------------------------------------------
(* What stays as it is.                                                       *)

\* newroot stays what it is when nothing is done to what is mounted there.
LEMMA NewrootStays ==
  ASSUME Types, Levels, Types', Levels',
         \A m \in DOMAIN tab : tab[m].dir = OnRoot("newroot") =>
           m \in DOMAIN tab' /\ tab'[m] = tab[m] /\ (IsTop(m)' <=> IsTop(m)),
         \A m \in DOMAIN tab' : tab'[m].dir = OnRoot("newroot") =>
           m \in DOMAIN tab /\ tab[m].dir = OnRoot("newroot")
  PROVE  NR' = NR /\ \A x : OnNR(x)' = OnNR(x)
<1>1. TopFacts /\ TopFacts'
  BY FollowTop, FollowTopNext
<1>2. PICK d : d = OnRoot("newroot")
  OBVIOUS
<1>3. d = OnRoot("newroot")'
  BY <1>2 DEF OnRoot, Dir
<1>4. NR = Follow(d) /\ NR' = Follow(d)'
  BY <1>2 DEF NR, OnRoot, Dir
<1>5. CASE Free(d)
  <2>1. Free(d)'
    BY <1>2, <1>5 DEF Free
  <2> QED
    BY <1>1, <1>4, <1>5, <2>1 DEF TopFacts, OnNR, Enter, Dir
<1>6. CASE ~ Free(d)
  <2>1. PICK M \in DOMAIN tab : tab[M].dir = d /\ IsTop(M)
    BY <1>1, <1>6 DEF TopFacts
  <2>2. M \in DOMAIN tab' /\ tab'[M].dir = d /\ IsTop(M)'
    BY <1>2, <2>1
  <2>3. Follow(d) = Dir(M, <<>>) /\ Follow(d)' = Dir(M, <<>>)
    BY <1>1, <2>1, <2>2 DEF TopFacts, Dir
  <2> QED
    BY <1>4, <2>3 DEF OnNR, Enter, Dir
<1> QED
  BY <1>5, <1>6

\* A mount stays well placed when the one it is in stays.
LEMMA PlaceStays ==
  ASSUME Types, NEW m \in DOMAIN tab, Placed(m), \A x : OnNR(x)' = OnNR(x),
         m \in DOMAIN tab', tab'[m] = tab[m], Root \notin DOMAIN tab,
         \A k \in DOMAIN tab : tab[m].dir.mnt = k => k \in DOMAIN tab' /\ tab'[k] = tab[k],
         tab[m].dir.mnt = Root \/ tab[m].dir.mnt \in DOMAIN tab, Root \notin DOMAIN tab'
  PROVE  Placed(m)'
<1>1. \A x : OnRoot(x)' = OnRoot(x)
  BY DEF OnRoot, Dir
<1>2. \A d : tab[m].dir = d /\ Below(d)' => Below(d)
  BY <1>1 DEF Below, Reserved
<1>3. Inside(m, "base", OnRoot("dev")) => Inside(m, "base", OnRoot("dev"))'
  BY <1>1 DEF Inside
<1>4. Inside(m, "temp", OnNR("dev")) => Inside(m, "temp", OnNR("dev"))'
  BY DEF Inside
<1>5. BasePlace(m) => BasePlace(m)'
  BY <1>1, <1>3 DEF BasePlace
<1>6. TempPlace(m) => TempPlace(m)'
  BY <1>4 DEF TempPlace
<1>7. OtherPlace(m) => OtherPlace(m)'
  <2>1. PICK d : d = tab[m].dir
    OBVIOUS
  <2>2. d = (tab[m].dir)'
    BY <2>1
  <2>3. ~ Below(d) => ~ Below(d)'
    BY <1>2, <2>1
  <2> QED
    BY <2>1, <2>2, <2>3 DEF OtherPlace
<1> QED
  BY <1>5, <1>6, <1>7 DEF Placed

\* newroot is what it was.
NewrootSame == \A x : OnNR(x)' = OnNR(x)

\* The tree when the table is not touched.
LEMMA SameTree ==
  ASSUME TreeInv, tab' = tab
  PROVE  TreeInv' /\ NewrootSame /\ \A m : IsTop(m)' <=> IsTop(m)
<1>1. Types'
  BY DEF TreeInv, Types, Dir
<1>2. Levels'
  BY DEF TreeInv, Levels, Stack
<1>3. \A m : IsTop(m)' <=> IsTop(m)
  BY DEF IsTop
<1>4. NewrootSame
  BY <1>1, <1>2, <1>3, NewrootStays DEF TreeInv, NewrootSame
<1>5. Apart /\ Owned
  BY OwnedByInit DEF TreeInv
<1>6. Root \notin DOMAIN tab
  BY DEF TreeInv, Types
<1>7. Places'
  <2>1. ASSUME NEW m \in DOMAIN tab PROVE Placed(m)'
    <3>1. Placed(m)
      BY DEF TreeInv, Places
    <3>2. tab[m].dir.mnt = Root \/ tab[m].dir.mnt \in DOMAIN tab
      BY <1>5 DEF Owned
    <3> QED
      BY <1>4, <1>6, <3>1, <3>2, PlaceStays DEF TreeInv, NewrootSame
  <2> QED
    BY <2>1 DEF Places
<1>8. Single'
  BY <1>4 DEF TreeInv, Single, NewrootSame
<1> QED
  BY <1>1, <1>2, <1>3, <1>4, <1>7, <1>8 DEF TreeInv

\* A mount elsewhere leaves newroot as it is.
LEMMA AddedNewroot ==
  ASSUME TreeInv, Types', Levels', NEW new, NEW by, NEW d, Added(new, by, d),
         d # OnRoot("newroot")
  PROVE  NewrootSame
<1>1. \A m \in DOMAIN tab : tab[m].dir = OnRoot("newroot") =>
        m \in DOMAIN tab' /\ tab'[m] = tab[m] /\ (IsTop(m)' <=> IsTop(m))
  BY DEF Added
<1>2. \A m \in DOMAIN tab' : tab'[m].dir = OnRoot("newroot") =>
        m \in DOMAIN tab /\ tab[m].dir = OnRoot("newroot")
  BY DEF Added
<1> QED
  BY <1>1, <1>2, NewrootStays DEF TreeInv, NewrootSame

\* The tree after a mount.
LEMMA AddedTree ==
  ASSUME TreeInv, Types', Levels', NEW new, NEW by, NEW d, Added(new, by, d),
         NewrootSame, Placed(new)',
         \/ Free(d)
         \/ \E x \in HandNames : d = OnNR(x)
         \/ by = "other" /\ \A m \in DOMAIN tab : tab[m].dir = d => tab[m].by = "other"
  PROVE  TreeInv'
<1>1. Apart /\ Owned
  BY OwnedByInit DEF TreeInv
<1>2. Root \notin DOMAIN tab /\ Root \notin DOMAIN tab'
  BY DEF TreeInv, Types
<1>3. Places'
  <2>1. ASSUME NEW m \in DOMAIN tab PROVE Placed(m)'
    <3>1. Placed(m)
      BY DEF TreeInv, Places
    <3>2. tab[m].dir.mnt = Root \/ tab[m].dir.mnt \in DOMAIN tab
      BY <1>1 DEF Owned
    <3>3. m \in DOMAIN tab' /\ tab'[m] = tab[m]
          /\ \A k \in DOMAIN tab : tab[m].dir.mnt = k => k \in DOMAIN tab' /\ tab'[k] = tab[k]
      BY DEF Added
    <3> QED
      BY <1>2, <3>1, <3>2, <3>3, PlaceStays DEF TreeInv, NewrootSame
  <2>2. \A m \in DOMAIN tab' : m \in DOMAIN tab \/ m = new
    BY DEF Added
  <2> QED
    BY <2>1, <2>2 DEF Places
<1>4. Single'
  <2>1. \A m, n \in DOMAIN tab' :
          tab'[m].by # "other" /\ tab'[n].dir = tab'[m].dir /\ n # m =>
            \E x \in HandNames : tab'[m].dir = OnNR(x)
    <3> SUFFICES ASSUME NEW m \in DOMAIN tab', NEW n \in DOMAIN tab',
                        tab'[m].by # "other", tab'[n].dir = tab'[m].dir, n # m
                 PROVE  \E x \in HandNames : tab'[m].dir = OnNR(x)
      OBVIOUS
    <3>1. CASE m # new /\ n # new
      <4>1. m \in DOMAIN tab /\ n \in DOMAIN tab /\ tab'[m] = tab[m] /\ tab'[n] = tab[n]
        BY <3>1 DEF Added
      <4> QED
        BY <4>1 DEF TreeInv, Single
    <3>2. CASE m = new
      <4>1. n \in DOMAIN tab /\ tab'[n] = tab[n] /\ tab'[m].dir = d /\ tab[n].dir = d /\ tab'[m].by = by
        BY <3>2 DEF Added
      <4>2. ~ Free(d) /\ by # "other"
        BY <4>1 DEF Free
      <4> QED
        BY <4>1, <4>2
    <3>3. CASE n = new
      <4>1. m \in DOMAIN tab /\ tab'[m] = tab[m] /\ tab'[m].dir = d /\ tab[m].dir = d /\ tab[m].by # "other"
        BY <3>3 DEF Added
      <4>2. ~ Free(d)
        BY <4>1 DEF Free
      <4> QED
        BY <4>1, <4>2
    <3> QED
      BY <3>1, <3>2, <3>3
  <2> QED
    BY <2>1 DEF Single, NewrootSame
<1> QED
  BY <1>3, <1>4 DEF TreeInv

\* The tree after the removal of a leaf.
LEMMA RemovedTree ==
  ASSUME TreeInv, Types', Levels', NEW t, Removed(t), tab[t].by # "other",
         \A n \in DOMAIN tab : tab[n].dir.mnt # t
  PROVE  TreeInv' /\ NewrootSame
<1>1. Apart /\ Owned
  BY OwnedByInit DEF TreeInv
<1>2. Root \notin DOMAIN tab /\ Root \notin DOMAIN tab'
  BY DEF TreeInv, Types
<1>3. tab[t].dir # OnRoot("newroot")
  BY <1>1 DEF Owned, Removed
<1>4. \A m \in DOMAIN tab' : m \in DOMAIN tab /\ tab'[m] = tab[m] /\ m # t
  BY DEF Removed
<1>5. \A m \in DOMAIN tab : m # t => m \in DOMAIN tab'
  BY DEF Removed
<1>6. NewrootSame
  <2>1. \A m \in DOMAIN tab : tab[m].dir = OnRoot("newroot") =>
          m \in DOMAIN tab' /\ tab'[m] = tab[m] /\ (IsTop(m)' <=> IsTop(m))
    BY <1>3, <1>4, <1>5 DEF Removed
  <2>2. \A m \in DOMAIN tab' : tab'[m].dir = OnRoot("newroot") =>
          m \in DOMAIN tab /\ tab[m].dir = OnRoot("newroot")
    BY <1>4
  <2> QED
    BY <2>1, <2>2, NewrootStays DEF TreeInv, NewrootSame
<1>7. Places'
  <2>1. ASSUME NEW m \in DOMAIN tab' PROVE Placed(m)'
    <3>1. m \in DOMAIN tab /\ Placed(m) /\ tab'[m] = tab[m]
      BY <1>4 DEF TreeInv, Places
    <3>2. tab[m].dir.mnt = Root \/ tab[m].dir.mnt \in DOMAIN tab
      BY <1>1, <3>1 DEF Owned
    <3>3. \A k \in DOMAIN tab : tab[m].dir.mnt = k => k \in DOMAIN tab' /\ tab'[k] = tab[k]
      BY <1>4, <1>5, <3>1
    <3> QED
      BY <1>2, <1>6, <3>1, <3>2, <3>3, PlaceStays DEF TreeInv, NewrootSame
  <2> QED
    BY <2>1 DEF Places
<1>8. Single'
  BY <1>4, <1>6 DEF TreeInv, Single, NewrootSame
<1> QED
  BY <1>6, <1>7, <1>8 DEF TreeInv

\* The tree after a move of a leaf to newroot.
LEMMA MovedTree ==
  ASSUME TreeInv, Types', Levels', NEW t, NEW x \in HandNames, NEW d, d = OnNR(x),
         MovedTo(t, d), tab[t].by = "base", \A n \in DOMAIN tab : tab[n].dir.mnt # t
  PROVE  TreeInv' /\ NewrootSame
<1>1. Apart /\ Owned
  BY OwnedByInit DEF TreeInv
<1>2. Root \notin DOMAIN tab /\ Root \notin DOMAIN tab'
  BY DEF TreeInv, Types
<1>3. tab[t].dir # OnRoot("newroot") /\ d # OnRoot("newroot")
  BY <1>1 DEF Owned, Apart, MovedTo
<1>4. /\ DOMAIN tab' = DOMAIN tab /\ t \in DOMAIN tab /\ tab'[t].by = "base" /\ tab'[t].dir = d
      /\ \A m \in DOMAIN tab : m # t => tab'[m] = tab[m]
  BY DEF MovedTo
<1>5. NewrootSame
  <2>1. \A m \in DOMAIN tab : tab[m].dir = OnRoot("newroot") =>
          m \in DOMAIN tab' /\ tab'[m] = tab[m] /\ (IsTop(m)' <=> IsTop(m))
    BY <1>3, <1>4 DEF MovedTo
  <2>2. \A m \in DOMAIN tab' : tab'[m].dir = OnRoot("newroot") =>
          m \in DOMAIN tab /\ tab[m].dir = OnRoot("newroot")
    BY <1>3, <1>4
  <2> QED
    BY <2>1, <2>2, NewrootStays DEF TreeInv, NewrootSame
<1>6. Places'
  <2>1. ASSUME NEW m \in DOMAIN tab, m # t PROVE Placed(m)'
    <3>1. Placed(m) /\ tab'[m] = tab[m]
      BY <1>4, <2>1 DEF TreeInv, Places
    <3>2. tab[m].dir.mnt = Root \/ tab[m].dir.mnt \in DOMAIN tab
      BY <1>1 DEF Owned
    <3>3. \A k \in DOMAIN tab : tab[m].dir.mnt = k => k \in DOMAIN tab' /\ tab'[k] = tab[k]
      BY <1>4
    <3> QED
      BY <1>2, <1>4, <1>5, <3>1, <3>2, <3>3, PlaceStays DEF TreeInv, NewrootSame
  <2>2. Placed(t)'
    BY <1>4, <1>5 DEF Placed, BasePlace, NewrootSame
  <2> QED
    BY <1>4, <2>1, <2>2 DEF Places
<1>7. Single'
  <2>1. \A m, n \in DOMAIN tab :
          tab'[m].by # "other" /\ tab'[n].dir = tab'[m].dir /\ n # m =>
            \E y \in HandNames : tab'[m].dir = OnNR(y)
    BY <1>4 DEF TreeInv, Single
  <2> QED
    BY <1>4, <1>5, <2>1 DEF Single, NewrootSame
<1> QED
  BY <1>5, <1>6, <1>7 DEF TreeInv

-------------------------------------------------------------------------------
(* Steps that leave the table alone.                                          *)

\* What the invariant says of the table is as true as before.
AtomsSame ==
  /\ \A x : RootFree(x)' <=> RootFree(x)
  /\ \A by, y : NoneIn(by, y)' <=> NoneIn(by, y)
  /\ \A by, x : NewrootNone(by, x)' <=> NewrootNone(by, x)
  /\ (AllBase' <=> AllBase) /\ (NoTemp' <=> NoTemp) /\ (TempOnce' <=> TempOnce)
  /\ \A S : DevReady(S)' <=> DevReady(S)
  /\ \A y : TopDevFree(y)' <=> TopDevFree(y)
  /\ \A x : BaseTop(x)' <=> BaseTop(x)

\* Nothing is said of the table but by what is in it.
LEMMA SameAtoms ==
  ASSUME TreeInv, tab' = tab
  PROVE  TreeInv' /\ AtomsSame
<1>1. TreeInv' /\ NewrootSame /\ \A m : IsTop(m)' <=> IsTop(m)
  BY SameTree
<1>2. \A d : Free(d)' <=> Free(d)
  BY DEF Free
<1>3. \A x : RootFree(x)' <=> RootFree(x)
  BY <1>2 DEF RootFree, OnRoot, Dir
<1>4. \A by, y : NoneIn(by, y)' <=> NoneIn(by, y)
  BY DEF NoneIn
<1>5. \A by, x : NewrootNone(by, x)' <=> NewrootNone(by, x)
  BY <1>1 DEF NewrootNone, NewrootSame
<1>6. (AllBase' <=> AllBase) /\ (NoTemp' <=> NoTemp) /\ (TempOnce' <=> TempOnce)
  BY DEF AllBase, NoTemp, TempOnce
<1>7. \A D, y : DevFree(D, y)' <=> DevFree(D, y)
  BY <1>2 DEF DevFree, Dir
<1>8. \A S : DevReady(S)' <=> DevReady(S)
  BY <1>1, <1>7 DEF DevReady, NewrootSame
<1>9. \A y : TopDevFree(y)' <=> TopDevFree(y)
  BY <1>1, <1>7 DEF TopDevFree, NewrootSame
<1>10. \A x : BaseTop(x)' <=> BaseTop(x)
  BY <1>1 DEF BaseTop, NewrootSame
<1> QED
  BY <1>1, <1>3, <1>4, <1>5, <1>6, <1>8, <1>9, <1>10 DEF AtomsSame

\* Left is a number that is zero when there is nothing to do.
LEMMA LeftNat ==
  ASSUME Counters
  PROVE  Left \in Nat /\ (todo = <<>> <=> Left = 0) /\ (pc \notin {"base", "binds", "aux", "preswitch", "eject"} => Left = 0)
<1>1. todo \in Seq(ToSet(todo)) /\ Len(todo) <= Len(ListOf(pc))
  BY DEF Counters, IsRest
<1>2. Len(todo) \in Nat /\ (todo = <<>> <=> Len(todo) = 0)
  BY <1>1
<1>3. pc \notin {"base", "binds", "aux", "preswitch", "eject"} => Len(ListOf(pc)) = 0
  BY DEF ListOf
<1> QED
  BY <1>1, <1>2, <1>3 DEF Left

\* A step to another place, with all of its calls to do.
LEMMA GotoRest ==
  ASSUME NEW to, pc' = to, todo' = ListOf(to) \/ todo' = <<>>
  PROVE  /\ IsRest(todo', ListOf(pc'))
         /\ todo' = <<>> => Left' = 0
         /\ todo' = NewrootBasemounts => Left' = 5
         /\ todo' = EjectAuxMounts => Left' = 1
         /\ todo' = PreswitchUmount => Left' = 12
         /\ todo' = EjectMounts => Left' = 7
<1>1. IsRest(todo', ListOf(pc'))
  BY WholeLists
<1>2. Left' = Len(todo')
  BY DEF Left
<1> QED
  BY <1>1, <1>2, WholeLists

\* BaseMountFails.
LEMMA InvBaseMountFails ==
  ASSUME MountsInv, BaseMountFails
  PROVE  MountsInv'
<1>1. TreeInv' /\ AtomsSame
  BY SameAtoms DEF MountsInv, BaseMountFails
<1>2. Counters /\ todo # <<>> /\ pc = "base" /\ pc' = "base" /\ UNCHANGED <<refused, binds, switches>>
  BY DEF MountsInv, BaseMountFails, Next1
<1>3. /\ Left \in 1..8 /\ Left \in Nat /\ Left' \in Nat /\ IsRest(todo', BaseMounts)
      /\ \/ Left \in {8, 7, 2, 1} /\ Left' = Left - 1
         \/ Left \in {6, 5, 4, 3} /\ Left' = 2
  <2>1. Left' = Len(todo')
    BY DEF Left
  <2>2. IsRest(MountsAfterDev, BaseMounts) /\ Len(MountsAfterDev) = 2
    BY WholeLists
  <2>3. /\ IsRest(Tail(todo), BaseMounts) /\ Left \in Nat /\ Len(Tail(todo)) = Left - 1
    BY <1>2, NextCall DEF ListOf
  <2>4. todo' = IF Head(Head(todo).at) = "dev" THEN MountsAfterDev ELSE Tail(todo)
    BY DEF BaseMountFails, Arg
  <2>5. \A a, b, c : Call(a, b, c).at = c
    BY DEF Call
  <2>6. \/ Left = 8 /\ Head(todo).at = Proc
        \/ Left = 7 /\ Head(todo).at = Sys
        \/ Left \in {6, 5, 4, 3} /\ Head(todo).at \in {Dev, Pts, Shm}
        \/ Left = 2 /\ Head(todo).at = Run
        \/ Left = 1 /\ Head(todo).at = Tmp
    <3>1. \/ Left = 8 /\ Head(todo) = Call("mount", "proc", Proc)
          \/ Left = 7 /\ Head(todo) = Call("mount", "sysfs", Sys)
          \/ Left = 6 /\ Head(todo) = Call("mount", "devfs", Dev)
          \/ Left = 5 /\ Head(todo) = Call("mount", "devpts", Pts)
          \/ Left = 4 /\ Head(todo) = Call("mount", "shm", Shm)
          \/ Left = 3 /\ Head(todo) = Call("seed", "none", Dev)
          \/ Left = 2 /\ Head(todo) = Call("mount", "run", Run)
          \/ Left = 1 /\ Head(todo) = Call("mount", "tmp", Tmp)
      BY <1>2, NextCall
    <3> QED
      BY <2>5, <3>1
  <2>7. Head(Proc) = "proc" /\ Head(Sys) = "sys" /\ Head(Dev) = "dev" /\ Head(Pts) = "dev"
        /\ Head(Shm) = "dev" /\ Head(Run) = "run" /\ Head(Tmp) = "tmp"
    BY DEF Proc, Sys, Dev, Pts, Shm, Run, Tmp
  <2>8. CASE Left \in {8, 7, 2, 1} /\ Head(Head(todo).at) # "dev"
    <3>1. todo' = Tail(todo)
      BY <2>4, <2>8, Zenon
    <3>2. Left' = Left - 1 /\ IsRest(todo', BaseMounts)
      BY <2>1, <2>3, <3>1
    <3> QED
      BY <2>3, <2>8, <3>2
  <2>9. CASE Left \in {6, 5, 4, 3} /\ Head(Head(todo).at) = "dev"
    <3>1. todo' = MountsAfterDev
      BY <2>4, <2>9, Zenon
    <3>2. Left' = 2 /\ IsRest(todo', BaseMounts)
      BY <2>1, <2>2, <3>1
    <3> QED
      BY <2>3, <2>9, <3>2
  <2> QED
    BY <2>6, <2>7, <2>8, <2>9
<1>4. Counters'
  <2>1. IsRest(todo', ListOf(pc'))
    BY <1>2, <1>3 DEF ListOf
  <2> QED
    BY <1>2, <2>1 DEF Counters
<1>5. switches = 0 /\ switches' = 0
  BY <1>2 DEF Counters
<1>6. BaseProgress'
  BY <1>1, <1>2, <1>3 DEF MountsInv, BaseProgress, AtomsSame
<1>7. BindProgress'
  BY <1>1, <1>2 DEF MountsInv, BindProgress, AtomsSame
<1>8. TempProgress'
  BY <1>2, <1>5 DEF TempProgress, Ejected, Passed
<1>9. LeafProgress'
  BY <1>2 DEF LeafProgress
<1>10. SwitchProgress'
  BY <1>5 DEF SwitchProgress, Passed
<1>11. HandProgress'
  BY <1>1, <1>2, <1>5 DEF MountsInv, HandProgress, Hand, Passed, AtomsSame
<1> QED
  BY <1>1, <1>4, <1>6, <1>7, <1>8, <1>9, <1>10, <1>11 DEF MountsInv

\* A step to another list of calls, or on in one, that leaves the table alone.
LEMMA ControlStep ==
  ASSUME MountsInv, tab' = tab, refused' = refused, Counters', pc' # "base",
         pc' = "work" => pc = "base",
         pc' = "binds" => Left' = 5 /\ (binds' = 1 => pc = "work"),
         binds' = binds \/ (binds' = binds + 1 /\ pc' = "binds"),
         pc' = "preswitch" => Left' = 12,
         pc' = "eject" => Left' \in {7, 6, 0},
         \A n \in 0..6 : Passed(n)' <=> Passed(n),
         \A n \in 0..4 : Ejected(n)' => Ejected(n),
         switches' = 1 /\ pc' \notin {"eject", "panic"} =>
           switches = 0 \/ (switches = 1 /\ pc \notin {"eject", "panic"})
  PROVE  MountsInv'
<1>1. TreeInv' /\ AtomsSame
  BY SameAtoms DEF MountsInv
<1>2. Left \in Nat /\ Left' \in Nat
  <2>1. Left \in Nat
    BY LeftNat DEF MountsInv
  <2>2. Left' \in Nat
    <3>1. todo' \in Seq(ToSet(todo)')
      BY DEF Counters, IsRest
    <3> QED
      BY <3>1 DEF Left
  <2> QED
    BY <2>1, <2>2
<1>3. BaseProgress'
  BY DEF BaseProgress
<1>4. binds \in Nat /\ switches \in Nat
  BY DEF MountsInv, Counters
<1>5. BindProgress'
  <2>1. pc' = "work" => NoTemp'
    BY <1>1 DEF MountsInv, BindProgress, AtomsSame
  <2>2. pc' = "binds" /\ binds' = 1 => NoTemp'
    BY <1>1 DEF MountsInv, BindProgress, AtomsSame
  <2>3. NoTemp' => NewrootNone("temp", "sys")' /\ NewrootNone("temp", "proc")'
    BY DEF NoTemp, NewrootNone
  <2>4. binds' <= 1 => TempOnce'
    BY <1>1, <1>4 DEF MountsInv, BindProgress, AtomsSame
  <2> QED
    BY <2>1, <2>2, <2>3, <2>4 DEF BindProgress
<1>6. TempProgress'
  <2>1. /\ Ejected(4)' => Ejected(4)
        /\ Ejected(3)' => Ejected(3)
        /\ Ejected(2)' => Ejected(2)
        /\ Ejected(1)' => Ejected(1)
        /\ Ejected(0)' => Ejected(0)
    OBVIOUS
  <2>2. binds' <= 1 => binds <= 1
    BY <1>4
  <2> QED
    BY <1>1, <2>1, <2>2 DEF MountsInv, TempProgress, AtomsSame
<1>7. LeafProgress'
  BY DEF LeafProgress
<1>8. /\ Passed(6)' <=> Passed(6)
      /\ Passed(5)' <=> Passed(5)
      /\ Passed(4)' <=> Passed(4)
      /\ Passed(3)' <=> Passed(3)
      /\ Passed(2)' <=> Passed(2)
      /\ Passed(1)' <=> Passed(1)
      /\ Passed(0)' <=> Passed(0)
  OBVIOUS
<1>9. SwitchProgress'
  BY <1>1, <1>8 DEF MountsInv, SwitchProgress, AtomsSame
<1>10. HandProgress'
  <2>1. ASSUME NEW x, NEW n \in 0..2, Hand(x, n) PROVE Hand(x, n)'
    <3>1. Passed(n)' <=> Passed(n)
      OBVIOUS
    <3>2. NewrootNone("base", x) => BaseTop(x)
      BY DEF NewrootNone, BaseTop
    <3>3. switches = 0 => ~ Passed(n)
      BY DEF Passed
    <3> QED
      BY <1>1, <2>1, <3>1, <3>2, <3>3 DEF Hand, AtomsSame
  <2>2. Hand("dev", 2) /\ Hand("sys", 1) /\ Hand("proc", 0)
    BY DEF MountsInv, HandProgress
  <2> QED
    BY <2>1, <2>2 DEF HandProgress
<1> QED
  BY <1>1, <1>3, <1>5, <1>6, <1>7, <1>9, <1>10 DEF MountsInv

\* BaseMountsDone.
LEMMA InvBaseMountsDone ==
  ASSUME MountsInv, BaseMountsDone
  PROVE  MountsInv'
<1>0. Counters /\ Left \in Nat /\ binds \in Nat /\ switches \in Nat
      /\ (todo = <<>> => Left = 0)
      /\ (pc \notin {"base", "binds", "aux", "preswitch", "eject"} => Left = 0)
  BY LeftNat DEF MountsInv, Counters
<1>1. CASE failed
  <2>1. pc = "base" /\ binds = 0 /\ switches = 0 /\ pc' = "eject" /\ todo' = EjectMounts /\ UNCHANGED <<tab, refused>>
        /\ UNCHANGED <<binds, switches>>
    BY <1>0, <1>1 DEF BaseMountsDone, Goto, Counters
  <2>2. IsRest(todo', ListOf(pc')) /\ Left' = 7
    BY <2>1, GotoRest DEF ListOf
  <2>3. Counters'
    BY <1>0, <2>1, <2>2 DEF Counters
  <2>4. \A n \in 0..6 : Passed(n)' <=> Passed(n)
    BY <1>0, <2>1, <2>2 DEF Passed
  <2>5. \A n \in 0..4 : Ejected(n)' => Ejected(n)
    BY <1>0, <2>1, <2>2 DEF Ejected, Passed
  <2> QED
    BY <1>0, <2>1, <2>2, <2>3, <2>4, <2>5, ControlStep
<1>2. CASE ~ failed
  <2>1. pc = "base" /\ binds = 0 /\ switches = 0 /\ pc' = "work" /\ todo' = <<>> /\ UNCHANGED <<tab, refused>>
        /\ UNCHANGED <<binds, switches>>
    BY <1>0, <1>2 DEF BaseMountsDone, Goto, Counters
  <2>2. IsRest(todo', ListOf(pc')) /\ Left' = 0
    BY <2>1, GotoRest DEF ListOf
  <2>3. Counters'
    BY <1>0, <2>1, <2>2 DEF Counters
  <2>4. \A n \in 0..6 : Passed(n)' <=> Passed(n)
    BY <1>0, <2>1, <2>2 DEF Passed
  <2>5. \A n \in 0..4 : Ejected(n)' => Ejected(n)
    BY <1>0, <2>1, <2>2 DEF Ejected, Passed
  <2> QED
    BY <1>0, <2>1, <2>2, <2>3, <2>4, <2>5, ControlStep
<1> QED
  BY <1>1, <1>2

\* GiveUp.
LEMMA InvGiveUp ==
  ASSUME MountsInv, GiveUp
  PROVE  MountsInv'
<1>0. Counters /\ Left \in Nat /\ binds \in Nat /\ switches \in Nat
      /\ (todo = <<>> => Left = 0)
      /\ (pc \notin {"base", "binds", "aux", "preswitch", "eject"} => Left = 0)
  BY LeftNat DEF MountsInv, Counters
<1>1. pc \in {"work", "late", "last"} /\ switches = 0 /\ pc' = "eject" /\ todo' = EjectMounts /\ UNCHANGED <<tab, refused>>
      /\ UNCHANGED <<binds, switches>>
  BY <1>0 DEF GiveUp, Goto, Counters
<1>2. IsRest(todo', ListOf(pc')) /\ Left' = 7
  BY <1>1, GotoRest DEF ListOf
<1>3. Counters'
  BY <1>0, <1>1, <1>2 DEF Counters
<1>4. \A n \in 0..6 : Passed(n)' <=> Passed(n)
  BY <1>0, <1>1, <1>2 DEF Passed
<1>5. \A n \in 0..4 : Ejected(n)' => Ejected(n)
  BY <1>0, <1>1, <1>2 DEF Ejected, Passed
<1> QED
  BY <1>0, <1>1, <1>2, <1>3, <1>4, <1>5, ControlStep

\* CallNewrootBasemounts.
LEMMA InvCallNewrootBasemounts ==
  ASSUME MountsInv, CallNewrootBasemounts
  PROVE  MountsInv'
<1>0. Counters /\ Left \in Nat /\ binds \in Nat /\ switches \in Nat
      /\ (todo = <<>> => Left = 0)
      /\ (pc \notin {"base", "binds", "aux", "preswitch", "eject"} => Left = 0)
  BY LeftNat DEF MountsInv, Counters
<1>1. pc = "work" /\ binds = 0 /\ switches = 0 /\ pc' = "binds" /\ todo' = NewrootBasemounts /\ UNCHANGED <<tab, refused>>
      /\ binds' = binds + 1 /\ switches' = switches
  BY <1>0 DEF CallNewrootBasemounts, Goto, Counters
<1>2. IsRest(todo', ListOf(pc')) /\ Left' = 5
  BY <1>1, GotoRest DEF ListOf
<1>3. Counters'
  BY <1>0, <1>1, <1>2 DEF Counters
<1>4. \A n \in 0..6 : Passed(n)' <=> Passed(n)
  BY <1>0, <1>1, <1>2 DEF Passed
<1>5. \A n \in 0..4 : Ejected(n)' => Ejected(n)
  BY <1>0, <1>1, <1>2 DEF Ejected, Passed
<1> QED
  BY <1>0, <1>1, <1>2, <1>3, <1>4, <1>5, ControlStep

\* NewrootMountFails.
LEMMA InvNewrootMountFails ==
  ASSUME MountsInv, NewrootMountFails
  PROVE  MountsInv'
<1>0. Counters /\ Left \in Nat /\ binds \in Nat /\ switches \in Nat
      /\ (todo = <<>> => Left = 0)
      /\ (pc \notin {"base", "binds", "aux", "preswitch", "eject"} => Left = 0)
  BY LeftNat DEF MountsInv, Counters
<1>1. pc = "binds" /\ binds # 0 /\ switches = 0 /\ pc' = "bindlatch" /\ todo' = <<>> /\ UNCHANGED <<tab, refused>>
      /\ UNCHANGED <<binds, switches>>
  BY <1>0 DEF NewrootMountFails, Goto, Counters
<1>2. IsRest(todo', ListOf(pc')) /\ Left' = 0
  BY <1>1, GotoRest DEF ListOf
<1>3. Counters'
  BY <1>0, <1>1, <1>2 DEF Counters
<1>4. \A n \in 0..6 : Passed(n)' <=> Passed(n)
  BY <1>0, <1>1, <1>2 DEF Passed
<1>5. \A n \in 0..4 : Ejected(n)' => Ejected(n)
  BY <1>0, <1>1, <1>2 DEF Ejected, Passed
<1> QED
  BY <1>0, <1>1, <1>2, <1>3, <1>4, <1>5, ControlStep

\* CallEjectAux.
LEMMA InvCallEjectAux ==
  ASSUME MountsInv, CallEjectAux
  PROVE  MountsInv'
<1>0. Counters /\ Left \in Nat /\ binds \in Nat /\ switches \in Nat
      /\ (todo = <<>> => Left = 0)
      /\ (pc \notin {"base", "binds", "aux", "preswitch", "eject"} => Left = 0)
  BY LeftNat DEF MountsInv, Counters
<1>1. pc = "late" /\ switches = 0 /\ pc' = "aux" /\ todo' = EjectAuxMounts /\ UNCHANGED <<tab, refused>>
      /\ UNCHANGED <<binds, switches>>
  BY <1>0 DEF CallEjectAux, Goto, Counters
<1>2. IsRest(todo', ListOf(pc')) /\ Left' = 1
  BY <1>1, GotoRest DEF ListOf
<1>3. Counters'
  BY <1>0, <1>1, <1>2 DEF Counters
<1>4. \A n \in 0..6 : Passed(n)' <=> Passed(n)
  BY <1>0, <1>1, <1>2 DEF Passed
<1>5. \A n \in 0..4 : Ejected(n)' => Ejected(n)
  BY <1>0, <1>1, <1>2 DEF Ejected, Passed
<1> QED
  BY <1>0, <1>1, <1>2, <1>3, <1>4, <1>5, ControlStep

\* CallSwitchRoot.
LEMMA InvCallSwitchRoot ==
  ASSUME MountsInv, CallSwitchRoot
  PROVE  MountsInv'
<1>0. Counters /\ Left \in Nat /\ binds \in Nat /\ switches \in Nat
      /\ (todo = <<>> => Left = 0)
      /\ (pc \notin {"base", "binds", "aux", "preswitch", "eject"} => Left = 0)
  BY LeftNat DEF MountsInv, Counters
<1>1. pc = "last" /\ switches = 0 /\ pc' = "preswitch" /\ todo' = PreswitchUmount /\ UNCHANGED <<tab, refused>>
      /\ switches' = switches + 1 /\ binds' = binds
  BY <1>0 DEF CallSwitchRoot, Goto, Counters
<1>2. IsRest(todo', ListOf(pc')) /\ Left' = 12
  BY <1>1, GotoRest DEF ListOf
<1>3. Counters'
  BY <1>0, <1>1, <1>2 DEF Counters
<1>4. \A n \in 0..6 : Passed(n)' <=> Passed(n)
  BY <1>0, <1>1, <1>2 DEF Passed
<1>5. \A n \in 0..4 : Ejected(n)' => Ejected(n)
  BY <1>0, <1>1, <1>2 DEF Ejected, Passed
<1> QED
  BY <1>0, <1>1, <1>2, <1>3, <1>4, <1>5, ControlStep

\* BindLatch.
LEMMA InvBindLatch ==
  ASSUME MountsInv, BindLatch
  PROVE  MountsInv'
<1>0. Counters /\ Left \in Nat /\ binds \in Nat /\ switches \in Nat
      /\ (todo = <<>> => Left = 0)
      /\ (pc \notin {"base", "binds", "aux", "preswitch", "eject"} => Left = 0)
  BY LeftNat DEF MountsInv, Counters
<1>1. CASE Goto("binds", NewrootBasemounts) /\ binds' = binds + 1
  <2>1. pc = "bindlatch" /\ binds # 0 /\ switches = 0 /\ pc' = "binds" /\ todo' = NewrootBasemounts /\ UNCHANGED <<tab, refused>>
        /\ binds' = binds + 1 /\ switches' = switches
    BY <1>0, <1>1 DEF BindLatch, Goto, Counters
  <2>2. IsRest(todo', ListOf(pc')) /\ Left' = 5
    BY <2>1, GotoRest DEF ListOf
  <2>3. Counters'
    BY <1>0, <2>1, <2>2 DEF Counters
  <2>4. \A n \in 0..6 : Passed(n)' <=> Passed(n)
    BY <1>0, <2>1, <2>2 DEF Passed
  <2>5. \A n \in 0..4 : Ejected(n)' => Ejected(n)
    BY <1>0, <2>1, <2>2 DEF Ejected, Passed
  <2> QED
    BY <1>0, <2>1, <2>2, <2>3, <2>4, <2>5, ControlStep
<1>2. CASE Goto("late", <<>>) /\ UNCHANGED binds
  <2>1. pc = "bindlatch" /\ switches = 0 /\ pc' = "late" /\ todo' = <<>> /\ UNCHANGED <<tab, refused>>
        /\ UNCHANGED <<binds, switches>>
    BY <1>0, <1>2 DEF BindLatch, Goto, Counters
  <2>2. IsRest(todo', ListOf(pc')) /\ Left' = 0
    BY <2>1, GotoRest DEF ListOf
  <2>3. Counters'
    BY <1>0, <2>1, <2>2 DEF Counters
  <2>4. \A n \in 0..6 : Passed(n)' <=> Passed(n)
    BY <1>0, <2>1, <2>2 DEF Passed
  <2>5. \A n \in 0..4 : Ejected(n)' => Ejected(n)
    BY <1>0, <2>1, <2>2 DEF Ejected, Passed
  <2> QED
    BY <1>0, <2>1, <2>2, <2>3, <2>4, <2>5, ControlStep
<1>3. CASE Goto("eject", EjectMounts) /\ UNCHANGED binds
  <2>1. pc = "bindlatch" /\ switches = 0 /\ pc' = "eject" /\ todo' = EjectMounts /\ UNCHANGED <<tab, refused>>
        /\ UNCHANGED <<binds, switches>>
    BY <1>0, <1>3 DEF BindLatch, Goto, Counters
  <2>2. IsRest(todo', ListOf(pc')) /\ Left' = 7
    BY <2>1, GotoRest DEF ListOf
  <2>3. Counters'
    BY <1>0, <2>1, <2>2 DEF Counters
  <2>4. \A n \in 0..6 : Passed(n)' <=> Passed(n)
    BY <1>0, <2>1, <2>2 DEF Passed
  <2>5. \A n \in 0..4 : Ejected(n)' => Ejected(n)
    BY <1>0, <2>1, <2>2 DEF Ejected, Passed
  <2> QED
    BY <1>0, <2>1, <2>2, <2>3, <2>4, <2>5, ControlStep
<1> QED
  BY <1>1, <1>2, <1>3 DEF BindLatch

\* Exec.
LEMMA InvExec ==
  ASSUME MountsInv, Exec
  PROVE  MountsInv'
<1>0. Counters /\ Left \in Nat /\ binds \in Nat /\ switches \in Nat
      /\ (todo = <<>> => Left = 0)
      /\ (pc \notin {"base", "binds", "aux", "preswitch", "eject"} => Left = 0)
  BY LeftNat DEF MountsInv, Counters
<1>1. CASE Goto("switched", <<>>)
  <2>1. pc = "exec" /\ switches # 0 /\ pc' = "switched" /\ todo' = <<>> /\ UNCHANGED <<tab, refused>>
        /\ UNCHANGED <<binds, switches>>
    BY <1>0, <1>1 DEF Exec, Goto, Counters
  <2>2. IsRest(todo', ListOf(pc')) /\ Left' = 0
    BY <2>1, GotoRest DEF ListOf
  <2>3. Counters'
    BY <1>0, <2>1, <2>2 DEF Counters
  <2>4. \A n \in 0..6 : Passed(n)' <=> Passed(n)
    BY <1>0, <2>1, <2>2 DEF Passed
  <2>5. \A n \in 0..4 : Ejected(n)' => Ejected(n)
    BY <1>0, <2>1, <2>2 DEF Ejected, Passed
  <2> QED
    BY <1>0, <2>1, <2>2, <2>3, <2>4, <2>5, ControlStep
<1>2. CASE Goto("switchlatch", <<>>)
  <2>1. pc = "exec" /\ switches # 0 /\ pc' = "switchlatch" /\ todo' = <<>> /\ UNCHANGED <<tab, refused>>
        /\ UNCHANGED <<binds, switches>>
    BY <1>0, <1>2 DEF Exec, Goto, Counters
  <2>2. IsRest(todo', ListOf(pc')) /\ Left' = 0
    BY <2>1, GotoRest DEF ListOf
  <2>3. Counters'
    BY <1>0, <2>1, <2>2 DEF Counters
  <2>4. \A n \in 0..6 : Passed(n)' <=> Passed(n)
    BY <1>0, <2>1, <2>2 DEF Passed
  <2>5. \A n \in 0..4 : Ejected(n)' => Ejected(n)
    BY <1>0, <2>1, <2>2 DEF Ejected, Passed
  <2> QED
    BY <1>0, <2>1, <2>2, <2>3, <2>4, <2>5, ControlStep
<1> QED
  BY <1>1, <1>2 DEF Exec

\* SwitchLatch.
LEMMA InvSwitchLatch ==
  ASSUME MountsInv, SwitchLatch
  PROVE  MountsInv'
<1>0. Counters /\ Left \in Nat /\ binds \in Nat /\ switches \in Nat
      /\ (todo = <<>> => Left = 0)
      /\ (pc \notin {"base", "binds", "aux", "preswitch", "eject"} => Left = 0)
  BY LeftNat DEF MountsInv, Counters
<1>1. CASE Goto("preswitch", PreswitchUmount) /\ switches' = switches + 1
  <2>1. pc = "switchlatch" /\ switches # 0 /\ pc' = "preswitch" /\ todo' = PreswitchUmount /\ UNCHANGED <<tab, refused>>
        /\ switches' = switches + 1 /\ binds' = binds
    BY <1>0, <1>1 DEF SwitchLatch, Goto, Counters
  <2>2. IsRest(todo', ListOf(pc')) /\ Left' = 12
    BY <2>1, GotoRest DEF ListOf
  <2>3. Counters'
    BY <1>0, <2>1, <2>2 DEF Counters
  <2>4. \A n \in 0..6 : Passed(n)' <=> Passed(n)
    BY <1>0, <2>1, <2>2 DEF Passed
  <2>5. \A n \in 0..4 : Ejected(n)' => Ejected(n)
    BY <1>0, <2>1, <2>2 DEF Ejected, Passed
  <2> QED
    BY <1>0, <2>1, <2>2, <2>3, <2>4, <2>5, ControlStep
<1>2. CASE Goto("eject", EjectMounts) /\ UNCHANGED switches
  <2>1. pc = "switchlatch" /\ switches # 0 /\ pc' = "eject" /\ todo' = EjectMounts /\ UNCHANGED <<tab, refused>>
        /\ UNCHANGED <<binds, switches>>
    BY <1>0, <1>2 DEF SwitchLatch, Goto, Counters
  <2>2. IsRest(todo', ListOf(pc')) /\ Left' = 7
    BY <2>1, GotoRest DEF ListOf
  <2>3. Counters'
    BY <1>0, <2>1, <2>2 DEF Counters
  <2>4. \A n \in 0..6 : Passed(n)' <=> Passed(n)
    BY <1>0, <2>1, <2>2 DEF Passed
  <2>5. \A n \in 0..4 : Ejected(n)' => Ejected(n)
    BY <1>0, <2>1, <2>2 DEF Ejected, Passed
  <2> QED
    BY <1>0, <2>1, <2>2, <2>3, <2>4, <2>5, ControlStep
<1> QED
  BY <1>1, <1>2 DEF SwitchLatch

\* CallsDone.
LEMMA InvCallsDone ==
  ASSUME MountsInv, CallsDone
  PROVE  MountsInv'
<1>0. Counters /\ Left \in Nat /\ binds \in Nat /\ switches \in Nat
      /\ (todo = <<>> => Left = 0)
      /\ (pc \notin {"base", "binds", "aux", "preswitch", "eject"} => Left = 0)
  BY LeftNat DEF MountsInv, Counters
<1>1. CASE pc = "binds"
  <2>1. pc = "binds" /\ Left = 0 /\ switches = 0 /\ pc' = "late" /\ todo' = <<>> /\ UNCHANGED <<tab, refused>>
        /\ UNCHANGED <<binds, switches>>
    BY <1>0, <1>1 DEF CallsDone, Goto, After, Counters
  <2>2. IsRest(todo', ListOf(pc')) /\ Left' = 0
    BY <2>1, GotoRest DEF ListOf
  <2>3. Counters'
    BY <1>0, <2>1, <2>2 DEF Counters
  <2>4. \A n \in 0..6 : Passed(n)' <=> Passed(n)
    BY <1>0, <2>1, <2>2 DEF Passed
  <2>5. \A n \in 0..4 : Ejected(n)' => Ejected(n)
    BY <1>0, <2>1, <2>2 DEF Ejected, Passed
  <2> QED
    BY <1>0, <2>1, <2>2, <2>3, <2>4, <2>5, ControlStep
<1>2. CASE pc = "aux"
  <2>1. pc = "aux" /\ Left = 0 /\ switches = 0 /\ pc' = "last" /\ todo' = <<>> /\ UNCHANGED <<tab, refused>>
        /\ UNCHANGED <<binds, switches>>
    BY <1>0, <1>2 DEF CallsDone, Goto, After, Counters
  <2>2. IsRest(todo', ListOf(pc')) /\ Left' = 0
    BY <2>1, GotoRest DEF ListOf
  <2>3. Counters'
    BY <1>0, <2>1, <2>2 DEF Counters
  <2>4. \A n \in 0..6 : Passed(n)' <=> Passed(n)
    BY <1>0, <2>1, <2>2 DEF Passed
  <2>5. \A n \in 0..4 : Ejected(n)' => Ejected(n)
    BY <1>0, <2>1, <2>2 DEF Ejected, Passed
  <2> QED
    BY <1>0, <2>1, <2>2, <2>3, <2>4, <2>5, ControlStep
<1>3. CASE pc = "preswitch"
  <2>1. pc = "preswitch" /\ Left = 0 /\ switches # 0 /\ pc' = "exec" /\ todo' = <<>> /\ UNCHANGED <<tab, refused>>
        /\ UNCHANGED <<binds, switches>>
    BY <1>0, <1>3 DEF CallsDone, Goto, After, Counters
  <2>2. IsRest(todo', ListOf(pc')) /\ Left' = 0
    BY <2>1, GotoRest DEF ListOf
  <2>3. Counters'
    BY <1>0, <2>1, <2>2 DEF Counters
  <2>4. \A n \in 0..6 : Passed(n)' <=> Passed(n)
    BY <1>0, <2>1, <2>2 DEF Passed
  <2>5. \A n \in 0..4 : Ejected(n)' => Ejected(n)
    BY <1>0, <2>1, <2>2 DEF Ejected, Passed
  <2> QED
    BY <1>0, <2>1, <2>2, <2>3, <2>4, <2>5, ControlStep
<1>4. CASE pc = "eject"
  <2>1. pc = "eject" /\ Left = 0 /\ pc' = "panic" /\ todo' = <<>> /\ UNCHANGED <<tab, refused>>
        /\ UNCHANGED <<binds, switches>>
    BY <1>0, <1>4 DEF CallsDone, Goto, After, Counters
  <2>2. IsRest(todo', ListOf(pc')) /\ Left' = 0
    BY <2>1, GotoRest DEF ListOf
  <2>3. Counters'
    BY <1>0, <2>1, <2>2 DEF Counters
  <2>4. \A n \in 0..6 : Passed(n)' <=> Passed(n)
    BY <1>0, <2>1, <2>2 DEF Passed
  <2>5. \A n \in 0..4 : Ejected(n)' => Ejected(n)
    BY <1>0, <2>1, <2>2 DEF Ejected, Passed
  <2> QED
    BY <1>0, <2>1, <2>2, <2>3, <2>4, <2>5, ControlStep
<1> QED
  BY <1>1, <1>2, <1>3, <1>4 DEF CallsDone, After

\* DoUmountRecursive: the entry of the root is outside of any directory, so that
\* nothing is unmounted.
LEMMA InvDoUmountRecursive ==
  ASSUME MountsInv, DoUmountRecursive
  PROVE  MountsInv'
<1>0. Counters /\ Left \in Nat /\ binds \in Nat /\ switches \in Nat
  BY LeftNat DEF MountsInv, Counters
<1>1. todo # <<>> /\ Head(todo).op = "umountall" /\ UNCHANGED <<pc, tab, refused, binds, switches>>
  BY DEF DoUmountRecursive, Next1
<1>2. \A a, b, c : Call(a, b, c).op = a /\ Call(a, b, c).at = c
  BY DEF Call
<1>3. /\ IsRest(Tail(todo), ListOf(pc)) /\ Len(Tail(todo)) = Left - 1
      /\ \/ pc = "aux" /\ Left = 1
         \/ pc = "eject" /\ Left \in {7, 1}
      /\ Head(todo).at \in {Aux, Newroot(<<>>)}
  <2>1. /\ IsRest(Tail(todo), ListOf(pc)) /\ Len(Tail(todo)) = Left - 1
        /\ pc \in {"base", "binds", "aux", "preswitch", "eject"}
    BY <1>0, <1>1, NextCall
  <2>2. pc # "base"
    <3> SUFFICES ASSUME pc = "base" PROVE FALSE
      OBVIOUS
    <3>1. Head(todo).op \in {"mount", "seed"}
      BY <1>0, <1>1, <1>2, NextCall
    <3> QED
      BY <1>1, <3>1
  <2>3. pc # "binds"
    <3> SUFFICES ASSUME pc = "binds" PROVE FALSE
      OBVIOUS
    <3>1. Head(todo).op \in {"mount", "bind"}
      BY <1>0, <1>1, <1>2, NextCall
    <3> QED
      BY <1>1, <3>1
  <2>4. pc # "preswitch"
    <3> SUFFICES ASSUME pc = "preswitch" PROVE FALSE
      OBVIOUS
    <3>1. Head(todo).op \in {"umount", "move"}
      BY <1>0, <1>1, <1>2, NextCall DEF Umount, Move
    <3> QED
      BY <1>1, <3>1
  <2>5. pc = "aux" => Left = 1 /\ Head(todo).at = Aux
    BY <1>0, <1>1, <1>2, NextCall DEF UmountAll
  <2>6. pc = "eject" => Left \in {7, 1} /\ Head(todo).at \in {Aux, Newroot(<<>>)}
    <3> SUFFICES ASSUME pc = "eject" PROVE Left \in {7, 1} /\ Head(todo).at \in {Aux, Newroot(<<>>)}
      OBVIOUS
    <3>1. \/ Left = 7 /\ Head(todo) = UmountAll(Newroot(<<>>))
          \/ Left = 1 /\ Head(todo) = UmountAll(Aux)
          \/ Head(todo).op = "umount"
      BY <1>0, <1>1, <1>2, NextCall DEF Umount
    <3> QED
      BY <1>1, <1>2, <3>1 DEF UmountAll
  <2> QED
    BY <2>1, <2>2, <2>3, <2>4, <2>5, <2>6
<1>4. ~ Collects(Head(todo).at)
  <2>1. Len(<<>>) = 0 /\ Len(Head(todo).at) = 1
    BY <1>3, NewrootPaths DEF Aux
  <2>2. <<>> \in Entries
    BY DEF Entries
  <2>3. ~ IsPrefix(Head(todo).at, <<>>)
    <3>1. ASSUME NEW a, NEW b, Len(a) = 1, Len(b) = 0 PROVE ~ IsPrefix(a, b)
      <4>1. ~ (Len(a) <= Len(b))
        BY <3>1
      <4> QED
        BY <4>1, Zenon DEF IsPrefix
    <3> QED
      BY <2>1, <3>1
  <2> QED
    BY <2>2, <2>3 DEF Collects
<1>5. todo' = Tail(todo)
  <2>1. todo' = <<>> \o Tail(todo)
    BY <1>4 DEF DoUmountRecursive, Arg
  <2>2. Tail(todo) \in Seq(ToSet(Tail(todo)))
    BY <1>3 DEF IsRest
  <2> QED
    BY <2>1, <2>2, ConcatEmptySeq
<1>6. Left' = Left - 1 /\ IsRest(todo', ListOf(pc'))
  BY <1>1, <1>3, <1>5 DEF Left
<1>7. Counters'
  BY <1>0, <1>1, <1>6 DEF Counters
<1>8. \A n \in 0..6 : Passed(n)' <=> Passed(n)
  BY <1>0, <1>1, <1>3, <1>6 DEF Passed
<1>9. \A n \in 0..4 : Ejected(n)' => Ejected(n)
  BY <1>0, <1>1, <1>3, <1>6 DEF Ejected, Passed
<1> QED
  BY <1>0, <1>1, <1>3, <1>6, <1>7, <1>8, <1>9, ControlStep

-------------------------------------------------------------------------------
(* Unmounting.                                                                *)

\* What a call that unmounts on d leaves as true as it was.
Kept(d) ==
  /\ \A x : RootFree(x) => RootFree(x)'
  /\ \A by, y : NoneIn(by, y) => NoneIn(by, y)'
  /\ \A by, x : NewrootNone(by, x) => NewrootNone(by, x)'
  /\ TempOnce => TempOnce'
  /\ \A y : d # OnNR("dev") /\ TopDevFree(y) => TopDevFree(y)'
  /\ \A x : d # OnNR(x) => (NewrootNone("base", x)' <=> NewrootNone("base", x)) /\ (BaseTop(x) => BaseTop(x)')

\* The mounts after it: none is new, and what was visible on d is gone, alone.
Gone(d) ==
  /\ DOMAIN tab' \subseteq DOMAIN tab /\ \A m \in DOMAIN tab' : tab'[m] = tab[m]
  /\ \A m \in DOMAIN tab : tab[m].dir = d /\ IsTop(m) => m \notin DOMAIN tab'
  /\ \A m \in DOMAIN tab' : tab[m].dir # d => (IsTop(m)' <=> IsTop(m))
  /\ \E t : DOMAIN tab \ DOMAIN tab' \subseteq {t}

\* Unmounting a leaf of /init's.
LEMMA UmountLeaf ==
  ASSUME TreeInv, NEW p, NEW d, Mountpoint(p) = d, tab' = Umounted(p),
         \A m \in DOMAIN tab : tab[m].dir = d =>
           tab[m].by # "other" /\ \A n \in DOMAIN tab : IsTop(m) => tab[n].dir.mnt # m
  PROVE  TreeInv' /\ NewrootSame /\ Kept(d) /\ Gone(d)
<1>1. /\ Types' /\ Levels'
      /\ \/ Free(d) /\ tab' = tab
         \/ \E m \in DOMAIN tab : tab[m].dir = d /\ IsTop(m) /\ Removed(m)
  BY UmountEffect DEF TreeInv
<1>2. CASE Free(d) /\ tab' = tab
  <2>1. TreeInv' /\ AtomsSame /\ NewrootSame /\ \A m : IsTop(m)' <=> IsTop(m)
    BY <1>2, SameAtoms, SameTree
  <2>2. Kept(d)
    BY <2>1 DEF AtomsSame, Kept
  <2>3. Gone(d)
    BY <1>2, <2>1 DEF Gone, Free
  <2> QED
    BY <2>1, <2>2, <2>3
<1>3. CASE \E m \in DOMAIN tab : tab[m].dir = d /\ IsTop(m) /\ Removed(m)
  <2>1. PICK t \in DOMAIN tab : tab[t].dir = d /\ IsTop(t) /\ Removed(t)
    BY <1>3
  <2>2. TreeInv' /\ NewrootSame
    BY <1>1, <2>1, RemovedTree
  <2>3. /\ DOMAIN tab' = DOMAIN tab \ {t} /\ \A m \in DOMAIN tab' : m \in DOMAIN tab /\ tab'[m] = tab[m]
        /\ \A m \in DOMAIN tab' : tab[m].dir # d => (IsTop(m)' <=> IsTop(m))
    BY <2>1 DEF Removed
  <2>4. \A e : Free(e) => Free(e)'
    BY <2>3 DEF Free
  <2>5. \A x : RootFree(x) => RootFree(x)'
    BY <2>4 DEF RootFree, OnRoot, Dir
  <2>6. \A D, y : DevFree(D, y) => DevFree(D, y)'
    BY <2>4 DEF DevFree, Dir
  <2>7. \A by, y : NoneIn(by, y) => NoneIn(by, y)'
    BY <2>3 DEF NoneIn
  <2>8. \A by, x : NewrootNone(by, x) => NewrootNone(by, x)'
    BY <2>2, <2>3 DEF NewrootNone, NewrootSame
  <2>9. TempOnce => TempOnce'
    BY <2>3 DEF TempOnce
  <2>10. \A y : d # OnNR("dev") /\ TopDevFree(y) => TopDevFree(y)'
    BY <2>2, <2>3, <2>6 DEF TopDevFree, NewrootSame
  <2>11. \A x : d # OnNR(x) => (NewrootNone("base", x)' <=> NewrootNone("base", x))
    BY <2>1, <2>2, <2>3 DEF NewrootNone, NewrootSame
  <2>12. \A x : d # OnNR(x) => (BaseTop(x) => BaseTop(x)')
    BY <2>1, <2>2, <2>3 DEF BaseTop, NewrootSame
  <2>13. Kept(d)
    BY <2>5, <2>7, <2>8, <2>9, <2>10, <2>11, <2>12 DEF Kept
  <2>14. \A m \in DOMAIN tab : tab[m].dir = d /\ IsTop(m) => m = t
    <3>1. TopFacts
      BY FollowTop DEF TreeInv
    <3> QED
      BY <2>1, <3>1 DEF TopFacts
  <2>15. Gone(d)
    BY <2>3, <2>14 DEF Gone
  <2> QED
    BY <2>2, <2>13, <2>15
<1> QED
  BY <1>1, <1>2, <1>3

\* Outside of newroot a mount of /init's is alone on its directory.
LEMMA Alone ==
  ASSUME TreeInv, NEW m \in DOMAIN tab, tab[m].by # "other", \A x \in HandNames : tab[m].dir # OnNR(x)
  PROVE  IsTop(m) /\ \A n \in DOMAIN tab : tab[n].dir = tab[m].dir => n = m
<1>1. \A n \in DOMAIN tab : tab[n].dir = tab[m].dir => n = m
  BY DEF TreeInv, Single
<1>2. tab[m].level \in Nat
  BY DEF TreeInv, Levels
<1> QED
  BY <1>1, <1>2 DEF IsTop

\* So is a temporary mount in newroot, as long as there is one each and no move yet.
LEMMA AloneTemp ==
  ASSUME TreeInv, TempOnce, NEW x \in HandNames, NewrootNone("base", x),
         NEW m \in DOMAIN tab, tab[m].by = "temp", tab[m].dir = OnNR(x)
  PROVE  IsTop(m) /\ \A n \in DOMAIN tab : tab[n].dir = tab[m].dir => n = m
<1>1. Owned
  BY OwnedByInit DEF TreeInv
<1>2. \A n \in DOMAIN tab : tab[n].dir = tab[m].dir => tab[n].by = "temp"
  BY <1>1 DEF Owned, NewrootNone, TreeInv, Places, Placed
<1>3. \A n \in DOMAIN tab : tab[n].dir = tab[m].dir => n = m
  BY <1>2 DEF TempOnce
<1>4. tab[m].level \in Nat
  BY DEF TreeInv, Levels
<1> QED
  BY <1>3, <1>4 DEF IsTop

\* Unmounting a directory of the initramfs.
LEMMA UmountRoot ==
  ASSUME TreeInv, NEW x \in BaseNames, NEW d, d = OnRoot(x), tab' = Umounted(<<x>>),
         x = "dev" => NoneIn("base", "pts") /\ NoneIn("base", "shm")
  PROVE  TreeInv' /\ NewrootSame /\ Kept(d) /\ Gone(d) /\ RootFree(x)'
<1>1. Apart /\ Owned
  BY OwnedByInit DEF TreeInv
<1>2. Mountpoint(<<x>>) = d
  BY Mountpoints DEF TreeInv
<1>3. \A m \in DOMAIN tab : tab[m].dir = d => tab[m].by # "other"
  BY <1>1 DEF Owned
<1>4. ASSUME NEW m \in DOMAIN tab, tab[m].dir = d, NEW n \in DOMAIN tab PROVE tab[n].dir.mnt # m
  <2> SUFFICES ASSUME tab[n].dir.mnt = m PROVE FALSE
    OBVIOUS
  <2>1. /\ tab[n].by = tab[m].by
        /\ \/ tab[m].by = "base" /\ tab[m].dir = OnRoot("dev")
           \/ tab[m].by = "temp" /\ tab[m].dir = OnNR("dev")
    BY <1>1, <1>3, <1>4 DEF Owned
  <2>2. \E y \in SubNames : tab[n].dir = Dir(m, <<y>>)
    BY <1>1, <1>3, <1>4 DEF Owned
  <2>3. tab[n].by = "base" /\ x = "dev"
    BY <1>1, <1>4, <2>1 DEF Apart
  <2>4. PICK y \in SubNames : tab[n].dir.path = <<y>>
    BY <2>2 DEF Dir
  <2> QED
    BY <2>3, <2>4 DEF NoneIn, SubNames
<1>5. TreeInv' /\ NewrootSame /\ Kept(d) /\ Gone(d)
  BY <1>2, <1>3, <1>4, UmountLeaf
<1>6. \A m \in DOMAIN tab : tab[m].dir = d => IsTop(m)
  <2>1. \A m \in DOMAIN tab : tab[m].dir = d => \A z \in HandNames : tab[m].dir # OnNR(z)
    BY <1>1 DEF Apart
  <2> QED
    BY <1>3, <2>1, Alone
<1>7. RootFree(x)'
  <2>1. \A m \in DOMAIN tab' : tab'[m].dir # d
    BY <1>5, <1>6 DEF Gone
  <2> QED
    BY <2>1 DEF RootFree, Free, OnRoot, Dir
<1> QED
  BY <1>5, <1>7

\* Unmounting what is in /dev.
LEMMA UmountInDev ==
  ASSUME TreeInv, NEW y \in SubNames, tab' = Umounted(<<"dev", y>>)
  PROVE  /\ TreeInv' /\ NewrootSame /\ NoneIn("base", y)'
         /\ \E d : Kept(d) /\ Gone(d) /\ \A x \in HandNames : d # OnNR(x)
<1>1. Apart /\ Owned
  BY OwnedByInit DEF TreeInv
<1>2. PICK d : d = Mountpoint(<<"dev", y>>)
  OBVIOUS
<1>3. \/ RootFree("dev") /\ Free(d)
      \/ \E D \in DOMAIN tab : tab[D].dir = OnRoot("dev") /\ IsTop(D) /\ d = Dir(D, <<y>>)
  BY <1>2, Mountpoints DEF TreeInv, RootFree
<1>4. \A m \in DOMAIN tab : tab[m].dir = d =>
        /\ tab[m].by # "other" /\ IsTop(m) /\ \A n \in DOMAIN tab : tab[n].dir.mnt # m
        /\ \A z : tab[m].dir # OnNR(z) 
  <2> SUFFICES ASSUME NEW m \in DOMAIN tab, tab[m].dir = d
               PROVE  /\ tab[m].by # "other" /\ IsTop(m) /\ \A n \in DOMAIN tab : tab[n].dir.mnt # m
                      /\ \A z : tab[m].dir # OnNR(z) 
    OBVIOUS
  <2>1. PICK D \in DOMAIN tab : tab[D].dir = OnRoot("dev") /\ IsTop(D) /\ d = Dir(D, <<y>>)
    BY <1>3 DEF Free
  <2>2. tab[D].by = "base" /\ tab[m].dir.mnt = D
    BY <1>1, <2>1 DEF Owned, Apart, Dir, BaseNames, TreeInv, Places, Placed, TempPlace, Inside
  <2>3. tab[m].by = "base" /\ tab[m].dir.path = <<y>>
    BY <1>1, <2>1, <2>2 DEF Owned, Dir
  <2>4. Inside(m, "base", OnRoot("dev"))
    BY <1>1, <2>3 DEF Owned
  <2>5. \A x : tab[m].dir # OnRoot(x) /\ tab[m].dir # OnNR(x)
    BY <1>1, <2>4 DEF Owned
  <2>6. \A n \in DOMAIN tab : tab[n].dir.mnt # m
    BY <1>1, <2>3, <2>5 DEF Owned
  <2>7. IsTop(m)
    BY <2>3, <2>5, Alone
  <2> QED
    BY <2>3, <2>5, <2>6, <2>7
<1>5. TreeInv' /\ NewrootSame /\ Kept(d) /\ Gone(d)
  BY <1>2, <1>4, UmountLeaf
<1>6. NoneIn("base", y)'
  <2> SUFFICES ASSUME NEW m \in DOMAIN tab', tab'[m].by = "base", tab'[m].dir.path = <<y>>
               PROVE  FALSE
    BY DEF NoneIn
  <2>1. m \in DOMAIN tab /\ tab[m].by = "base" /\ tab[m].dir.path = <<y>>
    BY <1>5 DEF Gone
  <2>2. Inside(m, "base", OnRoot("dev"))
    BY <1>1, <2>1 DEF Owned
  <2>3. PICK E \in DOMAIN tab : tab[m].dir.mnt = E /\ tab[E].by = "base" /\ tab[E].dir = OnRoot("dev")
    BY <2>2 DEF Inside
  <2>4. PICK D \in DOMAIN tab : tab[D].dir = OnRoot("dev") /\ d = Dir(D, <<y>>)
    BY <1>3, <2>3 DEF RootFree, Free
  <2>5. D = E
    BY <1>1, <2>3, <2>4, Alone DEF Apart
  <2>6. tab[m].dir = d
    BY <2>1, <2>3, <2>4, <2>5 DEF TreeInv, Types
  <2> QED
    BY <1>4, <1>5, <2>1, <2>6 DEF Gone
<1>7. \A x \in HandNames : d # OnNR(x)
  <2>1. CASE RootFree("dev") /\ Free(d)
    <3>1. d = Enter(OnRoot("dev"), y)
      <4>1. Follow(OnRoot("dev")) = OnRoot("dev")
        BY <2>1, FollowTop DEF TopFacts, RootFree, TreeInv
      <4> QED
        BY <1>2, <4>1, ShortPaths
    <3>2. d = Dir(Root, <<"dev", y>>)
      BY <3>1 DEF Enter, OnRoot, Dir
    <3> QED
      BY <1>1, <3>2, NewrootIs DEF TreeInv, Types, Dir
  <2>2. CASE \E D \in DOMAIN tab : tab[D].dir = OnRoot("dev") /\ d = Dir(D, <<y>>)
    <3>1. d.path = <<y>>
      BY <2>2 DEF Dir
    <3> QED
      BY <1>1, <3>1 DEF Apart
  <2> QED
    BY <1>3, <2>1, <2>2
<1> QED
  BY <1>5, <1>6, <1>7

\* Unmounting what is in newroot's /dev.
LEMMA UmountInNewrootDev ==
  ASSUME TreeInv, NEW y \in SubNames, tab' = Umounted(<<"newroot", "dev", y>>)
  PROVE  /\ TreeInv' /\ NewrootSame /\ TopDevFree(y)'
         /\ TempOnce /\ NewrootNone("base", "dev") => NoneIn("temp", y)'
         /\ \E d : Kept(d) /\ Gone(d) /\ d # OnNR("dev")
<1>1. Apart /\ Owned
  BY OwnedByInit DEF TreeInv
<1>2. PICK d : d = Mountpoint(<<"newroot", "dev", y>>)
  OBVIOUS
<1>3. \/ Free(OnNR("dev")) /\ Free(d)
      \/ \E D \in DOMAIN tab : tab[D].dir = OnNR("dev") /\ IsTop(D) /\ d = Dir(D, <<y>>)
  BY <1>2, Mountpoints DEF TreeInv
<1>4. \A m \in DOMAIN tab : tab[m].dir = d =>
        /\ tab[m].by # "other" /\ IsTop(m) /\ \A n \in DOMAIN tab : tab[n].dir.mnt # m
        /\ \A z : tab[m].dir # OnNR(z) 
  <2> SUFFICES ASSUME NEW m \in DOMAIN tab, tab[m].dir = d
               PROVE  /\ tab[m].by # "other" /\ IsTop(m) /\ \A n \in DOMAIN tab : tab[n].dir.mnt # m
                      /\ \A z : tab[m].dir # OnNR(z) 
    OBVIOUS
  <2>1. PICK D \in DOMAIN tab : tab[D].dir = OnNR("dev") /\ IsTop(D) /\ d = Dir(D, <<y>>)
    BY <1>3 DEF Free
  <2>2. tab[D].by # "other" /\ tab[m].dir.mnt = D /\ tab[m].dir.path = <<y>>
    BY <1>1, <2>1 DEF Owned, HandNames, Dir
  <2>3. tab[m].by = "temp"
    BY <1>1, <2>1, <2>2 DEF Owned, Apart
  <2>4. Inside(m, "temp", OnNR("dev"))
    BY <1>1, <2>2, <2>3 DEF Owned
  <2>5. \A x : tab[m].dir # OnRoot(x) /\ tab[m].dir # OnNR(x)
    BY <1>1, <2>4 DEF Owned
  <2>6. \A n \in DOMAIN tab : tab[n].dir.mnt # m
    BY <1>1, <2>3, <2>5 DEF Owned
  <2>7. IsTop(m)
    BY <2>3, <2>5, Alone
  <2> QED
    BY <2>3, <2>5, <2>6, <2>7
<1>5. TreeInv' /\ NewrootSame /\ Kept(d) /\ Gone(d)
  BY <1>2, <1>4, UmountLeaf
<1>6. d # OnNR("dev")
  <2>1. CASE Free(OnNR("dev")) /\ Free(d)
    <3>1. d = Enter(OnNR("dev"), y)
      <4>1. Follow(OnNR("dev")) = OnNR("dev")
        BY <2>1, FollowTop DEF TopFacts, TreeInv
      <4>2. Mountpoint(<<"newroot", "dev", y>>) = Enter(Follow(Enter(Follow(OnRoot("newroot")), "dev")), y)
        BY ShortPaths
      <4> QED
        BY <1>2, <4>1, <4>2 DEF OnNR, NR
    <3>2. d.path = Append(OnNR("dev").path, y)
      BY <3>1 DEF Enter, Dir
    <3>3. OnNR("dev").path = <<"newroot", "dev">> \/ OnNR("dev").path = <<"dev">>
      BY NewrootIs DEF TreeInv, Dir
    <3>4. OnNR("dev").path \in Seq({"newroot", "dev", y})
      <4>1. <<"newroot", "dev">> \in Seq({"newroot", "dev", y}) /\ <<"dev">> \in Seq({"newroot", "dev", y})
        OBVIOUS
      <4> QED
        BY <3>3, <4>1
    <3>5. Len(Append(OnNR("dev").path, y)) = Len(OnNR("dev").path) + 1 /\ Len(OnNR("dev").path) \in Nat
      BY <3>4, AppendProperties
    <3> QED
      BY <3>2, <3>5
  <2>2. CASE \E D \in DOMAIN tab : tab[D].dir = OnNR("dev") /\ d = Dir(D, <<y>>)
    <3>1. d.path = <<y>>
      BY <2>2 DEF Dir
    <3> QED
      BY <1>1, <3>1 DEF Apart, HandNames
  <2> QED
    BY <1>3, <2>1, <2>2
<1>7. TopDevFree(y)'
  <2> SUFFICES ASSUME NEW D \in DOMAIN tab', tab'[D].dir = OnNR("dev"), IsTop(D)',
                      NEW m \in DOMAIN tab', tab'[m].dir = Dir(D, <<y>>)
               PROVE  FALSE
    BY <1>5 DEF TopDevFree, DevFree, Free, NewrootSame, Dir
  <2>1. /\ D \in DOMAIN tab /\ tab[D].dir = OnNR("dev") /\ IsTop(D)
        /\ m \in DOMAIN tab /\ tab[m].dir = Dir(D, <<y>>)
    BY <1>5, <1>6 DEF Gone
  <2>2. TopFacts
    BY FollowTop DEF TreeInv
  <2>3. d = Dir(D, <<y>>)
    <3>1. PICK E \in DOMAIN tab : tab[E].dir = OnNR("dev") /\ IsTop(E) /\ d = Dir(E, <<y>>)
      BY <1>3, <2>1 DEF Free
    <3>2. D = TopOf(Stack(OnNR("dev"))) /\ E = TopOf(Stack(OnNR("dev")))
      BY <2>1, <2>2, <3>1 DEF TopFacts
    <3> QED
      BY <3>1, <3>2
  <2> QED
    BY <1>4, <1>5, <2>1, <2>3 DEF Gone
<1>8. ASSUME TempOnce, NewrootNone("base", "dev") PROVE NoneIn("temp", y)'
  <2> SUFFICES ASSUME NEW m \in DOMAIN tab', tab'[m].by = "temp", tab'[m].dir.path = <<y>>
               PROVE  FALSE
    BY DEF NoneIn
  <2>1. m \in DOMAIN tab /\ tab[m].by = "temp" /\ tab[m].dir.path = <<y>>
    BY <1>5 DEF Gone
  <2>2. Inside(m, "temp", OnNR("dev"))
    BY <1>1, <2>1 DEF Owned
  <2>3. PICK E \in DOMAIN tab : tab[m].dir.mnt = E /\ tab[E].by = "temp" /\ tab[E].dir = OnNR("dev")
    BY <2>2 DEF Inside
  <2>4. PICK D \in DOMAIN tab : tab[D].dir = OnNR("dev") /\ d = Dir(D, <<y>>)
    BY <1>3, <2>3 DEF Free
  <2>5. D = E
    BY <1>8, <2>3, <2>4, AloneTemp DEF HandNames
  <2>6. tab[m].dir = d
    BY <2>1, <2>3, <2>4, <2>5 DEF TreeInv, Types
  <2> QED
    BY <1>4, <1>5, <2>1, <2>6 DEF Gone
<1> QED
  BY <1>5, <1>6, <1>7, <1>8

\* Unmounting a directory of newroot.
LEMMA UmountNewroot ==
  ASSUME TreeInv, NEW x \in HandNames, tab' = Umounted(<<"newroot", x>>),
         x = "dev" => TopDevFree("shm") /\ TopDevFree("pts")
  PROVE  /\ TreeInv' /\ NewrootSame
         /\ TempOnce /\ NewrootNone("base", x) => NewrootNone("temp", x)'
         /\ \E d : Kept(d) /\ Gone(d) /\ d = OnNR(x)
<1>1. Apart /\ Owned
  BY OwnedByInit DEF TreeInv
<1>2. PICK d : d = OnNR(x)
  OBVIOUS
<1>3. Mountpoint(<<"newroot", x>>) = d
  BY <1>2, Mountpoints DEF TreeInv
<1>4. \A m \in DOMAIN tab : tab[m].dir = d => tab[m].by # "other"
  BY <1>1, <1>2 DEF Owned
<1>5. ASSUME NEW m \in DOMAIN tab, tab[m].dir = d, NEW n \in DOMAIN tab, IsTop(m) PROVE tab[n].dir.mnt # m
  <2> SUFFICES ASSUME tab[n].dir.mnt = m PROVE FALSE
    OBVIOUS
  <2>1. \/ tab[m].by = "base" /\ tab[m].dir = OnRoot("dev")
        \/ tab[m].by = "temp" /\ tab[m].dir = OnNR("dev")
    BY <1>1, <1>4, <1>5 DEF Owned
  <2>2. \E y \in SubNames : tab[n].dir = Dir(m, <<y>>)
    BY <1>1, <1>4, <1>5 DEF Owned
  <2>3. x = "dev"
    BY <1>1, <1>2, <1>5, <2>1 DEF Apart
  <2>4. DevFree(m, "shm") /\ DevFree(m, "pts")
    BY <1>2, <1>5, <2>3 DEF TopDevFree
  <2> QED
    BY <2>2, <2>4 DEF DevFree, Free, SubNames
<1>6. TreeInv' /\ NewrootSame /\ Kept(d) /\ Gone(d)
  BY <1>3, <1>4, <1>5, UmountLeaf
<1>7. ASSUME TempOnce, NewrootNone("base", x) PROVE NewrootNone("temp", x)'
  <2> SUFFICES ASSUME NEW m \in DOMAIN tab', tab'[m].by = "temp", tab'[m].dir = OnNR(x)
               PROVE  FALSE
    BY <1>6 DEF NewrootNone, NewrootSame
  <2>1. m \in DOMAIN tab /\ tab[m].by = "temp" /\ tab[m].dir = OnNR(x)
    BY <1>6 DEF Gone
  <2>2. IsTop(m)
    BY <1>7, <2>1, AloneTemp
  <2> QED
    BY <1>2, <1>6, <2>1, <2>2 DEF Gone
<1> QED
  BY <1>2, <1>6, <1>7

\* The call that has k calls of the unmounts in newroot left to do, itself included.
Ejecting(k) == (pc = "preswitch" /\ Left = 7 + k) \/ (pc = "eject" /\ Left = 1 + k)

\* A call of umount(2) makes true what is said of the calls done.
LEMMA UmountStep ==
  ASSUME MountsInv, NEW d, TreeInv', Kept(d), Counters',
         pc' = pc, Left \in Nat, Left' = Left - 1, UNCHANGED <<refused, binds, switches>>,
         \/ pc = "preswitch" /\ Left \in 4..12
         \/ pc = "eject" /\ Left \in 2..6,
         Ejecting(5) => TopDevFree("shm")' /\ (TempOnce /\ NewrootNone("base", "dev") => NoneIn("temp", "shm")'),
         Ejecting(4) => /\ d # OnNR("dev") /\ TopDevFree("pts")'
                        /\ TempOnce /\ NewrootNone("base", "dev") => NoneIn("temp", "pts")',
         Ejecting(3) => (TempOnce /\ NewrootNone("base", "dev") => NewrootNone("temp", "dev")'),
         Ejecting(2) => (TempOnce /\ NewrootNone("base", "sys") => NewrootNone("temp", "sys")'),
         Ejecting(1) => (TempOnce /\ NewrootNone("base", "proc") => NewrootNone("temp", "proc")'),
         pc = "preswitch" /\ Left = 7 => RootFree("run")',
         pc = "preswitch" /\ Left = 6 => RootFree("tmp")',
         pc = "preswitch" /\ Left = 5 => NoneIn("base", "shm")',
         pc = "preswitch" /\ Left = 4 => NoneIn("base", "pts")'
  PROVE  MountsInv'
<1>0. binds \in Nat /\ switches \in Nat /\ (pc = "preswitch" => switches # 0)
  BY DEF MountsInv, Counters
<1>1. BaseProgress' /\ (pc' # "work" /\ pc' # "binds" /\ pc' # "base")
  BY DEF BaseProgress
<1>2. BindProgress'
  BY <1>1 DEF MountsInv, BindProgress, Kept
<1>3. \A n \in {0, 1, 2} : Passed(n)' <=> Passed(n)
  BY <1>0 DEF Passed
<1>4. \A k \in {0, 1, 2, 3, 4} : Ejected(k)' => Ejected(k) \/ (Ejecting(k + 1) /\ ~ Passed(0) /\ ~ Passed(1) /\ ~ Passed(2))
  BY <1>0 DEF Ejected, Passed, Ejecting
<1>5. TempProgress'
  <2> SUFFICES ASSUME binds <= 1 PROVE TempProgress'
    BY DEF TempProgress
  <2>1. TempOnce
    BY DEF MountsInv, BindProgress
  <2>2. /\ ~ Passed(2) => NewrootNone("base", "dev")
        /\ ~ Passed(1) => NewrootNone("base", "sys")
        /\ ~ Passed(0) => NewrootNone("base", "proc")
    BY DEF MountsInv, HandProgress, Hand
  <2>3. Ejected(4)' => NoneIn("temp", "shm")'
    <3>1. Ejected(4)' => Ejected(4) \/ (Ejecting(5) /\ ~ Passed(2))
      BY <1>4
    <3> QED
      BY <2>1, <2>2, <3>1 DEF MountsInv, TempProgress, Kept
  <2>4. Ejected(3)' => NoneIn("temp", "pts")'
    <3>1. Ejected(3)' => Ejected(3) \/ (Ejecting(4) /\ ~ Passed(2))
      BY <1>4
    <3> QED
      BY <2>1, <2>2, <3>1 DEF MountsInv, TempProgress, Kept
  <2>5. Ejected(2)' => NewrootNone("temp", "dev")'
    <3>1. Ejected(2)' => Ejected(2) \/ (Ejecting(3) /\ ~ Passed(2))
      BY <1>4
    <3> QED
      BY <2>1, <2>2, <3>1 DEF MountsInv, TempProgress, Kept
  <2>6. Ejected(1)' => NewrootNone("temp", "sys")'
    <3>1. Ejected(1)' => Ejected(1) \/ (Ejecting(2) /\ ~ Passed(1))
      BY <1>4
    <3> QED
      BY <2>1, <2>2, <3>1 DEF MountsInv, TempProgress, Kept
  <2>7. Ejected(0)' => NewrootNone("temp", "proc")'
    <3>1. Ejected(0)' => Ejected(0) \/ (Ejecting(1) /\ ~ Passed(0))
      BY <1>4
    <3> QED
      BY <2>1, <2>2, <3>1 DEF MountsInv, TempProgress, Kept
  <2> QED
    BY <2>3, <2>4, <2>5, <2>6, <2>7 DEF TempProgress
<1>6. LeafProgress'
  <2>1. Ejecting(5) => TopDevFree("shm")'
    OBVIOUS
  <2>2. Ejecting(4) => TopDevFree("shm")' /\ TopDevFree("pts")'
    BY DEF MountsInv, LeafProgress, Kept, Ejecting
  <2>3. pc = "preswitch" /\ Left' \in {10, 11} => Ejecting(5) \/ Ejecting(4)
    BY DEF Ejecting
  <2>4. pc = "preswitch" /\ Left' = 10 => Ejecting(4)
    BY DEF Ejecting
  <2>5. pc = "eject" /\ Left' \in {4, 5} => Ejecting(5) \/ Ejecting(4)
    BY DEF Ejecting
  <2>6. pc = "eject" /\ Left' = 4 => Ejecting(4)
    BY DEF Ejecting
  <2> QED
    BY <2>1, <2>2, <2>3, <2>4, <2>5, <2>6 DEF LeafProgress
<1>7. SwitchProgress'
  <2>1. \A n \in {3, 4, 5, 6} : Passed(n)' => Passed(n) \/ (pc = "preswitch" /\ Left = n + 1)
    BY <1>0 DEF Passed
  <2>2. /\ Passed(6)' => Passed(6) \/ (pc = "preswitch" /\ Left = 7)
        /\ Passed(5)' => Passed(5) \/ (pc = "preswitch" /\ Left = 6)
        /\ Passed(4)' => Passed(4) \/ (pc = "preswitch" /\ Left = 5)
        /\ Passed(3)' => Passed(3) \/ (pc = "preswitch" /\ Left = 4)
        /\ (Passed(2)' => Passed(2)) /\ (Passed(1)' => Passed(1)) /\ (Passed(0)' => Passed(0))
    BY <1>3, <2>1
  <2> QED
    BY <2>2 DEF MountsInv, SwitchProgress, Kept
<1>8. HandProgress'
  <2>1. ASSUME NEW x, NEW n \in {0, 1, 2}, Hand(x, n) PROVE Hand(x, n)'
    <3>1. Passed(n)' <=> Passed(n)
      BY <1>3
    <3>2. Passed(n) => switches # 1 \/ pc = "eject"
      BY DEF Passed
    <3>3. NewrootNone("base", x)' => BaseTop(x)'
      BY DEF NewrootNone, BaseTop
    <3> QED
      BY <2>1, <3>1, <3>2, <3>3 DEF Hand, Kept
  <2>2. Hand("dev", 2) /\ Hand("sys", 1) /\ Hand("proc", 0)
    BY DEF MountsInv, HandProgress
  <2> QED
    BY <2>1, <2>2 DEF HandProgress
<1> QED
  BY <1>1, <1>2, <1>5, <1>6, <1>7, <1>8 DEF MountsInv

\* At most one mount is gone.
OneGone == \E t : DOMAIN tab \ DOMAIN tab' \subseteq {t}

\* The calls of umount(2), by how many are left.
LEMMA UmountCalls ==
  ASSUME Counters, Next1({"umount"})
  PROVE  /\ Left \in Nat /\ Len(Tail(todo)) = Left - 1 /\ IsRest(Tail(todo), ListOf(pc))
         /\ \/ Ejecting(5) /\ Arg = <<"newroot", "dev", "shm">>
            \/ Ejecting(4) /\ Arg = <<"newroot", "dev", "pts">>
            \/ Ejecting(3) /\ Arg = <<"newroot", "dev">>
            \/ Ejecting(2) /\ Arg = <<"newroot", "sys">>
            \/ Ejecting(1) /\ Arg = <<"newroot", "proc">>
            \/ pc = "preswitch" /\ Left = 7 /\ Arg = <<"run">>
            \/ pc = "preswitch" /\ Left = 6 /\ Arg = <<"tmp">>
            \/ pc = "preswitch" /\ Left = 5 /\ Arg = <<"dev", "shm">>
            \/ pc = "preswitch" /\ Left = 4 /\ Arg = <<"dev", "pts">>
<1>0. todo # <<>> /\ Head(todo).op = "umount"
  BY DEF Next1
<1>1. \A a, b, c : Call(a, b, c).op = a /\ Call(a, b, c).at = c
  BY DEF Call
<1>2. /\ \A a : Umount(a).at = a
      /\ \A a : UmountAll(a).op = "umountall" /\ Move(a).op = "move"
  BY <1>1 DEF Umount, UmountAll, Move
<1>3. /\ IsRest(Tail(todo), ListOf(pc)) /\ Left \in Nat /\ Len(Tail(todo)) = Left - 1
      /\ pc \in {"base", "binds", "aux", "preswitch", "eject"}
  BY <1>0, NextCall
<1>4. pc # "base"
  <2> SUFFICES ASSUME pc = "base" PROVE FALSE
    OBVIOUS
  <2>1. Head(todo).op \in {"mount", "seed"}
    BY <1>0, <1>1, NextCall
  <2> QED
    BY <1>0, <2>1
<1>5. pc # "binds"
  <2> SUFFICES ASSUME pc = "binds" PROVE FALSE
    OBVIOUS
  <2>1. Head(todo).op \in {"mount", "bind"}
    BY <1>0, <1>1, NextCall
  <2> QED
    BY <1>0, <2>1
<1>6. pc # "aux"
  <2> SUFFICES ASSUME pc = "aux" PROVE FALSE
    OBVIOUS
  <2>1. Head(todo).op = "umountall"
    BY <1>0, <1>2, NextCall
  <2> QED
    BY <1>0, <2>1
<1>7. CASE pc = "preswitch"
  <2>1. \/ Left = 12 /\ Head(todo).at = Newroot(Shm)
        \/ Left = 11 /\ Head(todo).at = Newroot(Pts)
        \/ Left = 10 /\ Head(todo).at = Newroot(Dev)
        \/ Left = 9 /\ Head(todo).at = Newroot(Sys)
        \/ Left = 8 /\ Head(todo).at = Newroot(Proc)
        \/ Left = 7 /\ Head(todo).at = Run
        \/ Left = 6 /\ Head(todo).at = Tmp
        \/ Left = 5 /\ Head(todo).at = Shm
        \/ Left = 4 /\ Head(todo).at = Pts
        \/ Head(todo).op = "move"
    BY <1>0, <1>2, <1>7, NextCall
  <2> QED
    BY <1>0, <1>3, <1>7, <2>1, NewrootPaths DEF Ejecting, Arg, Run, Tmp, Shm, Pts
<1>8. CASE pc = "eject"
  <2>1. \/ Left = 6 /\ Head(todo).at = Newroot(Shm)
        \/ Left = 5 /\ Head(todo).at = Newroot(Pts)
        \/ Left = 4 /\ Head(todo).at = Newroot(Dev)
        \/ Left = 3 /\ Head(todo).at = Newroot(Sys)
        \/ Left = 2 /\ Head(todo).at = Newroot(Proc)
        \/ Head(todo).op = "umountall"
    BY <1>0, <1>2, <1>8, NextCall
  <2> QED
    BY <1>0, <1>3, <1>8, <2>1, NewrootPaths DEF Ejecting, Arg
<1> QED
  BY <1>3, <1>4, <1>5, <1>6, <1>7, <1>8

\* DoUmount.
LEMMA InvDoUmount ==
  ASSUME MountsInv, DoUmount
  PROVE  MountsInv' /\ OneGone
<1>0. TreeInv /\ Counters /\ Next1({"umount"}) /\ LeafProgress
  BY DEF MountsInv, DoUmount
<1>1. /\ tab' = Umounted(Arg) /\ todo' = Tail(todo) /\ pc' = pc
      /\ UNCHANGED <<failed, refused, binds, switches>>
  BY DEF DoUmount, Done
<1>2. Left \in Nat /\ Len(Tail(todo)) = Left - 1 /\ IsRest(Tail(todo), ListOf(pc))
  BY <1>0, UmountCalls
<1>3. Left' = Left - 1 /\ IsRest(todo', ListOf(pc'))
  BY <1>1, <1>2 DEF Left
<1>4. Counters'
  BY <1>0, <1>1, <1>3 DEF Counters
<1>5. \A d : Gone(d) => OneGone
  BY DEF Gone, OneGone
<1>6. SubNames = {"pts", "shm"} /\ HandNames = {"dev", "sys", "proc"}
      /\ BaseNames = {"proc", "sys", "dev", "run", "tmp"}
  BY DEF SubNames, HandNames, BaseNames
<1>7. CASE Ejecting(5) /\ Arg = <<"newroot", "dev", "shm">>
  <2>1. /\ TreeInv' /\ NewrootSame /\ TopDevFree("shm")'
        /\ TempOnce /\ NewrootNone("base", "dev") => NoneIn("temp", "shm")'
        /\ \E d : Kept(d) /\ Gone(d) /\ d # OnNR("dev")
    BY <1>0, <1>1, <1>6, <1>7, UmountInNewrootDev
  <2>2. PICK d : Kept(d) /\ Gone(d)
    BY <2>1
  <2>3. /\ ~ Ejecting(4) /\ ~ Ejecting(3) /\ ~ Ejecting(2) /\ ~ Ejecting(1)
        /\ ~ (pc = "preswitch" /\ Left \in {4, 5, 6, 7})
        /\ (pc = "preswitch" /\ Left \in 4..12) \/ (pc = "eject" /\ Left \in 2..6)
    BY <1>2, <1>7 DEF Ejecting
  <2>4. MountsInv'
    BY <1>1, <1>2, <1>3, <1>4, <2>1, <2>2, <2>3, UmountStep
  <2> QED
    BY <1>5, <2>2, <2>4
<1>8. CASE Ejecting(4) /\ Arg = <<"newroot", "dev", "pts">>
  <2>1. /\ TreeInv' /\ NewrootSame /\ TopDevFree("pts")'
        /\ TempOnce /\ NewrootNone("base", "dev") => NoneIn("temp", "pts")'
        /\ \E d : Kept(d) /\ Gone(d) /\ d # OnNR("dev")
    BY <1>0, <1>1, <1>6, <1>8, UmountInNewrootDev
  <2>2. PICK d : Kept(d) /\ Gone(d) /\ d # OnNR("dev")
    BY <2>1
  <2>3. /\ ~ Ejecting(5) /\ ~ Ejecting(3) /\ ~ Ejecting(2) /\ ~ Ejecting(1)
        /\ ~ (pc = "preswitch" /\ Left \in {4, 5, 6, 7})
        /\ (pc = "preswitch" /\ Left \in 4..12) \/ (pc = "eject" /\ Left \in 2..6)
    BY <1>2, <1>8 DEF Ejecting
  <2>4. MountsInv'
    BY <1>1, <1>2, <1>3, <1>4, <2>1, <2>2, <2>3, UmountStep
  <2> QED
    BY <1>5, <2>2, <2>4
<1>9. ASSUME NEW x \in HandNames, Arg = <<"newroot", x>>,
             \/ Ejecting(3) /\ x = "dev"
             \/ Ejecting(2) /\ x = "sys"
             \/ Ejecting(1) /\ x = "proc"
      PROVE  MountsInv' /\ OneGone
  <2>0. x = "dev" => TopDevFree("shm") /\ TopDevFree("pts")
    BY <1>0, <1>6, <1>9 DEF LeafProgress, Ejecting
  <2>1. /\ TreeInv'
        /\ TempOnce /\ NewrootNone("base", x) => NewrootNone("temp", x)'
        /\ \E d : Kept(d) /\ Gone(d) /\ d = OnNR(x)
    BY <1>0, <1>1, <1>9, <2>0, UmountNewroot
  <2>2. PICK d : Kept(d) /\ Gone(d)
    BY <2>1
  <2>3. /\ ~ Ejecting(5) /\ ~ Ejecting(4)
        /\ ~ (pc = "preswitch" /\ Left \in {4, 5, 6, 7})
        /\ (pc = "preswitch" /\ Left \in 4..12) \/ (pc = "eject" /\ Left \in 2..6)
        /\ (Ejecting(3) => x = "dev") /\ (Ejecting(2) => x = "sys") /\ (Ejecting(1) => x = "proc")
    BY <1>2, <1>9 DEF Ejecting
  <2>4. MountsInv'
    BY <1>1, <1>2, <1>3, <1>4, <2>1, <2>2, <2>3, UmountStep
  <2> QED
    BY <1>5, <2>2, <2>4
<1>10. ASSUME NEW x \in BaseNames, Arg = <<x>>, pc = "preswitch",
              (Left = 7 /\ x = "run") \/ (Left = 6 /\ x = "tmp")
       PROVE  MountsInv' /\ OneGone
  <2>0. PICK d : d = OnRoot(x)
    OBVIOUS
  <2>1. TreeInv' /\ Kept(d) /\ Gone(d) /\ RootFree(x)'
    BY <1>0, <1>1, <1>10, <2>0, UmountRoot
  <2>3. /\ ~ Ejecting(5) /\ ~ Ejecting(4) /\ ~ Ejecting(3) /\ ~ Ejecting(2) /\ ~ Ejecting(1)
        /\ pc = "preswitch" /\ Left \in 4..12 /\ Left # 5 /\ Left # 4
        /\ (Left = 7 => x = "run") /\ (Left = 6 => x = "tmp")
    BY <1>2, <1>10 DEF Ejecting
  <2>4. MountsInv'
    BY <1>1, <1>2, <1>3, <1>4, <2>1, <2>3, UmountStep
  <2> QED
    BY <1>5, <2>1, <2>4
<1>11. ASSUME NEW y \in SubNames, Arg = <<"dev", y>>, pc = "preswitch",
              (Left = 5 /\ y = "shm") \/ (Left = 4 /\ y = "pts")
       PROVE  MountsInv' /\ OneGone
  <2>1. TreeInv' /\ NoneIn("base", y)' /\ \E d : Kept(d) /\ Gone(d)
    BY <1>0, <1>1, <1>11, UmountInDev
  <2>2. PICK d : Kept(d) /\ Gone(d)
    BY <2>1
  <2>3. /\ ~ Ejecting(5) /\ ~ Ejecting(4) /\ ~ Ejecting(3) /\ ~ Ejecting(2) /\ ~ Ejecting(1)
        /\ pc = "preswitch" /\ Left \in 4..12 /\ Left # 6 /\ Left # 7
        /\ (Left = 5 => y = "shm") /\ (Left = 4 => y = "pts")
    BY <1>2, <1>11 DEF Ejecting
  <2>4. MountsInv'
    BY <1>1, <1>2, <1>3, <1>4, <2>1, <2>2, <2>3, UmountStep
  <2> QED
    BY <1>5, <2>2, <2>4
<1> QED
  BY <1>0, <1>6, <1>7, <1>8, <1>9, <1>10, <1>11, UmountCalls

-------------------------------------------------------------------------------
(* Moving.                                                                    *)

\* What a call that moves or unmounts x leaves as true as it was.
MoveKept(x) ==
  /\ \A z : RootFree(z) => RootFree(z)'
  /\ \A by : \A y \in SubNames : NoneIn(by, y) => NoneIn(by, y)'
  /\ \A z : NewrootNone("temp", z) => NewrootNone("temp", z)'
  /\ TempOnce => TempOnce'
  /\ \A z : z # x => (NewrootNone("base", z)' <=> NewrootNone("base", z)) /\ (BaseTop(z) => BaseTop(z)')

\* The call that is made when n others are left to do.
HandCall(x, n) ==
  \/ x = "dev" /\ n = 2
  \/ x = "sys" /\ n = 1
  \/ x = "proc" /\ n = 0

\* A call of _do_move_or_umount makes true what is said of the calls done.
LEMMA MoveStep ==
  ASSUME MountsInv, TreeInv', Counters', pc = "preswitch", pc' = pc, UNCHANGED <<binds, switches>>,
         NEW x, NEW n \in {0, 1, 2}, HandCall(x, n), Left = n + 1, Left' = n,
         MoveKept(x), RootFree(x)',
         \/ refused' = refused \cup {<<x>>} /\ (NewrootNone("base", x) => NewrootNone("base", x)')
         \/ refused' = refused /\ switches = 1 /\ ~ NewrootNone("base", x)' /\ BaseTop(x)'
  PROVE  MountsInv'
<1>0. binds \in Nat /\ switches \in Nat /\ switches # 0
  BY DEF MountsInv, Counters
<1>1. BaseProgress' /\ (pc' # "work" /\ pc' # "binds" /\ pc' # "base")
  BY DEF BaseProgress
<1>2. BindProgress'
  BY <1>1 DEF MountsInv, BindProgress, MoveKept
<1>3. TempProgress'
  <2>1. \A k \in 0..4 : Ejected(k)' => Ejected(k)
    BY <1>0 DEF Ejected, Passed
  <2>2. /\ (Ejected(4)' => Ejected(4)) /\ (Ejected(3)' => Ejected(3)) /\ (Ejected(2)' => Ejected(2))
        /\ (Ejected(1)' => Ejected(1)) /\ (Ejected(0)' => Ejected(0))
    BY <2>1
  <2>3. /\ NoneIn("temp", "shm") => NoneIn("temp", "shm")'
        /\ NoneIn("temp", "pts") => NoneIn("temp", "pts")'
    BY DEF MoveKept, SubNames
  <2> QED
    BY <2>2, <2>3 DEF MountsInv, TempProgress, MoveKept
<1>4. LeafProgress'
  BY DEF LeafProgress
<1>5. /\ (Passed(6)' => Passed(6)) /\ (Passed(5)' => Passed(5))
      /\ (Passed(4)' => Passed(4)) /\ (Passed(3)' => Passed(3))
  BY <1>0 DEF Passed
<1>6. \A k \in {0, 1, 2} : k # n => (Passed(k)' <=> Passed(k))
  BY <1>0 DEF Passed
<1>7. Passed(n)' /\ (Passed(n) => switches # 1)
  BY <1>0 DEF Passed
<1>8. SwitchProgress'
  <2>1. /\ NoneIn("base", "shm") => NoneIn("base", "shm")'
        /\ NoneIn("base", "pts") => NoneIn("base", "pts")'
    BY DEF MoveKept, SubNames
  <2>2. Passed(2)' => RootFree("dev")'
    BY <1>6 DEF HandCall, MountsInv, SwitchProgress, MoveKept
  <2>3. Passed(1)' => RootFree("sys")'
    BY <1>6 DEF HandCall, MountsInv, SwitchProgress, MoveKept
  <2>4. Passed(0)' => RootFree("proc")'
    BY <1>6 DEF HandCall, MountsInv, SwitchProgress, MoveKept
  <2> QED
    BY <1>5, <2>1, <2>2, <2>3, <2>4 DEF MountsInv, SwitchProgress, MoveKept
<1>9. ASSUME NEW z, NEW k \in {0, 1, 2}, Hand(z, k), z # x, k # n PROVE Hand(z, k)'
  <2>1. Passed(k)' <=> Passed(k)
    BY <1>6, <1>9
  <2>2. <<z>> # <<x>>
    BY <1>9
  <2>3. <<z>> \in refused' <=> <<z>> \in refused
    BY <2>2
  <2> QED
    BY <1>9, <2>1, <2>3 DEF Hand, MoveKept
<1>10. ASSUME Hand(x, n) PROVE Hand(x, n)'
  <2>1. switches = 1 => NewrootNone("base", x) /\ <<x>> \notin refused
    BY <1>7, <1>10 DEF Hand
  <2>2. NewrootNone("base", x)' => BaseTop(x)'
    BY DEF NewrootNone, BaseTop
  <2> QED
    BY <1>7, <2>1, <2>2 DEF Hand
<1>11. HandProgress'
  <2>1. Hand("dev", 2) /\ Hand("sys", 1) /\ Hand("proc", 0)
    BY DEF MountsInv, HandProgress
  <2>2. Hand("dev", 2)'
    BY <1>9, <1>10, <2>1 DEF HandCall
  <2>3. Hand("sys", 1)'
    BY <1>9, <1>10, <2>1 DEF HandCall
  <2>4. Hand("proc", 0)'
    BY <1>9, <1>10, <2>1 DEF HandCall
  <2> QED
    BY <2>2, <2>3, <2>4 DEF HandProgress
<1> QED
  BY <1>1, <1>2, <1>3, <1>4, <1>8, <1>11 DEF MountsInv

\* The calls of _do_move_or_umount, by how many are left.
LEMMA MoveCalls ==
  ASSUME Counters, Next1({"move"})
  PROVE  /\ Left \in Nat /\ Len(Tail(todo)) = Left - 1 /\ IsRest(Tail(todo), ListOf(pc))
         /\ pc = "preswitch"
         /\ \E x \in HandNames, n \in {0, 1, 2} : HandCall(x, n) /\ Left = n + 1 /\ Arg = <<x>>
<1>0. todo # <<>> /\ Head(todo).op = "move"
  BY DEF Next1
<1>1. \A a, b, c : Call(a, b, c).op = a /\ Call(a, b, c).at = c
  BY DEF Call
<1>2. /\ \A a : Move(a).at = a
      /\ \A a : UmountAll(a).op = "umountall" /\ Umount(a).op = "umount"
  BY <1>1 DEF Umount, UmountAll, Move
<1>3. /\ IsRest(Tail(todo), ListOf(pc)) /\ Left \in Nat /\ Len(Tail(todo)) = Left - 1
      /\ pc \in {"base", "binds", "aux", "preswitch", "eject"}
  BY <1>0, NextCall
<1>4. pc # "base"
  <2> SUFFICES ASSUME pc = "base" PROVE FALSE
    OBVIOUS
  <2>1. Head(todo).op \in {"mount", "seed"}
    BY <1>0, <1>1, NextCall
  <2> QED
    BY <1>0, <2>1
<1>5. pc # "binds"
  <2> SUFFICES ASSUME pc = "binds" PROVE FALSE
    OBVIOUS
  <2>1. Head(todo).op \in {"mount", "bind"}
    BY <1>0, <1>1, NextCall
  <2> QED
    BY <1>0, <2>1
<1>6. pc # "aux"
  <2> SUFFICES ASSUME pc = "aux" PROVE FALSE
    OBVIOUS
  <2>1. Head(todo).op = "umountall"
    BY <1>0, <1>2, NextCall
  <2> QED
    BY <1>0, <2>1
<1>7. pc # "eject"
  <2> SUFFICES ASSUME pc = "eject" PROVE FALSE
    OBVIOUS
  <2>1. Head(todo).op \in {"umountall", "umount"}
    BY <1>0, <1>2, NextCall
  <2> QED
    BY <1>0, <2>1
<1>8. pc = "preswitch"
  BY <1>3, <1>4, <1>5, <1>6, <1>7
<1>9. \/ Left = 3 /\ Head(todo).at = Dev
      \/ Left = 2 /\ Head(todo).at = Sys
      \/ Left = 1 /\ Head(todo).at = Proc
      \/ Head(todo).op = "umount"
  BY <1>0, <1>2, <1>8, NextCall
<1>10. \/ Left = 3 /\ Arg = <<"dev">>
       \/ Left = 2 /\ Arg = <<"sys">>
       \/ Left = 1 /\ Arg = <<"proc">>
  BY <1>0, <1>9 DEF Arg, Dev, Sys, Proc
<1> QED
  BY <1>3, <1>8, <1>10 DEF HandCall, HandNames

\* The move of a mount of the initramfs to newroot.
LEMMA MoveOne ==
  ASSUME TreeInv, NEW x \in HandNames, IsMountpoint(<<x>>), tab' = Moved(<<x>>, <<"newroot", x>>),
         NewrootNone("base", x), x = "dev" => NoneIn("base", "pts") /\ NoneIn("base", "shm")
  PROVE  /\ TreeInv' /\ MoveKept(x) /\ RootFree(x)' /\ DOMAIN tab' = DOMAIN tab
         /\ ~ NewrootNone("base", x)' /\ BaseTop(x)'
<1>1. Types /\ Levels /\ Places /\ Single /\ Apart /\ Owned
  BY OwnedByInit DEF TreeInv
<1>2. PICK d : d = OnNR(x)
  OBVIOUS
<1>3. PICK e : e = OnRoot(x)
  OBVIOUS
<1>4. Mountpoint(<<x>>) = e /\ Mountpoint(<<"newroot", x>>) = d
  BY <1>1, <1>2, <1>3, Mountpoints
<1>5. d # e /\ d = Dir(d.mnt, d.path)
  BY <1>1, <1>2, <1>3 DEF Apart
<1>6. Types' /\ Levels' /\ \E m \in DOMAIN tab : tab[m].dir = e /\ IsTop(m) /\ MovedTo(m, d)
  BY <1>1, <1>4, <1>5, MoveEffect
<1>7. PICK t \in DOMAIN tab : tab[t].dir = e /\ IsTop(t) /\ MovedTo(t, d)
  BY <1>6
<1>8. tab[t].by = "base"
  <2>1. tab[t].by \in {"base", "temp", "other"} /\ (tab[t].by = "temp" => TempPlace(t))
    BY <1>1 DEF Places, Placed
  <2>2. tab[t].by # "other"
    BY <1>1, <1>3, <1>7 DEF Owned, HandNames, BaseNames
  <2>3. ~ TempPlace(t)
    BY <1>1, <1>3, <1>7 DEF TempPlace, Owned, Apart
  <2> QED
    BY <2>1, <2>2, <2>3
<1>9. \A n \in DOMAIN tab : tab[n].dir.mnt # t
  <2> SUFFICES ASSUME NEW n \in DOMAIN tab, tab[n].dir.mnt = t PROVE FALSE
    OBVIOUS
  <2>1. /\ tab[n].by = "base" /\ \E y \in SubNames : tab[n].dir = Dir(t, <<y>>)
        /\ tab[t].dir = OnRoot("dev")
    BY <1>1, <1>8 DEF Owned
  <2>2. x = "dev"
    BY <1>1, <1>3, <1>7, <2>1 DEF Apart
  <2>3. PICK y \in SubNames : tab[n].dir = Dir(t, <<y>>)
    BY <2>1
  <2>4. tab[n].dir.path = <<y>>
    BY <2>3 DEF Dir
  <2> QED
    BY <2>1, <2>2, <2>4 DEF NoneIn, SubNames
<1>10. TreeInv' /\ NewrootSame
  BY <1>2, <1>6, <1>7, <1>8, <1>9, MovedTree
<1>11. /\ DOMAIN tab' = DOMAIN tab /\ t \in DOMAIN tab
       /\ \A n \in DOMAIN tab : n # t => tab'[n] = tab[n]
       /\ tab'[t].by = "base" /\ tab'[t].dir = d
       /\ IsTop(t)'
       /\ \A n \in DOMAIN tab : tab[n].dir \notin {d, e} => (IsTop(n)' <=> IsTop(n))
  BY <1>7, <1>8 DEF MovedTo
<1>12. \A n \in DOMAIN tab : tab[n].dir = e => n = t
  <2>1. \A z \in HandNames : tab[t].dir # OnNR(z)
    BY <1>1, <1>3, <1>7 DEF Apart
  <2>2. \A n \in DOMAIN tab : tab[n].dir = tab[t].dir => n = t
    BY <1>8, <2>1, Alone
  <2> QED
    BY <1>7, <2>2
<1>13. RootFree(x)'
  BY <1>3, <1>5, <1>11, <1>12 DEF RootFree, Free, OnRoot
<1>14. \A z : RootFree(z) => RootFree(z)'
  <2> SUFFICES ASSUME NEW z, RootFree(z) PROVE RootFree(z)'
    OBVIOUS
  <2>1. d # OnRoot(z)
    BY <1>1, <1>2 DEF Apart
  <2> QED
    BY <1>11, <2>1 DEF RootFree, Free, OnRoot
<1>15. \A by : \A y \in SubNames : NoneIn(by, y) => NoneIn(by, y)'
  <2> SUFFICES ASSUME NEW by, NEW y \in SubNames, NoneIn(by, y) PROVE NoneIn(by, y)'
    OBVIOUS
  <2>1. d.path # <<y>>
    BY <1>1, <1>2 DEF Apart
  <2> QED
    BY <1>11, <2>1 DEF NoneIn
<1>16. \A z : NewrootNone("temp", z) => NewrootNone("temp", z)'
  <2> SUFFICES ASSUME NEW z, NewrootNone("temp", z),
                      NEW m \in DOMAIN tab', tab'[m].by = "temp", tab'[m].dir = OnNR(z)
               PROVE  FALSE
    BY <1>10 DEF NewrootNone, NewrootSame
  <2> QED
    BY <1>11 DEF NewrootNone
<1>17. TempOnce => TempOnce'
  BY <1>11 DEF TempOnce
<1>18. ASSUME NEW z, z # x
       PROVE  (NewrootNone("base", z)' <=> NewrootNone("base", z)) /\ (BaseTop(z) => BaseTop(z)')
  <2>1. d # OnNR(z) /\ e # OnNR(z)
    BY <1>1, <1>2, <1>3, <1>18 DEF Apart
  <2>2. OnNR(z)' = OnNR(z)
    BY <1>10 DEF NewrootSame
  <2>3. \A m \in DOMAIN tab : tab'[m].dir = OnNR(z) <=> tab[m].dir = OnNR(z)
    BY <1>7, <1>11, <2>1
  <2>4. \A m \in DOMAIN tab : tab'[m].by = tab[m].by
    BY <1>8, <1>11
  <2>5. NewrootNone("base", z)' <=> NewrootNone("base", z)
    BY <1>11, <2>2, <2>3, <2>4 DEF NewrootNone
  <2>6. ASSUME BaseTop(z) PROVE BaseTop(z)'
    <3> SUFFICES ASSUME NEW m \in DOMAIN tab', tab'[m].by = "base", tab'[m].dir = OnNR(z)
                 PROVE  IsTop(m)'
      BY <2>2 DEF BaseTop
    <3>1. m \in DOMAIN tab /\ tab[m].by = "base" /\ tab[m].dir = OnNR(z)
      BY <1>11, <2>3, <2>4
    <3>2. IsTop(m)
      BY <2>6, <3>1 DEF BaseTop
    <3> QED
      BY <1>11, <2>1, <3>1, <3>2
  <2> QED
    BY <2>5, <2>6
<1>19. ~ NewrootNone("base", x)'
  BY <1>2, <1>10, <1>11 DEF NewrootNone, NewrootSame
<1>20. BaseTop(x)'
  <2> SUFFICES ASSUME NEW m \in DOMAIN tab', tab'[m].by = "base", tab'[m].dir = OnNR(x)
               PROVE  IsTop(m)'
    BY <1>10 DEF BaseTop, NewrootSame
  <2>1. m = t
    BY <1>11 DEF NewrootNone
  <2> QED
    BY <1>11, <2>1
<1> QED
  BY <1>10, <1>11, <1>13, <1>14, <1>15, <1>16, <1>17, <1>18, <1>19, <1>20 DEF MoveKept

\* MoveOrUmount.
LEMMA InvMoveOrUmount ==
  ASSUME MountsInv, MoveOrUmount
  PROVE  MountsInv' /\ OneGone
<1>0. /\ TreeInv /\ Counters /\ Next1({"move"}) /\ SwitchProgress
      /\ Types /\ Levels /\ Places /\ switches \in Nat
  BY DEF MountsInv, MoveOrUmount, TreeInv, Counters
<1>1. todo' = Tail(todo) /\ pc' = pc /\ UNCHANGED <<failed, binds, switches>>
  BY DEF MoveOrUmount, Done
<1>2. PICK x \in HandNames, n \in {0, 1, 2} : HandCall(x, n) /\ Left = n + 1 /\ Arg = <<x>>
  BY <1>0, MoveCalls
<1>3. pc = "preswitch" /\ Len(Tail(todo)) = Left - 1 /\ IsRest(Tail(todo), ListOf(pc))
  BY <1>0, MoveCalls
<1>4. Left' = n /\ IsRest(todo', ListOf(pc')) /\ switches # 0
  BY <1>0, <1>1, <1>2, <1>3 DEF Left, Counters
<1>5. Counters'
  BY <1>0, <1>1, <1>4 DEF Counters
<1>6. x = "dev" => NoneIn("base", "pts") /\ NoneIn("base", "shm")
  <2> SUFFICES ASSUME x = "dev" PROVE NoneIn("base", "pts") /\ NoneIn("base", "shm")
    OBVIOUS
  <2>1. Passed(3) /\ Passed(4)
    BY <1>0, <1>2, <1>4 DEF HandCall, Passed
  <2> QED
    BY <1>0, <2>1 DEF SwitchProgress
<1>7. CASE tab' = Umounted(Arg) /\ refused' = refused \cup {Arg}
  <2>1. PICK d : d = OnRoot(x)
    OBVIOUS
  <2>2. x \in BaseNames
    BY DEF HandNames, BaseNames
  <2>3. TreeInv' /\ Kept(d) /\ Gone(d) /\ RootFree(x)'
    BY <1>0, <1>2, <1>6, <1>7, <2>1, <2>2, UmountRoot
  <2>4. \A z : d # OnNR(z)
    BY <1>0, <2>1, NamesApart DEF Apart
  <2>5. MoveKept(x) /\ (NewrootNone("base", x) => NewrootNone("base", x)')
    BY <2>3, <2>4 DEF MoveKept, Kept
  <2>6. MountsInv'
    BY <1>1, <1>2, <1>3, <1>4, <1>5, <1>7, <2>3, <2>5, MoveStep
  <2> QED
    BY <2>3, <2>6 DEF Gone, OneGone
<1>8. CASE IsMountpoint(Arg) /\ tab' = Moved(Arg, Newroot(Arg)) /\ refused' = refused
  <2>1. Newroot(Arg) = <<"newroot", x>>
    BY <1>2, NewrootPaths DEF HandNames, Dev, Sys, Proc
  <2>2. ~ RootFree(x)
    <3>1. Mountpoint(<<x>>) = OnRoot(x)
      BY <1>0, Mountpoints
    <3> QED
      BY <1>2, <1>8, <3>1 DEF IsMountpoint, Stack, RootFree, Free
  <2>3. switches = 1
    <3> SUFFICES ASSUME switches # 1 PROVE FALSE
      OBVIOUS
    <3>1. Passed(2) /\ Passed(1) /\ Passed(0)
      BY <1>0, <1>4 DEF Passed
    <3> QED
      BY <1>0, <2>2, <3>1 DEF SwitchProgress, HandNames
  <2>4. ~ Passed(n)
    BY <1>2, <1>3, <2>3 DEF Passed
  <2>5. NewrootNone("base", x)
    BY <1>2, <2>4 DEF MountsInv, HandProgress, Hand, HandCall
  <2>6. /\ TreeInv' /\ MoveKept(x) /\ RootFree(x)' /\ DOMAIN tab' = DOMAIN tab
        /\ ~ NewrootNone("base", x)' /\ BaseTop(x)'
    BY <1>0, <1>2, <1>6, <1>8, <2>1, <2>5, MoveOne
  <2>7. MountsInv'
    BY <1>1, <1>2, <1>3, <1>4, <1>5, <1>8, <2>3, <2>6, MoveStep
  <2> QED
    BY <2>6, <2>7 DEF OneGone
<1> QED
  BY <1>7, <1>8 DEF MoveOrUmount

-------------------------------------------------------------------------------
(* Mounting.                                                                  *)

\* What a mount on d leaves as true as it was.
AddKept(by, d) ==
  /\ \A z : RootFree(z) /\ d # OnRoot(z) => RootFree(z)'
  /\ \A z : ~ RootFree(z) \/ d = OnRoot(z) => ~ RootFree(z)'
  /\ \A b, y : NoneIn(b, y) /\ (by # b \/ d.path # <<y>>) => NoneIn(b, y)'
  /\ \A b, x : NewrootNone(b, x) /\ (by # b \/ d # OnNR(x)) => NewrootNone(b, x)'
  /\ AllBase /\ by = "base" => AllBase'
  /\ NoTemp /\ by # "temp" => NoTemp'
  /\ TempOnce /\ (by # "temp" \/ \A m \in DOMAIN tab : tab[m].by = "temp" => tab[m].dir # d) => TempOnce'

\* This is so for a mount anywhere but on newroot.
LEMMA AddedAtoms ==
  ASSUME NEW new, NEW by, NEW d, Added(new, by, d), NewrootSame
  PROVE  AddKept(by, d)
<1>1. /\ new \notin DOMAIN tab /\ DOMAIN tab' = DOMAIN tab \cup {new}
      /\ \A m \in DOMAIN tab : tab'[m] = tab[m]
      /\ tab'[new].by = by /\ tab'[new].dir = d
  BY DEF Added
<1>2. \A z : RootFree(z) /\ d # OnRoot(z) => RootFree(z)'
  BY <1>1 DEF RootFree, Free, OnRoot
<1>3. \A z : ~ RootFree(z) \/ d = OnRoot(z) => ~ RootFree(z)'
  BY <1>1 DEF RootFree, Free, OnRoot
<1>4. \A b, y : NoneIn(b, y) /\ (by # b \/ d.path # <<y>>) => NoneIn(b, y)'
  BY <1>1 DEF NoneIn
<1>5. \A b, x : NewrootNone(b, x) /\ (by # b \/ d # OnNR(x)) => NewrootNone(b, x)'
  <2> SUFFICES ASSUME NEW b, NEW x, NewrootNone(b, x), by # b \/ d # OnNR(x),
                      NEW m \in DOMAIN tab', tab'[m].by = b, tab'[m].dir = OnNR(x)
               PROVE  FALSE
    BY DEF NewrootNone, NewrootSame
  <2> QED
    BY <1>1 DEF NewrootNone
<1>6. AllBase /\ by = "base" => AllBase'
  BY <1>1 DEF AllBase
<1>7. NoTemp /\ by # "temp" => NoTemp'
  BY <1>1 DEF NoTemp
<1>8. TempOnce /\ (by # "temp" \/ \A m \in DOMAIN tab : tab[m].by = "temp" => tab[m].dir # d) => TempOnce'
  BY <1>1 DEF TempOnce
<1> QED
  BY <1>2, <1>3, <1>4, <1>5, <1>6, <1>7, <1>8 DEF AddKept

\* What is left to show of a mount.
LEMMA AddStep ==
  ASSUME MountsInv, TreeInv', Counters', pc \in {"base", "work", "binds", "late"}, pc' = pc,
         UNCHANGED <<refused, binds, switches>>, BaseProgress', BindProgress',
         \A x \in HandNames : NewrootNone("base", x)'
  PROVE  MountsInv'
<1>0. switches = 0 /\ switches' = 0
  BY DEF MountsInv, Counters
<1>1. \A n : ~ Passed(n) /\ ~ Passed(n)'
  BY <1>0 DEF Passed
<1>2. \A n : ~ Ejected(n)'
  BY <1>1 DEF Ejected
<1>3. TempProgress' /\ LeafProgress' /\ SwitchProgress'
  BY <1>1, <1>2 DEF TempProgress, LeafProgress, SwitchProgress
<1>4. <<"dev">> \notin refused' /\ <<"sys">> \notin refused' /\ <<"proc">> \notin refused'
  BY <1>1 DEF MountsInv, HandProgress, Hand
<1>5. NewrootNone("base", "dev")' /\ NewrootNone("base", "sys")' /\ NewrootNone("base", "proc")'
  BY DEF HandNames
<1>6. HandProgress'
  BY <1>0, <1>4, <1>5 DEF HandProgress, Hand
<1> QED
  BY <1>3, <1>6 DEF MountsInv

\* Before the first switch no base mount is in newroot.
LEMMA NoneHanded ==
  ASSUME MountsInv, pc \in {"base", "work", "binds", "late"}
  PROVE  \A x \in HandNames : NewrootNone("base", x)
<1>0. switches = 0
  BY DEF MountsInv, Counters
<1>1. \A n : ~ Passed(n)
  BY <1>0 DEF Passed
<1> QED
  BY <1>1 DEF MountsInv, HandProgress, Hand, HandNames

\* A base mount of the initramfs' own directory.
LEMMA BaseOnRoot ==
  ASSUME MountsInv, pc = "base", NEW fs, NEW x \in BaseNames, RootFree(x),
         tab' = Mounted(fs, "base", <<x>>)
  PROVE  \E d : TreeInv' /\ AddKept("base", d) /\ d = OnRoot(x) /\ DOMAIN tab \subseteq DOMAIN tab'
<1>1. Types /\ Levels /\ Places /\ Single /\ TreeInv /\ Apart /\ Owned
  BY OwnedByInit DEF TreeInv, MountsInv
<1>2. PICK d : d = OnRoot(x)
  OBVIOUS
<1>3. Mountpoint(<<x>>) = d
  BY <1>1, <1>2, Mountpoints
<1>4. d = Dir(d.mnt, d.path)
  BY <1>2 DEF OnRoot, Dir
<1>5. Types' /\ Levels' /\ \E new : Added(new, "base", d)
  BY <1>1, <1>3, <1>4, MountEffect
<1>6. PICK new : Added(new, "base", d)
  BY <1>5
<1>7. d # OnRoot("newroot")
  BY <1>1, <1>2 DEF Apart, BaseNames
<1>8. NewrootSame
  BY <1>1, <1>5, <1>6, <1>7, AddedNewroot
<1>9. Placed(new)'
  <2>1. tab'[new].by = "base" /\ tab'[new].dir = OnRoot(x)
    BY <1>2, <1>6 DEF Added
  <2>2. BasePlace(new)'
    BY <2>1 DEF BasePlace, OnRoot
  <2> QED
    BY <2>1, <2>2 DEF Placed
<1>10. Free(d)
  BY <1>2 DEF RootFree
<1>11. TreeInv'
  BY <1>1, <1>5, <1>6, <1>8, <1>9, <1>10, AddedTree
<1>12. AddKept("base", d)
  BY <1>6, <1>8, AddedAtoms
<1> QED
  BY <1>2, <1>6, <1>11, <1>12 DEF Added

\* A base mount in /dev.
LEMMA BaseInDev ==
  ASSUME MountsInv, pc = "base", NEW fs, NEW y \in SubNames, ~ RootFree("dev"), NoneIn("base", y),
         tab' = Mounted(fs, "base", <<"dev", y>>)
  PROVE  \E d : /\ TreeInv' /\ AddKept("base", d) /\ d.path = <<y>> /\ (\A x : d # OnRoot(x))
                /\ \A x \in HandNames : d # OnNR(x)
                /\ DOMAIN tab \subseteq DOMAIN tab'
<1>1. Types /\ Levels /\ Places /\ Single /\ TreeInv /\ Apart /\ Owned /\ AllBase
  BY OwnedByInit DEF TreeInv, MountsInv, BaseProgress
<1>2. PICK D \in DOMAIN tab : /\ tab[D].dir = OnRoot("dev") /\ IsTop(D)
                              /\ Mountpoint(<<"dev", y>>) = Dir(D, <<y>>)
  BY <1>1, Mountpoints DEF RootFree
<1>3. PICK d : d = Dir(D, <<y>>)
  OBVIOUS
<1>4. d = Dir(d.mnt, d.path) /\ d.mnt = D /\ d.path = <<y>> /\ D # Root
  BY <1>1, <1>3 DEF Dir, Types
<1>5. Types' /\ Levels' /\ \E new : Added(new, "base", d)
  BY <1>1, <1>2, <1>3, <1>4, MountEffect
<1>6. PICK new : Added(new, "base", d)
  BY <1>5
<1>7. \A x : d # OnRoot(x)
  <2>1. \A x : OnRoot(x).mnt = Root
    BY DEF OnRoot, Dir
  <2> QED
    BY <1>4, <2>1
<1>8. \A x \in HandNames : d # OnNR(x)
  BY <1>1, <1>4 DEF Apart
<1>9. NewrootSame
  BY <1>1, <1>5, <1>6, <1>7, AddedNewroot
<1>10. Placed(new)'
  <2>1. tab'[new].by = "base" /\ tab'[new].dir = d /\ D \in DOMAIN tab' /\ tab'[D] = tab[D]
    BY <1>6 DEF Added
  <2>2. tab'[D].by = "base" /\ tab'[D].dir = OnRoot("dev")
    BY <1>1, <1>2, <2>1 DEF AllBase
  <2>3. Inside(new, "base", OnRoot("dev"))'
    BY <1>4, <2>1, <2>2 DEF Inside, OnRoot
  <2>4. BasePlace(new)'
    BY <2>3 DEF BasePlace
  <2> QED
    BY <2>1, <2>4 DEF Placed
<1>11. Free(d)
  BY <1>1, <1>4 DEF Free, AllBase, NoneIn
<1>12. TreeInv'
  BY <1>1, <1>5, <1>6, <1>9, <1>10, <1>11, AddedTree
<1>13. AddKept("base", d)
  BY <1>6, <1>9, AddedAtoms
<1> QED
  BY <1>4, <1>6, <1>7, <1>8, <1>12, <1>13 DEF Added

\* BaseMount.
LEMMA InvBaseMount ==
  ASSUME MountsInv, BaseMount
  PROVE  MountsInv' /\ DOMAIN tab \subseteq DOMAIN tab'
<1>0. /\ pc = "base" /\ pc' = "base" /\ todo # <<>> /\ todo' = Tail(todo)
      /\ UNCHANGED <<refused, binds, switches>>
      /\ tab' = IF Head(todo).op = "seed" THEN tab ELSE Mounted(Head(todo).fs, "base", Head(todo).at)
      /\ Counters /\ TreeInv /\ BaseProgress
  BY DEF BaseMount, Next1, Done, MountsInv, Arg
<1>1. \A a, b, c : Call(a, b, c).op = a /\ Call(a, b, c).fs = b /\ Call(a, b, c).at = c
  BY DEF Call
<1>2. IsRest(Tail(todo), ListOf(pc)) /\ Left \in Nat /\ Len(Tail(todo)) = Left - 1
  BY <1>0, NextCall
<1>3. Left' = Left - 1 /\ IsRest(todo', ListOf(pc'))
  BY <1>0, <1>2 DEF Left
<1>4. Counters'
  BY <1>0, <1>3 DEF Counters
<1>5. NoTemp /\ \A x \in HandNames : NewrootNone("base", x)
  BY <1>0, NoneHanded DEF MountsInv, BindProgress
<1>6. NoTemp' => BindProgress'
  BY <1>0 DEF BindProgress, TempOnce, NoTemp
<1>7. AllBase => NoTemp
  BY DEF AllBase, NoTemp
<1>8. ASSUME NEW x \in BaseNames, RootFree(x), tab' = Mounted(Head(todo).fs, "base", <<x>>),
             \/ Left = 8 /\ x = "proc"
             \/ Left = 7 /\ x = "sys"
             \/ Left = 6 /\ x = "dev"
             \/ Left = 2 /\ x = "run"
             \/ Left = 1 /\ x = "tmp"
      PROVE  MountsInv' /\ DOMAIN tab \subseteq DOMAIN tab'
  <2>1. PICK d : TreeInv' /\ AddKept("base", d) /\ d = OnRoot(x) /\ DOMAIN tab \subseteq DOMAIN tab'
    BY <1>0, <1>8, BaseOnRoot
  <2>2. Apart
    BY <1>0, NamesApart DEF TreeInv
  <2>3. \A z : OnRoot(z) # d <=> z # x
    BY <2>1, <2>2 DEF Apart
  <2>4. \A z : d # OnNR(z)
    BY <2>1, <2>2 DEF Apart
  <2>5. d.path = <<x>> /\ \A y \in SubNames : <<y>> # <<x>>
    BY <2>1 DEF OnRoot, Dir, SubNames, BaseNames
  <2>6. \A y \in SubNames : NoneIn("base", y) => NoneIn("base", y)'
    BY <2>1, <2>5 DEF AddKept
  <2>7. \A z : z # x /\ RootFree(z) => RootFree(z)'
    BY <2>1, <2>3 DEF AddKept
  <2>8. x = "dev" => ~ RootFree("dev")'
    BY <2>1 DEF AddKept
  <2>9. AllBase'
    BY <1>0, <2>1 DEF AddKept, BaseProgress
  <2>10. BaseProgress'
    <3>1. /\ NoneIn("base", "pts") => NoneIn("base", "pts")'
          /\ NoneIn("base", "shm") => NoneIn("base", "shm")'
      BY <2>6 DEF SubNames
    <3> QED
      BY <1>0, <1>2, <1>3, <1>8, <2>7, <2>8, <2>9, <3>1 DEF BaseProgress
  <2>11. NoTemp' /\ \A z \in HandNames : NewrootNone("base", z)'
    BY <1>5, <2>1, <2>4 DEF AddKept
  <2> QED
    BY <1>0, <1>4, <1>6, <2>1, <2>10, <2>11, AddStep
<1>9. ASSUME NEW y \in SubNames, tab' = Mounted(Head(todo).fs, "base", <<"dev", y>>),
             \/ Left = 5 /\ y = "pts"
             \/ Left = 4 /\ y = "shm"
      PROVE  MountsInv' /\ DOMAIN tab \subseteq DOMAIN tab'
  <2>0. ~ RootFree("dev") /\ NoneIn("base", y)
    BY <1>0, <1>9 DEF BaseProgress
  <2>1. PICK d : /\ TreeInv' /\ AddKept("base", d) /\ d.path = <<y>> /\ (\A x : d # OnRoot(x))
                 /\ \A x \in HandNames : d # OnNR(x)
                 /\ DOMAIN tab \subseteq DOMAIN tab'
    BY <1>0, <1>9, <2>0, BaseInDev
  <2>2. \A z : (RootFree(z) => RootFree(z)') /\ (~ RootFree(z) => ~ RootFree(z)')
    BY <2>1 DEF AddKept
  <2>3. y # "shm" /\ NoneIn("base", "shm") => NoneIn("base", "shm")'
    <3>1. y # "shm" => <<y>> # <<"shm">>
      OBVIOUS
    <3> QED
      BY <2>1, <3>1 DEF AddKept
  <2>4. AllBase'
    BY <1>0, <2>1 DEF AddKept, BaseProgress
  <2>5. BaseProgress'
    BY <1>0, <1>2, <1>3, <1>9, <2>2, <2>3, <2>4 DEF BaseProgress
  <2>6. NoTemp' /\ \A z \in HandNames : NewrootNone("base", z)'
    BY <1>5, <2>1 DEF AddKept
  <2> QED
    BY <1>0, <1>4, <1>6, <2>1, <2>5, <2>6, AddStep
<1>10. ASSUME tab' = tab, Left = 3 PROVE MountsInv'
  <2>1. TreeInv' /\ AtomsSame
    BY <1>0, <1>10, SameAtoms
  <2>2. BaseProgress'
    BY <1>0, <1>2, <1>3, <1>10, <2>1 DEF BaseProgress, AtomsSame
  <2>3. NoTemp' /\ \A z \in HandNames : NewrootNone("base", z)'
    BY <1>5, <2>1 DEF AtomsSame
  <2> QED
    BY <1>0, <1>4, <1>6, <2>1, <2>2, <2>3, AddStep
<1>11. \/ Left = 8 /\ Head(todo).op = "mount" /\ Head(todo).at = <<"proc">>
       \/ Left = 7 /\ Head(todo).op = "mount" /\ Head(todo).at = <<"sys">>
       \/ Left = 6 /\ Head(todo).op = "mount" /\ Head(todo).at = <<"dev">>
       \/ Left = 5 /\ Head(todo).op = "mount" /\ Head(todo).at = <<"dev", "pts">>
       \/ Left = 4 /\ Head(todo).op = "mount" /\ Head(todo).at = <<"dev", "shm">>
       \/ Left = 3 /\ Head(todo).op = "seed"
       \/ Left = 2 /\ Head(todo).op = "mount" /\ Head(todo).at = <<"run">>
       \/ Left = 1 /\ Head(todo).op = "mount" /\ Head(todo).at = <<"tmp">>
  <2>1. /\ Proc = <<"proc">> /\ Sys = <<"sys">> /\ Dev = <<"dev">> /\ Run = <<"run">>
        /\ Tmp = <<"tmp">> /\ Pts = <<"dev", "pts">> /\ Shm = <<"dev", "shm">>
    BY DEF Proc, Sys, Dev, Run, Tmp, Pts, Shm
  <2>2. \/ Left = 8 /\ Head(todo) = Call("mount", "proc", Proc)
        \/ Left = 7 /\ Head(todo) = Call("mount", "sysfs", Sys)
        \/ Left = 6 /\ Head(todo) = Call("mount", "devfs", Dev)
        \/ Left = 5 /\ Head(todo) = Call("mount", "devpts", Pts)
        \/ Left = 4 /\ Head(todo) = Call("mount", "shm", Shm)
        \/ Left = 3 /\ Head(todo) = Call("seed", "none", Dev)
        \/ Left = 2 /\ Head(todo) = Call("mount", "run", Run)
        \/ Left = 1 /\ Head(todo) = Call("mount", "tmp", Tmp)
    BY <1>0, NextCall
  <2> QED
    BY <1>1, <2>1, <2>2
<1>12. /\ Left >= 8 => RootFree("proc")
       /\ Left >= 7 => RootFree("sys")
       /\ Left >= 6 => RootFree("dev")
       /\ Left >= 2 => RootFree("run")
       /\ Left >= 1 => RootFree("tmp")
  BY <1>0 DEF BaseProgress
<1>13. SubNames = {"pts", "shm"} /\ BaseNames = {"proc", "sys", "dev", "run", "tmp"}
  BY DEF SubNames, BaseNames
<1>14. CASE Head(todo).op = "seed"
  BY <1>0, <1>10, <1>11, <1>14
<1>15. CASE Head(todo).op = "mount"
  <2>1. tab' = Mounted(Head(todo).fs, "base", Head(todo).at)
    BY <1>0, <1>15
  <2>2. \/ Left = 8 /\ Head(todo).at = <<"proc">> /\ RootFree("proc")
        \/ Left = 7 /\ Head(todo).at = <<"sys">> /\ RootFree("sys")
        \/ Left = 6 /\ Head(todo).at = <<"dev">> /\ RootFree("dev")
        \/ Left = 5 /\ Head(todo).at = <<"dev", "pts">>
        \/ Left = 4 /\ Head(todo).at = <<"dev", "shm">>
        \/ Left = 2 /\ Head(todo).at = <<"run">> /\ RootFree("run")
        \/ Left = 1 /\ Head(todo).at = <<"tmp">> /\ RootFree("tmp")
    BY <1>11, <1>12, <1>15
  <2>3. ASSUME Left \in {8, 7, 6, 2, 1} PROVE MountsInv' /\ DOMAIN tab \subseteq DOMAIN tab'
    BY <1>8, <1>13, <2>1, <2>2, <2>3
  <2>4. ASSUME Left \in {5, 4} PROVE MountsInv' /\ DOMAIN tab \subseteq DOMAIN tab'
    BY <1>9, <1>13, <2>1, <2>2, <2>4
  <2> QED
    BY <2>2, <2>3, <2>4
<1> QED
  BY <1>11, <1>14, <1>15

\* A bind mount in newroot.
LEMMA TempOnNewroot ==
  ASSUME TreeInv, NEW fs, NEW x \in HandNames, tab' = Mounted(fs, "temp", <<"newroot", x>>)
  PROVE  \E d, new : /\ TreeInv' /\ NewrootSame /\ AddKept("temp", d) /\ d = OnNR(x)
                     /\ Added(new, "temp", d)
<1>1. Types /\ Levels /\ Places /\ Single /\ TreeInv /\ Apart /\ Owned
  BY OwnedByInit DEF TreeInv
<1>2. PICK d : d = OnNR(x)
  OBVIOUS
<1>3. Mountpoint(<<"newroot", x>>) = d
  BY <1>1, <1>2, Mountpoints
<1>4. d = Dir(d.mnt, d.path) /\ d # OnRoot("newroot")
  BY <1>1, <1>2 DEF Apart
<1>5. Types' /\ Levels' /\ \E new : Added(new, "temp", d)
  BY <1>1, <1>3, <1>4, MountEffect
<1>6. PICK new : Added(new, "temp", d)
  BY <1>5
<1>7. NewrootSame
  BY <1>1, <1>4, <1>5, <1>6, AddedNewroot
<1>8. Placed(new)'
  <2>1. tab'[new].by = "temp" /\ tab'[new].dir = OnNR(x)'
    BY <1>2, <1>6, <1>7 DEF Added, NewrootSame
  <2>2. TempPlace(new)'
    BY <2>1 DEF TempPlace
  <2> QED
    BY <2>1, <2>2 DEF Placed
<1>9. TreeInv'
  BY <1>1, <1>2, <1>5, <1>6, <1>7, <1>8, AddedTree
<1>10. AddKept("temp", d)
  BY <1>6, <1>7, AddedAtoms
<1> QED
  BY <1>2, <1>6, <1>7, <1>9, <1>10

\* A mount in newroot's /dev, which is a temporary mount with nothing there yet.
LEMMA TempInDev ==
  ASSUME TreeInv, NEW fs, NEW y \in SubNames, tab' = Mounted(fs, "temp", <<"newroot", "dev", y>>),
         NEW D \in DOMAIN tab, tab[D].dir = OnNR("dev"), tab[D].by = "temp", IsTop(D), DevFree(D, y)
  PROVE  \E d, new : /\ TreeInv' /\ NewrootSame /\ AddKept("temp", d) /\ d = Dir(D, <<y>>) /\ Free(d)
                     /\ Added(new, "temp", d)
<1>1. Types /\ Levels /\ Places /\ Single /\ TreeInv /\ Apart /\ Owned /\ TopFacts
  BY OwnedByInit, FollowTop DEF TreeInv
<1>2. Mountpoint(<<"newroot", "dev", y>>) = Dir(D, <<y>>)
  <2>1. ~ Free(OnNR("dev"))
    BY DEF Free
  <2>2. PICK E \in DOMAIN tab : /\ tab[E].dir = OnNR("dev") /\ IsTop(E)
                                /\ Mountpoint(<<"newroot", "dev", y>>) = Dir(E, <<y>>)
    BY <1>1, <2>1, Mountpoints
  <2>3. TopOf(Stack(OnNR("dev"))) = E /\ TopOf(Stack(OnNR("dev"))) = D
    BY <1>1, <2>2 DEF TopFacts
  <2> QED
    BY <2>2, <2>3
<1>3. PICK d : d = Dir(D, <<y>>)
  OBVIOUS
<1>4. d = Dir(d.mnt, d.path) /\ d.mnt = D /\ d.path = <<y>> /\ D # Root
  BY <1>1, <1>3 DEF Dir, Types
<1>5. Types' /\ Levels' /\ \E new : Added(new, "temp", d)
  BY <1>1, <1>2, <1>3, <1>4, MountEffect
<1>6. PICK new : Added(new, "temp", d)
  BY <1>5
<1>7. d # OnRoot("newroot")
  <2>1. OnRoot("newroot").mnt = Root
    BY DEF OnRoot, Dir
  <2> QED
    BY <1>4, <2>1
<1>8. NewrootSame
  BY <1>1, <1>5, <1>6, <1>7, AddedNewroot
<1>9. Placed(new)'
  <2>1. tab'[new].by = "temp" /\ tab'[new].dir = d /\ D \in DOMAIN tab' /\ tab'[D] = tab[D]
    BY <1>6 DEF Added
  <2>2. tab'[D].by = "temp" /\ tab'[D].dir = OnNR("dev")'
    BY <1>8, <2>1 DEF NewrootSame
  <2>3. Inside(new, "temp", OnNR("dev"))'
    BY <1>4, <2>1, <2>2 DEF Inside
  <2>4. TempPlace(new)'
    BY <2>3 DEF TempPlace
  <2> QED
    BY <2>1, <2>4 DEF Placed
<1>10. Free(d)
  BY <1>3 DEF DevFree
<1>11. TreeInv'
  BY <1>1, <1>5, <1>6, <1>8, <1>9, <1>10, AddedTree
<1>12. AddKept("temp", d)
  BY <1>6, <1>8, AddedAtoms
<1> QED
  BY <1>3, <1>6, <1>8, <1>10, <1>11, <1>12

\* newroot's /dev is as ready as before after a mount that is not on it.
LEMMA StillReady ==
  ASSUME NEW S, NEW new, NEW d, Added(new, "temp", d), NewrootSame, d # OnNR("dev"),
         NEW D \in DOMAIN tab, tab[D].dir = OnNR("dev"), tab[D].by = "temp", IsTop(D),
         \A y \in S : DevFree(D, y) /\ d # Dir(D, <<y>>)
  PROVE  DevReady(S)'
<1>1. /\ DOMAIN tab' = DOMAIN tab \cup {new}
      /\ \A m \in DOMAIN tab : tab'[m] = tab[m]
      /\ tab'[new].dir = d
      /\ \A m \in DOMAIN tab : tab[m].dir # d => (IsTop(m)' <=> IsTop(m))
  BY DEF Added
<1>2. D \in DOMAIN tab' /\ tab'[D].dir = OnNR("dev")' /\ tab'[D].by = "temp" /\ IsTop(D)'
  BY <1>1 DEF NewrootSame
<1>3. \A y \in S : DevFree(D, y)'
  BY <1>1 DEF DevFree, Free, Dir
<1> QED
  BY <1>2, <1>3 DEF DevReady

\* NewrootMount.
LEMMA InvNewrootMount ==
  ASSUME MountsInv, NewrootMount
  PROVE  MountsInv' /\ DOMAIN tab \subseteq DOMAIN tab'
<1>0. /\ pc = "binds" /\ pc' = "binds" /\ todo # <<>> /\ todo' = Tail(todo)
      /\ UNCHANGED <<refused, binds, switches>>
      /\ tab' = IF Head(todo).op = "bind"
                THEN Mounted(FsAt(Arg), "temp", Newroot(Head(todo).at))
                ELSE Mounted(Head(todo).fs, "temp", Head(todo).at)
      /\ Counters /\ TreeInv /\ BindProgress
  BY DEF NewrootMount, Next1, Done, MountsInv, Arg
<1>1. \A a, b, c : Call(a, b, c).op = a /\ Call(a, b, c).fs = b /\ Call(a, b, c).at = c
  BY DEF Call
<1>2. IsRest(Tail(todo), ListOf(pc)) /\ Left \in Nat /\ Len(Tail(todo)) = Left - 1
  BY <1>0, NextCall
<1>3. Left' = Left - 1 /\ IsRest(todo', ListOf(pc'))
  BY <1>0, <1>2 DEF Left
<1>4. Counters' /\ binds \in Nat /\ binds # 0
  BY <1>0, <1>3 DEF Counters
<1>5. \A x \in HandNames : NewrootNone("base", x)
  BY <1>0, NoneHanded
<1>6. BaseProgress'
  BY <1>0 DEF BaseProgress
<1>7. Types /\ Levels /\ Places /\ Apart /\ Owned
  BY <1>0, OwnedByInit DEF TreeInv
<1>8. ASSUME NEW x \in HandNames, NEW fs, tab' = Mounted(fs, "temp", <<"newroot", x>>),
             \/ Left = 5 /\ x = "dev"
             \/ Left = 4 /\ x = "sys"
             \/ Left = 3 /\ x = "proc"
      PROVE  MountsInv' /\ DOMAIN tab \subseteq DOMAIN tab'
  <2>1. PICK d, new : /\ TreeInv' /\ NewrootSame /\ AddKept("temp", d) /\ d = OnNR(x)
                      /\ Added(new, "temp", d)
    BY <1>0, <1>8, TempOnNewroot
  <2>2. \A z : z # x => d # OnNR(z)
    BY <1>7, <2>1 DEF Apart
  <2>3. /\ DOMAIN tab' = DOMAIN tab \cup {new} /\ new \notin DOMAIN tab /\ new # Root
        /\ \A m \in DOMAIN tab : tab'[m] = tab[m]
        /\ tab'[new].by = "temp" /\ tab'[new].dir = d /\ IsTop(new)'
    BY <2>1 DEF Added
  <2>4. DevReady({"shm", "pts"})'
    <3>1. CASE x = "dev"
      <4>1. \A y \in SubNames : DevFree(new, y)'
        <5> SUFFICES ASSUME NEW y \in SubNames, NEW m \in DOMAIN tab', tab'[m].dir = Dir(new, <<y>>)
                     PROVE  FALSE
          BY DEF DevFree, Free, Dir
        <5>1. tab'[m].dir.mnt = new /\ tab'[m].dir.path = <<y>>
          BY DEF Dir
        <5>2. m # new
          BY <1>7, <2>1, <2>3, <5>1 DEF Apart
        <5> QED
          BY <1>7, <2>3, <5>1, <5>2 DEF Owned
      <4>2. tab'[new].dir = OnNR("dev")'
        BY <2>1, <2>3, <3>1 DEF NewrootSame
      <4> QED
        BY <2>3, <4>1, <4>2 DEF DevReady, SubNames
    <3>2. CASE x # "dev"
      <4>1. DevReady({"shm", "pts"})
        BY <1>0, <1>8, <3>2 DEF BindProgress
      <4>2. PICK D \in DOMAIN tab : /\ tab[D].dir = OnNR("dev") /\ tab[D].by = "temp" /\ IsTop(D)
                                    /\ \A y \in {"shm", "pts"} : DevFree(D, y)
        BY <4>1 DEF DevReady
      <4>3. \A y \in {"shm", "pts"} : d # Dir(D, <<y>>)
        <5>1. \A y \in {"shm", "pts"} : d.path # <<y>>
          BY <1>7, <2>1 DEF Apart, SubNames
        <5> QED
          BY <5>1 DEF Dir
      <4> QED
        BY <2>1, <2>2, <3>2, <4>2, <4>3, StillReady
    <3> QED
      BY <3>1, <3>2
  <2>5. ASSUME binds <= 1 PROVE TempOnce'
    <3>1. TempOnce /\ binds = 1
      BY <1>0, <1>4, <2>5 DEF BindProgress
    <3>2. NewrootNone("temp", x)
      BY <1>0, <1>2, <1>8, <3>1 DEF BindProgress, NoTemp, NewrootNone
    <3>3. \A m \in DOMAIN tab : tab[m].by = "temp" => tab[m].dir # d
      BY <2>1, <3>2 DEF NewrootNone
    <3> QED
      BY <2>1, <3>1, <3>3 DEF AddKept
  <2>6. ASSUME binds = 1
        PROVE  /\ Left' >= 4 => NewrootNone("temp", "sys")'
               /\ Left' >= 3 => NewrootNone("temp", "proc")'
    <3>1. /\ Left >= 5 => NewrootNone("temp", "sys")
          /\ Left >= 4 => NewrootNone("temp", "proc")
      BY <1>0, <1>2, <2>6 DEF BindProgress
    <3>2. /\ x # "sys" /\ NewrootNone("temp", "sys") => NewrootNone("temp", "sys")'
          /\ x # "proc" /\ NewrootNone("temp", "proc") => NewrootNone("temp", "proc")'
      BY <2>1, <2>2 DEF AddKept
    <3> QED
      BY <1>2, <1>3, <1>8, <3>1, <3>2
  <2>7. BindProgress'
    BY <1>0, <1>2, <1>3, <1>8, <2>4, <2>5, <2>6 DEF BindProgress
  <2>8. \A z \in HandNames : NewrootNone("base", z)'
    BY <1>5, <2>1 DEF AddKept
  <2> QED
    BY <1>0, <1>4, <1>6, <2>1, <2>3, <2>7, <2>8, AddStep
<1>9. ASSUME NEW y \in SubNames, NEW fs, tab' = Mounted(fs, "temp", <<"newroot", "dev", y>>),
             \/ Left = 2 /\ y = "shm"
             \/ Left = 1 /\ y = "pts"
      PROVE  MountsInv' /\ DOMAIN tab \subseteq DOMAIN tab'
  <2>1. \/ Left = 2 /\ y = "shm" /\ DevReady({"shm", "pts"})
        \/ Left = 1 /\ y = "pts" /\ DevReady({"pts"})
    BY <1>0, <1>9 DEF BindProgress
  <2>2. PICK D \in DOMAIN tab : /\ tab[D].dir = OnNR("dev") /\ tab[D].by = "temp" /\ IsTop(D)
                                /\ DevFree(D, y) /\ (Left = 2 => DevFree(D, "pts"))
    BY <2>1 DEF DevReady
  <2>3. PICK d, new : /\ TreeInv' /\ NewrootSame /\ AddKept("temp", d) /\ d = Dir(D, <<y>>) /\ Free(d)
                      /\ Added(new, "temp", d)
    BY <1>0, <1>9, <2>2, TempInDev
  <2>4. d.path = <<y>>
    BY <2>3 DEF Dir
  <2>5. d # OnNR("dev")
    BY <1>7, <2>4 DEF Apart, HandNames
  <2>6. Left = 2 => DevReady({"pts"})'
    <3> SUFFICES ASSUME Left = 2 PROVE DevReady({"pts"})'
      OBVIOUS
    <3>1. d # Dir(D, <<"pts">>)
      BY <1>9, <2>4 DEF Dir
    <3> QED
      BY <2>2, <2>3, <2>5, <3>1, StillReady
  <2>7. binds <= 1 => TempOnce'
    BY <1>0, <2>3 DEF BindProgress, AddKept, Free
  <2>8. BindProgress'
    BY <1>0, <1>2, <1>3, <1>9, <2>6, <2>7 DEF BindProgress
  <2>9. \A z \in HandNames : NewrootNone("base", z)'
    BY <1>5, <2>3 DEF AddKept
  <2>10. DOMAIN tab \subseteq DOMAIN tab'
    BY <2>3 DEF Added
  <2> QED
    BY <1>0, <1>4, <1>6, <2>3, <2>8, <2>9, <2>10, AddStep
<1>10. \/ Left = 5 /\ Head(todo).op = "bind" /\ Newroot(Head(todo).at) = <<"newroot", "dev">>
       \/ Left = 4 /\ Head(todo).op = "bind" /\ Newroot(Head(todo).at) = <<"newroot", "sys">>
       \/ Left = 3 /\ Head(todo).op = "bind" /\ Newroot(Head(todo).at) = <<"newroot", "proc">>
       \/ Left = 2 /\ Head(todo).op = "mount" /\ Head(todo).at = <<"newroot", "dev", "shm">>
       \/ Left = 1 /\ Head(todo).op = "mount" /\ Head(todo).at = <<"newroot", "dev", "pts">>
  <2>1. \/ Left = 5 /\ Head(todo) = Call("bind", "none", Dev)
        \/ Left = 4 /\ Head(todo) = Call("bind", "none", Sys)
        \/ Left = 3 /\ Head(todo) = Call("bind", "none", Proc)
        \/ Left = 2 /\ Head(todo) = Call("mount", "shm", Newroot(Shm))
        \/ Left = 1 /\ Head(todo) = Call("mount", "devpts", Newroot(Pts))
    BY <1>0, NextCall
  <2> QED
    BY <1>1, <2>1, NewrootPaths
<1>11. SubNames = {"pts", "shm"} /\ HandNames = {"dev", "sys", "proc"}
  BY DEF SubNames, HandNames
<1>12. CASE Head(todo).op = "bind"
  <2>1. PICK fs : tab' = Mounted(fs, "temp", Newroot(Head(todo).at))
    BY <1>0, <1>12
  <2> QED
    BY <1>8, <1>10, <1>11, <1>12, <2>1
<1>13. CASE Head(todo).op = "mount"
  <2>1. PICK fs : tab' = Mounted(fs, "temp", Head(todo).at)
    BY <1>0, <1>13
  <2> QED
    BY <1>9, <1>10, <1>11, <1>13, <2>1
<1> QED
  BY <1>10, <1>12, <1>13

\* A directory in the initramfs or in a mount that is not /init's own, which is not
\* one of those that /init mounts on.
OtherDir(d) ==
  /\ d.mnt = Root \/ (d.mnt \in DOMAIN tab /\ tab[d.mnt].by = "other")
  /\ d.path # <<>> /\ ~ Below(d)

\* Nothing of /init's is mounted there.
LEMMA OthersOnly ==
  ASSUME TreeInv, NEW d, OtherDir(d), NEW m \in DOMAIN tab, tab[m].dir = d
  PROVE  tab[m].by = "other"
<1>1. Types /\ Levels /\ Places /\ Apart /\ Owned /\ Root \notin DOMAIN tab
  BY OwnedByInit DEF TreeInv, Types
<1>2. \A x \in BaseNames : d # OnRoot(x)
  <2> SUFFICES ASSUME NEW x \in BaseNames, d = OnRoot(x) PROVE FALSE
    OBVIOUS
  <2>1. d.mnt = Root /\ d.path = <<x>> /\ <<x>>[1] = x /\ x # "newroot"
    BY DEF OnRoot, Dir, BaseNames
  <2>2. d.path # <<"newroot">>
    BY <2>1
  <2>3. Reserved(d.path)
    BY <2>1 DEF Reserved, BaseNames
  <2> QED
    BY <2>1, <2>2, <2>3 DEF OtherDir, Below
<1>3. \A x \in HandNames : d # OnNR(x)
  <2> SUFFICES ASSUME NEW x \in HandNames, d = OnNR(x) PROVE FALSE
    OBVIOUS
  <2>1. CASE OnNR(x) = Dir(Root, <<"newroot", x>>)
    <3>1. d.mnt = Root /\ d.path = <<"newroot", x>>
      BY <2>1 DEF Dir
    <3>2. d.path[1] = "newroot" /\ d.path[2] = x /\ Len(d.path) = 2 /\ Len(<<"newroot">>) = 1
      BY <3>1
    <3>3. d.path # <<"newroot">>
      BY <3>2
    <3>4. Reserved(d.path)
      BY <3>2 DEF Reserved, HandNames
    <3> QED
      BY <3>1, <3>3, <3>4 DEF OtherDir, Below
  <2>2. ASSUME NEW M \in DOMAIN tab, tab[M].dir = OnRoot("newroot"), OnNR(x) = Dir(M, <<x>>) PROVE FALSE
    <3>1. d.mnt = M /\ d.path = <<x>>
      BY <2>2 DEF Dir
    <3>2. d.path[1] = x
      BY <3>1
    <3> QED
      BY <2>2, <3>1, <3>2 DEF OtherDir, Below
  <2> QED
    BY <1>1, <2>1, <2>2, NewrootIs
<1>4. tab[m].by # "base"
  <2> SUFFICES ASSUME tab[m].by = "base" PROVE FALSE
    OBVIOUS
  <2>1. BasePlace(m)
    BY <1>1 DEF Places, Placed
  <2> QED
    BY <1>1, <1>2, <1>3, <2>1 DEF BasePlace, Inside, OtherDir
<1>5. tab[m].by # "temp"
  <2> SUFFICES ASSUME tab[m].by = "temp" PROVE FALSE
    OBVIOUS
  <2>1. TempPlace(m)
    BY <1>1 DEF Places, Placed
  <2> QED
    BY <1>1, <1>3, <2>1 DEF TempPlace, Inside, OtherDir
<1> QED
  BY <1>1, <1>4, <1>5 DEF Places, Placed

\* Where n names of the path p of an other mount lead to, S being the names.
Here(w, p, n, S) ==
  /\ w = Dir(w.mnt, w.path) /\ w.path \in Seq(S)
  /\ \/ w.mnt = Root /\ Len(w.path) = n /\ \A i \in 1..n : w.path[i] = p[i]
     \/ /\ w.mnt \in DOMAIN tab /\ tab[w.mnt].by = "other"
        /\ tab[w.mnt].dir = OnRoot("newroot") =>
             /\ n >= 1 /\ p[1] = "newroot" /\ Len(w.path) = n - 1
             /\ \A i \in 1..(n-1) : w.path[i] = p[i+1]

\* The next name leads on, and not to a directory that /init mounts on.
LEMMA EnterOther ==
  ASSUME TreeInv, NEW S, NEW p \in Seq(S), ~ Reserved(p), NEW n \in Nat, n < Len(p), NEW w, Here(w, p, n, S),
         NEW e, e = Enter(w, p[n+1])
  PROVE  /\ Here(e, p, n+1, S) /\ OtherDir(e)
         /\ e = OnRoot("newroot") => n = 0 /\ p[1] = "newroot"
<1>0. Types /\ Root \notin DOMAIN tab /\ Len(p) \in Nat /\ n + 1 \in 1..Len(p)
  BY DEF TreeInv, Types
<1>1. PICK a \in S : a = p[n+1]
  BY <1>0
<1>2. e = Dir(w.mnt, Append(w.path, a)) /\ e.mnt = w.mnt /\ e.path = Append(w.path, a)
  BY <1>1 DEF Enter, Dir
<1>3. w.path \in Seq(S) /\ Len(w.path) \in Nat
  BY DEF Here
<1>4. /\ e.path \in Seq(S) /\ Len(e.path) = Len(w.path) + 1
      /\ \A i \in 1..Len(w.path) : e.path[i] = w.path[i]
      /\ e.path[Len(w.path) + 1] = a
  BY <1>2, <1>3, AppendProperties
<1>5. e = Dir(e.mnt, e.path) /\ e.path # <<>>
  <2>1. Len(<<>>) = 0
    OBVIOUS
  <2> QED
    BY <1>2, <1>3, <1>4, <2>1
<1>6. /\ p[1] \notin {"proc", "sys", "dev", "run", "tmp"}
      /\ p[1] = "newroot" => Len(p) # 1 /\ p[2] \notin HandNames
  BY DEF Reserved, HandNames
<1>7. CASE w.mnt = Root
  <2>1. Len(w.path) = n /\ \A i \in 1..n : w.path[i] = p[i]
    BY <1>0, <1>7 DEF Here
  <2>2. Len(e.path) = n + 1 /\ \A i \in 1..(n+1) : e.path[i] = p[i]
    BY <1>1, <1>4, <2>1
  <2>3. Here(e, p, n+1, S)
    BY <1>2, <1>4, <1>5, <1>7, <2>2 DEF Here
  <2>4. n = 0 /\ p[1] = "newroot" => e.path = <<"newroot">>
    <3> SUFFICES ASSUME n = 0, p[1] = "newroot" PROVE e.path = <<"newroot">>
      OBVIOUS
    <3>1. w.path = <<>>
      BY <1>3, <2>1, EmptySeq
    <3> QED
      BY <1>1, <1>2, <3>1
  <2>5. e.path[1] = p[1] /\ (n # 0 => e.path[2] = p[2])
    BY <2>2
  <2>6. Reserved(e.path) => e.path = <<"newroot">>
    <3> SUFFICES ASSUME Reserved(e.path) PROVE e.path = <<"newroot">>
      OBVIOUS
    <3>1. p[1] = "newroot" /\ (n = 0 \/ p[2] \in {"dev", "sys", "proc"})
      BY <1>6, <2>2, <2>5 DEF Reserved
    <3> QED
      BY <1>6, <2>4, <3>1 DEF HandNames
  <2>7. OtherDir(e)
    BY <1>0, <1>2, <1>5, <1>7, <2>6 DEF OtherDir, Below
  <2>8. e = OnRoot("newroot") => n = 0 /\ p[1] = "newroot"
    <3> SUFFICES ASSUME e = OnRoot("newroot") PROVE n = 0 /\ p[1] = "newroot"
      OBVIOUS
    <3>1. e.path = <<"newroot">>
      BY DEF OnRoot, Dir
    <3>2. Len(<<"newroot">>) = 1 /\ <<"newroot">>[1] = "newroot"
      OBVIOUS
    <3>3. Len(e.path) = 1 /\ e.path[1] = "newroot"
      BY <3>1, <3>2, Zenon
    <3> QED
      BY <2>2, <2>5, <3>3
  <2> QED
    BY <2>3, <2>7, <2>8
<1>8. CASE w.mnt # Root
  <2>1. /\ w.mnt \in DOMAIN tab /\ tab[w.mnt].by = "other"
        /\ tab[w.mnt].dir = OnRoot("newroot") =>
             /\ n >= 1 /\ p[1] = "newroot" /\ Len(w.path) = n - 1
             /\ \A i \in 1..(n-1) : w.path[i] = p[i+1]
    BY <1>8 DEF Here
  <2>2. ASSUME tab[w.mnt].dir = OnRoot("newroot")
        PROVE  /\ n >= 1 /\ p[1] = "newroot" /\ Len(e.path) = n
               /\ \A i \in 1..n : e.path[i] = p[i+1]
    <3>1. Len(e.path) = n /\ e.path[n] = p[n+1]
      BY <1>1, <1>4, <2>1, <2>2
    <3>2. \A i \in 1..(n-1) : e.path[i] = p[i+1]
      BY <1>4, <2>1, <2>2
    <3>3. \A i \in 1..n : i \in 1..(n-1) \/ i = n
      OBVIOUS
    <3> QED
      BY <2>1, <2>2, <3>1, <3>2, <3>3
  <2>3. Here(e, p, n+1, S)
    <3>1. /\ e.mnt \in DOMAIN tab /\ tab[e.mnt].by = "other"
          /\ tab[e.mnt].dir = OnRoot("newroot") =>
               /\ n + 1 >= 1 /\ p[1] = "newroot" /\ Len(e.path) = (n + 1) - 1
               /\ \A i \in 1..((n+1)-1) : e.path[i] = p[i+1]
      BY <1>2, <2>1, <2>2
    <3> QED
      BY <1>4, <1>5, <3>1 DEF Here
  <2>4. tab[w.mnt].dir = OnRoot("newroot") => e.path[1] \notin HandNames
    <3> SUFFICES ASSUME tab[w.mnt].dir = OnRoot("newroot") PROVE e.path[1] \notin HandNames
      OBVIOUS
    <3>1. e.path[1] = p[2] /\ p[1] = "newroot"
      BY <2>2
    <3> QED
      BY <1>6, <3>1
  <2>5. OtherDir(e)
    BY <1>2, <1>5, <1>8, <2>1, <2>4 DEF OtherDir, Below
  <2>6. e # OnRoot("newroot")
    BY <1>2, <1>8 DEF OnRoot, Dir
  <2> QED
    BY <2>3, <2>5, <2>6
<1> QED
  BY <1>7, <1>8

\* What is mounted there leads on, too.
LEMMA FollowOther ==
  ASSUME TreeInv, NEW S, NEW p \in Seq(S), ~ Reserved(p), NEW n \in Nat, n < Len(p), NEW w, Here(w, p, n, S)
  PROVE  Here(Follow(Enter(w, p[n+1])), p, n+1, S)
<1>1. PICK e : e = Enter(w, p[n+1])
  OBVIOUS
<1>2. /\ Here(e, p, n+1, S) /\ OtherDir(e)
      /\ e = OnRoot("newroot") => n = 0 /\ p[1] = "newroot"
  BY <1>1, EnterOther
<1>3. TopFacts /\ Types
  BY FollowTop DEF TreeInv
<1>4. CASE Free(e)
  BY <1>1, <1>2, <1>3, <1>4 DEF TopFacts
<1>5. CASE ~ Free(e)
  <2>1. PICK t \in DOMAIN tab : tab[t].dir = e /\ IsTop(t)
    BY <1>3, <1>5 DEF TopFacts
  <2>2. PICK v : v = Dir(t, <<>>)
    OBVIOUS
  <2>3. Follow(e) = v
    BY <1>3, <2>1, <2>2 DEF TopFacts
  <2>4. tab[t].by = "other"
    BY <1>2, <2>1, OthersOnly
  <2>5. v = Dir(v.mnt, v.path) /\ v.mnt = t /\ v.path = <<>>
    BY <2>2 DEF Dir
  <2>6. v.path \in Seq(S) /\ Len(v.path) = 0
    BY <2>5
  <2>7. tab[t].dir = OnRoot("newroot") => n = 0 /\ p[1] = "newroot"
    BY <1>2, <2>1
  <2>8. Here(v, p, n+1, S)
    <3>1. tab[v.mnt].dir = OnRoot("newroot") =>
             /\ n + 1 >= 1 /\ p[1] = "newroot" /\ Len(v.path) = (n + 1) - 1
             /\ \A i \in 1..((n+1)-1) : v.path[i] = p[i+1]
      BY <2>5, <2>6, <2>7
    <3> QED
      BY <2>1, <2>4, <2>5, <2>6, <3>1 DEF Here
  <2> QED
    BY <1>1, <2>3, <2>8
<1> QED
  BY <1>4, <1>5

\* The directory that an other mount is made on is not one that /init mounts on.
LEMMA OtherMountpoint ==
  ASSUME TreeInv, NEW S, NEW p \in Seq(S), p # <<>>, ~ Reserved(p), NEW d, d = Mountpoint(p)
  PROVE  OtherDir(d) /\ d # OnRoot("newroot") /\ d = Dir(d.mnt, d.path)
<1>1. Len(p) \in Nat /\ Len(p) > 0
  BY EmptySeq
<1>2. PICK q : q = Front(p)
  OBVIOUS
<1>3. PICK N \in Nat : N = Len(p) - 1
  BY <1>1
<1>4. q \in Seq(S) /\ Len(q) = N /\ \A i \in 1..N : q[i] = p[i]
  <2>1. q = SubSeq(p, 1, N)
    BY <1>2, <1>3 DEF Front
  <2>2. \A i \in 1..N : p[i] \in S
    BY <1>1, <1>3
  <2>3. 1 \in Int /\ N \in Int /\ N = N - 1 + 1
    OBVIOUS
  <2> QED
    BY <2>1, <2>2, <2>3, SubSeqProperties
<1>5. /\ Walk(q)[0] = Dir(Root, <<>>)
      /\ \A n \in 1..N : Walk(q)[n] = Follow(Enter(Walk(q)[n-1], q[n]))
  BY <1>4, WalkLoop
<1> DEFINE P == {n \in 0..N : Here(Walk(q)[n], p, n, S)}
<1>6. 0 \in P
  <2>1. PICK w : w = Walk(q)[0]
    OBVIOUS
  <2>2. w = Dir(w.mnt, w.path) /\ w.mnt = Root /\ w.path = <<>>
    BY <1>5, <2>1 DEF Dir
  <2>3. w.path \in Seq(S) /\ Len(w.path) = 0
    BY <2>2
  <2>4. Here(w, p, 0, S)
    BY <2>2, <2>3 DEF Here
  <2> QED
    BY <2>1, <2>4
<1>7. ASSUME NEW n \in 0..N, n + 1 \in 0..N, n \in P PROVE n + 1 \in P
  <2>1. PICK w : w = Walk(q)[n]
    OBVIOUS
  <2>2. Here(w, p, n, S) /\ n \in Nat /\ n < Len(p)
    BY <1>3, <1>7, <2>1
  <2>3. Here(Follow(Enter(w, p[n+1])), p, n+1, S)
    BY <2>2, FollowOther
  <2>4. n + 1 \in 1..N /\ (n + 1) - 1 = n
    BY <1>7
  <2>5. Walk(q)[n+1] = Follow(Enter(w, p[n+1]))
    BY <1>4, <1>5, <2>1, <2>4
  <2> QED
    BY <1>7, <2>3, <2>5
<1>8. N \in P
  <2> HIDE DEF P
  <2>1. \A n \in 0..N : n \in P
    BY <1>6, <1>7, UpTo
  <2> QED
    BY <2>1
<1>9. PICK w : w = Walk(q)[N]
  OBVIOUS
<1>10. Here(w, p, N, S) /\ N < Len(p)
  BY <1>3, <1>8, <1>9
<1>11. d = Enter(w, p[N+1])
  <2>1. Last(p) = p[N+1]
    <3>1. N + 1 = Len(p)
      BY <1>1, <1>3
    <3> QED
      BY <3>1 DEF Last
  <2> QED
    BY <1>2, <1>4, <1>9, <2>1 DEF Mountpoint, Lookup
<1>12. /\ Here(d, p, N+1, S) /\ OtherDir(d)
       /\ d = OnRoot("newroot") => N = 0 /\ p[1] = "newroot"
  BY <1>10, <1>11, EnterOther
<1>13. ~ (N = 0 /\ p[1] = "newroot")
  BY <1>1, <1>3 DEF Reserved
<1> QED
  BY <1>12, <1>13 DEF Here

\* A mount of the others', not on newroot.
LEMMA OtherElsewhere ==
  ASSUME TreeInv, NEW p \in Others, tab' = Mounted("other", "other", p)
  PROVE  \E d : TreeInv' /\ AddKept("other", d) /\ DOMAIN tab \subseteq DOMAIN tab'
<1>1. Types /\ Levels /\ Root \notin DOMAIN tab
  BY DEF TreeInv, Types
<1>2. PICK d : d = Mountpoint(p)
  OBVIOUS
<1>3. PICK S : S = STRING
  OBVIOUS
<1>4. p \in Seq(S) /\ p # <<>> /\ ~ Reserved(p)
  BY <1>3, MountsAssumption
<1>5. OtherDir(d) /\ d # OnRoot("newroot") /\ d = Dir(d.mnt, d.path)
  BY <1>2, <1>4, OtherMountpoint
<1>6. Types' /\ Levels' /\ \E new : Added(new, "other", d)
  BY <1>1, <1>2, <1>5, MountEffect
<1>7. PICK new : Added(new, "other", d)
  BY <1>6
<1>8. NewrootSame
  BY <1>5, <1>6, <1>7, AddedNewroot
<1>9. Placed(new)'
  <2>1. /\ tab'[new].by = "other" /\ tab'[new].dir = d /\ new \notin DOMAIN tab /\ new # Root
        /\ DOMAIN tab' = DOMAIN tab \cup {new}
        /\ \A m \in DOMAIN tab : tab'[m] = tab[m]
    BY <1>7 DEF Added
  <2>2. d.mnt \in DOMAIN tab' <=> d.mnt \in DOMAIN tab
    BY <1>1, <1>5, <2>1 DEF OtherDir
  <2>3. d.mnt \in DOMAIN tab => tab'[d.mnt] = tab[d.mnt]
    BY <2>1
  <2>4. ~ Below(d)'
    BY <1>5, <2>2, <2>3 DEF OtherDir, Below, OnRoot
  <2>5. d.mnt = Root \/ (d.mnt \in DOMAIN tab' /\ tab'[d.mnt].by = "other")
    BY <1>5, <2>2, <2>3 DEF OtherDir
  <2>6. OtherPlace(new)'
    BY <1>5, <2>1, <2>4, <2>5 DEF OtherPlace, OtherDir, Below, OnRoot
  <2> QED
    BY <2>1, <2>6 DEF Placed
<1>10. \A m \in DOMAIN tab : tab[m].dir = d => tab[m].by = "other"
  BY <1>5, OthersOnly
<1>11. TreeInv'
  BY <1>6, <1>7, <1>8, <1>9, <1>10, AddedTree
<1>12. AddKept("other", d)
  BY <1>7, <1>8, AddedAtoms
<1> QED
  BY <1>7, <1>11, <1>12 DEF Added

\* A mount of newroot, as long as nothing of /init's is mounted there.
LEMMA OtherOnNewroot ==
  ASSUME TreeInv, NoTemp, \A x \in HandNames : NewrootNone("base", x),
         tab' = Mounted("other", "other", <<"newroot">>)
  PROVE  /\ TreeInv' /\ NoTemp' /\ DOMAIN tab \subseteq DOMAIN tab'
         /\ \A x \in HandNames : NewrootNone("base", x)'
<1>1. Types /\ Levels /\ Places /\ Single /\ Apart /\ Owned /\ Root \notin DOMAIN tab
  BY OwnedByInit DEF TreeInv, Types
<1>2. PICK d : d = OnRoot("newroot")
  OBVIOUS
<1>3. Mountpoint(<<"newroot">>) = d
  BY <1>1, <1>2, Mountpoints
<1>4. d = Dir(d.mnt, d.path) /\ d.mnt = Root /\ d.path = <<"newroot">>
  BY <1>2 DEF OnRoot, Dir
<1>5. Types' /\ Levels' /\ \E new : Added(new, "other", d)
  BY <1>1, <1>3, <1>4, MountEffect
<1>6. PICK new : Added(new, "other", d)
  BY <1>5
<1>7. /\ tab'[new].by = "other" /\ tab'[new].dir = d /\ new \notin DOMAIN tab /\ new # Root
      /\ DOMAIN tab' = DOMAIN tab \cup {new} /\ IsTop(new)'
      /\ \A m \in DOMAIN tab : tab'[m] = tab[m]
  BY <1>6 DEF Added
<1>8. \A x : OnNR(x)' = Dir(new, <<x>>)
  <2>1. TopFacts'
    BY <1>5, FollowTopNext
  <2>2. Follow(d)' = Dir(new, <<>>)
    BY <1>7, <2>1 DEF TopFacts
  <2>3. NR' = Dir(new, <<>>)
    BY <1>2, <2>2 DEF NR, OnRoot
  <2>4. ASSUME NEW x PROVE OnNR(x)' = Dir(new, <<x>>)
    <3>1. OnNR(x)' = Enter(Dir(new, <<>>), x)
      BY <2>3 DEF OnNR, Enter
    <3> QED
      BY <3>1 DEF Enter, Dir
  <2> QED
    BY <2>4
<1>9. \A m \in DOMAIN tab' : tab'[m].dir.mnt # new
  BY <1>1, <1>4, <1>7 DEF Owned
<1>10. \A m \in DOMAIN tab' : \A x : tab'[m].dir # OnNR(x)'
  BY <1>8, <1>9 DEF Dir
<1>11. \A x \in HandNames : NewrootNone("base", x)'
  BY <1>10 DEF NewrootNone
<1>12. NoTemp'
  BY <1>7 DEF NoTemp
<1>13. ASSUME NEW m \in DOMAIN tab PROVE Placed(m)'
  <2>0. tab'[m] = tab[m] /\ Placed(m) /\ m \in DOMAIN tab'
    BY <1>1, <1>7, <1>13 DEF Places
  <2>1. tab[m].dir.mnt = Root \/ tab[m].dir.mnt \in DOMAIN tab
    BY <1>1, <1>13 DEF Owned
  <2>2. CASE tab[m].by = "base"
    <3>1. BasePlace(m) /\ ~ \E x \in HandNames : tab[m].dir = OnNR(x)
      BY <2>0, <2>2 DEF Placed, NewrootNone
    <3>2. Inside(m, "base", OnRoot("dev")) => Inside(m, "base", OnRoot("dev"))'
      BY <1>7, <2>0 DEF Inside, OnRoot
    <3>3. BasePlace(m)'
      BY <2>0, <3>1, <3>2 DEF BasePlace, OnRoot
    <3> QED
      BY <2>0, <2>2, <3>3 DEF Placed
  <2>3. CASE tab[m].by = "other"
    <3>0. PICK e : e = tab[m].dir
      OBVIOUS
    <3>1. /\ e.mnt = Root \/ (e.mnt \in DOMAIN tab /\ tab[e.mnt].by = "other")
          /\ e.path # <<>> /\ ~ Below(e)
      BY <2>0, <2>3, <3>0 DEF Placed, OtherPlace
    <3>2. e.mnt \in DOMAIN tab' <=> e.mnt \in DOMAIN tab
      BY <1>1, <1>7, <3>1
    <3>3. e.mnt \in DOMAIN tab => tab'[e.mnt] = tab[e.mnt]
      BY <1>7
    <3>4. ~ Below(e)'
      BY <3>1, <3>2, <3>3 DEF Below, OnRoot
    <3>5. OtherPlace(m)'
      BY <2>0, <3>0, <3>1, <3>2, <3>3, <3>4 DEF OtherPlace, Below, OnRoot
    <3> QED
      BY <2>0, <2>3, <3>5 DEF Placed
  <2> QED
    BY <2>0, <2>2, <2>3 DEF Placed, NoTemp
<1>14. Placed(new)'
  <2>1. ~ Below(d)'
    <3>1. Root \notin DOMAIN tab'
      BY <1>1, <1>7
    <3> QED
      BY <1>4, <3>1 DEF Below
  <2>2. d.path # <<>>
    <3>1. Len(<<"newroot">>) = 1 /\ Len(<<>>) = 0
      OBVIOUS
    <3> QED
      BY <1>4, <3>1
  <2>3. OtherPlace(new)'
    BY <1>4, <1>7, <2>1, <2>2 DEF OtherPlace, Below, OnRoot
  <2> QED
    BY <1>7, <2>3 DEF Placed
<1>15. Places'
  BY <1>7, <1>13, <1>14 DEF Places
<1>16. Single'
  <2> SUFFICES ASSUME NEW m \in DOMAIN tab', NEW n \in DOMAIN tab', tab'[m].by # "other",
                      tab'[n].dir = tab'[m].dir, n # m
               PROVE  FALSE
    BY DEF Single
  <2>1. m \in DOMAIN tab /\ tab'[m] = tab[m] /\ tab[m].by # "other"
    BY <1>7
  <2>2. tab[m].by = "base"
    BY <1>1, <2>1 DEF Places, Placed, NoTemp
  <2>3. n \in DOMAIN tab /\ tab'[n] = tab[n]
    BY <1>1, <1>2, <1>7, <2>1 DEF Owned
  <2>4. \E x \in HandNames : tab[m].dir = OnNR(x)
    BY <1>1, <2>1, <2>3 DEF Single
  <2> QED
    BY <2>1, <2>2, <2>4 DEF NewrootNone
<1> QED
  BY <1>5, <1>7, <1>11, <1>12, <1>15, <1>16 DEF TreeInv

\* OtherMount.
LEMMA InvOtherMount ==
  ASSUME MountsInv, OtherMount
  PROVE  MountsInv' /\ DOMAIN tab \subseteq DOMAIN tab'
<1>0. /\ pc \in {"work", "late"} /\ pc' = pc /\ todo' = todo /\ UNCHANGED <<refused, binds, switches>>
      /\ TreeInv /\ Counters /\ BindProgress
  BY DEF OtherMount, MountsInv
<1>1. Counters' /\ Left' = Left
  BY <1>0 DEF Counters, Left
<1>2. BaseProgress'
  BY <1>0 DEF BaseProgress
<1>3. \A x \in HandNames : NewrootNone("base", x)
  BY <1>0, NoneHanded
<1>4. ASSUME NEW p \in Others, tab' = Mounted("other", "other", p)
      PROVE  MountsInv' /\ DOMAIN tab \subseteq DOMAIN tab'
  <2>1. PICK d : TreeInv' /\ AddKept("other", d) /\ DOMAIN tab \subseteq DOMAIN tab'
    BY <1>0, <1>4, OtherElsewhere
  <2>2. BindProgress'
    BY <1>0, <2>1 DEF BindProgress, AddKept
  <2>3. \A x \in HandNames : NewrootNone("base", x)'
    BY <1>3, <2>1 DEF AddKept
  <2> QED
    BY <1>0, <1>1, <1>2, <2>1, <2>2, <2>3, AddStep
<1>5. ASSUME pc = "work", tab' = Mounted("other", "other", Newroot(<<>>))
      PROVE  MountsInv' /\ DOMAIN tab \subseteq DOMAIN tab'
  <2>1. NoTemp
    BY <1>0, <1>5 DEF BindProgress
  <2>2. /\ TreeInv' /\ NoTemp' /\ DOMAIN tab \subseteq DOMAIN tab'
        /\ \A x \in HandNames : NewrootNone("base", x)'
    BY <1>0, <1>3, <1>5, <2>1, NewrootPaths, OtherOnNewroot
  <2>3. BindProgress'
    BY <1>0, <1>5, <2>2 DEF BindProgress, NoTemp, TempOnce
  <2> QED
    BY <1>0, <1>1, <1>2, <2>2, <2>3, AddStep
<1> QED
  BY <1>0, <1>4, <1>5 DEF OtherMount

-------------------------------------------------------------------------------
(* The theorems.                                                              *)

\* The invariant holds when main_init starts: nothing is mounted.
LEMMA InvInit ==
  ASSUME Init
  PROVE  MountsInv
<1>1. DOMAIN tab = {} /\ pc = "base" /\ todo = BaseMounts /\ refused = {} /\ binds = 0 /\ switches = 0
  BY DEF Init
<1>2. Types
  <2>1. tab = [m \in DOMAIN tab |-> tab[m]]
    BY DEF Init
  <2>2. IsFiniteSet(DOMAIN tab)
    BY <1>1, FS_EmptySet
  <2> QED
    BY <1>1, <2>1, <2>2 DEF Types
<1>3. TreeInv
  BY <1>1, <1>2 DEF TreeInv, Levels, Places, Single
<1>4. Left = 8 /\ IsRest(todo, ListOf(pc))
  <2>1. ListOf("base") = BaseMounts
    BY DEF ListOf
  <2> QED
    BY <1>1, <2>1, WholeLists DEF Left
<1>5. Counters
  BY <1>1, <1>4 DEF Counters
<1>6. BaseProgress
  BY <1>1, <1>4 DEF BaseProgress, AllBase, RootFree, Free, NoneIn
<1>7. BindProgress
  BY <1>1 DEF BindProgress, NoTemp, TempOnce
<1>8. \A n : ~ Passed(n) /\ ~ Ejected(n)
  BY <1>1 DEF Passed, Ejected
<1>9. TempProgress /\ LeafProgress /\ SwitchProgress
  BY <1>1, <1>8 DEF TempProgress, LeafProgress, SwitchProgress
<1>10. HandProgress
  BY <1>1 DEF HandProgress, Hand, NewrootNone
<1> QED
  BY <1>3, <1>5, <1>6, <1>7, <1>9, <1>10 DEF MountsInv

\* Every step keeps the invariant and takes away one mount at most.
LEMMA InvNext ==
  ASSUME MountsInv, [Next]_vars
  PROVE  MountsInv' /\ OneGone
<1>0. DOMAIN tab \subseteq DOMAIN tab' => OneGone
  BY DEF OneGone
<1>1. CASE BaseMount
  BY <1>0, <1>1, InvBaseMount
<1>2. CASE BaseMountFails
  BY <1>0, <1>2, InvBaseMountFails DEF BaseMountFails
<1>3. CASE BaseMountsDone
  BY <1>0, <1>3, InvBaseMountsDone DEF BaseMountsDone
<1>4. CASE OtherMount
  BY <1>0, <1>4, InvOtherMount
<1>5. CASE GiveUp
  BY <1>0, <1>5, InvGiveUp DEF GiveUp
<1>6. CASE CallNewrootBasemounts
  BY <1>0, <1>6, InvCallNewrootBasemounts DEF CallNewrootBasemounts
<1>7. CASE NewrootMount
  BY <1>0, <1>7, InvNewrootMount
<1>8. CASE NewrootMountFails
  BY <1>0, <1>8, InvNewrootMountFails DEF NewrootMountFails
<1>9. CASE BindLatch
  BY <1>0, <1>9, InvBindLatch DEF BindLatch
<1>10. CASE CallEjectAux
  BY <1>0, <1>10, InvCallEjectAux DEF CallEjectAux
<1>11. CASE CallSwitchRoot
  BY <1>0, <1>11, InvCallSwitchRoot DEF CallSwitchRoot
<1>12. CASE Exec
  BY <1>0, <1>12, InvExec DEF Exec
<1>13. CASE SwitchLatch
  BY <1>0, <1>13, InvSwitchLatch DEF SwitchLatch
<1>14. CASE CallsDone
  BY <1>0, <1>14, InvCallsDone DEF CallsDone
<1>15. CASE DoUmount
  BY <1>15, InvDoUmount
<1>16. CASE MoveOrUmount
  BY <1>16, InvMoveOrUmount
<1>17. CASE DoUmountRecursive
  BY <1>0, <1>17, InvDoUmountRecursive DEF DoUmountRecursive
<1>18. CASE UNCHANGED vars
  <2>1. UNCHANGED <<pc, todo, tab, refused, binds, switches>>
    BY <1>18 DEF vars
  <2>2. TreeInv' /\ AtomsSame
    BY <2>1, SameAtoms DEF MountsInv
  <2>3. Left' = Left /\ Counters'
    BY <2>1 DEF MountsInv, Counters, Left
  <2>4. \A n : (Passed(n)' <=> Passed(n)) /\ (Ejected(n)' <=> Ejected(n))
    BY <2>1, <2>3 DEF Passed, Ejected
  <2>5. BaseProgress' /\ BindProgress'
    BY <2>1, <2>2, <2>3 DEF MountsInv, BaseProgress, BindProgress, AtomsSame
  <2>6. TempProgress' /\ LeafProgress' /\ SwitchProgress'
    BY <2>1, <2>2, <2>3, <2>4 DEF MountsInv, TempProgress, LeafProgress, SwitchProgress, AtomsSame
  <2>7. HandProgress'
    BY <2>1, <2>2, <2>4 DEF MountsInv, HandProgress, Hand, AtomsSame
  <2> QED
    BY <1>0, <2>1, <2>2, <2>3, <2>5, <2>6, <2>7 DEF MountsInv
<1> QED
  BY <1>1, <1>2, <1>3, <1>4, <1>5, <1>6, <1>7, <1>8, <1>9, <1>10, <1>11, <1>12, <1>13,
     <1>14, <1>15, <1>16, <1>17, <1>18 DEF Next

\* Who mounts where in the tree, and how far the lists of calls have come: what
\* initramfs_newroot_basemounts, initramfs_preswitch_umount and initramfs_eject_mounts
\* rely on, whatever other mounts there are and however often a step is tried again.
THEOREM MountsInvariant == Spec => []MountsInv
<1>1. Init => MountsInv
  BY InvInit
<1>2. MountsInv /\ [Next]_vars => MountsInv'
  BY InvNext
<1> QED
  BY <1>1, <1>2, PTL DEF Spec

\* When switch_root is executed, no base mount is left in the initramfs' own
\* directories; and when /init ends, no temporary mount is left in newroot.
LEMMA LeftBehind ==
  ASSUME MountsInv
  PROVE  NothingLeftBehind
<1>1. /\ Types /\ Levels /\ Places /\ Apart /\ Root \notin DOMAIN tab
      /\ binds \in Nat /\ switches \in Nat /\ (pc = "switched" => switches # 0)
      /\ SwitchProgress /\ TempProgress
  BY OwnedByInit DEF MountsInv, TreeInv, Types, Counters
<1>2. \A n : pc = "switched" => Passed(n)
  BY <1>1 DEF Passed
<1>3. InitramfsEmptied
  <2> SUFFICES ASSUME pc = "switched", NEW m \in DOMAIN tab, tab[m].by = "base", tab[m].dir.mnt = Root
               PROVE  Head(tab[m].dir.path) = "newroot"
    BY DEF InitramfsEmptied, MountsBy
  <2>1. /\ RootFree("run") /\ RootFree("tmp") /\ RootFree("dev") /\ RootFree("sys") /\ RootFree("proc")
        /\ NoneIn("base", "shm") /\ NoneIn("base", "pts")
    BY <1>1, <1>2 DEF SwitchProgress
  <2>2. BasePlace(m)
    BY <1>1 DEF Places, Placed
  <2>3. PICK x \in HandNames : tab[m].dir = OnNR(x)
    <3>1. ~ \E x \in BaseNames : tab[m].dir = OnRoot(x)
      BY <2>1 DEF BaseNames, RootFree, Free
    <3>2. ~ Inside(m, "base", OnRoot("dev"))
      BY <2>1 DEF Inside, SubNames, NoneIn
    <3> QED
      BY <2>2, <3>1, <3>2 DEF BasePlace
  <2>4. OnNR(x) = Dir(Root, <<"newroot", x>>)
    <3>1. \A M \in DOMAIN tab : OnNR(x) # Dir(M, <<x>>)
      BY <1>1, <2>3 DEF Dir
    <3> QED
      BY <1>1, <3>1, NewrootIs
  <2>5. tab[m].dir.path = <<"newroot", x>> /\ Head(<<"newroot", x>>) = "newroot"
    BY <2>3, <2>4 DEF Dir
  <2> QED
    BY <2>5
<1>4. TemporaryGone
  <2> SUFFICES ASSUME pc \in {"switched", "panic"}, binds <= 1, NEW m \in DOMAIN tab, tab[m].by = "temp"
               PROVE  FALSE
    BY DEF TemporaryGone, MountsBy
  <2>1. \A n : Ejected(n)
    BY <1>2 DEF Ejected
  <2>2. /\ NoneIn("temp", "shm") /\ NoneIn("temp", "pts") /\ NewrootNone("temp", "dev")
        /\ NewrootNone("temp", "sys") /\ NewrootNone("temp", "proc")
    BY <1>1, <2>1 DEF TempProgress
  <2>3. TempPlace(m)
    BY <1>1 DEF Places, Placed
  <2> QED
    BY <2>2, <2>3 DEF TempPlace, Inside, SubNames, HandNames, NoneIn, NewrootNone
<1> QED
  BY <1>3, <1>4 DEF NothingLeftBehind

\* Neither the initramfs' own mounts nor the temporary ones in newroot are left behind
\* by initramfs_preswitch_umount or initramfs_eject_mounts.
THEOREM NothingLeft == Spec => []NothingLeftBehind
<1>1. MountsInv => NothingLeftBehind
  BY LeftBehind
<1> QED
  BY <1>1, MountsInvariant, PTL

\* After the first switch the base mounts are those visible on newroot's /dev, /sys
\* and /proc, but for what _do_move_or_umount could not move.
LEMMA Handing ==
  ASSUME MountsInv
  PROVE  HandedOver
<1> SUFFICES ASSUME pc = "switched", switches = 1
             PROVE  MountsBy("base") = {Lookup(Newroot(p)).mnt : p \in {Dev, Sys, Proc} \ refused}
  BY DEF HandedOver
<1>1. Types /\ Levels /\ Places /\ Apart /\ TopFacts /\ SwitchProgress /\ HandProgress
  BY OwnedByInit, FollowTop DEF MountsInv, TreeInv
<1>2. \A n : Passed(n)
  BY DEF Passed
<1>3. ASSUME NEW x \in HandNames
      PROVE  /\ <<x>> \in refused => NewrootNone("base", x)
             /\ <<x>> \notin refused => ~ NewrootNone("base", x)
             /\ BaseTop(x)
  BY <1>1, <1>2 DEF HandProgress, Hand, HandNames
<1>4. ASSUME NEW x \in HandNames, NEW m \in DOMAIN tab, tab[m].by = "base", tab[m].dir = OnNR(x)
      PROVE  Lookup(<<"newroot", x>>).mnt = m /\ <<x>> \notin refused
  <2>1. IsTop(m)
    BY <1>3, <1>4 DEF BaseTop
  <2>2. Follow(OnNR(x)) = Dir(m, <<>>)
    BY <1>1, <1>4, <2>1 DEF TopFacts
  <2>3. Lookup(<<"newroot", x>>) = Follow(OnNR(x))
    BY <1>1, Mountpoints
  <2>4. <<x>> \notin refused
    BY <1>3, <1>4 DEF NewrootNone
  <2> QED
    BY <2>2, <2>3, <2>4 DEF Dir
<1>5. ASSUME NEW x \in HandNames
      PROVE  <<x>> \in {Dev, Sys, Proc} /\ Newroot(<<x>>) = <<"newroot", x>>
  BY <1>5, NewrootPaths DEF HandNames, Dev, Sys, Proc
<1>6. \A p \in {Dev, Sys, Proc} : \E x \in HandNames : p = <<x>>
  BY DEF HandNames, Dev, Sys, Proc
<1>7. ASSUME NEW m \in MountsBy("base") PROVE \E p \in {Dev, Sys, Proc} \ refused : m = Lookup(Newroot(p)).mnt
  <2>1. m \in DOMAIN tab /\ tab[m].by = "base"
    BY <1>7 DEF MountsBy
  <2>2. /\ RootFree("run") /\ RootFree("tmp") /\ RootFree("dev") /\ RootFree("sys") /\ RootFree("proc")
        /\ NoneIn("base", "shm") /\ NoneIn("base", "pts")
    BY <1>1, <1>2 DEF SwitchProgress
  <2>3. BasePlace(m)
    BY <1>1, <2>1 DEF Places, Placed
  <2>4. PICK x \in HandNames : tab[m].dir = OnNR(x)
    <3>1. ~ \E x \in BaseNames : tab[m].dir = OnRoot(x)
      BY <2>1, <2>2 DEF BaseNames, RootFree, Free
    <3>2. ~ Inside(m, "base", OnRoot("dev"))
      BY <2>1, <2>2 DEF Inside, SubNames, NoneIn
    <3> QED
      BY <2>3, <3>1, <3>2 DEF BasePlace
  <2>5. Lookup(<<"newroot", x>>).mnt = m /\ <<x>> \notin refused
    BY <1>4, <2>1, <2>4
  <2> QED
    BY <1>5, <2>5
<1>8. ASSUME NEW p \in {Dev, Sys, Proc} \ refused PROVE Lookup(Newroot(p)).mnt \in MountsBy("base")
  <2>1. PICK x \in HandNames : p = <<x>>
    BY <1>6, <1>8
  <2>2. ~ NewrootNone("base", x)
    BY <1>3, <1>8, <2>1
  <2>3. PICK m \in DOMAIN tab : tab[m].by = "base" /\ tab[m].dir = OnNR(x)
    BY <2>2 DEF NewrootNone
  <2>4. Lookup(<<"newroot", x>>).mnt = m
    BY <1>4, <2>3
  <2> QED
    BY <1>5, <2>1, <2>3, <2>4 DEF MountsBy
<1> QED
  BY <1>7, <1>8

\* What the first switch hands over: the very mounts of the initramfs, on top of all
\* else mounted there, and no other.
THEOREM HandOver == Spec => []HandedOver
<1>1. MountsInv => HandedOver
  BY Handing
<1> QED
  BY <1>1, MountsInvariant, PTL

\* No call of do_umount or _do_move_or_umount takes away a mount with others in it.
THEOREM LeavesAreFirst == Spec => LeavesFirst
<1>1. ASSUME MountsInv, [Next]_vars PROVE Cardinality(DOMAIN tab \ DOMAIN tab') <= 1
  <2>1. PICK t : DOMAIN tab \ DOMAIN tab' \subseteq {t}
    BY <1>1, InvNext DEF OneGone
  <2>2. IsFiniteSet({t}) /\ Cardinality({t}) = 1
    BY FS_Singleton
  <2> QED
    BY <2>1, <2>2, FS_Subset
<1>2. MountsInv /\ [Next]_vars => [Cardinality(DOMAIN tab \ DOMAIN tab') <= 1]_vars
  BY <1>1
<1> QED
  BY <1>2, MountsInvariant, PTL DEF Spec, LeavesFirst

===============================================================================
