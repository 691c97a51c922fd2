---------------------------- MODULE Premount_proofs ----------------------------
(***************************************************************************)
(* Proofs about Premount: nothing is mounted over itself, a stage that      *)
(* returns 0 has mounted its entries, and the tmpdirs of the users are on   *)
(* newroot's /tmp.                                                         *)
(***************************************************************************)
EXTENDS Premount, SequenceTheorems, WellFoundedInduction, TLAPS

-------------------------------------------------------------------------------
(* The invariants.                                                            *)

\* All the names in the paths of a world.
AllFiles == UNION {{w.base, w.subtree} \cup ToSet(w.fstab) : w \in Worlds}
AllEntries == UNION {ToSet(f.entries) : f \in AllFiles}
Components == {"tmp"} \cup UNION {ToSet(e.dir) : e \in AllEntries}
Paths == Seq(Components)

FileStages == {"base", "subtree", "fstab"}

\* Where main_init is: an entry is looked at in a file that there is, in a stage
\* that reads files; the shells and the latch come after a failure in one.
Where ==
  /\ world \in Worlds
  /\ stage \in {"base", "subtree", "fstab", "tmpdir", "users", "done", "gaveup"}
  /\ pc \in {"open", "entry", "eof", "shell", "latch"}
  /\ file \in Nat \ {0} /\ i \in Nat \ {0} /\ havetmp \in BOOLEAN
  /\ pc \in {"entry", "eof"} =>
       /\ stage \in FileStages /\ file <= Len(Files) /\ File.mode # "none"
       /\ i <= Len(File.entries) + 1
  /\ pc \in {"shell", "latch"} /\ stage # "tmpdir" =>
       stage \in FileStages /\ file <= Len(Files)
  /\ pc = "shell" => stage \in {"base", "subtree"}

\* Who mounts, and on what: newroot's root is always there; what is made by hand
\* or for want of a /tmp has a device number of its own, and so has everything
\* that is not on a device that was there before.
Tree ==
  /\ \E S : mounts \in Seq(S)
  /\ mounts # << >> /\ mounts[1].mp = << >>
  /\ \A n \in DOMAIN mounts :
       /\ mounts[n].mp \in Paths
       /\ mounts[n].by \in {"init", "filter", "nofilter", "hand", "tmpdir"}
       /\ \/ mounts[n].dev = << "new", n - 1 >>
          \/ mounts[n].by \notin {"hand", "tmpdir"} /\ \E s : mounts[n].dev = << "dev", s >>
  /\ \A n \in DOMAIN mounts : mounts[n].by = "init" => n = 1

\* A filtered file that mounts /tmp with success is noticed, and no other.
TmpIsNoticed ==
  /\ havetmp => stage \notin {"base", "subtree"}
  /\ \A n \in DOMAIN mounts : mounts[n].mp = Tmp /\ mounts[n].by = "filter" =>
       havetmp \/ mounts[n].dev = Initramfs

TreeInv == Where /\ Tree /\ TmpIsNoticed /\ NotMountedTwice

\* The mount points that are mounted on.
Taken(dir) == \E n \in DOMAIN mounts : mounts[n].mp = dir

\* The entries before the current one that have to be mounted are, unless
\* retcode tells otherwise.
EntriesDone(f, n) == \A m \in 1..n : Demanded(f.mode, f.entries[m]) => Taken(f.entries[m].dir)

DoneSoFar ==
  /\ pc \in {"open", "entry", "eof"} =>
       \A n \in 1..(file - 1) : n <= Len(Files) /\ Files[n].mode # "none" =>
         EntriesDone(Files[n], Len(Files[n].entries))
  /\ pc \in {"entry", "eof"} /\ ret = 0 => EntriesDone(File, i - 1)
  /\ pc = "eof" /\ ret = 0 => i = Len(File.entries) + 1

\* /tmp, once it is taken for mounted, is, and stays so.
TmpMounted ==
  \/ \E n \in DOMAIN mounts :
       mounts[n].mp = Tmp /\ \A m \in DOMAIN mounts : m > n => mounts[m].mp # << >>
  \/ \E f \in ToSet(world.fstab) : \E e \in ToSet(f.entries) :
       (e.dir = Tmp /\ IsZramEntry(e)) \/ e.dir = << >>

TmpInv ==
  /\ havetmp => TmpMounted
  /\ userdirs # NoDirs => havetmp

-------------------------------------------------------------------------------
(* Numbers and sequences.                                                     *)

\* A set of natural numbers that is not empty has a least element.
LEMMA Least ==
  ASSUME NEW S \in SUBSET Nat, S # {}
  PROVE  \E n \in S : \A m \in S : n <= m
<1> DEFINE R == OpToRel(<, Nat)
<1>1. IsWellFoundedOn(R, Nat)
  BY NatLessThanWellFounded
<1>2. PICK x \in S : \A y \in S : ~ (<< y, x >> \in R)
  <2> HIDE DEF R
  <2> QED
    BY <1>1, WFMin
<1>3. \A y \in S : << y, x >> \in R <=> y < x
  BY DEF OpToRel
<1>4. \A y \in S : y \in Nat /\ x \in Nat /\ ~(y < x)
  <2> HIDE DEF R
  <2> QED
    BY <1>2, <1>3
<1> QED
  BY <1>4

\* A set of indices that is not empty has a greatest element.
LEMMA Greatest ==
  ASSUME NEW N \in Nat, NEW S \in SUBSET (1..N), S # {}
  PROVE  \E n \in S : \A m \in S : m <= n
<1>1. {N - m : m \in S} \in SUBSET Nat
  OBVIOUS
<1>2. {N - m : m \in S} # {}
  OBVIOUS
<1>3. PICK x \in {N - m : m \in S} : \A y \in {N - m : m \in S} : x <= y
  BY <1>1, <1>2, Least
<1> QED
  BY <1>3

\* A sequence with one element more.
LEMMA Appended ==
  ASSUME NEW S, NEW s \in Seq(S), NEW r
  PROVE  /\ Append(s, r) \in Seq(S \cup {r})
         /\ Len(s) \in Nat /\ Len(Append(s, r)) = Len(s) + 1
         /\ DOMAIN s = 1..Len(s) /\ DOMAIN Append(s, r) = 1..(Len(s) + 1)
         /\ Append(s, r)[Len(s) + 1] = r
         /\ \A n \in 1..Len(s) : Append(s, r)[n] = s[n]
<1>1. s \in Seq(S \cup {r}) /\ r \in S \cup {r}
  BY SeqMonotonic
<1> QED
  BY <1>1

\* The first elements of a sequence.
LEMMA FirstElements ==
  ASSUME NEW S, NEW s \in Seq(S), NEW n \in 0..Len(s)
  PROVE  /\ SubSeq(s, 1, n) \in Seq(S) /\ Len(SubSeq(s, 1, n)) = n
         /\ \A m \in 1..n : SubSeq(s, 1, n)[m] = s[m]
<1>1. n \in Nat /\ \A m \in 1..n : s[m] \in S
  BY LenProperties
<1>2. /\ SubSeq(s, 1, n) \in Seq(S)
      /\ Len(SubSeq(s, 1, n)) = (IF 1 <= n THEN n - 1 + 1 ELSE 0)
      /\ \A m \in 1..(n - 1 + 1) : SubSeq(s, 1, n)[m] = s[1 + m - 1]
  BY <1>1, SubSeqProperties
<1>3. \A m \in 1..n : 1 + m - 1 = m /\ m \in 1..(n - 1 + 1)
  BY <1>1
<1>4. Len(SubSeq(s, 1, n)) = n
  BY <1>1, <1>2
<1> QED
  BY <1>2, <1>3, <1>4

\* A prefix has the elements of the whole.
LEMMA PrefixElements ==
  ASSUME NEW A, NEW s \in Seq(A), NEW t \in Seq(A)
  PROVE  IsPrefix(s, t) <=> Len(s) <= Len(t) /\ \A n \in 1..Len(s) : s[n] = t[n]
BY DEF IsPrefix

\* The prefixes of the parent are the strict prefixes of a path.
LEMMA PrefixOfParent ==
  ASSUME NEW A, NEW s \in Seq(A), NEW t \in Seq(A), t # << >>
  PROVE  /\ Front(t) \in Seq(A)
         /\ IsPrefix(s, Front(t)) <=> IsStrictPrefix(s, t)
<1>1. Len(t) \in Nat \ {0} /\ Len(t) - 1 \in 0..Len(t)
  OBVIOUS
<1>2. /\ Front(t) \in Seq(A) /\ Len(Front(t)) = Len(t) - 1
      /\ \A n \in 1..(Len(t) - 1) : Front(t)[n] = t[n]
  BY <1>1, FirstElements DEF Front
<1>3. s = t <=> Len(s) = Len(t) /\ \A n \in 1..Len(s) : s[n] = t[n]
  OBVIOUS
<1>4. IsPrefix(s, Front(t)) <=>
        Len(s) <= Len(t) - 1 /\ \A n \in 1..Len(s) : s[n] = Front(t)[n]
  BY <1>2, PrefixElements
<1>5. IsPrefix(s, t) <=> Len(s) <= Len(t) /\ \A n \in 1..Len(s) : s[n] = t[n]
  BY PrefixElements
<1> QED
  BY <1>1, <1>2, <1>3, <1>4, <1>5 DEF IsStrictPrefix

-------------------------------------------------------------------------------
(* The mount tree.                                                            *)

\* A tree of mounts with a root.
IsTree(ms) ==
  /\ \E S : ms \in Seq(S)
  /\ ms # << >> /\ ms[1].mp = << >>
  /\ \A n \in DOMAIN ms : ms[n].mp \in Paths

\* The mount that a path is on.
IsTop(ms, path, n) ==
  /\ n \in DOMAIN ms /\ IsPrefix(ms[n].mp, path)
  /\ \A m \in DOMAIN ms : IsPrefix(ms[m].mp, path) => m <= n

\* st_dev is the device of the mount that the path is on.
LEMMA DevOfTop ==
  ASSUME NEW ms, NEW path, NEW n, IsTree(ms), IsTop(ms, path, n)
  PROVE  DevOf(ms, path) = ms[n].dev
<1> DEFINE over == {m \in DOMAIN ms : IsPrefix(ms[m].mp, path)}
<1>1. DOMAIN ms \subseteq Int
  BY DEF IsTree
<1>2. n \in over /\ \A m \in over : m <= n
  BY DEF IsTop
<1>3. \A k \in over : (\A m \in over : m <= k) => k = n
  BY <1>1, <1>2
<1>4. (CHOOSE k \in over : \A m \in over : m <= k) = n
  <2> HIDE DEF over
  <2> QED
    BY <1>2, <1>3
<1> QED
  BY <1>4 DEF DevOf

\* The root is above every path.
LEMMA RootIsAbove ==
  ASSUME NEW path \in Paths
  PROVE  IsPrefix(<< >>, path)
<1>1. << >> \in Paths /\ Len(<< >>) = 0
  BY DEF Paths
<1>2. Len(path) \in Nat
  BY DEF Paths
<1>3. ASSUME NEW s \in Paths, Len(s) = 0 PROVE IsPrefix(s, path)
  <2>1. 0 <= Len(path) /\ \A n \in 1..0 : s[n] = path[n]
    BY <1>2
  <2> QED
    BY <1>3, <2>1, PrefixElements, Zenon DEF Paths
<1> QED
  BY <1>1, <1>3

\* Every path is on a mount.
LEMMA TopExists ==
  ASSUME NEW ms, NEW path \in Paths, IsTree(ms)
  PROVE  \E n \in DOMAIN ms : IsTop(ms, path, n)
<1> DEFINE over == {m \in DOMAIN ms : IsPrefix(ms[m].mp, path)}
<1>1. PICK S : ms \in Seq(S)
  BY DEF IsTree
<1>2. Len(ms) \in Nat \ {0} /\ DOMAIN ms = 1..Len(ms)
  BY <1>1 DEF IsTree
<1>3. IsPrefix(<< >>, path)
  BY RootIsAbove
<1>4. 1 \in over /\ over \in SUBSET (1..Len(ms))
  BY <1>2, <1>3 DEF IsTree
<1>5. PICK n \in over : \A m \in over : m <= n
  <2>1. over # {} /\ Len(ms) \in Nat
    BY <1>2, <1>4
  <2> HIDE DEF over
  <2> QED
    BY <1>4, <2>1, Greatest, Zenon
<1> QED
  BY <1>5 DEF IsTop

\* is_mounted says 0 only for a path that something is mounted on, and nothing
\* above it later.
LEMMA MountedIsTop ==
  ASSUME NEW ms, NEW path \in Paths, IsTree(ms), path # << >>,
         DevOf(ms, path) # DevOf(ms, Front(path))
  PROVE  \E n \in DOMAIN ms : IsTop(ms, path, n) /\ ms[n].mp = path
<1>1. PICK n \in DOMAIN ms : IsTop(ms, path, n)
  BY TopExists
<1>2. Front(path) \in Paths
  BY PrefixOfParent DEF Paths
<1>3. PICK t \in DOMAIN ms : IsTop(ms, Front(path), t)
  BY <1>2, TopExists
<1>4. \A m \in DOMAIN ms : IsPrefix(ms[m].mp, Front(path)) <=> IsStrictPrefix(ms[m].mp, path)
  BY PrefixOfParent DEF Paths, IsTree
<1>5. DOMAIN ms \subseteq Int
  BY DEF IsTree
<1>6. CASE ms[n].mp # path
  <2>1. IsPrefix(ms[n].mp, Front(path))
    BY <1>1, <1>4, <1>6 DEF IsTop, IsStrictPrefix
  <2>2. n <= t
    BY <1>3, <2>1 DEF IsTop
  <2>3. t <= n
    BY <1>1, <1>3, <1>4 DEF IsTop, IsStrictPrefix
  <2>4. n = t
    BY <1>5, <2>2, <2>3
  <2> QED
    BY <1>1, <1>3, <2>4, DevOfTop
<1> QED
  BY <1>1, <1>6

\* What is mounted somewhere, with nothing mounted above it since: the path is on
\* it, or on what was mounted on it, and its parent is where it was then.
LEMMA ParentIsBelow ==
  ASSUME NEW ms, IsTree(ms), NEW n \in DOMAIN ms, ms[n].mp # << >>,
         \A m \in DOMAIN ms : m > n => ~IsStrictPrefix(ms[m].mp, ms[n].mp)
  PROVE  \E k, t \in DOMAIN ms :
           /\ k >= n /\ ms[k].mp = ms[n].mp /\ DevOf(ms, ms[n].mp) = ms[k].dev
           /\ t < n /\ DevOf(ms, Front(ms[n].mp)) = ms[t].dev
           /\ DevOf(SubSeq(ms, 1, n - 1), Front(ms[n].mp)) = ms[t].dev
<1> DEFINE p == ms[n].mp
           lower == SubSeq(ms, 1, n - 1)
<1>0. PICK S : ms \in Seq(S)
  BY DEF IsTree
<1>1. p \in Paths /\ Front(p) \in Paths
  BY PrefixOfParent DEF Paths, IsTree
<1>2. PICK k \in DOMAIN ms : IsTop(ms, p, k)
  BY <1>1, TopExists
<1>3. PICK t \in DOMAIN ms : IsTop(ms, Front(p), t)
  BY <1>1, TopExists
<1>4. \A m \in DOMAIN ms : IsPrefix(ms[m].mp, Front(p)) <=> IsStrictPrefix(ms[m].mp, p)
  BY <1>1, PrefixOfParent DEF Paths, IsTree
<1>5. Len(ms) \in Nat /\ DOMAIN ms = 1..Len(ms)
  BY <1>0
<1>6. IsPrefix(p, p)
  BY DEF IsPrefix
<1>7. k >= n /\ ms[k].mp = p
  <2>1. k >= n
    BY <1>2, <1>5, <1>6 DEF IsTop
  <2> QED
    BY <1>2, <1>5, <2>1 DEF IsTop, IsStrictPrefix
<1>8. t < n
  BY <1>3, <1>4, <1>5 DEF IsTop, IsStrictPrefix
<1>9. n - 1 \in 0..Len(ms) /\ n - 1 >= 1
  BY <1>5, <1>8
<1>10. /\ lower \in Seq(S) /\ Len(lower) = n - 1
       /\ \A m \in 1..(n - 1) : lower[m] = ms[m]
  BY <1>0, <1>9, FirstElements
<1>11. IsTree(lower)
  <2>1. DOMAIN lower = 1..(n - 1) /\ lower # << >>
    BY <1>9, <1>10
  <2>2. lower[1] = ms[1]
    BY <1>9, <1>10
  <2> HIDE DEF lower
  <2> QED
    BY <1>5, <1>9, <1>10, <2>1, <2>2 DEF IsTree
<1>12. IsTop(lower, Front(p), t)
  <2>1. DOMAIN lower = 1..(n - 1)
    BY <1>9, <1>10
  <2> HIDE DEF lower
  <2> QED
    BY <1>3, <1>5, <1>8, <1>9, <1>10, <2>1 DEF IsTop
<1>13. DevOf(lower, Front(p)) = ms[t].dev
  <2>1. lower[t] = ms[t]
    BY <1>5, <1>8, <1>10
  <2> HIDE DEF lower, p
  <2> QED
    BY <1>11, <1>12, <2>1, DevOfTop
<1> QED
  BY <1>2, <1>3, <1>7, <1>8, <1>13, DevOfTop

-------------------------------------------------------------------------------
(* Where main_init is.                                                        *)

\* What can be said of the files of a stage.
LEMMA FilesOfStage ==
  ASSUME world \in Worlds
  PROVE  /\ Len(Files) \in Nat /\ DOMAIN Files = 1..Len(Files)
         /\ stage \notin FileStages => Len(Files) = 0
         /\ \A n \in 1..Len(Files) :
              /\ Files[n] \in {world.base, world.subtree} \cup ToSet(world.fstab)
              /\ Files[n].mode \in {"none", "nofilter", "filter"}
              /\ stage \in {"base", "subtree"} => Files[n].mode # "filter"
              /\ stage = "fstab" => Files[n] \in ToSet(world.fstab)
              /\ Len(Files[n].entries) \in Nat
              /\ DOMAIN Files[n].entries = 1..Len(Files[n].entries)
<1> USE WorldsAssumption DEF FileStages
<1>1. CASE stage = "base"
  BY <1>1 DEF Files
<1>2. CASE stage = "subtree"
  BY <1>2 DEF Files
<1>3. CASE stage = "fstab"
  <2>1. Files = world.fstab
    BY <1>3 DEF Files
  <2>2. \A n \in 1..Len(world.fstab) : world.fstab[n] \in ToSet(world.fstab)
    BY DEF ToSet
  <2> QED
    BY <1>3, <2>1, <2>2
<1>4. CASE stage \notin FileStages
  BY <1>4 DEF Files
<1> QED
  BY <1>1, <1>2, <1>3, <1>4

\* The paths of a world's entries.
LEMMA EntryPath ==
  ASSUME world \in Worlds,
         NEW f \in {world.base, world.subtree} \cup ToSet(world.fstab),
         NEW e \in ToSet(f.entries)
  PROVE  e.dir \in Paths
<1>1. e \in AllEntries
  <2>1. f \in AllFiles
    BY DEF AllFiles
  <2> QED
    BY <2>1 DEF AllEntries
<1>2. ToSet(e.dir) \subseteq Components
  BY <1>1 DEF Components
<1>3. e.dir \in Seq(ToSet(e.dir))
  BY WorldsAssumption
<1> QED
  BY <1>2, <1>3, SeqMonotonic DEF Paths

\* The step that follows a step of main_init.
LEMMA TheStages ==
  /\ StageAfter("base") = "subtree" /\ StageAfter("subtree") = "fstab"
  /\ StageAfter("fstab") = "tmpdir" /\ StageAfter("tmpdir") = "users"
  /\ StageAfter("users") = "done"
<1>1. DOMAIN Stages = 1..6
  BY DEF Stages
<1>2. /\ Stages[1] = "base" /\ Stages[2] = "subtree" /\ Stages[3] = "fstab"
      /\ Stages[4] = "tmpdir" /\ Stages[5] = "users" /\ Stages[6] = "done"
  BY DEF Stages
<1>3. \A n \in 1..6 : n \in {1, 2, 3, 4, 5, 6}
  OBVIOUS
<1>4. \A n, m \in 1..6 : Stages[n] = Stages[m] => n = m
  BY <1>2, <1>3
<1>5. ASSUME NEW k \in 1..6 PROVE StageAfter(Stages[k]) = Stages[1 + k]
  <2>1. (CHOOSE n \in 1..6 : Stages[n] = Stages[k]) = k
    BY <1>4
  <2> QED
    BY <1>1, <2>1 DEF StageAfter
<1>6. /\ 1 \in 1..6 /\ 2 \in 1..6 /\ 3 \in 1..6 /\ 4 \in 1..6 /\ 5 \in 1..6
      /\ 1 + 1 = 2 /\ 1 + 2 = 3 /\ 1 + 3 = 4 /\ 1 + 4 = 5 /\ 1 + 5 = 6
  OBVIOUS
<1> QED
  BY <1>2, <1>5, <1>6

\* The files are those of the world and the stage.
LEMMA FilesFrame == UNCHANGED << world, stage >> => Files' = Files
BY DEF Files

\* The world never changes.
LEMMA WorldFrame == [Next]_vars => world' = world
BY DEF Next, vars, OpenFile, SkipEntry, MountEntry, EndOfFile, FileDone, StageDone,
       EssentialShell, LatchRetry, LatchGoOn, LatchGiveUp, MountByHand, MountTmpdir,
       LeftOut, UserTmpdirs, NextStage, GiveUp

\* Every step leads to a place that there is.
LEMMA WhereStep == Where /\ [Next]_vars => Where'
<1> SUFFICES ASSUME Where, [Next]_vars PROVE Where'
  OBVIOUS
<1> DEFINE AllStages == {"base", "subtree", "fstab", "tmpdir", "users", "done", "gaveup"}
<1>w. world \in Worlds /\ world' = world
  BY WorldFrame DEF Where
<1>f. Len(Files) \in Nat /\ (stage \notin FileStages => Len(Files) = 0)
  BY <1>w, FilesOfStage
<1>e. pc \in {"entry", "eof"} => Len(File.entries) \in Nat
  BY <1>w, FilesOfStage DEF Where, File
<1>l. world.leaveout \subseteq {"fstab", "tmpdir", "users"}
  BY <1>w, WorldsAssumption
<1> HIDE DEF AllStages
<1>1. CASE /\ pc' = "open" /\ stage' \in AllStages /\ file' \in Nat \ {0}
           /\ i' \in Nat \ {0} /\ havetmp' \in BOOLEAN
  BY <1>1, <1>w DEF Where, AllStages
<1>2. ASSUME stage \in AllStages \ {"done", "gaveup"} PROVE StageAfter(stage) \in AllStages
  BY <1>2, TheStages DEF AllStages
<1>3. ASSUME NextStage, stage \in AllStages \ {"done", "gaveup"} PROVE Where'
  <2>1. stage' \in AllStages
    BY <1>2, <1>3 DEF NextStage
  <2> QED
    BY <1>1, <1>3, <2>1 DEF NextStage, Where
<1>4. CASE UNCHANGED << stage, pc, file, i, havetmp >>
  BY <1>4, <1>w, FilesFrame DEF Where, File
<1>5. CASE OpenFile
  <2>1. stage \in FileStages
    BY <1>5, <1>f DEF OpenFile, Where
  <2>2. Files' = Files
    BY <1>5, FilesFrame DEF OpenFile
  <2>3. Len(File.entries) \in Nat
    BY <1>5, <1>w, FilesOfStage DEF OpenFile, Where, File
  <2> QED
    BY <1>5, <1>w, <1>f, <2>1, <2>2, <2>3 DEF OpenFile, Where, File
<1>6. CASE SkipEntry \/ MountEntry
  <2>1. Files' = Files
    BY <1>6, FilesFrame DEF SkipEntry, MountEntry
  <2>2. /\ UNCHANGED << stage, pc, file >> /\ i' = i + 1 /\ havetmp' \in BOOLEAN
        /\ pc = "entry" /\ i <= Len(File.entries)
    BY <1>6 DEF SkipEntry, MountEntry, Where, TmpDone
  <2> QED
    BY <1>w, <1>e, <2>1, <2>2 DEF Where, File
<1>7. CASE EndOfFile
  <2>1. Files' = Files
    BY <1>7, FilesFrame DEF EndOfFile
  <2> QED
    BY <1>7, <1>w, <2>1 DEF EndOfFile, Where, File
<1>8. CASE FileDone
  <2>1. Files' = Files
    BY <1>8, FilesFrame DEF FileDone
  <2> QED
    BY <1>8, <1>w, <2>1 DEF FileDone, Where, FileStages
<1>9. CASE StageDone
  BY <1>3, <1>9 DEF StageDone, AllStages
<1>10. CASE EssentialShell
  <2>1. CASE pc' = "latch" /\ UNCHANGED << stage, file, i >>
    <3>1. Files' = Files
      BY <1>w, <2>1, FilesFrame
    <3> QED
      BY <1>10, <1>w, <2>1, <3>1 DEF EssentialShell, Where
  <2>2. CASE stage' = StageAfter(stage) /\ pc' = "open" /\ file' = 1 /\ i' = 1
    <3>1. stage \in AllStages \ {"done", "gaveup"}
      BY <1>10 DEF EssentialShell, Where, AllStages
    <3> QED
      BY <1>1, <1>2, <1>10, <2>2, <3>1 DEF EssentialShell, Where
  <2> QED
    BY <1>10, <2>1, <2>2 DEF EssentialShell
<1>11. CASE LatchRetry
  BY <1>1, <1>11 DEF LatchRetry, Where, AllStages
<1>12. CASE LatchGoOn
  BY <1>3, <1>12 DEF LatchGoOn, Where, AllStages, FileStages
<1>13. CASE LatchGiveUp
  BY <1>1, <1>13 DEF LatchGiveUp, GiveUp, Where, AllStages
<1>14. CASE MountTmpdir
  <2>1. CASE NextStage
    BY <1>3, <1>14, <2>1 DEF MountTmpdir, AllStages
  <2>2. CASE pc' = "open" /\ stage' = "users" /\ havetmp' = TRUE /\ UNCHANGED << file, i >>
    BY <1>1, <2>2 DEF Where, AllStages
  <2>3. CASE pc' = "latch" /\ UNCHANGED << stage, file, i, havetmp >>
    <3>1. Files' = Files
      BY <1>w, <2>3, FilesFrame
    <3> QED
      BY <1>14, <1>w, <2>3, <3>1 DEF MountTmpdir, Where
  <2> QED
    BY <1>14, <2>1, <2>2, <2>3 DEF MountTmpdir
<1>15. CASE LeftOut
  BY <1>3, <1>15, <1>l DEF LeftOut, AllStages
<1>16. CASE UserTmpdirs
  <2>1. pc = "open"
    BY <1>16 DEF UserTmpdirs, Where, FileStages
  <2> QED
    BY <1>1, <1>16, <2>1 DEF UserTmpdirs, Where, AllStages
<1>17. CASE MountByHand \/ UNCHANGED vars
  BY <1>4, <1>17 DEF MountByHand, vars
<1> QED
  BY <1>5, <1>6, <1>7, <1>8, <1>9, <1>10, <1>11, <1>12, <1>13, <1>14, <1>15, <1>16, <1>17
  DEF Next

-------------------------------------------------------------------------------
(* Nothing is mounted over itself.                                            *)

\* A mount more does not change what came before.
LEMMA SameBefore ==
  ASSUME NEW S, NEW s \in Seq(S), NEW r, NEW n \in 1..(Len(s) + 1)
  PROVE  SubSeq(Append(s, r), 1, n - 1) = SubSeq(s, 1, n - 1)
<1> DEFINE t == Append(s, r)
           a == SubSeq(t, 1, n - 1)
           b == SubSeq(s, 1, n - 1)
<1>1. /\ t \in Seq(S \cup {r}) /\ Len(s) \in Nat /\ Len(t) = Len(s) + 1
      /\ \A m \in 1..Len(s) : t[m] = s[m]
  BY Appended
<1>2. n - 1 \in 0..Len(s) /\ n - 1 \in 0..Len(t) /\ n - 1 \in Nat
  BY <1>1
<1> HIDE DEF t
<1>3. a \in Seq(S \cup {r}) /\ Len(a) = n - 1 /\ \A m \in 1..(n - 1) : a[m] = t[m]
  BY <1>1, <1>2, FirstElements
<1>4. b \in Seq(S) /\ Len(b) = n - 1 /\ \A m \in 1..(n - 1) : b[m] = s[m]
  BY <1>2, FirstElements
<1>5. \A m \in 1..(n - 1) : a[m] = b[m]
  BY <1>1, <1>2, <1>3, <1>4
<1>6. b \in Seq(S \cup {r})
  BY <1>4, SeqMonotonic
<1>7. a = b
  <2> HIDE DEF a, b
  <2> QED
    BY <1>2, <1>3, <1>4, <1>5, <1>6, SeqEqual
<1> QED
  BY <1>7 DEF t

\* A new mount, with a device number that is new or that of a device.
LEMMA TreeGrows ==
  ASSUME Tree, NEW mp \in Paths, NEW dev,
         NEW by \in {"filter", "nofilter", "hand", "tmpdir"},
         mounts' = Mounted(mounts, mp, dev, by),
         \/ dev = << "new", Len(mounts) >>
         \/ by \notin {"hand", "tmpdir"} /\ \E s : dev = << "dev", s >>
  PROVE  Tree'
<1> DEFINE r == [mp |-> mp, dev |-> dev, by |-> by]
<1>1. PICK S : mounts \in Seq(S)
  BY DEF Tree
<1>2. mounts' = Append(mounts, r)
  BY DEF Mounted
<1>3. r.mp = mp /\ r.dev = dev /\ r.by = by
  OBVIOUS
<1> HIDE DEF r
<1>4. /\ mounts' \in Seq(S \cup {r}) /\ Len(mounts) \in Nat
      /\ DOMAIN mounts = 1..Len(mounts) /\ DOMAIN mounts' = 1..(Len(mounts) + 1)
      /\ mounts'[Len(mounts) + 1] = r
      /\ \A n \in 1..Len(mounts) : mounts'[n] = mounts[n]
  BY <1>1, <1>2, Appended
<1>5. Len(mounts) >= 1 /\ mounts' # << >>
  BY <1>1, <1>4 DEF Tree
<1>6. mounts'[1] = mounts[1]
  BY <1>4, <1>5
<1>7. \A n \in DOMAIN mounts' : n \in DOMAIN mounts \/ n = Len(mounts) + 1
  BY <1>4
<1>8. Len(mounts) + 1 - 1 = Len(mounts)
  BY <1>4
<1> QED
  BY <1>3, <1>4, <1>5, <1>6, <1>7, <1>8 DEF Tree

\* Of the pairs of mounts, only those with the new one are new.
LEMMA PairsGrow ==
  ASSUME Tree, NotMountedTwice, NEW mp, NEW dev, NEW by,
         mounts' = Mounted(mounts, mp, dev, by),
         \A n \in DOMAIN mounts :
           /\ mounts[n].mp = mp /\ mp # << >> /\ by # "hand"
           /\ \A m \in DOMAIN mounts : m > n => ~IsStrictPrefix(mounts[m].mp, mp)
           => \/ by = "tmpdir" /\ (mounts[n].by # "filter" \/ mounts[n].dev = Initramfs)
              \/ mounts[n].dev = DevOf(SubSeq(mounts, 1, n - 1), Front(mp))
  PROVE  NotMountedTwice'
<1> DEFINE r == [mp |-> mp, dev |-> dev, by |-> by]
<1>1. PICK S : mounts \in Seq(S)
  BY DEF Tree
<1>2. mounts' = Append(mounts, r)
  BY DEF Mounted
<1>3. r.mp = mp /\ r.dev = dev /\ r.by = by
  OBVIOUS
<1> HIDE DEF r
<1>4. /\ mounts' \in Seq(S \cup {r}) /\ Len(mounts) \in Nat
      /\ DOMAIN mounts = 1..Len(mounts) /\ DOMAIN mounts' = 1..(Len(mounts) + 1)
      /\ mounts'[Len(mounts) + 1] = r
      /\ \A n \in 1..Len(mounts) : mounts'[n] = mounts[n]
  BY <1>1, <1>2, Appended
<1>5. \A n \in 1..(Len(mounts) + 1) : SubSeq(mounts', 1, n - 1) = SubSeq(mounts, 1, n - 1)
  BY <1>1, <1>2, SameBefore
<1> SUFFICES ASSUME NEW n \in DOMAIN mounts', NEW m \in DOMAIN mounts',
                    OnTopOf(n, m)', mounts'[m].by # "hand"
             PROVE  \/ mounts'[m].mp = << >>
                    \/ /\ mounts'[m].by = "tmpdir"
                       /\ mounts'[n].by # "filter" \/ mounts'[n].dev = Initramfs
                    \/ mounts'[n].dev = DevOf(SubSeq(mounts', 1, n - 1), Front(mounts'[n].mp))
  BY DEF NotMountedTwice, Initramfs
<1>6. /\ n < m /\ mounts'[n].mp = mounts'[m].mp
      /\ \A k \in (n + 1)..(m - 1) : ~IsStrictPrefix(mounts'[k].mp, mounts'[m].mp)
  BY DEF OnTopOf
<1>7. n \in DOMAIN mounts /\ mounts'[n] = mounts[n]
  BY <1>4, <1>6
<1>8. CASE m \in DOMAIN mounts
  <2>1. mounts'[m] = mounts[m]
    BY <1>4, <1>8
  <2>2. OnTopOf(n, m)
    BY <1>4, <1>6, <1>7, <1>8, <2>1 DEF OnTopOf
  <2> QED
    BY <1>4, <1>5, <1>7, <1>8, <2>1, <2>2 DEF NotMountedTwice
<1>9. CASE m = Len(mounts) + 1
  <2>1. mounts'[m] = r
    BY <1>4, <1>9
  <2>2. \A k \in DOMAIN mounts : k > n => ~IsStrictPrefix(mounts[k].mp, mp)
    BY <1>3, <1>4, <1>6, <1>7, <1>9, <2>1
  <2>3. mounts[n].mp = mp /\ by # "hand"
    BY <1>3, <1>6, <1>7, <2>1
  <2> QED
    BY <1>3, <1>4, <1>5, <1>7, <2>1, <2>2, <2>3
<1> QED
  BY <1>4, <1>8, <1>9

\* All that _mount_that_entry can come to: nothing is mounted, and success means
\* that is_mounted says so or that it is a zram entry; or something is mounted
\* where is_mounted did not say so, with success unless it is a bind mount.
LEMMA EntryOutcome ==
  ASSUME NEW e, NEW r \in MountThatEntry(e)
  PROVE  /\ r.code \in {"SUCCESS", "FAILED", "CANNOT"}
         /\ \/ /\ r.mounts = mounts
               /\ r.code = "SUCCESS" => IsMounted(mounts, e.dir) = 0 \/ IsZramEntry(e)
               /\ r.code = "CANNOT" =>
                    \/ Unmountable(e)
                    \/ "NEED_NETWORK" \in EntryConfig(e).cfg /\ ~world.net
            \/ \E dev :
                 /\ r.mounts = Mounted(mounts, e.dir, dev, File.mode)
                 /\ IsMounted(mounts, e.dir) # 0
                 /\ dev = << "new", Len(mounts) >> \/ \E s : dev = << "dev", s >>
                 /\ r.code = "SUCCESS" \/ (r.code = "FAILED" /\ dev = Initramfs)
<1> DEFINE mc == EntryConfig(e)
           dirs == IF HasOpt(e, "bind") THEN WithBindSource(e.src) ELSE made
           Good(o) == o.mounted =>
                        /\ \/ o.dev = << "new", Len(mounts) >>
                           \/ \E s : o.dev = << "dev", s >>
                        /\ o.ok \/ o.dev = Initramfs
<1>1. CASE r = Result("CANNOT", mounts, made)
           /\ (\/ Unmountable(e)
               \/ "NEED_NETWORK" \in EntryConfig(e).cfg /\ ~world.net)
  BY <1>1 DEF Result
<1>2. CASE r = Result("SUCCESS", mounts, made) /\ IsMounted(mounts, e.dir) = 0
  BY <1>2 DEF Result
<1>3. ASSUME NEW o, NEW d, Good(o), r = After(e, o, d), IsMounted(mounts, e.dir) # 0,
             o.ok /\ ~o.mounted => IsZramEntry(e)
      PROVE  /\ r.code \in {"SUCCESS", "FAILED"}
             /\ \/ /\ r.mounts = mounts
                   /\ r.code = "SUCCESS" => IsZramEntry(e)
                \/ \E dev :
                     /\ r.mounts = Mounted(mounts, e.dir, dev, File.mode)
                     /\ dev = << "new", Len(mounts) >> \/ \E s : dev = << "dev", s >>
                     /\ r.code = "SUCCESS" \/ (r.code = "FAILED" /\ dev = Initramfs)
  BY <1>3 DEF After, Result
<1>4. ASSUME NEW o \in ZramOutcomes PROVE Good(o)
  <2>1. CASE o = Outcome(TRUE, Fresh(mounts), TRUE)
    BY <2>1 DEF Outcome, Fresh
  <2>2. CASE o = Outcome(FALSE, NoDev, TRUE) \/ o = Fails
    BY <2>2 DEF Outcome, Fails
  <2> QED
    BY <2>1, <2>2 DEF ZramOutcomes
<1>5. ASSUME NEW o \in DomountOutcomes(mc) PROVE Good(o) /\ (o.ok => o.mounted)
  <2> DEFINE dev == IF SourceStep(mc) = "loop" \/ "NODEV" \in mc.cfg
                    THEN Fresh(mounts) ELSE << "dev", mc.source >>
  <2>1. dev = << "new", Len(mounts) >> \/ \E s : dev = << "dev", s >>
    BY DEF Fresh
  <2>2. o \in {Fails, StdmountExternal(dev), BindMount, Stdmount(dev)}
    <3> DEFINE step == [external |-> StdmountExternal(dev), bind |-> BindMount,
                        internal |-> Stdmount(dev)]
    <3>1. o = Fails \/ o = step[MountStep(mc)]
      BY DEF DomountOutcomes
    <3>2. MountStep(mc) \in {"external", "bind", "internal"}
      BY DEF MountStep
    <3>3. step[MountStep(mc)] \in {StdmountExternal(dev), BindMount, Stdmount(dev)}
      <4> HIDE DEF mc, dev
      <4> QED
        BY <3>2
    <3> QED
      BY <3>1, <3>3
  <2> HIDE DEF dev
  <2> QED
    <3>1. CASE o = Fails
      BY <3>1 DEF Fails, Outcome
    <3>2. CASE o = Outcome(TRUE, dev, TRUE)
      BY <2>1, <3>2 DEF Outcome
    <3>3. CASE o = BindMount
      BY <3>3 DEF BindMount, Outcome, Initramfs
    <3> QED
      BY <2>2, <3>1, <3>2, <3>3 DEF Stdmount, StdmountExternal
<1> HIDE DEF Good
<1>6. \/ Unmountable(e) /\ r = Result("CANNOT", mounts, made)
      \/ IsMounted(mounts, e.dir) = 0 /\ r = Result("SUCCESS", mounts, made)
      \/ /\ IsMounted(mounts, e.dir) # 0 /\ IsZramEntry(e)
         /\ \E o \in ZramOutcomes : r = After(e, o, made)
      \/ "NEED_NETWORK" \in mc.cfg /\ ~world.net /\ r = Result("CANNOT", mounts, made)
      \/ /\ IsMounted(mounts, e.dir) # 0
         /\ \E o \in DomountOutcomes(mc) : r = After(e, o, dirs)
  <2> HIDE DEF mc, dirs
  <2>1. r \in IF Unmountable(e) THEN {Result("CANNOT", mounts, made)}
             ELSE IF IsMounted(mounts, e.dir) = 0 THEN {Result("SUCCESS", mounts, made)}
             ELSE IF IsZramEntry(e) THEN {After(e, o, made) : o \in ZramOutcomes}
             ELSE IF "NEED_NETWORK" \in mc.cfg /\ ~world.net
             THEN {Result("CANNOT", mounts, made)}
             ELSE {After(e, o, dirs) : o \in DomountOutcomes(mc)}
    BY DEF MountThatEntry, mc, dirs
  <2> QED
    BY <2>1
<1>7. CASE \E o \in ZramOutcomes : r = After(e, o, made)
           /\ IsMounted(mounts, e.dir) # 0 /\ IsZramEntry(e)
  BY <1>3, <1>4, <1>7
<1>8. CASE \E o \in DomountOutcomes(mc) : r = After(e, o, dirs)
           /\ IsMounted(mounts, e.dir) # 0
  BY <1>3, <1>5, <1>8
<1> QED
  <2> HIDE DEF mc, dirs
  <2> QED
    BY <1>1, <1>2, <1>6, <1>7, <1>8 DEF mc

\* The only actions that mount something, and what they mount where.
LEMMA MountingSteps ==
  ASSUME Where, Tree, [Next]_vars
  PROVE  \/ UNCHANGED mounts
         \/ /\ MountEntry /\ Entry \in ToSet(File.entries) /\ Entry.dir \in Paths
            /\ File.mode \in {"filter", "nofilter"}
         \/ /\ MountByHand
            /\ \E mp \in Paths :
                 /\ mounts' = Mounted(mounts, mp, << "new", Len(mounts) >>, "hand")
                 /\ \/ stage = "tmpdir" /\ mp = Tmp
                    \/ stage \in FileStages /\ \E e \in ToSet(File.entries) : mp = e.dir
         \/ /\ MountTmpdir /\ ~havetmp /\ havetmp' = TRUE /\ stage' = "users" /\ Tmp \in Paths
            /\ mounts' = Mounted(mounts, Tmp, << "new", Len(mounts) >>, "tmpdir")
<1>t. Tmp \in Paths
  BY DEF Tmp, Paths, Components
<1>w. world \in Worlds
  BY DEF Where
<1>p. ASSUME stage \in FileStages, file <= Len(Files)
      PROVE  /\ \A e \in ToSet(File.entries) : e.dir \in Paths
             /\ \A n \in 1..Len(File.entries) : File.entries[n] \in ToSet(File.entries)
             /\ File.mode \in {"none", "nofilter", "filter"}
  <2>1. file \in 1..Len(Files)
    BY <1>w, <1>p, FilesOfStage DEF Where
  <2>2. /\ File \in {world.base, world.subtree} \cup ToSet(world.fstab)
        /\ File.mode \in {"none", "nofilter", "filter"}
        /\ DOMAIN File.entries = 1..Len(File.entries)
    BY <1>w, <2>1, FilesOfStage DEF File
  <2>3. \A e \in ToSet(File.entries) : e.dir \in Paths
    BY <1>w, <2>2, EntryPath
  <2> QED
    BY <2>2, <2>3 DEF ToSet
<1>1. CASE MountEntry
  <2>1. pc = "entry" /\ i \in 1..Len(File.entries)
    <3>1. pc = "entry" /\ i <= Len(File.entries)
      BY <1>1 DEF MountEntry
    <3>2. Len(File.entries) \in Nat
      BY <1>w, <3>1, FilesOfStage DEF Where, File
    <3> QED
      BY <3>1, <3>2 DEF Where
  <2> QED
    BY <1>1, <1>p, <2>1 DEF Where, Entry
<1>2. CASE MountByHand
  <2>1. CASE stage = "tmpdir"
    BY <1>2, <1>t, <2>1 DEF MountByHand, Fresh
  <2>2. CASE stage # "tmpdir"
    <3>1. stage \in FileStages /\ file <= Len(Files)
      BY <1>2, <2>2 DEF MountByHand, Where
    <3>2. PICK mp \in {e.dir : e \in ToSet(File.entries)} :
            mounts' = Mounted(mounts, mp, << "new", Len(mounts) >>, "hand")
      BY <1>2, <2>2 DEF MountByHand, Fresh
    <3> QED
      BY <1>2, <1>p, <3>1, <3>2
  <2> QED
    BY <2>1, <2>2
<1>3. CASE MountTmpdir
  BY <1>3, <1>t DEF MountTmpdir, NextStage, Fresh
<1> QED
  BY <1>1, <1>2, <1>3
  DEF Next, vars, OpenFile, SkipEntry, EndOfFile, FileDone, StageDone,
      EssentialShell, LatchRetry, LatchGoOn, LatchGiveUp, LeftOut, UserTmpdirs,
      NextStage, GiveUp

\* is_mounted does not see what is mounted at a path only if that has the
\* device number of the parent directory, and what is on top of it as well.
LEMMA UnseenHasParentsDev ==
  ASSUME Tree, NotMountedTwice, NEW n \in DOMAIN mounts, mounts[n].mp # << >>,
         \A m \in DOMAIN mounts : m > n => ~IsStrictPrefix(mounts[m].mp, mounts[n].mp),
         DevOf(mounts, mounts[n].mp) = DevOf(mounts, Front(mounts[n].mp))
  PROVE  mounts[n].dev = DevOf(SubSeq(mounts, 1, n - 1), Front(mounts[n].mp))
<1> DEFINE p == mounts[n].mp
<1>1. IsTree(mounts)
  BY DEF Tree, IsTree
<1>2. PICK k, t \in DOMAIN mounts :
        /\ k >= n /\ mounts[k].mp = p /\ DevOf(mounts, p) = mounts[k].dev
        /\ t < n /\ DevOf(mounts, Front(p)) = mounts[t].dev
        /\ DevOf(SubSeq(mounts, 1, n - 1), Front(p)) = mounts[t].dev
  BY <1>1, ParentIsBelow
<1>3. mounts[k].dev = mounts[t].dev
  BY <1>2
<1>4. DOMAIN mounts \subseteq Int
  BY DEF Tree
<1>5. CASE k = n
  BY <1>2, <1>5
<1>6. CASE k # n
  <2>1. k > n /\ t < k
    BY <1>2, <1>4, <1>6
  <2>2. mounts[k].by \notin {"hand", "tmpdir"}
    <3>1. mounts[k].dev # << "new", k - 1 >>
      <4>1. SUFFICES ASSUME mounts[t].dev = << "new", k - 1 >> PROVE FALSE
        BY <1>3
      <4>2. mounts[t].dev = << "new", t - 1 >> \/ \E s : mounts[t].dev = << "dev", s >>
        BY DEF Tree
      <4>3. \A a, b, c, d : << a, b >> = << c, d >> => a = c /\ b = d
        OBVIOUS
      <4>4. t - 1 = k - 1
        BY <4>1, <4>2, <4>3
      <4> QED
        BY <1>4, <2>1, <4>4
    <3> QED
      BY <3>1 DEF Tree
  <2>3. OnTopOf(n, k)
    BY <1>2, <1>4, <2>1 DEF OnTopOf, Tree
  <2> QED
    BY <1>2, <2>2, <2>3 DEF NotMountedTwice
<1> QED
  BY <1>5, <1>6

\* What is known of newroot's /tmp when nothing is mounted.
LEMMA NoticedFrame ==
  ASSUME Where, TmpIsNoticed, [Next]_vars, UNCHANGED mounts
  PROVE  TmpIsNoticed'
<1>1. CASE MountEntry
  <2>1. stage' = stage /\ (havetmp => havetmp')
    BY <1>1 DEF MountEntry
  <2>2. stage \in {"base", "subtree"} => File.mode # "filter"
    BY <1>1, FilesOfStage DEF MountEntry, Where, File
  <2>3. stage \in {"base", "subtree"} => havetmp' = havetmp
    BY <1>1, <2>2 DEF MountEntry, TmpDone, Where
  <2> QED
    BY <2>1, <2>3 DEF TmpIsNoticed
<1>2. CASE havetmp' = havetmp /\ (stage \notin {"base", "subtree"} => stage' \notin {"base", "subtree"})
  BY <1>2 DEF TmpIsNoticed
<1>3. stage \in {"fstab", "tmpdir", "users"} =>
        StageAfter(stage) \notin {"base", "subtree"}
  BY TheStages
<1>4. world.leaveout \subseteq {"fstab", "tmpdir", "users"}
  BY WorldsAssumption DEF Where
<1>5. CASE NextStage /\ stage \in {"base", "subtree", "fstab", "tmpdir", "users"}
  BY <1>2, <1>3, <1>5 DEF NextStage
<1>6. CASE StageDone \/ LeftOut
  BY <1>4, <1>5, <1>6 DEF StageDone, LeftOut
<1>7. CASE LatchGoOn
  BY <1>5, <1>7 DEF LatchGoOn, Where, FileStages
<1>8. CASE MountTmpdir
  <2>1. stage = "tmpdir"
    BY <1>8 DEF MountTmpdir
  <2>2. CASE NextStage
    BY <1>5, <2>1, <2>2
  <2>3. CASE stage' = "users" /\ havetmp' = TRUE
    BY <2>3 DEF TmpIsNoticed
  <2>4. CASE stage' = stage /\ havetmp' = havetmp
    BY <1>2, <2>4
  <2> QED
    BY <1>8, <2>2, <2>3, <2>4 DEF MountTmpdir
<1>9. CASE EssentialShell
  BY <1>2, <1>3, <1>9 DEF EssentialShell, Where
<1>10. CASE \/ OpenFile \/ SkipEntry \/ EndOfFile \/ FileDone \/ LatchRetry
            \/ LatchGiveUp \/ MountByHand \/ UserTmpdirs \/ UNCHANGED vars
  BY <1>2, <1>10 DEF OpenFile, SkipEntry, EndOfFile, FileDone, LatchRetry, LatchGiveUp,
     GiveUp, MountByHand, UserTmpdirs, vars
<1> QED
  BY <1>1, <1>6, <1>7, <1>8, <1>9, <1>10 DEF Next

\* /tmp and the mounts when a mount is added.
LEMMA NoticedGrows ==
  ASSUME Tree, TmpIsNoticed, NEW mp, NEW dev, NEW by,
         mounts' = Mounted(mounts, mp, dev, by),
         havetmp => havetmp',
         havetmp' => stage' \notin {"base", "subtree"},
         mp = Tmp /\ by = "filter" => havetmp' \/ dev = Initramfs
  PROVE  TmpIsNoticed'
<1> DEFINE r == [mp |-> mp, dev |-> dev, by |-> by]
<1>1. PICK S : mounts \in Seq(S)
  BY DEF Tree
<1>2. mounts' = Append(mounts, r)
  BY DEF Mounted
<1>3. r.mp = mp /\ r.dev = dev /\ r.by = by
  OBVIOUS
<1> HIDE DEF r
<1>4. /\ Len(mounts) \in Nat
      /\ DOMAIN mounts = 1..Len(mounts) /\ DOMAIN mounts' = 1..(Len(mounts) + 1)
      /\ mounts'[Len(mounts) + 1] = r
      /\ \A n \in 1..Len(mounts) : mounts'[n] = mounts[n]
  BY <1>1, <1>2, Appended
<1>5. \A n \in DOMAIN mounts' : n \in DOMAIN mounts \/ n = Len(mounts) + 1
  BY <1>4
<1> QED
  BY <1>3, <1>4, <1>5 DEF TmpIsNoticed, Tmp, Initramfs

\* Every step of main_init keeps the mount tree as described.
LEMMA TreeStep == TreeInv /\ [Next]_vars => TreeInv'
<1> SUFFICES ASSUME TreeInv, [Next]_vars PROVE TreeInv'
  OBVIOUS
<1>0. Where /\ Tree /\ TmpIsNoticed /\ NotMountedTwice
  BY DEF TreeInv
<1>1. Where'
  BY <1>0, WhereStep
<1>2. CASE UNCHANGED mounts
  <2>1. TmpIsNoticed'
    BY <1>0, <1>2, NoticedFrame
  <2>2. Tree' /\ NotMountedTwice'
    BY <1>0, <1>2 DEF Tree, NotMountedTwice, OnTopOf
  <2> QED
    BY <1>1, <2>1, <2>2 DEF TreeInv
<1>3. CASE /\ MountEntry /\ Entry \in ToSet(File.entries) /\ Entry.dir \in Paths
           /\ File.mode \in {"filter", "nofilter"} /\ ~UNCHANGED mounts
  <2>1. PICK r \in MountThatEntry(Entry) :
          mounts' = r.mounts /\ havetmp' = (havetmp \/ TmpDone(File.mode, Entry, r.code))
    BY <1>3 DEF MountEntry
  <2>2. PICK dev :
          /\ mounts' = Mounted(mounts, Entry.dir, dev, File.mode)
          /\ IsMounted(mounts, Entry.dir) # 0
          /\ dev = << "new", Len(mounts) >> \/ \E s : dev = << "dev", s >>
          /\ r.code = "SUCCESS" \/ (r.code = "FAILED" /\ dev = Initramfs)
    BY <1>3, <2>1, EntryOutcome
  <2>3. Tree'
    BY <1>0, <1>3, <2>2, TreeGrows
  <2>4. NotMountedTwice'
    <3> DEFINE p == Entry.dir
    <3>1. p # << >> => DevOf(mounts, p) = DevOf(mounts, Front(p))
      BY <2>2 DEF IsMounted, ParentPath
    <3> HIDE DEF p
    <3>2. \A n \in DOMAIN mounts :
            /\ mounts[n].mp = p /\ p # << >>
            /\ \A m \in DOMAIN mounts : m > n => ~IsStrictPrefix(mounts[m].mp, p)
            => mounts[n].dev = DevOf(SubSeq(mounts, 1, n - 1), Front(p))
      BY <1>0, <3>1, UnseenHasParentsDev
    <3> QED
      BY <1>0, <2>2, <3>2, PairsGrow DEF p
  <2>5. TmpIsNoticed'
    <3>1. stage' = stage
      BY <1>3 DEF MountEntry
    <3>2. stage \in {"base", "subtree"} => File.mode # "filter"
      BY <1>0, <1>3, FilesOfStage DEF MountEntry, Where, File
    <3>3. havetmp' => stage' \notin {"base", "subtree"}
      BY <1>0, <2>1, <3>1, <3>2 DEF TmpDone, TmpIsNoticed
    <3>4. Entry.dir = Tmp /\ File.mode = "filter" => havetmp' \/ dev = Initramfs
      BY <2>1, <2>2 DEF TmpDone
    <3> QED
      BY <1>0, <2>1, <2>2, <3>3, <3>4, NoticedGrows
  <2> QED
    BY <1>1, <2>3, <2>4, <2>5 DEF TreeInv
<1>4. CASE MountByHand /\ \E mp \in Paths :
             mounts' = Mounted(mounts, mp, << "new", Len(mounts) >>, "hand")
  <2>1. PICK mp \in Paths : mounts' = Mounted(mounts, mp, << "new", Len(mounts) >>, "hand")
    BY <1>4
  <2>2. Tree'
    BY <1>0, <2>1, TreeGrows
  <2>3. NotMountedTwice'
    BY <1>0, <2>1, PairsGrow
  <2>4. TmpIsNoticed'
    <3>1. havetmp' = havetmp /\ stage' = stage
      BY <1>4 DEF MountByHand
    <3> QED
      BY <1>0, <2>1, <3>1, NoticedGrows DEF TmpIsNoticed
  <2> QED
    BY <1>1, <2>2, <2>3, <2>4 DEF TreeInv
<1>5. CASE /\ MountTmpdir /\ ~havetmp /\ havetmp' = TRUE /\ stage' = "users" /\ Tmp \in Paths
           /\ mounts' = Mounted(mounts, Tmp, << "new", Len(mounts) >>, "tmpdir")
  <2>1. Tree'
    BY <1>0, <1>5, TreeGrows
  <2>2. NotMountedTwice'
    <3>1. \A n \in DOMAIN mounts : mounts[n].mp = Tmp =>
            mounts[n].by # "filter" \/ mounts[n].dev = Initramfs
      BY <1>0, <1>5 DEF TmpIsNoticed
    <3> QED
      BY <1>0, <1>5, <3>1, PairsGrow
  <2>3. TmpIsNoticed'
    BY <1>0, <1>5, NoticedGrows
  <2> QED
    BY <1>1, <2>1, <2>2, <2>3 DEF TreeInv
<1> QED
  BY <1>0, <1>2, <1>3, <1>4, <1>5, MountingSteps

\* Along every boot the mount tree is as described.
THEOREM TreeInvariant == Spec => []TreeInv
<1>1. Init => TreeInv
  <2> SUFFICES ASSUME Init PROVE TreeInv
    OBVIOUS
  <2> DEFINE r == [mp |-> << >>, dev |-> RootDev, by |-> "init"]
  <2>1. mounts = << r >> /\ r.mp = << >> /\ r.by = "init" /\ r.dev = << "dev", "/dev/root" >>
    BY DEF Init, RootDev
  <2> HIDE DEF r
  <2>2. /\ mounts \in Seq({r}) /\ Len(mounts) = 1 /\ DOMAIN mounts = {1} /\ mounts[1] = r
        /\ mounts # << >>
    <3>1. << r >> \in Seq({r}) /\ Len(<< r >>) = 1 /\ << r >>[1] = r
      OBVIOUS
    <3>2. DOMAIN << r >> = 1..1 /\ 1..1 = {1}
      OBVIOUS
    <3>3. << r >> # << >>
      BY <3>1
    <3> QED
      BY <2>1, <3>1, <3>2, <3>3
  <2>3. << >> \in Paths
    BY DEF Paths
  <2>4. Tree
    BY <2>1, <2>2, <2>3 DEF Tree
  <2>5. NotMountedTwice
    BY <2>2 DEF NotMountedTwice, OnTopOf
  <2>6. TmpIsNoticed
    BY <2>1, <2>2 DEF TmpIsNoticed, Init
  <2>7. Where
    <3>1. /\ world \in Worlds /\ stage = "base" /\ pc = "open" /\ file = 1 /\ i = 1
      BY DEF Init
    <3>2. havetmp \in BOOLEAN
      BY DEF Init
    <3> QED
      BY <3>1, <3>2 DEF Where
  <2> QED
    BY <2>4, <2>5, <2>6, <2>7 DEF TreeInv
<1> QED
  BY <1>1, TreeStep, PTL DEF Spec

\* _mount_that_entry asks is_mounted before it mounts: whatever fails, is tried
\* again or is mounted by an operator, nothing is mounted over itself.
THEOREM MountedOnce == Spec => []NotMountedTwice
<1>1. TreeInv => NotMountedTwice
  BY DEF TreeInv
<1> QED
  BY <1>1, TreeInvariant, PTL

-------------------------------------------------------------------------------
(* The tmpdirs of the users.                                                  *)

\* A mount more hides /tmp only if it is one on newroot's root.
LEMMA TmpStays ==
  ASSUME Tree, NEW mp, NEW dev, NEW by, world' = world, TmpMounted,
         mounts' = Mounted(mounts, mp, dev, by),
         mp = << >> => \E f \in ToSet(world.fstab) : \E e \in ToSet(f.entries) : e.dir = << >>
  PROVE  TmpMounted'
<1> DEFINE r == [mp |-> mp, dev |-> dev, by |-> by]
<1>1. PICK S : mounts \in Seq(S)
  BY DEF Tree
<1>2. mounts' = Append(mounts, r)
  BY DEF Mounted
<1>3. r.mp = mp
  OBVIOUS
<1> HIDE DEF r
<1>4. /\ Len(mounts) \in Nat
      /\ DOMAIN mounts = 1..Len(mounts) /\ DOMAIN mounts' = 1..(Len(mounts) + 1)
      /\ mounts'[Len(mounts) + 1] = r
      /\ \A n \in 1..Len(mounts) : mounts'[n] = mounts[n]
  BY <1>1, <1>2, Appended
<1>5. CASE \E f \in ToSet(world.fstab) : \E e \in ToSet(f.entries) :
             (e.dir = Tmp /\ IsZramEntry(e)) \/ e.dir = << >>
  BY <1>5 DEF TmpMounted, Tmp, IsZramEntry
<1>6. CASE /\ mp # << >>
           /\ \E n \in DOMAIN mounts :
                mounts[n].mp = Tmp /\ \A m \in DOMAIN mounts : m > n => mounts[m].mp # << >>
  <2>1. PICK n \in DOMAIN mounts :
          mounts[n].mp = Tmp /\ \A m \in DOMAIN mounts : m > n => mounts[m].mp # << >>
    BY <1>6
  <2>2. \A m \in DOMAIN mounts' : m \in DOMAIN mounts \/ m = Len(mounts) + 1
    BY <1>4
  <2>3. n \in DOMAIN mounts' /\ mounts'[n].mp = Tmp
    BY <1>4, <2>1
  <2>4. \A m \in DOMAIN mounts' : m > n => mounts'[m].mp # << >>
    BY <1>3, <1>4, <1>6, <2>1, <2>2
  <2> QED
    BY <2>3, <2>4 DEF TmpMounted, Tmp
<1> QED
  BY <1>5, <1>6 DEF TmpMounted

\* What has just been mounted on /tmp is not hidden.
LEMMA TmpJustMounted ==
  ASSUME Tree, NEW dev, NEW by, mounts' = Mounted(mounts, Tmp, dev, by)
  PROVE  TmpMounted'
<1> DEFINE r == [mp |-> Tmp, dev |-> dev, by |-> by]
<1>1. PICK S : mounts \in Seq(S)
  BY DEF Tree
<1>2. mounts' = Append(mounts, r)
  BY DEF Mounted
<1>3. r.mp = Tmp
  OBVIOUS
<1> HIDE DEF r
<1>4. /\ Len(mounts) \in Nat
      /\ DOMAIN mounts' = 1..(Len(mounts) + 1)
      /\ mounts'[Len(mounts) + 1] = r
  BY <1>1, <1>2, Appended
<1>5. Len(mounts) + 1 \in DOMAIN mounts'
  BY <1>4
<1>6. \A m \in DOMAIN mounts' : ~(m > Len(mounts) + 1)
  BY <1>4
<1> QED
  BY <1>3, <1>4, <1>5, <1>6 DEF TmpMounted, Tmp

\* A /tmp that is_mounted knows of is mounted and not hidden.
LEMMA TmpSeen ==
  ASSUME Tree, IsMounted(mounts, Tmp) = 0
  PROVE  TmpMounted
<1>1. Tmp \in Paths /\ Tmp # << >>
  BY DEF Tmp, Paths, Components
<1>2. IsTree(mounts)
  BY DEF Tree, IsTree
<1>3. DevOf(mounts, Tmp) # DevOf(mounts, Front(Tmp))
  BY <1>1 DEF IsMounted, ParentPath
<1>4. PICK n \in DOMAIN mounts : IsTop(mounts, Tmp, n) /\ mounts[n].mp = Tmp
  BY <1>1, <1>2, <1>3, MountedIsTop
<1>5. \A m \in DOMAIN mounts : mounts[m].mp = << >> => m <= n
  BY <1>1, <1>4, RootIsAbove DEF IsTop
<1>6. DOMAIN mounts \subseteq Int
  BY DEF Tree
<1>7. \A m \in DOMAIN mounts : m > n => mounts[m].mp # << >>
  BY <1>5, <1>6
<1> QED
  BY <1>4, <1>7 DEF TmpMounted

\* When nothing is mounted: havetmp is set for a /tmp that is there or for a zram
\* entry, and the tmpdirs of users are only made if it is set.
LEMMA TmpFrame ==
  ASSUME Where, Tree, TmpInv, [Next]_vars, UNCHANGED mounts
  PROVE  TmpInv'
<1>0. world' = world
  BY WorldFrame
<1>1. TmpMounted => TmpMounted'
  BY <1>0 DEF TmpMounted, Tmp, IsZramEntry
<1>2. CASE UNCHANGED << havetmp, userdirs >>
  BY <1>1, <1>2 DEF TmpInv
<1>3. CASE MountEntry
  <2>1. PICK r \in MountThatEntry(Entry) :
          mounts' = r.mounts /\ havetmp' = (havetmp \/ TmpDone(File.mode, Entry, r.code))
    BY <1>3 DEF MountEntry
  <2>2. CASE TmpDone(File.mode, Entry, r.code)
    <3>1. File.mode = "filter" /\ Entry.dir = Tmp /\ r.code = "SUCCESS"
      BY <2>2 DEF TmpDone
    <3>2. \/ IsMounted(mounts, Tmp) = 0 \/ IsZramEntry(Entry)
          \/ \E dev : mounts' = Mounted(mounts, Tmp, dev, File.mode)
      BY <2>1, <3>1, EntryOutcome
    <3>3. File \in ToSet(world.fstab) /\ Entry \in ToSet(File.entries)
      <4>1. pc = "entry" /\ i <= Len(File.entries)
        BY <1>3 DEF MountEntry
      <4>2. file \in 1..Len(Files)
        BY <4>1, FilesOfStage DEF Where
      <4>3. stage = "fstab"
        BY <3>1, <4>1, <4>2, FilesOfStage DEF Where, FileStages, File
      <4>4. Len(File.entries) \in Nat /\ DOMAIN File.entries = 1..Len(File.entries)
        BY <4>2, FilesOfStage DEF Where, File
      <4>5. i \in DOMAIN File.entries
        BY <4>1, <4>4 DEF Where
      <4> QED
        BY <4>2, <4>3, <4>5, FilesOfStage DEF Where, File, Entry, ToSet
    <3>4. TmpMounted'
      <4>1. CASE IsMounted(mounts, Tmp) = 0
        BY <1>1, <4>1, TmpSeen
      <4>2. CASE IsZramEntry(Entry)
        BY <1>1, <3>1, <3>3, <4>2 DEF TmpMounted
      <4>3. CASE \E dev : mounts' = Mounted(mounts, Tmp, dev, File.mode)
        BY <4>3, TmpJustMounted
      <4> QED
        BY <3>2, <4>1, <4>2, <4>3
    <3> QED
      BY <1>3, <3>4, <2>1, <2>2 DEF TmpInv, NoDirs, NoDev, MountEntry
  <2>3. CASE ~TmpDone(File.mode, Entry, r.code)
    <3>1. UNCHANGED userdirs /\ (havetmp' <=> havetmp)
      BY <1>3, <2>1, <2>3 DEF MountEntry
    <3> QED
      BY <1>1, <3>1 DEF TmpInv, NoDirs, NoDev
  <2> QED
    BY <2>2, <2>3
<1>4. CASE UserTmpdirs
  BY <1>1, <1>4 DEF UserTmpdirs, TmpInv, NoDirs, NoDev
<1>5. CASE MountTmpdir
  <2>1. CASE UNCHANGED << havetmp, userdirs >>
    BY <1>2, <2>1
  <2>2. CASE mounts' = Mounted(mounts, Tmp, Fresh(mounts), "tmpdir") /\ havetmp' = TRUE
             /\ UNCHANGED userdirs
    BY <2>2, TmpJustMounted DEF TmpInv, NoDirs, NoDev
  <2> QED
    BY <1>5, <2>1, <2>2 DEF MountTmpdir, NextStage
<1>6. MountEntry \/ UserTmpdirs \/ MountTmpdir \/ UNCHANGED << havetmp, userdirs >>
  BY DEF Next, vars, OpenFile, SkipEntry, EndOfFile, FileDone, StageDone, EssentialShell,
         LatchRetry, LatchGoOn, LatchGiveUp, MountByHand, LeftOut, NextStage, GiveUp
<1> QED
  BY <1>2, <1>3, <1>4, <1>5, <1>6

\* Every step keeps /tmp mounted once it is taken for mounted.
LEMMA TmpStep == TreeInv /\ TmpInv /\ [Next]_vars => TmpInv'
<1> SUFFICES ASSUME TreeInv, TmpInv, [Next]_vars PROVE TmpInv'
  OBVIOUS
<1>0. Where /\ Tree /\ TmpIsNoticed
  BY DEF TreeInv
<1>w. world' = world
  BY WorldFrame
<1>1. CASE UNCHANGED mounts
  BY <1>0, <1>1, TmpFrame
<1>f. ASSUME NEW e \in ToSet(File.entries), havetmp, stage \in FileStages, file <= Len(Files)
      PROVE  \E f \in ToSet(world.fstab) : e \in ToSet(f.entries)
  <2>1. stage = "fstab"
    BY <1>0, <1>f DEF TmpIsNoticed, FileStages
  <2>2. file \in 1..Len(Files)
    BY <1>0, <1>f, FilesOfStage DEF Where
  <2> QED
    BY <1>0, <1>f, <2>1, <2>2, FilesOfStage DEF Where, File
<1>2. CASE /\ MountEntry /\ Entry \in ToSet(File.entries) /\ Entry.dir \in Paths
           /\ File.mode \in {"filter", "nofilter"} /\ ~UNCHANGED mounts
  <2>1. PICK r \in MountThatEntry(Entry) :
          mounts' = r.mounts /\ havetmp' = (havetmp \/ TmpDone(File.mode, Entry, r.code))
    BY <1>2 DEF MountEntry
  <2>2. PICK dev : mounts' = Mounted(mounts, Entry.dir, dev, File.mode)
    BY <1>2, <2>1, EntryOutcome
  <2>3. userdirs' = userdirs /\ (havetmp => havetmp')
    BY <1>2, <2>1 DEF MountEntry
  <2>4. CASE havetmp
    <3>1. stage \in FileStages /\ file <= Len(Files)
      BY <1>0, <1>2 DEF MountEntry, Where
    <3>2. Entry.dir = << >> =>
            \E f \in ToSet(world.fstab) : \E e \in ToSet(f.entries) : e.dir = << >>
      BY <1>2, <1>f, <2>4, <3>1
    <3>3. TmpMounted'
      BY <1>0, <1>w, <2>2, <2>4, <3>2, TmpStays DEF TmpInv
    <3> QED
      BY <2>3, <2>4, <3>3 DEF TmpInv, NoDirs, NoDev
  <2>5. CASE TmpDone(File.mode, Entry, r.code)
    <3>1. TmpMounted'
      BY <1>0, <2>2, <2>5, TmpJustMounted DEF TmpDone
    <3> QED
      BY <2>1, <2>3, <2>5, <3>1 DEF TmpInv, NoDirs, NoDev
  <2>6. CASE ~havetmp /\ ~TmpDone(File.mode, Entry, r.code)
    BY <2>1, <2>3, <2>6 DEF TmpInv, NoDirs, NoDev
  <2> QED
    BY <2>4, <2>5, <2>6
<1>3. CASE /\ MountByHand
           /\ \E mp \in Paths :
                /\ mounts' = Mounted(mounts, mp, << "new", Len(mounts) >>, "hand")
                /\ \/ stage = "tmpdir" /\ mp = Tmp
                   \/ stage \in FileStages /\ \E e \in ToSet(File.entries) : mp = e.dir
  <2>1. UNCHANGED << havetmp, userdirs >>
    BY <1>3 DEF MountByHand
  <2>2. CASE ~havetmp
    BY <2>1, <2>2 DEF TmpInv, NoDirs, NoDev
  <2>3. CASE havetmp
    <3>1. PICK mp \in Paths :
                /\ mounts' = Mounted(mounts, mp, << "new", Len(mounts) >>, "hand")
                /\ \/ stage = "tmpdir" /\ mp = Tmp
                   \/ stage \in FileStages /\ \E e \in ToSet(File.entries) : mp = e.dir
      BY <1>3
    <3>2. Tmp # << >>
      BY DEF Tmp
    <3>3. mp = << >> =>
            \E f \in ToSet(world.fstab) : \E e \in ToSet(f.entries) : e.dir = << >>
      <4>1. stage # "tmpdir" => file <= Len(Files)
        BY <1>0, <1>3 DEF MountByHand, Where
      <4> QED
        BY <1>f, <2>3, <3>1, <3>2, <4>1 DEF FileStages
    <3>4. TmpMounted'
      BY <1>0, <1>w, <2>3, <3>1, <3>3, TmpStays DEF TmpInv
    <3> QED
      BY <2>1, <2>3, <3>4 DEF TmpInv, NoDirs, NoDev
  <2> QED
    BY <2>2, <2>3
<1>4. CASE /\ MountTmpdir /\ ~havetmp /\ havetmp' = TRUE
           /\ mounts' = Mounted(mounts, Tmp, << "new", Len(mounts) >>, "tmpdir")
  <2>1. TmpMounted'
    BY <1>0, <1>4, TmpJustMounted
  <2> QED
    BY <1>4, <2>1 DEF TmpInv, NoDirs, NoDev
<1> QED
  BY <1>0, <1>1, <1>2, <1>3, <1>4, MountingSteps

\* initramfs_setup_newroot_tmpdir asks whether /tmp is mounted, and what the
\* answer rests on holds until then: the tmpdirs go to a mounted /tmp.
THEOREM TmpdirsOnTmp == Spec => []UserDirsOnTmp
<1>1. Init => TmpInv
  BY DEF Init, TmpInv
<1>2. TmpInv => UserDirsOnTmp
  BY DEF TmpInv, UserDirsOnTmp, TmpMounted
<1> QED
  BY <1>1, <1>2, TmpStep, TreeInvariant, PTL DEF Spec

-------------------------------------------------------------------------------
(* A stage that returns 0 has mounted its entries.                            *)

\* mount_config_autoset finds out by the type whether a network is needed.
LEMMA AutosetNetwork ==
  ASSUME NEW source, NEW target, NEW fstype, NEW flags, NEW opts, NEW cfg
  PROVE  LET mc == [source |-> source, target |-> target, fstype |-> fstype,
                    flags |-> flags, opts |-> opts, cfg |-> cfg]
         IN  /\ "NEED_NETWORK" \in Autoset(mc).cfg
                  <=> "NEED_NETWORK" \in cfg \/ fstype \in {"nfs", "cifs"}
             /\ Autoset(mc) = [source |-> Autoset(mc).source, target |-> Autoset(mc).target,
                               fstype |-> Autoset(mc).fstype, flags |-> Autoset(mc).flags,
                               opts |-> Autoset(mc).opts, cfg |-> Autoset(mc).cfg]
<1> DEFINE Config(c) == c = [source |-> c.source, target |-> c.target, fstype |-> c.fstype,
                             flags |-> c.flags, opts |-> c.opts, cfg |-> c.cfg]
           mc == [source |-> source, target |-> target, fstype |-> fstype,
                  flags |-> flags, opts |-> opts, cfg |-> cfg]
           a == AutosetFstype(mc)
           b == AutosetSource(a)
<1>1. Config(mc) /\ mc.cfg = cfg /\ mc.fstype = fstype
  OBVIOUS
<1> HIDE DEF mc
<1>2. /\ Config(a) /\ a.fstype = fstype
      /\ "NEED_NETWORK" \in a.cfg <=> "NEED_NETWORK" \in cfg \/ fstype \in {"nfs", "cifs"}
  <2>1. CASE fstype \in {"tmpfs", "devtmpfs"}
    BY <1>1, <2>1 DEF AutosetFstype, Enable, EnableFlag
  <2>2. CASE fstype = "squashfs"
    BY <1>1, <2>2 DEF AutosetFstype, Enable, EnableFlag
  <2>3. CASE fstype \in {"nfs", "cifs"}
    BY <1>1, <2>3 DEF AutosetFstype, Enable, EnableFlag
  <2>4. CASE fstype \in {"ztmpfs", "zdisk"}
    BY <1>1, <2>4 DEF AutosetFstype, Enable, EnableFlag
  <2>5. CASE fstype = "auto"
    BY <1>1, <2>5 DEF AutosetFstype, Enable, EnableFlag
  <2>6. CASE fstype \notin {"auto", "squashfs", "tmpfs", "devtmpfs", "nfs", "cifs", "ztmpfs", "zdisk"}
    BY <1>1, <2>6 DEF AutosetFstype
  <2> QED
    BY <2>1, <2>2, <2>3, <2>4, <2>5, <2>6
<1> HIDE DEF a
<1>3. Config(b) /\ b.cfg = a.cfg
  BY <1>2 DEF AutosetSource
<1> HIDE DEF b
<1>4. Autoset(mc) = IF b.source \in FindfsSource THEN Enable(b, {"NEED_FINDFS"}) ELSE b
  BY DEF Autoset, b, a
<1>5. /\ Config(Autoset(mc))
      /\ "NEED_NETWORK" \in Autoset(mc).cfg <=> "NEED_NETWORK" \in b.cfg
  BY <1>3, <1>4 DEF Enable
<1> QED
  BY <1>2, <1>3, <1>5 DEF mc

\* Nor do the options of an entry say so, other than _netdev.
LEMMA NeedsNetwork ==
  ASSUME NEW e, NEW bits, NEW more, "NEED_NETWORK" \notin bits
  PROVE  LET mc == AssignOpts(NewMountConfig(e.src, e.dir, e.type, {}, NullOpts, bits), e.opts)
         IN  "NEED_NETWORK" \in Enable(Autoset(mc), more).cfg
               <=> "NEED_NETWORK" \in more \/ e.type \in {"nfs", "cifs"}
<1> DEFINE p == ParseMountOpts(e.opts)
           mc == AssignOpts(NewMountConfig(e.src, e.dir, e.type, {}, NullOpts, bits), e.opts)
<1> HIDE DEF p
<1>1. mc = [source |-> e.src, target |-> e.dir, fstype |-> e.type,
            flags |-> p.flags, opts |-> p.opts, cfg |-> bits]
  <2> DEFINE c == NewMountConfig(e.src, e.dir, e.type, {}, NullOpts, bits)
  <2>1. mc = [c EXCEPT !.flags = p.flags, !.opts = p.opts]
    BY DEF AssignOpts, p
  <2>2. c = [source |-> e.src, target |-> e.dir, fstype |-> e.type,
             flags |-> {}, opts |-> NullOpts, cfg |-> bits]
    BY DEF NewMountConfig
  <2> HIDE DEF c, mc
  <2> QED
    BY <2>1, <2>2
<1> HIDE DEF mc
<1>2. /\ "NEED_NETWORK" \in Autoset(mc).cfg <=> e.type \in {"nfs", "cifs"}
      /\ Autoset(mc) = [source |-> Autoset(mc).source, target |-> Autoset(mc).target,
                        fstype |-> Autoset(mc).fstype, flags |-> Autoset(mc).flags,
                        opts |-> Autoset(mc).opts, cfg |-> Autoset(mc).cfg]
  BY <1>1, AutosetNetwork
<1>3. Enable(Autoset(mc), more).cfg = Autoset(mc).cfg \cup more
  BY <1>2 DEF Enable
<1> QED
  BY <1>2, <1>3 DEF mc

\* Whether an entry has to be mounted does not depend on the files in newroot.
LEMMA DemandedFrame ==
  ASSUME world' = world, NEW mode, NEW e
  PROVE  Demanded(mode, e)' <=> Demanded(mode, e)
<1> DEFINE Bits(yes) == {"IS_ENABLED"} \cup (IF yes THEN {"NEED_LOOP"} ELSE {})
           more == (IF HasOpt(e, "loop") THEN {"NEED_LOOP"} ELSE {})
                     \cup (IF HasOpt(e, "_netdev") THEN {"NEED_NETWORK"} ELSE {})
           Config(bits) == Enable(Autoset(AssignOpts(
             NewMountConfig(e.src, e.dir, e.type, {}, NullOpts, bits), e.opts)), more)
           remote == "NEED_NETWORK" \in more \/ e.type \in {"nfs", "cifs"}
<1>1. EntryConfig(e) = Config(Bits(IsLoopFile(e)))
  BY DEF EntryConfig
<1>2. EntryConfig(e)' = Config(Bits(IsLoopFile(e)'))
  BY DEF EntryConfig, HasOpt
<1>3. \A bits : "NEED_NETWORK" \notin bits => ("NEED_NETWORK" \in Config(bits).cfg <=> remote)
  <2> HIDE DEF more
  <2> QED
    BY NeedsNetwork
<1>4. \A yes : "NEED_NETWORK" \notin Bits(yes)
  OBVIOUS
<1> HIDE DEF Config, Bits, remote
<1>5. /\ "NEED_NETWORK" \in EntryConfig(e).cfg <=> remote
      /\ "NEED_NETWORK" \in EntryConfig(e)'.cfg <=> remote
  BY <1>1, <1>2, <1>3, <1>4
<1> QED
  BY <1>5 DEF Demanded, Selected, Unmountable, IsZramEntry, HasOpt

\* Nothing is unmounted.
LEMMA TakenStays ==
  ASSUME Where, Tree, [Next]_vars, NEW dir, Taken(dir)
  PROVE  Taken(dir)'
<1>1. CASE UNCHANGED mounts
  BY <1>1 DEF Taken
<1>2. ASSUME NEW mp, NEW dev, NEW by, mounts' = Mounted(mounts, mp, dev, by)
      PROVE  Taken(dir)'
  <2>1. PICK S : mounts \in Seq(S)
    BY DEF Tree
  <2> DEFINE r == [mp |-> mp, dev |-> dev, by |-> by]
  <2>2. mounts' = Append(mounts, r)
    BY <1>2 DEF Mounted
  <2> HIDE DEF r
  <2>3. /\ Len(mounts) \in Nat
        /\ DOMAIN mounts = 1..Len(mounts) /\ DOMAIN mounts' = 1..(Len(mounts) + 1)
        /\ \A n \in 1..Len(mounts) : mounts'[n] = mounts[n]
    BY <2>1, <2>2, Appended
  <2> QED
    BY <2>3 DEF Taken
<1>3. CASE MountEntry
  <2>1. PICK r \in MountThatEntry(Entry) : mounts' = r.mounts
    BY <1>3 DEF MountEntry
  <2>2. UNCHANGED mounts \/ \E dev : mounts' = Mounted(mounts, Entry.dir, dev, File.mode)
    BY <2>1, EntryOutcome
  <2> QED
    BY <1>1, <1>2, <2>2
<1> QED
  BY <1>1, <1>2, <1>3, MountingSteps

\* An entry that has to be mounted is, unless the failure is reported.
LEMMA EntryTaken ==
  ASSUME Tree, NEW e, e.dir \in Paths, NEW r \in MountThatEntry(e), mounts' = r.mounts,
         r.code # "FAILED", Demanded(File.mode, e)
  PROVE  Taken(e.dir)'
<1>1. \/ mounts' = mounts /\ IsMounted(mounts, e.dir) = 0
      \/ \E dev : mounts' = Mounted(mounts, e.dir, dev, File.mode)
  BY EntryOutcome DEF Demanded
<1>2. CASE mounts' = mounts /\ IsMounted(mounts, e.dir) = 0
  <2>1. e.dir # << >> /\ DevOf(mounts, e.dir) # DevOf(mounts, Front(e.dir))
    BY <1>2 DEF IsMounted, ParentPath
  <2>2. IsTree(mounts)
    BY DEF Tree, IsTree
  <2>3. \E n \in DOMAIN mounts : mounts[n].mp = e.dir
    BY <2>1, <2>2, MountedIsTop
  <2> QED
    BY <1>2, <2>3 DEF Taken
<1>3. ASSUME NEW dev, mounts' = Mounted(mounts, e.dir, dev, File.mode)
      PROVE  Taken(e.dir)'
  <2>1. PICK S : mounts \in Seq(S)
    BY DEF Tree
  <2> DEFINE q == [mp |-> e.dir, dev |-> dev, by |-> File.mode]
  <2>2. mounts' = Append(mounts, q) /\ q.mp = e.dir
    BY <1>3 DEF Mounted
  <2> HIDE DEF q
  <2>3. /\ Len(mounts) \in Nat /\ DOMAIN mounts' = 1..(Len(mounts) + 1)
        /\ mounts'[Len(mounts) + 1] = q
    BY <2>1, <2>2, Appended
  <2>4. Len(mounts) + 1 \in DOMAIN mounts'
    BY <2>3
  <2> QED
    BY <2>2, <2>3, <2>4 DEF Taken
<1> QED
  BY <1>1, <1>2, <1>3

\* Every step keeps count of what has been mounted.
LEMMA DoneStep == TreeInv /\ DoneSoFar /\ [Next]_vars => DoneSoFar'
<1> SUFFICES ASSUME TreeInv, DoneSoFar, [Next]_vars PROVE DoneSoFar'
  OBVIOUS
<1>0. Where /\ Tree
  BY DEF TreeInv
<1>w. world \in Worlds /\ world' = world
  BY <1>0, WorldFrame DEF Where
<1>d. \A f, n : EntriesDone(f, n) => EntriesDone(f, n)'
  <2> TAKE f, n
  <2> HAVE EntriesDone(f, n)
  <2>1. \A m \in 1..n : Demanded(f.mode, f.entries[m])' => Taken(f.entries[m].dir)'
    BY <1>0, <1>w, DemandedFrame, TakenStays DEF EntriesDone
  <2> QED
    BY <2>1 DEF EntriesDone
<1>f. Len(Files) \in Nat
  BY <1>w, FilesOfStage
<1>e. ASSUME pc \in {"entry", "eof"}
      PROVE  /\ file \in 1..Len(Files) /\ Len(File.entries) \in Nat
             /\ i \in Nat \ {0} /\ File.mode # "none" /\ file \in Nat \ {0}
             /\ File = Files[file]
  <2>1. file \in 1..Len(Files)
    BY <1>0, <1>e, <1>f DEF Where
  <2> QED
    BY <1>0, <1>e, <1>w, <2>1, FilesOfStage DEF Where, File
<1>1. CASE pc' = "open" /\ file' = 1
  BY <1>1 DEF DoneSoFar
<1>2. CASE pc' \in {"shell", "latch"}
  BY <1>2 DEF DoneSoFar
<1>3. CASE stage' \notin FileStages /\ pc' = "open"
  <2>1. Files' = << >>
    BY <1>3 DEF Files, FileStages
  <2> QED
    BY <1>0, <1>3, <2>1, WhereStep DEF DoneSoFar, Where
<1>4. CASE OpenFile
  <2>1. Files' = Files /\ pc = "open" /\ File = Files[file] /\ file \in Nat \ {0} /\ i' = 1
    BY <1>0, <1>4, FilesFrame DEF OpenFile, File, Where
  <2>2. \A n \in 1..(file - 1) : n <= Len(Files) /\ Files[n].mode # "none" =>
         EntriesDone(Files[n], Len(Files[n].entries))'
    BY <1>d, <2>1 DEF DoneSoFar
  <2>3. CASE File.mode = "none" /\ file' = file + 1 /\ pc' = "open"
    <3>1. \A n \in 1..(file' - 1) : n = file \/ n \in 1..(file - 1)
      BY <2>1, <2>3
    <3> QED
      BY <2>1, <2>2, <2>3, <3>1 DEF DoneSoFar
  <2>4. CASE pc' = "entry" /\ file' = file
    <3>1. EntriesDone(File, i - 1)'
      BY <2>1 DEF EntriesDone
    <3> QED
      BY <2>1, <2>2, <2>4, <3>1 DEF DoneSoFar
  <2>5. CASE pc' = "eof" /\ ret' = 1 /\ file' = file
    BY <2>1, <2>2, <2>5 DEF DoneSoFar
  <2> QED
    BY <1>4, <2>3, <2>4, <2>5 DEF OpenFile
<1>5. CASE SkipEntry \/ MountEntry
  <2>1. /\ Files' = Files /\ pc = "entry" /\ pc' = "entry" /\ i' = i + 1 /\ file' = file
        /\ i <= Len(File.entries)
    BY <1>5, FilesFrame DEF SkipEntry, MountEntry
  <2>2. File' = File
    BY <2>1 DEF File
  <2>3. \A n \in 1..(file - 1) : n <= Len(Files) /\ Files[n].mode # "none" =>
         EntriesDone(Files[n], Len(Files[n].entries))'
    BY <1>d, <2>1 DEF DoneSoFar
  <2>4. PICK f, k, e : f = File /\ k = i /\ e = Entry
    OBVIOUS
  <2>5. e = f.entries[k] /\ k \in 1..Len(f.entries) /\ Len(f.entries) \in Nat
    BY <1>e, <2>1, <2>4 DEF Entry
  <2>6. ret' = 0 => EntriesDone(f, k)'
    <3> SUFFICES ASSUME ret' = 0 PROVE EntriesDone(f, k)'
      OBVIOUS
    <3>1. ret = 0
      BY <1>5 DEF SkipEntry, MountEntry, Latched
    <3>2. EntriesDone(f, k - 1)'
      BY <1>d, <2>1, <2>4, <3>1 DEF DoneSoFar
    <3>3. ASSUME Demanded(f.mode, e) PROVE Taken(e.dir)'
      <4>1. MountEntry
        BY <1>5, <2>4, <3>3 DEF SkipEntry, Demanded
      <4>2. PICK r \in MountThatEntry(e) : mounts' = r.mounts /\ ret' = Latched(ret, r.code)
        BY <2>4, <4>1 DEF MountEntry
      <4>3. r.code # "FAILED"
        BY <3>1, <4>2 DEF Latched
      <4>4. e.dir \in Paths
        <5>1. f \in {world.base, world.subtree} \cup ToSet(world.fstab)
          BY <1>e, <1>w, <2>1, <2>4, FilesOfStage
        <5>2. e \in ToSet(f.entries)
          <6>1. DOMAIN f.entries = 1..Len(f.entries)
            BY <1>e, <1>w, <2>1, <2>4, FilesOfStage
          <6> QED
            BY <2>5, <6>1 DEF ToSet
        <5> QED
          BY <1>w, <5>1, <5>2, EntryPath
      <4> QED
        BY <1>0, <2>4, <3>3, <4>2, <4>3, <4>4, EntryTaken
    <3>4. Demanded(f.mode, e)' => Taken(e.dir)'
      BY <1>w, <3>3, DemandedFrame
    <3>5. \A m \in 1..k : m = k \/ m \in 1..(k - 1)
      BY <2>5
    <3> QED
      BY <2>5, <3>2, <3>4, <3>5 DEF EntriesDone
  <2>7. i' - 1 = k
    BY <2>1, <2>4, <2>5
  <2>8. ret' = 0 => EntriesDone(File, i - 1)'
    BY <2>2, <2>4, <2>6, <2>7
  <2> QED
    BY <2>1, <2>3, <2>8 DEF DoneSoFar
<1>6. CASE EndOfFile
  <2>1. /\ Files' = Files /\ pc = "entry" /\ pc' = "eof" /\ UNCHANGED << i, file, ret >>
        /\ i = Len(File.entries) + 1
    BY <1>6, FilesFrame DEF EndOfFile
  <2>2. File' = File
    BY <2>1 DEF File
  <2>3. \A n \in 1..(file - 1) : n <= Len(Files) /\ Files[n].mode # "none" =>
         EntriesDone(Files[n], Len(Files[n].entries))'
    BY <1>d, <2>1 DEF DoneSoFar
  <2>4. ret = 0 => EntriesDone(File, i - 1)'
    BY <1>d, <2>1, <2>2 DEF DoneSoFar
  <2> QED
    BY <2>1, <2>2, <2>3, <2>4 DEF DoneSoFar
<1>7. CASE FileDone
  <2>1. CASE ret # 0
    BY <1>2, <1>7, <2>1 DEF FileDone
  <2>2. CASE ret = 0
    <3>1. /\ Files' = Files /\ pc = "eof" /\ pc' = "open" /\ file' = file + 1
      BY <1>7, <2>2, FilesFrame DEF FileDone
    <3>2. \A n \in 1..(file - 1) : n <= Len(Files) /\ Files[n].mode # "none" =>
           EntriesDone(Files[n], Len(Files[n].entries))'
      BY <1>d, <3>1 DEF DoneSoFar
    <3>3. EntriesDone(Files[file], Len(Files[file].entries))
      <4>1. EntriesDone(File, i - 1) /\ i = Len(File.entries) + 1
        BY <2>2, <3>1 DEF DoneSoFar
      <4>2. i - 1 = Len(File.entries) /\ File = Files[file]
        BY <1>e, <3>1, <4>1
      <4> QED
        BY <4>1, <4>2
    <3>4. PICK k : k = file
      OBVIOUS
    <3>5. EntriesDone(Files[k], Len(Files[k].entries))'
      BY <1>d, <3>1, <3>3, <3>4
    <3>6. \A n \in 1..(file' - 1) : n = k \/ n \in 1..(file - 1)
      BY <1>e, <3>1, <3>4
    <3> QED
      BY <3>1, <3>2, <3>5, <3>6 DEF DoneSoFar
  <2> QED
    BY <2>1, <2>2
<1>8. CASE UNCHANGED << stage, pc, file, i, ret >> /\ pc \notin {"entry", "eof"}
  <2>1. Files' = Files
    BY <1>8, <1>w, FilesFrame
  <2>2. pc = "open" => \A n \in 1..(file - 1) : n <= Len(Files) /\ Files[n].mode # "none" =>
         EntriesDone(Files[n], Len(Files[n].entries))'
    BY <1>d, <2>1 DEF DoneSoFar
  <2> QED
    BY <1>8, <2>1, <2>2 DEF DoneSoFar
<1>9. CASE UNCHANGED vars
  <2>1. Files' = Files /\ UNCHANGED << pc, file, i, ret, made, mounts >>
    BY <1>9, FilesFrame DEF vars
  <2>2. File' = File
    BY <2>1 DEF File
  <2>3. \A n \in 1..(file - 1) : n <= Len(Files) /\ Files[n].mode # "none" /\ pc \in {"open", "entry", "eof"} =>
         EntriesDone(Files[n], Len(Files[n].entries))'
    BY <1>d, <2>1 DEF DoneSoFar
  <2>4. pc \in {"entry", "eof"} /\ ret = 0 => EntriesDone(File, i - 1)'
    BY <1>d, <2>1, <2>2 DEF DoneSoFar
  <2> QED
    BY <2>1, <2>2, <2>3, <2>4 DEF DoneSoFar
<1>10. CASE StageDone \/ LatchRetry \/ LatchGoOn \/ LatchGiveUp \/ LeftOut
  BY <1>1, <1>10 DEF StageDone, LatchRetry, LatchGoOn, LatchGiveUp, LeftOut, NextStage, GiveUp
<1>11. CASE EssentialShell
  BY <1>1, <1>2, <1>11 DEF EssentialShell
<1>12. CASE MountByHand
  BY <1>2, <1>12 DEF MountByHand
<1>13. CASE MountTmpdir
  BY <1>1, <1>2, <1>3, <1>13 DEF MountTmpdir, NextStage, FileStages
<1>14. CASE UserTmpdirs
  <2>1. pc = "open"
    BY <1>0, <1>14 DEF UserTmpdirs, Where, FileStages
  <2> QED
    BY <1>3, <1>14, <2>1 DEF UserTmpdirs, FileStages
<1> QED
  BY <1>4, <1>5, <1>6, <1>7, <1>9, <1>10, <1>11, <1>12, <1>13, <1>14 DEF Next

\* _initramfs_premount_all__mount keeps the first failure in retcode, and a stage
\* goes on after a file only if there was none: when it returns 0, whether at once
\* or after retries, each entry that has to be mounted is.
THEOREM ZeroMeansMounted == Spec => ReturnsZeroWhenMounted
<1>1. Init => DoneSoFar
  BY DEF Init, DoneSoFar
<1>2. TreeInv /\ DoneSoFar /\ [Next]_vars =>
        [pc = "open" /\ stage' # stage /\ stage \notin world.leaveout =>
           \A f \in ToSet(Files) : f.mode # "none" =>
             \A e \in ToSet(f.entries) : Demanded(f.mode, e) =>
               \E n \in DOMAIN mounts : mounts[n].mp = e.dir]_vars
  <2> SUFFICES ASSUME TreeInv, DoneSoFar, Next,
                      pc = "open", stage' # stage, stage \notin world.leaveout,
                      NEW f \in ToSet(Files), f.mode # "none",
                      NEW e \in ToSet(f.entries), Demanded(f.mode, e)
               PROVE  Taken(e.dir)
    BY DEF Taken
  <2>1. world \in Worlds /\ file \in Nat
    BY DEF TreeInv, Where
  <2>2. /\ Len(Files) \in Nat /\ DOMAIN Files = 1..Len(Files)
        /\ stage \notin FileStages => Len(Files) = 0
        /\ \A n \in 1..Len(Files) : DOMAIN Files[n].entries = 1..Len(Files[n].entries)
    BY <2>1, FilesOfStage
  <2>3. PICK k \in 1..Len(Files) : f = Files[k]
    BY <2>2 DEF ToSet
  <2>4. stage \in FileStages
    BY <2>2, <2>3
  <2>5. StageDone
    BY <2>4 DEF Next, OpenFile, SkipEntry, MountEntry, EndOfFile, FileDone, EssentialShell,
       LatchRetry, LatchGoOn, LatchGiveUp, MountByHand, MountTmpdir, LeftOut, UserTmpdirs,
       FileStages
  <2>6. k \in 1..(file - 1)
    BY <2>1, <2>2, <2>3, <2>5 DEF StageDone
  <2>7. EntriesDone(f, Len(f.entries))
    BY <2>3, <2>6 DEF DoneSoFar
  <2>8. PICK n \in 1..Len(f.entries) : e = f.entries[n]
    BY <2>2, <2>3 DEF ToSet
  <2> QED
    BY <2>7, <2>8 DEF EntriesDone
<1> QED
  BY <1>1, <1>2, DoneStep, TreeInvariant, PTL DEF Spec, ReturnsZeroWhenMounted
===============================================================================
