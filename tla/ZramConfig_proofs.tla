--------------------------- MODULE ZramConfig_proofs ---------------------------
(***************************************************************************)
(* Proofs about ZramConfig: how much of the memory becomes swap space, and  *)
(* how size, mode and flags get from the call to the mount.                 *)
(***************************************************************************)
EXTENDS ZramConfig, SequenceTheorems, NaturalsInduction, WellFoundedInduction, TLAPS

-------------------------------------------------------------------------------
(* Swap space.                                                                *)

SwapPcs == {"autoswap", "claimswaps", "mkswap", "swapon", "done", "crash"}

\* Until zram_autoswap has computed the size there is nothing; from then on the
\* size is the one it has computed, and no more devices are in use than were
\* asked for.
SwapProgress ==
  /\ pc \in SwapPcs /\ app.size = call.size
  /\ swaps.claimed \in Int /\ swaps.made \in Nat /\ swaps.on \in Nat
  /\ app.size.suffix = "/" => swaps.size \in Int
  /\ \/ swaps.on = 0
     \/ /\ swaps.on <= call.num /\ call.num >= 1
        /\ swaps.size = SwapSize
  /\ pc \in {"autoswap", "claimswaps", "mkswap"} => swaps.on = 0
  /\ pc \in {"claimswaps", "mkswap", "swapon"} =>
       call.num >= 1 /\ swaps.size = SwapSize
  /\ pc \in {"mkswap", "swapon"} => swaps.claimed = call.num % Byte
  /\ pc = "crash" => call.num >= Byte

\* The counters are those of a call of zram_autoswap.
SwapInv ==
  /\ call \in Calls /\ mem \in MemSizes
  /\ swaps = [size |-> swaps.size, claimed |-> swaps.claimed,
              made |-> swaps.made, on |-> swaps.on]
  /\ call.op # "swap" => pc \notin SwapPcs \ {"done"}
  /\ call.op = "swap" => SwapProgress

\* The integer division of calculate_zram_autoswap_size: num shares of the
\* fraction, and so k <= num of them, are no more than the fraction.
LEMMA SharesFit ==
  ASSUME NEW m \in Nat, NEW n \in Nat \ {0}, NEW num \in Nat \ {0},
         NEW k \in Nat, k <= num
  PROVE  k * (m \div (num * n)) <= m \div n
<1> DEFINE d == num * n
           q == m \div d
           p == num * q
<1>1. d \in Nat \ {0}
  OBVIOUS
<1>2. q \in Nat /\ d * q <= m
  <2> HIDE DEF d
  <2> QED
    BY <1>1
<1>3. p \in Nat /\ n * p = d * q
  BY <1>2
<1>4. k * q <= p
  <2> HIDE DEF q
  <2> QED
    BY <1>2
<1>5. p <= m \div n
  <2> HIDE DEF p, q, d
  <2>1. m \div n \in Nat /\ m < n * (m \div n) + n
    OBVIOUS
  <2>2. n * p < n * (m \div n + 1)
    BY <1>2, <1>3, <2>1
  <2>3. p < m \div n + 1
    BY <1>3, <2>1, <2>2
  <2> QED
    BY <1>3, <2>1, <2>3
<1>6. k * q \in Nat /\ m \div n \in Nat
  <2> HIDE DEF q
  <2> QED
    BY <1>2
<1> QED
  <2> HIDE DEF p
  <2> QED
    BY <1>3, <1>4, <1>5, <1>6

\* Every step keeps the counters within what has been asked for.
LEMMA SwapStep == SwapInv /\ [Next]_vars => SwapInv'
<1> SUFFICES ASSUME SwapInv, [Next]_vars PROVE SwapInv'
  OBVIOUS
<1>a. /\ call.num \in Int /\ Byte \in Nat \ {0}
      /\ call.num < Byte /\ call.num >= 0 => call.num % Byte = call.num
      /\ call.num % Byte \in Int
  BY ZramConfigAssumption DEF SwapInv
<1>b. call' = call /\ mem' = mem
  BY DEF Next, vars, Getopt, Ztmpfs, ParseFlags, ParseOpt, ParseEnd, DiskSimple,
         ClaimDisk, Mkfs, ReleaseUnformatted, MountDisk, SetOwner, FreeDev,
         NormalTmpfs, Autoswap, ClaimSwaps, Mkswap, Swapon, SwapLoop
<1>1. CASE call.op # "swap" /\ UNCHANGED swaps /\ pc' \notin SwapPcs \ {"done"}
  BY <1>1, <1>b DEF SwapInv
<1>2. CASE UNCHANGED vars
  BY <1>2 DEF SwapInv, SwapProgress, SwapSize, AutoswapSize, vars
<1>3. CASE Autoswap
  <2> SUFFICES ASSUME call.op = "swap" PROVE SwapInv'
    BY <1>3 DEF SwapInv, Autoswap, SwapPcs
  <2>1. /\ app' = app /\ SwapSize' = SwapSize
        /\ swaps' = [swaps EXCEPT !.size = SwapSize]
        /\ \/ pc' = "done"
           \/ pc' = "claimswaps" /\ ~(call.num < 1)
        /\ pc = "autoswap"
    BY <1>3 DEF Autoswap, Return, Goto, SwapSize, AutoswapSize
  <2>2. app.size.suffix = "/" => SwapSize \in Int
    <3>1. call.size.n \in Int /\ mem \in Nat
      BY ZramConfigAssumption DEF SwapInv
    <3>2. app.size = call.size
      BY DEF SwapInv, SwapProgress
    <3> QED
      BY <1>a, <3>1, <3>2 DEF SwapSize, AutoswapSize, NoSize
  <2> QED
    BY <1>a, <1>b, <2>1, <2>2 DEF SwapInv, SwapProgress, SwapPcs
<1>4. CASE ClaimSwaps
  <2> SUFFICES ASSUME call.op = "swap" PROVE SwapInv'
    BY <1>4 DEF SwapInv, ClaimSwaps, SwapPcs
  <2>1. /\ app' = app /\ SwapSize' = SwapSize /\ pc = "claimswaps"
        /\ \/ pc' = "done" /\ swaps' = swaps
           \/ pc' = "mkswap" /\ swaps' = [swaps EXCEPT !.claimed = call.num % Byte]
    BY <1>4 DEF ClaimSwaps, Return, Goto, SwapSize, AutoswapSize
  <2> QED
    BY <1>a, <1>b, <2>1 DEF SwapInv, SwapProgress, SwapPcs
<1>5. CASE Mkswap
  <2> SUFFICES ASSUME call.op = "swap" PROVE SwapInv'
    BY <1>5 DEF SwapInv, Mkswap, SwapLoop, SwapPcs
  <2>1. /\ app' = app /\ SwapSize' = SwapSize /\ pc = "mkswap"
        /\ \/ pc' = "mkswap" /\ swaps' = [swaps EXCEPT !.made = @ + 1]
           \/ pc' = "done" /\ swaps' = [swaps EXCEPT !.on = 0]
           \/ /\ pc' = "crash" /\ swaps' = swaps
              /\ swaps.made < call.num /\ swaps.made >= swaps.claimed
           \/ pc' = "swapon" /\ swaps' = swaps
    BY <1>5 DEF Mkswap, SwapLoop, LoopEnd, Return, Goto, SwapSize, AutoswapSize
  <2> QED
    BY <1>a, <1>b, <2>1 DEF SwapInv, SwapProgress, SwapPcs
<1>6. CASE Swapon
  <2> SUFFICES ASSUME call.op = "swap" PROVE SwapInv'
    BY <1>6 DEF SwapInv, Swapon, SwapLoop, SwapPcs
  <2>1. /\ app' = app /\ SwapSize' = SwapSize /\ pc = "swapon"
        /\ \/ /\ pc' = "swapon" /\ swaps' = [swaps EXCEPT !.on = @ + 1]
              /\ swaps.on < call.num
           \/ pc' = "done" /\ swaps' = [swaps EXCEPT !.on = 0]
           \/ /\ pc' = "crash" /\ swaps' = swaps
              /\ swaps.on < call.num /\ swaps.on >= swaps.claimed
           \/ pc' = "done" /\ swaps' = swaps
    BY <1>6 DEF Swapon, SwapLoop, LoopEnd, Return, Goto, SwapSize, AutoswapSize
  <2> QED
    BY <1>a, <1>b, <2>1 DEF SwapInv, SwapProgress, SwapPcs
<1>7. \/ call.op # "swap" /\ UNCHANGED swaps /\ pc' \notin SwapPcs \ {"done"}
      \/ UNCHANGED vars \/ Autoswap \/ ClaimSwaps \/ Mkswap \/ Swapon
  BY DEF Next, Getopt, Ztmpfs, ParseFlags, ParseOpt, ParseEnd, DiskSimple, ClaimDisk,
         Mkfs, ReleaseUnformatted, MountDisk, SetOwner, FreeDev, NormalTmpfs, NoDisk,
         Return, Goto, SwapInv, SwapProgress, SwapPcs
<1> QED
  BY <1>1, <1>2, <1>3, <1>4, <1>5, <1>6, <1>7

\* zram_autoswap with a fraction of the memory: the devices in use never take
\* more than that fraction, for every number of devices and every size of the
\* memory, and no slot without a device is touched while the number fits a
\* uint8_t.
THEOREM WithinFraction == Spec => []SwapWithinFraction
<1>1. Init => SwapInv
  BY ZramConfigAssumption DEF Init, Start, SwapInv, SwapProgress, SwapPcs
<1>2. SwapInv => SwapWithinFraction
  <2> SUFFICES ASSUME SwapInv, call.op = "swap"
               PROVE  /\ app.size.suffix = "/" /\ app.size.n > 0 =>
                           swaps.on * swaps.size <= mem \div app.size.n
                      /\ call.num < Byte => pc # "crash"
    BY DEF SwapWithinFraction
  <2> DEFINE n == app.size.n
  <2>1. n \in Int /\ call.num \in Int /\ mem \in Nat /\ swaps.on \in Nat
    BY ZramConfigAssumption DEF SwapInv, SwapProgress
  <2>2. call.num < Byte => pc # "crash"
    BY <2>1, ZramConfigAssumption DEF SwapInv, SwapProgress
  <2>3. ASSUME app.size.suffix = "/", n > 0
        PROVE  swaps.on * swaps.size <= mem \div n
    <3>1. mem \div n \in Nat
      BY <2>1, <2>3
    <3>2. CASE swaps.on = 0
      BY <2>3, <3>1, <3>2 DEF SwapInv, SwapProgress
    <3>3. CASE swaps.on # 0
      <4>1. swaps.on <= call.num /\ call.num \in Nat \ {0} /\ swaps.size = SwapSize
        BY <2>1, <3>3 DEF SwapInv, SwapProgress
      <4>2. SwapSize = 0 \/ SwapSize = mem \div (call.num * n)
        BY <2>3, <4>1 DEF SwapSize, AutoswapSize, NoSize
      <4>3. swaps.on * (mem \div (call.num * n)) <= mem \div n
        <5>1. n \in Nat \ {0}
          BY <2>1, <2>3
        <5> HIDE DEF n
        <5> QED
          BY <2>1, <4>1, <5>1, SharesFit, Zenon
      <4> QED
        BY <2>1, <3>1, <4>1, <4>2, <4>3
    <3> QED
      BY <3>2, <3>3
  <2> QED
    BY <2>2, <2>3
<1> QED
  BY <1>1, <1>2, SwapStep, PTL DEF Spec

-------------------------------------------------------------------------------
(* Sequences of words.                                                        *)

\* A set of natural numbers has a least element.
LEMMA Least ==
  ASSUME NEW S \in SUBSET Nat, S # {}
  PROVE  \E n \in S : \A m \in S : n <= m
<1> DEFINE R == OpToRel(<, Nat)
<1>1. IsWellFoundedOn(R, Nat)
  BY NatLessThanWellFounded
<1>2. PICK x \in S : \A y \in S : ~ (<< y, x >> \in R)
  <2> HIDE DEF R
  <2> QED
    BY <1>1, WFMin
<1>3. \A y \in S : << y, x >> \in R <=> y < x
  BY DEF OpToRel
<1>4. \A y \in S : y \in Nat /\ x \in Nat /\ ~(y < x)
  <2> HIDE DEF R
  <2> QED
    BY <1>2, <1>3
<1> QED
  BY <1>4

\* Induction up to N, with a set for the predicate.
LEMMA UpTo ==
  ASSUME NEW N \in Nat, NEW S, 0 \in S,
         \A n \in 0..N : n + 1 \in 0..N /\ n \in S => n + 1 \in S
  PROVE  \A n \in 0..N : n \in S
<1> SUFFICES ASSUME (0..N) \ S # {} PROVE FALSE
  OBVIOUS
<1>1. (0..N) \ S \in SUBSET Nat
  OBVIOUS
<1>2. PICK n \in (0..N) \ S : \A m \in (0..N) \ S : n <= m
  BY <1>1, Least
<1>3. n \in Nat /\ n # 0 /\ n - 1 \in 0..N
  BY <1>2
<1>4. n - 1 \in S
  BY <1>2, <1>3
<1> QED
  BY <1>2, <1>3, <1>4

\* A set of positions that is not empty has a last one.
LEMMA Greatest ==
  ASSUME NEW n \in Nat, NEW S \in SUBSET (1..n), S # {}
  PROVE  Max(S) \in S /\ \A j \in S : j <= Max(S)
<1> DEFINE T == {n - i : i \in S}
<1>1. \A i \in S : i \in Nat /\ n - i \in Nat
  OBVIOUS
<1>2. T \in SUBSET Nat /\ T # {}
  BY <1>1
<1>3. PICK t \in T : \A u \in T : t <= u
  BY <1>2, Least
<1>4. PICK i \in S : t = n - i
  BY <1>3
<1>5. \A j \in S : i >= j
  BY <1>1, <1>3, <1>4
<1>6. PICK x : x = Max(S)
  OBVIOUS
<1>7. x \in S /\ \A y \in S : x >= y
  BY <1>5, <1>6 DEF Max
<1> QED
  BY <1>1, <1>6, <1>7

\* The last of S in a sequence is one of S; there is none in the empty one.
LEMMA LastOfNone ==
  ASSUME NEW S, NEW d
  PROVE  LastIn(<< >>, S, d) = d
BY DEF LastIn, Places

\* One more element is the last of S if it is one of S, and else changes nothing.
LEMMA LastOfMore ==
  ASSUME NEW A, NEW s \in Seq(A), NEW w \in A, NEW S, NEW d
  PROVE  LastIn(Append(s, w), S, d) = IF w \in S THEN w ELSE LastIn(s, S, d)
<1> DEFINE n == Len(s)
<1>1. PICK t : t = Append(s, w)
  OBVIOUS
<1>2. /\ n \in Nat /\ DOMAIN s = 1..n /\ DOMAIN t = 1..(n+1)
      /\ t[n+1] = w /\ \A i \in 1..n : t[i] = s[i]
  BY <1>1
<1>3. \A i : i \in 1..(n+1) <=> i \in 1..n \/ i = n + 1
  BY <1>2
<1>4. PICK P, Q : P = Places(s, S) /\ Q = Places(t, S)
  OBVIOUS
<1>5. /\ \A i : i \in P <=> i \in 1..n /\ s[i] \in S
      /\ \A i : i \in Q <=> i \in 1..(n+1) /\ t[i] \in S
  BY <1>2, <1>4 DEF Places
<1>6. /\ LastIn(s, S, d) = IF P = {} THEN d ELSE s[Max(P)]
      /\ LastIn(t, S, d) = IF Q = {} THEN d ELSE t[Max(Q)]
  BY <1>4 DEF LastIn
<1>7. CASE w \in S
  <2>1. n + 1 \in Q /\ Q \in SUBSET (1..(n+1)) /\ n + 1 \in Nat
    BY <1>2, <1>3, <1>5, <1>7
  <2>2. Max(Q) \in Q /\ \A j \in Q : j <= Max(Q)
    BY <2>1, Greatest
  <2>3. Max(Q) = n + 1
    <3>1. PICK x : x = Max(Q)
      OBVIOUS
    <3>2. x \in 1..(n+1) /\ n + 1 <= x
      BY <2>1, <2>2, <3>1
    <3> QED
      BY <1>2, <3>1, <3>2
  <2> QED
    BY <1>1, <1>2, <1>6, <1>7, <2>1, <2>3
<1>8. CASE w \notin S
  <2>1. \A i : i \in Q <=> i \in P
    BY <1>2, <1>3, <1>5, <1>8
  <2>2. P = Q /\ P \in SUBSET (1..n)
    BY <1>5, <2>1
  <2>3. P # {} => Max(P) \in P
    BY <1>2, <2>2, Greatest
  <2>4. P # {} => t[Max(P)] = s[Max(P)]
    BY <1>2, <2>2, <2>3
  <2> QED
    BY <1>1, <1>6, <1>8, <2>2, <2>4
<1> QED
  BY <1>7, <1>8

\* What the last of S is: the default, or one of S and of the sequence.
LEMMA LastIsOne ==
  ASSUME NEW A, NEW s \in Seq(A), NEW S, NEW d
  PROVE  \/ LastIn(s, S, d) = d /\ \A i \in DOMAIN s : s[i] \notin S
         \/ LastIn(s, S, d) \in S /\ \E i \in DOMAIN s : s[i] = LastIn(s, S, d)
<1> DEFINE n == Len(s)
<1>1. n \in Nat /\ DOMAIN s = 1..n
  OBVIOUS
<1>2. PICK P : P = Places(s, S)
  OBVIOUS
<1>3. \A i : i \in P <=> i \in DOMAIN s /\ s[i] \in S
  BY <1>2 DEF Places
<1>4. LastIn(s, S, d) = IF P = {} THEN d ELSE s[Max(P)]
  BY <1>2 DEF LastIn
<1>5. P # {} => Max(P) \in P
  <2>1. P \in SUBSET (1..n)
    BY <1>1, <1>3
  <2> QED
    BY <1>1, <2>1, Greatest
<1> QED
  BY <1>3, <1>4, <1>5

\* From one sequence to another, an element at a time.
LEMMA Shift ==
  ASSUME NEW A, NEW s \in Seq(A), NEW t \in Seq(A), t # << >>
  PROVE  Append(s, Head(t)) \o Tail(t) = s \o t
<1>1. /\ Head(t) \in A /\ Head(t) = t[1] /\ Tail(t) \in Seq(A) /\ Len(Tail(t)) = Len(t) - 1
      /\ \A i \in 1..Len(Tail(t)) : Tail(t)[i] = t[i+1]
  OBVIOUS
<1>2. PICK u, v, h : u = Append(s, h) /\ v = Tail(t) /\ h = Head(t)
  OBVIOUS
<1>3. /\ u \in Seq(A) /\ Len(u) = Len(s) + 1 /\ u[Len(s)+1] = t[1]
      /\ \A i \in 1..Len(s) : u[i] = s[i]
  BY <1>1, <1>2, AppendProperties
<1>4. /\ v \in Seq(A) /\ Len(v) = Len(t) - 1 /\ \A i \in 1..Len(v) : v[i] = t[i+1]
  BY <1>1, <1>2
<1>5. PICK a, b : a = u \o v /\ b = s \o t
  OBVIOUS
<1>6. /\ a \in Seq(A) /\ Len(a) = Len(u) + Len(v)
      /\ \A i \in 1..(Len(u) + Len(v)) : a[i] = IF i <= Len(u) THEN u[i] ELSE v[i - Len(u)]
  BY <1>3, <1>4, <1>5, ConcatProperties
<1>7. /\ b \in Seq(A) /\ Len(b) = Len(s) + Len(t)
      /\ \A i \in 1..(Len(s) + Len(t)) : b[i] = IF i <= Len(s) THEN s[i] ELSE t[i - Len(s)]
  BY <1>5, ConcatProperties
<1>8. Len(s) \in Nat /\ Len(t) \in Nat
  OBVIOUS
<1>9. ASSUME NEW i \in 1..Len(a) PROVE a[i] = b[i]
  <2>0. i \in 1..(Len(s) + Len(t)) /\ Len(u) + Len(v) = Len(s) + Len(t)
    BY <1>3, <1>4, <1>6, <1>8
  <2>a. /\ a[i] = IF i <= Len(s) + 1 THEN u[i] ELSE v[i - (Len(s) + 1)]
        /\ b[i] = IF i <= Len(s) THEN s[i] ELSE t[i - Len(s)]
    BY <1>3, <1>6, <1>7, <2>0
  <2>1. CASE i <= Len(s)
    <3>1. i \in 1..Len(s) /\ i <= Len(s) + 1
      BY <1>8, <2>0, <2>1
    <3> QED
      BY <1>3, <2>1, <2>a, <3>1
  <2>2. CASE i = Len(s) + 1
    <3>1. a[i] = u[i] /\ b[i] = t[i - Len(s)] /\ i - Len(s) = 1
      BY <1>8, <2>a, <2>2
    <3> QED
      BY <1>3, <2>2, <3>1
  <2>3. CASE i > Len(s) + 1
    <3>1. a[i] = v[i - Len(u)] /\ b[i] = t[i - Len(s)]
      BY <1>3, <1>8, <2>0, <2>a, <2>3
    <3>2. i - Len(u) \in 1..Len(v) /\ (i - Len(u)) + 1 = i - Len(s)
      BY <1>3, <1>4, <1>6, <1>8, <2>3
    <3> QED
      BY <1>4, <3>1, <3>2
  <2> QED
    BY <1>8, <2>1, <2>2, <2>3
<1>10. a = b
  <2>1. Len(a) = Len(b)
    BY <1>3, <1>4, <1>6, <1>7, <1>8
  <2> QED
    BY <1>6, <1>7, <1>9, <2>1, SeqEqual
<1> QED
  BY <1>2, <1>5, <1>10

-------------------------------------------------------------------------------
(* parse_mount_opts_str.                                                      *)

\* ParseSteps is the loop it is written as.
LEMMA ParseLoop ==
  ASSUME NEW words, Len(words) \in Nat
  PROVE  /\ ParseSteps(words)[0] = [flags |-> {}, opts |-> << >>]
         /\ \A n \in 1..Len(words) :
              ParseSteps(words)[n] = ParseWord(ParseSteps(words)[n-1], words[n])
<1> DEFINE N == Len(words)
           E == [flags |-> {}, opts |-> << >>]
           F(f, M) == [n \in 0..M |-> IF n = 0 THEN E ELSE ParseWord(f[n-1], words[n])]
           S == {M \in 0..N : \E f : f = F(f, M)}
<1>1. 0 \in S
  <2>1. PICK f : f = [n \in 0..0 |-> E]
    OBVIOUS
  <2>2. f = F(f, 0)
    <3> HIDE DEF E
    <3> QED
      BY <2>1
  <2>3. 0 \in 0..N
    OBVIOUS
  <2> HIDE DEF F
  <2> QED
    BY <2>2, <2>3
<1>2. ASSUME NEW M \in 0..N, M + 1 \in 0..N, M \in S PROVE M + 1 \in S
  <2>1. PICK f : f = F(f, M)
    BY <1>2
  <2>2. PICK h : h = [n \in 0..(M+1) |->
                        IF n = M + 1 THEN ParseWord(f[M], words[M+1]) ELSE f[n]]
    OBVIOUS
  <2> HIDE DEF E
  <2>3. \A n \in 0..M : h[n] = f[n]
    BY <2>2
  <2>4. \A n \in 0..M : f[n] = IF n = 0 THEN E ELSE ParseWord(f[n-1], words[n])
    BY <2>1
  <2>5. M \in Nat /\ \A n \in 0..(M+1) : n = M + 1 \/ n \in 0..M
    OBVIOUS
  <2>6. \A n \in 0..M : n # 0 => n - 1 \in 0..M
    OBVIOUS
  <2>7. \A n \in 0..M : h[n] = IF n = 0 THEN E ELSE ParseWord(h[n-1], words[n])
    BY <2>3, <2>4, <2>6
  <2>8. h[M+1] = ParseWord(h[M], words[M+1]) /\ M + 1 # 0 /\ (M + 1) - 1 = M
    BY <2>2, <2>3, <2>5
  <2>9. \A n \in 0..(M+1) : h[n] = IF n = 0 THEN E ELSE ParseWord(h[n-1], words[n])
    BY <2>5, <2>7, <2>8
  <2>10. h = F(h, M + 1)
    BY <2>2, <2>9
  <2> QED
    BY <1>2, <2>10
<1>3. N \in S
  <2>1. N \in Nat /\ N \in 0..N
    OBVIOUS
  <2> HIDE DEF S, N
  <2> QED
    BY <1>1, <1>2, <2>1, UpTo
<1>4. PICK f : f = F(f, N)
  BY <1>3
<1>5. ParseSteps(words) = F(ParseSteps(words), N)
  BY <1>4 DEF ParseSteps
<1> HIDE DEF E
<1>6. ParseSteps(words)[0] = E
  BY <1>5
<1>7. \A n \in 1..Len(words) : ParseSteps(words)[n] = ParseWord(ParseSteps(words)[n-1], words[n])
  BY <1>5
<1> QED
  BY <1>6, <1>7 DEF E

\* What the loop works on: flags and options.
IsParsed(acc) == acc = [flags |-> acc.flags, opts |-> acc.opts]

\* No word both sets and clears a flag.
LEMMA SetsOrClears ==
  /\ \A w \in DOMAIN Sets : w \notin DOMAIN Clears /\ w \notin Ignored
  /\ \A w \in DOMAIN Clears : w \notin Ignored
BY DEF Sets, Clears, Ignored

\* What one word does to the flags and to the options.
LEMMA WordResult ==
  ASSUME NEW acc, NEW w, IsParsed(acc)
  PROVE  /\ IsParsed(ParseWord(acc, w))
         /\ w \in DOMAIN Sets => /\ ParseWord(acc, w).flags = acc.flags \cup {Sets[w]}
                                 /\ ParseWord(acc, w).opts = acc.opts
         /\ w \in DOMAIN Clears => /\ ParseWord(acc, w).flags = acc.flags \ {Clears[w]}
                                   /\ ParseWord(acc, w).opts = acc.opts
         /\ w \notin DOMAIN Sets \cup DOMAIN Clears => ParseWord(acc, w).flags = acc.flags
         /\ w \in Ignored \cup {EmptyString} /\ w \notin DOMAIN Sets \cup DOMAIN Clears =>
              ParseWord(acc, w).opts = acc.opts
         /\ w \notin DOMAIN Sets \cup DOMAIN Clears \cup Ignored \cup {EmptyString} =>
              ParseWord(acc, w).opts = Append(acc.opts, w)
<1> DEFINE A == DOMAIN Sets
           B == DOMAIN Clears
           C == Ignored \cup {EmptyString}
           set == [acc EXCEPT !.flags = @ \cup {Sets[w]}]
           clear == [acc EXCEPT !.flags = @ \ {Clears[w]}]
           add == [acc EXCEPT !.opts = Append(@, w)]
<1>1. /\ w \in A => ParseWord(acc, w) = set
      /\ w \in B => ParseWord(acc, w) = clear
      /\ w \notin A /\ w \notin B /\ w \in C => ParseWord(acc, w) = acc
      /\ w \notin A /\ w \notin B /\ w \notin C => ParseWord(acc, w) = add
  <2>1. w \in A => w \notin B /\ w \notin Ignored
    BY SetsOrClears
  <2>2. w \in B => w \notin Ignored
    BY SetsOrClears
  <2>3. w \in A => w # EmptyString
    BY DEF Sets, EmptyString
  <2>4. w \in B => w # EmptyString
    BY DEF Clears, EmptyString
  <2>5. CASE w \in A
    BY <2>1, <2>3, <2>5 DEF ParseWord
  <2>6. CASE w \in B
    BY <2>1, <2>2, <2>4, <2>6 DEF ParseWord
  <2>7. CASE w \notin A /\ w \notin B /\ w \in C
    BY <2>7 DEF ParseWord
  <2>8. CASE w \notin A /\ w \notin B /\ w \notin C
    BY <2>8 DEF ParseWord
  <2> QED
    BY <2>5, <2>6, <2>7, <2>8
<1>2. \A x, y : LET r == [flags |-> x, opts |-> y]
                IN  r.flags = x /\ r.opts = y /\ IsParsed(r)
  BY DEF IsParsed
<1>3. /\ set = [flags |-> acc.flags \cup {Sets[w]}, opts |-> acc.opts]
      /\ clear = [flags |-> acc.flags \ {Clears[w]}, opts |-> acc.opts]
      /\ add = [flags |-> acc.flags, opts |-> Append(acc.opts, w)]
  <2>1. PICK fl, op : fl = acc.flags /\ op = acc.opts
    OBVIOUS
  <2>2. acc = [flags |-> fl, opts |-> op]
    BY <2>1 DEF IsParsed
  <2>3. \A v : [acc EXCEPT !.flags = v] = [flags |-> v, opts |-> op]
    BY <2>2
  <2>4. \A v : [acc EXCEPT !.opts = v] = [flags |-> fl, opts |-> v]
    BY <2>2
  <2> QED
    BY <2>1, <2>3, <2>4, Zenon
<1> HIDE DEF A, B, C, set, clear, add
<1> QED
  BY <1>1, <1>2, <1>3, SetsOrClears DEF A, B, C

\* The words about the read-only flag.
LEMMA ReadonlyWords ==
  /\ "ro" \in DOMAIN Sets /\ "rw" \in DOMAIN Clears
  /\ \A w \in DOMAIN Sets : Sets[w] = "RDONLY" <=> w = "ro"
  /\ \A w \in DOMAIN Clears : Clears[w] = "RDONLY" <=> w = "rw"
BY DEF Sets, Clears

\* The words that are not kept as options.
FlagWords == DOMAIN Sets \cup DOMAIN Clears \cup Ignored \cup {EmptyString}

\* The options keep their order: the last of a kind that is no flag stays the last.
\* The file system is read-only if the last word about that says so.
LEMMA ParsedWords ==
  ASSUME NEW A, NEW ws \in Seq(A), NEW S, \A w \in S : w \notin FlagWords, NEW d
  PROVE  /\ ParseMountOpts(ws).opts \in Seq(A)
         /\ LastIn(ParseMountOpts(ws).opts, S, d) = LastIn(ws, S, d)
         /\ "RDONLY" \in ParseMountOpts(ws).flags <=> LastIn(ws, {"ro", "rw"}, "rw") = "ro"
<1> DEFINE N == Len(ws)
           first(n) == SubSeq(ws, 1, n)
           Good(a, f) == /\ IsParsed(a) /\ a.opts \in Seq(A) /\ f \in Seq(A)
                         /\ LastIn(a.opts, S, d) = LastIn(f, S, d)
                         /\ "RDONLY" \in a.flags <=> LastIn(f, {"ro", "rw"}, "rw") = "ro"
           G == {n \in 0..N : Good(ParseSteps(ws)[n], first(n))}
<1>0. N \in Nat /\ N \in 0..N
  OBVIOUS
<1>1. 0 \in G
  <2>1. ParseSteps(ws)[0] = [flags |-> {}, opts |-> << >>]
    BY <1>0, ParseLoop
  <2>2. first(0) = << >>
    BY SubSeqEmpty
  <2>3. PICK a, f : a = ParseSteps(ws)[0] /\ f = first(0)
    OBVIOUS
  <2>4. IsParsed(a) /\ a.opts = << >> /\ a.flags = {} /\ f = << >>
    BY <2>1, <2>2, <2>3 DEF IsParsed
  <2>5. "rw" # "ro"
    OBVIOUS
  <2>6. Good(a, f)
    BY <2>4, <2>5, LastOfNone
  <2> HIDE DEF Good, first
  <2> QED
    BY <1>0, <2>3, <2>6
<1>2. ASSUME NEW n \in 0..N, n + 1 \in 0..N, n \in G PROVE n + 1 \in G
  <2>1. PICK a, b, f, e, w : /\ a = ParseSteps(ws)[n] /\ b = ParseSteps(ws)[n+1]
                             /\ f = first(n) /\ e = first(n+1) /\ w = ws[n+1]
    OBVIOUS
  <2>2. n + 1 \in 1..N /\ (n + 1) - 1 = n /\ n \in Nat /\ 1 \in 1..N /\ n + 1 \in 1..Len(ws)
    BY <1>0, <1>2
  <2>3. b = ParseWord(a, w) /\ w \in A
    BY <1>0, <2>1, <2>2, ParseLoop
  <2>4. Good(a, f)
    BY <1>2, <2>1
  <2>5. e = Append(f, w)
    <3>1. e = f \o << w >>
      BY <2>1, <2>2, SubSeqRecursiveSecond
    <3> QED
      BY <2>3, <2>4, <3>1, AppendIsConcat
  <2>6. e \in Seq(A)
    BY <2>3, <2>4, <2>5
  <2>7. /\ LastIn(e, S, d) = IF w \in S THEN w ELSE LastIn(f, S, d)
        /\ LastIn(e, {"ro", "rw"}, "rw") =
             IF w \in {"ro", "rw"} THEN w ELSE LastIn(f, {"ro", "rw"}, "rw")
    BY <2>3, <2>4, <2>5, LastOfMore
  <2>8. /\ IsParsed(b)
        /\ w \in FlagWords => b.opts = a.opts
        /\ w \notin FlagWords => b.opts = Append(a.opts, w)
    BY <2>3, <2>4, WordResult DEF FlagWords
  <2>9. b.opts \in Seq(A) /\ LastIn(b.opts, S, d) = LastIn(e, S, d)
    <3>1. CASE w \in FlagWords
      BY <2>4, <2>7, <2>8, <3>1
    <3>2. CASE w \notin FlagWords
      <4>1. PICK o : o = a.opts
        OBVIOUS
      <4>2. o \in Seq(A) /\ b.opts = Append(o, w)
        BY <2>4, <2>8, <3>2, <4>1
      <4>3. Append(o, w) \in Seq(A) /\ LastIn(Append(o, w), S, d) = IF w \in S THEN w ELSE LastIn(o, S, d)
        BY <2>3, <4>2, LastOfMore, AppendProperties
      <4> QED
        BY <2>4, <2>7, <4>1, <4>2, <4>3
    <3> QED
      BY <3>1, <3>2
  <2>10. "RDONLY" \in b.flags <=> LastIn(e, {"ro", "rw"}, "rw") = "ro"
    <3> DEFINE X == DOMAIN Sets
               Y == DOMAIN Clears
    <3>1. /\ w \in X => b.flags = a.flags \cup {Sets[w]}
          /\ w \in Y => b.flags = a.flags \ {Clears[w]}
          /\ w \notin X \cup Y => b.flags = a.flags
      BY <2>3, <2>4, WordResult
    <3>2. /\ "ro" \in X /\ "rw" \in Y /\ "ro" # "rw"
          /\ w \in X => w \notin Y
          /\ w \in X => (Sets[w] = "RDONLY" <=> w = "ro")
          /\ w \in Y => (Clears[w] = "RDONLY" <=> w = "rw")
      BY ReadonlyWords, SetsOrClears
    <3>3. "RDONLY" \in a.flags <=> LastIn(f, {"ro", "rw"}, "rw") = "ro"
      BY <2>4
    <3> HIDE DEF X, Y
    <3>4. CASE w \in X
      BY <2>7, <3>1, <3>2, <3>3, <3>4
    <3>5. CASE w \in Y
      BY <2>7, <3>1, <3>2, <3>3, <3>5
    <3>6. CASE w \notin X \cup Y
      BY <2>7, <3>1, <3>2, <3>3, <3>6
    <3> QED
      BY <3>4, <3>5, <3>6
  <2>11. Good(b, e)
    BY <2>6, <2>8, <2>9, <2>10
  <2> HIDE DEF Good, first
  <2> QED
    BY <1>2, <2>1, <2>11
<1>3. N \in G
  <2> HIDE DEF G, N
  <2> QED
    BY <1>0, <1>1, <1>2, UpTo
<1>4. first(N) = ws
  BY SubSeqFull
<1>5. Good(ParseMountOpts(ws), ws)
  <2> HIDE DEF Good
  <2> QED
    BY <1>3, <1>4 DEF ParseMountOpts
<1> QED
  BY <1>5

-------------------------------------------------------------------------------
(* What is mounted, and what was asked for.                                   *)

AnyWord == STRING \cup DOMAIN KeyOf
ModeWords == WithKey("mode")
OctalWords == {v \in ModeWords : IsNumber(8, ValueOf[v])}
Value(w, default) == IF w = EmptyString THEN default ELSE ValueOf[w]
GivenMode == LastGiven("m", [mode |-> NoDigits]).mode
Added(o) == IF o.opt = "o" THEN o.opts ELSE << >>

\* main of ztmpfs has seen the first options: each of its variables is as the last of
\* them that sets it says.
AppFor(seen, ap) ==
  /\ ap = [type |-> ap.type, size |-> ap.size, opts |-> ap.opts, mode |-> ap.mode,
           fake |-> ap.fake]
  /\ ap.size = LastIn(seen, Given("S"), call).size
  /\ ap.mode = LastIn(seen, Given("m"), [mode |-> NoDigits]).mode
  /\ ap.type = LastIn(seen, Given("t"), call).type
  /\ ap.opts = WordsUpTo[Len(seen)]

GetoptInv ==
  /\ call.op = "ztmpfs" /\ spec = NoSize
  /\ argv \in Seq(ToSet(call.argv))
  /\ \E seen \in Seq(ToSet(call.argv)) : call.argv = seen \o argv /\ AppFor(seen, app)

\* zram_tmpfs is called with what all of the options say.
AppAsked ==
  /\ app.size = LastGiven("S", call).size
  /\ app.type = LastGiven("t", call).type
  /\ app.opts = WithMode(Words, GivenMode)

\* _zram_tmpfs_config_parse_opts_arr has seen the first words: size and mode are as the
\* last of them that sets it says, and among the options kept for tmpfs the modes are
\* all of them.
ReadSoFar(done, zz, sp, type) ==
  /\ zz = [size |-> zz.size, mode |-> zz.mode, uid |-> zz.uid, gid |-> zz.gid,
           flags |-> zz.flags, opts |-> zz.opts, sizeopt |-> zz.sizeopt]
  /\ sp = Value(LastIn(done, WithKey("size"), EmptyString), NoSize)
  /\ zz.mode = NumberOf(8, Value(LastIn(done, OctalWords, EmptyString), DefaultMode(type)))
  /\ zz.opts \in Seq(AnyWord)
  /\ LastIn(zz.opts, ModeWords, EmptyString) = LastIn(done, ModeWords, EmptyString)
  /\ (\A i \in DOMAIN zz.opts : zz.opts[i] \in ModeWords => zz.opts[i] \in OctalWords) =>
       LastIn(done, OctalWords, EmptyString) = LastIn(done, ModeWords, EmptyString)

OptsInv ==
  /\ IsTmpfs /\ AppAsked
  /\ z.flags = call.flags \cup ParseMountOpts(app.opts).flags
  /\ todo \in Seq(AnyWord)
  /\ \E done \in Seq(AnyWord) :
       /\ ParseMountOpts(app.opts).opts = done \o todo
       /\ ReadSoFar(done, z, spec, app.type)

\* The configuration for disk and tmpfs is what was asked for.
Configured ==
  /\ z.size = AskedSize /\ KernelSize = AskedSize
  /\ z.mode = NumberOf(8, AskedMode)
  /\ "RDONLY" \in z.flags <=> AskedReadonly
  /\ KernelReads => \/ KernelValue("mode", 8, NumberOf(8, ZTmpfs)) = NumberOf(8, AskedMode)
                    \/ AskedMode = ZDisk

MountIsAsked ==
  mount.as # "nothing" =>
    /\ mount.size = AskedSize
    /\ "RDONLY" \in mount.flags <=> AskedReadonly
    /\ mount.as = "zram" => mount.type = format /\ mount.mode \in {-1, DiskMode}
    /\ mount.as = "tmpfs" => mount.mode = NumberOf(8, AskedMode) \/ AskedMode = ZDisk

DiskMounted ==
  mount = [as |-> "zram", type |-> format, size |-> z.size,
           flags |-> z.flags \cup {"NOATIME"}, mode |-> MkfsMode, uid |-> 0, gid |-> 0]

\* From the call to the mount.
AskedInv ==
  /\ call \in Calls
  /\ pc = "getopt" => GetoptInv
  /\ pc = "parse" => /\ IsTmpfs /\ AppAsked /\ spec = NoSize
                     /\ z = NewConfig(app.type, call.flags)
  /\ pc = "opts" => OptsInv
  /\ pc \in {"claim", "mkfs", "release", "mount", "perm", "fallback"} /\ IsTmpfs => Configured
  /\ pc \in {"mount", "perm", "fallback"} => IsTmpfs
  /\ pc = "disk" => ~ IsTmpfs
  /\ pc = "mount" => devtype = format
  /\ pc = "perm" => DiskMounted
  /\ pc \notin {"perm", "free", "done"} => mount = NotMounted
  /\ pc \in {"free", "done"} => MountIsAsked

\* The mount options of a call are words, and add up as they are read.
LEMMA WordsLoop ==
  ASSUME call \in Calls
  PROVE  /\ call.argv \in Seq(ToSet(call.argv))
         /\ WordsUpTo[0] = call.opts
         /\ \A n \in 1..Len(call.argv) :
              WordsUpTo[n] = WordsUpTo[n-1] \o Added(call.argv[n])
         /\ \A n \in 0..Len(call.argv) : WordsUpTo[n] \in Seq(AnyWord)
<1> DEFINE N == Len(call.argv)
           A == ToSet(call.argv)
           F(f, M) == [n \in 0..M |-> IF n = 0 THEN call.opts
                                      ELSE f[n-1] \o Added(call.argv[n])]
           S == {M \in 0..N : \E f : f = F(f, M)}
<1>a. call.argv \in Seq(A)
  BY OptionsAssumption
<1>b. N \in Nat /\ N \in 0..N /\ 0 \in 0..N
  BY <1>a
<1>c. WordsUpTo = CHOOSE f : f = F(f, N)
  BY DEF WordsUpTo, Added
<1>1. 0 \in S
  <2>1. PICK f : f = [n \in 0..0 |-> call.opts]
    OBVIOUS
  <2>2. f = F(f, 0)
    BY <2>1
  <2> HIDE DEF F
  <2> QED
    BY <1>b, <2>2
<1>2. ASSUME NEW M \in 0..N, M + 1 \in 0..N, M \in S PROVE M + 1 \in S
  <2>1. PICK f : f = F(f, M)
    BY <1>2
  <2>2. PICK E, x : E = call.opts /\ x = f[M] \o Added(call.argv[M+1])
    OBVIOUS
  <2>3. PICK h : h = [n \in 0..(M+1) |-> IF n = M + 1 THEN x ELSE f[n]]
    OBVIOUS
  <2>4. M \in Nat /\ \A n \in 0..(M+1) : n = M + 1 \/ n \in 0..M
    OBVIOUS
  <2>5. \A n \in 0..M : h[n] = f[n]
    BY <2>3, <2>4
  <2>6. \A n \in 0..M : f[n] = IF n = 0 THEN E ELSE f[n-1] \o Added(call.argv[n])
    BY <2>1, <2>2
  <2>7. \A n \in 0..M : n # 0 => n - 1 \in 0..M
    BY <2>4
  <2>8. \A n \in 0..M : h[n] = IF n = 0 THEN E ELSE h[n-1] \o Added(call.argv[n])
    BY <2>5, <2>6, <2>7
  <2>9. /\ h[M+1] = h[M] \o Added(call.argv[M+1])
        /\ M + 1 # 0 /\ (M + 1) - 1 = M
    <3>1. h[M+1] = x /\ h[M] = f[M] /\ M + 1 # 0 /\ (M + 1) - 1 = M
      BY <2>3, <2>4, <2>5
    <3> QED
      BY <2>2, <3>1
  <2>10. \A n \in 0..(M+1) : h[n] = IF n = 0 THEN E ELSE h[n-1] \o Added(call.argv[n])
    BY <2>4, <2>8, <2>9
  <2>11. h = F(h, M + 1)
    BY <2>2, <2>3, <2>10
  <2> QED
    BY <1>2, <2>11
<1>3. N \in S
  <2> HIDE DEF S, N
  <2> QED
    BY <1>1, <1>2, <1>b, UpTo
<1>4. \E f : f = F(f, N)
  BY <1>3
<1>5. WordsUpTo = F(WordsUpTo, N)
  <2> HIDE DEF F
  <2> QED
    BY <1>c, <1>4
<1>6. WordsUpTo[0] = call.opts
  BY <1>b, <1>5
<1>7. \A n \in 1..N : WordsUpTo[n] = WordsUpTo[n-1] \o Added(call.argv[n])
  BY <1>b, <1>5
<1>8. PICK W : W = AnyWord
  OBVIOUS
<1>9. call.opts \in Seq(W) /\ \A n \in 1..N : Added(call.argv[n]) \in Seq(W)
  <2>1. PICK T : T = STRING
    OBVIOUS
  <2>2. T \subseteq W
    BY <1>8, <2>1 DEF AnyWord
  <2>3. \A s \in Seq(T) : s \in Seq(W)
    BY <2>2, SeqMonotonic
  <2>4. call.opts \in Seq(T) /\ \A o \in A : o.opt = "o" => o.opts \in Seq(T)
    BY <2>1, OptionsAssumption
  <2>5. \A n \in 1..N : call.argv[n] \in A
    BY <1>a, <1>b
  <2>6. << >> \in Seq(W)
    OBVIOUS
  <2> HIDE DEF N, A
  <2> QED
    BY <2>3, <2>4, <2>5, <2>6 DEF Added
<1>10. \A n \in 0..N : WordsUpTo[n] \in Seq(W)
  <2> DEFINE G == {n \in 0..N : WordsUpTo[n] \in Seq(W)}
  <2>1. 0 \in G
    BY <1>b, <1>6, <1>9
  <2>2. ASSUME NEW n \in 0..N, n + 1 \in 0..N, n \in G PROVE n + 1 \in G
    <3>1. n + 1 \in 1..N /\ (n + 1) - 1 = n
      BY <1>b, <2>2
    <3>2. PICK s, t : s = WordsUpTo[n] /\ t = Added(call.argv[n+1])
      OBVIOUS
    <3>3. WordsUpTo[n+1] = s \o t
      BY <1>7, <3>1, <3>2
    <3>4. s \o t \in Seq(W)
      BY <1>9, <2>2, <3>1, <3>2, ConcatProperties
    <3> QED
      BY <2>2, <3>3, <3>4
  <2>3. \A n \in 0..N : n \in G
    <3> HIDE DEF G, N
    <3> QED
      BY <1>b, <2>1, <2>2, UpTo
  <2> QED
    BY <2>3
<1> QED
  BY <1>6, <1>7, <1>8, <1>10, <1>a

\* What was asked for depends on the call and on the memory only.
LEMMA SameCall ==
  ASSUME call' = call, mem' = mem
  PROVE  /\ WordsUpTo' = WordsUpTo /\ Words' = Words
         /\ \A opt : Given(opt)' = Given(opt)
         /\ \A opt, d : LastGiven(opt, d)' = LastGiven(opt, d)
         /\ GivenMode' = GivenMode
         /\ AskedSize' = AskedSize /\ AskedMode' = AskedMode
         /\ AskedReadonly' <=> AskedReadonly
<1>1. WordsUpTo' = WordsUpTo
  BY DEF WordsUpTo
<1>2. Words' = Words
  BY <1>1 DEF Words
<1>3. \A opt : Given(opt)' = Given(opt)
  BY DEF Given
<1>4. \A opt, d : LastGiven(opt, d)' = LastGiven(opt, d)
  BY <1>3 DEF LastGiven
<1>5. GivenMode' = GivenMode
  BY <1>4 DEF GivenMode
<1>6. AskedSize' = AskedSize
  BY <1>2, <1>3 DEF AskedSize, LastGiven
<1>7. AskedMode' = AskedMode
  BY <1>2, <1>3 DEF AskedMode, LastGiven
<1>8. AskedReadonly' <=> AskedReadonly
  BY <1>2 DEF AskedReadonly
<1> QED
  BY <1>1, <1>2, <1>3, <1>4, <1>5, <1>6, <1>7, <1>8

\* The words zram_tmpfs is called with, and among them the one for the argument of -m.
LEMMA AskedWords ==
  ASSUME call \in Calls, NEW W, W = WithMode(Words, GivenMode)
  PROVE  /\ W \in Seq(AnyWord)
         /\ LastIn(W, WithKey("size"), EmptyString) = LastIn(Words, WithKey("size"), EmptyString)
         /\ LastIn(W, {"ro", "rw"}, "rw") = LastIn(Words, {"ro", "rw"}, "rw")
         /\ AskedMode = Value(LastIn(W, OctalWords, EmptyString),
                              DefaultMode(LastGiven("t", call).type))
<1> DEFINE D == DefaultMode(LastGiven("t", call).type)
<1>1. Words \in Seq(AnyWord)
  BY WordsLoop DEF Words
<1>2. AskedMode = IF IsNumber(8, GivenMode) THEN GivenMode
                  ELSE Value(LastIn(Words, OctalWords, EmptyString), D)
  BY DEF AskedMode, GivenMode, OctalWords, ModeWords, Value
<1> HIDE DEF D
<1>3. CASE GivenMode = NoDigits
  <2>1. ~ IsNumber(8, NoDigits)
    BY DEF IsNumber, NoDigits
  <2>2. W = Words
    BY <1>3 DEF WithMode
  <2> QED
    BY <1>1, <1>2, <1>3, <2>1, <2>2 DEF D
<1>4. CASE GivenMode # NoDigits
  <2>1. PICK w : W = Append(Words, w) /\ w = CHOOSE v \in WithKey("mode") : ValueOf[v] = GivenMode
    BY <1>4 DEF WithMode
  <2>2. \E v \in WithKey("mode") : ValueOf[v] = GivenMode
    <3>1. PICK o : o = LastGiven("m", [mode |-> NoDigits])
      OBVIOUS
    <3>2. PICK A, d : A = ToSet(call.argv) /\ d = [mode |-> NoDigits]
      OBVIOUS
    <3>3. call.argv \in Seq(A) /\ o = LastIn(call.argv, Given("m"), d)
      BY <3>1, <3>2, WordsLoop DEF LastGiven
    <3>4. o = d \/ o \in Given("m")
      BY <3>3, LastIsOne
    <3>5. GivenMode = o.mode /\ d.mode = NoDigits
      BY <3>1, <3>2 DEF GivenMode
    <3>6. o \in ToSet(call.argv) /\ o.opt = "m"
      BY <1>4, <3>4, <3>5 DEF Given
    <3> QED
      BY <1>4, <3>5, <3>6, OptionsAssumption
  <2>3. w \in WithKey("mode") /\ ValueOf[w] = GivenMode
    BY <2>1, <2>2
  <2>4. /\ w \in DOMAIN KeyOf /\ w \notin WithKey("size")
        /\ w \in OctalWords <=> IsNumber(8, GivenMode)
    BY <2>3 DEF WithKey, OctalWords, ModeWords
  <2>5. w \in AnyWord /\ w # EmptyString /\ w \notin DOMAIN Sets \cup DOMAIN Clears
    BY <2>4, OptionsAssumption DEF AnyWord
  <2>6. w \notin {"ro", "rw"}
    BY <2>5, ReadonlyWords
  <2>7. PICK A : A = AnyWord
    OBVIOUS
  <2>8. \A S, d : LastIn(W, S, d) = IF w \in S THEN w ELSE LastIn(Words, S, d)
    BY <1>1, <2>1, <2>5, <2>7, LastOfMore
  <2>9. W \in Seq(A)
    BY <1>1, <2>1, <2>5, <2>7, AppendProperties
  <2>10. AskedMode = Value(LastIn(W, OctalWords, EmptyString), D)
    <3>1. CASE IsNumber(8, GivenMode)
      BY <1>2, <2>3, <2>4, <2>5, <2>8, <3>1 DEF Value
    <3>2. CASE ~ IsNumber(8, GivenMode)
      BY <1>2, <2>4, <2>8, <3>2
    <3> QED
      BY <3>1, <3>2
  <2> QED
    BY <2>4, <2>6, <2>7, <2>8, <2>9, <2>10 DEF D
<1> QED
  BY <1>3, <1>4

\* Before the first option, and for callers of zram_tmpfs.
LEMMA InitAsked == Init => AskedInv
<1> SUFFICES ASSUME Init PROVE AskedInv
  OBVIOUS
<1>0. /\ call \in Calls /\ pc = Start(call.op) /\ spec = NoSize /\ mount = NotMounted
      /\ argv = IF call.op = "ztmpfs" THEN call.argv ELSE << >>
      /\ app = [type |-> call.type, size |-> call.size, opts |-> call.opts,
                mode |-> NoDigits, fake |-> FALSE]
      /\ z = NewConfig(call.type, call.flags)
  BY DEF Init
<1>1. call.op \in {"ztmpfs", "tmpfs", "disk", "swap"}
  BY <1>0, ZramConfigAssumption
<1>2. PICK A : A = ToSet(call.argv)
  OBVIOUS
<1>3. call.argv \in Seq(A) /\ << >> \in Seq(A) /\ WordsUpTo[0] = call.opts
  BY <1>0, <1>2, WordsLoop
<1>4. CASE call.op = "ztmpfs"
  <2>1. pc = "getopt" /\ argv = call.argv
    BY <1>0, <1>4 DEF Start
  <2>2. call.argv = << >> \o argv /\ Len(<< >>) = 0
    BY <1>3, <2>1, ConcatEmptySeq
  <2>3. AppFor(<< >>, app)
    BY <1>0, <1>3, <2>2, LastOfNone DEF AppFor
  <2>4. GetoptInv
    BY <1>0, <1>2, <1>3, <1>4, <2>1, <2>2, <2>3 DEF GetoptInv
  <2> QED
    BY <1>0, <2>1, <2>4 DEF AskedInv
<1>5. CASE call.op = "tmpfs"
  <2>1. pc = "parse" /\ IsTmpfs
    BY <1>0, <1>5 DEF Start, IsTmpfs
  <2>2. call.argv = << >> /\ Len(call.argv) = 0
    BY <1>0, <1>5, OptionsAssumption
  <2>3. Words = call.opts
    BY <1>3, <2>2 DEF Words
  <2>4. \A opt, d : LastGiven(opt, d) = d
    BY <2>2, LastOfNone DEF LastGiven
  <2>5. GivenMode = NoDigits
    BY <2>4 DEF GivenMode
  <2>6. AppAsked
    BY <1>0, <2>3, <2>4, <2>5 DEF AppAsked, WithMode
  <2>7. z = NewConfig(app.type, call.flags)
    BY <1>0
  <2> QED
    BY <1>0, <2>1, <2>6, <2>7 DEF AskedInv
<1>6. CASE call.op \in {"disk", "swap"}
  BY <1>0, <1>6 DEF Start, AskedInv, IsTmpfs
<1> QED
  BY <1>1, <1>4, <1>5, <1>6

\* One option of ztmpfs.
LEMMA GetoptAsked ==
  ASSUME AskedInv, Getopt
  PROVE  AskedInv'
<1> DEFINE o == Head(argv)
<1>0. /\ pc = "getopt" /\ argv # << >> /\ argv' = Tail(argv)
      /\ UNCHANGED << call, mem, spec, z, mount >>
      /\ \/ pc' = "done"
         \/ /\ pc' = "getopt"
            /\ app' = CASE o.opt = "t" -> [app EXCEPT !.type = o.type]
                        [] o.opt = "S" -> [app EXCEPT !.size = o.size]
                        [] o.opt = "m" -> [app EXCEPT !.mode = o.mode]
                        [] o.opt = "o" -> [app EXCEPT !.opts = @ \o o.opts]
                        [] o.opt = "f" -> [app EXCEPT !.fake = TRUE]
                        [] o.opt = "q" -> app
            /\ o.opt \in {"t", "S", "m", "o", "f", "q"}
  BY DEF Getopt, Goto, Return
<1>1. call \in Calls /\ GetoptInv /\ mount = NotMounted
  BY <1>0 DEF AskedInv
<1>2. CASE pc' = "done"
  BY <1>0, <1>1, <1>2 DEF AskedInv, MountIsAsked, NotMounted
<1>3. CASE pc' = "getopt"
  <2>1. PICK A : A = ToSet(call.argv)
    OBVIOUS
  <2>2. PICK seen \in Seq(A) : call.argv = seen \o argv /\ AppFor(seen, app)
    BY <1>1, <2>1 DEF GetoptInv
  <2>3. argv \in Seq(A) /\ call.op = "ztmpfs" /\ spec = NoSize
    BY <1>1, <2>1 DEF GetoptInv
  <2>4. o \in A /\ Tail(argv) \in Seq(A) /\ o = argv[1]
    BY <1>0, <2>3
  <2>5. PICK more : more = Append(seen, o)
    OBVIOUS
  <2>6. more \in Seq(A) /\ Len(more) = Len(seen) + 1 /\ call.argv = more \o Tail(argv)
    BY <1>0, <2>2, <2>3, <2>4, <2>5, Shift, AppendProperties
  <2>7. \A opt, d : LastIn(more, Given(opt), d) =
                      IF o.opt = opt THEN o ELSE LastIn(seen, Given(opt), d)
    <3>1. \A opt : o \in Given(opt) <=> o.opt = opt
      BY <2>1, <2>4 DEF Given
    <3> HIDE DEF o
    <3> QED
      BY <2>4, <2>5, <3>1, LastOfMore
  <2>8. PICK n : n = Len(seen)
    OBVIOUS
  <2>9. n \in Nat /\ n + 1 \in 1..Len(call.argv) /\ n \in 0..Len(call.argv) /\ (n + 1) - 1 = n
    <3>1. Len(call.argv) = Len(seen) + Len(argv) /\ Len(argv) # 0 /\ Len(argv) \in Nat
      BY <1>0, <2>2, <2>3, ConcatProperties
    <3> QED
      BY <2>8, <3>1
  <2>10. call.argv[n+1] = o
    <3>1. /\ n + 1 \in 1..(Len(seen) + Len(argv)) /\ ~(n + 1 <= Len(seen))
          /\ (n + 1) - Len(seen) = 1
      <4>1. Len(call.argv) = Len(seen) + Len(argv)
        BY <2>2, <2>3, ConcatProperties
      <4> QED
        BY <2>8, <2>9, <4>1
    <3>2. (seen \o argv)[n+1] = IF n + 1 <= Len(seen) THEN seen[n+1] ELSE argv[(n+1) - Len(seen)]
      BY <2>2, <2>3, <3>1, ConcatProperties
    <3> QED
      BY <2>2, <2>4, <3>1, <3>2
  <2>11. WordsUpTo[n+1] = WordsUpTo[n] \o Added(o) /\ WordsUpTo[n] \in Seq(AnyWord)
    BY <1>1, <2>9, <2>10, WordsLoop
  <2>12. WordsUpTo[n] \o << >> = WordsUpTo[n]
    BY <2>11, ConcatEmptySeq
  <2>13. /\ app' = [type |-> IF o.opt = "t" THEN o.type ELSE app.type,
                    size |-> IF o.opt = "S" THEN o.size ELSE app.size,
                    opts |-> WordsUpTo[n+1],
                    mode |-> IF o.opt = "m" THEN o.mode ELSE app.mode,
                    fake |-> IF o.opt = "f" THEN TRUE ELSE app.fake]
    <3>1. PICK a, w : a = app /\ w = WordsUpTo[n+1]
      OBVIOUS
    <3>2. /\ a = [type |-> a.type, size |-> a.size, opts |-> a.opts, mode |-> a.mode,
                  fake |-> a.fake]
          /\ w = IF o.opt = "o" THEN a.opts \o o.opts ELSE a.opts
      BY <2>2, <2>8, <2>11, <2>12, <3>1 DEF AppFor, Added
    <3>3. /\ o.opt = "t" => app' = [a EXCEPT !.type = o.type]
          /\ o.opt = "S" => app' = [a EXCEPT !.size = o.size]
          /\ o.opt = "m" => app' = [a EXCEPT !.mode = o.mode]
          /\ o.opt = "o" => app' = [a EXCEPT !.opts = w]
          /\ o.opt = "f" => app' = [a EXCEPT !.fake = TRUE]
          /\ o.opt = "q" => app' = a
          /\ o.opt \in {"t", "S", "m", "o", "f", "q"}
      BY <1>0, <1>3, <3>1, <3>2
    <3> HIDE DEF o
    <3>4. app' = [type |-> IF o.opt = "t" THEN o.type ELSE a.type,
                  size |-> IF o.opt = "S" THEN o.size ELSE a.size,
                  opts |-> w,
                  mode |-> IF o.opt = "m" THEN o.mode ELSE a.mode,
                  fake |-> IF o.opt = "f" THEN TRUE ELSE a.fake]
      BY <3>2, <3>3
    <3> QED
      BY <3>1, <3>4
  <2>14. AppFor(more, app')
    <3>1. PICK w, b : w = WordsUpTo[n+1] /\ b = app'
      OBVIOUS
    <3>2. /\ b = [type |-> b.type, size |-> b.size, opts |-> b.opts, mode |-> b.mode,
                  fake |-> b.fake]
          /\ b.type = IF o.opt = "t" THEN o.type ELSE app.type
          /\ b.size = IF o.opt = "S" THEN o.size ELSE app.size
          /\ b.mode = IF o.opt = "m" THEN o.mode ELSE app.mode
          /\ b.opts = w
      BY <2>13, <3>1
    <3>3. /\ app.size = LastIn(seen, Given("S"), call).size
          /\ app.mode = LastIn(seen, Given("m"), [mode |-> NoDigits]).mode
          /\ app.type = LastIn(seen, Given("t"), call).type
      BY <2>2 DEF AppFor
    <3>4. b.size = LastIn(more, Given("S"), call).size
      BY <2>7, <3>2, <3>3
    <3>5. b.mode = LastIn(more, Given("m"), [mode |-> NoDigits]).mode
      BY <2>7, <3>2, <3>3
    <3>6. b.type = LastIn(more, Given("t"), call).type
      BY <2>7, <3>2, <3>3
    <3>7. b.opts = WordsUpTo[Len(more)]
      BY <2>6, <2>8, <3>1, <3>2
    <3> QED
      BY <3>1, <3>2, <3>4, <3>5, <3>6, <3>7 DEF AppFor
  <2>15. AppFor(more, app)'
    <3>1. /\ WordsUpTo' = WordsUpTo /\ call' = call
          /\ \A opt : Given(opt)' = Given(opt)
      BY <1>0, SameCall
    <3> QED
      BY <2>14, <3>1 DEF AppFor
  <2>16. GetoptInv'
    <3>1. call' = call /\ argv' = Tail(argv) /\ spec' = spec
      BY <1>0
    <3> QED
      BY <2>1, <2>3, <2>4, <2>6, <2>15, <3>1 DEF GetoptInv
  <2> QED
    BY <1>0, <1>1, <1>3, <2>16 DEF AskedInv
<1> QED
  BY <1>0, <1>2, <1>3

\* The rest of main.
LEMMA ZtmpfsAsked ==
  ASSUME AskedInv, Ztmpfs
  PROVE  AskedInv'
<1>0. /\ pc = "getopt" /\ argv = << >> /\ UNCHANGED << call, mem, spec, mount >>
      /\ \/ pc' = "done"
         \/ /\ pc' = "parse" /\ z' = NewConfig(app.type, {})
            /\ app' = [app EXCEPT !.opts = WithMode(@, app.mode)]
  BY DEF Ztmpfs, Goto, Return
<1>1. call \in Calls /\ GetoptInv /\ mount = NotMounted
  BY <1>0 DEF AskedInv
<1>2. CASE pc' = "done"
  BY <1>0, <1>1, <1>2 DEF AskedInv, MountIsAsked, NotMounted
<1>3. CASE pc' = "parse"
  <2>1. PICK A : A = ToSet(call.argv)
    OBVIOUS
  <2>2. PICK seen \in Seq(A) : call.argv = seen \o argv /\ AppFor(seen, app)
    BY <1>1, <2>1 DEF GetoptInv
  <2>3. seen = call.argv
    BY <1>0, <2>2, ConcatEmptySeq
  <2>4. /\ app = [type |-> app.type, size |-> app.size, opts |-> app.opts, mode |-> app.mode,
                  fake |-> app.fake]
        /\ app.size = LastGiven("S", call).size /\ app.mode = GivenMode
        /\ app.type = LastGiven("t", call).type /\ app.opts = Words
    BY <2>2, <2>3 DEF AppFor, LastGiven, GivenMode, Words
  <2>5. PICK b, w : b = app' /\ w = WithMode(Words, GivenMode)
    OBVIOUS
  <2>6. b = [app EXCEPT !.opts = w]
    BY <1>0, <1>3, <2>4, <2>5
  <2>7. b.size = app.size /\ b.type = app.type /\ b.opts = w
    BY <2>4, <2>6
  <2>8. AppAsked'
    <3>1. /\ Words' = Words /\ GivenMode' = GivenMode /\ call' = call
          /\ \A opt, d : LastGiven(opt, d)' = LastGiven(opt, d)
      BY <1>0, SameCall
    <3>2. LastGiven("S", call)' = LastGiven("S", call) /\ LastGiven("t", call)' = LastGiven("t", call)
      BY <1>0, <3>1 DEF LastGiven, Given
    <3>3. WithMode(Words, GivenMode)' = WithMode(Words, GivenMode)
      BY <3>1
    <3> QED
      BY <2>4, <2>5, <2>7, <3>2, <3>3 DEF AppAsked
  <2>9. call.op = "ztmpfs" /\ call.flags = {} /\ spec = NoSize
    BY <1>1, OptionsAssumption DEF GetoptInv
  <2>10. z' = NewConfig(app'.type, call'.flags)
    BY <1>0, <1>3, <2>5, <2>7, <2>9
  <2>11. IsTmpfs'
    BY <1>0, <2>9 DEF IsTmpfs
  <2> QED
    BY <1>0, <1>1, <1>3, <2>8, <2>9, <2>10, <2>11 DEF AskedInv
<1> QED
  BY <1>0, <1>2, <1>3

\* What was asked for is the same after a step that leaves the call alone.
LEMMA SameAsked ==
  ASSUME call' = call, mem' = mem, app' = app
  PROVE  /\ AppAsked => AppAsked'
         /\ IsTmpfs => IsTmpfs'
         /\ ParseMountOpts(app.opts)' = ParseMountOpts(app.opts)
BY DEF AppAsked, LastGiven, Given, GivenMode, Words, WordsUpTo, IsTmpfs

\* zram_tmpfs_config_parse, before the loop over the options.
LEMMA ParseFlagsAsked ==
  ASSUME AskedInv, ParseFlags
  PROVE  AskedInv'
<1> DEFINE p == ParseMountOpts(app.opts)
<1>0. /\ pc = "parse" /\ pc' = "opts" /\ UNCHANGED << call, mem, app, spec, mount >>
      /\ z' = [z EXCEPT !.flags = @ \cup p.flags] /\ todo' = p.opts
  BY DEF ParseFlags, Goto
<1>1. /\ call \in Calls /\ IsTmpfs /\ AppAsked /\ spec = NoSize /\ mount = NotMounted
      /\ z = NewConfig(app.type, call.flags)
  BY <1>0 DEF AskedInv
<1>2. PICK W, A : W = app.opts /\ A = AnyWord
  OBVIOUS
<1>3. W \in Seq(A)
  BY <1>1, <1>2, AskedWords DEF AppAsked
<1>4. p.opts \in Seq(A)
  <2>1. PICK S : S = {}
    OBVIOUS
  <2>2. \A w \in S : w \notin FlagWords
    BY <2>1
  <2>3. ParseMountOpts(W).opts \in Seq(A)
    BY <1>3, <2>2, ParsedWords
  <2> QED
    BY <1>2, <2>3
<1>5. PICK q : q = p.opts
  OBVIOUS
<1>6. q = << >> \o q /\ << >> \in Seq(A)
  BY <1>4, <1>5, ConcatEmptySeq
<1> DEFINE d == NumberOf(8, DefaultMode(app.type))
           f == call.flags \cup p.flags
<1>7. z' = [size |-> 0, mode |-> d, uid |-> 0, gid |-> 0, flags |-> f, opts |-> << >>,
            sizeopt |-> -1]
  <2>1. PICK fl, m : fl = call.flags /\ m = d
    OBVIOUS
  <2>2. z = [size |-> 0, mode |-> m, uid |-> 0, gid |-> 0, flags |-> fl, opts |-> << >>,
             sizeopt |-> -1]
    BY <1>1, <2>1 DEF NewConfig
  <2> HIDE DEF d, p
  <2>3. z' = [size |-> 0, mode |-> m, uid |-> 0, gid |-> 0, flags |-> fl \cup p.flags,
              opts |-> << >>, sizeopt |-> -1]
    BY <1>0, <2>2
  <2> QED
    BY <2>1, <2>3
<1>8. ReadSoFar(<< >>, z', spec, app.type)
  <2>1. PICK y : y = z'
    OBVIOUS
  <2>2. /\ y = [size |-> y.size, mode |-> y.mode, uid |-> y.uid, gid |-> y.gid,
                flags |-> y.flags, opts |-> y.opts, sizeopt |-> y.sizeopt]
        /\ y.mode = d /\ y.opts = << >>
    <3> HIDE DEF d, f
    <3> QED
      BY <1>7, <2>1
  <2>3. /\ NoSize = Value(LastIn(<< >>, WithKey("size"), EmptyString), NoSize)
        /\ d = NumberOf(8, Value(LastIn(<< >>, OctalWords, EmptyString), DefaultMode(app.type)))
    BY LastOfNone DEF Value
  <2>4. y.opts \in Seq(AnyWord)
    BY <1>2, <1>6, <2>2
  <2>5. LastIn(<< >>, OctalWords, EmptyString) = LastIn(<< >>, ModeWords, EmptyString)
    BY LastOfNone
  <2> HIDE DEF d, f
  <2>6. ReadSoFar(<< >>, y, spec, app.type)
    BY <1>1, <2>2, <2>3, <2>4, <2>5 DEF ReadSoFar
  <2> QED
    BY <2>1, <2>6
<1>9. z'.flags = f
  <2> HIDE DEF d, f
  <2> QED
    BY <1>7
<1>10. /\ AppAsked' /\ IsTmpfs' /\ ParseMountOpts(app.opts)' = p
  BY <1>0, <1>1, SameAsked
<1>11. OptsInv'
  <2>1. ReadSoFar(<< >>, z, spec, app.type)'
    <3>1. spec' = spec /\ app' = app
      BY <1>0
    <3> QED
      BY <1>8, <3>1
  <2>2. todo' = q /\ call' = call
    BY <1>0, <1>5
  <2>3. ParseMountOpts(app.opts)'.opts = << >> \o todo'
    BY <1>5, <1>6, <1>10, <2>2
  <2>4. todo' \in Seq(AnyWord) /\ << >> \in Seq(AnyWord)
    BY <1>2, <1>4, <1>5, <1>6, <2>2
  <2>5. z'.flags = call'.flags \cup ParseMountOpts(app.opts)'.flags
    BY <1>9, <1>10, <2>2
  <2> HIDE DEF p
  <2> QED
    BY <1>10, <2>1, <2>3, <2>4, <2>5 DEF OptsInv
<1> QED
  BY <1>0, <1>1, <1>11 DEF AskedInv

\* What the loop over the options makes of one word.
Kept(zz, w) == [zz EXCEPT !.opts = Append(@, w)]
KeyIs(w) == IF w \in DOMAIN KeyOf THEN KeyOf[w] ELSE "other"
NextConfig(zz, w) ==
  CASE KeyIs(w) \in {"size", "comp"} -> zz
    [] KeyIs(w) = "mode" -> [Kept(zz, w) EXCEPT !.mode = Octal(@, w)]
    [] KeyIs(w) = "uid"  -> [Kept(zz, w) EXCEPT !.uid = Octal(@, w)]
    [] KeyIs(w) = "gid"  -> [Kept(zz, w) EXCEPT !.gid = Octal(@, w)]
    [] OTHER             -> Kept(zz, w)

\* A word is kept for tmpfs or is about sizes and compression; a mode sets the mode if
\* it is an octal number.
LEMMA NextConfigIs ==
  ASSUME NEW zz, NEW w, NEW zn, zn = NextConfig(zz, w),
         zz = [size |-> zz.size, mode |-> zz.mode, uid |-> zz.uid, gid |-> zz.gid,
               flags |-> zz.flags, opts |-> zz.opts, sizeopt |-> zz.sizeopt]
  PROVE  /\ zn = [size |-> zn.size, mode |-> zn.mode, uid |-> zn.uid, gid |-> zn.gid,
                  flags |-> zn.flags, opts |-> zn.opts, sizeopt |-> zn.sizeopt]
         /\ zn.flags = zz.flags
         /\ zn.mode = IF w \in OctalWords THEN NumberOf(8, ValueOf[w]) ELSE zz.mode
         /\ zn.opts = Append(zz.opts, w) \/ (zn.opts = zz.opts /\ w \notin ModeWords)
<1> DEFINE key == KeyIs(w)
<1>1. /\ w \in ModeWords <=> key = "mode"
      /\ w \in OctalWords <=> key = "mode" /\ IsNumber(8, ValueOf[w])
  BY DEF KeyIs, ModeWords, OctalWords, WithKey
<1>2. PICK a, b, c, d, e, f, g : /\ a = zz.size /\ b = zz.mode /\ c = zz.uid /\ d = zz.gid
                                 /\ e = zz.flags /\ f = zz.opts /\ g = zz.sizeopt
  OBVIOUS
<1>3. PICK y, h, x : y = Kept(zz, w) /\ h = Append(f, w) /\ x = NumberOf(8, ValueOf[w])
  OBVIOUS
<1>4. /\ zz = [size |-> a, mode |-> b, uid |-> c, gid |-> d, flags |-> e, opts |-> f, sizeopt |-> g]
      /\ y = [size |-> a, mode |-> b, uid |-> c, gid |-> d, flags |-> e, opts |-> h, sizeopt |-> g]
  <2>1. zz = [size |-> a, mode |-> b, uid |-> c, gid |-> d, flags |-> e, opts |-> f, sizeopt |-> g]
    BY <1>2
  <2>2. y = [zz EXCEPT !.opts = h]
    BY <1>2, <1>3 DEF Kept
  <2> QED
    BY <2>1, <2>2
<1>5. \A m : Octal(m, w) = IF IsNumber(8, ValueOf[w]) THEN x ELSE m
  BY <1>3 DEF Octal
<1>6. /\ key \in {"size", "comp"} => zn = zz
      /\ key = "mode" => zn = [y EXCEPT !.mode = Octal(y.mode, w)]
      /\ key = "uid" => zn = [y EXCEPT !.uid = Octal(y.uid, w)]
      /\ key = "gid" => zn = [y EXCEPT !.gid = Octal(y.gid, w)]
      /\ key \notin {"size", "comp", "mode", "uid", "gid"} => zn = y
  <2>1. zn = CASE key \in {"size", "comp"} -> zz
               [] key = "mode" -> [y EXCEPT !.mode = Octal(@, w)]
               [] key = "uid"  -> [y EXCEPT !.uid = Octal(@, w)]
               [] key = "gid"  -> [y EXCEPT !.gid = Octal(@, w)]
               [] OTHER        -> y
    BY <1>3 DEF NextConfig
  <2> HIDE DEF key
  <2> QED
    BY <2>1
<1>7. PICK u, v : u = Octal(c, w) /\ v = Octal(d, w)
  OBVIOUS
<1> HIDE DEF key
<1>8. CASE key \in {"size", "comp"}
  BY <1>1, <1>4, <1>6, <1>8
<1>9. CASE key = "mode"
  <2>1. PICK m : m = Octal(b, w)
    OBVIOUS
  <2>2. zn = [size |-> a, mode |-> m, uid |-> c, gid |-> d, flags |-> e, opts |-> h, sizeopt |-> g]
    BY <1>4, <1>6, <1>9, <2>1
  <2>3. m = IF w \in OctalWords THEN x ELSE b
    BY <1>1, <1>5, <1>9, <2>1
  <2> QED
    BY <1>2, <1>3, <2>2, <2>3
<1>10. CASE key = "uid"
  <2>1. zn = [size |-> a, mode |-> b, uid |-> u, gid |-> d, flags |-> e, opts |-> h, sizeopt |-> g]
    BY <1>4, <1>6, <1>7, <1>10
  <2> QED
    BY <1>1, <1>2, <1>3, <1>10, <2>1
<1>11. CASE key = "gid"
  <2>1. zn = [size |-> a, mode |-> b, uid |-> c, gid |-> v, flags |-> e, opts |-> h, sizeopt |-> g]
    BY <1>4, <1>6, <1>7, <1>11
  <2> QED
    BY <1>1, <1>2, <1>3, <1>11, <2>1
<1>12. CASE key \notin {"size", "comp", "mode", "uid", "gid"}
  BY <1>1, <1>2, <1>3, <1>4, <1>6, <1>12
<1> QED
  BY <1>8, <1>9, <1>10, <1>11, <1>12

\* One word more has been read.
LEMMA OneWordMore ==
  ASSUME NEW done \in Seq(AnyWord), NEW w \in AnyWord, NEW zz, NEW sp, NEW type,
         ReadSoFar(done, zz, sp, type), NEW zn, zn = NextConfig(zz, w),
         NEW sn, sn = IF KeyIs(w) = "size" THEN ValueOf[w] ELSE sp
  PROVE  ReadSoFar(Append(done, w), zn, sn, type)
<1>1. PICK A, more : A = AnyWord /\ more = Append(done, w)
  OBVIOUS
<1>2. \A S, d : LastIn(more, S, d) = IF w \in S THEN w ELSE LastIn(done, S, d)
  BY <1>1, LastOfMore
<1>3. /\ zn = [size |-> zn.size, mode |-> zn.mode, uid |-> zn.uid, gid |-> zn.gid,
               flags |-> zn.flags, opts |-> zn.opts, sizeopt |-> zn.sizeopt]
      /\ zn.mode = IF w \in OctalWords THEN NumberOf(8, ValueOf[w]) ELSE zz.mode
      /\ zn.opts = Append(zz.opts, w) \/ (zn.opts = zz.opts /\ w \notin ModeWords)
  <2>1. zz = [size |-> zz.size, mode |-> zz.mode, uid |-> zz.uid, gid |-> zz.gid,
              flags |-> zz.flags, opts |-> zz.opts, sizeopt |-> zz.sizeopt]
    BY DEF ReadSoFar
  <2> QED
    BY <2>1, NextConfigIs
<1>4. /\ w \in WithKey("size") <=> KeyIs(w) = "size"
      /\ w \in DOMAIN KeyOf => w # EmptyString
      /\ WithKey("size") \subseteq DOMAIN KeyOf
      /\ OctalWords \subseteq ModeWords /\ ModeWords \subseteq DOMAIN KeyOf
  BY OptionsAssumption DEF KeyIs, WithKey, ModeWords, OctalWords
<1>5. sn = Value(LastIn(more, WithKey("size"), EmptyString), NoSize)
  <2>1. sp = Value(LastIn(done, WithKey("size"), EmptyString), NoSize)
    BY DEF ReadSoFar
  <2>2. CASE w \in WithKey("size")
    BY <1>2, <1>4, <2>2 DEF Value
  <2>3. CASE w \notin WithKey("size")
    BY <1>2, <1>4, <2>1, <2>3
  <2> QED
    BY <2>2, <2>3
<1>6. zn.mode = NumberOf(8, Value(LastIn(more, OctalWords, EmptyString), DefaultMode(type)))
  <2>1. zz.mode = NumberOf(8, Value(LastIn(done, OctalWords, EmptyString), DefaultMode(type)))
    BY DEF ReadSoFar
  <2>2. CASE w \in OctalWords
    <3>1. Value(LastIn(more, OctalWords, EmptyString), DefaultMode(type)) = ValueOf[w]
      BY <1>2, <1>4, <2>2 DEF Value
    <3> QED
      BY <1>3, <2>2, <3>1
  <2>3. CASE w \notin OctalWords
    <3>1. LastIn(more, OctalWords, EmptyString) = LastIn(done, OctalWords, EmptyString)
      BY <1>2, <2>3
    <3> QED
      BY <1>3, <2>1, <2>3, <3>1
  <2> QED
    BY <2>2, <2>3
<1>7. PICK old, new : old = zz.opts /\ new = zn.opts
  OBVIOUS
<1>8. old \in Seq(A) /\ LastIn(old, ModeWords, EmptyString) = LastIn(done, ModeWords, EmptyString)
  BY <1>1, <1>7 DEF ReadSoFar
<1>9. /\ new \in Seq(A)
      /\ LastIn(new, ModeWords, EmptyString) = LastIn(more, ModeWords, EmptyString)
  <2>1. CASE new = Append(old, w)
    <3>1. LastIn(new, ModeWords, EmptyString) =
            IF w \in ModeWords THEN w ELSE LastIn(old, ModeWords, EmptyString)
      BY <1>1, <1>8, <2>1, LastOfMore
    <3>2. new \in Seq(A)
      BY <1>1, <1>8, <2>1, AppendProperties
    <3> QED
      BY <1>2, <1>8, <3>1, <3>2
  <2>2. CASE new = old /\ w \notin ModeWords
    BY <1>2, <1>8, <2>2
  <2> QED
    BY <1>3, <1>7, <2>1, <2>2
<1>10. ASSUME \A i \in DOMAIN new : new[i] \in ModeWords => new[i] \in OctalWords
       PROVE  LastIn(more, OctalWords, EmptyString) = LastIn(more, ModeWords, EmptyString)
  <2>1. \A i \in DOMAIN old : i \in DOMAIN new /\ new[i] = old[i]
    <3>1. CASE new = Append(old, w)
      <4>1. /\ Len(new) = Len(old) + 1 /\ new \in Seq(A)
            /\ \A i \in 1..Len(old) : new[i] = old[i]
        BY <1>1, <1>8, <3>1, AppendProperties
      <4>2. DOMAIN old = 1..Len(old) /\ DOMAIN new = 1..Len(new) /\ Len(old) \in Nat
        BY <1>8, <4>1
      <4> QED
        BY <4>1, <4>2
    <3>2. CASE new = old
      BY <3>2
    <3> QED
      BY <1>3, <1>7, <3>1, <3>2
  <2>2. \A i \in DOMAIN old : old[i] \in ModeWords => old[i] \in OctalWords
    BY <1>10, <2>1
  <2>3. LastIn(done, OctalWords, EmptyString) = LastIn(done, ModeWords, EmptyString)
    BY <1>7, <2>2 DEF ReadSoFar
  <2>4. w \in ModeWords => w \in OctalWords
    <3>1. CASE new = Append(old, w)
      <4>1. new[Len(old) + 1] = w /\ Len(old) + 1 \in DOMAIN new
        <5>1. /\ Len(new) = Len(old) + 1 /\ new \in Seq(A) /\ new[Len(old) + 1] = w
          BY <1>1, <1>8, <3>1, AppendProperties
        <5>2. DOMAIN new = 1..Len(new) /\ Len(old) \in Nat
          BY <1>8, <5>1
        <5> QED
          BY <5>1, <5>2
      <4> QED
        BY <1>10, <4>1
    <3> QED
      BY <1>3, <1>7, <3>1
  <2> QED
    BY <1>2, <1>4, <2>3, <2>4
<1>11. ReadSoFar(more, zn, sn, type)
  BY <1>1, <1>3, <1>5, <1>6, <1>7, <1>9, <1>10 DEF ReadSoFar
<1> QED
  BY <1>1, <1>11

\* The loop over the options.
LEMMA ParseOptAsked ==
  ASSUME AskedInv, ParseOpt
  PROVE  AskedInv'
<1>1. PICK w : w = Head(todo)
  OBVIOUS
<1>2. /\ pc = "opts" /\ pc' = pc /\ todo # << >> /\ todo' = Tail(todo)
      /\ UNCHANGED << call, mem, app, mount >>
      /\ spec' = IF KeyIs(w) = "size" THEN ValueOf[w] ELSE spec
      /\ z' = NextConfig(z, w)
  BY <1>1 DEF ParseOpt, KeyIs, NextConfig, Kept
<1>3. call \in Calls /\ OptsInv /\ mount = NotMounted
  BY <1>2 DEF AskedInv
<1>4. PICK A, p : A = AnyWord /\ p = ParseMountOpts(app.opts)
  OBVIOUS
<1>5. PICK done \in Seq(A) : p.opts = done \o todo /\ ReadSoFar(done, z, spec, app.type)
  BY <1>3, <1>4 DEF OptsInv
<1>6. todo \in Seq(A) /\ z.flags = call.flags \cup p.flags
  BY <1>3, <1>4 DEF OptsInv
<1>7. w \in A /\ Tail(todo) \in Seq(A)
  BY <1>1, <1>2, <1>6
<1>8. PICK more : more = Append(done, w)
  OBVIOUS
<1>9. more \in Seq(A) /\ p.opts = more \o Tail(todo)
  BY <1>1, <1>2, <1>5, <1>6, <1>7, <1>8, Shift, AppendProperties
<1>10. PICK zn, sn : zn = z' /\ sn = spec'
  OBVIOUS
<1>11. ReadSoFar(more, zn, sn, app.type)
  BY <1>2, <1>4, <1>5, <1>7, <1>8, <1>10, OneWordMore
<1>12. zn.flags = z.flags
  <2>1. z = [size |-> z.size, mode |-> z.mode, uid |-> z.uid, gid |-> z.gid,
             flags |-> z.flags, opts |-> z.opts, sizeopt |-> z.sizeopt]
    BY <1>5 DEF ReadSoFar
  <2> QED
    BY <1>2, <1>10, <2>1, NextConfigIs
<1>13. AppAsked' /\ IsTmpfs' /\ ParseMountOpts(app.opts)' = p
  BY <1>2, <1>3, <1>4, SameAsked DEF OptsInv
<1>14. OptsInv'
  <2>1. ReadSoFar(more, z, spec, app.type)'
    <3>1. app' = app
      BY <1>2
    <3> QED
      BY <1>10, <1>11, <3>1
  <2>2. ParseMountOpts(app.opts)'.opts = more \o todo'
    BY <1>2, <1>9, <1>13
  <2>3. z'.flags = call'.flags \cup ParseMountOpts(app.opts)'.flags
    BY <1>2, <1>6, <1>10, <1>12, <1>13
  <2>4. todo' \in Seq(AnyWord) /\ more \in Seq(AnyWord)
    BY <1>2, <1>4, <1>7, <1>9
  <2> QED
    BY <1>13, <2>1, <2>2, <2>3, <2>4 DEF OptsInv
<1> QED
  BY <1>2, <1>3, <1>14 DEF AskedInv

\* The end of the loop: the configuration is what was asked for.
LEMMA ParseEndAsked ==
  ASSUME AskedInv, ParseEnd
  PROVE  AskedInv'
<1> DEFINE s == SetSize(EffectiveSpec, mem)
<1>0. /\ pc = "opts" /\ todo = << >> /\ UNCHANGED << call, mem, app, mount >>
      /\ z' = [z EXCEPT !.size = s.size, !.sizeopt = IF s.code \in {0, 1} THEN s.size ELSE -1]
      /\ IF s.size < 1 THEN pc' = "done" ELSE pc' = "claim"
  BY DEF ParseEnd, Goto, Return
<1>1. call \in Calls /\ OptsInv /\ mount = NotMounted
  BY <1>0 DEF AskedInv
<1>2. CASE s.size < 1
  BY <1>0, <1>1, <1>2 DEF AskedInv, MountIsAsked, NotMounted
<1>3. CASE ~ (s.size < 1)
  <2>1. PICK A, W, p : A = AnyWord /\ W = app.opts /\ p = ParseMountOpts(app.opts)
    OBVIOUS
  <2>2. PICK done \in Seq(A) : p.opts = done \o todo /\ ReadSoFar(done, z, spec, app.type)
    BY <1>1, <2>1 DEF OptsInv
  <2>3. done = p.opts
    BY <1>0, <2>2, ConcatEmptySeq
  <2>4. /\ W = WithMode(Words, GivenMode) /\ app.size = LastGiven("S", call).size
        /\ app.type = LastGiven("t", call).type /\ z.flags = call.flags \cup p.flags /\ IsTmpfs
    BY <1>1, <2>1 DEF OptsInv, AppAsked
  <2>5. /\ W \in Seq(A)
        /\ LastIn(W, WithKey("size"), EmptyString) = LastIn(Words, WithKey("size"), EmptyString)
        /\ LastIn(W, {"ro", "rw"}, "rw") = LastIn(Words, {"ro", "rw"}, "rw")
        /\ AskedMode = Value(LastIn(W, OctalWords, EmptyString), DefaultMode(app.type))
    BY <1>1, <2>1, <2>4, AskedWords
  <2>6. /\ \A w \in WithKey("size") : w \notin FlagWords
        /\ \A w \in OctalWords : w \notin FlagWords
    BY OptionsAssumption DEF WithKey, OctalWords, ModeWords, FlagWords
  <2>7. /\ LastIn(done, WithKey("size"), EmptyString) = LastIn(W, WithKey("size"), EmptyString)
        /\ LastIn(done, OctalWords, EmptyString) = LastIn(W, OctalWords, EmptyString)
        /\ "RDONLY" \in p.flags <=> LastIn(W, {"ro", "rw"}, "rw") = "ro"
    <3>1. \A S, d : (\A w \in S : w \notin FlagWords) =>
            LastIn(ParseMountOpts(W).opts, S, d) = LastIn(W, S, d)
      BY <2>5, ParsedWords
    <3>2. "RDONLY" \in ParseMountOpts(W).flags <=> LastIn(W, {"ro", "rw"}, "rw") = "ro"
      <4>1. PICK S : S = {}
        OBVIOUS
      <4>2. \A w \in S : w \notin FlagWords
        BY <4>1
      <4> QED
        BY <2>5, <4>2, ParsedWords
    <3> QED
      BY <2>1, <2>3, <2>6, <3>1, <3>2
  <2>8. PICK x, e : x = AskedSize /\ e = EffectiveSpec
    OBVIOUS
  <2>9. x = IF e = NoSize \/ ParseSize(e, mem) = -1 THEN mem \div 2 ELSE ParseSize(e, mem)
    <3>1. spec = Value(LastIn(Words, WithKey("size"), EmptyString), NoSize)
      BY <2>2, <2>5, <2>7 DEF ReadSoFar
    <3> QED
      BY <2>4, <2>8, <3>1 DEF AskedSize, EffectiveSpec, Value
  <2>10. s.size = x /\ (s.code \in {0, 1} => x # -1) /\ (s.code \notin {0, 1} => x = mem \div 2)
    <3>1. PICK ps, half : ps = ParseSize(e, mem) /\ half = mem \div 2
      OBVIOUS
    <3>2. s = IF e # NoSize /\ ps # -1 THEN [code |-> 0, size |-> ps]
              ELSE IF mem > 1 THEN [code |-> 2, size |-> half] ELSE [code |-> -1, size |-> 0]
      BY <2>8, <3>1 DEF SetSize
    <3>3. x = IF e = NoSize \/ ps = -1 THEN half ELSE ps
      BY <2>9, <3>1
    <3> HIDE DEF s
    <3>4. CASE e # NoSize /\ ps # -1
      <4>1. s.code = 0 /\ s.size = ps /\ x = ps
        BY <3>2, <3>3, <3>4
      <4> QED
        BY <3>4, <4>1
    <3>5. CASE ~ (e # NoSize /\ ps # -1)
      <4>1. x = half
        BY <3>3, <3>5
      <4>2. CASE mem > 1
        <5>1. s.code = 2 /\ s.size = half
          BY <3>2, <3>5, <4>2
        <5> QED
          BY <3>1, <4>1, <5>1
      <4>3. CASE ~ (mem > 1)
        <5>1. s.size = 0
          BY <3>2, <3>5, <4>3
        <5> QED
          BY <1>3, <5>1
      <4> QED
        BY <4>2, <4>3
    <3> QED
      BY <3>4, <3>5
  <2>11. PICK y, so : y = z' /\ so = IF s.code \in {0, 1} THEN s.size ELSE -1
    OBVIOUS
  <2>12. /\ y.size = x /\ y.sizeopt = so /\ y.mode = z.mode /\ y.flags = z.flags
         /\ y.opts = z.opts
    <3>1. y = [z EXCEPT !.size = x, !.sizeopt = so]
      BY <1>0, <2>10, <2>11
    <3>2. z = [size |-> z.size, mode |-> z.mode, uid |-> z.uid, gid |-> z.gid,
               flags |-> z.flags, opts |-> z.opts, sizeopt |-> z.sizeopt]
      BY <2>2 DEF ReadSoFar
    <3> HIDE DEF s
    <3> QED
      BY <3>1, <3>2
  <2>13. KernelSize' = x
    <3>1. IF y.sizeopt = -1 THEN mem \div 2 = x ELSE y.sizeopt = x
      <4> HIDE DEF s
      <4> QED
        BY <2>10, <2>11, <2>12
    <3>2. mem' = mem
      BY <1>0
    <3> QED
      BY <2>11, <3>1, <3>2 DEF KernelSize
  <2>14. y.mode = NumberOf(8, AskedMode)
    <3>1. z.mode = NumberOf(8, Value(LastIn(done, OctalWords, EmptyString), DefaultMode(app.type)))
      BY <2>2 DEF ReadSoFar
    <3> QED
      BY <2>5, <2>7, <2>12, <3>1
  <2>15. "RDONLY" \in y.flags <=> AskedReadonly
    BY <2>4, <2>5, <2>7, <2>12 DEF AskedReadonly
  <2>16. ASSUME KernelReads'
         PROVE  \/ KernelValue("mode", 8, NumberOf(8, ZTmpfs))' = NumberOf(8, AskedMode)
                \/ AskedMode = ZDisk
    <3>1. PICK o : o = z.opts
      OBVIOUS
    <3>2. o = z'.opts
      BY <2>11, <2>12, <3>1
    <3>3. \A i \in DOMAIN o : o[i] \in ModeWords => o[i] \in OctalWords
      <4>1. \A i \in DOMAIN o : o[i] \in DOMAIN KeyOf =>
              (KeyOf[o[i]] = "mode" => IsNumber(8, ValueOf[o[i]]))
        BY <2>16, <3>2 DEF KernelReads
      <4> QED
        BY <4>1 DEF ModeWords, OctalWords, WithKey
    <3>4. PICK w : w = LastIn(W, OctalWords, EmptyString)
      OBVIOUS
    <3>5. LastIn(o, ModeWords, EmptyString) = w
      BY <2>2, <2>7, <3>1, <3>3, <3>4 DEF ReadSoFar
    <3>6. KernelValue("mode", 8, NumberOf(8, ZTmpfs))' =
            IF w = EmptyString THEN NumberOf(8, ZTmpfs) ELSE NumberOf(8, ValueOf[w])
      BY <3>2, <3>5 DEF KernelValue, ModeWords
    <3>7. AskedMode = Value(w, DefaultMode(app.type))
      BY <2>5, <3>4
    <3>8. CASE w = EmptyString
      BY <3>6, <3>7, <3>8 DEF Value, DefaultMode
    <3>9. CASE w # EmptyString
      BY <3>6, <3>7, <3>9 DEF Value
    <3> QED
      BY <3>8, <3>9
  <2>17. Configured'
    <3>1. AskedSize' = AskedSize /\ AskedMode' = AskedMode /\ (AskedReadonly' <=> AskedReadonly)
      BY <1>0, SameCall
    <3>2. z'.size = AskedSize' /\ KernelSize' = AskedSize'
      BY <2>8, <2>11, <2>12, <2>13, <3>1
    <3>3. z'.mode = NumberOf(8, AskedMode')
      BY <2>11, <2>14, <3>1
    <3>4. "RDONLY" \in z'.flags <=> AskedReadonly'
      BY <2>11, <2>15, <3>1
    <3> QED
      BY <2>16, <3>1, <3>2, <3>3, <3>4 DEF Configured
  <2>18. pc' = "claim"
    BY <1>0, <1>3
  <2> QED
    BY <1>0, <1>1, <2>17, <2>18 DEF AskedInv
<1> QED
  BY <1>2, <1>3

\* The configuration does not change any more, and neither does what was asked for.
LEMMA SameConfigured ==
  ASSUME UNCHANGED << call, mem, z >>
  PROVE  /\ Configured => Configured'
         /\ IsTmpfs' <=> IsTmpfs
         /\ AskedSize' = AskedSize /\ AskedMode' = AskedMode
         /\ AskedReadonly' <=> AskedReadonly
         /\ DiskMode' = DiskMode
<1>1. AskedSize' = AskedSize /\ AskedMode' = AskedMode /\ (AskedReadonly' <=> AskedReadonly)
  BY SameCall
<1>2. KernelSize' = KernelSize /\ (KernelReads' <=> KernelReads)
  BY DEF KernelSize, KernelReads
<1>3. KernelValue("mode", 8, NumberOf(8, ZTmpfs))' = KernelValue("mode", 8, NumberOf(8, ZTmpfs))
  BY DEF KernelValue
<1>4. Configured => Configured'
  BY <1>1, <1>2, <1>3 DEF Configured
<1>5. DiskMode' = DiskMode
  BY <1>1 DEF DiskMode
<1> QED
  BY <1>1, <1>4, <1>5 DEF IsTmpfs

\* Up to the mount, and for disks and swap space: nothing is mounted.
LEMMA UnmountedAsked ==
  ASSUME AskedInv,
         DiskSimple \/ ClaimDisk \/ Mkfs \/ ReleaseUnformatted
           \/ Autoswap \/ ClaimSwaps \/ Mkswap \/ Swapon
  PROVE  AskedInv'
<1> DEFINE Late == {"claim", "mkfs", "release", "mount", "perm", "fallback"}
           Swap == {"claimswaps", "mkswap", "swapon", "crash", "done"}
<1>0. call \in Calls
  BY DEF AskedInv
<1>1. NotMounted.as = "nothing"
  BY DEF NotMounted
<1>2. CASE DiskSimple
  <2>1. pc = "disk" /\ pc' \in {"claim", "done"} /\ UNCHANGED << call, mem, mount, app >>
    BY <1>2 DEF DiskSimple, Return, Goto
  <2>2. ~ IsTmpfs /\ mount = NotMounted
    BY <2>1 DEF AskedInv
  <2>3. ~ IsTmpfs'
    BY <2>1, <2>2 DEF IsTmpfs
  <2> QED
    BY <1>0, <1>1, <2>1, <2>2, <2>3 DEF AskedInv, MountIsAsked
<1>3. CASE ClaimDisk
  <2>1. /\ pc = "claim" /\ UNCHANGED << call, mem, z, mount >>
        /\ pc' = "mkfs" \/ (IsTmpfs /\ pc' = "fallback") \/ pc' = "done"
    BY <1>3 DEF ClaimDisk, NoDisk, Return, Goto
  <2>2. mount = NotMounted /\ (IsTmpfs => Configured)
    BY <2>1 DEF AskedInv
  <2>3. (Configured => Configured') /\ (IsTmpfs' <=> IsTmpfs)
    BY <2>1, SameConfigured
  <2> QED
    BY <1>0, <1>1, <2>1, <2>2, <2>3 DEF AskedInv, MountIsAsked
<1>4. CASE Mkfs
  <2>1. /\ pc = "mkfs" /\ UNCHANGED << call, mem, z, mount >>
        /\ \/ pc' = "mount" /\ IsTmpfs /\ devtype' = format'
           \/ pc' = "free" \/ pc' = "release"
    BY <1>4 DEF Mkfs, Goto
  <2>2. mount = NotMounted /\ (IsTmpfs => Configured)
    BY <2>1 DEF AskedInv
  <2>3. (Configured => Configured') /\ (IsTmpfs' <=> IsTmpfs)
    BY <2>1, SameConfigured
  <2> QED
    BY <1>0, <1>1, <2>1, <2>2, <2>3 DEF AskedInv, MountIsAsked
<1>5. CASE ReleaseUnformatted
  <2>1. /\ pc = "release" /\ UNCHANGED << call, mem, z, mount >>
        /\ (IsTmpfs /\ pc' = "fallback") \/ pc' = "done"
    BY <1>5 DEF ReleaseUnformatted, NoDisk, Return, Goto
  <2>2. mount = NotMounted /\ (IsTmpfs => Configured)
    BY <2>1 DEF AskedInv
  <2>3. (Configured => Configured') /\ (IsTmpfs' <=> IsTmpfs)
    BY <2>1, SameConfigured
  <2> QED
    BY <1>0, <1>1, <2>1, <2>2, <2>3 DEF AskedInv, MountIsAsked
<1>6. CASE Autoswap \/ ClaimSwaps \/ Mkswap \/ Swapon
  <2>1. /\ pc \in {"autoswap", "claimswaps", "mkswap", "swapon"} /\ pc' \in Swap
        /\ UNCHANGED << call, mount >>
    BY <1>6 DEF Autoswap, ClaimSwaps, Mkswap, Swapon, SwapLoop, Return, Goto
  <2>2. mount = NotMounted
    BY <2>1 DEF AskedInv
  <2> QED
    BY <1>0, <1>1, <2>1, <2>2 DEF AskedInv, MountIsAsked
<1> QED
  BY <1>2, <1>3, <1>4, <1>5, <1>6

\* The mounts, of the disk and of the tmpfs in its place.
LEMMA MountAsked ==
  ASSUME AskedInv, MountDisk \/ SetOwner \/ FreeDev \/ NormalTmpfs
  PROVE  AskedInv'
<1>0. call \in Calls
  BY DEF AskedInv
<1>1. NotMounted.as = "nothing"
  BY DEF NotMounted
<1>2. CASE MountDisk
  <2>1. /\ pc = "mount" /\ UNCHANGED << call, mem, z, format >>
        /\ \/ /\ pc' = "perm"
              /\ mount' = [as |-> "zram", type |-> devtype, size |-> z.size,
                           flags |-> z.flags \cup {"NOATIME"}, mode |-> MkfsMode, uid |-> 0, gid |-> 0]
           \/ pc' = "done" /\ mount' = mount
    BY <1>2 DEF MountDisk, Return, Goto
  <2>2. mount = NotMounted /\ Configured /\ devtype = format /\ IsTmpfs
    BY <2>1 DEF AskedInv
  <2>3. (Configured => Configured') /\ (IsTmpfs' <=> IsTmpfs)
    BY <2>1, SameConfigured
  <2>4. pc' = "perm" => DiskMounted'
    BY <2>1, <2>2 DEF DiskMounted
  <2> QED
    BY <1>0, <1>1, <2>1, <2>2, <2>3, <2>4 DEF AskedInv, MountIsAsked
<1>3. CASE SetOwner
  <2>1. /\ pc = "perm" /\ pc' = "free" /\ UNCHANGED << call, mem, z, format >>
    BY <1>3 DEF SetOwner, Goto
  <2>2. Configured /\ DiskMounted
    BY <2>1 DEF AskedInv
  <2>3. /\ AskedSize' = AskedSize /\ AskedMode' = AskedMode /\ (AskedReadonly' <=> AskedReadonly)
        /\ DiskMode' = DiskMode
    BY <2>1, SameConfigured
  <2>4. /\ mount.size = AskedSize /\ mount.as = "zram" /\ mount.type = format
        /\ mount.mode = MkfsMode /\ "zram" # "tmpfs"
        /\ "RDONLY" \in mount.flags <=> AskedReadonly
    BY <2>2 DEF DiskMounted, Configured
  <2>5. CASE "RDONLY" \in z.flags
    <3>1. mount' = mount /\ DiskMode = MkfsMode
      BY <1>3, <2>2, <2>5 DEF SetOwner, Configured, DiskMode
    <3>2. MountIsAsked'
      BY <2>1, <2>3, <2>4, <3>1 DEF MountIsAsked
    <3> QED
      BY <1>0, <2>1, <3>2 DEF AskedInv
  <2>6. CASE "RDONLY" \notin z.flags
    <3>1. PICK m, u, g : /\ mount' = [mount EXCEPT !.mode = m, !.uid = u, !.gid = g]
                         /\ IF z.mode = 0 THEN m = mount.mode ELSE m \in {-1, z.mode}
      BY <1>3, <2>6 DEF SetOwner
    <3>2. PICK b : b = mount'
      OBVIOUS
    <3>3. /\ b.size = mount.size /\ b.as = mount.as /\ b.type = mount.type
          /\ b.flags = mount.flags /\ b.mode = m
      <4>1. PICK fl, fo, si, mo : /\ fl = z.flags \cup {"NOATIME"} /\ fo = format
                                  /\ si = z.size /\ mo = MkfsMode
        OBVIOUS
      <4>2. mount = [as |-> "zram", type |-> fo, size |-> si, flags |-> fl,
                     mode |-> mo, uid |-> 0, gid |-> 0]
        BY <2>2, <4>1 DEF DiskMounted
      <4>3. b = [as |-> "zram", type |-> fo, size |-> si, flags |-> fl,
                 mode |-> m, uid |-> u, gid |-> g]
        BY <3>1, <3>2, <4>2
      <4> QED
        BY <4>2, <4>3
    <3>4. m \in {-1, DiskMode}
      BY <2>2, <2>4, <2>6, <3>1 DEF Configured, DiskMode
    <3>5. MountIsAsked'
      BY <2>1, <2>3, <2>4, <3>2, <3>3, <3>4 DEF MountIsAsked
    <3> QED
      BY <1>0, <2>1, <3>5 DEF AskedInv
  <2> QED
    BY <2>5, <2>6
<1>4. CASE FreeDev
  <2>1. /\ pc = "free" /\ pc' = "done" /\ UNCHANGED << call, mem, z, format, mount >>
    BY <1>4 DEF FreeDev, Return
  <2>2. MountIsAsked
    BY <2>1 DEF AskedInv
  <2>3. /\ AskedSize' = AskedSize /\ AskedMode' = AskedMode /\ (AskedReadonly' <=> AskedReadonly)
        /\ DiskMode' = DiskMode
    BY <2>1, SameConfigured
  <2>4. MountIsAsked'
    BY <2>1, <2>2, <2>3 DEF MountIsAsked
  <2> QED
    BY <1>0, <2>1, <2>4 DEF AskedInv
<1>5. CASE NormalTmpfs
  <2>0. PICK k, u, g : /\ k = KernelValue("mode", 8, NumberOf(8, ZTmpfs))
                       /\ u = KernelValue("uid", 10, 0) /\ g = KernelValue("gid", 10, 0)
    OBVIOUS
  <2>1. /\ pc = "fallback" /\ pc' = "done" /\ UNCHANGED << call, mem, z, format >>
        /\ \/ /\ KernelReads
              /\ mount' = [as |-> "tmpfs", type |-> "tmpfs", size |-> KernelSize,
                           flags |-> z.flags, mode |-> k, uid |-> u, gid |-> g]
           \/ mount' = mount
    BY <1>5, <2>0 DEF NormalTmpfs, Return
  <2>2. mount = NotMounted /\ Configured
    BY <2>1 DEF AskedInv
  <2>3. /\ AskedSize' = AskedSize /\ AskedMode' = AskedMode /\ (AskedReadonly' <=> AskedReadonly)
    BY <2>1, SameConfigured
  <2>4. MountIsAsked'
    <3>1. CASE mount' = mount
      BY <1>1, <2>2, <3>1 DEF MountIsAsked
    <3>2. CASE mount' # mount
      <4>1. PICK b, si, fl : b = mount' /\ si = KernelSize /\ fl = z.flags
        OBVIOUS
      <4>2. /\ b = [as |-> "tmpfs", type |-> "tmpfs", size |-> si, flags |-> fl, mode |-> k,
                    uid |-> u, gid |-> g]
            /\ KernelReads
        BY <2>1, <3>2, <4>1
      <4>3. b.as = "tmpfs" /\ b.size = si /\ b.flags = fl /\ b.mode = k /\ "tmpfs" # "zram"
        BY <4>2
      <4>4. /\ si = AskedSize /\ ("RDONLY" \in fl <=> AskedReadonly)
            /\ k = NumberOf(8, AskedMode) \/ AskedMode = ZDisk
        BY <2>0, <2>2, <4>1, <4>2 DEF Configured
      <4> QED
        BY <2>3, <4>1, <4>3, <4>4 DEF MountIsAsked
    <3> QED
      BY <3>1, <3>2
  <2> QED
    BY <1>0, <2>1, <2>4 DEF AskedInv
<1> QED
  BY <1>2, <1>3, <1>4, <1>5

\* Nothing happens.
LEMMA StutterAsked ==
  ASSUME AskedInv, UNCHANGED vars
  PROVE  AskedInv'
<1>1. /\ UNCHANGED << call, mem, pc, argv, app, todo, spec, z, devtype, format, mount >>
  BY DEF vars
<1>2. /\ WordsUpTo' = WordsUpTo /\ \A opt : Given(opt)' = Given(opt)
      /\ AskedSize' = AskedSize /\ AskedMode' = AskedMode /\ (AskedReadonly' <=> AskedReadonly)
  BY <1>1, SameCall
<1>3. /\ Configured => Configured'
      /\ IsTmpfs' <=> IsTmpfs
      /\ DiskMode' = DiskMode
  BY <1>1, SameConfigured
<1>4. AppAsked => AppAsked'
  BY <1>1, SameAsked
<1>5. GetoptInv => GetoptInv'
  <2>1. \A seen : AppFor(seen, app) => AppFor(seen, app)'
    BY <1>1, <1>2 DEF AppFor
  <2> QED
    BY <1>1, <2>1 DEF GetoptInv
<1>6. OptsInv => OptsInv'
  BY <1>1, <1>3, <1>4 DEF OptsInv
<1>7. (MountIsAsked => MountIsAsked') /\ (DiskMounted => DiskMounted')
  BY <1>1, <1>2, <1>3 DEF MountIsAsked, DiskMounted
<1> QED
  BY <1>1, <1>3, <1>4, <1>5, <1>6, <1>7 DEF AskedInv

\* Size, mode and read-only flag find their way from any options of ztmpfs and any
\* mount options to the mount, of a zram disk or of the tmpfs in its place.
THEOREM AskedInvariant == Spec => []AskedInv
<1>1. AskedInv /\ [Next]_vars => AskedInv'
  <2> SUFFICES ASSUME AskedInv, [Next]_vars PROVE AskedInv'
    OBVIOUS
  <2>1. CASE UNCHANGED vars
    BY <2>1, StutterAsked
  <2>2. CASE Getopt \/ Ztmpfs \/ ParseFlags \/ ParseOpt \/ ParseEnd
    BY <2>2, GetoptAsked, ZtmpfsAsked, ParseFlagsAsked, ParseOptAsked, ParseEndAsked
  <2>3. CASE DiskSimple \/ ClaimDisk \/ Mkfs \/ ReleaseUnformatted
               \/ Autoswap \/ ClaimSwaps \/ Mkswap \/ Swapon
    BY <2>3, UnmountedAsked
  <2>4. CASE MountDisk \/ SetOwner \/ FreeDev \/ NormalTmpfs
    BY <2>4, MountAsked
  <2> QED
    BY <2>1, <2>2, <2>3, <2>4 DEF Next
<1> QED
  BY <1>1, InitAsked, PTL DEF Spec

\* So what zram_tmpfs leaves mounted when it returns has the size, the mode and the
\* read-only flag that the call asks for, whatever it had to fall back to.
THEOREM AsAsked == Spec => []MountedAsAsked
<1>1. AskedInv => MountedAsAsked
  BY DEF AskedInv, MountIsAsked, MountedAsAsked
<1> QED
  BY <1>1, AskedInvariant, PTL
===============================================================================
