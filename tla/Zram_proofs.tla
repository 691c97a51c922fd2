----------------------------- MODULE Zram_proofs -----------------------------
(***************************************************************************)
(* Proofs about ZramAlloc and ZramSetup, for every number of requests and  *)
(* devices.  First the allocator, on its own; then its callers, who keep   *)
(* to its protocol, so that all theorems about it apply to them, and with  *)
(* whom devices in use stay with their owner.                              *)
(***************************************************************************)
EXTENDS ZramSetup, FiniteSetTheorems, TLAPS

-------------------------------------------------------------------------------
(***************************************************************************)
(* The allocator: its invariant                                            *)
(***************************************************************************)

Scanning == {"check", "claim", "reset", "setcomp", "reclaim"}

\* How the scan position, the device array and the control state fit together.
ShapeOf(r) ==
  /\ pc[r] \in Scanning \ {"check"} => ident[r] \in Device
  /\ pc[r] \in Scanning => cnt[r] < want[r]
  /\ pc[r] = "start" => cnt[r] = 0 /\ pass[r] = 1
  /\ pc[r] \in Scanning \cup {"start"} =>
       \A i \in Slot : arr[r][i] # NoDev <=> i < cnt[r]
  /\ pc[r] = "rollback" => \A i \in Slot : i <= rev[r] => arr[r][i] # NoDev

Shape == \A r \in Req : ShapeOf(r)

\* A request about to reset a device initialised it, and has no record of it.
ResetIsOwn ==
  \A r \in Req : pc[r] = "reset" =>
    /\ owner[ident[r]] = r
    /\ \A i \in Slot : arr[r][i] # ident[r]

SafetyInv == TypeOK /\ Shape /\ ExclusiveClaims /\ ResetIsOwn

\* What a request has passed over in its scan from 0 is still not to be had.
Passed(d) == d \in excused \/ Contended(d)

VisitedOf(r) ==
  /\ pass[r] = 2 => \A d \in Device : d < ident[r] => Passed(d)
  /\ pc[r] \in {"rollback", "failed"} => \A d \in Device : Passed(d)

Visited == \A r \in Req : VisitedOf(r)

-------------------------------------------------------------------------------
(***************************************************************************)
(* Types and shape                                                         *)
(***************************************************************************)

\* The initial states have the types and the shape.
LEMMA InitSafety == Init => SafetyInv
  BY SizeAssumption, NameAssumption
     DEF Init, SafetyInv, TypeOK, Shape, ShapeOf, ExclusiveClaims, ResetIsOwn,
         Scanning, Device, Ident, Slot, NoDev, PC

\* A step that only moves request r's own scan, with the right types.
ScanMove(r) ==
  /\ pc' \in [Req -> PC]
  /\ ident' \in [Req -> Ident]
  /\ pass' \in [Req -> {1, 2}]
  /\ rev' \in [Req -> -1 .. MaxWant - 1]
  /\ \A q \in Req : q # r =>
       /\ pc'[q] = pc[q] /\ ident'[q] = ident[q]
       /\ pass'[q] = pass[q] /\ rev'[q] = rev[q]

\* The second scan of request r has ended without a device.
GaveUp(r) ==
  /\ pc'[r] = IF kind[r] = "single" THEN "failed" ELSE "rollback"
  /\ rev'[r] = cnt[r] - 1
  /\ pass[r] = 2 /\ pass'[r] = 2
  /\ ident'[r] = ident[r]

\* Request r begins its second scan.
Restarted(r) == pc'[r] = "check" /\ ident'[r] = 0 /\ pass'[r] = 2

\* What the end of a scan leaves behind.
LEMMA ScanFailedStep ==
  ASSUME TypeOK, NEW r \in Req, ScanFailed(r)
  PROVE  ScanMove(r) /\ (Restarted(r) \/ GaveUp(r))
  <1>1. CASE pass[r] = 1
    <2>0. /\ pc' = [pc EXCEPT ![r] = "check"]
          /\ ident' = [ident EXCEPT ![r] = 0]
          /\ pass' = [pass EXCEPT ![r] = 2]
          /\ rev' = rev
      BY <1>1 DEF ScanFailed, ScanFrom, Goto
    <2>1. ScanMove(r)
      <3>1. 0 \in Ident /\ "check" \in PC
        BY SizeAssumption DEF Ident, PC
      <3>. QED  BY <2>0, <3>1 DEF TypeOK, ScanMove
    <2>2. Restarted(r)
      BY <1>1 DEF ScanFailed, ScanFrom, Goto, TypeOK, Restarted
    <2>. QED  BY <2>1, <2>2
  <1>2. CASE pass[r] = 2
    <2>1. ScanMove(r)
      BY <1>2, SizeAssumption DEF ScanFailed, Goto, TypeOK, PC, ScanMove
    <2>2. GaveUp(r)
      BY <1>2 DEF ScanFailed, Goto, TypeOK, GaveUp
    <2>. QED  BY <2>1, <2>2
  <1>. QED  BY <1>1, <1>2 DEF TypeOK

\* What trying the next identifier leaves behind.
LEMMA TryNextStep ==
  ASSUME TypeOK, NEW r \in Req, TryNextIdent(r)
  PROVE  /\ ScanMove(r)
         /\ \/ Restarted(r)
            \/ GaveUp(r) /\ ident[r] + 1 = MaxIdent
            \/ pc'[r] = "check" /\ ident'[r] = ident[r] + 1 /\ pass'[r] = pass[r]
  <1>1. CASE ident[r] + 1 < MaxIdent
    <2>1. /\ pc' = [pc EXCEPT ![r] = "check"]
          /\ ident' = [ident EXCEPT ![r] = ident[r] + 1]
          /\ pass' = pass /\ rev' = rev
      BY <1>1 DEF TryNextIdent, Goto
    <2>2. ident[r] + 1 \in Ident /\ "check" \in PC
      BY <1>1, SizeAssumption DEF Ident, PC, TypeOK
    <2>. QED  BY <2>1, <2>2 DEF TypeOK, ScanMove
  <1>2. CASE ~(ident[r] + 1 < MaxIdent)
    <2>1. ScanFailed(r) /\ ident[r] + 1 = MaxIdent
      BY <1>2, SizeAssumption DEF TryNextIdent, TypeOK, Ident
    <2>. QED  BY <2>1, ScanFailedStep
  <1>. QED  BY <1>1, <1>2

\* A failed attempt on one device, or the end of a scan, disturbs nothing.
LEMMA MoveSafe ==
  ASSUME SafetyInv, NEW r \in Req, pc[r] \in Scanning,
         ScanMove(r), Restarted(r) \/ GaveUp(r) \/ pc'[r] = "check",
         UNCHANGED <<owner, kind, want, cnt, arr, hint>>,
         excused' \subseteq Device
  PROVE  SafetyInv'
  <1>1. TypeOK'
    BY DEF SafetyInv, TypeOK, ScanMove
  <1>2. Shape'
    <2> SUFFICES ASSUME NEW q \in Req PROVE ShapeOf(q)'
      BY DEF Shape
    <2>0. ShapeOf(q)
      BY DEF SafetyInv, Shape
    <2>1. CASE q # r
      BY <2>0, <2>1 DEF ShapeOf, ScanMove
    <2>2. CASE q = r
      <3>1. pc'[r] = "check" \/ pc'[r] = "failed" \/ (pc'[r] = "rollback" /\ rev'[r] = cnt[r] - 1)
        BY DEF Restarted, GaveUp
      <3>2. \A i \in Slot : arr[r][i] # NoDev <=> i < cnt[r]
        BY <2>0, <2>2 DEF ShapeOf
      <3>3. cnt[r] \in Int /\ Slot \subseteq Int /\ cnt[r] < want[r]
        BY <2>0, <2>2 DEF ShapeOf, SafetyInv, TypeOK, Slot
      <3>. QED  BY <2>2, <3>1, <3>2, <3>3 DEF ShapeOf, Scanning
    <2>. QED  BY <2>1, <2>2
  <1>3. ExclusiveClaims'
    BY DEF SafetyInv, ExclusiveClaims
  <1>4. ResetIsOwn'
    BY DEF SafetyInv, ResetIsOwn, ScanMove, Restarted, GaveUp
  <1>. QED  BY <1>1, <1>2, <1>3, <1>4 DEF SafetyInv

\* Entering a claim function.
LEMMA StartSafe ==
  ASSUME SafetyInv, NEW r \in Req, Start(r)
  PROVE  SafetyInv'
  <1>1. PICK kd \in Kinds, n \in 1..MaxWant, h \in Ident :
          /\ kind' = [kind EXCEPT ![r] = kd]
          /\ want' = [want EXCEPT ![r] = n]
          /\ hint' = [hint EXCEPT ![r] = h]
          /\ ident' = [ident EXCEPT ![r] = h]
          /\ pass'  = [pass EXCEPT ![r] = IF h > 0 THEN 1 ELSE 2]
    BY DEF Start, ScanFrom
  <1>2. /\ pc[r] = "start" /\ pc' = [pc EXCEPT ![r] = "check"]
        /\ UNCHANGED <<owner, cnt, arr, rev, excused>>
    BY DEF Start, Goto
  <1>3. TypeOK'
    <2>1. pc' \in [Req -> PC]
      BY <1>2 DEF SafetyInv, TypeOK, PC
    <2>. QED  BY <1>1, <1>2, <2>1, NameAssumption DEF SafetyInv, TypeOK
  <1>4. Shape'
    <2> SUFFICES ASSUME NEW q \in Req PROVE ShapeOf(q)'
      BY DEF Shape
    <2>0. ShapeOf(q)
      BY DEF SafetyInv, Shape
    <2>1. CASE q # r
      BY <2>0, <2>1, <1>1, <1>2 DEF ShapeOf, SafetyInv, TypeOK
    <2>2. CASE q = r
      <3>1. pc'[r] = "check" /\ want'[r] = n /\ n > 0 /\ cnt'[r] = 0
        BY <1>1, <1>2, <2>0, <2>2 DEF ShapeOf, SafetyInv, TypeOK
      <3>. QED  BY <2>0, <2>2, <1>2, <3>1 DEF ShapeOf, Scanning
    <2>. QED  BY <2>1, <2>2
  <1>5. ExclusiveClaims'
    BY <1>2 DEF SafetyInv, ExclusiveClaims
  <1>6. ResetIsOwn'
    <2> SUFFICES ASSUME NEW q \in Req, pc'[q] = "reset"
                 PROVE  owner[ident'[q]] = q /\ \A i \in Slot : arr[q][i] # ident'[q]
      BY <1>2 DEF ResetIsOwn
    <2>1. q # r
      BY <1>2 DEF SafetyInv, TypeOK
    <2>. QED  BY <2>1, <1>1, <1>2 DEF SafetyInv, ResetIsOwn, TypeOK
  <1>. QED  BY <1>3, <1>4, <1>5, <1>6 DEF SafetyInv

\* Reading initstate.
LEMMA CheckSafe ==
  ASSUME SafetyInv, NEW r \in Req, CheckInitstate(r)
  PROVE  SafetyInv'
  <1>0. TypeOK /\ pc[r] \in Scanning /\ UNCHANGED <<owner, kind, want, cnt, arr, hint, excused>>
    BY DEF CheckInitstate, SafetyInv, Scanning
  <1>1. CASE ScanFailed(r)
    BY <1>0, <1>1, ScanFailedStep, MoveSafe DEF TypeOK
  <1>2. CASE TryNextIdent(r)
    BY <1>0, <1>2, TryNextStep, MoveSafe DEF TypeOK
  <1>3. CASE /\ ident[r] \in Device /\ Goto(r, "claim")
             /\ UNCHANGED <<ident, pass, rev>>
    <2>1. TypeOK'
      <3>1. pc' \in [Req -> PC]
        BY <1>3 DEF Goto, SafetyInv, TypeOK, PC
      <3>. QED  BY <1>0, <1>3, <3>1 DEF TypeOK
    <2>2. Shape'
      <3> SUFFICES ASSUME NEW q \in Req PROVE ShapeOf(q)'
        BY DEF Shape
      <3>0. ShapeOf(q)
        BY DEF SafetyInv, Shape
      <3>1. CASE q # r
        BY <3>0, <3>1, <1>0, <1>3 DEF ShapeOf, Goto, TypeOK
      <3>2. CASE q = r
        <4>1. pc'[r] = "claim"
          BY <1>0, <1>3 DEF Goto, TypeOK
        <4>. QED  BY <3>0, <3>2, <4>1, <1>0, <1>3 DEF ShapeOf, Scanning
      <3>. QED  BY <3>1, <3>2
    <2>3. ExclusiveClaims' /\ ResetIsOwn'
      BY <1>0, <1>3 DEF SafetyInv, ExclusiveClaims, ResetIsOwn, Goto, TypeOK
    <2>. QED  BY <2>1, <2>2, <2>3 DEF SafetyInv
  <1>. QED  BY <1>1, <1>2, <1>3 DEF CheckInitstate

\* A refused disksize write.
LEMMA WriteFailsSafe ==
  ASSUME SafetyInv, NEW r \in Req, pc[r] \in {"claim", "reclaim"},
         WriteDisksizeFails(r)
  PROVE  SafetyInv'
  <1>1. TypeOK /\ ShapeOf(r)
    BY DEF SafetyInv, Shape
  <1>2. ident[r] \in Device /\ pc[r] \in Scanning
    BY <1>1 DEF ShapeOf, Scanning
  <1>3. OutOfReach(r) \subseteq Device
    BY <1>1, <1>2, SizeAssumption DEF OutOfReach, Device, TypeOK, Ident
  <1>4. excused' \subseteq Device
    BY <1>1, <1>2, <1>3 DEF WriteDisksizeFails, TypeOK
  <1>. QED  BY <1>1, <1>2, <1>4, TryNextStep, ScanFailedStep, MoveSafe DEF WriteDisksizeFails

\* An uninitialised device is in nobody's array.
LEMMA FreeNotHeld ==
  ASSUME ExclusiveClaims, NEW d \in Device, owner[d] = None
  PROVE  \A q \in Req, i \in Slot : arr[q][i] # d
  <1> SUFFICES ASSUME NEW q \in Req, NEW i \in Slot, arr[q][i] = d PROVE FALSE
    OBVIOUS
  <1>1. d # NoDev
    BY SizeAssumption DEF Device, NoDev
  <1>2. owner[d] = q
    BY <1>1 DEF ExclusiveClaims
  <1>. QED  BY <1>2, NameAssumption

\* The first disksize write.
LEMMA DoClaimSafe ==
  ASSUME SafetyInv, NEW r \in Req, DoClaim(r)
  PROVE  SafetyInv'
  <1>0. TypeOK /\ pc[r] = "claim"
    BY DEF DoClaim, SafetyInv
  <1>1. CASE WriteDisksizeFails(r)
    BY <1>0, <1>1, WriteFailsSafe
  <1>2. CASE /\ owner[ident[r]] = None
             /\ owner' = [owner EXCEPT ![ident[r]] = r]
             /\ Goto(r, "reset")
             /\ UNCHANGED <<kind, want, cnt, arr, ident, pass, hint, rev, excused>>
    <2>1. pc' = [pc EXCEPT ![r] = "reset"] /\ ident[r] \in Device /\ None # r
      BY <1>0, <1>2, NameAssumption DEF Goto, SafetyInv, Shape, ShapeOf, Scanning
    <2>2. TypeOK'
      <3>1. pc' \in [Req -> PC]
        BY <1>0, <2>1 DEF TypeOK, PC
      <3>. QED  BY <1>0, <1>2, <2>1, <3>1 DEF TypeOK
    <2>3. Shape'
      <3> SUFFICES ASSUME NEW q \in Req PROVE ShapeOf(q)'
        BY DEF Shape
      <3>0. ShapeOf(q)
        BY DEF SafetyInv, Shape
      <3>1. CASE q # r
        BY <3>0, <3>1, <1>0, <1>2, <2>1 DEF ShapeOf, TypeOK
      <3>2. CASE q = r
        <4>1. pc'[r] = "reset"
          BY <1>0, <2>1 DEF TypeOK
        <4>. QED  BY <3>0, <3>2, <4>1, <1>0, <1>2, <2>1 DEF ShapeOf, Scanning
      <3>. QED  BY <3>1, <3>2
    <2>4. \A q \in Req, i \in Slot : arr[q][i] # ident[r]
      BY <1>2, <2>1, FreeNotHeld DEF SafetyInv
    <2>5. ExclusiveClaims'
      BY <1>0, <1>2, <2>4 DEF SafetyInv, ExclusiveClaims, TypeOK
    <2>6. ResetIsOwn'
      <3> SUFFICES ASSUME NEW q \in Req, pc'[q] = "reset"
                   PROVE  owner'[ident[q]] = q /\ \A i \in Slot : arr[q][i] # ident[q]
        BY <1>2 DEF ResetIsOwn
      <3>1. CASE q = r
        BY <3>1, <1>0, <1>2, <2>1, <2>4 DEF TypeOK
      <3>2. CASE q # r
        <4>1. pc[q] = "reset" /\ owner[ident[q]] = q
          BY <3>2, <1>0, <2>1 DEF SafetyInv, ResetIsOwn, TypeOK
        <4>2. ident[q] # ident[r]
          BY <4>1, <1>2, NameAssumption
        <4>. QED  BY <4>1, <4>2, <1>0, <1>2, <2>1 DEF SafetyInv, ResetIsOwn, TypeOK
      <3>. QED  BY <3>1, <3>2
    <2>. QED  BY <2>2, <2>3, <2>5, <2>6 DEF SafetyInv
  <1>. QED  BY <1>1, <1>2 DEF DoClaim

\* The reset inside a claim.
LEMMA DoResetSafe ==
  ASSUME SafetyInv, NEW r \in Req, DoReset(r)
  PROVE  SafetyInv'
  <1>0. /\ TypeOK /\ pc[r] = "reset" /\ pc[r] \in Scanning
        /\ UNCHANGED <<kind, want, cnt, arr, hint, excused>>
    BY DEF DoReset, SafetyInv, Scanning
  <1>1. CASE TryNextIdent(r) /\ UNCHANGED owner
    BY <1>0, <1>1, TryNextStep, MoveSafe DEF TypeOK
  <1>2. CASE /\ owner' = [owner EXCEPT ![ident[r]] = None]
             /\ Goto(r, "setcomp")
             /\ UNCHANGED <<ident, pass, rev>>
    <2>1. /\ pc' = [pc EXCEPT ![r] = "setcomp"] /\ ident[r] \in Device
          /\ owner[ident[r]] = r
          /\ \A i \in Slot : arr[r][i] # ident[r]
      BY <1>0, <1>2 DEF Goto, SafetyInv, Shape, ShapeOf, ResetIsOwn, Scanning
    <2>2. TypeOK'
      <3>1. pc' \in [Req -> PC]
        BY <1>0, <2>1 DEF TypeOK, PC
      <3>. QED  BY <1>0, <1>2, <2>1, <3>1 DEF TypeOK
    <2>3. Shape'
      <3> SUFFICES ASSUME NEW q \in Req PROVE ShapeOf(q)'
        BY DEF Shape
      <3>0. ShapeOf(q)
        BY DEF SafetyInv, Shape
      <3>1. CASE q # r
        BY <3>0, <3>1, <1>0, <1>2, <2>1 DEF ShapeOf, TypeOK
      <3>2. CASE q = r
        <4>1. pc'[r] = "setcomp"
          BY <1>0, <2>1 DEF TypeOK
        <4>. QED  BY <3>0, <3>2, <4>1, <1>0, <1>2, <2>1 DEF ShapeOf, Scanning
      <3>. QED  BY <3>1, <3>2
    <2>4. ExclusiveClaims'
      <3> SUFFICES ASSUME NEW q \in Req, NEW i \in Slot, arr[q][i] # NoDev
                   PROVE  /\ owner'[arr[q][i]] = q
                          /\ \A j \in Slot : arr[q][j] = arr[q][i] => i = j
        BY <1>0 DEF ExclusiveClaims
      <3>1. owner[arr[q][i]] = q /\ \A j \in Slot : arr[q][j] = arr[q][i] => i = j
        BY DEF SafetyInv, ExclusiveClaims
      <3>2. arr[q][i] # ident[r]
        BY <2>1, <3>1
      <3>3. arr[q][i] \in Device
        BY <1>0 DEF TypeOK
      <3>. QED  BY <1>0, <1>2, <3>1, <3>2, <3>3 DEF TypeOK
    <2>5. ResetIsOwn'
      <3> SUFFICES ASSUME NEW q \in Req, pc'[q] = "reset"
                   PROVE  owner'[ident[q]] = q /\ \A i \in Slot : arr[q][i] # ident[q]
        BY <1>0, <1>2 DEF ResetIsOwn
      <3>1. q # r /\ pc[q] = "reset"
        BY <1>0, <2>1 DEF TypeOK
      <3>2. owner[ident[q]] = q /\ (\A i \in Slot : arr[q][i] # ident[q]) /\ ident[q] \in Device
        BY <3>1 DEF SafetyInv, ResetIsOwn, Shape, ShapeOf, Scanning
      <3>. QED  BY <3>1, <3>2, <2>1, <1>0, <1>2 DEF TypeOK
    <2>. QED  BY <2>2, <2>3, <2>4, <2>5 DEF SafetyInv
  <1>. QED  BY <1>1, <1>2 DEF DoReset

\* Writing comp_algorithm.
LEMMA SetCompressionSafe ==
  ASSUME SafetyInv, NEW r \in Req, SetCompression(r)
  PROVE  SafetyInv'
  <1>0. /\ TypeOK /\ pc[r] = "setcomp" /\ pc' = [pc EXCEPT ![r] = "reclaim"]
        /\ UNCHANGED <<owner, kind, want, cnt, arr, ident, pass, hint, rev, excused>>
    BY DEF SetCompression, Goto, SafetyInv
  <1>1. TypeOK'
    <2>1. pc' \in [Req -> PC]
      BY <1>0 DEF TypeOK, PC
    <2>. QED  BY <1>0, <2>1 DEF TypeOK
  <1>2. Shape'
    <2> SUFFICES ASSUME NEW q \in Req PROVE ShapeOf(q)'
      BY DEF Shape
    <2>0. ShapeOf(q)
      BY DEF SafetyInv, Shape
    <2>1. CASE q # r
      BY <2>0, <2>1, <1>0 DEF ShapeOf, TypeOK
    <2>2. CASE q = r
      <3>1. pc'[r] = "reclaim"
        BY <1>0 DEF TypeOK
      <3>. QED  BY <2>0, <2>2, <3>1, <1>0 DEF ShapeOf, Scanning
    <2>. QED  BY <2>1, <2>2
  <1>3. ExclusiveClaims' /\ ResetIsOwn'
    BY <1>0 DEF SafetyInv, ExclusiveClaims, ResetIsOwn, TypeOK
  <1>. QED  BY <1>1, <1>2, <1>3 DEF SafetyInv

\* The effect of a second disksize write that succeeds.
Obtained(r) ==
  /\ owner[ident[r]] = None
  /\ owner' = [owner EXCEPT ![ident[r]] = r]
  /\ arr' = [arr EXCEPT ![r][cnt[r]] = ident[r]]
  /\ cnt' = [cnt EXCEPT ![r] = cnt[r] + 1]
  /\ hint' = [hint EXCEPT ![r] = (ident[r] + 1) % MaxIdent]
  /\ \/ /\ cnt[r] + 1 < want[r]
        /\ pc' = [pc EXCEPT ![r] = "check"]
        /\ ident' = [ident EXCEPT ![r] = (ident[r] + 1) % MaxIdent]
        /\ pass' = [pass EXCEPT ![r] = IF (ident[r] + 1) % MaxIdent > 0 THEN 1 ELSE 2]
     \/ /\ ~(cnt[r] + 1 < want[r])
        /\ pc' = [pc EXCEPT ![r] = "claimed"]
        /\ UNCHANGED <<ident, pass>>
  /\ UNCHANGED <<kind, want, rev, excused>>

\* The second disksize write has two outcomes.
LEMMA ReclaimCases ==
  ASSUME NEW r \in Req, Reclaim(r)
  PROVE  pc[r] = "reclaim" /\ (Obtained(r) \/ WriteDisksizeFails(r))
  BY DEF Reclaim, ClaimSucceeded, Obtained, ScanFrom, Goto

\* The second disksize write.
LEMMA ReclaimSafe ==
  ASSUME SafetyInv, NEW r \in Req, Reclaim(r)
  PROVE  SafetyInv'
  <1>0. TypeOK /\ pc[r] = "reclaim"
    BY ReclaimCases DEF SafetyInv
  <1>1. CASE WriteDisksizeFails(r)
    BY <1>0, <1>1, WriteFailsSafe
  <1>2. CASE Obtained(r)
    <2>1. /\ ident[r] \in Device /\ None # r /\ cnt[r] < want[r]
          /\ \A i \in Slot : arr[r][i] # NoDev <=> i < cnt[r]
      BY <1>0, NameAssumption DEF SafetyInv, Shape, ShapeOf, Scanning
    <2>2. cnt[r] \in Slot /\ cnt[r] + 1 \in 0..MaxWant
      BY <1>0, <2>1, SizeAssumption DEF TypeOK, Slot
    <2>3. (ident[r] + 1) % MaxIdent \in Ident
      BY <1>0, SizeAssumption DEF TypeOK, Ident
    <2>4. pc'[r] \in {"check", "claimed"} /\ pc' \in [Req -> PC]
      BY <1>0, <1>2 DEF Obtained, TypeOK, PC
    <2>5. TypeOK'
      <3>1. owner' \in [Device -> Req \cup {None, Foreign}]
        BY <1>0, <1>2, <2>1 DEF Obtained, TypeOK
      <3>2. arr' \in [Req -> [Slot -> Device \cup {NoDev}]]
        BY <1>0, <1>2, <2>1, <2>2 DEF Obtained, TypeOK
      <3>3. /\ ident' \in [Req -> Ident] /\ hint' \in [Req -> Ident]
            /\ cnt' \in [Req -> 0..MaxWant] /\ pass' \in [Req -> {1, 2}]
        <4> DEFINE h == (ident[r] + 1) % MaxIdent
        <4>1. ident' \in [Req -> Ident]
          BY <1>0, <1>2, <2>3 DEF Obtained, TypeOK
        <4>2. hint' = [hint EXCEPT ![r] = h] /\ h \in Ident
          BY <1>2, <2>3 DEF Obtained
        <4>3. hint' \in [Req -> Ident]
          <5> HIDE DEF h
          <5>. QED  BY <4>2, <1>0 DEF TypeOK
        <4>4. cnt' \in [Req -> 0..MaxWant]
          BY <1>0, <1>2, <2>2 DEF Obtained, TypeOK
        <4>5. pass' \in [Req -> {1, 2}]
          BY <1>0, <1>2 DEF Obtained, TypeOK
        <4>. QED  BY <4>1, <4>3, <4>4, <4>5
      <3>. QED  BY <1>0, <1>2, <2>4, <3>1, <3>2, <3>3 DEF Obtained, TypeOK
    <2>6. \A q \in Req, i \in Slot : arr[q][i] # ident[r]
      BY <1>0, <1>2, <2>1, FreeNotHeld DEF Obtained, SafetyInv
    <2>7. /\ \A q \in Req : q # r =>
               pc'[q] = pc[q] /\ arr'[q] = arr[q] /\ ident'[q] = ident[q]
               /\ cnt'[q] = cnt[q] /\ pass'[q] = pass[q]
          /\ arr'[r] = [arr[r] EXCEPT ![cnt[r]] = ident[r]]
          /\ cnt'[r] = cnt[r] + 1
          /\ UNCHANGED <<kind, want, rev, excused>>
      BY <1>0, <1>2 DEF Obtained, TypeOK
    <2>8. Shape'
      <3> SUFFICES ASSUME NEW q \in Req PROVE ShapeOf(q)'
        BY DEF Shape
      <3>0. ShapeOf(q)
        BY DEF SafetyInv, Shape
      <3>1. CASE q # r
        BY <3>0, <3>1, <2>7 DEF ShapeOf
      <3>2. CASE q = r
        <4>1. pc'[r] = "check" => cnt'[r] < want'[r]
          BY <1>0, <1>2 DEF Obtained, TypeOK
        <4>2. \A i \in Slot : arr'[r][i] # NoDev <=> i < cnt'[r]
          <5>1. ident[r] # NoDev /\ cnt[r] \in Int /\ Slot \subseteq Int
            BY <2>1, <2>2, SizeAssumption DEF Device, NoDev, Slot
          <5> SUFFICES ASSUME NEW i \in Slot PROVE arr'[r][i] # NoDev <=> i < cnt[r] + 1
            BY <2>7
          <5>2. CASE i = cnt[r]
            BY <5>1, <5>2, <1>0, <2>7 DEF TypeOK
          <5>3. CASE i # cnt[r]
            <6>1. arr'[r][i] = arr[r][i]
              BY <5>3, <1>0, <2>7 DEF TypeOK
            <6>. QED  BY <6>1, <5>1, <5>3, <2>1
          <5>. QED  BY <5>2, <5>3
        <4>. QED  BY <3>2, <2>4, <4>1, <4>2 DEF ShapeOf, Scanning
      <3>. QED  BY <3>1, <3>2
    <2>9. ExclusiveClaims'
      <3> SUFFICES ASSUME NEW q \in Req, NEW i \in Slot, arr'[q][i] # NoDev
                   PROVE  /\ owner'[arr'[q][i]] = q
                          /\ \A j \in Slot : arr'[q][j] = arr'[q][i] => i = j
        BY DEF ExclusiveClaims
      <3>1. CASE q = r /\ i = cnt[r]
        BY <3>1, <1>0, <1>2, <2>1, <2>2, <2>6, <2>7 DEF Obtained, TypeOK
      <3>2. CASE ~(q = r /\ i = cnt[r])
        <4>1. arr'[q][i] = arr[q][i]
          BY <3>2, <1>0, <2>7 DEF TypeOK
        <4>2. /\ owner[arr[q][i]] = q /\ arr[q][i] \in Device
              /\ \A j \in Slot : arr[q][j] = arr[q][i] => i = j
          BY <4>1, <1>0 DEF SafetyInv, ExclusiveClaims, TypeOK
        <4>3. owner'[arr[q][i]] = q
          BY <4>2, <2>6, <1>0, <1>2 DEF Obtained, TypeOK
        <4>4. \A j \in Slot : arr'[q][j] = arr'[q][i] => i = j
          BY <4>1, <4>2, <2>6, <2>7, <1>0 DEF TypeOK
        <4>. QED  BY <4>1, <4>3, <4>4
      <3>. QED  BY <3>1, <3>2
    <2>10. ResetIsOwn'
      <3> SUFFICES ASSUME NEW q \in Req, pc'[q] = "reset"
                   PROVE  owner'[ident'[q]] = q /\ \A i \in Slot : arr'[q][i] # ident'[q]
        BY DEF ResetIsOwn
      <3>1. q # r /\ pc[q] = "reset" /\ ident'[q] = ident[q] /\ arr'[q] = arr[q]
        BY <2>4, <2>7
      <3>2. owner[ident[q]] = q /\ (\A i \in Slot : arr[q][i] # ident[q]) /\ ident[q] \in Device
        BY <3>1 DEF SafetyInv, ResetIsOwn, Shape, ShapeOf, Scanning
      <3>3. ident[q] # ident[r]
        BY <3>2, <1>2, NameAssumption DEF Obtained
      <3>. QED  BY <3>1, <3>2, <3>3, <1>0, <1>2 DEF Obtained, TypeOK
    <2>. QED  BY <2>5, <2>8, <2>9, <2>10 DEF SafetyInv
  <1>. QED  BY <1>1, <1>2, ReclaimCases

\* Releasing a device from the caller's array.
LEMMA ReleaseSlotSafe ==
  ASSUME SafetyInv, NEW r \in Req, NEW i \in Slot, arr[r][i] # NoDev,
         ReleaseSlot(r, i),
         UNCHANGED <<pc, kind, want, cnt, ident, pass, hint>>,
         \/ pc[r] = "claimed" /\ UNCHANGED rev
         \/ pc[r] = "rollback" /\ i = rev[r] /\ rev' = [rev EXCEPT ![r] = rev[r] - 1]
  PROVE  SafetyInv'
  <1>0. TypeOK /\ arr[r][i] \in Device
    BY DEF SafetyInv, TypeOK
  <1>1. rev' \in [Req -> -1 .. MaxWant - 1] /\ \A q \in Req : q # r => rev'[q] = rev[q]
    BY <1>0, SizeAssumption DEF TypeOK, Slot
  <1>2. CASE /\ owner' = [owner EXCEPT ![arr[r][i]] = None]
             /\ arr' = [arr EXCEPT ![r][i] = NoDev]
             /\ excused' = excused \cup {arr[r][i]}
    <2>1. TypeOK'
      BY <1>0, <1>1, <1>2 DEF TypeOK
    <2>2. /\ \A q \in Req : q # r => arr'[q] = arr[q]
          /\ arr'[r] = [arr[r] EXCEPT ![i] = NoDev]
      BY <1>0, <1>2 DEF TypeOK
    <2>3. Shape'
      <3> SUFFICES ASSUME NEW q \in Req PROVE ShapeOf(q)'
        BY DEF Shape
      <3>0. ShapeOf(q)
        BY DEF SafetyInv, Shape
      <3>1. CASE q # r
        BY <3>0, <3>1, <2>2, <1>1 DEF ShapeOf
      <3>2. CASE q = r /\ pc[r] = "claimed"
        BY <3>2 DEF ShapeOf, Scanning
      <3>3. CASE q = r /\ pc[r] = "rollback"
        <4>1. rev'[r] = i - 1 /\ i \in Int /\ Slot \subseteq Int
          BY <3>3, <1>0 DEF TypeOK, Slot
        <4>2. i <= rev[r] /\ rev[r] \in Int
          BY <4>1, <3>3, <1>0 DEF TypeOK
        <4>3. \A j \in Slot : j <= i - 1 => arr'[r][j] # NoDev
          BY <4>1, <4>2, <3>0, <3>3, <2>2, <1>0 DEF ShapeOf, TypeOK
        <4>. QED  BY <3>3, <4>1, <4>3 DEF ShapeOf, Scanning
      <3>. QED  BY <3>1, <3>2, <3>3
    <2>4. ExclusiveClaims'
      <3> SUFFICES ASSUME NEW q \in Req, NEW j \in Slot, arr'[q][j] # NoDev
                   PROVE  /\ owner'[arr'[q][j]] = q
                          /\ \A m \in Slot : arr'[q][m] = arr'[q][j] => j = m
        BY DEF ExclusiveClaims
      <3>1. arr'[q][j] = arr[q][j] /\ ~(q = r /\ j = i)
        BY <2>2, <1>0 DEF TypeOK
      <3>2. /\ owner[arr[q][j]] = q /\ arr[q][j] \in Device
            /\ \A m \in Slot : arr[q][m] = arr[q][j] => j = m
        BY <3>1, <1>0 DEF SafetyInv, ExclusiveClaims, TypeOK
      <3>3. owner[arr[r][i]] = r
        BY DEF SafetyInv, ExclusiveClaims
      <3>4. arr[q][j] # arr[r][i]
        BY <3>1, <3>2, <3>3
      <3>5. owner'[arr[q][j]] = q
        BY <3>2, <3>4, <1>0, <1>2 DEF TypeOK
      <3>6. \A m \in Slot : arr'[q][m] = arr'[q][j] => j = m
        BY <3>1, <3>2, <2>2, <1>0 DEF TypeOK
      <3>. QED  BY <3>1, <3>5, <3>6
    <2>5. ResetIsOwn'
      <3> SUFFICES ASSUME NEW q \in Req, pc[q] = "reset"
                   PROVE  owner'[ident[q]] = q /\ \A j \in Slot : arr'[q][j] # ident[q]
        BY DEF ResetIsOwn
      <3>1. /\ q # r /\ owner[ident[q]] = q /\ ident[q] \in Device
            /\ \A j \in Slot : arr[q][j] # ident[q]
        BY DEF SafetyInv, ResetIsOwn, Shape, ShapeOf, Scanning
      <3>2. owner[arr[r][i]] = r
        BY DEF SafetyInv, ExclusiveClaims
      <3>. QED  BY <3>1, <3>2, <2>2, <1>0, <1>2 DEF TypeOK
    <2>. QED  BY <2>1, <2>3, <2>4, <2>5 DEF SafetyInv
  <1>3. CASE UNCHANGED <<owner, arr, excused>>
    <2>1. TypeOK'
      BY <1>0, <1>1, <1>3 DEF TypeOK
    <2>2. Shape'
      <3> SUFFICES ASSUME NEW q \in Req PROVE ShapeOf(q)'
        BY DEF Shape
      <3>0. ShapeOf(q)
        BY DEF SafetyInv, Shape
      <3>1. rev'[q] <= rev[q] /\ rev[q] \in Int /\ rev'[q] \in Int /\ Slot \subseteq Int
        BY <1>0, <1>1 DEF TypeOK, Slot
      <3>. QED  BY <3>0, <3>1, <1>3 DEF ShapeOf
    <2>3. ExclusiveClaims' /\ ResetIsOwn'
      BY <1>3 DEF SafetyInv, ExclusiveClaims, ResetIsOwn
    <2>. QED  BY <2>1, <2>2, <2>3 DEF SafetyInv
  <1>. QED  BY <1>2, <1>3 DEF ReleaseSlot

\* The roll back releases slots that hold a device.
LEMMA RollbackSlot ==
  ASSUME SafetyInv, NEW r \in Req, pc[r] = "rollback",
         rev[r] >= RollbackEnd(kind[r])
  PROVE  rev[r] \in Slot /\ arr[r][rev[r]] # NoDev
  <1>1. rev[r] \in Slot
    BY SizeAssumption DEF SafetyInv, TypeOK, RollbackEnd, Slot
  <1>. QED  BY <1>1 DEF SafetyInv, Shape, ShapeOf, Slot

\* A step of the roll back keeps the invariant.
LEMMA RollbackSafe ==
  ASSUME SafetyInv, NEW r \in Req, Rollback(r)
  PROVE  SafetyInv'
  <1>0. /\ TypeOK /\ pc[r] = "rollback"
        /\ UNCHANGED <<kind, want, cnt, ident, pass, hint>>
    BY DEF Rollback, SafetyInv
  <1>1. CASE /\ rev[r] >= RollbackEnd(kind[r])
             /\ ReleaseSlot(r, rev[r])
             /\ rev' = [rev EXCEPT ![r] = rev[r] - 1]
             /\ UNCHANGED pc
    BY <1>0, <1>1, RollbackSlot, ReleaseSlotSafe
  <1>2. CASE Goto(r, "failed") /\ UNCHANGED <<owner, arr, rev, excused>>
    <2>0. pc' = [pc EXCEPT ![r] = "failed"] /\ pc' \in [Req -> PC]
      BY <1>0, <1>2 DEF Goto, TypeOK, PC
    <2>1. TypeOK'
      BY <1>0, <1>2, <2>0 DEF TypeOK
    <2>2. Shape'
      <3> SUFFICES ASSUME NEW q \in Req PROVE ShapeOf(q)'
        BY DEF Shape
      <3>0. ShapeOf(q)
        BY DEF SafetyInv, Shape
      <3>1. CASE q # r
        BY <3>0, <3>1, <2>0, <1>0, <1>2 DEF ShapeOf, TypeOK
      <3>2. CASE q = r
        <4>1. pc'[r] = "failed"
          BY <2>0, <1>0 DEF TypeOK
        <4>. QED  BY <3>2, <4>1 DEF ShapeOf, Scanning
      <3>. QED  BY <3>1, <3>2
    <2>3. ExclusiveClaims' /\ ResetIsOwn'
      BY <1>0, <1>2, <2>0 DEF SafetyInv, ExclusiveClaims, ResetIsOwn, TypeOK
    <2>. QED  BY <2>1, <2>2, <2>3 DEF SafetyInv
  <1>. QED  BY <1>1, <1>2 DEF Rollback

\* So does a release by the caller.
LEMMA ReleaseSafe ==
  ASSUME SafetyInv, NEW r \in Req, NEW i \in Slot, Release(r, i)
  PROVE  SafetyInv'
  BY ReleaseSlotSafe DEF Release

\* The invariant is inductive.
LEMMA NextSafety == SafetyInv /\ [Next]_vars => SafetyInv'
  <1> SUFFICES ASSUME SafetyInv, [Next]_vars PROVE SafetyInv'
    OBVIOUS
  <1>1. CASE UNCHANGED vars
    BY <1>1 DEF vars, SafetyInv, TypeOK, Shape, ShapeOf, ExclusiveClaims, ResetIsOwn
  <1>2. ASSUME NEW r \in Req, ClaimStep(r) PROVE SafetyInv'
    BY <1>2, StartSafe, CheckSafe, DoClaimSafe, DoResetSafe, SetCompressionSafe,
       ReclaimSafe, RollbackSafe DEF ClaimStep
  <1>3. ASSUME NEW r \in Req, NEW i \in Slot, Release(r, i) PROVE SafetyInv'
    BY <1>3, ReleaseSafe
  <1>. QED  BY <1>1, <1>2, <1>3 DEF Next

\* Types, array shape and exclusive ownership hold in every reachable state of
\* zallocate.c, for any number of concurrent requests.
THEOREM SafetyInvariant == Spec => []SafetyInv
  BY InitSafety, NextSafety, PTL DEF Spec

\* Identifiers, hints and array indices never leave their ranges.
THEOREM TypeCorrect == Spec => []TypeOK
  <1>1. SafetyInv => TypeOK
    BY DEF SafetyInv
  <1>. QED  BY <1>1, SafetyInvariant, PTL

\* No two requests ever hold the same zram device.
THEOREM Exclusive == Spec => []ExclusiveClaims
  <1>1. SafetyInv => ExclusiveClaims
    BY DEF SafetyInv
  <1>. QED  BY <1>1, SafetyInvariant, PTL

-------------------------------------------------------------------------------
(***************************************************************************)
(* Resets, and the pool                                                    *)
(***************************************************************************)

\* What a step does to the devices: only a reset of its own device, or the
\* release of a slot, turns an initialised device into an uninitialised one.
LEMMA OwnerStep ==
  ASSUME SafetyInv, NEW r \in Req, ClaimStep(r), ~ Rollback(r)
  PROVE  \/ UNCHANGED owner
         \/ owner[ident[r]] = None /\ owner' = [owner EXCEPT ![ident[r]] = r]
         \/ /\ pc[r] = "reset" /\ pc'[r] = "setcomp" /\ UNCHANGED ident
            /\ owner' = [owner EXCEPT ![ident[r]] = None]
  <1>1. CASE Start(r) \/ CheckInitstate(r) \/ SetCompression(r)
    BY <1>1 DEF Start, CheckInitstate, SetCompression
  <1>2. CASE DoClaim(r)
    BY <1>2 DEF DoClaim, WriteDisksizeFails
  <1>3. CASE DoReset(r)
    BY <1>3 DEF DoReset, Goto, SafetyInv, TypeOK
  <1>4. CASE Reclaim(r)
    BY <1>4 DEF Reclaim, ClaimSucceeded, WriteDisksizeFails
  <1>. QED  BY <1>1, <1>2, <1>3, <1>4 DEF ClaimStep

\* What releasing slot i does to the devices and the arrays.
LEMMA ReleaseSlotEffect ==
  ASSUME SafetyInv, NEW r \in Req, NEW i \in Slot, arr[r][i] # NoDev,
         ReleaseSlot(r, i)
  PROVE  \/ UNCHANGED <<owner, arr>>
         \/ /\ owner' = [owner EXCEPT ![arr[r][i]] = None]
            /\ arr' = [arr EXCEPT ![r][i] = NoDev]
            /\ owner[arr[r][i]] = r /\ arr[r][i] \in Holds(r)
            /\ arr'[r] # arr[r]
  <1>1. owner[arr[r][i]] = r /\ arr[r][i] \in Holds(r)
    BY DEF SafetyInv, ExclusiveClaims, Holds
  <1>2. arr' = [arr EXCEPT ![r][i] = NoDev] => arr'[r][i] = NoDev
    BY DEF SafetyInv, TypeOK
  <1>. QED  BY <1>1, <1>2 DEF ReleaseSlot

\* Every release, of a roll back or of a caller, is the release of a slot that
\* holds a device; or the step leaves devices and arrays alone.
LEMMA ReleasingStep ==
  ASSUME SafetyInv, NEW r \in Req, Rollback(r) \/ \E i \in Slot : Release(r, i)
  PROVE  \/ UNCHANGED <<owner, arr>>
         \/ \E i \in Slot : arr[r][i] # NoDev /\ ReleaseSlot(r, i)
  <1>1. CASE Rollback(r)
    BY <1>1, RollbackSlot DEF Rollback
  <1>2. CASE \E i \in Slot : Release(r, i)
    BY <1>2 DEF Release
  <1>. QED  BY <1>1, <1>2

\* A reset only ever hits a device of the request that resets.
THEOREM OwnResets == Spec => ResetsOnlyItsOwn
  <1>1. ASSUME SafetyInv, [Next]_vars, NEW d \in Device, owner[d] # None, owner'[d] = None
        PROVE  \E r \in Req :
                 /\ owner[d] = r
                 /\ \/ d \in Holds(r) /\ arr'[r] # arr[r]
                    \/ ident[r] = d /\ pc'[r] # pc[r]
    <2>0. ~ UNCHANGED owner
      BY <1>1
    <2>1. ASSUME NEW r \in Req, ClaimStep(r), ~ Rollback(r)
          PROVE  owner[d] = r /\ ident[r] = d /\ pc'[r] # pc[r]
      <3>1. None # r /\ owner \in [Device -> Req \cup {None, Foreign}]
        BY <1>1, NameAssumption DEF SafetyInv, TypeOK
      <3>2. ~(owner[ident[r]] = None /\ owner' = [owner EXCEPT ![ident[r]] = r])
        BY <1>1, <3>1
      <3>3. /\ pc[r] = "reset" /\ pc'[r] = "setcomp"
            /\ owner' = [owner EXCEPT ![ident[r]] = None]
        BY <1>1, <2>0, <2>1, <3>2, OwnerStep
      <3>4. ident[r] = d
        BY <1>1, <3>1, <3>3
      <3>. QED  BY <1>1, <3>3, <3>4 DEF SafetyInv, ResetIsOwn
    <2>2. ASSUME NEW r \in Req, Rollback(r) \/ \E i \in Slot : Release(r, i)
          PROVE  owner[d] = r /\ d \in Holds(r) /\ arr'[r] # arr[r]
      <3>1. PICK i \in Slot : arr[r][i] # NoDev /\ ReleaseSlot(r, i)
        BY <1>1, <2>0, <2>2, ReleasingStep
      <3>2. /\ owner' = [owner EXCEPT ![arr[r][i]] = None]
            /\ owner[arr[r][i]] = r /\ arr[r][i] \in Holds(r) /\ arr'[r] # arr[r]
        BY <1>1, <2>0, <3>1, ReleaseSlotEffect
      <3>3. arr[r][i] = d
        BY <1>1, <3>2 DEF SafetyInv, TypeOK
      <3>. QED  BY <3>2, <3>3
    <2>. QED  BY <1>1, <2>0, <2>1, <2>2 DEF Next, vars
  <1>2. SafetyInv /\ [Next]_vars =>
          [\A d \in Device :
             (owner[d] # None /\ owner'[d] = None) =>
               \E r \in Req :
                 /\ owner[d] = r
                 /\ \/ d \in Holds(r) /\ arr'[r] # arr[r]
                    \/ ident[r] = d /\ pc'[r] # pc[r]]_vars
    BY <1>1
  <1>. QED  BY <1>2, SafetyInvariant, PTL DEF Spec, ResetsOnlyItsOwn

\* Storing a device in an empty slot adds it to what the request holds.
LEMMA HoldsStored ==
  ASSUME TypeOK, NEW r \in Req, NEW i \in Slot, NEW d \in Device, arr[r][i] = NoDev,
         arr' = [arr EXCEPT ![r][i] = d]
  PROVE  /\ Holds(r)' = Holds(r) \cup {d}
         /\ \A q \in Req : q # r => Holds(q)' = Holds(q)
  <1>1. d # NoDev
    BY SizeAssumption DEF Device, NoDev
  <1>2. \A q \in Req : q # r => arr'[q] = arr[q]
    BY DEF TypeOK
  <1>3. arr'[r][i] = d /\ \A j \in Slot : j # i => arr'[r][j] = arr[r][j]
    BY DEF TypeOK
  <1>. QED  BY <1>1, <1>2, <1>3 DEF Holds

\* Clearing a slot removes its device from what the request holds.
LEMMA HoldsCleared ==
  ASSUME TypeOK, ExclusiveClaims, NEW r \in Req, NEW i \in Slot, arr[r][i] # NoDev,
         arr' = [arr EXCEPT ![r][i] = NoDev]
  PROVE  /\ Holds(r)' = Holds(r) \ {arr[r][i]}
         /\ \A q \in Req : q # r => Holds(q)' = Holds(q)
  <1>1. \A q \in Req : q # r => arr'[q] = arr[q]
    BY DEF TypeOK
  <1>2. arr'[r][i] = NoDev /\ \A j \in Slot : j # i => arr'[r][j] = arr[r][j]
    BY DEF TypeOK
  <1>3. \A j \in Slot : j # i => arr[r][j] # arr[r][i]
    BY DEF ExclusiveClaims
  <1>. QED  BY <1>1, <1>2, <1>3 DEF Holds

\* zallocate.c implements the device pool.
THEOREM PoolRefinement == Spec => ImplementsPool
  <1> DEFINE H == [r \in Req |-> Holds(r)]
  <1>1. Init => Pool!PoolInit
    BY DEF Init, Pool!PoolInit, Holds
  <1>2. ASSUME SafetyInv, [Next]_vars PROVE [Pool!PoolNext]_H
    <2>0. TypeOK
      BY <1>2 DEF SafetyInv
    <2>1. ASSUME UNCHANGED arr PROVE UNCHANGED H
      BY <2>1 DEF Holds
    <2>2. ASSUME NEW r \in Req, Obtained(r), pc[r] = "reclaim"
          PROVE  Pool!Take(r, ident[r]) /\ ident[r] \in Device
      <3>1. /\ ident[r] \in Device /\ cnt[r] \in Int /\ cnt[r] < want[r]
            /\ \A i \in Slot : arr[r][i] # NoDev <=> i < cnt[r]
        BY <1>2, <2>0, <2>2 DEF SafetyInv, Shape, ShapeOf, Scanning, TypeOK
      <3>2. cnt[r] \in Slot
        BY <2>0, <3>1, SizeAssumption DEF TypeOK, Slot
      <3>3. arr[r][cnt[r]] = NoDev
        BY <3>1, <3>2
      <3>4. /\ Holds(r)' = Holds(r) \cup {ident[r]}
            /\ \A q \in Req : q # r => Holds(q)' = Holds(q)
        BY <2>0, <2>2, <3>1, <3>2, <3>3, HoldsStored DEF Obtained
      <3>5. \A q \in Req : ident[r] \notin Holds(q)
        BY <1>2, <2>2, <3>1, FreeNotHeld DEF SafetyInv, Obtained, Holds
      <3>. QED  BY <3>1, <3>4, <3>5 DEF Pool!Take
    <2>3. ASSUME NEW r \in Req, NEW i \in Slot, arr[r][i] # NoDev,
                 arr' = [arr EXCEPT ![r][i] = NoDev]
          PROVE  Pool!GiveBack(r, arr[r][i]) /\ arr[r][i] \in Device
      <3>1. /\ Holds(r)' = Holds(r) \ {arr[r][i]}
            /\ \A q \in Req : q # r => Holds(q)' = Holds(q)
        BY <1>2, <2>3, HoldsCleared DEF SafetyInv
      <3>2. arr[r][i] \in Holds(r) /\ arr[r][i] \in Device
        BY <2>0, <2>3 DEF Holds, TypeOK
      <3>. QED  BY <3>1, <3>2 DEF Pool!GiveBack
    <2>4. ASSUME NEW r \in Req, ClaimStep(r), ~ Rollback(r)
          PROVE  UNCHANGED arr \/ (Obtained(r) /\ pc[r] = "reclaim")
      <3>1. CASE Reclaim(r)
        BY <3>1, ReclaimCases DEF WriteDisksizeFails
      <3>2. CASE DoClaim(r)
        BY <3>2 DEF DoClaim, WriteDisksizeFails
      <3>. QED  BY <2>4, <3>1, <3>2
                DEF ClaimStep, Start, CheckInitstate, DoReset, SetCompression
    <2>5. ASSUME NEW r \in Req, Rollback(r) \/ \E i \in Slot : Release(r, i)
          PROVE  \/ UNCHANGED arr
                 \/ \E i \in Slot : arr[r][i] # NoDev /\ arr' = [arr EXCEPT ![r][i] = NoDev]
      BY <1>2, <2>5, ReleasingStep, ReleaseSlotEffect
    <2>. QED
      BY <1>2, <2>1, <2>2, <2>3, <2>4, <2>5 DEF Next, vars, Pool!PoolNext
  <1>3. QED
    BY <1>1, <1>2, SafetyInvariant, PTL DEF Spec, ImplementsPool, Pool!PoolSpec

-------------------------------------------------------------------------------
(***************************************************************************)
(* A failed claim has missed no device                                     *)
(***************************************************************************)

\* What is excused stays excused.
LEMMA ExcusedGrows ==
  ASSUME NEW r \in Req, ClaimStep(r) \/ \E i \in Slot : Release(r, i)
  PROVE  excused \subseteq excused'
  <1>1. CASE DoClaim(r) \/ Reclaim(r)
    BY <1>1 DEF DoClaim, Reclaim, ClaimSucceeded, WriteDisksizeFails
  <1>2. CASE Rollback(r) \/ \E i \in Slot : Release(r, i)
    BY <1>2 DEF Rollback, Release, ReleaseSlot
  <1>. QED  BY <1>1, <1>2
            DEF ClaimStep, Start, CheckInitstate, DoReset, SetCompression

\* Steps of r leave the control state of the others alone.
LEMMA OthersStay ==
  ASSUME SafetyInv, NEW r \in Req, ClaimStep(r) \/ \E i \in Slot : Release(r, i),
         NEW q \in Req, q # r
  PROVE  pc'[q] = pc[q] /\ ident'[q] = ident[q] /\ pass'[q] = pass[q]
  <1>0. TypeOK
    BY DEF SafetyInv
  <1>1. CASE Start(r)
    BY <1>0, <1>1 DEF Start, Goto, ScanFrom, TypeOK
  <1>2. CASE CheckInitstate(r)
    BY <1>0, <1>2, ScanFailedStep, TryNextStep DEF CheckInitstate, ScanMove, Goto, TypeOK
  <1>3. CASE DoClaim(r)
    BY <1>0, <1>3, TryNextStep, ScanFailedStep
       DEF DoClaim, WriteDisksizeFails, ScanMove, Goto, TypeOK
  <1>4. CASE DoReset(r)
    BY <1>0, <1>4, TryNextStep DEF DoReset, ScanMove, Goto, TypeOK
  <1>5. CASE SetCompression(r)
    BY <1>0, <1>5 DEF SetCompression, Goto, TypeOK
  <1>6. CASE Reclaim(r)
    <2>1. CASE Obtained(r)
      BY <1>0, <2>1 DEF Obtained, TypeOK
    <2>2. CASE WriteDisksizeFails(r)
      BY <1>0, <2>2, TryNextStep, ScanFailedStep DEF WriteDisksizeFails, ScanMove
    <2>. QED  BY <1>6, <2>1, <2>2, ReclaimCases
  <1>7. CASE Rollback(r) \/ \E i \in Slot : Release(r, i)
    BY <1>0, <1>7 DEF Rollback, Release, Goto, TypeOK
  <1>. QED  BY <1>1, <1>2, <1>3, <1>4, <1>5, <1>6, <1>7 DEF ClaimStep

\* A device that a request is entitled to pass over stays so.
LEMMA PassedStable ==
  ASSUME SafetyInv, NEW r \in Req, ClaimStep(r) \/ \E i \in Slot : Release(r, i),
         NEW d \in Device, Passed(d)
  PROVE  Passed(d)'
  <1>0. TypeOK /\ excused \subseteq excused' /\ None # r
    BY ExcusedGrows, NameAssumption DEF SafetyInv
  <1> SUFFICES ASSUME d \notin excused' PROVE Contended(d)'
    BY <1>0 DEF Passed
  <1>1. Contended(d)
    BY <1>0 DEF Passed
  <1>2. ASSUME NEW q \in Req, q # r, pc[q] \in {"setcomp", "reclaim"}, ident[q] = d
        PROVE  Contended(d)'
    BY <1>2, OthersStay DEF Contended
  <1>3. CASE owner[d] # None
    <2>1. CASE owner'[d] # None
      BY <2>1 DEF Contended
    <2>2. CASE owner'[d] = None /\ ClaimStep(r) /\ ~ Rollback(r)
      <3>1. ~(owner[ident[r]] = None /\ owner' = [owner EXCEPT ![ident[r]] = r])
        BY <2>2, <1>0, <1>3 DEF TypeOK
      <3>2. /\ pc[r] = "reset" /\ pc'[r] = "setcomp" /\ UNCHANGED ident
            /\ owner' = [owner EXCEPT ![ident[r]] = None]
        BY <1>3, <2>2, <3>1, OwnerStep
      <3>3. ident[r] = d
        BY <1>0, <1>3, <2>2, <3>2 DEF TypeOK
      <3>. QED  BY <3>2, <3>3 DEF Contended
    <2>3. CASE owner'[d] = None /\ (Rollback(r) \/ \E i \in Slot : Release(r, i))
      <3>1. PICK i \in Slot : arr[r][i] # NoDev /\ ReleaseSlot(r, i)
        BY <1>3, <2>3, ReleasingStep
      <3>2. owner' = [owner EXCEPT ![arr[r][i]] = None] /\ excused' = excused \cup {arr[r][i]}
        BY <1>3, <2>3, <3>1 DEF ReleaseSlot
      <3>3. arr[r][i] = d
        BY <1>0, <1>3, <2>3, <3>2 DEF TypeOK
      <3>. QED  BY <3>2, <3>3
    <2>. QED  BY <2>1, <2>2, <2>3
  <1>4. CASE owner[d] = None /\ pc[r] = "setcomp" /\ ident[r] = d
    <2>1. SetCompression(r)
      BY <1>4 DEF ClaimStep, Start, CheckInitstate, DoClaim, DoReset, Reclaim, ClaimSucceeded, Rollback, Release
    <2>2. pc'[r] = "reclaim" /\ ident'[r] = d
      BY <2>1, <1>0, <1>4 DEF SetCompression, Goto, TypeOK
    <2>. QED  BY <2>2 DEF Contended
  <1>5. CASE owner[d] = None /\ pc[r] = "reclaim" /\ ident[r] = d
    <2>1. Reclaim(r)
      BY <1>5 DEF ClaimStep, Start, CheckInitstate, DoClaim, DoReset, SetCompression, Rollback, Release
    <2>2. Obtained(r)
      <3>1. ident[r] \in OutOfReach(r)
        BY <1>5, SizeAssumption DEF OutOfReach, Device
      <3>. QED  BY <2>1, <1>5, <3>1, ReclaimCases DEF WriteDisksizeFails
    <2>3. owner'[d] = r
      BY <2>2, <1>0, <1>5 DEF Obtained, TypeOK
    <2>. QED  BY <2>3, <1>0 DEF Contended
  <1>. QED  BY <1>1, <1>2, <1>3, <1>4, <1>5 DEF Contended

\* The request that moves on past a device was entitled to.
LEMMA MovePassed ==
  ASSUME SafetyInv, Visited, NEW r \in Req, pc[r] \in Scanning,
         \A d \in Device : Passed(d) => Passed(d)',
         ScanMove(r),
         \/ Restarted(r)
         \/ GaveUp(r) /\ (ident[r] \notin Device \/ ident[r] + 1 = MaxIdent)
         \/ pc'[r] = "check" /\ ident'[r] = ident[r] + 1 /\ pass'[r] = pass[r],
         \A d \in Device : d = ident[r] => Passed(d)'
  PROVE  VisitedOf(r)'
  <1>0. /\ TypeOK /\ ident[r] \in Int /\ Device \subseteq Int
        /\ \A d \in Device : d >= 0 /\ d < MaxIdent
    <2>1. TypeOK /\ ident[r] \in Int
      BY DEF SafetyInv, TypeOK, Ident
    <2>2. Device \subseteq Int /\ \A d \in Device : d >= 0 /\ d < MaxIdent
      BY SizeAssumption DEF Device
    <2>. QED  BY <2>1, <2>2
  <1>1. pass[r] = 2 => \A d \in Device : d < ident[r] => Passed(d)'
    BY DEF Visited, VisitedOf
  <1>2. CASE Restarted(r)
    BY <1>0, <1>2 DEF Restarted, VisitedOf
  <1>3. CASE GaveUp(r) /\ (ident[r] \notin Device \/ ident[r] + 1 = MaxIdent)
    <2>1. \A d \in Device : d < ident[r] \/ d = ident[r]
      BY <1>0, <1>3, SizeAssumption DEF Device, TypeOK, Ident
    <2>2. \A d \in Device : Passed(d)'
      BY <1>1, <1>3, <2>1 DEF GaveUp
    <2>. QED  BY <2>2 DEF VisitedOf
  <1>4. CASE pc'[r] = "check" /\ ident'[r] = ident[r] + 1 /\ pass'[r] = pass[r]
    <2>1. \A d \in Device : d < ident[r] + 1 => d < ident[r] \/ d = ident[r]
      BY <1>0
    <2>. QED  BY <1>0, <1>1, <1>4, <2>1 DEF VisitedOf
  <1>. QED  BY <1>2, <1>3, <1>4

\* The stepping request keeps its own part of Visited.
LEMMA VisitedStep ==
  ASSUME SafetyInv, Visited, NEW r \in Req,
         ClaimStep(r) \/ \E i \in Slot : Release(r, i)
  PROVE  VisitedOf(r)'
  <1>0. TypeOK /\ ShapeOf(r) /\ VisitedOf(r)
    BY DEF SafetyInv, Shape, Visited
  <1>1. \A d \in Device : Passed(d) => Passed(d)'
    BY PassedStable
  <1>2. ident[r] \in Int /\ Device \subseteq Int /\ \A d \in Device : d >= 0
    BY SizeAssumption, <1>0 DEF TypeOK, Ident, Device
  <1>3. CASE Start(r)
    <2>1. PICK h \in Ident : ident'[r] = h /\ pass'[r] = IF h > 0 THEN 1 ELSE 2
      BY <1>0, <1>3 DEF Start, ScanFrom, TypeOK
    <2>2. pc'[r] = "check"
      BY <1>0, <1>3 DEF Start, Goto, TypeOK
    <2>3. h \in Nat /\ (pass'[r] = 2 => h = 0)
      BY <2>1, SizeAssumption DEF Ident
    <2>4. \A d \in Device : ~ (d < 0)
      BY <1>2
    <2>. QED  BY <2>1, <2>2, <2>3, <2>4 DEF VisitedOf
  <1>4. CASE CheckInitstate(r)
    <2>0. pc[r] \in Scanning /\ UNCHANGED <<owner, excused>>
      BY <1>4 DEF CheckInitstate, Scanning
    <2>1. CASE ident[r] \notin Device /\ ScanFailed(r)
      BY <1>0, <1>1, <2>0, <2>1, ScanFailedStep, MovePassed
    <2>2. CASE ident[r] \in Device /\ owner[ident[r]] # None /\ TryNextIdent(r)
      <3>1. \A d \in Device : d = ident[r] => Passed(d)'
        BY <2>2, <1>1 DEF Passed, Contended
      <3>. QED  BY <1>0, <1>1, <2>0, <2>2, <3>1, TryNextStep, MovePassed
    <2>3. CASE Goto(r, "claim") /\ UNCHANGED <<ident, pass, rev>>
      BY <1>0, <1>1, <2>3 DEF VisitedOf, Goto, TypeOK
    <2>. QED  BY <1>4, <2>1, <2>2, <2>3 DEF CheckInitstate
  <1>5. ASSUME pc[r] \in {"claim", "reclaim"}, WriteDisksizeFails(r) PROVE VisitedOf(r)'
    <2>0. ident[r] \in Device /\ pc[r] \in Scanning
      BY <1>0, <1>5 DEF ShapeOf, Scanning
    <2>1. ASSUME NEW d \in Device, d = ident[r] PROVE Passed(d)'
      <3>1. CASE owner[d] # None
        BY <3>1, <1>1 DEF Passed, Contended
      <3>2. CASE owner[d] = None
        <4>1. ident[r] \in OutOfReach(r)
          BY <2>0, SizeAssumption DEF OutOfReach, Device
        <4>. QED  BY <2>1, <3>2, <4>1, <1>5 DEF WriteDisksizeFails, Passed
      <3>. QED  BY <3>1, <3>2
    <2>2. CASE TryNextIdent(r)
      BY <1>0, <1>1, <2>0, <2>1, <2>2, TryNextStep, MovePassed
    <2>3. CASE ScanFailed(r) /\ excused' = excused \cup OutOfReach(r)
      <3>1. ScanMove(r) /\ (Restarted(r) \/ GaveUp(r))
        BY <1>0, <2>3, ScanFailedStep
      <3>2. CASE Restarted(r)
        BY <1>2, <3>2 DEF Restarted, VisitedOf
      <3>3. CASE GaveUp(r)
        <4>1. pass[r] = 2 /\ \A d \in Device : d < ident[r] => Passed(d)'
          BY <1>0, <1>1, <3>3 DEF GaveUp, VisitedOf
        <4>2. ASSUME NEW d \in Device, ~ (d < ident[r]) PROVE Passed(d)'
          <5>1. d \in OutOfReach(r)
            BY <1>2, <4>1, <4>2 DEF OutOfReach, Device
          <5>. QED  BY <2>3, <5>1 DEF Passed
        <4>. QED  BY <4>1, <4>2 DEF VisitedOf
      <3>. QED  BY <3>1, <3>2, <3>3
    <2>. QED  BY <1>5, <2>2, <2>3 DEF WriteDisksizeFails
  <1>6. CASE DoClaim(r)
    <2>1. CASE Goto(r, "reset") /\ UNCHANGED <<ident, pass>>
      BY <1>0, <1>1, <2>1 DEF VisitedOf, Goto, TypeOK
    <2>. QED  BY <1>5, <1>6, <2>1 DEF DoClaim
  <1>7. CASE DoReset(r)
    <2>0. /\ pc[r] \in Scanning /\ UNCHANGED excused
          /\ ident[r] \in Device /\ owner[ident[r]] = r /\ r # None
      BY <1>0, <1>7, NameAssumption DEF DoReset, Scanning, ShapeOf, SafetyInv, ResetIsOwn
    <2>1. CASE TryNextIdent(r) /\ UNCHANGED owner
      <3>1. \A d \in Device : d = ident[r] => Passed(d)'
        BY <2>0, <1>1 DEF Passed, Contended
      <3>. QED  BY <1>0, <1>1, <2>0, <2>1, <3>1, TryNextStep, MovePassed
    <2>2. CASE Goto(r, "setcomp") /\ UNCHANGED <<ident, pass>>
      BY <1>0, <1>1, <2>2 DEF VisitedOf, Goto, TypeOK
    <2>. QED  BY <1>7, <2>1, <2>2 DEF DoReset
  <1>8. CASE SetCompression(r)
    BY <1>0, <1>1, <1>8 DEF SetCompression, VisitedOf, Goto, TypeOK
  <1>9. CASE Reclaim(r)
    <2>1. CASE Obtained(r)
      <3>1. pc'[r] \in {"check", "claimed"}
        BY <1>0, <2>1 DEF Obtained, TypeOK
      <3>2. pass'[r] = 2 => (ident'[r] = ident[r] /\ pass[r] = 2) \/ ident'[r] = 0
        <4>1. (ident[r] + 1) % MaxIdent \in Nat
          BY <1>2, SizeAssumption
        <4>. QED  BY <4>1, <1>0, <2>1 DEF Obtained, TypeOK
      <3>3. ASSUME pass'[r] = 2, NEW d \in Device, d < ident'[r] PROVE Passed(d)'
        <4>1. ident'[r] # 0
          BY <3>3, <1>2
        <4>2. Passed(d)
          BY <3>2, <3>3, <4>1, <1>0 DEF VisitedOf
        <4>. QED  BY <4>2, <1>1
      <3>. QED  BY <3>1, <3>3 DEF VisitedOf
    <2>. QED  BY <1>5, <1>9, <2>1, ReclaimCases
  <1>10. CASE Rollback(r)
    BY <1>0, <1>1, <1>10 DEF Rollback, VisitedOf, Goto, TypeOK
  <1>11. CASE \E i \in Slot : Release(r, i)
    BY <1>0, <1>1, <1>11 DEF Release, VisitedOf
  <1>. QED  BY <1>3, <1>4, <1>6, <1>7, <1>8, <1>9, <1>10, <1>11 DEF ClaimStep

\* A claim fails only when there is no device to be had, however the scans of
\* concurrent requests interleave and whatever hint each starts from.
THEOREM NoneMissed == Spec => []NoMissedDevice
  <1>1. Init => Visited
    BY DEF Init, Visited, VisitedOf
  <1>2. SafetyInv /\ Visited /\ [Next]_vars => Visited'
    <2> SUFFICES ASSUME SafetyInv, Visited, [Next]_vars PROVE Visited'
      OBVIOUS
    <2>1. CASE UNCHANGED vars
      BY <2>1 DEF vars, Visited, VisitedOf, Passed, Contended
    <2>2. ASSUME NEW r \in Req, ClaimStep(r) \/ \E i \in Slot : Release(r, i)
          PROVE  Visited'
      <3> SUFFICES ASSUME NEW q \in Req PROVE VisitedOf(q)'
        BY DEF Visited
      <3>1. CASE q = r
        BY <2>2, <3>1, VisitedStep
      <3>2. CASE q # r
        <4>1. \A d \in Device : Passed(d) => Passed(d)'
          BY <2>2, PassedStable
        <4>2. pc'[q] = pc[q] /\ ident'[q] = ident[q] /\ pass'[q] = pass[q]
          BY <2>2, <3>2, OthersStay
        <4>. QED  BY <4>1, <4>2 DEF Visited, VisitedOf
      <3>. QED  BY <3>1, <3>2
    <2>. QED  BY <2>1, <2>2 DEF Next
  <1>3. Visited => NoMissedDevice
    BY DEF Visited, VisitedOf, NoMissedDevice, Passed
  <1>. QED  BY <1>1, <1>2, <1>3, SafetyInvariant, PTL DEF Spec
-------------------------------------------------------------------------------
(***************************************************************************)
(* A claim loses no device                                                 *)
(***************************************************************************)

\* Where the devices that request r has initialised are: in a slot, or about to
\* be reset; and which slots can hold one once the scans are over.
KeptOf(r) ==
  /\ \A d \in Device : owner[d] = r =>
       d \in Holds(r) \/ (pc[r] = "reset" /\ ident[r] = d)
  /\ kind[r] = "single" => want[r] = 1
  /\ pc[r] = "rollback" => \A i \in Slot : arr[r][i] # NoDev => i <= rev[r]
  /\ pc[r] = "claimed" => \A i \in Slot : arr[r][i] # NoDev => i < want[r]
  /\ pc[r] = "failed" /\ kind[r] # "several" => \A i \in Slot : arr[r][i] = NoDev

\* Only a refused reset makes a request forget a device.
Kept == "reset" \notin MayFail => \A r \in Req : KeptOf(r)

\* Steps of r leave the records of the others alone.
LEMMA OthersKeep ==
  ASSUME SafetyInv, NEW r \in Req, ClaimStep(r) \/ \E i \in Slot : Release(r, i),
         NEW q \in Req, q # r
  PROVE  /\ pc'[q] = pc[q] /\ want'[q] = want[q] /\ arr'[q] = arr[q]
         /\ kind'[q] = kind[q] /\ rev'[q] = rev[q]
  <1>0. TypeOK /\ pc'[q] = pc[q]
    BY OthersStay DEF SafetyInv
  <1>1. CASE Start(r)
    BY <1>0, <1>1 DEF Start, TypeOK
  <1>2. CASE CheckInitstate(r)
    BY <1>0, <1>2, ScanFailedStep, TryNextStep DEF CheckInitstate, ScanMove
  <1>3. CASE SetCompression(r)
    BY <1>0, <1>3 DEF SetCompression
  <1>4. CASE DoReset(r)
    BY <1>0, <1>4, TryNextStep DEF DoReset, ScanMove
  <1>5. CASE WriteDisksizeFails(r)
    BY <1>0, <1>5, TryNextStep, ScanFailedStep DEF WriteDisksizeFails, ScanMove
  <1>6. CASE DoClaim(r)
    BY <1>0, <1>5, <1>6 DEF DoClaim
  <1>7. CASE Reclaim(r)
    <2>1. CASE Obtained(r)
      BY <1>0, <2>1 DEF Obtained, TypeOK
    <2>. QED  BY <1>5, <1>7, <2>1, ReclaimCases
  <1>8. CASE Rollback(r) \/ \E i \in Slot : Release(r, i)
    BY <1>0, <1>8 DEF Rollback, Release, ReleaseSlot, TypeOK
  <1>. QED  BY <1>1, <1>2, <1>3, <1>4, <1>6, <1>7, <1>8 DEF ClaimStep

\* Steps of r neither take a device from another request nor give it one.
LEMMA OthersOwn ==
  ASSUME SafetyInv, NEW r \in Req, ClaimStep(r) \/ \E i \in Slot : Release(r, i),
         NEW q \in Req, q # r, NEW d \in Device
  PROVE  owner'[d] = q <=> owner[d] = q
  <1>0. TypeOK /\ q # None /\ owner \in [Device -> Req \cup {None, Foreign}]
    BY NameAssumption DEF SafetyInv, TypeOK
  <1>1. CASE Rollback(r) \/ \E i \in Slot : Release(r, i)
    <2>1. CASE \E i \in Slot : arr[r][i] # NoDev /\ ReleaseSlot(r, i)
      <3>1. PICK i \in Slot : arr[r][i] # NoDev /\ ReleaseSlot(r, i)
        BY <2>1
      <3>2. \/ UNCHANGED owner
            \/ owner' = [owner EXCEPT ![arr[r][i]] = None] /\ owner[arr[r][i]] = r
        BY <3>1, ReleaseSlotEffect
      <3>. QED  BY <1>0, <3>2
    <2>. QED  BY <1>1, <2>1, ReleasingStep
  <1>2. CASE ClaimStep(r) /\ ~ Rollback(r)
    <2>1. CASE pc[r] = "reset" /\ owner' = [owner EXCEPT ![ident[r]] = None]
      <3>1. owner[ident[r]] = r
        BY <2>1 DEF SafetyInv, ResetIsOwn
      <3>. QED  BY <1>0, <2>1, <3>1
    <2>. QED  BY <1>0, <1>2, <2>1, OwnerStep
  <1>. QED  BY <1>1, <1>2

\* A failed attempt, or the end of a scan, loses no device: a single claim that
\* gives up has none yet, and the roll back starts at the last filled slot.
LEMMA MoveKeeps ==
  ASSUME SafetyInv, NEW r \in Req, KeptOf(r), pc[r] \in Scanning \ {"reset"},
         Restarted(r) \/ GaveUp(r) \/ pc'[r] = "check",
         UNCHANGED <<owner, kind, want, arr>>
  PROVE  KeptOf(r)'
  <1>1. /\ cnt[r] \in Nat /\ want[r] \in Int /\ Slot \subseteq Nat
        /\ cnt[r] < want[r]
        /\ \A i \in Slot : arr[r][i] # NoDev <=> i < cnt[r]
    BY DEF SafetyInv, TypeOK, Shape, ShapeOf, Slot
  <1>2. UNCHANGED Holds(r)
    BY DEF Holds
  <1>3. \A d \in Device : owner[d] = r => d \in Holds(r)
    BY DEF KeptOf
  <1>4. CASE pc'[r] = "check"
    BY <1>2, <1>3, <1>4 DEF KeptOf
  <1>5. CASE GaveUp(r) /\ kind[r] = "single"
    <2>1. cnt[r] = 0
      BY <1>1, <1>5 DEF KeptOf
    <2>. QED  BY <1>1, <1>2, <1>3, <1>5, <2>1 DEF KeptOf, GaveUp
  <1>6. CASE GaveUp(r) /\ kind[r] # "single"
    BY <1>1, <1>2, <1>3, <1>6 DEF KeptOf, GaveUp
  <1>. QED  BY <1>4, <1>5, <1>6 DEF Restarted

\* A slot that is released takes its device out of the request's hands, and
\* the device is not initialised any more.
LEMMA ReleaseKeeps ==
  ASSUME SafetyInv, NEW r \in Req, KeptOf(r), "reset" \notin MayFail,
         NEW i \in Slot, arr[r][i] # NoDev, ReleaseSlot(r, i), pc[r] # "reset"
  PROVE  /\ \A d \in Device : owner'[d] = r => d \in Holds(r)'
         /\ arr'[r][i] = NoDev
         /\ \A j \in Slot : arr'[r][j] # NoDev => arr[r][j] # NoDev
  <1>0. TypeOK /\ ExclusiveClaims /\ r # None /\ arr[r][i] \in Device
    BY NameAssumption DEF SafetyInv, TypeOK
  <1>1. /\ owner' = [owner EXCEPT ![arr[r][i]] = None]
        /\ arr' = [arr EXCEPT ![r][i] = NoDev]
    BY DEF ReleaseSlot
  <1>2. Holds(r)' = Holds(r) \ {arr[r][i]}
    BY <1>0, <1>1, HoldsCleared
  <1>3. \A d \in Device : owner[d] = r => d \in Holds(r)
    BY DEF KeptOf
  <1>4. \A d \in Device : owner'[d] = r => owner[d] = r /\ d # arr[r][i]
    BY <1>0, <1>1 DEF TypeOK
  <1>5. arr'[r][i] = NoDev /\ \A j \in Slot : arr'[r][j] # NoDev => arr[r][j] # NoDev
    BY <1>0, <1>1 DEF TypeOK
  <1>. QED  BY <1>2, <1>3, <1>4, <1>5

\* A request that takes a step does not lose a device.
LEMMA KeptStep ==
  ASSUME SafetyInv, NEW r \in Req, KeptOf(r), "reset" \notin MayFail,
         ClaimStep(r) \/ \E i \in Slot : Release(r, i)
  PROVE  KeptOf(r)'
  <1>0. TypeOK /\ ShapeOf(r) /\ r # None
    BY NameAssumption DEF SafetyInv, Shape
  <1>1. CASE Start(r)
    <2>1. /\ pc[r] = "start" /\ pc'[r] = "check" /\ UNCHANGED <<owner, arr>>
          /\ kind'[r] = "single" => want'[r] = 1
      BY <1>0, <1>1 DEF Start, Goto, TypeOK
    <2>2. UNCHANGED Holds(r)
      BY <2>1 DEF Holds
    <2>. QED  BY <2>1, <2>2 DEF KeptOf
  <1>2. CASE CheckInitstate(r)
    <2>1. /\ pc[r] \in Scanning \ {"reset"} /\ UNCHANGED <<owner, kind, want, arr>>
      BY <1>2 DEF CheckInitstate, Scanning
    <2>2. CASE ScanFailed(r) \/ TryNextIdent(r)
      BY <1>0, <2>1, <2>2, ScanFailedStep, TryNextStep, MoveKeeps
    <2>3. CASE Goto(r, "claim")
      <3>1. pc'[r] = "claim" /\ UNCHANGED Holds(r)
        BY <1>0, <2>1, <2>3 DEF Goto, TypeOK, Holds
      <3>. QED  BY <2>1, <3>1 DEF KeptOf
    <2>. QED  BY <1>2, <2>2, <2>3 DEF CheckInitstate
  <1>3. CASE WriteDisksizeFails(r) /\ pc[r] \in {"claim", "reclaim"}
    <2>1. pc[r] \in Scanning \ {"reset"} /\ UNCHANGED <<owner, kind, want, arr>>
      BY <1>3 DEF WriteDisksizeFails, Scanning
    <2>. QED  BY <1>0, <1>3, <2>1, TryNextStep, ScanFailedStep, MoveKeeps DEF WriteDisksizeFails
  <1>4. CASE DoClaim(r)
    <2>1. CASE /\ owner' = [owner EXCEPT ![ident[r]] = r] /\ Goto(r, "reset")
               /\ UNCHANGED <<kind, want, arr, ident>>
      <3>1. pc[r] = "claim" /\ pc'[r] = "reset" /\ UNCHANGED Holds(r)
        BY <1>0, <1>4, <2>1 DEF DoClaim, Goto, TypeOK, Holds
      <3>2. \A d \in Device : owner'[d] = r => owner[d] = r \/ d = ident[r]
        BY <1>0, <2>1 DEF TypeOK
      <3>. QED  BY <2>1, <3>1, <3>2 DEF KeptOf
    <2>. QED  BY <1>3, <1>4, <2>1 DEF DoClaim
  <1>5. CASE DoReset(r)
    <2>1. /\ pc[r] = "reset" /\ pc'[r] = "setcomp"
          /\ owner' = [owner EXCEPT ![ident[r]] = None]
          /\ UNCHANGED <<kind, want, arr>>
      BY <1>0, <1>5 DEF DoReset, Goto, TypeOK
    <2>2. UNCHANGED Holds(r)
      BY <2>1 DEF Holds
    <2>3. \A d \in Device : owner'[d] = r => owner[d] = r /\ d # ident[r]
      BY <1>0, <2>1 DEF TypeOK
    <2>. QED  BY <2>1, <2>2, <2>3 DEF KeptOf
  <1>6. CASE SetCompression(r)
    <2>1. /\ pc[r] = "setcomp" /\ pc'[r] = "reclaim"
          /\ UNCHANGED <<owner, kind, want, arr>> /\ UNCHANGED Holds(r)
      BY <1>0, <1>6 DEF SetCompression, Goto, TypeOK, Holds
    <2>. QED  BY <2>1 DEF KeptOf
  <1>7. CASE Reclaim(r) /\ Obtained(r)
    <2>1. /\ pc[r] = "reclaim" /\ ident[r] \in Device /\ cnt[r] < want[r]
          /\ \A i \in Slot : arr[r][i] # NoDev <=> i < cnt[r]
      BY <1>0, <1>7, ReclaimCases DEF ShapeOf, Scanning
    <2>2. /\ cnt[r] \in Slot /\ cnt[r] \in Nat /\ want[r] \in Nat /\ Slot \subseteq Nat
          /\ arr[r][cnt[r]] = NoDev
      BY <1>0, <2>1, SizeAssumption DEF TypeOK, Slot
    <2>3. Holds(r)' = Holds(r) \cup {ident[r]}
      BY <1>0, <1>7, <2>1, <2>2, HoldsStored DEF Obtained
    <2>4. \A d \in Device : owner'[d] = r => owner[d] = r \/ d = ident[r]
      BY <1>0, <1>7 DEF Obtained, TypeOK
    <2>5. pc'[r] \in {"check", "claimed"} /\ UNCHANGED <<kind, want>>
      BY <1>0, <1>7 DEF Obtained, TypeOK
    <2>6. \A i \in Slot : arr'[r][i] # NoDev => i < want[r]
      <3>1. \A i \in Slot : i # cnt[r] => arr'[r][i] = arr[r][i]
        BY <1>0, <1>7 DEF Obtained, TypeOK
      <3> SUFFICES ASSUME NEW i \in Slot, arr'[r][i] # NoDev PROVE i < want[r]
        OBVIOUS
      <3>2. i = cnt[r] \/ i < cnt[r]
        BY <2>1, <3>1
      <3>3. i \in Nat
        BY <2>2
      <3>. QED  BY <2>1, <2>2, <3>2, <3>3
    <2>. QED  BY <2>1, <2>3, <2>4, <2>5, <2>6 DEF KeptOf
  <1>8. CASE Rollback(r)
    <2>0. pc[r] = "rollback" /\ UNCHANGED <<kind, want>> /\ Slot \subseteq Nat /\ rev[r] \in Int
      BY <1>0, <1>8 DEF Rollback, TypeOK, Slot
    <2>1. CASE /\ rev[r] >= RollbackEnd(kind[r]) /\ ReleaseSlot(r, rev[r])
               /\ rev' = [rev EXCEPT ![r] = rev[r] - 1] /\ UNCHANGED pc
      <3>1. rev[r] \in Slot /\ arr[r][rev[r]] # NoDev /\ rev'[r] = rev[r] - 1
        BY <1>0, <2>0, <2>1, RollbackSlot DEF TypeOK
      <3>2. /\ \A d \in Device : owner'[d] = r => d \in Holds(r)'
            /\ arr'[r][rev[r]] = NoDev
            /\ \A j \in Slot : arr'[r][j] # NoDev => arr[r][j] # NoDev
        BY <2>0, <2>1, <3>1, ReleaseKeeps
      <3>3. \A j \in Slot : arr'[r][j] # NoDev => j <= rev[r] - 1
        <4> SUFFICES ASSUME NEW j \in Slot, arr'[r][j] # NoDev PROVE j <= rev[r] - 1
          OBVIOUS
        <4>1. j <= rev[r] /\ j # rev[r] /\ j \in Nat
          BY <2>0, <3>2 DEF KeptOf
        <4>. QED  BY <2>0, <4>1
      <3>. QED  BY <2>0, <2>1, <3>1, <3>2, <3>3 DEF KeptOf
    <2>2. CASE /\ rev[r] < RollbackEnd(kind[r]) /\ Goto(r, "failed")
               /\ UNCHANGED <<owner, arr>>
      <3>1. pc'[r] = "failed" /\ UNCHANGED Holds(r)
        BY <1>0, <2>2 DEF Goto, TypeOK, Holds
      <3>2. kind[r] # "several" => \A i \in Slot : arr[r][i] = NoDev
        BY <2>0, <2>2 DEF RollbackEnd, KeptOf
      <3>. QED  BY <2>0, <2>2, <3>1, <3>2 DEF KeptOf
    <2>. QED  BY <1>8, <2>1, <2>2 DEF Rollback
  <1>9. CASE \E i \in Slot : Release(r, i)
    <2>1. PICK i \in Slot : Release(r, i)
      BY <1>9
    <2>2. pc[r] = "claimed" /\ UNCHANGED <<pc, kind, want>>
      BY <2>1 DEF Release
    <2>3. /\ \A d \in Device : owner'[d] = r => d \in Holds(r)'
          /\ \A j \in Slot : arr'[r][j] # NoDev => arr[r][j] # NoDev
      BY <2>1, <2>2, ReleaseKeeps DEF Release
    <2>. QED  BY <2>2, <2>3 DEF KeptOf
  <1>. QED
    BY <1>1, <1>2, <1>3, <1>4, <1>5, <1>6, <1>7, <1>8, <1>9, ReclaimCases DEF ClaimStep

\* A request keeps its devices whatever the others do.
LEMMA NextKept == SafetyInv /\ Kept /\ [Next]_vars => Kept'
  <1> SUFFICES ASSUME SafetyInv, "reset" \notin MayFail, [Next]_vars,
                      NEW q \in Req, KeptOf(q)
               PROVE  KeptOf(q)'
    BY DEF Kept
  <1>1. CASE UNCHANGED vars
    BY <1>1 DEF vars, KeptOf, Holds
  <1>2. ASSUME NEW r \in Req, ClaimStep(r) \/ \E i \in Slot : Release(r, i)
        PROVE  KeptOf(q)'
    <2>1. CASE q = r
      BY <1>2, <2>1, KeptStep
    <2>2. CASE q # r
      <3>1. /\ pc'[q] = pc[q] /\ want'[q] = want[q] /\ arr'[q] = arr[q]
            /\ kind'[q] = kind[q] /\ rev'[q] = rev[q] /\ ident'[q] = ident[q]
        BY <1>2, <2>2, OthersKeep, OthersStay
      <3>2. \A d \in Device : owner'[d] = q <=> owner[d] = q
        BY <1>2, <2>2, OthersOwn
      <3>3. UNCHANGED Holds(q)
        BY <3>1 DEF Holds
      <3>. QED  BY <3>1, <3>2, <3>3 DEF KeptOf
    <2>. QED  BY <2>1, <2>2
  <1>. QED  BY <1>1, <1>2 DEF Next

\* The initial states lose nothing.
LEMMA InitKept == Init => Kept
  <1> SUFFICES ASSUME Init, NEW r \in Req PROVE KeptOf(r)
    BY DEF Kept
  <1>1. \A d \in Device : owner[d] # r
    BY NameAssumption DEF Init
  <1>. QED  BY <1>1 DEF Init, KeptOf

\* Every device a request has initialised is in one of its slots or about to be
\* reset by it, in every reachable state, if the kernel refuses no reset.
THEOREM KeptInvariant == Spec => []Kept
  BY InitKept, NextKept, SafetyInvariant, PTL DEF Spec

\* zram_claim_next_free and its varsize sibling lose no device, for any number
\* of concurrent requests.
THEOREM NothingLeaks == Spec => []NoLeak
  <1>1. Kept => NoLeak
    <2> SUFFICES ASSUME Kept, "reset" \notin MayFail, NEW r \in Req, NEW d \in Device,
                        kind[r] # "several", Lost(r, d)
                 PROVE  FALSE
      BY DEF NoLeak
    <2>1. KeptOf(r) /\ owner[d] = r
      BY DEF Kept, Lost
    <2>2. d \in Holds(r) /\ pc[r] = "failed"
      BY <2>1 DEF KeptOf, Lost
    <2>. QED  BY <2>1, <2>2 DEF KeptOf, Holds
  <1>. QED  BY <1>1, KeptInvariant, PTL

-------------------------------------------------------------------------------
(***************************************************************************)
(* The callers: their invariant                                            *)
(***************************************************************************)

\* All slots that request r asked for hold a device.
Full(r) == \A i \in Slot : i < want[r] => arr[r][i] # NoDev

\* How the stage, the loop index and the device array fit together.
SetupShapeOf(r) ==
  /\ stage[r] = "claim" /\ pc[r] = "claimed" => Full(r)
  /\ stage[r] \in {"mkswap", "swapon"} => k[r] < want[r] /\ Full(r)
  /\ stage[r] \in {"mkfs", "mount"} => Full(r)

SetupShape == \A r \in Req : SetupShapeOf(r)

\* A device in use has an owner, who holds it and is past its claim.
UsedBy(r, d) == owner[d] = r /\ d \in Holds(r) /\ stage[r] # "claim"

UseInv == \A d \in Device : use[d] # "idle" => \E r \in Req : UsedBy(r, d)

SetupInv == SafetyInv /\ SetupTypeOK /\ SetupShape /\ UseInv

-------------------------------------------------------------------------------
(***************************************************************************)
(* The allocator's protocol                                                *)
(***************************************************************************)

\* Every step of a setup is a step of the claim, a release of one slot, or
\* nothing at all, as seen by the allocator.
LEMMA SetupStepKinds ==
  ASSUME SetupTypeOK, NEW r \in Req, SetupStep(r)
  PROVE  \/ Claim(r)
         \/ UNCHANGED vars
         \/ \E i \in Slot : ReleaseIdle(r, i)
  <1>1. 0 \in Slot
    BY SizeAssumption DEF Slot
  <1>2. k[r] < upto[r] => k[r] \in Slot
    BY SizeAssumption DEF SetupTypeOK, Slot
  <1>3. CASE ReleaseSwaps(r)
    BY <1>2, <1>3 DEF ReleaseSwaps
  <1>4. CASE ReleaseUnformatted(r) \/ ReleaseUnmounted(r)
    BY <1>1, <1>4 DEF ReleaseUnformatted, ReleaseUnmounted
  <1>5. CASE RefuseConfig(r) \/ AfterClaim(r)
    BY <1>5 DEF RefuseConfig, AfterClaim
  <1>6. CASE Mkswap(r) \/ Swapon(r) \/ Swapoff(r) \/ Mkfs(r) \/ Mount(r)
             \/ SetPermissions(r) \/ NormalTmpfs(r)
    BY <1>6 DEF Mkswap, Swapon, Swapoff, Mkfs, Mount, SetPermissions, NormalTmpfs
  <1>. QED  BY <1>3, <1>4, <1>5, <1>6 DEF SetupStep

\* So every step of the setups is a step of the allocator or a stutter.
LEMMA SetupNextIsNext ==
  ASSUME SetupTypeOK, [SetupNext]_allVars
  PROVE  [Next]_vars
  <1>1. CASE UNCHANGED allVars
    BY <1>1 DEF allVars
  <1>2. ASSUME NEW r \in Req, SetupStep(r) PROVE [Next]_vars
    BY <1>2, SetupStepKinds DEF Claim, ReleaseIdle, Next
  <1>. QED  BY <1>1, <1>2 DEF SetupNext

-------------------------------------------------------------------------------
(***************************************************************************)
(* The claim                                                               *)
(***************************************************************************)

\* A claim function that succeeds has filled all slots it was asked for.
LEMMA FullWhenClaimed ==
  ASSUME SafetyInv, NEW r \in Req, ClaimStep(r), pc'[r] = "claimed"
  PROVE  Full(r)'
  <1>0. TypeOK /\ ShapeOf(r)
    BY DEF SafetyInv, Shape
  <1>1. CASE Reclaim(r) /\ Obtained(r)
    <2>1. pc[r] = "reclaim"
      BY <1>1 DEF Reclaim
    <2>2. /\ arr' = [arr EXCEPT ![r][cnt[r]] = ident[r]]
          /\ ~(cnt[r] + 1 < want[r]) /\ want' = want
      BY <1>0, <1>1 DEF Obtained, TypeOK
    <2>3. ident[r] \in Device /\ \A i \in Slot : arr[r][i] # NoDev <=> i < cnt[r]
      BY <1>0, <2>1 DEF ShapeOf, Scanning
    <2>4. ident[r] # NoDev
      BY <2>3, SizeAssumption DEF Device, NoDev
    <2>. SUFFICES ASSUME NEW i \in Slot, i < want[r] PROVE arr'[r][i] # NoDev
      BY <2>2 DEF Full
    <2>5. i < cnt[r] \/ i = cnt[r]
      BY <1>0, <2>2, SizeAssumption DEF TypeOK, Slot
    <2>. QED  BY <1>0, <2>2, <2>3, <2>4, <2>5 DEF TypeOK
  <1>2. CASE ~(Reclaim(r) /\ Obtained(r))
    <2>1. CASE Start(r)
      BY <1>0, <2>1 DEF Start, Goto, TypeOK
    <2>2. CASE CheckInitstate(r)
      <3>1. CASE ScanFailed(r) \/ TryNextIdent(r)
        BY <1>0, <3>1, ScanFailedStep, TryNextStep DEF Restarted, GaveUp
      <3>. QED  BY <1>0, <2>2, <3>1 DEF CheckInitstate, Goto, TypeOK
    <2>3. CASE DoClaim(r) \/ DoReset(r)
      <3>1. CASE TryNextIdent(r) \/ ScanFailed(r)
        BY <1>0, <3>1, TryNextStep, ScanFailedStep DEF Restarted, GaveUp
      <3>. QED  BY <1>0, <2>3, <3>1 DEF DoClaim, DoReset, WriteDisksizeFails, Goto, TypeOK
    <2>4. CASE SetCompression(r)
      BY <1>0, <2>4 DEF SetCompression, Goto, TypeOK
    <2>5. CASE Reclaim(r)
      BY <1>0, <1>2, <2>5, ReclaimCases, TryNextStep, ScanFailedStep
         DEF WriteDisksizeFails, Restarted, GaveUp
    <2>6. CASE Rollback(r)
      BY <1>0, <2>6 DEF Rollback, Goto, TypeOK
    <2>. QED  BY <2>1, <2>2, <2>3, <2>4, <2>5, <2>6 DEF ClaimStep
  <1>. QED  BY <1>1, <1>2

\* The claim preserves the invariant of the setups.
LEMMA ClaimSafe ==
  ASSUME SetupInv, NEW r \in Req, Claim(r)
  PROVE  SetupTypeOK' /\ SetupShape' /\ UseInv'
  <1>0. /\ SafetyInv /\ stage[r] = "claim" /\ ClaimStep(r)
        /\ UNCHANGED <<goal, stage, k, upto, swaptype, inuse, use, mp, ret>>
    BY DEF SetupInv, Claim, setupVars
  <1>1. SetupTypeOK'
    BY <1>0 DEF SetupInv, SetupTypeOK
  <1>2. SetupShape'
    <2> SUFFICES ASSUME NEW q \in Req PROVE SetupShapeOf(q)'
      BY DEF SetupShape
    <2>1. CASE q = r
      BY <1>0, <2>1, FullWhenClaimed DEF SetupShapeOf
    <2>2. CASE q # r
      BY <1>0, <2>2, OthersKeep DEF SetupInv, SetupShape, SetupShapeOf, Full
    <2>. QED  BY <2>1, <2>2
  <1>3. UseInv'
    <2> SUFFICES ASSUME NEW d \in Device, use'[d] # "idle"
                 PROVE  \E q \in Req : UsedBy(q, d)'
      BY DEF UseInv
    <2>1. PICK q \in Req : UsedBy(q, d)
      BY <1>0 DEF SetupInv, UseInv
    <2>2. q # r
      BY <1>0, <2>1 DEF UsedBy
    <2>3. owner'[d] = q
      BY <1>0, <2>1, <2>2, OthersOwn DEF UsedBy
    <2>4. Holds(q)' = Holds(q)
      BY <1>0, <2>2, OthersKeep DEF Holds
    <2>. QED  BY <1>0, <2>1, <2>3, <2>4 DEF UsedBy
  <1>. QED  BY <1>1, <1>2, <1>3

-------------------------------------------------------------------------------
(***************************************************************************)
(* The stages after the claim                                              *)
(***************************************************************************)

\* Request r goes to a stage, with a loop index, and the others stay.
MoveOn(r, s, n) ==
  /\ stage' = [stage EXCEPT ![r] = s]
  /\ k' = [k EXCEPT ![r] = n]

\* What a stage without a step of the allocator must see to.
LEMMA QuietStage ==
  ASSUME SetupInv, NEW r \in Req, UNCHANGED vars,
         NEW s \in Stage \ {"claim"}, NEW n \in 0..MaxWant, MoveOn(r, s, n),
         s \in {"mkswap", "swapon"} => n < want[r] /\ Full(r),
         s \in {"mkfs", "mount"} => Full(r),
         use' \in [Device -> {"idle", "swap", "mounted"}],
         \A d \in Device : use'[d] # "idle" =>
           \/ use[d] # "idle"
           \/ \E i \in Slot : arr[r][i] = d
  PROVE  /\ stage' \in [Req -> Stage] /\ k' \in [Req -> 0..MaxWant]
         /\ SetupShape' /\ UseInv'
  <1>0. /\ TypeOK /\ ExclusiveClaims /\ SetupTypeOK
        /\ UNCHANGED <<owner, pc, want, arr>>
    BY DEF SetupInv, SafetyInv, vars
  <1>1. stage' \in [Req -> Stage] /\ k' \in [Req -> 0..MaxWant]
    BY <1>0 DEF MoveOn, SetupTypeOK
  <1>2. /\ stage'[r] = s /\ k'[r] = n
        /\ \A q \in Req : q # r => stage'[q] = stage[q] /\ k'[q] = k[q]
    BY <1>0 DEF MoveOn, SetupTypeOK
  <1>3. SetupShape'
    <2> SUFFICES ASSUME NEW q \in Req PROVE SetupShapeOf(q)'
      BY DEF SetupShape
    <2>1. CASE q = r
      BY <1>0, <1>2, <2>1 DEF SetupShapeOf, Full
    <2>2. CASE q # r
      BY <1>0, <1>2, <2>2 DEF SetupInv, SetupShape, SetupShapeOf, Full
    <2>. QED  BY <2>1, <2>2
  <1>4. UseInv'
    <2> SUFFICES ASSUME NEW d \in Device, use'[d] # "idle"
                 PROVE  \E q \in Req : UsedBy(q, d)'
      BY DEF UseInv
    <2>1. CASE use[d] # "idle"
      <3>1. PICK q \in Req : UsedBy(q, d)
        BY <2>1 DEF SetupInv, UseInv
      <3>2. UsedBy(q, d)'
        BY <1>0, <1>2, <3>1 DEF UsedBy, Holds
      <3>. QED  BY <3>2
    <2>2. CASE \E i \in Slot : arr[r][i] = d
      <3>1. d # NoDev
        BY SizeAssumption DEF Device, NoDev
      <3>2. owner[d] = r /\ d \in Holds(r)
        BY <1>0, <2>2, <3>1 DEF ExclusiveClaims, Holds
      <3>3. UsedBy(r, d)'
        BY <1>0, <1>2, <3>2 DEF UsedBy, Holds
      <3>. QED  BY <3>3
    <2>. QED  BY <2>1, <2>2
  <1>. QED  BY <1>1, <1>3, <1>4

\* The stages between the claim and the first command.
LEMMA AfterClaimSafe ==
  ASSUME SetupInv, NEW r \in Req, RefuseConfig(r) \/ AfterClaim(r)
  PROVE  SetupTypeOK' /\ SetupShape' /\ UseInv'
  <1>0. /\ SetupTypeOK /\ TypeOK
        /\ UNCHANGED vars /\ UNCHANGED <<upto, swaptype, inuse, use, mp>>
        /\ stage[r] = "claim"
    BY DEF SetupInv, SafetyInv, RefuseConfig, AfterClaim
  <1>1. goal' \in [Req -> Goal \cup {"none"}] /\ ret' \in [Req -> {-1, 0, 1, 2}]
    BY <1>0 DEF RefuseConfig, AfterClaim, Return, SetupTypeOK, Goal
  <1>2. \E s \in {"done", "tmpfs", "mkswap", "mkfs"} :
          MoveOn(r, s, 0) /\ (s \in {"mkswap", "mkfs"} => pc[r] = "claimed")
    BY DEF RefuseConfig, AfterClaim, Return, Enter, MoveOn, Goal
  <1>3. PICK s \in {"done", "tmpfs", "mkswap", "mkfs"} :
          MoveOn(r, s, 0) /\ (s \in {"mkswap", "mkfs"} => pc[r] = "claimed")
    BY <1>2
  <1>4. s \in {"mkswap", "mkfs"} => Full(r)
    BY <1>0, <1>3 DEF SetupInv, SetupShape, SetupShapeOf
  <1>5. 0 \in 0..MaxWant /\ 0 < want[r]
    BY <1>0, SizeAssumption DEF TypeOK
  <1>6. s \in Stage \ {"claim"}
    BY DEF Stage
  <1>7. use' \in [Device -> {"idle", "swap", "mounted"}]
    BY <1>0 DEF SetupTypeOK
  <1>8. /\ stage' \in [Req -> Stage] /\ k' \in [Req -> 0..MaxWant]
        /\ SetupShape' /\ UseInv'
    BY <1>0, <1>3, <1>4, <1>5, <1>6, <1>7, QuietStage
  <1>. QED  BY <1>0, <1>1, <1>7, <1>8 DEF SetupTypeOK

\* mkswap and swapon stay within the slots of the request.
LEMMA SwapSafe ==
  ASSUME SetupInv, NEW r \in Req, Mkswap(r) \/ Swapon(r)
  PROVE  SetupTypeOK' /\ SetupShape' /\ UseInv'
  <1>0. /\ SetupTypeOK /\ TypeOK /\ k[r] < want[r] /\ Full(r)
        /\ UNCHANGED vars /\ UNCHANGED <<goal, mp>>
    BY DEF SetupInv, SafetyInv, SetupShape, SetupShapeOf, Mkswap, Swapon
  <1>1. /\ k[r] \in Slot /\ k[r] \in 0..MaxWant /\ want[r] \in 0..MaxWant
        /\ 0 \in 0..MaxWant /\ 0 < want[r]
        /\ k[r] + 1 < want[r] => k[r] + 1 \in 0..MaxWant
    BY <1>0, SizeAssumption DEF TypeOK, SetupTypeOK, Slot
  <1>2. arr[r][k[r]] \in Device
    BY <1>0, <1>1 DEF Full, TypeOK
  <1>3. /\ upto' \in [Req -> 0..MaxWant] /\ ret' \in [Req -> {-1, 0, 1, 2}]
        /\ inuse' \in [Req -> SUBSET Slot] /\ swaptype' \in [Req -> SUBSET Device]
    BY <1>0, <1>1, <1>2 DEF Mkswap, Swapon, Return, SetupTypeOK
  <1>4. /\ use' \in [Device -> {"idle", "swap", "mounted"}]
        /\ \A d \in Device : use'[d] # "idle" =>
             use[d] # "idle" \/ \E i \in Slot : arr[r][i] = d
    BY <1>0, <1>1, <1>2 DEF Mkswap, Swapon, SetupTypeOK
  <1>5. \/ stage[r] \in {"mkswap", "swapon"} /\ k[r] + 1 < want[r]
           /\ MoveOn(r, stage[r], k[r] + 1)
        \/ \E s \in {"swapon", "swapoff", "release", "done"} : MoveOn(r, s, 0)
    BY <1>0 DEF Mkswap, Swapon, Return, Enter, MoveOn, SetupTypeOK
  <1>6. PICK s \in {"mkswap", "swapon", "swapoff", "release", "done"}, n \in 0..MaxWant :
          MoveOn(r, s, n) /\ n < want[r]
    <2>1. CASE \E s \in {"swapon", "swapoff", "release", "done"} : MoveOn(r, s, 0)
      BY <1>1, <2>1
    <2>2. CASE /\ stage[r] \in {"mkswap", "swapon"} /\ k[r] + 1 < want[r]
               /\ MoveOn(r, stage[r], k[r] + 1)
      BY <1>1, <2>2
    <2>. QED  BY <1>5, <2>1, <2>2
  <1>7. s \in Stage \ {"claim"}
    BY DEF Stage
  <1>8. /\ stage' \in [Req -> Stage] /\ k' \in [Req -> 0..MaxWant]
        /\ SetupShape' /\ UseInv'
    BY <1>0, <1>4, <1>6, <1>7, QuietStage
  <1>. QED  BY <1>0, <1>3, <1>4, <1>8 DEF SetupTypeOK

\* The swapoff loop only takes devices out of use.
LEMMA SwapoffSafe ==
  ASSUME SetupInv, NEW r \in Req, Swapoff(r)
  PROVE  SetupTypeOK' /\ SetupShape' /\ UseInv'
  <1>0. /\ SetupTypeOK /\ TypeOK /\ stage[r] = "swapoff"
        /\ UNCHANGED vars /\ UNCHANGED <<goal, swaptype, mp, ret>>
    BY DEF SetupInv, SafetyInv, Swapoff
  <1>1. /\ want[r] \in 0..MaxWant /\ 0 \in 0..MaxWant
        /\ k[r] < upto[r] => k[r] + 1 \in 0..MaxWant
    BY <1>0, SizeAssumption DEF TypeOK, SetupTypeOK
  <1>2. upto' \in [Req -> 0..MaxWant] /\ inuse' \in [Req -> SUBSET Slot]
    BY <1>0, <1>1 DEF Swapoff, SetupTypeOK
  <1>3. /\ use' \in [Device -> {"idle", "swap", "mounted"}]
        /\ \A d \in Device : use'[d] # "idle" => use[d] # "idle"
    BY <1>0 DEF Swapoff, SetupTypeOK
  <1>4. \/ k[r] + 1 \in 0..MaxWant /\ MoveOn(r, "swapoff", k[r] + 1)
        \/ MoveOn(r, "release", 0)
    BY <1>0, <1>1 DEF Swapoff, Enter, MoveOn, SetupTypeOK
  <1>5. PICK s \in {"swapoff", "release"}, n \in 0..MaxWant : MoveOn(r, s, n)
    BY <1>1, <1>4
  <1>6. s \in Stage \ {"claim"}
    BY DEF Stage
  <1>7. /\ stage' \in [Req -> Stage] /\ k' \in [Req -> 0..MaxWant]
        /\ SetupShape' /\ UseInv'
    BY <1>0, <1>3, <1>5, <1>6, QuietStage
  <1>. QED  BY <1>0, <1>2, <1>3, <1>7 DEF SetupTypeOK

\* mkfs, mount, permissions, and the fallback.
LEMMA DiskSafe ==
  ASSUME SetupInv, NEW r \in Req,
         Mkfs(r) \/ Mount(r) \/ SetPermissions(r) \/ NormalTmpfs(r)
  PROVE  SetupTypeOK' /\ SetupShape' /\ UseInv'
  <1>0. /\ SetupTypeOK /\ TypeOK
        /\ UNCHANGED vars /\ UNCHANGED <<goal, upto, swaptype>>
        /\ Mkfs(r) \/ Mount(r) => Full(r)
    BY DEF SetupInv, SafetyInv, SetupShape, SetupShapeOf,
           Mkfs, Mount, SetPermissions, NormalTmpfs
  <1>1. 0 \in 0..MaxWant /\ 0 \in Slot /\ 0 < want[r]
    BY <1>0, SizeAssumption DEF TypeOK, Slot
  <1>2. Mount(r) => arr[r][0] \in Device
    BY <1>0, <1>1 DEF Full, TypeOK
  <1>3. /\ inuse' \in [Req -> SUBSET Slot] /\ ret' \in [Req -> {-1, 0, 1, 2}]
        /\ mp' \in [Req -> {"nothing", "zram", "tmpfs"}]
    BY <1>0, <1>1 DEF Mkfs, Mount, SetPermissions, NormalTmpfs, Return,
                      TmpfsReturns, SetupTypeOK
  <1>4. /\ use' \in [Device -> {"idle", "swap", "mounted"}]
        /\ \A d \in Device : use'[d] # "idle" =>
             use[d] # "idle" \/ \E i \in Slot : arr[r][i] = d
    BY <1>0, <1>1, <1>2 DEF Mkfs, Mount, SetPermissions, NormalTmpfs, SetupTypeOK
  <1>5. PICK s \in {"done", "mount", "unmkfs", "perm", "unmount"} :
          MoveOn(r, s, 0) /\ (s = "mount" => Mkfs(r))
    BY DEF Mkfs, Mount, SetPermissions, NormalTmpfs, Return, Enter, MoveOn
  <1>6. s \in Stage \ {"claim"}
    BY DEF Stage
  <1>7. /\ stage' \in [Req -> Stage] /\ k' \in [Req -> 0..MaxWant]
        /\ SetupShape' /\ UseInv'
    BY <1>0, <1>1, <1>4, <1>5, <1>6, QuietStage
  <1>. QED  BY <1>0, <1>3, <1>4, <1>7 DEF SetupTypeOK

\* Releasing a slot in a failure path: only an idle device of the request
\* itself is reset.
LEMMA ReleaseStage ==
  ASSUME SetupInv, NEW r \in Req, NEW i \in Slot, ReleaseIdle(r, i),
         stage[r] \notin {"claim", "mkswap", "swapon", "mkfs", "mount"},
         NEW s \in {"release", "done", "tmpfs"}, NEW n \in 0..MaxWant, MoveOn(r, s, n),
         UNCHANGED use
  PROVE  /\ stage' \in [Req -> Stage] /\ k' \in [Req -> 0..MaxWant]
         /\ SetupShape' /\ UseInv'
  <1>0. /\ SafetyInv /\ TypeOK /\ SetupTypeOK
        /\ Release(r, i) /\ ReleaseSlot(r, i) /\ arr[r][i] # NoDev
        /\ use[arr[r][i]] # "idle" => UNCHANGED owner
    BY DEF SetupInv, SafetyInv, ReleaseIdle, Release
  <1>1. stage' \in [Req -> Stage] /\ k' \in [Req -> 0..MaxWant]
    BY <1>0 DEF MoveOn, SetupTypeOK, Stage
  <1>2. /\ stage'[r] = s
        /\ \A q \in Req : q # r => stage'[q] = stage[q] /\ k'[q] = k[q]
    BY <1>0 DEF MoveOn, SetupTypeOK
  <1>3. \A q \in Req : q # r =>
          pc'[q] = pc[q] /\ want'[q] = want[q] /\ arr'[q] = arr[q]
    BY <1>0, OthersKeep
  <1>4. SetupShape'
    <2> SUFFICES ASSUME NEW q \in Req PROVE SetupShapeOf(q)'
      BY DEF SetupShape
    <2>1. CASE q = r
      BY <1>2, <2>1 DEF SetupShapeOf
    <2>2. CASE q # r
      BY <1>2, <1>3, <2>2 DEF SetupInv, SetupShape, SetupShapeOf, Full
    <2>. QED  BY <2>1, <2>2
  <1>5. UseInv'
    <2> SUFFICES ASSUME NEW d \in Device, use[d] # "idle"
                 PROVE  \E q \in Req : UsedBy(q, d)'
      BY DEF UseInv
    <2>1. PICK q \in Req : UsedBy(q, d)
      BY DEF SetupInv, UseInv
    <2>2. stage'[q] # "claim"
      BY <1>2, <2>1 DEF UsedBy
    <2>3. CASE UNCHANGED <<owner, arr>>
      BY <2>1, <2>2, <2>3 DEF UsedBy, Holds
    <2>4. CASE /\ owner' = [owner EXCEPT ![arr[r][i]] = None]
               /\ arr' = [arr EXCEPT ![r][i] = NoDev]
               /\ owner[arr[r][i]] = r
      <3>0. arr[r][i] \in Device /\ owner'[arr[r][i]] = None /\ r # None
        BY <1>0, <2>4, NameAssumption DEF TypeOK
      <3>1. arr[r][i] # d
        BY <1>0, <2>4, <3>0
      <3>2. owner'[d] = q
        BY <1>0, <2>1, <2>4, <3>1 DEF UsedBy, TypeOK
      <3>3. PICK j \in Slot : arr[q][j] = d
        BY <2>1 DEF UsedBy, Holds
      <3>4. arr'[q][j] = d /\ d # NoDev
        BY <1>0, <2>4, <3>1, <3>3, SizeAssumption DEF TypeOK, Device, NoDev
      <3>5. d \in Holds(q)'
        BY <3>4 DEF Holds
      <3>6. UsedBy(q, d)'
        BY <2>2, <3>2, <3>5 DEF UsedBy
      <3>. QED  BY <3>6
    <2>. QED  BY <1>0, <2>3, <2>4, ReleaseSlotEffect
  <1>. QED  BY <1>1, <1>4, <1>5

\* The failure paths that release devices.
LEMMA ReleasesSafe ==
  ASSUME SetupInv, NEW r \in Req,
         ReleaseSwaps(r) \/ ReleaseUnformatted(r) \/ ReleaseUnmounted(r)
  PROVE  SetupTypeOK' /\ SetupShape' /\ UseInv'
  <1>0. /\ SetupTypeOK /\ TypeOK /\ UNCHANGED <<goal, upto, swaptype, inuse, use, mp>>
        /\ stage[r] \in {"release", "unmkfs", "unmount"}
    BY DEF SetupInv, SafetyInv, ReleaseSwaps, ReleaseUnformatted, ReleaseUnmounted
  <1>1. /\ 0 \in 0..MaxWant /\ 0 \in Slot
        /\ k[r] < upto[r] => k[r] \in Slot /\ k[r] + 1 \in 0..MaxWant
    BY <1>0, SizeAssumption DEF SetupTypeOK, Slot
  <1>2. ret' \in [Req -> {-1, 0, 1, 2}]
    BY <1>0 DEF ReleaseSwaps, ReleaseUnformatted, ReleaseUnmounted, Return,
                TmpfsReturns, SetupTypeOK
  <1>3. UNCHANGED vars \/ \E i \in Slot : ReleaseIdle(r, i)
    BY <1>1 DEF ReleaseSwaps, ReleaseUnformatted, ReleaseUnmounted
  <1>4. \/ k[r] + 1 \in 0..MaxWant /\ MoveOn(r, "release", k[r] + 1)
        \/ \E s \in {"done", "tmpfs"} : MoveOn(r, s, 0)
    BY <1>0, <1>1 DEF ReleaseSwaps, ReleaseUnformatted, ReleaseUnmounted, Return, Enter,
                      MoveOn, SetupTypeOK
  <1>5. PICK s \in {"release", "done", "tmpfs"}, n \in 0..MaxWant : MoveOn(r, s, n)
    BY <1>1, <1>4
  <1>6. s \in Stage \ {"claim"}
    BY DEF Stage
  <1>7. /\ stage' \in [Req -> Stage] /\ k' \in [Req -> 0..MaxWant]
        /\ SetupShape' /\ UseInv'
    <2>1. CASE UNCHANGED vars
      <3>1. /\ use' \in [Device -> {"idle", "swap", "mounted"}]
            /\ \A d \in Device : use'[d] # "idle" => use[d] # "idle"
        BY <1>0 DEF SetupTypeOK
      <3>. QED  BY <1>5, <1>6, <2>1, <3>1, QuietStage
    <2>2. CASE \E i \in Slot : ReleaseIdle(r, i)
      BY <1>0, <1>5, <2>2, ReleaseStage
    <2>. QED  BY <1>3, <2>1, <2>2
  <1>. QED  BY <1>0, <1>2, <1>7 DEF SetupTypeOK

-------------------------------------------------------------------------------
(***************************************************************************)
(* The theorems                                                            *)
(***************************************************************************)

\* The invariant is inductive.
LEMMA SetupNextSafety == SetupInv /\ [SetupNext]_allVars => SetupInv'
  <1> SUFFICES ASSUME SetupInv, [SetupNext]_allVars PROVE SetupInv'
    OBVIOUS
  <1>1. SafetyInv'
    BY SetupNextIsNext, NextSafety DEF SetupInv
  <1>2. CASE UNCHANGED allVars
    BY <1>1, <1>2 DEF allVars, vars, setupVars, SetupInv, SetupTypeOK, SetupShape,
                      SetupShapeOf, Full, UseInv, UsedBy, Holds
  <1>3. ASSUME NEW r \in Req, SetupStep(r) PROVE SetupInv'
    BY <1>1, <1>3, ClaimSafe, AfterClaimSafe, SwapSafe, SwapoffSafe, DiskSafe, ReleasesSafe
       DEF SetupStep, SetupInv
  <1>. QED  BY <1>2, <1>3 DEF SetupNext

\* Types, loop bounds and the ownership of devices in use hold in every
\* reachable state of the setups, for any number of them.
THEOREM SetupInvariant == SetupSpec => []SetupInv
  <1>1. SetupInit => SetupInv
    <2> SUFFICES ASSUME SetupInit PROVE SetupInv
      OBVIOUS
    <2>1. SafetyInv
      BY InitSafety DEF SetupInit
    <2>2. SetupTypeOK
      BY SizeAssumption DEF SetupInit, SetupTypeOK, Stage
    <2>3. SetupShape
      BY DEF SetupInit, Init, SetupShape, SetupShapeOf
    <2>4. UseInv
      BY DEF SetupInit, UseInv
    <2>. QED  BY <2>1, <2>2, <2>3, <2>4 DEF SetupInv
  <1>. QED  BY <1>1, SetupNextSafety, PTL DEF SetupSpec

\* Loop indices, slots and results never leave their ranges.
THEOREM SetupTypeCorrect == SetupSpec => []SetupTypeOK
  <1>1. SetupInv => SetupTypeOK
    BY DEF SetupInv
  <1>. QED  BY <1>1, SetupInvariant, PTL

\* A device in use as swap space or as a disk stays with the request that put
\* it to use, whatever the kernel refuses and however many setups run.
THEOREM InUseOwned == SetupSpec => []InUseIsOwned
  <1>1. SetupInv => InUseIsOwned
    BY DEF SetupInv, UseInv, UsedBy, InUseIsOwned
  <1>. QED  BY <1>1, SetupInvariant, PTL
-------------------------------------------------------------------------------
(***************************************************************************)
(* Swap space is all or nothing                                            *)
(***************************************************************************)

\* No device that request r has a record of is in use.
Idle(r) == \A i \in Slot : arr[r][i] # NoDev => use[arr[r][i]] = "idle"

\* Exactly the devices in the slots from lo to hi - 1 are active swap space.
SwapBetween(r, lo, hi) ==
  \A i \in Slot : arr[r][i] # NoDev =>
    use[arr[r][i]] = IF lo <= i /\ i < hi THEN "swap" ELSE "idle"

\* Which goal a stage belongs to.
StageGoal(r) ==
  /\ stage[r] \in {"mkswap", "swapon", "swapoff", "release"} => goal[r] = "swap"
  /\ stage[r] \in {"mkfs", "unmkfs"} => goal[r] \in {"disk", "tmpfs"}
  /\ stage[r] \in {"mount", "unmount", "perm", "tmpfs"} => goal[r] = "tmpfs"

\* How far the loops of autoswap.c have come, as seen by the kernel and in the
\* INUSE bits.
SwapShapeOf(r) ==
  /\ StageGoal(r)
  /\ stage[r] \in {"claim", "mkswap", "release"} => inuse[r] = {}
  /\ stage[r] = "mkswap" => Idle(r)
  /\ stage[r] = "swapon" => SwapBetween(r, 0, k[r]) /\ inuse[r] = 0 .. k[r] - 1
  /\ stage[r] = "swapoff" =>
       /\ inuse[r] = k[r] .. upto[r] - 1
       /\ ~ SwapoffMayFail => SwapBetween(r, k[r], upto[r])
  /\ stage[r] = "release" /\ ~ SwapoffMayFail => Idle(r)
  /\ stage[r] = "done" /\ goal[r] = "swap" /\ ret[r] = 0 =>
       Full(r) /\ SwapBetween(r, 0, want[r])
  /\ stage[r] = "done" /\ goal[r] = "swap" /\ ret[r] # 0 /\ ~ SwapoffMayFail => Idle(r)

SwapShape == \A r \in Req : SwapShapeOf(r)

\* Steps of r leave the setups of the others alone.
LEMMA OtherSetups ==
  ASSUME SetupInv, NEW r \in Req, SetupStep(r), NEW q \in Req, q # r
  PROVE  /\ goal'[q] = goal[q] /\ stage'[q] = stage[q] /\ k'[q] = k[q]
         /\ upto'[q] = upto[q] /\ inuse'[q] = inuse[q] /\ swaptype'[q] = swaptype[q]
         /\ mp'[q] = mp[q] /\ ret'[q] = ret[q]
         /\ pc'[q] = pc[q] /\ want'[q] = want[q] /\ arr'[q] = arr[q]
         /\ kind'[q] = kind[q]
  <1>0. SetupTypeOK /\ SafetyInv
    BY DEF SetupInv
  <1>1. pc'[q] = pc[q] /\ want'[q] = want[q] /\ arr'[q] = arr[q] /\ kind'[q] = kind[q]
    BY <1>0, SetupStepKinds, OthersKeep DEF Claim, ReleaseIdle, vars
  <1>2. CASE Claim(r)
    BY <1>1, <1>2 DEF Claim, setupVars
  <1>3. CASE RefuseConfig(r) \/ AfterClaim(r)
    BY <1>0, <1>1, <1>3 DEF RefuseConfig, AfterClaim, Return, Enter, SetupTypeOK, Goal
  <1>4. CASE Mkswap(r) \/ Swapon(r) \/ Swapoff(r) \/ ReleaseSwaps(r)
    BY <1>0, <1>1, <1>4
       DEF Mkswap, Swapon, Swapoff, ReleaseSwaps, Return, Enter, SetupTypeOK
  <1>5. CASE Mkfs(r) \/ ReleaseUnformatted(r) \/ Mount(r) \/ ReleaseUnmounted(r)
             \/ SetPermissions(r) \/ NormalTmpfs(r)
    BY <1>0, <1>1, <1>5
       DEF Mkfs, ReleaseUnformatted, Mount, ReleaseUnmounted, SetPermissions, NormalTmpfs,
           Return, Enter, SetupTypeOK
  <1>. QED  BY <1>2, <1>3, <1>4, <1>5 DEF SetupStep

\* Nor do they change what the devices of another request are used for.
LEMMA OthersUse ==
  ASSUME SetupInv, NEW r \in Req, SetupStep(r), NEW q \in Req, q # r,
         NEW i \in Slot, arr[q][i] # NoDev
  PROVE  use'[arr[q][i]] = use[arr[q][i]]
  <1>0. SetupTypeOK /\ TypeOK /\ ExclusiveClaims
    BY DEF SetupInv, SafetyInv
  <1>1. \A j \in Slot : arr[r][j] # arr[q][i]
    BY <1>0 DEF ExclusiveClaims
  <1>2. 0 \in Slot /\ (k[r] < upto[r] \/ stage[r] = "swapon" => k[r] \in Slot)
    BY <1>0, SizeAssumption DEF SetupInv, SetupShape, SetupShapeOf, SetupTypeOK, TypeOK, Slot
  <1>3. \/ UNCHANGED use
        \/ \E j \in Slot, x \in {"idle", "swap", "mounted"} : use' = [use EXCEPT ![arr[r][j]] = x]
    BY <1>2 DEF SetupStep, Claim, setupVars, RefuseConfig, AfterClaim, Mkswap, Swapon,
                Swapoff, ReleaseSwaps, Mkfs, ReleaseUnformatted, Mount, ReleaseUnmounted,
                SetPermissions, NormalTmpfs
  <1>4. arr[q][i] \in Device
    BY <1>0 DEF TypeOK
  <1>. QED  BY <1>0, <1>1, <1>3, <1>4 DEF SetupTypeOK

\* A request that is still claiming uses none of its devices.
LEMMA ClaimIdle ==
  ASSUME SetupInv, NEW r \in Req, stage[r] = "claim"
  PROVE  Idle(r)
  <1> SUFFICES ASSUME NEW i \in Slot, arr[r][i] # NoDev, use[arr[r][i]] # "idle" PROVE FALSE
    BY DEF Idle
  <1>1. arr[r][i] \in Device /\ owner[arr[r][i]] = r
    BY DEF SetupInv, SafetyInv, TypeOK, ExclusiveClaims
  <1>2. PICK q \in Req : UsedBy(q, arr[r][i])
    BY <1>1 DEF SetupInv, UseInv
  <1>. QED  BY <1>1, <1>2 DEF UsedBy

\* The claim and what follows it put nothing to use.
LEMMA ClaimSwapShape ==
  ASSUME SetupInv, NEW r \in Req, SwapShapeOf(r),
         Claim(r) \/ RefuseConfig(r) \/ AfterClaim(r)
  PROVE  SwapShapeOf(r)'
  <1>0. SetupTypeOK /\ stage[r] = "claim" /\ UNCHANGED <<inuse, use>>
    BY DEF SetupInv, Claim, setupVars, RefuseConfig, AfterClaim
  <1>1. inuse[r] = {} /\ Idle(r)
    BY <1>0, ClaimIdle DEF SwapShapeOf
  <1>2. CASE Claim(r)
    BY <1>0, <1>1, <1>2 DEF Claim, setupVars, SwapShapeOf, StageGoal
  <1>3. CASE RefuseConfig(r) \/ AfterClaim(r)
    <2>1. UNCHANGED arr
      BY <1>3 DEF RefuseConfig, AfterClaim, vars
    <2>2. Idle(r)' /\ inuse'[r] = {}
      BY <1>0, <1>1, <2>1 DEF Idle
    <2>3. \/ stage'[r] = "done" /\ (goal'[r] = "swap" => ret'[r] # 0)
          \/ stage'[r] = "mkswap" /\ goal'[r] = "swap"
          \/ stage'[r] = "mkfs" /\ goal'[r] \in {"disk", "tmpfs"}
          \/ stage'[r] = "tmpfs" /\ goal'[r] = "tmpfs"
      BY <1>0, <1>3 DEF RefuseConfig, AfterClaim, Return, Enter, SetupTypeOK, Goal
    <2>. QED  BY <2>2, <2>3 DEF SwapShapeOf, StageGoal
  <1>. QED  BY <1>2, <1>3

\* The loops of autoswap.c keep their books.
LEMMA LoopSwapShape ==
  ASSUME SetupInv, NEW r \in Req, SwapShapeOf(r), Mkswap(r) \/ Swapon(r) \/ Swapoff(r)
  PROVE  SwapShapeOf(r)'
  <1>0. /\ SetupTypeOK /\ TypeOK /\ UNCHANGED <<arr, want, goal>>
        /\ stage[r] \in {"mkswap", "swapon", "swapoff"} /\ goal[r] = "swap"
        /\ k[r] \in Nat /\ upto[r] \in Nat /\ want[r] \in Nat /\ Slot \subseteq Nat
    BY DEF SetupInv, SafetyInv, SetupTypeOK, TypeOK, Slot, Mkswap, Swapon, Swapoff, vars,
           SwapShapeOf, StageGoal
  <1>1. CASE Mkswap(r)
    <2>1. /\ inuse'[r] = {} /\ Idle(r)'
          /\ \/ stage'[r] = "mkswap"
             \/ stage'[r] = "swapon" /\ k'[r] = 0
             \/ stage'[r] = "release"
      BY <1>0, <1>1 DEF Mkswap, Enter, SwapShapeOf, Idle, SetupTypeOK
    <2>2. SwapBetween(r, 0, 0)'
      <3>1. \A i \in Slot : ~ (0 <= i /\ i < 0)
        BY <1>0
      <3>. QED  BY <2>1, <3>1 DEF Idle, SwapBetween
    <2>3. 0 .. 0 - 1 = {}
      OBVIOUS
    <2>. QED  BY <1>0, <2>1, <2>2, <2>3 DEF SwapShapeOf, StageGoal
  <1>2. CASE Swapon(r)
    <2>0. /\ SwapBetween(r, 0, k[r]) /\ inuse[r] = 0 .. k[r] - 1
          /\ k[r] < want[r] /\ Full(r)
      BY <1>2 DEF Swapon, SwapShapeOf, SetupInv, SetupShape, SetupShapeOf
    <2>1. CASE stage'[r] = "swapoff"
      <3>1. k'[r] = 0 /\ upto'[r] = k[r] /\ inuse'[r] = 0 .. k[r] - 1 /\ UNCHANGED use
        BY <1>0, <1>2, <2>0, <2>1 DEF Swapon, Enter, Return, SetupTypeOK
      <3>2. SwapBetween(r, k[r], upto[r])'
        BY <1>0, <2>0, <3>1 DEF SwapBetween
      <3>. QED  BY <1>0, <2>1, <3>1, <3>2 DEF SwapShapeOf, StageGoal
    <2>2. CASE stage'[r] # "swapoff"
      <3>1. /\ use' = [use EXCEPT ![arr[r][k[r]]] = "swap"]
            /\ inuse'[r] = inuse[r] \cup {k[r]}
            /\ \/ stage'[r] = "swapon" /\ k'[r] = k[r] + 1
               \/ stage'[r] = "done" /\ ret'[r] = 0 /\ ~ (k[r] + 1 < want[r])
        BY <1>0, <1>2, <2>2 DEF Swapon, Enter, Return, SetupTypeOK
      <3>2. k[r] \in Slot
        BY <1>0, <2>0, SizeAssumption DEF TypeOK, Slot
      <3>3. \A i \in Slot : arr[r][i] # NoDev =>
              use'[arr[r][i]] = IF 0 <= i /\ i < k[r] + 1 THEN "swap" ELSE "idle"
        <4> SUFFICES ASSUME NEW i \in Slot, arr[r][i] # NoDev
                     PROVE  use'[arr[r][i]] = IF i <= k[r] THEN "swap" ELSE "idle"
          BY <1>0
        <4>1. arr[r][i] \in Device /\ i \in Nat
          BY <1>0 DEF TypeOK
        <4>2. CASE i = k[r]
          BY <1>0, <3>1, <4>1, <4>2 DEF SetupTypeOK
        <4>3. CASE i # k[r]
          <5>1. arr[r][i] # arr[r][k[r]]
            BY <3>2, <4>3 DEF SetupInv, SafetyInv, ExclusiveClaims
          <5>2. use'[arr[r][i]] = use[arr[r][i]]
            BY <1>0, <3>1, <4>1, <5>1 DEF SetupTypeOK
          <5>. QED  BY <1>0, <2>0, <4>1, <4>3, <5>2 DEF SwapBetween
        <4>. QED  BY <4>2, <4>3
      <3>4. inuse'[r] = 0 .. (k[r] + 1) - 1
        BY <1>0, <2>0, <3>1
      <3>5. CASE stage'[r] = "swapon" /\ k'[r] = k[r] + 1
        <4>1. SwapBetween(r, 0, k[r])'
          BY <1>0, <3>3, <3>5 DEF SwapBetween
        <4>. QED  BY <1>0, <3>4, <3>5, <4>1 DEF SwapShapeOf, StageGoal
      <3>6. CASE stage'[r] = "done" /\ ret'[r] = 0 /\ ~ (k[r] + 1 < want[r])
        <4>1. k[r] + 1 = want[r]
          BY <1>0, <2>0, <3>6
        <4>2. SwapBetween(r, 0, want[r])' /\ Full(r)'
          BY <1>0, <2>0, <3>3, <4>1 DEF SwapBetween, Full
        <4>. QED  BY <3>6, <4>2 DEF SwapShapeOf, StageGoal
      <3>. QED  BY <3>1, <3>5, <3>6
    <2>. QED  BY <2>1, <2>2
  <1>3. CASE Swapoff(r)
    <2>0. inuse[r] = k[r] .. upto[r] - 1 /\ (~ SwapoffMayFail => SwapBetween(r, k[r], upto[r]))
      BY <1>3 DEF Swapoff, SwapShapeOf
    <2>1. CASE k[r] < upto[r]
      <3>1. /\ stage'[r] = "swapoff" /\ k'[r] = k[r] + 1 /\ upto'[r] = upto[r]
            /\ inuse'[r] = inuse[r] \ {k[r]}
            /\ ~ SwapoffMayFail => use' = [use EXCEPT ![arr[r][k[r]]] = "idle"]
        BY <1>0, <1>3, <2>1 DEF Swapoff, SetupTypeOK
      <3>2. inuse'[r] = k[r] + 1 .. upto[r] - 1
        BY <1>0, <2>0, <3>1
      <3>3. k[r] \in Slot
        BY <1>0, <2>1, SizeAssumption DEF SetupTypeOK, Slot
      <3>4. ASSUME ~ SwapoffMayFail, NEW i \in Slot, arr[r][i] # NoDev
            PROVE  use'[arr[r][i]] = IF k[r] + 1 <= i /\ i < upto[r] THEN "swap" ELSE "idle"
        <4>1. arr[r][i] \in Device /\ i \in Nat
          BY <1>0, <3>4 DEF TypeOK
        <4>2. CASE i = k[r]
          BY <1>0, <3>1, <3>4, <4>1, <4>2 DEF SetupTypeOK
        <4>3. CASE i # k[r]
          <5>1. arr[r][i] # arr[r][k[r]]
            BY <3>3, <3>4, <4>3 DEF SetupInv, SafetyInv, ExclusiveClaims
          <5>2. use'[arr[r][i]] = use[arr[r][i]]
            BY <1>0, <3>1, <3>4, <4>1, <5>1 DEF SetupTypeOK
          <5>. QED  BY <1>0, <2>0, <3>4, <4>1, <4>3, <5>2 DEF SwapBetween
        <4>. QED  BY <4>2, <4>3
      <3>5. ~ SwapoffMayFail => SwapBetween(r, k[r], upto[r])'
        BY <1>0, <3>1, <3>4 DEF SwapBetween
      <3>. QED  BY <1>0, <3>1, <3>2, <3>5 DEF SwapShapeOf, StageGoal
    <2>2. CASE ~ (k[r] < upto[r])
      <3>1. stage'[r] = "release" /\ UNCHANGED <<use, inuse>>
        BY <1>0, <1>3, <2>2 DEF Swapoff, Enter, SetupTypeOK
      <3>2. inuse'[r] = {}
        BY <1>0, <2>0, <2>2, <3>1
      <3>3. ~ SwapoffMayFail => Idle(r)'
        BY <1>0, <2>0, <2>2, <3>1 DEF SwapBetween, Idle
      <3>. QED  BY <1>0, <3>1, <3>2, <3>3 DEF SwapShapeOf, StageGoal
    <2>. QED  BY <2>1, <2>2
  <1>. QED  BY <1>1, <1>2, <1>3

\* Releases keep the remaining devices idle.
LEMMA ReleaseSwapShape ==
  ASSUME SetupInv, NEW r \in Req, SwapShapeOf(r), ReleaseSwaps(r)
  PROVE  SwapShapeOf(r)'
  <1>0. /\ SetupTypeOK /\ SafetyInv /\ UNCHANGED <<use, inuse, goal>>
        /\ stage[r] = "release" /\ goal[r] = "swap" /\ inuse[r] = {}
    BY DEF SetupInv, ReleaseSwaps, SwapShapeOf, StageGoal
  <1>1. \/ stage'[r] = "release"
        \/ stage'[r] = "done" /\ ret'[r] = -1
    BY <1>0 DEF ReleaseSwaps, Return, Enter, SetupTypeOK
  <1>2. \A i \in Slot : arr'[r][i] # NoDev => arr'[r][i] = arr[r][i]
    <2>1. k[r] < upto[r] => k[r] \in Slot
      BY <1>0, SizeAssumption DEF SetupTypeOK, Slot
    <2>2. UNCHANGED arr \/ \E i \in Slot : arr' = [arr EXCEPT ![r][i] = NoDev]
      BY <2>1 DEF ReleaseSwaps, ReleaseIdle, Release, ReleaseSlot, vars
    <2>. QED  BY <1>0, <2>2 DEF SafetyInv, TypeOK
  <1>3. ~ SwapoffMayFail => Idle(r)'
    BY <1>0, <1>2 DEF SwapShapeOf, Idle
  <1>. QED  BY <1>0, <1>1, <1>3 DEF SwapShapeOf, StageGoal

\* Disks and tmpfs have nothing to do with swap space.
LEMMA DiskSwapShape ==
  ASSUME SetupInv, NEW r \in Req, SwapShapeOf(r),
         \/ Mkfs(r) \/ ReleaseUnformatted(r) \/ Mount(r)
         \/ ReleaseUnmounted(r) \/ SetPermissions(r) \/ NormalTmpfs(r)
  PROVE  SwapShapeOf(r)'
  <1>0. /\ SetupTypeOK /\ goal'[r] = goal[r]
        /\ goal[r] \in {"disk", "tmpfs"}
    BY DEF SetupInv, Mkfs, ReleaseUnformatted, Mount, ReleaseUnmounted, SetPermissions,
           NormalTmpfs, SwapShapeOf, StageGoal
  <1>1. \/ stage'[r] \in {"unmkfs", "done"}
        \/ stage'[r] \in {"mount", "unmount", "perm", "tmpfs"} /\ goal[r] = "tmpfs"
    BY <1>0 DEF Mkfs, ReleaseUnformatted, Mount, ReleaseUnmounted, SetPermissions,
           NormalTmpfs, Return, Enter, SetupTypeOK, SwapShapeOf, StageGoal
  <1>. QED  BY <1>0, <1>1 DEF SwapShapeOf, StageGoal

\* The bookkeeping of all requests is preserved by every step.
LEMMA NextSwapShape == SetupInv /\ SwapShape /\ [SetupNext]_allVars => SwapShape'
  <1> SUFFICES ASSUME SetupInv, SwapShape, [SetupNext]_allVars, NEW q \in Req
               PROVE  SwapShapeOf(q)'
    BY DEF SwapShape
  <1>0. SwapShapeOf(q)
    BY DEF SwapShape
  <1>1. CASE UNCHANGED allVars
    BY <1>0, <1>1 DEF allVars, vars, setupVars, SwapShapeOf, StageGoal, Idle, SwapBetween, Full
  <1>2. ASSUME NEW r \in Req, SetupStep(r) PROVE SwapShapeOf(q)'
    <2>1. CASE q = r
      BY <1>0, <1>2, <2>1, ClaimSwapShape, LoopSwapShape, ReleaseSwapShape, DiskSwapShape
         DEF SetupStep
    <2>2. CASE q # r
      <3>1. /\ goal'[q] = goal[q] /\ stage'[q] = stage[q] /\ k'[q] = k[q]
            /\ upto'[q] = upto[q] /\ inuse'[q] = inuse[q] /\ ret'[q] = ret[q]
            /\ want'[q] = want[q] /\ arr'[q] = arr[q]
        BY <1>2, <2>2, OtherSetups
      <3>2. \A i \in Slot : arr[q][i] # NoDev => use'[arr[q][i]] = use[arr[q][i]]
        BY <1>2, <2>2, OthersUse
      <3>3. (Idle(q) => Idle(q)') /\ (Full(q) => Full(q)') /\ (StageGoal(q) => StageGoal(q)')
        BY <3>1, <3>2 DEF Idle, Full, StageGoal
      <3>4. /\ SwapBetween(q, 0, k[q]) => SwapBetween(q, 0, k[q])'
            /\ SwapBetween(q, k[q], upto[q]) => SwapBetween(q, k[q], upto[q])'
            /\ SwapBetween(q, 0, want[q]) => SwapBetween(q, 0, want[q])'
        BY <3>1, <3>2 DEF SwapBetween
      <3>. QED  BY <1>0, <3>1, <3>3, <3>4 DEF SwapShapeOf
    <2>. QED  BY <2>1, <2>2
  <1>. QED  BY <1>1, <1>2 DEF SetupNext

\* The loops of autoswap.c know in every reachable state which devices are swap.
THEOREM SwapShapeInvariant == SetupSpec => []SwapShape
  <1>1. SetupInit => SwapShape
    BY DEF SetupInit, SwapShape, SwapShapeOf, StageGoal
  <1>. QED  BY <1>1, NextSwapShape, SetupInvariant, PTL DEF SetupSpec

\* No device is handed to zram_release_devices while it is active swap space, if
\* swapoff works.
THEOREM OnlyIdleReleased == SetupSpec => []ReleasesOnlyIdle
  <1>1. SetupInv /\ SwapShape => ReleasesOnlyIdle
    <2> SUFFICES ASSUME SetupInv, SwapShape, ~ SwapoffMayFail, NEW r \in Req,
                        stage[r] = "release", k[r] < upto[r]
                 PROVE  /\ arr[r][k[r]] # NoDev => use[arr[r][k[r]]] = "idle"
                        /\ k[r] \notin inuse[r]
      BY DEF ReleasesOnlyIdle
    <2>1. k[r] \in Slot
      BY SizeAssumption DEF SetupInv, SetupTypeOK, Slot
    <2>2. inuse[r] = {} /\ Idle(r)
      BY DEF SwapShape, SwapShapeOf
    <2>. QED  BY <2>1, <2>2 DEF Idle
  <1>. QED  BY <1>1, SetupInvariant, SwapShapeInvariant, PTL

\* The slots below n hold n different devices.
LEMMA DevicesOfSlots ==
  ASSUME TypeOK, ExclusiveClaims, NEW r \in Req, NEW n \in 1..MaxWant,
         \A i \in Slot : i < n => arr[r][i] # NoDev
  PROVE  Cardinality({arr[r][i] : i \in 0 .. n - 1}) = n
  <1> DEFINE D == 0 .. n - 1
             S == {arr[r][i] : i \in D}
             f == [i \in D |-> arr[r][i]]
  <1>1. n \in Nat /\ n > 0 /\ D \subseteq Slot /\ \A i \in D : i < n
    BY SizeAssumption DEF Slot
  <1>2. \A i, j \in D : arr[r][i] = arr[r][j] => i = j
    BY <1>1 DEF ExclusiveClaims
  <1>3. f \in Bijection(D, S)
    BY <1>2 DEF Bijection, Injection, Surjection, IsInjective
  <1>4. IsFiniteSet(D) /\ Cardinality(D) = n
    BY <1>1, FS_Interval
  <1>. QED  BY <1>3, <1>4, FS_Bijection DEF ExistsBijection

\* zram_autoswap is all or nothing, however many setups run at the same time.
THEOREM AllOrNothing == SetupSpec => []SwapIsAllOrNothing
  <1>1. SetupInv /\ SwapShape => SwapIsAllOrNothing
    <2> SUFFICES ASSUME SetupInv, SwapShape, NEW r \in Req,
                        stage[r] = "done", goal[r] = "swap"
                 PROVE  LET active == {d \in Device : owner[d] = r /\ use[d] = "swap"}
                        IN  /\ ret[r] = 0 => Cardinality(active) = want[r]
                            /\ ret[r] # 0 /\ ~ SwapoffMayFail => active = {}
      BY DEF SwapIsAllOrNothing
    <2> DEFINE active == {d \in Device : owner[d] = r /\ use[d] = "swap"}
    <2>0. TypeOK /\ ExclusiveClaims /\ SwapShapeOf(r) /\ want[r] \in 1..MaxWant
      BY DEF SetupInv, SafetyInv, SwapShape, TypeOK
    <2>1. \A d \in active : \E i \in Slot : arr[r][i] = d /\ d # NoDev
      <3> SUFFICES ASSUME NEW d \in active PROVE \E i \in Slot : arr[r][i] = d /\ d # NoDev
        OBVIOUS
      <3>1. PICK q \in Req : UsedBy(q, d)
        BY DEF SetupInv, UseInv
      <3>2. q = r
        BY <3>1 DEF UsedBy
      <3>. QED  BY <3>1, <3>2 DEF UsedBy, Holds
    <2>2. CASE ret[r] = 0
      <3>1. Full(r) /\ SwapBetween(r, 0, want[r])
        BY <2>0, <2>2 DEF SwapShapeOf
      <3>2. want[r] \in Nat /\ Slot = 0 .. MaxWant - 1 /\ 0 .. want[r] - 1 \subseteq Slot
        BY <2>0, SizeAssumption DEF Slot
      <3>3. active \subseteq {arr[r][i] : i \in 0 .. want[r] - 1}
        <4> SUFFICES ASSUME NEW d \in active PROVE \E i \in 0 .. want[r] - 1 : arr[r][i] = d
          OBVIOUS
        <4>1. PICK i \in Slot : arr[r][i] = d /\ d # NoDev
          BY <2>1
        <4>2. i < want[r] /\ i \in Nat
          BY <3>1, <3>2, <4>1 DEF SwapBetween
        <4>3. i \in 0 .. want[r] - 1
          BY <3>2, <4>2
        <4>. QED  BY <4>1, <4>3
      <3>4. {arr[r][i] : i \in 0 .. want[r] - 1} \subseteq active
        <4> SUFFICES ASSUME NEW i \in 0 .. want[r] - 1 PROVE arr[r][i] \in active
          OBVIOUS
        <4>1. i \in Slot /\ 0 <= i /\ i < want[r]
          BY <3>2
        <4>2. arr[r][i] # NoDev
          BY <3>1, <4>1 DEF Full
        <4>3. use[arr[r][i]] = "swap"
          BY <3>1, <4>1, <4>2 DEF SwapBetween
        <4>4. arr[r][i] \in Device /\ owner[arr[r][i]] = r
          BY <2>0, <4>1, <4>2 DEF TypeOK, ExclusiveClaims
        <4>. QED  BY <4>3, <4>4
      <3>5. Cardinality({arr[r][i] : i \in 0 .. want[r] - 1}) = want[r]
        BY <2>0, <3>1, DevicesOfSlots DEF Full
      <3>6. active = {arr[r][i] : i \in 0 .. want[r] - 1}
        BY <3>3, <3>4
      <3>. QED  BY <2>2, <3>5, <3>6
    <2>3. CASE ret[r] # 0 /\ ~ SwapoffMayFail
      <3>1. Idle(r)
        BY <2>0, <2>3 DEF SwapShapeOf
      <3>. QED  BY <2>1, <2>3, <3>1 DEF Idle
    <2>. QED  BY <2>2, <2>3
  <1>. QED  BY <1>1, SetupInvariant, SwapShapeInvariant, PTL
-------------------------------------------------------------------------------
(***************************************************************************)
(* Swap space is given back                                                *)
(***************************************************************************)

\* What request r made swap space of and still owns is in its slots from lo to
\* hi - 1.
SwapSpaceIn(r, lo, hi) ==
  \A d \in swaptype[r] : owner[d] = r =>
    \E i \in Slot : lo <= i /\ i < hi /\ arr[r][i] = d

\* The slots that the loops of autoswap.c have been through, or have yet to
\* release, hold all swap space of the request.
BackShapeOf(r) ==
  /\ stage[r] = "claim" => swaptype[r] = {}
  /\ stage[r] = "mkswap" => SwapSpaceIn(r, 0, k[r])
  /\ stage[r] \in {"swapon", "swapoff"} => SwapSpaceIn(r, 0, want[r])
  /\ stage[r] = "release" => SwapSpaceIn(r, k[r], upto[r])
  /\ stage[r] = "done" /\ goal[r] = "swap" /\ ret[r] # 0 =>
       \A d \in swaptype[r] : owner[d] # r

BackShape == "reset" \notin MayFail => \A r \in Req : BackShapeOf(r)

\* A slot of the failure path is released, and the rest of the swap space is in
\* the slots after it.
LEMMA ReleaseBackShape ==
  ASSUME SetupInv, SwapShape, NEW r \in Req, "reset" \notin MayFail, BackShapeOf(r),
         ReleaseSwaps(r)
  PROVE  BackShapeOf(r)'
  <1>0. /\ SetupTypeOK /\ TypeOK /\ ExclusiveClaims /\ stage[r] = "release"
        /\ SwapSpaceIn(r, k[r], upto[r]) /\ inuse[r] = {} /\ UNCHANGED <<swaptype, upto>>
        /\ k[r] \in Nat /\ upto[r] \in Nat /\ Slot \subseteq Nat /\ r # None
    BY NameAssumption DEF SetupInv, SafetyInv, SetupTypeOK, Slot, SwapShape, SwapShapeOf,
                          BackShapeOf, ReleaseSwaps
  <1>1. CASE k[r] < upto[r]
    <2>1. /\ stage'[r] = "release" /\ k'[r] = k[r] + 1 /\ ReleaseIdle(r, k[r])
          /\ k[r] \in Slot
      BY <1>0, <1>1, SizeAssumption DEF ReleaseSwaps, SetupTypeOK, Slot
    <2>2. /\ owner' = [owner EXCEPT ![arr[r][k[r]]] = None]
          /\ arr' = [arr EXCEPT ![r][k[r]] = NoDev]
          /\ arr[r][k[r]] \in Device
      BY <1>0, <2>1 DEF ReleaseIdle, Release, ReleaseSlot, TypeOK
    <2>3. SwapSpaceIn(r, k[r], upto[r])'
      <3> SUFFICES ASSUME NEW d \in swaptype[r], owner'[d] = r
                   PROVE  \E i \in Slot : k[r] + 1 <= i /\ i < upto[r] /\ arr'[r][i] = d
        BY <1>0, <2>1 DEF SwapSpaceIn
      <3>1. d \in Device
        BY <1>0 DEF SetupTypeOK
      <3>2. d # arr[r][k[r]] /\ owner[d] = r
        BY <1>0, <2>2, <3>1 DEF TypeOK
      <3>3. PICK i \in Slot : k[r] <= i /\ i < upto[r] /\ arr[r][i] = d
        BY <1>0, <3>2 DEF SwapSpaceIn
      <3>4. arr'[r][i] = d /\ i # k[r] /\ i \in Nat
        BY <1>0, <2>2, <3>2, <3>3 DEF TypeOK
      <3>5. k[r] + 1 <= i
        BY <1>0, <3>3, <3>4
      <3>. QED  BY <3>3, <3>4, <3>5
    <2>. QED  BY <2>1, <2>3 DEF BackShapeOf
  <1>2. CASE ~ (k[r] < upto[r])
    <2>1. stage'[r] = "done" /\ UNCHANGED owner
      BY <1>0, <1>2 DEF ReleaseSwaps, Return, Enter, SetupTypeOK, vars
    <2>2. \A i \in Slot : ~ (k[r] <= i /\ i < upto[r])
      <3> SUFFICES ASSUME NEW i \in Slot, k[r] <= i, i < upto[r] PROVE FALSE
        OBVIOUS
      <3>1. i \in Nat /\ k[r] \in Nat /\ upto[r] \in Nat
        BY <1>0
      <3>. QED  BY <1>2, <3>1
    <2>3. \A d \in swaptype[r] : owner[d] # r
      BY <1>0, <2>2 DEF SwapSpaceIn
    <2>. QED  BY <1>0, <2>1, <2>3 DEF BackShapeOf
  <1>. QED  BY <1>1, <1>2

\* The loops in front of the failure paths add only devices of their slots.
LEMMA LoopBackShape ==
  ASSUME SetupInv, NEW r \in Req, BackShapeOf(r), Mkswap(r) \/ Swapon(r) \/ Swapoff(r)
  PROVE  BackShapeOf(r)'
  <1>0. /\ SetupTypeOK /\ TypeOK /\ UNCHANGED <<arr, want, owner>>
        /\ k[r] \in Nat /\ upto[r] \in Nat /\ want[r] \in Nat /\ Slot \subseteq Nat
    BY DEF SetupInv, SafetyInv, SetupTypeOK, TypeOK, Slot, Mkswap, Swapon, Swapoff, vars
  <1>1. CASE Mkswap(r)
    <2>0. SwapSpaceIn(r, 0, k[r]) /\ k[r] < want[r] /\ k[r] \in Slot
      BY <1>0, <1>1, SizeAssumption DEF Mkswap, BackShapeOf, SetupInv, SetupShape, SetupShapeOf,
                                        TypeOK, Slot
    <2>1. CASE stage'[r] = "release"
      <3>1. k'[r] = 0 /\ upto'[r] = k[r] /\ swaptype'[r] = swaptype[r]
        BY <1>0, <1>1, <2>1 DEF Mkswap, Enter, SetupTypeOK
      <3>2. SwapSpaceIn(r, k[r], upto[r])'
        BY <1>0, <2>0, <3>1 DEF SwapSpaceIn
      <3>. QED  BY <2>1, <3>2 DEF BackShapeOf
    <2>2. CASE stage'[r] # "release"
      <3>1. /\ swaptype'[r] = swaptype[r] \cup {arr[r][k[r]]}
            /\ \/ stage'[r] = "mkswap" /\ k'[r] = k[r] + 1
               \/ stage'[r] = "swapon" /\ ~ (k[r] + 1 < want[r])
        BY <1>0, <1>1, <2>2 DEF Mkswap, Enter, SetupTypeOK
      <3>2. \A d \in swaptype'[r] : owner[d] = r =>
              \E i \in Slot : 0 <= i /\ i < k[r] + 1 /\ arr[r][i] = d
        <4> SUFFICES ASSUME NEW d \in swaptype'[r], owner[d] = r
                     PROVE  \E i \in Slot : 0 <= i /\ i < k[r] + 1 /\ arr[r][i] = d
          OBVIOUS
        <4>1. CASE d = arr[r][k[r]]
          BY <1>0, <2>0, <4>1
        <4>2. CASE d \in swaptype[r]
          <5>1. PICK i \in Slot : 0 <= i /\ i < k[r] /\ arr[r][i] = d
            BY <2>0, <4>2 DEF SwapSpaceIn
          <5>2. i < k[r] + 1
            BY <1>0, <5>1
          <5>. QED  BY <5>1, <5>2
        <4>. QED  BY <3>1, <4>1, <4>2
      <3>3. CASE stage'[r] = "mkswap" /\ k'[r] = k[r] + 1
        <4>1. SwapSpaceIn(r, 0, k[r])'
          BY <1>0, <3>2, <3>3 DEF SwapSpaceIn
        <4>. QED  BY <3>3, <4>1 DEF BackShapeOf
      <3>4. CASE stage'[r] = "swapon" /\ ~ (k[r] + 1 < want[r])
        <4>1. want'[r] = k[r] + 1
          BY <1>0, <2>0, <3>4
        <4>2. SwapSpaceIn(r, 0, want[r])'
          BY <1>0, <3>2, <4>1 DEF SwapSpaceIn
        <4>. QED  BY <3>4, <4>2 DEF BackShapeOf
      <3>. QED  BY <3>1, <3>3, <3>4
    <2>. QED  BY <2>1, <2>2
  <1>2. CASE Swapon(r) \/ Swapoff(r)
    <2>1. SwapSpaceIn(r, 0, want[r]) /\ UNCHANGED swaptype
      BY <1>2 DEF Swapon, Swapoff, BackShapeOf
    <2>2. \/ stage'[r] \in {"swapon", "swapoff"}
          \/ stage'[r] = "done" /\ ret'[r] = 0
          \/ stage'[r] = "release" /\ k'[r] = 0 /\ upto'[r] = want[r]
      BY <1>0, <1>2 DEF Swapon, Swapoff, Return, Enter, SetupTypeOK
    <2>3. SwapSpaceIn(r, 0, want[r])'
      BY <1>0, <2>1 DEF SwapSpaceIn
    <2>4. stage'[r] = "release" => SwapSpaceIn(r, k[r], upto[r])'
      BY <1>0, <2>1, <2>2 DEF SwapSpaceIn
    <2>. QED  BY <2>2, <2>3, <2>4 DEF BackShapeOf
  <1>. QED  BY <1>1, <1>2

\* Claims have made no swap space yet, and disks and tmpfs make none.
LEMMA OtherBackShape ==
  ASSUME SetupInv, SwapShape, NEW r \in Req, BackShapeOf(r),
         \/ Claim(r) \/ RefuseConfig(r) \/ AfterClaim(r)
         \/ Mkfs(r) \/ ReleaseUnformatted(r) \/ Mount(r)
         \/ ReleaseUnmounted(r) \/ SetPermissions(r) \/ NormalTmpfs(r)
  PROVE  BackShapeOf(r)'
  <1>0. SetupTypeOK /\ StageGoal(r)
    BY DEF SetupInv, SwapShape, SwapShapeOf
  <1>1. CASE Claim(r) \/ RefuseConfig(r) \/ AfterClaim(r)
    <2>1. swaptype'[r] = {}
      BY <1>1 DEF Claim, setupVars, RefuseConfig, AfterClaim, BackShapeOf
    <2>. QED  BY <2>1 DEF BackShapeOf, SwapSpaceIn
  <1>2. CASE \/ Mkfs(r) \/ ReleaseUnformatted(r) \/ Mount(r)
             \/ ReleaseUnmounted(r) \/ SetPermissions(r) \/ NormalTmpfs(r)
    <2>1. goal'[r] # "swap"
      BY <1>0, <1>2 DEF Mkfs, ReleaseUnformatted, Mount, ReleaseUnmounted, SetPermissions,
                        NormalTmpfs, StageGoal
    <2>2. stage'[r] \in {"mount", "unmkfs", "unmount", "perm", "tmpfs", "done"}
      BY <1>0, <1>2 DEF Mkfs, ReleaseUnformatted, Mount, ReleaseUnmounted, SetPermissions,
                        NormalTmpfs, Return, Enter, SetupTypeOK
    <2>. QED  BY <2>1, <2>2 DEF BackShapeOf
  <1>. QED  BY <1>1, <1>2

\* Every step of the setups keeps the invariant, for all requests.
LEMMA NextBackShape ==
  SetupInv /\ SwapShape /\ BackShape /\ [SetupNext]_allVars => BackShape'
  <1> SUFFICES ASSUME SetupInv, SwapShape, BackShape, [SetupNext]_allVars,
                      "reset" \notin MayFail, NEW q \in Req
               PROVE  BackShapeOf(q)'
    BY DEF BackShape
  <1>0. BackShapeOf(q) /\ SafetyInv /\ SetupTypeOK
    BY DEF BackShape, SetupInv
  <1>1. CASE UNCHANGED allVars
    BY <1>0, <1>1 DEF allVars, vars, setupVars, BackShapeOf, SwapSpaceIn
  <1>2. ASSUME NEW r \in Req, SetupStep(r) PROVE BackShapeOf(q)'
    <2>1. CASE q = r
      BY <1>0, <1>2, <2>1, ReleaseBackShape, LoopBackShape, OtherBackShape DEF SetupStep
    <2>2. CASE q # r
      <3>1. /\ goal'[q] = goal[q] /\ stage'[q] = stage[q] /\ k'[q] = k[q]
            /\ upto'[q] = upto[q] /\ swaptype'[q] = swaptype[q] /\ ret'[q] = ret[q]
            /\ want'[q] = want[q] /\ arr'[q] = arr[q]
        BY <1>2, <2>2, OtherSetups
      <3>2. \A d \in Device : owner'[d] = q <=> owner[d] = q
        <4>1. CASE UNCHANGED vars
          BY <4>1 DEF vars
        <4>2. CASE Claim(r) \/ \E i \in Slot : ReleaseIdle(r, i)
          BY <1>0, <1>2, <2>2, <4>2, OthersOwn DEF Claim, ReleaseIdle
        <4>. QED  BY <1>0, <1>2, <4>1, <4>2, SetupStepKinds
      <3>3. swaptype[q] \subseteq Device
        BY <1>0 DEF SetupTypeOK
      <3>4. \A d \in swaptype[q] : owner'[d] = q <=> owner[d] = q
        BY <3>2, <3>3
      <3>5. /\ SwapSpaceIn(q, 0, k[q]) => SwapSpaceIn(q, 0, k[q])'
            /\ SwapSpaceIn(q, 0, want[q]) => SwapSpaceIn(q, 0, want[q])'
            /\ SwapSpaceIn(q, k[q], upto[q]) => SwapSpaceIn(q, k[q], upto[q])'
        BY <3>1, <3>4 DEF SwapSpaceIn
      <3>. QED  BY <1>0, <3>1, <3>4, <3>5 DEF BackShapeOf
    <2>. QED  BY <2>1, <2>2
  <1>. QED  BY <1>1, <1>2 DEF SetupNext

\* A failed zram_autoswap gives back every device it has made swap space of,
\* for any number of setups and devices.
THEOREM SwapGivenBack == SetupSpec => []SwapSpaceIsGivenBack
  <1>1. SetupInit => BackShape
    BY DEF SetupInit, BackShape, BackShapeOf
  <1>2. BackShape => SwapSpaceIsGivenBack
    BY DEF BackShape, BackShapeOf, SwapSpaceIsGivenBack
  <1>. QED  BY <1>1, <1>2, NextBackShape, SetupInvariant, SwapShapeInvariant, PTL
            DEF SetupSpec
-------------------------------------------------------------------------------
(***************************************************************************)
(* A failed disk keeps no device                                           *)
(***************************************************************************)

\* Request r has a record of no device.
Empty(r) == \A i \in Slot : arr[r][i] = NoDev

\* The call has returned without a formatted or mounted zram disk.
WithoutDisk(r) ==
  /\ stage[r] = "done"
  /\ \/ goal[r] = "disk" /\ ret[r] # 0
     \/ goal[r] = "tmpfs" /\ mp[r] # "zram"

\* A disk is one device, and the failure paths have given it back.
DiskShapeOf(r) ==
  /\ kind[r] \in {"single", "several"}
  /\ stage[r] \in {"mkfs", "mount", "unmkfs", "unmount"} =>
       pc[r] = "claimed" /\ kind[r] = "single"
  /\ stage[r] = "perm" => mp[r] = "zram"
  /\ stage[r] = "tmpfs" \/ WithoutDisk(r) => Empty(r) /\ pc[r] # "reset"

DiskShape == "reset" \notin MayFail => \A r \in Req : DiskShapeOf(r)

\* The only device of a disk is in the first slot, so its release leaves none.
LEMMA SingleReleased ==
  ASSUME SafetyInv, NEW r \in Req, KeptOf(r), "reset" \notin MayFail,
         kind[r] = "single", Release(r, 0)
  PROVE  Empty(r)' /\ pc'[r] = "claimed"
  <1>1. 0 \in Slot /\ Slot \subseteq Nat
    BY SizeAssumption DEF Slot
  <1>2. pc[r] = "claimed" /\ UNCHANGED pc /\ arr[r][0] # NoDev /\ ReleaseSlot(r, 0)
    BY DEF Release
  <1>3. arr'[r][0] = NoDev /\ \A j \in Slot : arr'[r][j] # NoDev => arr[r][j] # NoDev
    BY <1>1, <1>2, ReleaseKeeps
  <1>4. \A j \in Slot : arr[r][j] # NoDev => j = 0
    BY <1>1, <1>2 DEF KeptOf
  <1>. QED  BY <1>2, <1>3, <1>4 DEF Empty

\* What a claim that returned nothing, or was never made, leaves behind.
LEMMA NothingClaimed ==
  ASSUME SafetyInv, NEW r \in Req, KeptOf(r),
         pc[r] = "start" \/ (pc[r] = "failed" /\ kind[r] # "several")
  PROVE  Empty(r)
  <1>1. CASE pc[r] = "start"
    <2>1. cnt[r] = 0 /\ \A i \in Slot : arr[r][i] # NoDev <=> i < cnt[r]
      BY <1>1 DEF SafetyInv, Shape, ShapeOf
    <2>2. \A i \in Slot : ~ (i < 0)
      BY SizeAssumption DEF Slot
    <2>. QED  BY <2>1, <2>2 DEF Empty
  <1>2. CASE pc[r] = "failed" /\ kind[r] # "several"
    BY <1>2 DEF KeptOf, Empty
  <1>. QED  BY <1>1, <1>2

\* The request that takes a step keeps its part of the invariant.
LEMMA DiskShapeStep ==
  ASSUME SetupInv, SwapShape, NEW r \in Req, KeptOf(r), "reset" \notin MayFail,
         DiskShapeOf(r), SetupStep(r)
  PROVE  DiskShapeOf(r)'
  <1>0. /\ SetupTypeOK /\ SafetyInv /\ TypeOK /\ StageGoal(r)
        /\ kind[r] \in {"single", "several"}
    BY DEF SetupInv, SafetyInv, SwapShape, SwapShapeOf, DiskShapeOf
  <1>1. CASE Claim(r)
    <2>1. stage'[r] = "claim"
      BY <1>1 DEF Claim, setupVars
    <2>2. kind'[r] \in {"single", "several"}
      <3>1. CASE Start(r)
        <4>1. kind'[r] \in Kinds
          BY <1>0, <3>1 DEF Start, TypeOK
        <4>2. kind'[r] # "varsize"
          BY <1>1 DEF Claim
        <4>. QED  BY <4>1, <4>2, NameAssumption
      <3>2. CASE Reclaim(r)
        BY <1>0, <3>2, ReclaimCases DEF Obtained, WriteDisksizeFails
      <3>3. CASE Rollback(r) \/ DoClaim(r) \/ DoReset(r) \/ CheckInitstate(r) \/ SetCompression(r)
        BY <1>0, <3>3 DEF Rollback, DoClaim, WriteDisksizeFails, DoReset, CheckInitstate,
                          SetCompression
      <3>. QED  BY <1>1, <3>1, <3>2, <3>3 DEF Claim, ClaimStep
    <2>. QED  BY <2>1, <2>2 DEF DiskShapeOf, WithoutDisk
  <1>2. CASE RefuseConfig(r)
    <2>1. stage'[r] = "done" /\ pc[r] = "start" /\ UNCHANGED vars
      BY <1>0, <1>2 DEF RefuseConfig, Return, Enter, SetupTypeOK
    <2>2. Empty(r)' /\ pc'[r] = "start" /\ kind'[r] = kind[r]
      BY <1>0, <2>1, NothingClaimed DEF Empty, vars
    <2>. QED  BY <1>0, <2>1, <2>2 DEF DiskShapeOf
  <1>3. CASE AfterClaim(r)
    <2>1. UNCHANGED <<arr, pc, kind>>
      BY <1>3 DEF AfterClaim, vars
    <2>2. CASE pc[r] = "claimed"
      <3>1. stage'[r] = "mkswap" \/ (stage'[r] = "mkfs" /\ kind[r] # "several")
        BY <1>0, <1>3, <2>2 DEF AfterClaim, Enter, SetupTypeOK, Goal
      <3>. QED  BY <1>0, <2>1, <2>2, <3>1 DEF DiskShapeOf, WithoutDisk
    <2>3. CASE pc[r] = "failed"
      <3>1. \/ stage'[r] = "done" /\ goal'[r] = "swap"
            \/ stage'[r] \in {"done", "tmpfs"} /\ kind[r] # "several"
        BY <1>0, <1>3, <2>3 DEF AfterClaim, Enter, Return, SetupTypeOK, Goal
      <3>2. kind[r] # "several" => Empty(r)'
        BY <1>0, <2>1, <2>3, NothingClaimed DEF Empty
      <3>. QED  BY <1>0, <2>1, <2>3, <3>1, <3>2 DEF DiskShapeOf, WithoutDisk
    <2>. QED  BY <1>3, <2>2, <2>3 DEF AfterClaim
  <1>4. CASE Mkswap(r) \/ Swapon(r) \/ Swapoff(r) \/ ReleaseSwaps(r)
    <2>1. /\ stage'[r] \in {"mkswap", "swapon", "swapoff", "release", "done"}
          /\ goal'[r] = "swap" /\ kind'[r] = kind[r]
      <3>1. k[r] < upto[r] => k[r] \in Slot
        BY <1>0, SizeAssumption DEF SetupTypeOK, Slot
      <3>2. CASE ReleaseSwaps(r)
        BY <1>0, <3>1, <3>2 DEF ReleaseSwaps, ReleaseIdle, Release, Return, Enter, SetupTypeOK,
                                StageGoal, vars
      <3>. QED  BY <1>0, <1>4, <3>2 DEF Mkswap, Swapon, Swapoff, Return, Enter, SetupTypeOK,
                                        StageGoal, vars
    <2>. QED  BY <1>0, <2>1 DEF DiskShapeOf, WithoutDisk
  <1>5. CASE Mkfs(r)
    <2>1. /\ pc[r] = "claimed" /\ kind[r] = "single" /\ UNCHANGED <<pc, kind, goal>>
          /\ \/ stage'[r] = "done" /\ goal[r] = "disk" /\ ret'[r] = 0
             \/ stage'[r] \in {"mount", "unmkfs"}
      BY <1>0, <1>5 DEF Mkfs, Return, Enter, SetupTypeOK, DiskShapeOf, vars
    <2>. QED  BY <2>1 DEF DiskShapeOf, WithoutDisk
  <1>6. CASE Mount(r)
    <2>1. /\ pc[r] = "claimed" /\ kind[r] = "single" /\ UNCHANGED <<pc, kind>>
          /\ \/ stage'[r] = "perm" /\ mp'[r] = "zram"
             \/ stage'[r] = "unmount"
      BY <1>0, <1>6 DEF Mount, Enter, SetupTypeOK, DiskShapeOf, vars
    <2>. QED  BY <2>1 DEF DiskShapeOf, WithoutDisk
  <1>7. CASE ReleaseUnformatted(r) \/ ReleaseUnmounted(r)
    <2>1. Release(r, 0) /\ kind[r] = "single" /\ stage'[r] \in {"done", "tmpfs"}
      BY <1>0, <1>7 DEF ReleaseUnformatted, ReleaseUnmounted, ReleaseIdle, Return, Enter,
                        SetupTypeOK, DiskShapeOf
    <2>2. Empty(r)' /\ pc'[r] = "claimed" /\ kind'[r] = kind[r]
      BY <1>0, <2>1, SingleReleased DEF Release
    <2>. QED  BY <2>1, <2>2 DEF DiskShapeOf
  <1>8. CASE SetPermissions(r)
    <2>1. stage'[r] = "done" /\ mp'[r] = "zram" /\ goal'[r] = "tmpfs" /\ kind'[r] = kind[r]
      BY <1>0, <1>8 DEF SetPermissions, Return, Enter, SetupTypeOK, StageGoal, DiskShapeOf, vars
    <2>. QED  BY <1>0, <2>1 DEF DiskShapeOf, WithoutDisk
  <1>9. CASE NormalTmpfs(r)
    <2>1. /\ stage[r] = "tmpfs" /\ stage'[r] = "done" /\ UNCHANGED <<pc, arr, kind>>
      BY <1>0, <1>9 DEF NormalTmpfs, Return, Enter, SetupTypeOK, vars
    <2>2. Empty(r)' /\ pc'[r] # "reset"
      BY <2>1 DEF DiskShapeOf, Empty
    <2>. QED  BY <1>0, <2>1, <2>2 DEF DiskShapeOf
  <1>. QED  BY <1>1, <1>2, <1>3, <1>4, <1>5, <1>6, <1>7, <1>8, <1>9 DEF SetupStep

\* Every step of the setups keeps the invariant, for all requests.
LEMMA NextDiskShape ==
  SetupInv /\ SwapShape /\ Kept /\ DiskShape /\ [SetupNext]_allVars => DiskShape'
  <1> SUFFICES ASSUME SetupInv, SwapShape, Kept, DiskShape, [SetupNext]_allVars,
                      "reset" \notin MayFail, NEW q \in Req
               PROVE  DiskShapeOf(q)'
    BY DEF DiskShape
  <1>0. DiskShapeOf(q) /\ KeptOf(q)
    BY DEF DiskShape, Kept
  <1>1. CASE UNCHANGED allVars
    BY <1>0, <1>1 DEF allVars, vars, setupVars, DiskShapeOf, WithoutDisk, Empty
  <1>2. ASSUME NEW r \in Req, SetupStep(r) PROVE DiskShapeOf(q)'
    <2>1. CASE q = r
      BY <1>0, <1>2, <2>1, DiskShapeStep
    <2>2. CASE q # r
      <3>1. /\ goal'[q] = goal[q] /\ stage'[q] = stage[q] /\ mp'[q] = mp[q]
            /\ ret'[q] = ret[q] /\ pc'[q] = pc[q] /\ arr'[q] = arr[q] /\ kind'[q] = kind[q]
        BY <1>2, <2>2, OtherSetups
      <3>. QED  BY <1>0, <3>1 DEF DiskShapeOf, WithoutDisk, Empty
    <2>. QED  BY <2>1, <2>2
  <1>. QED  BY <1>1, <1>2 DEF SetupNext

\* A disk that could not be set up, and a tmpfs that is not on zram, keep no
\* device initialised, for any number of setups.
THEOREM FailedDiskIsReleased == SetupSpec => []FailedDiskKeepsNoDevice
  <1>1. SetupInit => Kept /\ DiskShape
    BY InitKept DEF SetupInit, Init, DiskShape, DiskShapeOf, WithoutDisk
  <1>2. SetupInv /\ Kept /\ [SetupNext]_allVars => Kept'
    BY SetupNextIsNext, NextKept DEF SetupInv
  <1>3. Kept /\ DiskShape => FailedDiskKeepsNoDevice
    <2> SUFFICES ASSUME Kept, DiskShape, "reset" \notin MayFail, NEW r \in Req,
                        WithoutDisk(r), NEW d \in Device, owner[d] = r
                 PROVE  FALSE
      BY DEF FailedDiskKeepsNoDevice, WithoutDisk
    <2>1. KeptOf(r) /\ Empty(r) /\ pc[r] # "reset"
      BY DEF Kept, DiskShape, DiskShapeOf
    <2>2. d \in Holds(r)
      BY <2>1 DEF KeptOf
    <2>. QED  BY <2>1, <2>2 DEF Holds, Empty
  <1>. QED  BY <1>1, <1>2, <1>3, NextDiskShape, SetupInvariant, SwapShapeInvariant, PTL
            DEF SetupSpec
===============================================================================
