------------------------- MODULE MetricsRingProofs -------------------------
(***************************************************************************)
(* Proofs that, when reset() does not overlap record_request(), the ring   *)
(* of MetricsCollector is sound for any number of writers and any          *)
(* capacity.                                                               *)
(***************************************************************************)
EXTENDS MetricsRing, TLAPS

(* Cell maps an index into the ring (i & kRingMask). *)
LEMMA CellRange == \A i \in Nat : Cell(i) \in Cells
  BY RingAssumption DEF Cell, Cells

(* An index below the capacity is its own cell. *)
LEMMA CellSmall == \A i \in Nat : i < kRingCapacity => Cell(i) = i
  BY RingAssumption DEF Cell

(* Two different indices of a window of kRingCapacity have different cells. *)
LEMMA CellDistinct ==
  ASSUME NEW i \in Nat, NEW j \in Nat, i < j, j < i + kRingCapacity
  PROVE  Cell(i) # Cell(j)
<1> DEFINE C == kRingCapacity
<1>0. C \in Nat \ {0}
  BY RingAssumption
<1> DEFINE q == i \div C
<1> DEFINE r == j \div C
<1>1. q \in Int /\ i = C * q + (i % C)
  BY <1>0
<1>2. r \in Int /\ j = C * r + (j % C)
  BY <1>0
<1>3. SUFFICES ASSUME i % C = j % C PROVE FALSE
  BY DEF Cell
<1>4. j - i = C * (r - q)
  <2> HIDE DEF q, r
  <2> QED BY <1>0, <1>1, <1>2, <1>3
<1> HIDE DEF q, r, C
<1>a. C = kRingCapacity
  BY DEF C
<1>5. CASE r - q <= 0
  BY <1>0, <1>2, <1>1, <1>4, <1>5, <1>a
<1>6. CASE r - q >= 1
  BY <1>0, <1>1, <1>2, <1>4, <1>6, <1>a
<1> QED BY <1>1, <1>2, <1>5, <1>6

(* The initial ring satisfies the inductive invariant. *)
LEMMA RingInit == Init => RingInv
<1> SUFFICES ASSUME Init PROVE RingInv
  OBVIOUS
<1>1. TypeOK
  <2>1. <<>> \in Seq(Sample)
    OBVIOUS
  <2>2. scan \in ScanType
    BY <2>1 DEF Init, ScanType
  <2> QED BY <2>2, RingAssumption DEF Init, TypeOK, Cells, WriterPC, Sample
<1>2. NotYetPublished
  BY CellSmall, RingAssumption DEF Init, NotYetPublished, Cells
<1>3. OwnersInv /\ LocalsInv /\ ResetInv /\ WindowInv
  BY RingAssumption DEF Init, OwnersInv, LocalsInv, ResetInv, WindowInv, LiveFrom, Owns
<1> QED BY <1>1, <1>2, <1>3 DEF RingInv

(* Two different indices between head_ and tail_ never share a cell. *)
LEMMA WindowCells ==
  ASSUME TypeOK, WindowInv
  PROVE  \A i, j \in head .. tail - 1 : i # j => Cell(i) # Cell(j)
<1> SUFFICES ASSUME NEW i \in head .. tail - 1, NEW j \in head .. tail - 1, i # j
             PROVE  Cell(i) # Cell(j)
  OBVIOUS
<1>1. i \in Nat /\ j \in Nat
  BY DEF TypeOK
<1>2. i < j + kRingCapacity /\ j < i + kRingCapacity
  BY RingAssumption, <1>1 DEF TypeOK, WindowInv
<1> QED BY <1>1, <1>2, CellDistinct

(* The part of the type invariant the arithmetic needs. *)
LEMMA RingTypes ==
  ASSUME TypeOK
  PROVE  /\ head \in Nat /\ tail \in Nat
         /\ seq \in [Cells -> Nat]
         /\ value \in [Cells -> Sample]
         /\ pc \in [Writers -> WriterPC]
         /\ t \in [Writers -> Nat]
         /\ h \in [Writers -> Nat]
         /\ calls \in Nat
  BY DEF TypeOK

(* Every step of a push preserves the inductive invariant. *)
LEMMA PushPreserves ==
  ASSUME RingInv, NEW w \in Writers, BeginPush(w) \/ PushStep(w),
         pc[w] = "idle" => rst.pc = "idle"
  PROVE  RingInv'
<1> USE RingAssumption, CellRange DEF ringVars, RingInv
<1>0. /\ head \in Nat /\ tail \in Nat
      /\ seq \in [Cells -> Nat]
      /\ value \in [Cells -> Sample]
      /\ pc \in [Writers -> WriterPC]
      /\ t \in [Writers -> Nat]
      /\ h \in [Writers -> Nat]
      /\ calls \in Nat
  BY RingTypes
<1> USE <1>0
<1>1. CASE BeginPush(w)
  <2>1. calls' \in Nat
    BY <1>1 DEF BeginPush
  <2>2. TypeOK'
    BY <1>1, <2>1, Zenon DEF BeginPush, TypeOK, WriterPC
  <2>3. OwnersInv' /\ LocalsInv'
    BY <1>1 DEF BeginPush, OwnersInv, LocalsInv, Owns
  <2>4. NotYetPublished' /\ ResetInv'
    BY <1>1 DEF BeginPush, NotYetPublished, ResetInv
  <2>5. WindowInv'
    BY <1>1 DEF BeginPush, WindowInv, LiveFrom, Owns
  <2> QED BY <2>2, <2>3, <2>4, <2>5
<1>2. CASE LoadHead(w)
  <2>1. TypeOK'
    BY <1>2 DEF LoadHead, TypeOK, WriterPC
  <2>2. LocalsInv'
    BY <1>2 DEF LoadHead, LocalsInv, LooksFull
  <2>3. NotYetPublished' /\ OwnersInv' /\ ResetInv'
    BY <1>2 DEF LoadHead, NotYetPublished, OwnersInv, Owns, ResetInv
  <2>4. WindowInv'
    BY <1>2 DEF LoadHead, WindowInv, LiveFrom, Owns
  <2> QED BY <2>1, <2>2, <2>3, <2>4
<1>3. CASE CheckOldest(w)
  <2>1. TypeOK'
    BY <1>3 DEF CheckOldest, TypeOK, WriterPC
  <2>2. LocalsInv'
    BY <1>3 DEF CheckOldest, LocalsInv
  <2>3. NotYetPublished' /\ OwnersInv' /\ ResetInv'
    BY <1>3 DEF CheckOldest, NotYetPublished, OwnersInv, Owns, ResetInv
  <2>4. WindowInv'
    BY <1>3 DEF CheckOldest, WindowInv, LiveFrom, Owns
  <2> QED BY <2>1, <2>2, <2>3, <2>4
<1>4. CASE EvictOldest(w)
  <2>1. head' = head + 1 /\ head' \in Nat /\ rst.pc = "idle"
    BY <1>4 DEF EvictOldest, ResetInv
  <2>2. TypeOK'
    BY <1>4, <2>1, Zenon DEF EvictOldest, TypeOK, WriterPC
  <2>3. seq[Cell(head)] = head + 1
    BY <1>4 DEF EvictOldest, LocalsInv
  <2>4. head < tail
    BY <2>3 DEF NotYetPublished
  <2>5. \A v \in Writers : Owns(v) => t[v] # head
    BY <2>3 DEF OwnersInv
  <2>6. OwnersInv'
    BY <1>4, <2>1, <2>5 DEF EvictOldest, OwnersInv, Owns
  <2>7. LocalsInv'
    BY <1>4, <2>1 DEF EvictOldest, LocalsInv
  <2>8. NotYetPublished' /\ ResetInv'
    BY <1>4, <2>1 DEF EvictOldest, NotYetPublished, ResetInv
  <2>9. WindowInv'
    BY <1>4, <2>1, <2>4 DEF EvictOldest, WindowInv, LiveFrom, Owns
  <2> QED BY <2>2, <2>6, <2>7, <2>8, <2>9
<1>5. CASE EvictFails(w)
  <2>1. TypeOK'
    BY <1>5 DEF EvictFails, TypeOK, WriterPC
  <2>2. OwnersInv' /\ LocalsInv'
    BY <1>5 DEF EvictFails, OwnersInv, LocalsInv, Owns
  <2>3. NotYetPublished' /\ ResetInv'
    BY <1>5 DEF EvictFails, NotYetPublished, ResetInv
  <2>4. WindowInv'
    BY <1>5 DEF EvictFails, WindowInv, LiveFrom, Owns
  <2> QED BY <2>1, <2>2, <2>3, <2>4
<1>6. CASE ReloadTail(w)
  <2>1. TypeOK'
    BY <1>6 DEF ReloadTail, TypeOK, WriterPC
  <2>2. OwnersInv' /\ LocalsInv'
    BY <1>6 DEF ReloadTail, OwnersInv, LocalsInv, Owns
  <2>3. NotYetPublished' /\ ResetInv'
    BY <1>6 DEF ReloadTail, NotYetPublished, ResetInv
  <2>4. WindowInv'
    BY <1>6 DEF ReloadTail, WindowInv, LiveFrom, Owns
  <2> QED BY <2>1, <2>2, <2>3, <2>4
<1>7. CASE Reserve(w)
  <2>1. t[w] = tail /\ tail' = tail + 1 /\ tail' \in Nat /\ rst.pc = "idle"
    BY <1>7 DEF Reserve, ResetInv
  <2>2. TypeOK'
    BY <1>7, <2>1, Zenon DEF Reserve, TypeOK, WriterPC
  <2>3. tail < head + kRingCapacity
    BY <1>7, <2>1 DEF Reserve, LocalsInv
  <2>4. seq[Cell(tail)] # tail + 1
    BY DEF NotYetPublished
  <2>5. OwnersInv'
    <3>1. \A v \in Writers : t'[v] = t[v]
      BY <1>7 DEF Reserve
    <3>2. \A v \in Writers : Owns(v)' <=> Owns(v) \/ v = w
      BY <1>7 DEF Reserve, Owns
    <3>3. \A v \in Writers : Owns(v) => t[v] < tail
      BY DEF OwnersInv
    <3>4. \A v \in Writers : Owns(v)' =>
             head' <= t'[v] /\ t'[v] < tail' /\ seq'[Cell(t'[v])] # t'[v] + 1
      BY <1>7, <2>1, <2>4, <3>1, <3>2 DEF Reserve, OwnersInv, WindowInv
    <3>5. \A u, v \in Writers : u # v /\ Owns(u)' /\ Owns(v)' => t'[u] # t'[v]
      BY <2>1, <3>1, <3>2, <3>3 DEF OwnersInv
    <3>6. \A v \in Writers : pc'[v] = "publish" => value'[Cell(t'[v])] = t'[v]
      BY <1>7 DEF Reserve, OwnersInv
    <3> QED BY <3>4, <3>5, <3>6 DEF OwnersInv
  <2>6. LocalsInv'
    BY <1>7 DEF Reserve, LocalsInv
  <2>7. NotYetPublished' /\ ResetInv'
    BY <1>7, <2>1 DEF Reserve, NotYetPublished, ResetInv
  <2>8. WindowInv'
    <3>1. head' <= tail' /\ tail' <= head' + kRingCapacity
      BY <1>7, <2>1, <2>3 DEF Reserve, WindowInv
    <3>2. ASSUME NEW i \in head .. tail
          PROVE  \/ \E v \in Writers : Owns(v)' /\ t'[v] = i
                 \/ seq'[Cell(i)] = i + 1 /\ value'[Cell(i)] = i
      <4>1. CASE i = tail
        BY <1>7, <2>1, <4>1 DEF Reserve, Owns
      <4>2. CASE i # tail
        <5>1. i \in LiveFrom .. tail - 1
          BY <2>1, <4>2 DEF LiveFrom
        <5> QED BY <1>7, <5>1 DEF Reserve, WindowInv, Owns
      <4> QED BY <4>1, <4>2
    <3>3. LiveFrom' = head /\ tail' - 1 = tail
      BY <1>7, <2>1 DEF Reserve, LiveFrom
    <3> QED BY <3>1, <3>2, <3>3 DEF WindowInv
  <2> QED BY <2>2, <2>5, <2>6, <2>7, <2>8
<1>8. CASE ReserveFails(w)
  <2>1. TypeOK'
    BY <1>8 DEF ReserveFails, TypeOK, WriterPC
  <2>2. OwnersInv' /\ LocalsInv'
    BY <1>8 DEF ReserveFails, OwnersInv, LocalsInv, Owns
  <2>3. NotYetPublished' /\ ResetInv'
    BY <1>8 DEF ReserveFails, NotYetPublished, ResetInv
  <2>4. WindowInv'
    BY <1>8 DEF ReserveFails, WindowInv, LiveFrom, Owns
  <2> QED BY <2>1, <2>2, <2>3, <2>4
<1>9. CASE WriteValue(w)
  <2>1. TypeOK'
    <3>1. value' \in [Cells -> Sample]
      BY <1>9 DEF WriteValue, Sample
    <3>2. pc' \in [Writers -> WriterPC]
      BY <1>9 DEF WriteValue, WriterPC
    <3>3. UNCHANGED <<head, tail, seq, t, h, calls, mtx, scan, rst>>
      BY <1>9 DEF WriteValue
    <3> QED BY <3>1, <3>2, <3>3, Zenon DEF TypeOK
  <2>2. rst.pc = "idle" /\ Owns(w) /\ t[w] \in head .. tail - 1
    BY <1>9 DEF WriteValue, OwnersInv, Owns, ResetInv
  <2>3. \A v \in Writers : t'[v] = t[v] /\ (Owns(v)' <=> Owns(v))
    BY <1>9 DEF WriteValue, Owns
  <2>4. \A i \in head .. tail - 1 : i # t[w] => value'[Cell(i)] = value[Cell(i)]
    BY <1>9, <2>2, WindowCells DEF WriteValue
  <2>5. value'[Cell(t[w])] = t[w]
    BY <1>9 DEF WriteValue
  <2>6. OwnersInv'
    <3>1. \A v \in Writers : pc'[v] = "publish" => value'[Cell(t'[v])] = t'[v]
      <4> SUFFICES ASSUME NEW v \in Writers, pc'[v] = "publish", v # w
                   PROVE  value'[Cell(t[v])] = t[v]
        BY <2>3, <2>5
      <4>1. pc[v] = "publish"
        BY <1>9 DEF WriteValue
      <4>2. t[v] \in head .. tail - 1 /\ t[v] # t[w]
        BY <2>2, <4>1 DEF OwnersInv, Owns
      <4> QED BY <2>4, <4>1, <4>2 DEF OwnersInv
    <3> QED BY <1>9, <2>3, <3>1 DEF WriteValue, OwnersInv
  <2>7. NotYetPublished' /\ LocalsInv' /\ ResetInv'
    BY <1>9 DEF WriteValue, NotYetPublished, LocalsInv, ResetInv
  <2>8. WindowInv'
    <3>1. LiveFrom' = head /\ LiveFrom = head /\ head' = head /\ tail' = tail /\ seq' = seq
      BY <1>9, <2>2 DEF WriteValue, LiveFrom
    <3> QED BY <2>2, <2>3, <2>4, <3>1 DEF WindowInv
  <2> QED BY <2>1, <2>6, <2>7, <2>8
<1>10. CASE Publish(w)
  <2>1. rst.pc = "idle" /\ Owns(w) /\ t[w] \in head .. tail - 1 /\ t[w] \in Nat
    BY <1>10 DEF Publish, OwnersInv, Owns, ResetInv
  <2>2. TypeOK'
    <3>1. t[w] + 1 \in Nat
      BY <2>1
    <3>2. seq' \in [Cells -> Nat]
      BY <1>10, <2>1, <3>1 DEF Publish
    <3>3. pc' \in [Writers -> WriterPC]
      BY <1>10 DEF Publish, WriterPC
    <3>4. UNCHANGED <<head, tail, value, t, h, calls, mtx, scan, rst>>
      BY <1>10 DEF Publish
    <3> QED BY <3>2, <3>3, <3>4, Zenon DEF TypeOK
  <2>3. \A v \in Writers : t'[v] = t[v] /\ (Owns(v)' <=> Owns(v) /\ v # w)
    BY <1>10 DEF Publish, Owns
  <2>4. /\ seq'[Cell(t[w])] = t[w] + 1
        /\ \A c \in Cells : c # Cell(t[w]) => seq'[c] = seq[c]
    BY <1>10, <2>1 DEF Publish
  <2>5. \A i \in head .. tail - 1 : i # t[w] => seq'[Cell(i)] = seq[Cell(i)]
    BY <2>1, <2>4, WindowCells
  <2>6. NotYetPublished'
    BY <1>10, <2>1, <2>4 DEF Publish, NotYetPublished
  <2>7. OwnersInv'
    <3>1. \A v \in Writers : Owns(v)' =>
            t[v] \in head .. tail - 1 /\ t[v] # t[w] /\ seq[Cell(t[v])] # t[v] + 1
      BY <2>1, <2>3 DEF OwnersInv
    <3>2. \A v \in Writers : Owns(v)' =>
            head' <= t'[v] /\ t'[v] < tail' /\ seq'[Cell(t'[v])] # t'[v] + 1
      BY <1>10, <2>3, <2>5, <3>1 DEF Publish
    <3>3. \A u, v \in Writers : u # v /\ Owns(u)' /\ Owns(v)' => t'[u] # t'[v]
      BY <2>3 DEF OwnersInv
    <3>4. \A v \in Writers : pc'[v] = "publish" => value'[Cell(t'[v])] = t'[v]
      BY <1>10 DEF Publish, OwnersInv
    <3> QED BY <3>2, <3>3, <3>4 DEF OwnersInv
  <2>8. LocalsInv'
    <3>1. seq[Cell(head)] = head + 1 => seq'[Cell(head)] = head + 1
      BY <2>1, <2>4, <2>5
    <3> QED BY <1>10, <3>1 DEF Publish, LocalsInv
  <2>9. ResetInv'
    BY <1>10, <2>1 DEF Publish, ResetInv
  <2>10. WindowInv'
    <3>1. LiveFrom' = head /\ LiveFrom = head /\ head' = head /\ tail' = tail /\ value' = value
      BY <1>10, <2>1 DEF Publish, LiveFrom
    <3>2. value[Cell(t[w])] = t[w]
      BY <1>10 DEF Publish, OwnersInv
    <3>3. \A i \in head .. tail - 1 : i # t[w] =>
            \/ \E v \in Writers : Owns(v)' /\ t'[v] = i
            \/ seq'[Cell(i)] = i + 1 /\ value'[Cell(i)] = i
      BY <2>3, <2>5, <3>1 DEF WindowInv
    <3> QED BY <2>1, <2>4, <3>1, <3>2, <3>3 DEF WindowInv
  <2> QED BY <2>2, <2>6, <2>7, <2>8, <2>9, <2>10
<1> QED
  BY <1>1, <1>2, <1>3, <1>4, <1>5, <1>6, <1>7, <1>8, <1>9, <1>10 DEF PushStep

(* A scan changes neither the ring nor the writers. *)
LEMMA ScanPreserves ==
  ASSUME RingInv, Scan
  PROVE  RingInv'
<1> USE DEF ringVars, writerVars, RingInv
<1>1. UNCHANGED <<head, tail, seq, value, pc, t, h, calls, rst>>
  BY DEF Scan, ScanHead, ScanTail, ScanSeq, ScanValue
<1>2. NotYetPublished' /\ OwnersInv' /\ LocalsInv' /\ ResetInv' /\ WindowInv'
  BY <1>1 DEF NotYetPublished, OwnersInv, Owns, LocalsInv, ResetInv, WindowInv, LiveFrom
<1>3. mtx' \in {"free", "scan", "reset"}
  BY DEF Scan, ScanHead, ScanTail, ScanSeq, ScanValue, TypeOK
<1>4. scan' \in ScanType
  <2>0. /\ scan \in ScanType /\ head \in Nat /\ tail \in Nat
        /\ value \in [Cells -> Sample]
    BY DEF TypeOK
  <2>1. /\ scan.h \in Nat /\ scan.i \in Nat /\ scan.i + 1 \in Nat
        /\ scan.count + 1 \in Nat /\ scan.samples \in Seq(Sample)
    BY <2>0 DEF ScanType
  <2>2. <<>> \in Seq(Sample)
    OBVIOUS
  <2>3. ASSUME NEW s \in Seq(Sample) PROVE Return(s) \in ScanType
    <3>1. Len(s) \in Nat
      OBVIOUS
    <3> QED BY <2>0, <2>1, <3>1 DEF Return, ScanType
  <2>4. CASE ScanHead
    BY <2>0, <2>2, <2>4 DEF ScanHead, ScanType
  <2>5. CASE ScanTail
    <3>1. CASE tail > scan.h
      <4>1. WindowStart(scan.h, tail) \in Nat
        BY <2>0, <2>1, <3>1, RingAssumption DEF WindowStart
      <4> QED BY <2>0, <2>5, <3>1, <4>1 DEF ScanTail, ScanType
    <3>2. CASE ~(tail > scan.h)
      BY <2>2, <2>3, <2>5, <3>2 DEF ScanTail
    <3> QED BY <3>1, <3>2
  <2>6. CASE ScanSeq
    <3>1. [scan EXCEPT !.pc = "value"] \in ScanType
      BY <2>0 DEF ScanType
    <3> QED BY <2>1, <2>3, <2>6, <3>1 DEF ScanSeq
  <2>7. CASE ScanValue
    <3> DEFINE s == Append(scan.samples, value[Cell(scan.i)])
    <3>1. s \in Seq(Sample)
      BY <2>0, <2>1, CellRange
    <3>2. [scan EXCEPT !.pc = "seq", !.i = @ + 1, !.samples = s] \in ScanType
      <4> HIDE DEF s
      <4> QED BY <2>0, <2>1, <3>1 DEF ScanType
    <3> QED BY <2>3, <2>7, <3>1, <3>2 DEF ScanValue
  <2> QED BY <2>4, <2>5, <2>6, <2>7 DEF Scan
<1>5. TypeOK'
  BY <1>1, <1>3, <1>4, Zenon DEF TypeOK
<1> QED BY <1>2, <1>5

(* reset() preserves the inductive invariant when no push is in progress. *)
LEMMA ResetPreserves ==
  ASSUME RingInv, ResetHead \/ ResetStep, \A w \in Writers : pc[w] = "idle"
  PROVE  RingInv'
<1> USE RingAssumption, CellRange DEF ringVars, writerVars, RingInv
<1>0. /\ head \in Nat /\ tail \in Nat /\ seq \in [Cells -> Nat]
      /\ rst \in [pc : {"idle", "tail", "slots"}, i : Nat, t : Nat, count : Nat]
  BY DEF TypeOK
<1>1. UNCHANGED <<tail, value, pc, t, h, calls, scan>>
  BY DEF ResetHead, ResetStep, ResetTail, ResetSlot, ResetDone
<1>2. OwnersInv' /\ LocalsInv'
  BY <1>1 DEF OwnersInv, LocalsInv, Owns
<1>3. CASE ResetHead
  <2>1. rst' \in [pc : {"idle", "tail", "slots"}, i : Nat, t : Nat, count : Nat]
    BY <1>0, <1>3 DEF ResetHead
  <2>2. TypeOK'
    BY <1>1, <1>3, <2>1 DEF ResetHead, TypeOK
  <2>3. NotYetPublished' /\ ResetInv' /\ WindowInv'
    BY <1>0, <1>1, <1>3
       DEF ResetHead, NotYetPublished, ResetInv, WindowInv, LiveFrom, Owns
  <2> QED BY <1>2, <2>2, <2>3
<1>4. CASE ResetTail
  <2>1. rst' \in [pc : {"idle", "tail", "slots"}, i : Nat, t : Nat, count : Nat]
    BY <1>0, <1>4 DEF ResetTail
  <2>2. TypeOK'
    BY <1>1, <1>4, <2>1 DEF ResetTail, TypeOK
  <2>3. NotYetPublished' /\ ResetInv' /\ WindowInv'
    BY <1>0, <1>1, <1>4
       DEF ResetTail, NotYetPublished, ResetInv, WindowInv, LiveFrom, Owns
  <2> QED BY <1>2, <2>2, <2>3
<1>5. CASE ResetSlot
  <2> DEFINE i == rst.i
  <2>1. /\ i \in Nat /\ i < tail /\ head <= i /\ rst.pc = "slots" /\ rst.t = tail
        /\ seq'[Cell(i)] = i + kRingCapacity
        /\ \A c \in Cells : c # Cell(i) => seq'[c] = seq[c]
        /\ seq' \in [Cells -> Nat]
    BY <1>0, <1>5 DEF ResetSlot, ResetInv
  <2>2. /\ rst' \in [pc : {"idle", "tail", "slots"}, i : Nat, t : Nat, count : Nat]
        /\ rst'.pc = "slots" /\ rst'.i = i + 1 /\ rst'.t = tail
    BY <1>0, <1>5, <2>1 DEF ResetSlot
  <2>3. TypeOK'
    BY <1>1, <1>5, <2>1, <2>2 DEF ResetSlot, TypeOK
  <2> HIDE DEF i
  <2>4. i + kRingCapacity <= tail \/ Cell(i + kRingCapacity - 1) # Cell(i)
    <3>1. CASE kRingCapacity = 1
      BY <1>0, <2>1, <3>1
    <3>2. CASE kRingCapacity > 1
      <4>1. i < i + kRingCapacity - 1 /\ i + kRingCapacity - 1 < i + kRingCapacity
        BY <2>1, <3>2
      <4>2. i + kRingCapacity - 1 \in Nat
        BY <2>1, <3>2
      <4> QED BY <2>1, <4>1, <4>2, CellDistinct
    <3> QED BY <3>1, <3>2
  <2>5. NotYetPublished'
    BY <1>0, <1>1, <2>1, <2>4 DEF NotYetPublished
  <2>6. ResetInv'
    BY <1>0, <1>1, <1>5, <2>1, <2>2 DEF ResetSlot, ResetInv
  <2>7. WindowInv'
    <3>1. \A j \in i + 1 .. tail - 1 : Cell(j) # Cell(i)
      BY <1>0, <2>1, WindowCells
    <3>2. \A j \in i + 1 .. tail - 1 : seq'[Cell(j)] = seq[Cell(j)] /\ j \in LiveFrom .. tail - 1
      BY <1>0, <2>1, <3>1 DEF LiveFrom, i
    <3>3. LiveFrom' = i + 1 /\ head' = head
      BY <1>5, <2>2 DEF ResetSlot, LiveFrom
    <3> QED BY <1>1, <3>2, <3>3 DEF WindowInv, Owns
  <2> QED BY <1>2, <2>3, <2>5, <2>6, <2>7
<1>6. CASE ResetDone
  <2>1. head' = tail /\ rst.t = tail
    BY <1>0, <1>6 DEF ResetDone, ResetInv
  <2>2. rst' \in [pc : {"idle", "tail", "slots"}, i : Nat, t : Nat, count : Nat]
    <3>1. rst.count + 1 \in Nat
      BY <1>0
    <3> QED BY <1>0, <1>6, <3>1 DEF ResetDone
  <2>3. TypeOK'
    BY <1>0, <1>1, <1>6, <2>1, <2>2 DEF ResetDone, TypeOK
  <2>4. NotYetPublished' /\ ResetInv' /\ WindowInv'
    BY <1>0, <1>1, <1>6, <2>1
       DEF ResetDone, NotYetPublished, ResetInv, WindowInv, LiveFrom, Owns
  <2>5. OwnersInv' /\ LocalsInv'
    BY <1>1 DEF OwnersInv, LocalsInv, Owns
  <2> QED BY <2>3, <2>4, <2>5
<1> QED BY <1>3, <1>4, <1>5, <1>6 DEF ResetStep

(* The inductive invariant holds in every state of SerialSpec. *)
THEOREM RingInvariant == SerialSpec => []RingInv
<1>1. RingInv /\ [SerialNext]_vars => RingInv'
  <2> SUFFICES ASSUME RingInv, [SerialNext]_vars PROVE RingInv'
    OBVIOUS
  <2>1. ASSUME NEW w \in Writers, (rst.pc = "idle" /\ BeginPush(w)) \/ PushStep(w)
        PROVE  RingInv'
    <3>1. pc[w] = "idle" => rst.pc = "idle"
      BY <2>1 DEF PushStep, LoadHead, CheckOldest, EvictOldest, EvictFails, ReloadTail,
                  Reserve, ReserveFails, WriteValue, Publish
    <3> QED BY <2>1, <3>1, PushPreserves
  <2>2. CASE Scan
    BY <2>2, ScanPreserves
  <2>3. CASE (\A w \in Writers : pc[w] = "idle") /\ ResetHead
    BY <2>3, ResetPreserves
  <2>4. CASE ResetStep
    <3>1. \A w \in Writers : pc[w] = "idle"
      BY <2>4 DEF ResetStep, ResetTail, ResetSlot, ResetDone, RingInv, ResetInv
    <3> QED BY <2>4, <3>1, ResetPreserves
  <2>5. CASE UNCHANGED vars
    BY <2>5 DEF vars, RingInv, TypeOK, NotYetPublished, OwnersInv, Owns, LocalsInv,
                ResetInv, WindowInv, LiveFrom
  <2> QED BY <2>1, <2>2, <2>3, <2>4, <2>5 DEF SerialNext
<1> QED BY RingInit, <1>1, PTL DEF SerialSpec

(* Every variable keeps its type. *)
THEOREM RingTyping == SerialSpec => []TypeOK
BY RingInvariant, PTL DEF RingInv

(* No two record_request() calls write one cell at once, for any number of *)
(* writers and any capacity.                                               *)
THEOREM SlotExclusion == SerialSpec => []SlotExclusive
<1>1. RingInv => SlotExclusive
  <2> SUFFICES ASSUME RingInv, NEW v \in Writers, NEW w \in Writers,
                      v # w, Owns(v), Owns(w)
               PROVE  Cell(t[v]) # Cell(t[w])
    BY DEF SlotExclusive
  <2>1. /\ t[v] \in head .. tail - 1 /\ t[w] \in head .. tail - 1 /\ t[v] # t[w]
    BY DEF RingInv, OwnersInv, TypeOK
  <2> QED BY <2>1, WindowCells DEF RingInv
<1> QED BY <1>1, RingInvariant, PTL

(* No buffered sample between head_ and tail_ is lost or unreadable. *)
THEOREM WindowPreserved == SerialSpec => []WindowIntact
<1>1. RingInv => WindowIntact
  BY DEF RingInv, WindowInv, WindowIntact, LiveFrom
<1> QED BY <1>1, RingInvariant, PTL

(* Eviction only ever takes the oldest sample, after it was published. *)
THEOREM EvictionSafe == SerialSpec => EvictPublished
<1> DEFINE A == head' # head /\ rst.pc = "idle" =>
                  head' = head + 1 /\ seq[Cell(head)] = head + 1 /\ value[Cell(head)] = head
<1>1. RingInv /\ [SerialNext]_vars => [A]_vars
  <2> SUFFICES ASSUME RingInv, SerialNext, head' # head, rst.pc = "idle"
               PROVE  head' = head + 1 /\ seq[Cell(head)] = head + 1 /\ value[Cell(head)] = head
    BY DEF vars
  <2>1. PICK w \in Writers : EvictOldest(w)
    BY DEF SerialNext, PushStep, BeginPush, LoadHead, CheckOldest, EvictFails, ReloadTail,
           Reserve, ReserveFails, WriteValue, Publish, Scan, ScanHead, ScanTail, ScanSeq,
           ScanValue, ResetHead, ResetStep, ResetTail, ResetSlot, ResetDone, ringVars
  <2>2. head' = head + 1 /\ seq[Cell(head)] = head + 1
    BY <2>1 DEF EvictOldest, RingInv, LocalsInv
  <2>3. head \in Nat /\ tail \in Nat /\ seq[Cell(head)] <= tail
    BY <2>2, RingAssumption, CellRange DEF RingInv, NotYetPublished, TypeOK
  <2>4. head \in head .. tail - 1
    BY <2>2, <2>3
  <2>5. \A v \in Writers : Owns(v) => t[v] # head
    BY <2>2 DEF RingInv, OwnersInv
  <2> QED BY <2>2, <2>4, <2>5 DEF RingInv, WindowInv, LiveFrom
<1> QED BY <1>1, RingInvariant, PTL DEF SerialSpec, EvictPublished
=============================================================================
