---------------------------- MODULE CanRingProofs ----------------------------
(***************************************************************************)
(* Proofs about CanRing, for a ring of any size and any number of frames:  *)
(* the slot receive() reads is not written, and the ring implements the    *)
(* bounded queue of FrameFifo.                                             *)
(***************************************************************************)
EXTENDS CanRing, SequenceTheorems, TLAPS

-----------------------------------------------------------------------------
(* Indices.                                                                *)

LEMMA Remainder ==
    ASSUME NEW n \in Nat \ {0}, NEW x \in 0 .. 2 * n - 1
    PROVE  x % n = IF x < n THEN x ELSE x - n
OBVIOUS

\* The index after i, without the remainder.
LEMMA FollowingIndex ==
    ASSUME NEW i \in Slot
    PROVE  /\ Following(i) = IF i = Size - 1 THEN 0 ELSE i + 1
           /\ Following(i) \in Slot
<1>1. PICK x : x = i + 1
  OBVIOUS
<1>2. Size \in Nat \ {0} /\ x \in 0 .. 2 * Size - 1
  BY <1>1, RingConstants DEF Slot
<1>3. x % Size = IF x < Size THEN x ELSE x - Size
  BY <1>2, Remainder
<1>4. QED
  BY <1>1, <1>3, RingConstants DEF Following, Slot

-----------------------------------------------------------------------------
(* The call in progress.                                                   *)

\* What receive() knows of the indices and has copied, at each of its steps.
CallRule ==
    /\ call.at = "Out" => call = NoCall
    /\ call.at = "Test" => /\ call.tail = tail
                           /\ call.copied = {}
                           /\ ~call.stored
    /\ call.at = "Copy" => /\ call.stored => tail = Following(call.tail)
                           /\ ~call.stored => tail = call.tail /\ head # tail
                           /\ \A p \in call.copied : call.frame[p] = buf[call.tail]

RingInd == TypeOK /\ CallRule

\* No frame is stored into the slot receive() copies from.
LEMMA SlotKept ==
    ASSUME RingInd, OnRxIrq, call.at = "Copy"
    PROVE  buf'[call.tail] = buf[call.tail]
<1> USE DEF RingInd, TypeOK
<1>1. CASE Full(Following(head))
  BY <1>1 DEF OnRxIrq
<1>2. CASE ~Full(Following(head))
  <2>1. buf' = [buf EXCEPT ![head] = arrived + 1]
    BY <1>2 DEF OnRxIrq
  <2>2. call.tail \in Slot
    BY DEF Call
  <2>3. call.stored \in BOOLEAN
    BY DEF Call
  <2>4. head # call.tail
    BY <1>2, <2>3 DEF CallRule, Full
  <2>5. QED
    BY <2>1, <2>2, <2>4
<1>3. QED
  BY <1>1, <1>2

LEMMA InitRing == Init => RingInd
<1> SUFFICES ASSUME Init PROVE RingInd
  OBVIOUS
<1>1. 0 \in Slot /\ 0 \in Frame
  BY RingConstants DEF Slot, Frame
<1>2. NoCall \in Call
  BY <1>1 DEF NoCall, Call
<1>3. buf \in [Slot -> Frame]
  BY <1>1 DEF Init
<1>4. QED
  BY <1>1, <1>2, <1>3 DEF Init, RingInd, TypeOK, CallRule, NoCall

-----------------------------------------------------------------------------
(* The steps.                                                              *)

LEMMA IrqKeepsRing == ASSUME RingInd, OnRxIrq PROVE RingInd'
<1>1. arrived' \in Frame /\ arrived + 1 \in Frame
  BY RingConstants DEF RingInd, TypeOK, OnRxIrq, Frame
<1>2. head' \in Slot /\ head' \in {head, Following(head)}
  BY FollowingIndex DEF RingInd, TypeOK, OnRxIrq
<1>3. buf' \in [Slot -> Frame]
  BY <1>1 DEF RingInd, TypeOK, OnRxIrq
<1>4. TypeOK'
  BY <1>1, <1>2, <1>3 DEF RingInd, TypeOK, OnRxIrq
<1>5. call' = call /\ tail' = tail
  BY DEF OnRxIrq
<1>6. ASSUME call.at = "Copy", ~call.stored PROVE head' # tail'
  BY <1>5, <1>6 DEF RingInd, CallRule, OnRxIrq, Full
<1>7. ASSUME call.at = "Copy" PROVE buf'[call.tail] = buf[call.tail]
  BY <1>7, SlotKept
<1>8. CallRule'
  BY <1>5, <1>6, <1>7 DEF RingInd, CallRule
<1>9. QED
  BY <1>4, <1>8 DEF RingInd

LEMMA EnterKeepsRing == ASSUME RingInd, Enter PROVE RingInd'
<1>1. 0 \in Frame /\ 0 \in Slot
  BY RingConstants DEF Frame, Slot
<1>2. call' = [at |-> "Test", tail |-> tail, frame |-> [p \in Part |-> 0],
               copied |-> {}, stored |-> FALSE]
  BY DEF Enter, NoCall
<1>3. call' \in Call
  BY <1>1, <1>2 DEF RingInd, TypeOK, Call
<1>4. TypeOK'
  BY <1>3 DEF RingInd, TypeOK, Enter
<1>5. call'.at = "Test" /\ call'.tail = tail /\ call'.copied = {} /\ ~call'.stored
  BY <1>2
<1>6. CallRule'
  BY <1>5 DEF CallRule, Enter
<1>7. QED
  BY <1>4, <1>6 DEF RingInd

LEMMA TestKeepsRing == ASSUME RingInd, Test PROVE RingInd'
<1>1. call' = [call EXCEPT !.at = IF HasFrame THEN "Copy" ELSE "None"]
  BY DEF Test
<1>2. call' \in Call
  BY <1>1 DEF RingInd, TypeOK, Call
<1>3. call'.tail = tail /\ call'.copied = {} /\ ~call'.stored
  BY <1>1 DEF RingInd, TypeOK, CallRule, Call, Test
<1>4. call'.at = IF HasFrame THEN "Copy" ELSE "None"
  BY <1>1 DEF RingInd, TypeOK, Call
<1>5. call'.at = "Copy" => head # tail
  BY <1>4 DEF HasFrame, RingInd, CallRule, Test
<1>6. QED
  BY <1>2, <1>3, <1>4, <1>5 DEF RingInd, TypeOK, CallRule, Test

LEMMA CopyKeepsRing == ASSUME RingInd, NEW p \in Part, Copy(p) PROVE RingInd'
<1>1. call \in Call /\ buf[call.tail] \in Frame
  BY DEF RingInd, TypeOK, Call
<1>2. call' = [call EXCEPT !.copied = @ \cup {p}, !.frame[p] = buf[call.tail]]
  BY DEF Copy, CopiedFrom
<1>3. /\ call'.at = call.at /\ call'.tail = call.tail /\ call'.stored = call.stored
      /\ call'.copied = call.copied \cup {p}
      /\ call'.frame = [call.frame EXCEPT ![p] = buf[call.tail]]
  BY <1>1, <1>2 DEF Call
<1>4. call' \in Call
  BY <1>1, <1>2 DEF Call
<1>5. \A q \in call'.copied : call'.frame[q] = buf[call.tail]
  BY <1>1, <1>3 DEF RingInd, CallRule, Copy, Call
<1>6. QED
  BY <1>3, <1>4, <1>5 DEF RingInd, TypeOK, CallRule, Copy

LEMMA StoreKeepsRing == ASSUME RingInd, Store PROVE RingInd'
<1>1. call \in Call
  BY DEF RingInd, TypeOK
<1>2. call' = [call EXCEPT !.stored = TRUE] /\ tail' = Following(call.tail)
  BY DEF Store, StoredTail
<1>3. /\ call'.at = call.at /\ call'.tail = call.tail /\ call'.stored = TRUE
      /\ call'.copied = call.copied /\ call'.frame = call.frame
  BY <1>1, <1>2 DEF Call
<1>4. call' \in Call
  BY <1>1, <1>2 DEF Call
<1>5. tail' \in Slot
  BY <1>1, <1>2, FollowingIndex DEF Call
<1>6. QED
  BY <1>2, <1>3, <1>4, <1>5 DEF RingInd, TypeOK, CallRule, Store

LEMMA ReturnKeepsRing == ASSUME RingInd, Return PROVE RingInd'
<1>1. 0 \in Frame /\ 0 \in Slot
  BY RingConstants DEF Frame, Slot
<1>2. NoCall \in Call /\ NoCall.at = "Out"
  BY <1>1 DEF NoCall, Call
<1>3. QED
  BY <1>2 DEF RingInd, TypeOK, CallRule, Return

LEMMA StepKeepsRing == RingInd /\ [Next]_vars => RingInd'
<1> SUFFICES ASSUME RingInd, [Next]_vars PROVE RingInd'
  OBVIOUS
<1>1. CASE OnRxIrq
  BY <1>1, IrqKeepsRing
<1>2. CASE Enter
  BY <1>2, EnterKeepsRing
<1>3. CASE Test
  BY <1>3, TestKeepsRing
<1>4. CASE Store
  BY <1>4, StoreKeepsRing
<1>5. CASE Return
  BY <1>5, ReturnKeepsRing
<1>6. ASSUME NEW p \in Part, Copy(p) PROVE RingInd'
  BY <1>6, CopyKeepsRing
<1>7. CASE UNCHANGED vars
  BY <1>7 DEF vars, RingInd, TypeOK, CallRule
<1>8. QED
  BY <1>1, <1>2, <1>3, <1>4, <1>5, <1>6, <1>7 DEF Next, Receive

LEMMA RingIndInvariant == Spec => []RingInd
BY InitRing, StepKeepsRing, PTL DEF Spec

\* The indices stay within the ring, and the call within its steps.
THEOREM RingTypeCorrect == Spec => []TypeOK
<1>1. RingInd => TypeOK
  BY DEF RingInd
<1>2. QED
  BY <1>1, RingIndInvariant, PTL

\* What has been copied is what the slot holds, until receive() returns.
THEOREM CopyIntactCorrect == Spec => []CopyIntact
<1>1. RingInd => CopyIntact
  BY DEF RingInd, TypeOK, CallRule, CopyIntact, Full, Call
<1>2. QED
  BY <1>1, RingIndInvariant, PTL

-----------------------------------------------------------------------------
(* The queue in the ring.                                                  *)

\* How many frames wait between two indices, and where the i-th is.
Count(h, t) == (h + Size - t) % Size
Place(t, i) == (t + i - 1) % Size

QueueOf(b, h, t) == [i \in 1 .. Count(h, t) |-> b[Place(t, i)]]

LEMMA CountIs ==
    ASSUME NEW h \in Slot, NEW t \in Slot
    PROVE  /\ Count(h, t) = IF h >= t THEN h - t ELSE h + Size - t
           /\ Count(h, t) \in 0 .. Size - 1
<1>1. PICK x : x = h + Size - t
  OBVIOUS
<1>2. Size \in Nat \ {0} /\ x \in 0 .. 2 * Size - 1
  BY <1>1, RingConstants DEF Slot
<1>3. x % Size = IF x < Size THEN x ELSE x - Size
  BY <1>2, Remainder
<1>4. QED
  BY <1>1, <1>3, RingConstants DEF Count, Slot

LEMMA PlaceIs ==
    ASSUME NEW t \in Slot, NEW i \in 1 .. Size
    PROVE  /\ Place(t, i) = IF t + i - 1 < Size THEN t + i - 1 ELSE t + i - 1 - Size
           /\ Place(t, i) \in Slot
<1>1. PICK x : x = t + i - 1
  OBVIOUS
<1>2. Size \in Nat \ {0} /\ x \in 0 .. 2 * Size - 1
  BY <1>1, RingConstants DEF Slot
<1>3. x % Size = IF x < Size THEN x ELSE x - Size
  BY <1>2, Remainder
<1>4. QED
  BY <1>1, <1>3, RingConstants DEF Place, Slot

\* A frame stored at the head is the last one, and hides no other.
LEMMA HeadPlace ==
    ASSUME NEW h \in Slot, NEW t \in Slot, Following(h) # t
    PROVE  /\ Count(h, t) < Size - 1
           /\ Count(Following(h), t) = Count(h, t) + 1
           /\ Place(t, Count(h, t) + 1) = h
           /\ \A i \in 1 .. Count(h, t) : Place(t, i) \in Slot /\ Place(t, i) # h
<1>1. /\ Following(h) \in Slot
      /\ Following(h) = IF h = Size - 1 THEN 0 ELSE h + 1
  BY FollowingIndex
<1>2. /\ Count(h, t) = IF h >= t THEN h - t ELSE h + Size - t
      /\ Count(h, t) \in 0 .. Size - 1
  BY CountIs
<1>3. Count(h, t) < Size - 1
  BY <1>1, <1>2, RingConstants DEF Slot
<1>4. Count(Following(h), t) = IF Following(h) >= t THEN Following(h) - t
                               ELSE Following(h) + Size - t
  BY <1>1, CountIs
<1>5. Count(Following(h), t) = Count(h, t) + 1
  BY <1>1, <1>2, <1>4, RingConstants DEF Slot
<1>6. ASSUME NEW i \in 1 .. Count(h, t) + 1
      PROVE  /\ Place(t, i) = IF t + i - 1 < Size THEN t + i - 1 ELSE t + i - 1 - Size
             /\ Place(t, i) \in Slot
  <2>1. i \in 1 .. Size
    BY <1>2, RingConstants DEF Slot
  <2>2. QED
    BY <2>1, PlaceIs
<1>7. Place(t, Count(h, t) + 1) = h
  <2>1. PICK c \in 0 .. Size - 1 : c = Count(h, t)
    BY <1>2
  <2>2. PICK i : i = c + 1
    OBVIOUS
  <2>3. i \in 1 .. Count(h, t) + 1
    BY <2>1, <2>2, RingConstants DEF Slot
  <2>4. Place(t, i) = IF t + i - 1 < Size THEN t + i - 1 ELSE t + i - 1 - Size
    BY <1>6, <2>3
  <2>5. c = IF h >= t THEN h - t ELSE h + Size - t
    BY <1>2, <2>1
  <2>6. Place(t, i) = h
    BY <2>2, <2>4, <2>5, RingConstants DEF Slot
  <2>7. QED
    BY <2>1, <2>2, <2>6
<1>8. ASSUME NEW i \in 1 .. Count(h, t) PROVE Place(t, i) \in Slot /\ Place(t, i) # h
  <2>1. i \in 1 .. Count(h, t) + 1
    BY <1>2, RingConstants DEF Slot
  <2>2. /\ Place(t, i) = IF t + i - 1 < Size THEN t + i - 1 ELSE t + i - 1 - Size
        /\ Place(t, i) \in Slot
    BY <1>6, <2>1
  <2>3. PICK c \in 0 .. Size - 1 : c = Count(h, t)
    BY <1>2
  <2>4. i \in 1 .. c /\ c = IF h >= t THEN h - t ELSE h + Size - t
    BY <1>2, <2>3
  <2>5. Place(t, i) # h
    BY <2>2, <2>4, RingConstants DEF Slot
  <2>6. QED
    BY <2>2, <2>5
<1>9. QED
  BY <1>3, <1>5, <1>7, <1>8

\* A ring without a free slot but one holds Size - 1 frames.
LEMMA FullCount ==
    ASSUME NEW h \in Slot, NEW t \in Slot, Following(h) = t
    PROVE  Count(h, t) = Size - 1
<1>1. t = IF h = Size - 1 THEN 0 ELSE h + 1
  BY FollowingIndex
<1>2. Count(h, t) = IF h >= t THEN h - t ELSE h + Size - t
  BY CountIs
<1>3. QED
  BY <1>1, <1>2, RingConstants DEF Slot

\* Behind the tail everything moves up by one place.
LEMMA TailPlace ==
    ASSUME NEW h \in Slot, NEW t \in Slot, h # t
    PROVE  /\ Count(h, t) \in 1 .. Size - 1
           /\ Count(h, Following(t)) = Count(h, t) - 1
           /\ Place(t, 1) = t
           /\ \A i \in 1 .. Count(h, t) - 1 : Place(Following(t), i) = Place(t, i + 1)
<1>1. /\ Following(t) \in Slot
      /\ Following(t) = IF t = Size - 1 THEN 0 ELSE t + 1
  BY FollowingIndex
<1>2. /\ Count(h, t) = IF h >= t THEN h - t ELSE h + Size - t
      /\ Count(h, t) \in 0 .. Size - 1
  BY CountIs
<1>3. Count(h, Following(t)) = IF h >= Following(t) THEN h - Following(t)
                               ELSE h + Size - Following(t)
  BY <1>1, CountIs
<1>4. Count(h, t) \in 1 .. Size - 1 /\ Count(h, Following(t)) = Count(h, t) - 1
  BY <1>1, <1>2, <1>3, RingConstants DEF Slot
<1>5. 1 \in 1 .. Size /\ Place(t, 1) = t
  BY PlaceIs, RingConstants DEF Slot
<1>6. ASSUME NEW i \in 1 .. Count(h, t) - 1
      PROVE  Place(Following(t), i) = Place(t, i + 1)
  <2>1. PICK j : j = i + 1
    OBVIOUS
  <2>2. i \in 1 .. Size /\ j \in 1 .. Size
    BY <1>4, <2>1, RingConstants DEF Slot
  <2>3. Place(t, j) = IF t + j - 1 < Size THEN t + j - 1 ELSE t + j - 1 - Size
    BY <2>2, PlaceIs
  <2>4. Place(Following(t), i) = IF Following(t) + i - 1 < Size THEN Following(t) + i - 1
                                 ELSE Following(t) + i - 1 - Size
    BY <1>1, <2>2, PlaceIs
  <2>5. QED
    BY <1>1, <2>1, <2>2, <2>3, <2>4, RingConstants DEF Slot
<1>7. QED
  BY <1>4, <1>5, <1>6

LEMMA QueueSeq ==
    ASSUME NEW b \in [Slot -> Frame], NEW h \in Slot, NEW t \in Slot
    PROVE  /\ QueueOf(b, h, t) \in Seq(Frame)
           /\ Len(QueueOf(b, h, t)) = Count(h, t)
           /\ \A i \in 1 .. Count(h, t) : QueueOf(b, h, t)[i] = b[Place(t, i)]
<1>1. PICK n \in 0 .. Size - 1 : n = Count(h, t)
  BY CountIs
<1>2. n \in Nat /\ \A i \in 1 .. n : i \in 1 .. Size
  BY RingConstants
<1>3. \A i \in 1 .. n : b[Place(t, i)] \in Frame
  BY <1>2, PlaceIs
<1>4. QueueOf(b, h, t) = [i \in 1 .. n |-> b[Place(t, i)]]
  BY <1>1 DEF QueueOf
<1>5. QueueOf(b, h, t) \in [1 .. n -> Frame]
  BY <1>3, <1>4
<1>6. QueueOf(b, h, t) \in Seq(Frame)
  <2>1. QueueOf(b, h, t) \in UNION {[1 .. k -> Frame] : k \in Nat}
    BY <1>2, <1>5, Zenon
  <2>2. QED
    BY <2>1, SeqDef, Zenon
<1>7. DOMAIN QueueOf(b, h, t) = 1 .. n
  BY <1>4
<1>8. Len(QueueOf(b, h, t)) = n
  BY <1>2, <1>6, <1>7, LenProperties
<1>9. QED
  BY <1>1, <1>4, <1>6, <1>8

LEMMA QueueGrows ==
    ASSUME NEW b \in [Slot -> Frame], NEW h \in Slot, NEW t \in Slot, NEW f \in Frame,
           Following(h) # t
    PROVE  /\ QueueOf([b EXCEPT ![h] = f], Following(h), t) = Append(QueueOf(b, h, t), f)
           /\ Len(QueueOf(b, h, t)) < Size - 1
<1>1. PICK c : c = [b EXCEPT ![h] = f]
  OBVIOUS
<1>2. PICK q : q = QueueOf(b, h, t)
  OBVIOUS
<1>3. PICK r : r = QueueOf(c, Following(h), t)
  OBVIOUS
<1>4. PICK n : n = Count(h, t)
  OBVIOUS
<1>5. n \in Nat /\ n < Size - 1 /\ Count(Following(h), t) = n + 1
  BY <1>4, HeadPlace, CountIs
<1>6. c \in [Slot -> Frame] /\ Following(h) \in Slot
  BY <1>1, FollowingIndex
<1>7. q \in Seq(Frame) /\ Len(q) = n /\ \A i \in 1 .. n : q[i] = b[Place(t, i)]
  BY <1>2, <1>4, QueueSeq
<1>8. r \in Seq(Frame) /\ Len(r) = n + 1 /\ \A i \in 1 .. n + 1 : r[i] = c[Place(t, i)]
  <2>1. PICK g : g = Following(h)
    OBVIOUS
  <2>2. g \in Slot /\ Count(g, t) = n + 1 /\ r = QueueOf(c, g, t)
    BY <1>3, <1>5, <1>6, <2>1
  <2>3. /\ r \in Seq(Frame) /\ Len(r) = Count(g, t)
        /\ \A i \in 1 .. Count(g, t) : r[i] = c[Place(t, i)]
    BY <1>6, <2>2, QueueSeq
  <2>4. QED
    BY <2>2, <2>3
<1>9. \A i \in 1 .. n : Place(t, i) \in Slot /\ Place(t, i) # h
  BY <1>4, HeadPlace
<1>10. \A i \in 1 .. n : r[i] = q[i]
  <2> SUFFICES ASSUME NEW i \in 1 .. n PROVE r[i] = q[i]
    OBVIOUS
  <2>1. i \in 1 .. n + 1
    BY <1>5
  <2>2. c[Place(t, i)] = b[Place(t, i)]
    BY <1>1, <1>9
  <2>3. QED
    BY <1>7, <1>8, <2>1, <2>2
<1>11. r[n + 1] = f
  <2>1. n + 1 \in 1 .. n + 1 /\ Place(t, n + 1) = h
    BY <1>4, <1>5, HeadPlace
  <2>2. QED
    BY <1>1, <1>8, <2>1
<1>12. PICK a : a = Append(q, f)
  OBVIOUS
<1>13. /\ a \in Seq(Frame) /\ Len(a) = n + 1 /\ a[n + 1] = f
       /\ \A i \in 1 .. n : a[i] = q[i]
  BY <1>7, <1>12, AppendProperties
<1>14. \A i \in 1 .. Len(r) : r[i] = a[i]
  BY <1>5, <1>8, <1>10, <1>11, <1>13
<1>15. r = a
  BY <1>8, <1>13, <1>14, SeqEqual
<1>16. QED
  BY <1>1, <1>2, <1>3, <1>5, <1>7, <1>12, <1>15

LEMMA QueueShrinks ==
    ASSUME NEW b \in [Slot -> Frame], NEW h \in Slot, NEW t \in Slot, h # t
    PROVE  /\ QueueOf(b, h, t) # <<>>
           /\ Head(QueueOf(b, h, t)) = b[t]
           /\ QueueOf(b, h, Following(t)) = Tail(QueueOf(b, h, t))
<1>1. PICK q : q = QueueOf(b, h, t)
  OBVIOUS
<1>2. PICK r : r = QueueOf(b, h, Following(t))
  OBVIOUS
<1>3. PICK n : n = Count(h, t)
  OBVIOUS
<1>4. n \in Nat /\ n > 0 /\ Count(h, Following(t)) = n - 1 /\ Following(t) \in Slot
  BY <1>3, TailPlace, FollowingIndex
<1>5. q \in Seq(Frame) /\ Len(q) = n /\ \A i \in 1 .. n : q[i] = b[Place(t, i)]
  BY <1>1, <1>3, QueueSeq
<1>6. /\ r \in Seq(Frame) /\ Len(r) = n - 1
      /\ \A i \in 1 .. n - 1 : r[i] = b[Place(Following(t), i)]
  <2>1. PICK g : g = Following(t)
    OBVIOUS
  <2>2. g \in Slot /\ Count(h, g) = n - 1 /\ r = QueueOf(b, h, g)
    BY <1>2, <1>4, <2>1
  <2>3. /\ r \in Seq(Frame) /\ Len(r) = Count(h, g)
        /\ \A i \in 1 .. Count(h, g) : r[i] = b[Place(g, i)]
    BY <2>2, QueueSeq
  <2>4. QED
    BY <2>1, <2>2, <2>3
<1>7. q # <<>>
  BY <1>4, <1>5, EmptySeq
<1>8. Head(q) = b[t]
  <2>1. 1 \in 1 .. n /\ Place(t, 1) = t
    BY <1>3, <1>4, TailPlace
  <2>2. QED
    BY <1>5, <2>1
<1>9. PICK a : a = Tail(q)
  OBVIOUS
<1>10. a \in Seq(Frame) /\ Len(a) = n - 1 /\ \A i \in 1 .. n - 1 : a[i] = q[i + 1]
  BY <1>5, <1>7, <1>9, HeadTailProperties
<1>11. \A i \in 1 .. n - 1 : Place(Following(t), i) = Place(t, i + 1)
  BY <1>3, TailPlace
<1>12. \A i \in 1 .. n - 1 : r[i] = a[i]
  <2> SUFFICES ASSUME NEW i \in 1 .. n - 1 PROVE r[i] = a[i]
    OBVIOUS
  <2>1. i + 1 \in 1 .. n
    BY <1>4
  <2>2. QED
    BY <1>5, <1>6, <1>10, <1>11, <2>1
<1>13. r = a
  BY <1>6, <1>10, <1>12, SeqEqual
<1>14. QED
  BY <1>1, <1>2, <1>7, <1>8, <1>9, <1>13

LEMMA EmptyQueue ==
    ASSUME NEW b, NEW h \in Slot
    PROVE  QueueOf(b, h, h) = <<>>
<1>1. Count(h, h) = 0
  BY CountIs, RingConstants DEF Slot
<1>2. QED
  BY <1>1 DEF QueueOf

LEMMA QueueIs == Queue = QueueOf(buf, head, tail)
BY DEF Queue, Waiting, QueueOf, Count, Place

LEMMA QueueNextIs == Queue' = QueueOf(buf', head', tail')
BY DEF Queue, Waiting, QueueOf, Count, Place

-----------------------------------------------------------------------------
(* The ring implements the bounded queue.                                  *)

\* What the call in progress hands over is the frame in its slot.
LEMMA HandedIs ==
    ASSUME RingInd
    PROVE  Handed = IF call.at = "None" THEN Empty
                    ELSE IF call.at = "Copy" /\ call.stored THEN buf[call.tail]
                    ELSE Idle
<1>1. call.at = "Copy" => \A p \in Part : Seen(p) = buf[call.tail]
  BY DEF RingInd, CallRule, Seen
<1>2. call.stored \in BOOLEAN
  BY DEF RingInd, TypeOK, Call
<1>3. QED
  BY <1>1, <1>2 DEF Handed, Part

LEMMA HandedNextIs ==
    ASSUME RingInd'
    PROVE  Handed' = IF call'.at = "None" THEN Empty
                     ELSE IF call'.at = "Copy" /\ call'.stored THEN buf'[call'.tail]
                     ELSE Idle
<1>1. call'.at = "Copy" => \A p \in Part : Seen(p)' = buf'[call'.tail]
  BY DEF RingInd, CallRule, Seen
<1>2. call'.stored \in BOOLEAN
  BY DEF RingInd, TypeOK, Call
<1>3. QED
  BY <1>1, <1>2 DEF Handed, Part

\* A received frame is appended, or lost because Size - 1 others wait.
LEMMA IrqImplements == ASSUME RingInd, RingInd', OnRxIrq PROVE Fifo!Arrive
<1>1. /\ arrived < LastFrame /\ arrived' = arrived + 1
      /\ tail' = tail /\ call' = call
  BY DEF OnRxIrq
<1>2. buf \in [Slot -> Frame] /\ head \in Slot /\ tail \in Slot
  BY DEF RingInd, TypeOK
<1>3. Handed' = Handed
  <2>1. call.at = "Copy" => buf'[call.tail] = buf[call.tail]
    BY SlotKept
  <2>2. QED
    BY <1>1, <2>1, HandedIs, HandedNextIs
<1>4. PICK f : f = arrived + 1
  OBVIOUS
<1>5. f \in Frame
  BY <1>1, <1>4, RingConstants DEF RingInd, TypeOK, Frame
<1>6. CASE Full(Following(head))
  <2>1. UNCHANGED <<buf, head>> /\ Following(head) = tail
    BY <1>6 DEF OnRxIrq, Full
  <2>2. Queue' = Queue
    BY <1>1, <2>1, QueueIs, QueueNextIs
  <2>3. Len(Queue) = Size - 1
    BY <1>2, <2>1, FullCount, QueueSeq, QueueIs
  <2>4. ~(Len(Queue) < Size - 1)
    BY <2>3, RingConstants
  <2>5. QED
    BY <1>1, <1>3, <2>2, <2>4 DEF Fifo!Arrive
<1>7. CASE ~Full(Following(head))
  <2>1. /\ buf' = [buf EXCEPT ![head] = f] /\ head' = Following(head)
        /\ Following(head) # tail
    BY <1>4, <1>7 DEF OnRxIrq, Full
  <2>2. /\ QueueOf(buf', head', tail') = Append(QueueOf(buf, head, tail), f)
        /\ Len(QueueOf(buf, head, tail)) < Size - 1
    BY <1>1, <1>2, <1>5, <2>1, QueueGrows
  <2>3. Queue' = Append(Queue, f) /\ Len(Queue) < Size - 1
    BY <2>2, QueueIs, QueueNextIs
  <2>4. QED
    BY <1>1, <1>3, <1>4, <2>3 DEF Fifo!Arrive
<1>8. QED
  BY <1>6, <1>7

\* Until the tail is stored the queue and the hand are as they were.
LEMMA EnterImplements == ASSUME RingInd, RingInd', Enter PROVE UNCHANGED Fifo!fifoVars
<1>1. /\ UNCHANGED <<buf, head, tail, arrived>> /\ call.at = "Out"
      /\ call' = [NoCall EXCEPT !.at = "Test", !.tail = tail]
  BY DEF Enter
<1>2. call'.at = "Test"
  BY <1>1 DEF NoCall
<1>3. Handed = Idle /\ Handed' = Idle
  BY <1>1, <1>2, HandedIs, HandedNextIs
<1>4. Queue' = Queue
  BY <1>1, QueueIs, QueueNextIs
<1>5. QED
  BY <1>1, <1>3, <1>4 DEF Fifo!fifoVars

LEMMA CopyImplements ==
    ASSUME RingInd, RingInd', NEW p \in Part, Copy(p)
    PROVE  UNCHANGED Fifo!fifoVars
<1>1. /\ UNCHANGED <<buf, head, tail, arrived>>
      /\ call' = [call EXCEPT !.copied = @ \cup {p}, !.frame[p] = CopiedFrom]
  BY DEF Copy
<1>2. call'.at = call.at /\ call'.tail = call.tail /\ call'.stored = call.stored
  BY <1>1 DEF RingInd, TypeOK, Call
<1>3. Handed' = Handed
  BY <1>1, <1>2, HandedIs, HandedNextIs
<1>4. Queue' = Queue
  BY <1>1, QueueIs, QueueNextIs
<1>5. QED
  BY <1>1, <1>3, <1>4 DEF Fifo!fifoVars

\* receive() finds nothing only when nothing waits.
LEMMA TestImplements ==
    ASSUME RingInd, RingInd', Test
    PROVE  Fifo!FindNone \/ UNCHANGED Fifo!fifoVars
<1>1. /\ UNCHANGED <<buf, head, tail, arrived>> /\ call.at = "Test"
      /\ call' = [call EXCEPT !.at = IF HasFrame THEN "Copy" ELSE "None"]
  BY DEF Test
<1>2. call.tail = tail /\ ~call.stored
  BY <1>1 DEF RingInd, CallRule
<1>3. /\ call'.at = IF HasFrame THEN "Copy" ELSE "None"
      /\ ~call'.stored
  BY <1>1, <1>2 DEF RingInd, TypeOK, Call
<1>4. Handed = Idle
  BY <1>1, HandedIs
<1>5. Queue' = Queue
  BY <1>1, QueueIs, QueueNextIs
<1>6. CASE HasFrame
  <2>1. Handed' = Idle
    BY <1>3, <1>6, HandedNextIs
  <2>2. QED
    BY <1>1, <1>4, <1>5, <2>1 DEF Fifo!fifoVars
<1>7. CASE ~HasFrame
  <2>1. Handed' = Empty
    BY <1>3, <1>7, HandedNextIs
  <2>2. head = tail /\ tail \in Slot
    BY <1>2, <1>7 DEF HasFrame, RingInd, TypeOK
  <2>3. Queue = <<>>
    BY <2>2, QueueIs, EmptyQueue
  <2>4. QED
    BY <1>1, <1>4, <1>5, <2>1, <2>3 DEF Fifo!FindNone
<1>8. QED
  BY <1>6, <1>7

\* The store of the tail takes the first frame out of the queue.
LEMMA StoreImplements == ASSUME RingInd, RingInd', Store PROVE Fifo!Take
<1>1. /\ UNCHANGED <<buf, head, arrived>> /\ call.at = "Copy" /\ ~call.stored
      /\ tail' = Following(call.tail)
      /\ call' = [call EXCEPT !.stored = TRUE]
  BY DEF Store, StoredTail
<1>2. tail = call.tail /\ head # tail
  BY <1>1 DEF RingInd, CallRule
<1>3. call'.at = "Copy" /\ call'.stored /\ call'.tail = tail
  BY <1>1, <1>2 DEF RingInd, TypeOK, Call
<1>4. Handed = Idle /\ Handed' = buf[tail]
  BY <1>1, <1>3, HandedIs, HandedNextIs
<1>5. buf \in [Slot -> Frame] /\ head \in Slot /\ tail \in Slot
  BY DEF RingInd, TypeOK
<1>6. /\ QueueOf(buf, head, tail) # <<>>
      /\ Head(QueueOf(buf, head, tail)) = buf[tail]
      /\ QueueOf(buf, head, Following(tail)) = Tail(QueueOf(buf, head, tail))
  BY <1>2, <1>5, QueueShrinks
<1>7. Queue # <<>> /\ Head(Queue) = buf[tail] /\ Queue' = Tail(Queue)
  BY <1>1, <1>2, <1>6, QueueIs, QueueNextIs
<1>8. QED
  BY <1>1, <1>4, <1>7 DEF Fifo!Take

LEMMA ReturnImplements == ASSUME RingInd, RingInd', Return PROVE Fifo!HandOver
<1>1. /\ UNCHANGED <<buf, head, tail, arrived>> /\ call' = NoCall
      /\ call.at = "None" \/ (call.at = "Copy" /\ call.stored)
  BY DEF Return
<1>2. call'.at = "Out"
  BY <1>1 DEF NoCall
<1>3. Handed' = Idle
  BY <1>2, HandedNextIs
<1>4. Handed # Idle
  <2>1. buf[call.tail] \in Frame
    BY DEF RingInd, TypeOK, Call
  <2>2. buf[call.tail] # Idle
    BY <2>1, RingConstants DEF Frame
  <2>3. QED
    BY <1>1, <2>2, HandedIs, RingConstants
<1>5. Queue' = Queue
  BY <1>1, QueueIs, QueueNextIs
<1>6. QED
  BY <1>1, <1>3, <1>4, <1>5 DEF Fifo!HandOver

LEMMA RingStepImplements ==
    ASSUME RingInd, RingInd', [Next]_vars
    PROVE  [Fifo!FifoNext]_(Fifo!fifoVars)
<1>1. CASE OnRxIrq
  BY <1>1, IrqImplements DEF Fifo!FifoNext
<1>2. CASE Enter
  BY <1>2, EnterImplements
<1>3. CASE Test
  BY <1>3, TestImplements DEF Fifo!FifoNext
<1>4. CASE Store
  BY <1>4, StoreImplements DEF Fifo!FifoNext
<1>5. CASE Return
  BY <1>5, ReturnImplements DEF Fifo!FifoNext
<1>6. ASSUME NEW p \in Part, Copy(p) PROVE UNCHANGED Fifo!fifoVars
  BY <1>6, CopyImplements
<1>7. CASE UNCHANGED vars
  <2>1. UNCHANGED <<buf, head, tail, arrived, call>>
    BY <1>7 DEF vars
  <2>2. Handed' = Handed
    BY <2>1, HandedIs, HandedNextIs
  <2>3. Queue' = Queue
    BY <2>1, QueueIs, QueueNextIs
  <2>4. QED
    BY <2>1, <2>2, <2>3 DEF Fifo!fifoVars
<1>8. QED
  BY <1>1, <1>2, <1>3, <1>4, <1>5, <1>6, <1>7 DEF Next, Receive

\* receive() and on_rx_irq() implement the bounded queue, whenever the interrupt
\* comes and wherever the compiler puts the copy: frames come out whole, once
\* and in order, and one is lost only when Size - 1 others wait.
THEOREM RingImplementsFifoCorrect == Spec => RingImplementsFifo
<1>1. Init => Fifo!FifoInit
  <2> SUFFICES ASSUME Init PROVE Fifo!FifoInit
    OBVIOUS
  <2>1. call.at = "Out"
    BY DEF Init, NoCall
  <2>2. Handed = Idle
    BY <2>1, InitRing, HandedIs
  <2>3. head = tail /\ tail \in Slot
    BY RingConstants DEF Init, Slot
  <2>4. Queue = <<>>
    BY <2>3, QueueIs, EmptyQueue
  <2>5. QED
    BY <2>2, <2>4 DEF Init, Fifo!FifoInit
<1>2. RingInd /\ RingInd' /\ [Next]_vars => [Fifo!FifoNext]_(Fifo!fifoVars)
  BY RingStepImplements
<1>3. QED
  BY <1>1, <1>2, RingIndInvariant, PTL DEF Spec, RingImplementsFifo, Fifo!FifoSpec
=============================================================================
