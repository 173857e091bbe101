--------------------------- MODULE IsoTpLinkProofs ---------------------------
(***************************************************************************)
(* Proofs about IsoTpLink, for any sizes of frames, messages, ring and     *)
(* controller, any requests and any losses.  In this order: types and the  *)
(* rules of both sides of IsoTp (TypeInd); requests are delivered intact   *)
(* and served in order (LinkInd), along the stream of Consecutive Frames   *)
(* from the tester through the ring into the receive buffer; the bytes of  *)
(* a response (ResponseInd), along its frames from the response buffer     *)
(* through the controller to the tester; the order of the responses and    *)
(* their lengths (AnswerInd); and that all of it implements Dialogue.      *)
(***************************************************************************)
EXTENDS IsoTpLink, SequenceTheorems, TLAPS

-----------------------------------------------------------------------------
(* Arithmetic.                                                             *)

\* Quotient and remainder determine each other.
LEMMA RemainderIs ==
    ASSUME NEW M \in Nat \ {0}, NEW q \in Nat, NEW r \in 0 .. M - 1
    PROVE  (M * q + r) % M = r
OBVIOUS

\* Quotient and remainder exist.
LEMMA Division ==
    ASSUME NEW M \in Nat \ {0}, NEW a \in Nat
    PROVE  \E q \in Nat, r \in 0 .. M - 1 : a = M * q + r /\ a \div M = q /\ a % M = r
<1> DEFINE q == a \div M
           r == a % M
<1>1. q \in Nat /\ r \in 0 .. M - 1 /\ a = M * q + r
  BY Z3
<1>2. QED
  BY <1>1

\* A counter that keeps its remainder only.
LEMMA RemainderOfSum ==
    ASSUME NEW M \in Nat \ {0}, NEW a \in Nat, NEW b \in Nat
    PROVE  ((a % M) + b) % M = (a + b) % M
<1>1. PICK q \in Nat, r \in 0 .. M - 1 : a = M * q + r /\ a % M = r
  BY Division
<1>2. PICK c : c = r + b
  OBVIOUS
<1>3. PICK p \in Nat, t \in 0 .. M - 1 : c = M * p + t /\ c % M = t
  BY <1>2, Division
<1>4. PICK s \in Nat : s = q + p
  OBVIOUS
<1>5. M * s = M * q + M * p
  BY <1>4
<1>6. a + b = M * s + t
  BY <1>1, <1>2, <1>3, <1>5
<1>7. (M * s + t) % M = t
  BY RemainderIs
<1>8. QED
  BY <1>1, <1>2, <1>3, <1>6, <1>7

\* Pieces of b that cover a: those before the last one do not cover it.
LEMMA PiecesFit ==
    ASSUME NEW a \in Nat, NEW b \in Nat \ {0}, NEW k \in Nat, k < (a + b - 1) \div b
    PROVE  k * b < a
<1>1. PICK c \in Nat : c = a + b - 1
  OBVIOUS
<1>2. PICK q \in Nat, r \in 0 .. b - 1 : c = b * q + r /\ c \div b = q
  BY Division
<1>3. PICK d \in Nat : q = k + 1 + d
  <2>1. q - k - 1 \in Nat
    BY <1>1, <1>2
  <2>2. QED
    BY <2>1
<1>4. b * q = k * b + b + b * d /\ b * d >= 0
  BY <1>3
<1>5. k * b \in Nat /\ b * d \in Nat
  OBVIOUS
<1>6. QED
  BY <1>1, <1>2, <1>4, <1>5

\* As many pieces are left as the code computes: none only when nothing is.
LEMMA PiecesCover ==
    ASSUME NEW a \in Nat, NEW b \in Nat \ {0}
    PROVE  /\ (a + b - 1) \div b \in Nat
           /\ a > 0 => (a + b - 1) \div b > 0
<1>1. PICK c \in Nat : c = a + b - 1
  OBVIOUS
<1>2. PICK q \in Nat, r \in 0 .. b - 1 : c = b * q + r /\ c \div b = q
  BY Division
<1>3. q = 0 => c < b
  BY <1>2
<1>4. QED
  BY <1>1, <1>2, <1>3

-----------------------------------------------------------------------------
(* Constants and sequences.                                                *)

\* The sizes of the frames, as the code derives them from CAN_DL = 8.
LEMMA Sizes ==
    /\ CanDl \in Nat /\ CanDl > 3
    /\ SfMax \in Nat /\ FfData \in Nat /\ CfData \in Nat
    /\ SfMax = CanDl - 1 /\ FfData = CanDl - 2 /\ CfData = CanDl - 1
    /\ LenMod \in Nat /\ MaxPayload = LenMod /\ CanDl < MaxPayload
    /\ SnMod \in Nat \ {0} /\ TickMod \in Nat \ {0}
    /\ RxId # TxId
BY IsoTpConstants DEF SfMax, FfData, CfData

\* The counters keep their width.
LEMMA Widths ==
    /\ \A a \in Nat : a % SnMod \in 0 .. SnMod - 1
    /\ \A a \in Nat : a % TickMod \in Tick
<1>1. SnMod \in Nat /\ SnMod > 0 /\ TickMod \in Nat /\ TickMod > 0
  BY Sizes
<1>2. ASSUME NEW a \in Nat PROVE a % SnMod \in 0 .. SnMod - 1
  BY <1>1
<1>3. ASSUME NEW a \in Nat PROVE a % TickMod \in Tick
  <2>1. a % TickMod \in 0 .. TickMod - 1
    BY <1>1
  <2>2. QED
    BY <2>1 DEF Tick
<1>4. QED
  BY <1>2, <1>3

\* Each request of a plan has at least a byte and fits a First Frame.
LEMMA LengthsOf ==
    ASSUME lengths \in RequestPlans
    PROVE  /\ lengths \in Seq(Nat)
           /\ Len(lengths) \in Nat
           /\ \A m \in 1 .. Len(lengths) :
                 /\ lengths[m] \in Nat /\ lengths[m] >= 1
                 /\ lengths[m] < MaxPayload
<1>1. lengths \in Seq(1 .. LenMod - 1)
  BY LinkConstants
<1>2. QED
  BY <1>1, Sizes

\* A message is a sequence of bytes, each naming its position.
LEMMA BytesSeq ==
    ASSUME NEW m \in 0 .. Len(lengths), NEW n \in 0 .. MaxPayload, Len(lengths) \in Nat
    PROVE  /\ Bytes(m, n) \in Seq(AnyByte)
           /\ Len(Bytes(m, n)) = n
           /\ \A i \in 1 .. n : Bytes(m, n)[i] = [msg |-> m, pos |-> i]
<1>1. n \in Nat /\ MaxPayload \in Nat
  BY Sizes
<1>2. \A i \in 1 .. n : [msg |-> m, pos |-> i] \in AnyByte
  BY <1>1 DEF AnyByte
<1>3. QED
  BY <1>1, <1>2 DEF Bytes

\* The first bytes of a message.
LEMMA Prefix ==
    ASSUME NEW m \in 0 .. Len(lengths), NEW n \in 0 .. MaxPayload, Len(lengths) \in Nat,
           NEW k \in 0 .. n
    PROVE  SubSeq(Bytes(m, n), 1, k) = Bytes(m, k)
<1>1. k \in 0 .. MaxPayload /\ k \in Nat /\ n \in Nat /\ k <= n
  BY Sizes
<1>2. Len(Bytes(m, n)) = n /\ Len(Bytes(m, k)) = k /\ Bytes(m, n) \in Seq(AnyByte)
  BY <1>1, BytesSeq
<1>3. ASSUME NEW i \in 1 .. k PROVE Bytes(m, n)[i] = Bytes(m, k)[i]
  <2>1. i \in 1 .. n
    BY <1>1
  <2>2. Bytes(m, n)[i] = [msg |-> m, pos |-> i] /\ Bytes(m, k)[i] = [msg |-> m, pos |-> i]
    BY <1>1, <2>1, BytesSeq
  <2>3. QED
    BY <2>2
<1>4. PICK p : p = SubSeq(Bytes(m, n), 1, k)
  OBVIOUS
<1>5. p \in Seq(AnyByte) /\ Len(p) = k /\ \A i \in 1 .. k : p[i] = Bytes(m, n)[i]
  BY <1>1, <1>2, <1>4
<1>6. Bytes(m, k) \in Seq(AnyByte)
  BY <1>1, BytesSeq
<1>7. p = Bytes(m, k)
  BY <1>2, <1>3, <1>5, <1>6, SeqEqual
<1>8. QED
  BY <1>4, <1>7

\* The bytes of q are those of message m after its first k.
BytesFrom(q, m, k) == \A i \in 1 .. Len(q) : q[i] = [msg |-> m, pos |-> k + i]

\* A prefix of a message, extended by the next bytes of it.
LEMMA Extend ==
    ASSUME NEW m \in 0 .. Len(lengths), NEW k \in Nat, NEW last \in Nat,
           last <= MaxPayload, Len(lengths) \in Nat,
           NEW q \in Seq(AnyByte), k + Len(q) = last,
           BytesFrom(q, m, k)
    PROVE  Bytes(m, k) \o q = Bytes(m, last)
<1>1. PICK n \in Nat : n = Len(q) /\ k + n = last
  OBVIOUS
<1>2. k \in 0 .. MaxPayload /\ last \in 0 .. MaxPayload
  BY <1>1, Sizes
<1>3. /\ Bytes(m, k) \in Seq(AnyByte) /\ Len(Bytes(m, k)) = k
      /\ \A i \in 1 .. k : Bytes(m, k)[i] = [msg |-> m, pos |-> i]
  BY <1>2, BytesSeq
<1>4. PICK p \in Seq(AnyByte) : p = Bytes(m, k)
  BY <1>3
<1>5. /\ p \o q \in Seq(AnyByte) /\ Len(p \o q) = Len(p) + Len(q)
      /\ \A i \in 1 .. Len(p) + Len(q) :
            (p \o q)[i] = IF i <= Len(p) THEN p[i] ELSE q[i - Len(p)]
  BY ConcatProperties
<1>6. Len(p) = k
  BY <1>3, <1>4
<1>7. ASSUME NEW i \in 1 .. last PROVE (p \o q)[i] = [msg |-> m, pos |-> i]
  <2>1. CASE i <= k
    BY <1>1, <1>3, <1>4, <1>5, <1>6, <2>1
  <2>2. CASE i > k
    <3>1. PICK j : j = i - k
      OBVIOUS
    <3>2. j \in 1 .. n /\ i = k + j
      BY <1>1, <2>2, <3>1
    <3>3. (p \o q)[i] = q[j]
      BY <1>1, <1>5, <1>6, <2>2, <3>1
    <3>4. QED
      BY <1>1, <3>2, <3>3 DEF BytesFrom
  <2>3. i <= k \/ i > k
    OBVIOUS
  <2>4. QED
    BY <2>1, <2>2, <2>3
<1>8. /\ Bytes(m, last) \in Seq(AnyByte) /\ Len(Bytes(m, last)) = last
      /\ \A i \in 1 .. last : Bytes(m, last)[i] = [msg |-> m, pos |-> i]
  BY <1>2, BytesSeq
<1>9. PICK both, whole : both = p \o q /\ whole = Bytes(m, last)
  OBVIOUS
<1>10. both \in Seq(AnyByte) /\ Len(both) = last
  BY <1>1, <1>5, <1>6, <1>9
<1>11. whole \in Seq(AnyByte) /\ Len(whole) = last
  BY <1>8, <1>9
<1>12. ASSUME NEW i \in 1 .. last PROVE both[i] = whole[i]
  <2>1. both[i] = [msg |-> m, pos |-> i]
    BY <1>7, <1>9
  <2>2. whole[i] = [msg |-> m, pos |-> i]
    BY <1>8, <1>9
  <2>3. QED
    BY <2>1, <2>2
<1>13. Len(both) = Len(whole) /\ \A i \in 1 .. Len(both) : both[i] = whole[i]
  BY <1>10, <1>11, <1>12
<1>14. both = whole
  BY <1>10, <1>11, <1>13, SeqEqual
<1>15. QED
  BY <1>4, <1>9, <1>14

\* The same, by the length of the piece.
LEMMA ExtendBy ==
    ASSUME NEW m \in 0 .. Len(lengths), NEW k \in Nat, NEW q \in Seq(AnyByte),
           Len(lengths) \in Nat, k + Len(q) <= MaxPayload, BytesFrom(q, m, k)
    PROVE  Bytes(m, k) \o q = Bytes(m, k + Len(q))
<1>1. PICK last \in Nat : last = k + Len(q)
  OBVIOUS
<1>2. QED
  BY <1>1, Extend

-----------------------------------------------------------------------------
(***************************************************************************)
(* The state the endpoints, the ring and the tester are in between steps.  *)
(***************************************************************************)
\* A position in the tester's stream: a request, how many bytes of it went
\* before, and the sequence number that is due.
Carries(f) == f.pci # FlowControl
Starts(f) == f.pci \in {SingleFrame, FirstFrame}
Of(f) == f.data[1].msg
From(f) == f.data[1].pos - 1
Upto(f) == IF f.pci = ConsecutiveFrame
           THEN Smaller(From(f) + CfData, lengths[Of(f)])
           ELSE Len(f.data)

Before(f) == [msg |-> Of(f), offset |-> From(f), sn |-> f.n]
After(f) == [msg |-> Of(f), offset |-> Upto(f),
             sn |-> IF f.pci = ConsecutiveFrame THEN (f.n + 1) % SnMod ELSE 1 % SnMod]
At(r) == [msg |-> r.buf[1].msg, offset |-> Len(r.buf), sn |-> r.sn]

\* A frame as the tester builds it out of one of its first s requests.
FromTester(f, s) ==
    Carries(f) =>
        /\ f.id = RxId
        /\ f.data # <<>>
        /\ Of(f) \in 1 .. s
        /\ f.pci = SingleFrame =>
              /\ lengths[Of(f)] <= SfMax
              /\ f.n = lengths[Of(f)]
              /\ f.dlc = f.n + 1
              /\ f.data = Bytes(Of(f), f.n)
        /\ f.pci = FirstFrame =>
              /\ lengths[Of(f)] > SfMax
              /\ f.n = lengths[Of(f)]
              /\ f.dlc = CanDl
              /\ f.data = Bytes(Of(f), FfData)
        /\ f.pci = ConsecutiveFrame =>
              /\ From(f) \in 0 .. lengths[Of(f)] - 1
              /\ f.dlc = Len(f.data) + 1
              /\ Len(f.data) >= Upto(f) - From(f)
              /\ \A i \in 1 .. Upto(f) - From(f) :
                    f.data[i] = [msg |-> Of(f), pos |-> From(f) + i]

RingInv == \A i \in 1 .. Len(ring) : FromTester(ring[i], sender.msg)

SenderInv ==
    /\ lengths \in RequestPlans
    /\ sender \in [msg : 0 .. Len(lengths), offset : 0 .. MaxPayload, sn : 0 .. SnMod - 1]
    /\ sender.msg # 0 => sender.offset \in 1 .. lengths[sender.msg]

\* The receive side and the transmit side as they are between steps.
RxIs(r) ==
    /\ r \in RxObject(AnyByte)
    /\ r.ready => r.state = "Idle" /\ Len(r.buf) = r.expected /\ r.expected > 0
    /\ r.state = "Receiving" => ~r.ready /\ r.buf # <<>> /\ Len(r.buf) < r.expected
    /\ r.expected < MaxPayload

TxIs(t) ==
    /\ t \in TxObject
    /\ t.state # "Idle" =>
          /\ t.offset < t.total
          /\ \E j \in 0 .. MaxPayload :
                t.offset = FfData + j * CfData /\ t.sn = (j + 1) % SnMod

MailboxesAre(b) == b \in Seq(Frame(AnyByte)) /\ Len(b) <= TxMailboxes

TypeInd ==
    /\ RxIs(rx) /\ TxIs(tx) /\ MailboxesAre(mailboxes)
    /\ buffer \in Seq(AnyByte) /\ Len(buffer) = MaxPayload
    /\ ring \in Seq(Frame(AnyByte)) /\ Len(ring) <= RingSlots /\ RingInv
    /\ tick \in Tick
    /\ taken \in 0 .. Len(lengths)
    /\ SenderInv

\* Order: what the ECU holds, and then each request that starts in the ring,
\* is later than what it took, and has been sent.
Holds(r) == r.ready \/ r.state = "Receiving"

OrderIs(r, q, t, n) ==
    /\ t <= n
    /\ Holds(r) => r.buf[1].msg \in t + 1 .. n
    /\ \A i \in 1 .. Len(q) : Starts(q[i]) =>
          /\ Of(q[i]) > t
          /\ Holds(r) => Of(q[i]) > r.buf[1].msg
          /\ \A j \in 1 .. i - 1 : Starts(q[j]) => Of(q[j]) < Of(q[i])

\* In the ring q after its i-th frame, and then at a sender that is at s, the
\* stream goes on from position p: the next frame that carries anything is the
\* Consecutive Frame for p, or there is none and the sender is at p.
Silent(q, i, j) == \A l \in i + 1 .. j : ~Carries(q[l])

GoesOn(q, s, p, i) ==
    /\ \A j \in i + 1 .. Len(q) :
          Carries(q[j]) /\ Silent(q, i, j - 1) =>
              q[j].pci = ConsecutiveFrame /\ Before(q[j]) = p
    /\ Silent(q, i, Len(q)) => s = p

\* Of a request no frame of which was lost, the frames are in the ring q
\* without a gap; b is the set of the others.
ChainIs(q, s, b) ==
    \A i \in 1 .. Len(q) :
        /\ Carries(q[i])
        /\ Of(q[i]) \notin b
        /\ Upto(q[i]) < lengths[Of(q[i])]
        => GoesOn(q, s, After(q[i]), i)

\* The reception of such a request has its first bytes, and the ring the next.
ReceptionIs(r, q, s, b) ==
    r.state = "Receiving" /\ r.buf[1].msg \notin b =>
        /\ r.buf = Bytes(r.buf[1].msg, Len(r.buf))
        /\ r.expected = lengths[r.buf[1].msg]
        /\ GoesOn(q, s, At(r), 0)

DeliveryIs(r, b) ==
    r.ready /\ r.buf[1].msg \notin b =>
        r.buf = Bytes(r.buf[1].msg, lengths[r.buf[1].msg])

LinkInd ==
    /\ OrderIs(rx, ring, taken, sender.msg)
    /\ ChainIs(ring, sender, broken)
    /\ ReceptionIs(rx, ring, sender, broken)
    /\ DeliveryIs(rx, broken)

-----------------------------------------------------------------------------
(* The frames of the tester.                                               *)

\* The plan of requests does not change, and neither does what depends on it.
LEMMA TypePrime ==
    ASSUME lengths' = lengths,
           RxIs(rx'), TxIs(tx'), MailboxesAre(mailboxes'),
           buffer' \in Seq(AnyByte), Len(buffer') = MaxPayload,
           ring' \in Seq(Frame(AnyByte)), Len(ring') <= RingSlots, RingInv',
           tick' \in Tick, taken' \in 0 .. Len(lengths), SenderInv'
    PROVE  TypeInd'
<1>1. AnyByte' = AnyByte
  BY DEF AnyByte
<1>2. QED
  BY <1>1 DEF TypeInd, RxIs, TxIs, MailboxesAre, RxObject, Frame

\* Frames are judged by the plan, which does not change.
LEMMA RingPrime ==
    ASSUME lengths' = lengths,
           \A i \in 1 .. Len(ring') : FromTester(ring'[i], sender'.msg)
    PROVE  RingInv'
BY DEF RingInv, FromTester, Carries, Of, From, Upto, Bytes

\* What SenderInv says, fact by fact.
LEMMA SenderFacts ==
    ASSUME SenderInv
    PROVE  /\ lengths \in Seq(Nat) /\ Len(lengths) \in Nat
           /\ sender.msg \in 0 .. Len(lengths)
           /\ sender.offset \in 0 .. MaxPayload
           /\ sender.sn \in 0 .. SnMod - 1
           /\ sender = [msg |-> sender.msg, offset |-> sender.offset, sn |-> sender.sn]
           /\ \A m \in 1 .. Len(lengths) :
                 lengths[m] \in Nat /\ lengths[m] >= 1 /\ lengths[m] < MaxPayload
           /\ sender.msg # 0 => sender.offset >= 1 /\ sender.offset <= lengths[sender.msg]
<1>1. lengths \in RequestPlans
  BY DEF SenderInv
<1>2. QED
  BY <1>1, LengthsOf DEF SenderInv

\* A frame of the first s requests is one of the first t.
LEMMA LaterFrames ==
    ASSUME NEW f, NEW s \in Nat, NEW t \in Nat, s <= t, FromTester(f, s)
    PROVE  FromTester(f, t)
BY DEF FromTester

\* The first bytes of a message name it.
LEMMA FirstByte ==
    ASSUME NEW m \in 0 .. Len(lengths), Len(lengths) \in Nat,
           NEW n \in 1 .. MaxPayload
    PROVE  /\ Bytes(m, n) # <<>>
           /\ Bytes(m, n)[1] = [msg |-> m, pos |-> 1] /\ Bytes(m, n)[1].msg = m
<1>1. n \in 0 .. MaxPayload /\ 1 \in 1 .. n
  BY Sizes
<1>2. Len(Bytes(m, n)) = n /\ Bytes(m, n)[1] = [msg |-> m, pos |-> 1]
  BY <1>1, BytesSeq
<1>3. Bytes(m, n) \in Seq(AnyByte)
  BY <1>1, BytesSeq
<1>4. QED
  BY <1>1, <1>2, <1>3, EmptySeq

\* What the tester's frames are made of.
LEMMA FrameMember ==
    ASSUME NEW pci \in 0 .. 3, NEW n \in Nat, NEW dlc \in 0 .. CanDl,
           NEW data \in Seq(AnyByte)
    PROVE  TesterFrame(pci, n, dlc, data) \in Frame(AnyByte)
<1>1. 0 \in 0 .. 255
  OBVIOUS
<1>2. QED
  BY <1>1 DEF TesterFrame, Frame

\* The frame SendRequest builds.
LEMMA RequestFrame ==
    ASSUME SenderInv, NEW m, m = sender.msg + 1, m <= Len(lengths),
           NEW len, len = lengths[m],
           NEW f, f = IF len <= SfMax
                      THEN TesterFrame(SingleFrame, len, len + 1, Bytes(m, len))
                      ELSE TesterFrame(FirstFrame, len, CanDl,
                                       SubSeq(Bytes(m, len), 1, FfData))
    PROVE  /\ f \in Frame(AnyByte)
           /\ FromTester(f, m)
           /\ Starts(f) /\ Of(f) = m
           /\ Len(f.data) \in 1 .. len
           /\ After(f) = [msg |-> m, offset |-> Len(f.data), sn |-> 1 % SnMod]
<1>1. /\ m \in 1 .. Len(lengths) /\ len \in Nat /\ len >= 1 /\ len < MaxPayload
      /\ Len(lengths) \in Nat
  BY SenderFacts
<1>2. /\ len \in 1 .. MaxPayload /\ len \in 0 .. MaxPayload /\ m \in 0 .. Len(lengths)
      /\ m \in 1 .. m /\ FfData \in 1 .. MaxPayload /\ FfData \in 0 .. MaxPayload
  BY <1>1, Sizes
<1>3. CASE len <= SfMax
  <2>1. /\ f.id = RxId /\ f.pci = SingleFrame /\ f.n = len /\ f.dlc = len + 1
        /\ f.data = Bytes(m, len) /\ f.bs = 0
    BY <1>3 DEF TesterFrame
  <2>2. f.data \in Seq(AnyByte) /\ Len(f.data) = len /\ f.data # <<>> /\ Of(f) = m
    <3>1. Bytes(m, len) \in Seq(AnyByte) /\ Len(Bytes(m, len)) = len
      BY <1>1, <1>2, BytesSeq
    <3>2. Bytes(m, len) # <<>> /\ Bytes(m, len)[1] = [msg |-> m, pos |-> 1]
      BY <1>1, <1>2, FirstByte
    <3>3. QED
      BY <2>1, <3>1, <3>2 DEF Of
  <2>3. f \in Frame(AnyByte)
    <3>1. PICK dlc : dlc = len + 1
      OBVIOUS
    <3>2. PICK data : data = Bytes(m, len)
      OBVIOUS
    <3>3. PICK pci \in 0 .. 3 : pci = SingleFrame
      BY DEF SingleFrame
    <3>4. dlc \in 0 .. CanDl /\ len \in Nat
      BY <1>1, <1>3, <3>1, Sizes
    <3>5. data \in Seq(AnyByte)
      BY <2>1, <2>2, <3>2
    <3>6. f = TesterFrame(pci, len, dlc, data)
      BY <1>3, <3>1, <3>2, <3>3
    <3>7. QED
      BY <3>4, <3>5, <3>6, FrameMember
  <2>4. FromTester(f, m)
    <3>1. f.pci # FirstFrame /\ f.pci # ConsecutiveFrame
      BY <2>1 DEF SingleFrame, FirstFrame, ConsecutiveFrame
    <3>2. Of(f) \in 1 .. m /\ lengths[Of(f)] = len
      BY <1>2, <2>2
    <3>3. f.data = Bytes(Of(f), f.n) /\ f.n = lengths[Of(f)] /\ f.dlc = f.n + 1
      BY <2>1, <2>2, <3>2
    <3>4. lengths[Of(f)] <= SfMax
      BY <1>3, <3>2
    <3>5. QED
      BY <2>1, <2>2, <3>1, <3>2, <3>3, <3>4 DEF FromTester
  <2>5. QED
    BY <1>1, <2>1, <2>2, <2>3, <2>4
    DEF Starts, After, Upto, SingleFrame, ConsecutiveFrame
<1>4. CASE ~(len <= SfMax)
  <2>1. SubSeq(Bytes(m, len), 1, FfData) = Bytes(m, FfData)
    <3>1. FfData \in 0 .. len
      BY <1>1, <1>4, Sizes
    <3>2. QED
      BY <1>1, <1>2, <3>1, Prefix
  <2>2. /\ f.id = RxId /\ f.pci = FirstFrame /\ f.n = len /\ f.dlc = CanDl
        /\ f.data = Bytes(m, FfData) /\ f.bs = 0
    BY <1>4, <2>1 DEF TesterFrame
  <2>3. f.data \in Seq(AnyByte) /\ Len(f.data) = FfData /\ f.data # <<>> /\ Of(f) = m
    <3>1. Bytes(m, FfData) \in Seq(AnyByte) /\ Len(Bytes(m, FfData)) = FfData
      BY <1>1, <1>2, BytesSeq
    <3>2. Bytes(m, FfData) # <<>> /\ Bytes(m, FfData)[1] = [msg |-> m, pos |-> 1]
      BY <1>1, <1>2, FirstByte
    <3>3. QED
      BY <2>2, <3>1, <3>2 DEF Of
  <2>4. f \in Frame(AnyByte)
    <3>1. PICK dlc \in 0 .. CanDl : dlc = CanDl
      BY Sizes
    <3>2. PICK data : data = SubSeq(Bytes(m, len), 1, FfData)
      OBVIOUS
    <3>3. PICK pci \in 0 .. 3 : pci = FirstFrame
      BY DEF FirstFrame
    <3>4. data \in Seq(AnyByte)
      BY <2>1, <2>2, <2>3, <3>2
    <3>5. f = TesterFrame(pci, len, dlc, data)
      BY <1>4, <3>1, <3>2, <3>3
    <3>6. QED
      BY <1>1, <3>4, <3>5, FrameMember
  <2>5. FromTester(f, m)
    <3>1. len > SfMax
      BY <1>1, <1>4, Sizes
    <3>2. f.pci # SingleFrame /\ f.pci # ConsecutiveFrame
      BY <2>2 DEF SingleFrame, FirstFrame, ConsecutiveFrame
    <3>3. Of(f) \in 1 .. m /\ lengths[Of(f)] = len
      BY <1>2, <2>3
    <3>4. /\ f.data = Bytes(Of(f), FfData) /\ f.n = lengths[Of(f)]
          /\ lengths[Of(f)] > SfMax
      BY <2>2, <2>3, <3>1, <3>3
    <3>5. QED
      BY <2>2, <2>3, <3>2, <3>3, <3>4 DEF FromTester
  <2>6. FfData \in 1 .. len
    BY <1>1, <1>4, Sizes
  <2>7. QED
    BY <2>2, <2>3, <2>4, <2>5, <2>6
    DEF Starts, After, Upto, FirstFrame, ConsecutiveFrame
<1>5. QED
  BY <1>3, <1>4

\* The frame SendConsecutive builds.
LEMMA PieceFrame ==
    ASSUME SenderInv, NEW m, m = sender.msg, m # 0,
           NEW len, len = lengths[m], sender.offset < len,
           NEW last, last = Smaller(sender.offset + CfData, len),
           NEW pad \in BOOLEAN,
           NEW data, data = Padded(SubSeq(Bytes(m, len), sender.offset + 1, last),
                                   CfData, pad),
           NEW f, f = TesterFrame(ConsecutiveFrame, sender.sn, Len(data) + 1, data)
    PROVE  /\ f \in Frame(AnyByte)
           /\ FromTester(f, m)
           /\ f.pci = ConsecutiveFrame /\ Of(f) = m
           /\ last \in 1 .. len
           /\ Before(f) = sender
           /\ After(f) = [msg |-> m, offset |-> last, sn |-> (sender.sn + 1) % SnMod]
<1>1. /\ m \in 1 .. Len(lengths) /\ m \in 0 .. Len(lengths) /\ m \in 1 .. m
      /\ len \in Nat /\ len >= 1 /\ len < MaxPayload
      /\ Len(lengths) \in Nat /\ len \in 0 .. MaxPayload
      /\ CfData \in Nat /\ CfData > 0 /\ MaxPayload \in Nat /\ CfData = CanDl - 1
      /\ CanDl \in Nat /\ sender.sn \in Nat
  <2>1. /\ CfData \in Nat /\ CfData > 0 /\ MaxPayload \in Nat /\ CfData = CanDl - 1
        /\ CanDl \in Nat /\ SnMod \in Nat
    BY Sizes
  <2>2. m \in 0 .. Len(lengths) /\ Len(lengths) \in Nat /\ m \in 1 .. Len(lengths)
    BY SenderFacts
  <2>3. len \in Nat /\ len >= 1 /\ len < MaxPayload
    BY <2>2, SenderFacts
  <2>4. sender.sn \in 0 .. SnMod - 1
    BY SenderFacts
  <2>5. QED
    BY <2>1, <2>2, <2>3, <2>4
<1>2. PICK k \in Nat : k = sender.offset
  BY SenderFacts
<1>3. /\ k >= 1 /\ k < len /\ last \in 1 .. len /\ last > k
      /\ last - k <= CfData /\ last <= k + CfData
      /\ last = Smaller(k + CfData, len)
  <2>1. CfData \in Nat /\ CfData > 0
    BY <1>1
  <2>2. k >= 1 /\ k < len
    BY <1>1, <1>2, SenderFacts
  <2>3. PICK a : a = sender.offset + CfData
    OBVIOUS
  <2>4. last = Smaller(a, len) /\ a = k + CfData /\ a \in Nat
    <3>1. last = Smaller(a, len)
      BY <2>3
    <3>2. a = k + CfData /\ a \in Nat
      BY <1>2, <2>1, <2>3
    <3>3. QED
      BY <3>1, <3>2
  <2>5. /\ last \in Int /\ last <= a /\ last <= len /\ (last = a \/ last = len)
    BY <1>1, <2>4 DEF Smaller
  <2>6. last > k
    BY <1>1, <2>1, <2>2, <2>4, <2>5
  <2>7. last = Smaller(k + CfData, len)
    BY <2>4
  <2>8. last \in 1 .. len
    BY <1>1, <2>2, <2>5, <2>6
  <2>9. last <= k + CfData /\ last - k <= CfData
    BY <2>1, <2>2, <2>4, <2>5
  <2>10. QED
    BY <2>2, <2>6, <2>7, <2>8, <2>9
<1>4. /\ Bytes(m, len) \in Seq(AnyByte) /\ Len(Bytes(m, len)) = len
      /\ \A i \in 1 .. len : Bytes(m, len)[i] = [msg |-> m, pos |-> i]
  BY <1>1, BytesSeq
<1>5. PICK n \in Nat : n = last - k
  BY <1>3
<1>6. PICK piece : piece = SubSeq(Bytes(m, len), k + 1, last)
  OBVIOUS
<1>7. /\ piece \in Seq(AnyByte) /\ Len(piece) = n
      /\ \A i \in 1 .. n : piece[i] = [msg |-> m, pos |-> k + i]
  <2>1. PICK all : all = Bytes(m, len)
    OBVIOUS
  <2>2. PICK a \in Int : a = k + 1
    OBVIOUS
  <2>3. \A i \in a .. last : all[i] \in AnyByte
    BY <1>3, <1>4, <2>1, <2>2
  <2>4. last \in Int /\ a <= last
    BY <1>3, <2>2
  <2>5. /\ SubSeq(all, a, last) \in Seq(AnyByte)
        /\ Len(SubSeq(all, a, last)) = last - a + 1
        /\ \A i \in 1 .. last - a + 1 : SubSeq(all, a, last)[i] = all[a + i - 1]
    BY <2>3, <2>4, SubSeqProperties
  <2>6. piece = SubSeq(all, a, last) /\ last - a + 1 = n
    BY <1>3, <1>5, <1>6, <2>1, <2>2
  <2>7. ASSUME NEW i \in 1 .. n PROVE piece[i] = [msg |-> m, pos |-> k + i]
    <3>1. piece[i] = all[a + i - 1]
      BY <2>5, <2>6
    <3>2. PICK j \in Int : j = k + i
      BY <1>2
    <3>3. a + i - 1 = j /\ j \in 1 .. len
      BY <1>1, <1>3, <1>5, <2>2, <3>2
    <3>4. all[j] = [msg |-> m, pos |-> j]
      BY <1>4, <2>1, <3>3
    <3>5. QED
      BY <3>1, <3>2, <3>3, <3>4
  <2>8. QED
    BY <2>5, <2>6, <2>7
<1>8. data = Padded(piece, CfData, pad)
  BY <1>2, <1>6
<1>9. /\ data \in Seq(AnyByte) /\ Len(data) \in n .. CfData
      /\ \A i \in 1 .. n : data[i] = [msg |-> m, pos |-> k + i]
  <2>1. CASE ~pad
    <3>1. data = piece
      BY <1>8, <2>1 DEF Padded
    <3>2. n \in n .. CfData
      BY <1>1, <1>3, <1>5
    <3>3. QED
      BY <1>7, <3>1, <3>2
  <2>2. CASE pad
    <3>1. PICK b \in Nat : b = CfData - n
      BY <1>1, <1>3, <1>5
    <3>2. PICK fill : fill = [i \in 1 .. b |-> Padding]
      OBVIOUS
    <3>3. Padding \in AnyByte
      BY <1>1, Sizes DEF Padding, AnyByte
    <3>4. fill \in Seq(AnyByte) /\ Len(fill) = b
      BY <3>2, <3>3
    <3>5. data = piece \o fill
      BY <1>7, <1>8, <2>2, <3>1, <3>2 DEF Padded
    <3>6. /\ piece \o fill \in Seq(AnyByte) /\ Len(piece \o fill) = Len(piece) + Len(fill)
          /\ \A i \in 1 .. Len(piece) + Len(fill) :
                (piece \o fill)[i] = IF i <= Len(piece) THEN piece[i] ELSE fill[i - Len(piece)]
      BY <1>7, <3>4, ConcatProperties
    <3>7. data \in Seq(AnyByte) /\ Len(data) \in n .. CfData
      <4>1. data \in Seq(AnyByte) /\ Len(data) = n + b
        BY <1>7, <3>4, <3>5, <3>6
      <4>2. n + b = CfData /\ CfData >= n
        BY <1>1, <3>1
      <4>3. QED
        BY <1>1, <4>1, <4>2
    <3>8. ASSUME NEW i \in 1 .. n PROVE data[i] = [msg |-> m, pos |-> k + i]
      <4>1. i \in 1 .. Len(piece) + Len(fill) /\ i <= Len(piece)
        BY <1>7, <3>4
      <4>2. data[i] = piece[i]
        BY <3>5, <3>6, <4>1
      <4>3. QED
        BY <1>7, <4>2
    <3>9. QED
      BY <3>7, <3>8
  <2>3. QED
    BY <2>1, <2>2
<1>10. n >= 1 /\ data # <<>> /\ data[1] = [msg |-> m, pos |-> k + 1]
  <2>1. n >= 1
    BY <1>3, <1>5
  <2>2. 1 \in 1 .. n /\ Len(data) # 0
    BY <1>9, <2>1
  <2>3. QED
    BY <1>9, <2>1, <2>2, EmptySeq
<1>11. /\ f.id = RxId /\ f.pci = ConsecutiveFrame /\ f.n = sender.sn
       /\ f.dlc = Len(data) + 1 /\ f.data = data /\ f.bs = 0
  BY DEF TesterFrame
<1>12. Of(f) = m /\ From(f) = k /\ Upto(f) = last
  <2>1. Of(f) = m
    BY <1>10, <1>11 DEF Of
  <2>2. From(f) = k
    <3>1. From(f) = (k + 1) - 1
      BY <1>10, <1>11 DEF From
    <3>2. QED
      BY <1>2, <3>1
  <2>3. Upto(f) = last
    BY <1>3, <1>11, <2>1, <2>2 DEF Upto
  <2>4. QED
    BY <2>1, <2>2, <2>3
<1>13. f \in Frame(AnyByte)
  <2>1. PICK dlc \in 0 .. CanDl : dlc = Len(data) + 1
    BY <1>1, <1>3, <1>5, <1>9
  <2>2. PICK sn \in Nat : sn = sender.sn
    BY <1>1
  <2>3. PICK pci \in 0 .. 3 : pci = ConsecutiveFrame
    BY DEF ConsecutiveFrame
  <2>4. PICK bytes \in Seq(AnyByte) : bytes = data
    BY <1>9
  <2>5. f = TesterFrame(pci, sn, dlc, bytes)
    BY <2>1, <2>2, <2>3, <2>4
  <2>6. QED
    BY <2>5, FrameMember
<1>14. FromTester(f, m)
  <2>1. From(f) \in 0 .. lengths[Of(f)] - 1
    BY <1>1, <1>3, <1>12
  <2>2. Len(f.data) >= Upto(f) - From(f)
    BY <1>3, <1>5, <1>9, <1>11, <1>12
  <2>3. \A i \in 1 .. Upto(f) - From(f) : f.data[i] = [msg |-> Of(f), pos |-> From(f) + i]
    BY <1>5, <1>9, <1>11, <1>12
  <2>4. f.pci # SingleFrame /\ f.pci # FirstFrame
    BY <1>11 DEF SingleFrame, FirstFrame, ConsecutiveFrame
  <2>5. QED
    <3>1. f.data # <<>> /\ Of(f) \in 1 .. m /\ f.dlc = Len(f.data) + 1
      BY <1>1, <1>10, <1>11, <1>12
    <3>2. QED
      BY <1>11, <2>1, <2>2, <2>3, <2>4, <3>1 DEF FromTester
<1>15. QED
  BY <1>2, <1>3, <1>11, <1>12, <1>13, <1>14, SenderFacts DEF Before, After

-----------------------------------------------------------------------------
(* The ring.                                                               *)

\* A frame the interrupt puts into the ring.
LEMMA RingGrows ==
    ASSUME TypeInd, NEW f \in Frame(AnyByte), NEW s \in Nat, sender.msg <= s,
           FromTester(f, s), Len(ring) < RingSlots,
           NEW q, q = Append(ring, f)
    PROVE  /\ q \in Seq(Frame(AnyByte))
           /\ Len(q) = Len(ring) + 1 /\ Len(q) <= RingSlots
           /\ Len(ring) \in Nat
           /\ \A i \in 1 .. Len(ring) : q[i] = ring[i]
           /\ q[Len(q)] = f
           /\ \A i \in 1 .. Len(q) : FromTester(q[i], s)
<1>1. ring \in Seq(Frame(AnyByte)) /\ RingInv /\ SenderInv
  BY DEF TypeInd
<1>2. PICK n \in Nat : n = Len(ring)
  BY <1>1
<1>3. /\ q \in Seq(Frame(AnyByte)) /\ Len(q) = n + 1
      /\ (\A i \in 1 .. n : q[i] = ring[i]) /\ q[n + 1] = f
  BY <1>1, <1>2, AppendProperties
<1>4. sender.msg \in Nat
  BY <1>1, SenderFacts
<1>5. \A i \in 1 .. n : FromTester(ring[i], s)
  BY <1>1, <1>2, <1>4, LaterFrames DEF RingInv
<1>6. RingSlots \in Nat
  BY LinkConstants
<1>7. ASSUME NEW i \in 1 .. Len(q) PROVE FromTester(q[i], s)
  <2>1. i \in 1 .. n \/ i = n + 1
    BY <1>2, <1>3
  <2>2. QED
    BY <1>3, <1>5, <2>1
<1>8. QED
  BY <1>2, <1>3, <1>6, <1>7

\* The frame receive() takes out of it.
LEMMA RingShrinks ==
    ASSUME TypeInd, ring # <<>>, NEW q, q = Tail(ring)
    PROVE  /\ q \in Seq(Frame(AnyByte))
           /\ Len(ring) \in Nat \ {0} /\ Len(q) = Len(ring) - 1 /\ Len(q) <= RingSlots
           /\ \A i \in 1 .. Len(q) : q[i] = ring[i + 1]
           /\ Head(ring) = ring[1] /\ Head(ring) \in Frame(AnyByte)
           /\ FromTester(Head(ring), sender.msg)
           /\ \A i \in 1 .. Len(q) : FromTester(q[i], sender.msg)
<1>1. ring \in Seq(Frame(AnyByte)) /\ RingInv /\ Len(ring) <= RingSlots
  BY DEF TypeInd
<1>2. PICK n \in Nat \ {0} : n = Len(ring)
  BY <1>1, EmptySeq
<1>3. /\ q \in Seq(Frame(AnyByte)) /\ Len(q) = n - 1
      /\ \A i \in 1 .. n - 1 : q[i] = ring[i + 1]
      /\ Head(ring) \in Frame(AnyByte)
  BY <1>1, <1>2, HeadTailProperties
<1>4. Head(ring) = ring[1]
  BY <1>1
<1>5. \A i \in 1 .. n : FromTester(ring[i], sender.msg)
  BY <1>1, <1>2 DEF RingInv
<1>6. ASSUME NEW i \in 1 .. Len(q) PROVE FromTester(q[i], sender.msg)
  <2>1. PICK j \in 1 .. n : j = i + 1
    BY <1>2, <1>3
  <2>2. q[i] = ring[j]
    BY <1>2, <1>3, <2>1
  <2>3. QED
    BY <1>5, <2>2
<1>7. RingSlots \in Nat
  BY LinkConstants
<1>8. 1 \in 1 .. n
  BY <1>2
<1>9. QED
  BY <1>1, <1>2, <1>3, <1>4, <1>5, <1>6, <1>7, <1>8

-----------------------------------------------------------------------------
(* Receiving.                                                              *)

\* The fields of the receive side.
LEMMA RxTypes ==
    ASSUME NEW r, RxIs(r)
    PROVE  /\ r.state \in {"Idle", "Receiving"} /\ r.buf \in Seq(AnyByte)
           /\ Len(r.buf) \in Nat /\ r.expected \in Nat
           /\ r.sn \in 0 .. SnMod - 1 /\ r.deadline \in Tick /\ r.ready \in BOOLEAN
BY DEF RxIs, RxObject

\* The fields of a frame.
LEMMA FrameTypes ==
    ASSUME NEW f \in Frame(AnyByte)
    PROVE  /\ f.pci \in 0 .. 3 /\ f.n \in Nat /\ f.dlc \in 0 .. CanDl
           /\ f.data \in Seq(AnyByte) /\ Len(f.data) \in Nat /\ f.bs \in 0 .. 255
BY DEF Frame

\* The request a frame belongs to.
LEMMA FrameOfRequest ==
    ASSUME SenderInv, NEW f, FromTester(f, sender.msg), Carries(f)
    PROVE  /\ Of(f) \in 1 .. sender.msg /\ Of(f) \in 1 .. Len(lengths)
           /\ lengths[Of(f)] \in Nat /\ lengths[Of(f)] >= 1
           /\ lengths[Of(f)] < MaxPayload
<1>1. Of(f) \in 1 .. sender.msg
  BY DEF FromTester
<1>2. sender.msg \in 0 .. Len(lengths) /\ Len(lengths) \in Nat
  BY SenderFacts
<1>3. Of(f) \in 1 .. Len(lengths)
  BY <1>1, <1>2
<1>4. QED
  BY <1>1, <1>3, SenderFacts

\* A Single Frame is delivered as it is.
LEMMA SFStep ==
    ASSUME TypeInd, NEW f \in Frame(AnyByte), FromTester(f, sender.msg), HandleSF(f)
    PROVE  /\ RxIs(rx')
           /\ Starts(f) /\ Of(f) \in 1 .. sender.msg
           /\ rx'.ready /\ rx'.state = "Idle"
           /\ rx'.buf = Bytes(Of(f), lengths[Of(f)])
           /\ rx'.buf[1].msg = Of(f)
           /\ UNCHANGED <<tx, buffer, mailboxes>>
<1>1. f.pci = SingleFrame /\ Carries(f) /\ Starts(f)
  BY DEF HandleSF, SingleFrameOk, Carries, Starts, SingleFrame, FlowControl
<1>2. SenderInv /\ RxIs(rx)
  BY DEF TypeInd
<1>3. PICK m, len : m = Of(f) /\ len = lengths[m]
  OBVIOUS
<1>4. /\ m \in 1 .. sender.msg /\ m \in 0 .. Len(lengths) /\ Len(lengths) \in Nat
      /\ len \in Nat /\ len >= 1 /\ len < MaxPayload
  <2>1. /\ m \in 1 .. sender.msg /\ m \in 1 .. Len(lengths)
        /\ len \in Nat /\ len >= 1 /\ len < MaxPayload
    BY <1>1, <1>2, <1>3, FrameOfRequest
  <2>2. Len(lengths) \in Nat
    BY <1>2, SenderFacts
  <2>3. QED
    BY <2>1, <2>2
<1>5. f.n = len /\ f.data = Bytes(m, len)
  BY <1>1, <1>3 DEF FromTester
<1>6. len \in 0 .. MaxPayload /\ len \in 1 .. MaxPayload /\ len \in 0 .. len
  BY <1>4, Sizes
<1>7. SubSeq(f.data, 1, f.n) = Bytes(m, len)
  BY <1>4, <1>5, <1>6, Prefix
<1>8. rx' = [rx EXCEPT !.ready = TRUE, !.state = "Idle", !.expected = len,
                       !.buf = Bytes(m, len)]
  BY <1>5, <1>7 DEF HandleSF
<1>9. Bytes(m, len) \in Seq(AnyByte) /\ Len(Bytes(m, len)) = len
  BY <1>4, <1>6, BytesSeq
<1>10. Bytes(m, len)[1].msg = m
  BY <1>4, <1>6, FirstByte
<1>11. rx \in RxObject(AnyByte)
  BY <1>2 DEF RxIs
<1>12. /\ rx' \in RxObject(AnyByte)
       /\ rx'.ready /\ rx'.state = "Idle" /\ rx'.buf = Bytes(m, len) /\ rx'.expected = len
  BY <1>4, <1>8, <1>9, <1>11 DEF RxObject
<1>13. RxIs(rx')
  BY <1>4, <1>9, <1>12 DEF RxIs
<1>14. QED
  BY <1>1, <1>3, <1>4, <1>10, <1>12, <1>13 DEF HandleSF

\* The flow control frame an accepted First Frame is answered with.
LEMMA AnswerTyped ==
    FlowControlFrame(ContinueToSend) \in Frame(AnyByte)
<1>1. FlowControlByte(ContinueToSend) \div 16 = 0 /\ FlowControlByte(ContinueToSend) % 16 = 0
  BY DEF FlowControlByte, ContinueToSend
<1>2. FlowControlFrame(ContinueToSend)
        = [id |-> TxId, pci |-> 0, n |-> 0, dlc |-> 3, data |-> <<>>, bs |-> BlockSize]
  BY <1>1 DEF FlowControlFrame
<1>3. 3 \in 0 .. CanDl /\ BlockSize \in 0 .. 255
  BY IsoTpConstants
<1>4. <<>> \in Seq(AnyByte)
  BY EmptySeq
<1>5. QED
  BY <1>2, <1>3, <1>4 DEF Frame

\* A First Frame starts a reception, whatever was under way.
LEMMA FFStep ==
    ASSUME TypeInd, NEW f \in Frame(AnyByte), FromTester(f, sender.msg),
           HandleFF(f, tick)
    PROVE  /\ RxIs(rx') /\ MailboxesAre(mailboxes')
           /\ Starts(f) /\ f.pci = FirstFrame /\ Of(f) \in 1 .. sender.msg
           /\ rx'.state = "Receiving" /\ ~rx'.ready
           /\ rx'.buf = Bytes(Of(f), FfData)
           /\ rx'.buf[1].msg = Of(f) /\ Len(rx'.buf) = FfData
           /\ rx'.expected = lengths[Of(f)] /\ rx'.sn = 1 % SnMod
           /\ UNCHANGED <<tx, buffer>>
<1>1. f.pci = FirstFrame /\ Carries(f) /\ Starts(f)
  BY DEF HandleFF, FirstFrameOk, Carries, Starts, FirstFrame, FlowControl
<1>2. SenderInv /\ MailboxesAre(mailboxes) /\ tick \in Tick
  BY DEF TypeInd
<1>3. PICK m, len : m = Of(f) /\ len = lengths[m]
  OBVIOUS
<1>4. /\ m \in 1 .. sender.msg /\ m \in 0 .. Len(lengths) /\ Len(lengths) \in Nat
      /\ len \in Nat /\ len >= 1 /\ len < MaxPayload
  <2>1. /\ m \in 1 .. sender.msg /\ m \in 1 .. Len(lengths)
        /\ len \in Nat /\ len >= 1 /\ len < MaxPayload
    BY <1>1, <1>2, <1>3, FrameOfRequest
  <2>2. Len(lengths) \in Nat
    BY <1>2, SenderFacts
  <2>3. QED
    BY <2>1, <2>2
<1>5. f.n = len /\ f.data = Bytes(m, FfData) /\ len > SfMax
  BY <1>1, <1>3 DEF FromTester
<1>6. /\ FfData \in 0 .. MaxPayload /\ FfData \in 1 .. MaxPayload
      /\ FfData \in 0 .. FfData /\ FfData < len
  BY <1>4, <1>5, Sizes
<1>7. SubSeq(f.data, 1, FfData) = Bytes(m, FfData)
  BY <1>4, <1>5, <1>6, Prefix
<1>8. rx' = [state |-> "Receiving", buf |-> Bytes(m, FfData), expected |-> len,
             sn |-> 1 % SnMod, deadline |-> (tick + NCr) % TickMod, ready |-> FALSE]
  BY <1>5, <1>7 DEF HandleFF
<1>9. Bytes(m, FfData) \in Seq(AnyByte) /\ Len(Bytes(m, FfData)) = FfData
  BY <1>4, <1>6, BytesSeq
<1>10. Bytes(m, FfData)[1].msg = m /\ Bytes(m, FfData) # <<>>
  BY <1>4, <1>6, FirstByte
<1>11. 1 % SnMod \in 0 .. SnMod - 1 /\ (tick + NCr) % TickMod \in Tick
  <2>1. PICK a \in Nat : a = tick + NCr
    BY <1>2, IsoTpConstants DEF Tick
  <2>2. QED
    BY <2>1, Widths
<1>12. RxIs(rx')
  BY <1>4, <1>6, <1>8, <1>9, <1>10, <1>11 DEF RxIs, RxObject
<1>13. MailboxesAre(mailboxes')
  <2>1. mailboxes' = IF TxMailboxes - Len(mailboxes) > 0
                     THEN Append(mailboxes, FlowControlFrame(ContinueToSend))
                     ELSE mailboxes
    BY DEF HandleFF, Room
  <2>2. PICK b \in Frame(AnyByte) : b = FlowControlFrame(ContinueToSend)
    BY AnswerTyped
  <2>3. QED
    BY <1>2, <2>1, <2>2, IsoTpConstants DEF MailboxesAre
<1>14. UNCHANGED <<tx, buffer>>
  BY DEF HandleFF
<1>15. QED
  BY <1>1, <1>3, <1>4, <1>8, <1>9, <1>10, <1>12, <1>13, <1>14

\* What a Consecutive Frame that is accepted adds.
LEMMA CFStep ==
    ASSUME TypeInd, NEW f \in Frame(AnyByte), FromTester(f, sender.msg),
           ForUs(f), HandleCF(f, tick)
    PROVE  /\ RxIs(rx')
           /\ f.pci = ConsecutiveFrame /\ Carries(f) /\ f.n = rx.sn
           /\ rx.state = "Receiving"
           /\ rx'.buf[1] = rx.buf[1]
           /\ rx'.expected = rx.expected /\ rx'.sn = (rx.sn + 1) % SnMod
           /\ rx'.state = "Idle" => rx'.ready /\ Len(rx'.buf) = rx.expected
           /\ UNCHANGED <<tx, buffer, mailboxes>>
<1>1. /\ f.pci = ConsecutiveFrame /\ rx.state = "Receiving" /\ f.n = rx.sn
      /\ UNCHANGED <<tx, buffer, mailboxes>>
  BY DEF HandleCF, ConsecutiveFrameOk
<1>2. Carries(f)
  BY <1>1 DEF Carries, ConsecutiveFrame, FlowControl
<1>3. RxIs(rx) /\ SenderInv /\ tick \in Tick
  BY DEF TypeInd
<1>4. /\ rx.buf \in Seq(AnyByte) /\ rx.buf # <<>> /\ rx.expected \in Nat
      /\ rx.expected < MaxPayload
      /\ Len(rx.buf) < rx.expected /\ rx.sn \in 0 .. SnMod - 1 /\ ~rx.ready
      /\ rx \in RxObject(AnyByte)
  BY <1>1, <1>3, RxTypes DEF RxIs
<1>5. PICK k \in Nat, e \in Nat : k = Len(rx.buf) /\ e = rx.expected
  BY <1>4
<1>6. k >= 1 /\ k < e
  BY <1>4, <1>5, EmptySeq
<1>7. PICK d \in Nat : d = Len(f.data) /\ f.dlc = d + 1
  BY <1>1, <1>2, FrameTypes DEF FromTester
<1>8. CfData \in Nat /\ CfData >= 1 /\ MaxPayload \in Nat
  BY Sizes
<1>9. d >= 1
  BY <1>1, <1>2, <1>7, EmptySeq, FrameTypes DEF FromTester
<1>10. PICK n \in Nat : /\ n = BytesCopied(f)
                        /\ n >= 1 /\ n <= d /\ n <= e - k
  <2>1. BytesCopied(f) = Smaller(Smaller(e - k, CfData), d)
    <3>1. rx.expected - Len(rx.buf) = e - k /\ f.dlc - 1 = d
      BY <1>5, <1>7
    <3>2. QED
      BY <3>1 DEF BytesCopied
  <2>2. PICK a \in Nat : a = e - k /\ a >= 1
    BY <1>6
  <2>3. BytesCopied(f) = Smaller(Smaller(a, CfData), d)
    BY <2>1, <2>2
  <2>4. QED
    BY <1>8, <1>9, <2>2, <2>3 DEF Smaller
<1>11. PICK piece : piece = SubSeq(f.data, 1, n)
  OBVIOUS
<1>12. piece \in Seq(AnyByte) /\ Len(piece) = n
  BY <1>7, <1>10, <1>11, FrameTypes
<1>13. PICK received : received = rx.buf \o piece
  OBVIOUS
<1>14. /\ received \in Seq(AnyByte) /\ Len(received) = k + n
       /\ received[1] = rx.buf[1] /\ received # <<>>
  <2>1. PICK b \in Seq(AnyByte) : b = rx.buf
    BY <1>4
  <2>2. /\ b \o piece \in Seq(AnyByte) /\ Len(b \o piece) = Len(b) + Len(piece)
        /\ \A i \in 1 .. Len(b) + Len(piece) :
              (b \o piece)[i] = IF i <= Len(b) THEN b[i] ELSE piece[i - Len(b)]
    BY <1>12, ConcatProperties
  <2>3. Len(b) = k /\ 1 \in 1 .. k + n /\ 1 <= k
    BY <1>5, <1>6, <1>10, <2>1
  <2>4. received \in Seq(AnyByte) /\ Len(received) = k + n /\ received[1] = rx.buf[1]
    BY <1>12, <1>13, <2>1, <2>2, <2>3
  <2>5. QED
    BY <2>3, <2>4, EmptySeq
<1>15. PICK due \in Tick : due = (tick + NCr) % TickMod
  <2>1. PICK a \in Nat : a = tick + NCr
    BY <1>3, IsoTpConstants DEF Tick
  <2>2. QED
    BY <2>1, Widths
<1>16. PICK next \in 0 .. SnMod - 1 : next = (rx.sn + 1) % SnMod
  <2>1. PICK a \in Nat : a = rx.sn + 1
    BY <1>4, Sizes
  <2>2. QED
    BY <2>1, Widths
<1>17. rx' = [rx EXCEPT !.buf = received, !.sn = next, !.deadline = due,
                        !.state = IF Len(received) >= rx.expected THEN "Idle" ELSE @,
                        !.ready = @ \/ Len(received) >= rx.expected]
  BY <1>10, <1>11, <1>13, <1>15, <1>16 DEF HandleCF
<1>18. CASE k + n >= e
  <2>1. rx' = [rx EXCEPT !.buf = received, !.sn = next, !.deadline = due,
                         !.state = "Idle", !.ready = TRUE]
    BY <1>4, <1>5, <1>14, <1>17, <1>18
  <2>2. rx' \in RxObject(AnyByte) /\ rx'.buf = received /\ rx'.expected = e /\ rx'.ready
        /\ rx'.state = "Idle" /\ rx'.sn = next
    BY <1>4, <1>5, <1>14, <2>1 DEF RxObject
  <2>3. Len(received) = e /\ e > 0
    BY <1>6, <1>10, <1>14, <1>18
  <2>4. QED
    BY <1>1, <1>2, <1>4, <1>5, <1>14, <1>16, <2>2, <2>3 DEF RxIs
<1>19. CASE ~(k + n >= e)
  <2>1. rx' = [rx EXCEPT !.buf = received, !.sn = next, !.deadline = due,
                         !.state = "Receiving", !.ready = FALSE]
    BY <1>1, <1>4, <1>5, <1>14, <1>17, <1>19
  <2>2. rx' \in RxObject(AnyByte) /\ rx'.buf = received /\ rx'.expected = e /\ ~rx'.ready
        /\ rx'.state = "Receiving" /\ rx'.sn = next
    BY <1>1, <1>4, <1>5, <1>14, <2>1 DEF RxObject
  <2>3. Len(received) < e
    BY <1>14, <1>19
  <2>4. QED
    BY <1>1, <1>2, <1>4, <1>5, <1>14, <1>16, <2>2, <2>3 DEF RxIs
<1>20. QED
  BY <1>18, <1>19

\* get_data() and the N_Cr time-out.
LEMMA RxPass ==
    ASSUME NEW r, RxIs(r), NEW now
    PROVE  /\ RxIs(RxUpdate(r, now))
           /\ RxIs(AfterGetData(r))
           /\ RxUpdate(r, now).ready = r.ready
           /\ \/ RxUpdate(r, now) = r
              \/ RxUpdate(r, now).state = "Idle" /\ ~r.ready
           /\ r.ready => ~AfterGetData(r).ready /\ AfterGetData(r).state = "Idle"
<1>1. /\ r \in RxObject(AnyByte) /\ <<>> \in Seq(AnyByte)
      /\ 0 \in Tick /\ 0 \in Nat /\ MaxPayload \in Nat /\ MaxPayload > 0
  BY EmptySeq, Sizes DEF RxIs, Tick
<1>2. CASE r.state = "Receiving" /\ Past(r.deadline, now)
  <2>1. RxUpdate(r, now) = [r EXCEPT !.state = "Idle", !.buf = <<>>, !.expected = 0,
                                     !.deadline = 0]
    BY <1>2 DEF RxUpdate
  <2>2. ~r.ready
    BY <1>2 DEF RxIs
  <2>3. PICK t : t = RxUpdate(r, now)
    OBVIOUS
  <2>4. t \in RxObject(AnyByte) /\ t.state = "Idle" /\ t.ready = r.ready /\ t.expected = 0
    BY <1>1, <2>1, <2>3 DEF RxObject
  <2>5. RxIs(t)
    BY <1>1, <2>2, <2>4 DEF RxIs
  <2>6. QED
    BY <2>2, <2>3, <2>4, <2>5 DEF AfterGetData
<1>3. CASE ~(r.state = "Receiving" /\ Past(r.deadline, now))
  <2>1. RxUpdate(r, now) = r
    BY <1>3 DEF RxUpdate
  <2>2. CASE ~r.ready
    BY <2>1, <2>2 DEF AfterGetData
  <2>3. CASE r.ready
    <3>1. PICK t : t = AfterGetData(r)
      OBVIOUS
    <3>2. t = [r EXCEPT !.ready = FALSE, !.buf = <<>>] /\ r.state = "Idle"
      BY <2>3, <3>1 DEF AfterGetData, RxIs
    <3>3. t \in RxObject(AnyByte) /\ t.state = "Idle" /\ ~t.ready /\ t.expected = r.expected
      BY <1>1, <3>2 DEF RxObject
    <3>4. RxIs(t)
      BY <3>3 DEF RxIs
    <3>5. QED
      BY <2>1, <3>1, <3>3, <3>4
  <2>4. QED
    BY <2>2, <2>3
<1>4. QED
  BY <1>2, <1>3

-----------------------------------------------------------------------------
(* Transmitting.                                                           *)

\* A Consecutive Frame of the transmission, read out of the caller's buffer.
LEMMA CFTyped ==
    ASSUME tx \in TxObject, buffer \in Seq(AnyByte), Len(buffer) = MaxPayload,
           NEW offset \in Nat, offset < tx.total, NEW sn \in 0 .. SnMod - 1
    PROVE  ConsecutiveFrameAt(offset, sn) \in Frame(AnyByte)
<1>1. PICK total \in Nat : total = tx.total /\ total <= MaxPayload
  BY Sizes DEF TxObject
<1>2. CfData \in Nat /\ CfData >= 1 /\ CfData = CanDl - 1 /\ CanDl \in Nat /\ SnMod \in Nat
  BY Sizes
<1>3. PICK a \in Nat : a = offset + CfData
  BY <1>2
<1>4. PICK last \in Nat : /\ last = Smaller(a, total)
                          /\ offset < last /\ last <= total /\ last <= offset + CfData
  BY <1>1, <1>2, <1>3 DEF Smaller
<1>5. last = Smaller(offset + CfData, tx.total)
  BY <1>1, <1>3, <1>4
<1>6. ConsecutiveFrameAt(offset, sn)
        = [id |-> TxId, pci |-> ConsecutiveFrame, n |-> sn, dlc |-> last - offset + 1,
           data |-> SubSeq(buffer, offset + 1, last), bs |-> 0]
  BY <1>5 DEF ConsecutiveFrameAt
<1>7. SubSeq(buffer, offset + 1, last) \in Seq(AnyByte)
  <2>1. offset + 1 \in Int /\ last \in Int /\ \A i \in offset + 1 .. last : i \in 1 .. Len(buffer)
    BY <1>1, <1>4
  <2>2. \A i \in offset + 1 .. last : buffer[i] \in AnyByte
    BY <2>1, ElementOfSeq
  <2>3. QED
    BY <2>1, <2>2, SubSeqProperties
<1>8. last - offset + 1 \in 0 .. CanDl /\ sn \in Nat /\ ConsecutiveFrame \in 0 .. 3
  BY <1>2, <1>4 DEF ConsecutiveFrame
<1>9. QED
  BY <1>6, <1>7, <1>8 DEF Frame

\* A block: what it leaves to send starts where the sequence number says.
LEMMA BlockStep ==
    ASSUME TypeInd, tx.state = "WaitFC", NEW bs \in 0 .. 255, SendNextCFs(bs, tick)
    PROVE  TxIs(tx') /\ MailboxesAre(mailboxes')
<1>1. TxIs(tx) /\ MailboxesAre(mailboxes) /\ tick \in Tick /\ buffer \in Seq(AnyByte)
      /\ Len(buffer) = MaxPayload
  BY DEF TypeInd
<1>2. PICK total \in Nat, offset \in Nat, sn \in 0 .. SnMod - 1 :
         total = tx.total /\ offset = tx.offset /\ sn = tx.sn
         /\ offset < total /\ total <= MaxPayload /\ tx \in TxObject
  BY <1>1, Sizes DEF TxIs, TxObject
<1>3. PICK j \in Nat : offset = FfData + j * CfData /\ sn = (j + 1) % SnMod
  BY <1>1, <1>2, Sizes DEF TxIs
<1>4. /\ CfData \in Nat \ {0} /\ CfData >= 1 /\ FfData \in Nat /\ MaxPayload \in Nat
      /\ SnMod \in Nat \ {0} /\ TxMailboxes \in Nat
  BY Sizes, IsoTpConstants
<1>5. PICK a \in Nat : a = total - offset /\ a > 0
  BY <1>2
<1>6. PICK left \in Nat : left = CfsLeft /\ left = (a + CfData - 1) \div CfData /\ left > 0
  <2>1. CfsLeft = (a + CfData - 1) \div CfData
    BY <1>2, <1>5 DEF CfsLeft
  <2>2. QED
    BY <1>4, <1>5, <2>1, PiecesCover
<1>7. PICK room \in Nat : room = Room
  <2>1. Len(mailboxes) \in Nat /\ Len(mailboxes) <= TxMailboxes
    BY <1>1 DEF MailboxesAre
  <2>2. Room = TxMailboxes - Len(mailboxes)
    BY DEF Room
  <2>3. QED
    BY <1>4, <2>1, <2>2
<1>8. PICK block \in Nat : block = (IF bs = 0 THEN CfsLeft ELSE Smaller(bs, CfsLeft))
                           /\ block <= left
  BY <1>6 DEF Smaller
<1>9. PICK sent \in Nat : sent = Smaller(block, Room) /\ sent <= block /\ sent <= room
  BY <1>7, <1>8 DEF Smaller
<1>10. ASSUME NEW k \in Nat, k < left PROVE k * CfData \in Nat /\ k * CfData < a
  BY <1>4, <1>5, <1>6, <1>10, PiecesFit
<1>11. PICK go \in Nat : go = sent * CfData
  BY <1>4
<1>12. /\ mailboxes' = mailboxes \o
              [i \in 1 .. sent |->
                  ConsecutiveFrameAt(offset + (i - 1) * CfData, (sn + i - 1) % SnMod)]
       /\ tx' = [tx EXCEPT
              !.offset = Smaller(offset + go, total),
              !.sn = (sn + sent) % SnMod,
              !.state = IF sent < block THEN "Sending"
                        ELSE IF block = left THEN "Idle" ELSE "WaitFC",
              !.deadline = IF sent = block /\ block # left
                           THEN (tick + NBs) % TickMod ELSE @]
  BY <1>2, <1>6, <1>8, <1>9, <1>11 DEF SendNextCFs
<1>13. MailboxesAre(mailboxes')
  <2>1. ASSUME NEW i \in 1 .. sent
        PROVE  ConsecutiveFrameAt(offset + (i - 1) * CfData, (sn + i - 1) % SnMod)
                  \in Frame(AnyByte)
    <3>1. PICK k \in Nat : k = i - 1 /\ k < left
      BY <1>8, <1>9
    <3>2. PICK here \in Nat : here = offset + k * CfData /\ here < total
      BY <1>2, <1>5, <1>10, <3>1
    <3>3. PICK b \in Nat : b = sn + k
      BY <1>4, <3>1
    <3>4. PICK s \in 0 .. SnMod - 1 : s = b % SnMod
      BY <3>3, Widths
    <3>5. ConsecutiveFrameAt(here, s) \in Frame(AnyByte)
      BY <1>1, <1>2, <3>2, <3>4, CFTyped
    <3>6. here = offset + (i - 1) * CfData
      BY <3>1, <3>2
    <3>7. sn + i - 1 = b
      BY <1>4, <3>1, <3>3
    <3>8. QED
      BY <3>4, <3>5, <3>6, <3>7
  <2>2. PICK frames : frames = [i \in 1 .. sent |->
             ConsecutiveFrameAt(offset + (i - 1) * CfData, (sn + i - 1) % SnMod)]
    OBVIOUS
  <2>3. frames \in Seq(Frame(AnyByte)) /\ Len(frames) = sent
    BY <2>1, <2>2
  <2>4. mailboxes' = mailboxes \o frames
    BY <1>12, <2>2
  <2>5. PICK b \in Seq(Frame(AnyByte)) : b = mailboxes
    BY <1>1 DEF MailboxesAre
  <2>6. b \o frames \in Seq(Frame(AnyByte)) /\ Len(b \o frames) = Len(b) + Len(frames)
    BY <2>3, ConcatProperties
  <2>7. Len(b) + sent <= TxMailboxes
    BY <1>4, <1>7, <1>9, <2>5 DEF Room
  <2>8. QED
    BY <2>3, <2>4, <2>5, <2>6, <2>7 DEF MailboxesAre
<1>14. TxIs(tx')
  <2>1. PICK newOffset \in Nat : /\ newOffset = Smaller(offset + go, total)
                                 /\ newOffset <= total
                                 /\ offset + go < total => newOffset = offset + go
    BY <1>2, <1>11 DEF Smaller
  <2>2. PICK newSn \in 0 .. SnMod - 1 : newSn = (sn + sent) % SnMod
    <3>1. PICK b \in Nat : b = sn + sent
      BY <1>4
    <3>2. QED
      BY <3>1, Widths
  <2>3. PICK due \in Tick : due = (tick + NBs) % TickMod
    <3>1. PICK b \in Nat : b = tick + NBs
      BY <1>1, IsoTpConstants DEF Tick
    <3>2. QED
      BY <3>1, Widths
  <2>4. /\ tx' \in TxObject
        /\ tx'.state # "Idle" => sent < block \/ block # left
        /\ tx'.offset = newOffset /\ tx'.total = total /\ tx'.sn = newSn
    <3>1. newOffset \in 0 .. MaxPayload
      BY <1>2, <1>4, <2>1
    <3>2. QED
      BY <1>2, <1>12, <2>1, <2>2, <2>3, <3>1 DEF TxObject
  <2>5. CASE tx'.state = "Idle"
    BY <2>4, <2>5 DEF TxIs
  <2>6. CASE tx'.state # "Idle"
    <3>1. sent < left
      BY <1>8, <1>9, <2>4, <2>6
    <3>2. newOffset = offset + go /\ newOffset < total
      BY <1>2, <1>5, <1>10, <1>11, <2>1, <3>1
    <3>3. PICK i \in Nat : i = j + sent
      OBVIOUS
    <3>4. i * CfData = j * CfData + go /\ i <= i * CfData
      BY <1>4, <1>11, <3>3
    <3>5. newOffset = FfData + i * CfData
      BY <1>3, <1>4, <1>11, <3>2, <3>4
    <3>6. i \in 0 .. MaxPayload
      BY <1>2, <1>4, <3>2, <3>4, <3>5
    <3>7. newSn = (i + 1) % SnMod
      <4>1. PICK b \in Nat : b = j + 1
        OBVIOUS
      <4>2. ((b % SnMod) + sent) % SnMod = (b + sent) % SnMod
        BY <1>4, RemainderOfSum
      <4>3. b + sent = i + 1
        BY <3>3, <4>1
      <4>4. sn = b % SnMod
        BY <1>3, <4>1
      <4>5. QED
        BY <2>2, <4>2, <4>3, <4>4
    <3>8. QED
      BY <2>4, <3>2, <3>5, <3>6, <3>7 DEF TxIs
  <2>7. QED
    BY <2>5, <2>6
<1>15. QED
  BY <1>13, <1>14

\* A flow control frame moves the transmission only.
LEMMA FCStep ==
    ASSUME TypeInd, NEW f \in Frame(AnyByte), HandleFC(f, tick)
    PROVE  /\ TxIs(tx') /\ MailboxesAre(mailboxes')
           /\ ~Carries(f)
           /\ UNCHANGED <<rx, buffer>>
<1>1. /\ f.pci = FlowControl /\ tx.state = "WaitFC" /\ UNCHANGED <<rx, buffer>>
      /\ ~Carries(f)
  BY DEF HandleFC, FlowControlOk, Carries
<1>2. CASE f.n = Wait /\ tx' = [tx EXCEPT !.deadline = (tick + NBs) % TickMod]
           /\ UNCHANGED mailboxes
  <2>1. PICK due \in Tick : due = (tick + NBs) % TickMod
    <3>1. PICK b \in Nat : b = tick + NBs
      BY IsoTpConstants DEF TypeInd, Tick
    <3>2. QED
      BY <3>1, Widths
  <2>2. TxIs(tx) /\ MailboxesAre(mailboxes)
    BY DEF TypeInd
  <2>3. /\ tx' \in TxObject /\ tx'.offset = tx.offset /\ tx'.total = tx.total
        /\ tx'.sn = tx.sn /\ tx'.state = tx.state
    BY <1>2, <2>1, <2>2 DEF TxIs, TxObject
  <2>4. QED
    BY <1>1, <1>2, <2>2, <2>3 DEF TxIs
<1>3. CASE f.n = ContinueToSend /\ SendNextCFs(f.bs, tick)
  BY <1>1, <1>3, BlockStep, FrameTypes
<1>4. QED
  BY <1>2, <1>3 DEF HandleFC

\* send(): one frame at most, and a transmission that starts after it.
LEMMA SendPass ==
    ASSUME TypeInd, NEW m \in 0 .. Len(lengths), NEW len \in 0 .. MaxPayload,
           NEW data, data = Bytes(m, len)
    PROVE  TxIs(TxAfterSend(data, tick)) /\ MailboxesAre(MailboxesAfterSend(data))
<1>1. TxIs(tx) /\ MailboxesAre(mailboxes) /\ tick \in Tick /\ Len(lengths) \in Nat
  BY SenderFacts DEF TypeInd
<1>2. data \in Seq(AnyByte) /\ Len(data) = len /\ len \in Nat /\ len <= MaxPayload
  BY <1>1, BytesSeq, Sizes
<1>3. /\ CanDl \in Nat /\ SfMax = CanDl - 1 /\ FfData = CanDl - 2 /\ CanDl > 3
      /\ FfData \in Nat /\ MaxPayload \in Nat /\ LenMod \in Nat \ {0} /\ SfMax \in Nat
      /\ SnMod \in Nat \ {0} /\ CanDl < MaxPayload
  BY Sizes, IsoTpConstants
<1>4. TxIs(TxAfterSend(data, tick))
  <2>1. CASE ~(Sendable(data) /\ len > SfMax)
    BY <1>1, <1>2, <2>1 DEF TxAfterSend
  <2>2. CASE Sendable(data) /\ len > SfMax
    <3>1. PICK due \in Tick : due = (tick + NBs) % TickMod
      <4>1. PICK b \in Nat : b = tick + NBs
        BY <1>1, IsoTpConstants DEF Tick
      <4>2. QED
        BY <4>1, Widths
    <3>2. PICK s \in 0 .. SnMod - 1 : s = 1 % SnMod
      BY Widths
    <3>3. PICK t : t = TxAfterSend(data, tick)
      OBVIOUS
    <3>4. t = [state |-> "WaitFC", total |-> len, offset |-> FfData, sn |-> s,
               deadline |-> due]
      BY <1>2, <2>2, <3>1, <3>2, <3>3 DEF TxAfterSend
    <3>5. t \in TxObject
      BY <1>2, <1>3, <3>4 DEF TxObject
    <3>6. t.offset < t.total
      BY <1>2, <1>3, <2>2, <3>4
    <3>7. 0 \in 0 .. MaxPayload /\ FfData = FfData + 0 * CfData /\ 1 = 0 + 1
      BY <1>3, Sizes
    <3>8. t.offset = FfData + 0 * CfData /\ t.sn = (0 + 1) % SnMod
      BY <3>2, <3>4, <3>7
    <3>9. QED
      BY <3>3, <3>5, <3>6, <3>7, <3>8 DEF TxIs
  <2>3. QED
    BY <2>1, <2>2
<1>5. MailboxesAre(MailboxesAfterSend(data))
  <2>1. CASE ~Sendable(data)
    BY <1>1, <2>1 DEF MailboxesAfterSend
  <2>2. CASE Sendable(data)
    <3>1. TxMailboxes - Len(mailboxes) > 0
      BY <2>2 DEF Sendable, Room
    <3>2. PICK f : f = IF len <= SfMax THEN SingleFrameOf(data) ELSE FirstFrameOf(data)
      OBVIOUS
    <3>3. f \in Frame(AnyByte)
      <4>1. CASE len <= SfMax
        <5>1. f = [id |-> TxId, pci |-> SingleFrame, n |-> len, dlc |-> len + 1,
                   data |-> data, bs |-> 0]
          BY <1>2, <3>2, <4>1 DEF SingleFrameOf
        <5>2. len + 1 \in 0 .. CanDl /\ SingleFrame \in 0 .. 3
          BY <1>2, <1>3, <4>1 DEF SingleFrame
        <5>3. QED
          BY <1>2, <5>1, <5>2 DEF Frame
      <4>2. CASE ~(len <= SfMax)
        <5>1. f = [id |-> TxId, pci |-> FirstFrame, n |-> len % LenMod, dlc |-> CanDl,
                   data |-> SubSeq(data, 1, FfData), bs |-> 0]
          BY <1>2, <3>2, <4>2 DEF FirstFrameOf
        <5>2. CanDl \in 0 .. CanDl /\ FirstFrame \in 0 .. 3 /\ len % LenMod \in Nat
          BY <1>2, <1>3 DEF FirstFrame
        <5>3. SubSeq(data, 1, FfData) \in Seq(AnyByte)
          BY <1>2, <1>3, <4>2
        <5>4. QED
          BY <5>1, <5>2, <5>3 DEF Frame
      <4>3. QED
        BY <4>1, <4>2
    <3>4. MailboxesAfterSend(data) = Append(mailboxes, f)
      BY <1>2, <2>2, <3>2 DEF MailboxesAfterSend
    <3>5. QED
      BY <1>1, <3>1, <3>3, <3>4, IsoTpConstants DEF MailboxesAre
  <2>3. QED
    BY <2>1, <2>2
<1>6. QED
  BY <1>4, <1>5

\* The N_Bs time-out.
LEMMA TxPass ==
    ASSUME NEW t, TxIs(t), NEW now
    PROVE  TxIs(TxUpdate(t, now))
<1>1. CASE t.state = "WaitFC" /\ Past(t.deadline, now)
  <2>1. PICK u : u = TxUpdate(t, now)
    OBVIOUS
  <2>2. u = [t EXCEPT !.state = "Idle"]
    BY <1>1, <2>1 DEF TxUpdate
  <2>3. u \in TxObject /\ u.state = "Idle"
    BY <2>2 DEF TxIs, TxObject
  <2>4. QED
    BY <2>1, <2>3 DEF TxIs
<1>2. CASE ~(t.state = "WaitFC" /\ Past(t.deadline, now))
  BY <1>2 DEF TxUpdate
<1>3. QED
  BY <1>1, <1>2

-----------------------------------------------------------------------------
(* Types are kept.                                                         *)

\* What a pass makes of the frame at the head of the ring, whatever it is.
LEMMA FeedStep ==
    ASSUME TypeInd, NEW f \in Frame(AnyByte), FromTester(f, sender.msg),
           ProcessFrame(f, tick)
    PROVE  RxIs(rx') /\ TxIs(tx') /\ MailboxesAre(mailboxes') /\ UNCHANGED buffer
<1>1. RxIs(rx) /\ TxIs(tx) /\ MailboxesAre(mailboxes)
  BY DEF TypeInd
<1>2. CASE HandleSF(f)
  BY <1>1, <1>2, SFStep
<1>3. CASE HandleFF(f, tick)
  BY <1>1, <1>3, FFStep
<1>4. CASE ForUs(f) /\ HandleCF(f, tick)
  BY <1>1, <1>4, CFStep
<1>5. CASE HandleFC(f, tick)
  BY <1>1, <1>5, FCStep
<1>6. CASE Discard(f)
  BY <1>1, <1>6 DEF Discard, isotpVars
<1>7. QED
  BY <1>2, <1>3, <1>4, <1>5, <1>6 DEF ProcessFrame

\* The object as constructed, and a plan of requests.
LEMMA InitTypes == Init => TypeInd
<1> SUFFICES ASSUME Init PROVE TypeInd
  OBVIOUS
<1>1. lengths \in RequestPlans /\ Len(lengths) \in Nat
  BY LengthsOf DEF Init
<1>2. /\ 0 \in Tick /\ MaxPayload \in Nat /\ MaxPayload > 0 /\ SnMod \in Nat \ {0}
      /\ TxMailboxes \in Nat /\ RingSlots \in Nat
  BY Sizes, IsoTpConstants, LinkConstants DEF Tick
<1>3. RxIs(rx)
  BY <1>2, EmptySeq DEF Init, NewRx, RxIs, RxObject
<1>4. TxIs(tx)
  BY <1>2 DEF Init, NewTx, TxIs, TxObject
<1>5. MailboxesAre(mailboxes)
  BY <1>2, EmptySeq DEF Init, MailboxesAre
<1>6. ring \in Seq(Frame(AnyByte)) /\ Len(ring) = 0 /\ RingInv
  BY <1>2, EmptySeq DEF Init, RingInv
<1>7. buffer \in Seq(AnyByte) /\ Len(buffer) = MaxPayload
  <2>1. Padding \in AnyByte
    BY <1>1, <1>2 DEF Padding, AnyByte
  <2>2. QED
    BY <1>2, <2>1 DEF Init
<1>8. SenderInv
  BY <1>1, <1>2 DEF Init, SenderInv
<1>9. QED
  BY <1>1, <1>2, <1>3, <1>4, <1>5, <1>6, <1>7, <1>8 DEF Init, TypeInd

\* One step per action.
LEMMA NextTypes == TypeInd /\ [Next]_vars => TypeInd'
<1> SUFFICES ASSUME TypeInd, [Next]_vars PROVE TypeInd'
  OBVIOUS
<1>1. /\ RxIs(rx) /\ TxIs(tx) /\ MailboxesAre(mailboxes)
      /\ buffer \in Seq(AnyByte) /\ Len(buffer) = MaxPayload
      /\ ring \in Seq(Frame(AnyByte)) /\ Len(ring) <= RingSlots /\ RingInv
      /\ tick \in Tick
      /\ taken \in 0 .. Len(lengths)
      /\ SenderInv
  BY DEF TypeInd
<1>2. /\ sender.msg \in 0 .. Len(lengths) /\ Len(lengths) \in Nat
      /\ sender.offset \in 0 .. MaxPayload /\ sender.sn \in 0 .. SnMod - 1
      /\ lengths \in RequestPlans
  BY <1>1, SenderFacts DEF SenderInv
<1>3. ASSUME lengths' = lengths, sender' = sender PROVE SenderInv'
  BY <1>1, <1>3 DEF SenderInv
<1>4. ASSUME lengths' = lengths, sender' = sender, ring' = ring PROVE RingInv'
  BY <1>1, <1>4, RingPrime DEF RingInv
<1>5. CASE SendRequest
  <2>1. PICK m, len, f :
           /\ m = sender.msg + 1 /\ len = lengths[m]
           /\ f = IF len <= SfMax
                  THEN TesterFrame(SingleFrame, len, len + 1, Bytes(m, len))
                  ELSE TesterFrame(FirstFrame, len, CanDl,
                                   SubSeq(Bytes(m, len), 1, FfData))
           /\ m <= Len(lengths)
           /\ sender' = [msg |-> m, offset |-> Len(f.data), sn |-> 1 % SnMod]
           /\ \/ Len(ring) < RingSlots /\ ring' = Append(ring, f)
              \/ ring' = ring
    BY <1>5 DEF SendRequest
  <2>2. UNCHANGED <<isotpVars, lengths, tick, taken>>
    BY <1>5 DEF SendRequest
  <2>3. /\ f \in Frame(AnyByte) /\ FromTester(f, m)
        /\ Len(f.data) \in 1 .. len
    BY <1>1, <2>1, RequestFrame
  <2>4. m \in Nat /\ sender.msg <= m /\ m \in 1 .. Len(lengths) /\ len < MaxPayload /\ len \in Nat
    BY <1>1, <1>2, <2>1, SenderFacts
  <2>5. SenderInv'
    <3>1. 1 % SnMod \in 0 .. SnMod - 1
      BY Widths
    <3>2. Len(f.data) \in 0 .. MaxPayload
      BY <2>3, <2>4, Sizes
    <3>3. sender' \in [msg : 0 .. Len(lengths), offset : 0 .. MaxPayload, sn : 0 .. SnMod - 1]
      BY <2>1, <2>4, <3>1, <3>2
    <3>4. sender'.offset \in 1 .. lengths[sender'.msg]
      BY <2>1, <2>3
    <3>5. lengths' = lengths
      BY <2>2
    <3>6. QED
      BY <1>2, <3>3, <3>4, <3>5 DEF SenderInv
  <2>6. /\ ring' \in Seq(Frame(AnyByte)) /\ Len(ring') <= RingSlots
        /\ \A i \in 1 .. Len(ring') : FromTester(ring'[i], m)
    <3>1. CASE ring' = ring
      BY <1>1, <1>2, <2>4, <3>1, LaterFrames DEF RingInv
    <3>2. CASE Len(ring) < RingSlots /\ ring' = Append(ring, f)
      BY <2>3, <2>4, <3>2, RingGrows
    <3>3. QED
      BY <2>1, <3>1, <3>2
  <2>7. RingInv'
    BY <2>1, <2>2, <2>6, RingPrime
  <2>8. QED
    BY <1>1, <2>2, <2>5, <2>6, <2>7, TypePrime DEF isotpVars
<1>6. CASE SendConsecutive
  <2>1. PICK m, len, last :
           /\ m = sender.msg /\ len = lengths[m] /\ last = Smaller(sender.offset + CfData, len)
           /\ m # 0 /\ sender.offset < len
           /\ sender' = [sender EXCEPT !.offset = last, !.sn = (@ + 1) % SnMod]
           /\ \/ ring' = ring
              \/ \E pad \in BOOLEAN :
                   LET data == Padded(SubSeq(Bytes(m, len), sender.offset + 1, last),
                                      CfData, pad)
                   IN  Arrives(TesterFrame(ConsecutiveFrame, sender.sn, Len(data) + 1, data))
    BY <1>6 DEF SendConsecutive, Lost
  <2>2. UNCHANGED <<isotpVars, lengths, tick, taken>>
    BY <1>6 DEF SendConsecutive
  <2>3. ring' = ring \/ \E f \in Frame(AnyByte) : /\ FromTester(f, m)
                                                  /\ Len(ring) < RingSlots
                                                  /\ ring' = Append(ring, f)
    BY <1>1, <2>1, PieceFrame DEF Arrives
  <2>4. last \in 1 .. len /\ len < MaxPayload /\ len \in Nat /\ m \in 1 .. Len(lengths)
    <3>1. PICK pad \in BOOLEAN : TRUE
      OBVIOUS
    <3>2. last \in 1 .. len
      BY <1>1, <2>1, <3>1, PieceFrame
    <3>3. m \in 1 .. Len(lengths)
      BY <1>2, <2>1
    <3>4. QED
      BY <1>1, <2>1, <3>2, <3>3, SenderFacts
  <2>5. PICK s \in 0 .. SnMod - 1 : s = (sender.sn + 1) % SnMod
    <3>1. PICK a \in Nat : a = sender.sn + 1
      BY <1>2, Sizes
    <3>2. QED
      BY <3>1, Widths
  <2>6. SenderInv'
    <3>1. sender' = [sender EXCEPT !.offset = last, !.sn = s]
      BY <2>1, <2>5
    <3>2. last \in 0 .. MaxPayload
      BY <2>4, Sizes
    <3>3. /\ sender' \in [msg : 0 .. Len(lengths), offset : 0 .. MaxPayload, sn : 0 .. SnMod - 1]
          /\ sender'.msg = m /\ sender'.offset = last
      BY <1>1, <2>1, <3>1, <3>2 DEF SenderInv
    <3>4. sender'.offset \in 1 .. lengths[sender'.msg]
      BY <2>1, <2>4, <3>3
    <3>5. lengths' = lengths
      BY <2>2
    <3>6. QED
      BY <1>2, <3>3, <3>4, <3>5 DEF SenderInv
  <2>7. sender'.msg = m /\ m \in Nat
    BY <1>1, <1>2, <2>1 DEF SenderInv
  <2>8. /\ ring' \in Seq(Frame(AnyByte)) /\ Len(ring') <= RingSlots
        /\ \A i \in 1 .. Len(ring') : FromTester(ring'[i], m)
    <3>1. CASE ring' = ring
      BY <1>1, <2>1, <3>1 DEF RingInv
    <3>2. ASSUME NEW f \in Frame(AnyByte), FromTester(f, m), Len(ring) < RingSlots,
                 ring' = Append(ring, f)
          PROVE  /\ ring' \in Seq(Frame(AnyByte)) /\ Len(ring') <= RingSlots
                 /\ \A i \in 1 .. Len(ring') : FromTester(ring'[i], m)
      <4>1. sender.msg <= m
        BY <2>1, <2>7
      <4>2. QED
        BY <2>7, <3>2, <4>1, RingGrows
    <3>3. QED
      BY <2>3, <3>1, <3>2
  <2>9. RingInv'
    BY <2>2, <2>7, <2>8, RingPrime
  <2>10. QED
    BY <1>1, <2>2, <2>6, <2>8, <2>9, TypePrime DEF isotpVars
<1>7. CASE SendFlowControl
  <2>1. UNCHANGED <<isotpVars, lengths, tick, sender, taken>>
    BY <1>7 DEF SendFlowControl
  <2>2. PICK fs \in {ContinueToSend, Wait, Overflow}, bs \in BlockSizes :
           Arrives([TesterFrame(FlowControl, fs, 3, <<>>) EXCEPT !.bs = bs])
    BY <1>7 DEF SendFlowControl
  <2>3. PICK f : f = [TesterFrame(FlowControl, fs, 3, <<>>) EXCEPT !.bs = bs]
    OBVIOUS
  <2>4. f = [id |-> RxId, pci |-> FlowControl, n |-> fs, dlc |-> 3, data |-> <<>>, bs |-> bs]
    BY <2>3 DEF TesterFrame
  <2>5. f \in Frame(AnyByte)
    <3>1. /\ fs \in Nat /\ 3 \in 0 .. CanDl /\ FlowControl \in 0 .. 3 /\ bs \in 0 .. 255
          /\ <<>> \in Seq(AnyByte)
      BY IsoTpConstants, LinkConstants, EmptySeq
      DEF ContinueToSend, Wait, Overflow, FlowControl
    <3>2. QED
      BY <2>4, <3>1 DEF Frame
  <2>6. FromTester(f, sender.msg)
    BY <2>4 DEF FromTester, Carries
  <2>7. Len(ring) < RingSlots /\ ring' = Append(ring, f) /\ sender.msg \in Nat
    BY <1>2, <2>2, <2>3 DEF Arrives
  <2>8. /\ ring' \in Seq(Frame(AnyByte)) /\ Len(ring') <= RingSlots
        /\ \A i \in 1 .. Len(ring') : FromTester(ring'[i], sender.msg)
    <3>1. sender.msg <= sender.msg
      BY <2>7
    <3>2. QED
      BY <2>5, <2>6, <2>7, <3>1, RingGrows
  <2>9. RingInv'
    BY <2>1, <2>8, RingPrime
  <2>10. SenderInv'
    BY <1>3, <2>1
  <2>11. QED
    BY <1>1, <2>1, <2>8, <2>9, <2>10, TypePrime DEF isotpVars
<1>8. CASE Transmit
  <2>1. /\ mailboxes # <<>> /\ mailboxes' = Tail(mailboxes)
        /\ UNCHANGED <<rx, tx, buffer, lengths, tick, ring, sender, taken>>
    BY <1>8 DEF Transmit
  <2>2. MailboxesAre(mailboxes')
    <3>1. PICK b \in Seq(Frame(AnyByte)) : b = mailboxes /\ Len(b) <= TxMailboxes
      BY <1>1 DEF MailboxesAre
    <3>2. Tail(b) \in Seq(Frame(AnyByte)) /\ Len(Tail(b)) = Len(b) - 1
      BY <2>1, <3>1, HeadTailProperties
    <3>3. Len(b) \in Nat /\ TxMailboxes \in Nat
      BY IsoTpConstants
    <3>4. QED
      BY <2>1, <3>1, <3>2, <3>3 DEF MailboxesAre
  <2>3. QED
    BY <1>1, <1>3, <1>4, <2>1, <2>2, TypePrime
<1>9. CASE FeedFrame
  <2>1. /\ ring # <<>> /\ ring' = Tail(ring) /\ ProcessFrame(Head(ring), tick)
        /\ UNCHANGED <<lengths, tick, sender, taken>>
    BY <1>9 DEF FeedFrame
  <2>2. PICK f \in Frame(AnyByte) : f = Head(ring) /\ FromTester(f, sender.msg)
    BY <2>1, RingShrinks
  <2>3. RxIs(rx') /\ TxIs(tx') /\ MailboxesAre(mailboxes') /\ UNCHANGED buffer
    BY <2>1, <2>2, FeedStep
  <2>4. /\ ring' \in Seq(Frame(AnyByte)) /\ Len(ring') <= RingSlots
        /\ \A i \in 1 .. Len(ring') : FromTester(ring'[i], sender.msg)
    BY <2>1, RingShrinks
  <2>5. RingInv'
    BY <2>1, <2>4, RingPrime
  <2>6. QED
    BY <1>1, <1>3, <2>1, <2>3, <2>4, <2>5, TypePrime
<1>10. CASE IdlePass
  <2>1. /\ rx' = RxUpdate(rx, tick) /\ tx' = TxUpdate(tx, tick)
        /\ UNCHANGED <<buffer, mailboxes, linkVars>>
    BY <1>10 DEF IdlePass
  <2>2. RxIs(rx') /\ TxIs(tx')
    BY <1>1, <2>1, RxPass, TxPass
  <2>3. QED
    BY <1>1, <1>3, <1>4, <2>1, <2>2, TypePrime DEF linkVars
<1>11. CASE AnswerPass
  <2>1. PICK len \in ResponseLengths, written \in ResponseLengths :
          LET m == rx.buf[1].msg
              data == Bytes(m, len)
          IN  /\ buffer' = Bytes(m, written) \o SubSeq(buffer, written + 1, Len(buffer))
              /\ mailboxes' = MailboxesAfterSend(data)
              /\ tx' = TxUpdate(TxAfterSend(data, tick), tick)
              /\ rx' = RxUpdate(AfterGetData(rx), tick)
              /\ taken' = m
    BY <1>11 DEF AnswerPass
  <2>2. rx.ready /\ UNCHANGED <<lengths, tick, ring, sender>>
    BY <1>11 DEF AnswerPass
  <2>3. PICK m : m = rx.buf[1].msg
    OBVIOUS
  <2>4. m \in 0 .. Len(lengths)
    <3>1. rx.buf \in Seq(AnyByte) /\ Len(rx.buf) > 0 /\ Len(rx.buf) \in Nat
      BY <1>1, <2>2, RxTypes DEF RxIs
    <3>2. 1 \in 1 .. Len(rx.buf)
      BY <3>1
    <3>3. rx.buf[1] \in AnyByte
      BY <3>1, <3>2, ElementOfSeq
    <3>4. QED
      BY <2>3, <3>3 DEF AnyByte
  <2>5. len \in 0 .. MaxPayload /\ written \in 0 .. MaxPayload /\ MaxPayload \in Nat
    BY LinkConstants, Sizes
  <2>6. PICK data : data = Bytes(m, len)
    OBVIOUS
  <2>7. TxIs(TxAfterSend(data, tick)) /\ MailboxesAre(MailboxesAfterSend(data))
    BY <2>4, <2>5, <2>6, SendPass
  <2>8. TxIs(tx') /\ MailboxesAre(mailboxes')
    BY <2>1, <2>3, <2>6, <2>7, TxPass
  <2>9. RxIs(rx')
    BY <1>1, <2>1, RxPass
  <2>10. buffer' \in Seq(AnyByte) /\ Len(buffer') = MaxPayload
    <3>1. PICK b \in Seq(AnyByte) : b = Bytes(m, written) /\ Len(b) = written
      BY <1>2, <2>4, <2>5, BytesSeq
    <3>2. PICK c : c = SubSeq(buffer, written + 1, Len(buffer))
      OBVIOUS
    <3>3. c \in Seq(AnyByte) /\ Len(c) = MaxPayload - written
      <4>1. PICK from \in Int : from = written + 1
        BY <2>5
      <4>2. \A i \in from .. MaxPayload : buffer[i] \in AnyByte
        BY <1>1, <2>5, <4>1
      <4>3. /\ SubSeq(buffer, from, MaxPayload) \in Seq(AnyByte)
            /\ Len(SubSeq(buffer, from, MaxPayload))
                 = IF from <= MaxPayload THEN MaxPayload - from + 1 ELSE 0
        BY <2>5, <4>1, <4>2, SubSeqProperties
      <4>4. QED
        BY <1>1, <2>5, <3>2, <4>1, <4>3
    <3>4. b \o c \in Seq(AnyByte) /\ Len(b \o c) = Len(b) + Len(c)
      BY <3>3, ConcatProperties
    <3>5. buffer' = b \o c
      BY <2>1, <2>3, <3>1, <3>2
    <3>6. QED
      BY <2>5, <3>1, <3>3, <3>4, <3>5
  <2>11. taken' \in 0 .. Len(lengths)
    BY <2>1, <2>3, <2>4
  <2>12. QED
    BY <1>1, <1>3, <1>4, <2>2, <2>8, <2>9, <2>10, <2>11, TypePrime
<1>12. CASE Advance
  <2>1. UNCHANGED <<isotpVars, lengths, ring, sender, taken>>
    BY <1>12 DEF Advance
  <2>2. tick' \in Tick
    BY <1>1, <1>12, LinkConstants, Sizes DEF Advance, Tick
  <2>3. QED
    BY <1>1, <1>3, <1>4, <2>1, <2>2, TypePrime DEF isotpVars
<1>13. CASE UNCHANGED vars
  BY <1>1, <1>3, <1>4, <1>13, TypePrime DEF vars, isotpVars, linkVars
<1>14. QED
  BY <1>5, <1>6, <1>7, <1>8, <1>9, <1>10, <1>11, <1>12, <1>13 DEF Next

\* The invariant the type theorems rest on.
LEMMA TypeInvariant == Spec => []TypeInd
<1>1. QED
  BY InitTypes, NextTypes, PTL DEF Spec

\* Every variable keeps its type: no counter leaves its width, the ring and
\* the controller hold no more frames than they have room for, and a frame
\* copied into either is a frame.
THEOREM TypesCorrect == Spec => []TypeOK
<1>1. TypeInd => TypeOK
  BY DEF TypeInd, TypeOK, RxIs, TxIs, MailboxesAre
<1>2. QED
  BY <1>1, TypeInvariant, PTL

\* Reassembly: a message is offered only when every declared byte is there,
\* and no frame makes the buffer longer than what was declared.
THEOREM ReassemblyComplete == Spec => []RxInv
<1>1. TypeInd => RxInv
  BY DEF TypeInd, RxIs, RxInv
<1>2. QED
  BY <1>1, TypeInvariant, PTL

\* Segmentation: the sequence number of the next frame names its offset.
THEOREM SegmentationConsistent == Spec => []TxInv
<1>1. TypeInd => TxInv
  BY DEF TypeInd, TxIs, TxInv
<1>2. QED
  BY <1>1, TypeInvariant, PTL

-----------------------------------------------------------------------------
(* The stream of Consecutive Frames.                                       *)

\* The plan does not change, so neither does what the frames mean.
LEMMA LinkPrime ==
    ASSUME lengths' = lengths,
           OrderIs(rx', ring', taken', sender'.msg),
           ChainIs(ring', sender', broken'),
           ReceptionIs(rx', ring', sender', broken'),
           DeliveryIs(rx', broken')
    PROVE  LinkInd'
<1>1. OrderIs(rx, ring, taken, sender.msg)'
  BY DEF OrderIs, Holds, Starts, Of
<1>2. ChainIs(ring, sender, broken)'
  BY DEF ChainIs, Upto, After, Of, From, Carries
<1>3. ReceptionIs(rx, ring, sender, broken)'
  BY DEF ReceptionIs, Bytes
<1>4. DeliveryIs(rx, broken)'
  BY DEF DeliveryIs, Bytes
<1>5. QED
  BY <1>1, <1>2, <1>3, <1>4 DEF LinkInd

\* The stream ends where the sender is.
LEMMA GoesOnAtTheEnd ==
    ASSUME NEW q, NEW s, NEW n \in Nat, n = Len(q)
    PROVE  GoesOn(q, s, s, n)
BY DEF GoesOn, Silent

\* It goes on over a flow control frame, ...
LEMMA GoesOnOverFlowControl ==
    ASSUME NEW S, NEW q \in Seq(S), NEW f \in S, ~Carries(f),
           NEW r, r = Append(q, f), NEW s, NEW p, NEW i \in 0 .. Len(q),
           GoesOn(q, s, p, i)
    PROVE  GoesOn(r, s, p, i)
<1>1. PICK n \in Nat : n = Len(q)
  OBVIOUS
<1>2. Len(r) = n + 1 /\ r[n + 1] = f /\ \A j \in 1 .. n : r[j] = q[j]
  BY <1>1, AppendProperties
<1>3. i \in 0 .. n
  BY <1>1
<1>4. ASSUME NEW j \in i .. n PROVE Silent(r, i, j) <=> Silent(q, i, j)
  BY <1>2, <1>3 DEF Silent
<1>5. Silent(r, i, Len(r)) => s = p
  <2>1. Silent(r, i, n + 1) => Silent(r, i, n)
    <3>1. \A l \in i + 1 .. n : l \in i + 1 .. n + 1
      BY <1>3
    <3>2. QED
      BY <3>1 DEF Silent
  <2>2. Silent(q, i, n) => s = p
    BY <1>1 DEF GoesOn
  <2>3. n \in i .. n
    BY <1>3
  <2>4. QED
    BY <1>2, <1>4, <2>1, <2>2, <2>3
<1>6. ASSUME NEW j \in i + 1 .. Len(r), Carries(r[j]), Silent(r, i, j - 1)
      PROVE  r[j].pci = ConsecutiveFrame /\ Before(r[j]) = p
  <2>1. j \in i + 1 .. n
    <3>1. j \in i + 1 .. n \/ j = n + 1
      BY <1>2, <1>3
    <3>2. QED
      BY <1>2, <1>6, <3>1
  <2>2. PICK k \in i .. n : k = j - 1
    BY <1>3, <2>1
  <2>3. Silent(q, i, j - 1)
    BY <1>4, <1>6, <2>2
  <2>4. r[j] = q[j]
    BY <1>2, <1>3, <2>1
  <2>5. QED
    BY <1>1, <1>6, <2>1, <2>3, <2>4 DEF GoesOn
<1>7. QED
  BY <1>5, <1>6 DEF GoesOn

\* ... over the Consecutive Frame the sender sends next, ...
LEMMA GoesOnOverPiece ==
    ASSUME NEW S, NEW q \in Seq(S), NEW f \in S,
           NEW r, r = Append(q, f), NEW s, NEW u, NEW p, NEW i \in 0 .. Len(q),
           Carries(f), f.pci = ConsecutiveFrame, Before(f) = s,
           GoesOn(q, s, p, i)
    PROVE  GoesOn(r, u, p, i)
<1>1. PICK n \in Nat : n = Len(q)
  OBVIOUS
<1>2. Len(r) = n + 1 /\ r[n + 1] = f /\ \A j \in 1 .. n : r[j] = q[j]
  BY <1>1, AppendProperties
<1>3. i \in 0 .. n
  BY <1>1
<1>4. ASSUME NEW j \in i .. n PROVE Silent(r, i, j) <=> Silent(q, i, j)
  BY <1>2, <1>3 DEF Silent
<1>5. ~Silent(r, i, Len(r))
  <2>1. n + 1 \in i + 1 .. Len(r)
    BY <1>2, <1>3
  <2>2. QED
    BY <1>2, <2>1 DEF Silent
<1>6. ASSUME NEW j \in i + 1 .. Len(r), Carries(r[j]), Silent(r, i, j - 1)
      PROVE  r[j].pci = ConsecutiveFrame /\ Before(r[j]) = p
  <2>1. CASE j \in i + 1 .. n
    <3>1. PICK k \in i .. n : k = j - 1
      BY <1>3, <2>1
    <3>2. Silent(q, i, j - 1)
      BY <1>4, <1>6, <3>1
    <3>3. r[j] = q[j]
      BY <1>2, <1>3, <2>1
    <3>4. QED
      BY <1>1, <1>6, <2>1, <3>2, <3>3 DEF GoesOn
  <2>2. CASE j = n + 1
    <3>1. j - 1 = n /\ n \in i .. n
      BY <1>3, <2>2
    <3>2. Silent(q, i, n)
      BY <1>4, <1>6, <3>1
    <3>3. s = p
      BY <1>1, <3>2 DEF GoesOn
    <3>4. QED
      BY <1>2, <2>2, <3>3
  <2>3. j \in i + 1 .. n \/ j = n + 1
    BY <1>2, <1>3
  <2>4. QED
    BY <2>1, <2>2, <2>3
<1>7. QED
  BY <1>5, <1>6 DEF GoesOn

\* ... and, once its next frame is in the ring, whatever the sender does.
LEMMA GoesOnLater ==
    ASSUME NEW S, NEW q \in Seq(S), NEW s, NEW u, NEW p, NEW i \in 0 .. Len(q),
           ~Silent(q, i, Len(q)), GoesOn(q, s, p, i)
    PROVE  /\ GoesOn(q, u, p, i)
           /\ \A f \in S : GoesOn(Append(q, f), u, p, i)
<1>1. GoesOn(q, u, p, i)
  BY DEF GoesOn
<1>2. ASSUME NEW f \in S PROVE GoesOn(Append(q, f), u, p, i)
  <2>1. PICK r : r = Append(q, f)
    OBVIOUS
  <2>2. PICK n \in Nat : n = Len(q)
    OBVIOUS
  <2>3. Len(r) = n + 1 /\ r[n + 1] = f /\ \A j \in 1 .. n : r[j] = q[j]
    BY <2>1, <2>2, AppendProperties
  <2>4. i \in 0 .. n
    BY <2>2
  <2>5. PICK l \in i + 1 .. n : Carries(q[l])
    BY <2>2 DEF Silent
  <2>6. r[l] = q[l] /\ Carries(r[l])
    BY <2>3, <2>4, <2>5
  <2>7. ~Silent(r, i, Len(r))
    BY <2>3, <2>4, <2>5, <2>6 DEF Silent
  <2>8. ASSUME NEW j \in i + 1 .. Len(r), Carries(r[j]), Silent(r, i, j - 1)
        PROVE  r[j].pci = ConsecutiveFrame /\ Before(r[j]) = p
    <3>1. j # n + 1
      <4>1. CASE j = n + 1
        <5>1. l \in i + 1 .. j - 1
          BY <2>4, <2>5, <4>1
        <5>2. QED
          BY <2>6, <2>8, <5>1 DEF Silent
      <4>2. QED
        BY <4>1
    <3>2. j \in i + 1 .. n
      BY <2>3, <2>4, <3>1
    <3>3. r[j] = q[j]
      BY <2>3, <2>4, <3>2
    <3>4. Silent(q, i, j - 1)
      <4>1. ASSUME NEW k \in i + 1 .. j - 1 PROVE ~Carries(q[k])
        <5>1. k \in 1 .. n
          BY <2>4, <3>2
        <5>2. r[k] = q[k] /\ ~Carries(r[k])
          BY <2>3, <2>8, <5>1 DEF Silent
        <5>3. QED
          BY <5>2
      <4>2. QED
        BY <4>1 DEF Silent
    <3>5. QED
      BY <2>2, <2>8, <3>2, <3>3, <3>4 DEF GoesOn
  <2>9. GoesOn(r, u, p, i)
    BY <2>7, <2>8 DEF GoesOn
  <2>10. QED
    BY <2>1, <2>9
<1>3. QED
  BY <1>1, <1>2

\* The head of the ring leaves it.
LEMMA GoesOnBehind ==
    ASSUME NEW S, NEW q \in Seq(S), q # <<>>, NEW r, r = Tail(q),
           NEW s, NEW p, NEW i \in 0 .. Len(r), GoesOn(q, s, p, i + 1)
    PROVE  GoesOn(r, s, p, i)
<1>1. PICK n \in Nat : n = Len(r)
  BY HeadTailProperties
<1>2. Len(q) = n + 1 /\ \A j \in 1 .. n : r[j] = q[j + 1]
  <2>1. Len(r) = Len(q) - 1 /\ Len(q) \in Nat /\ \A j \in 1 .. Len(r) : r[j] = q[j + 1]
    BY HeadTailProperties
  <2>2. QED
    BY <1>1, <2>1
<1>3. i \in 0 .. n
  BY <1>1
<1>4. ASSUME NEW j \in i .. n, Silent(r, i, j) PROVE Silent(q, i + 1, j + 1)
  <2>1. ASSUME NEW k \in i + 2 .. j + 1 PROVE ~Carries(q[k])
    <3>1. PICK l \in i + 1 .. j : k = l + 1
      <4>1. k - 1 \in i + 1 .. j /\ k = (k - 1) + 1
        BY <1>3
      <4>2. QED
        BY <4>1
    <3>2. l \in 1 .. n
      BY <1>3
    <3>3. r[l] = q[k]
      BY <1>2, <3>1, <3>2
    <3>4. QED
      BY <1>4, <3>1, <3>3 DEF Silent
  <2>2. (i + 1) + 1 = i + 2
    BY <1>3
  <2>3. QED
    BY <2>1, <2>2 DEF Silent
<1>5. Silent(r, i, Len(r)) => s = p
  <2>1. n \in i .. n
    BY <1>3
  <2>2. Silent(q, i + 1, n + 1) => s = p
    BY <1>2 DEF GoesOn
  <2>3. QED
    BY <1>1, <1>4, <2>1, <2>2
<1>6. ASSUME NEW j \in i + 1 .. Len(r), Carries(r[j]), Silent(r, i, j - 1)
      PROVE  r[j].pci = ConsecutiveFrame /\ Before(r[j]) = p
  <2>1. PICK k \in i .. n : k = j - 1
    BY <1>1, <1>3
  <2>2. PICK h \in i + 2 .. n + 1 : h = j + 1
    BY <1>1, <1>3
  <2>3. k + 1 = h - 1 /\ j \in 1 .. n /\ h \in (i + 1) + 1 .. Len(q)
    BY <1>1, <1>2, <1>3, <2>1, <2>2
  <2>4. r[j] = q[h]
    BY <1>2, <2>2, <2>3
  <2>5. Silent(q, i + 1, h - 1)
    <3>1. Silent(q, i + 1, k + 1)
      BY <1>4, <1>6, <2>1
    <3>2. QED
      BY <2>3, <3>1
  <2>6. QED
    BY <1>6, <2>3, <2>4, <2>5 DEF GoesOn
<1>7. QED
  BY <1>5, <1>6 DEF GoesOn

\* A head that carries nothing is no part of the stream.
LEMMA GoesOnPastHead ==
    ASSUME NEW q, Len(q) \in Nat \ {0}, NEW s, NEW p, ~Carries(q[1]), GoesOn(q, s, p, 0)
    PROVE  GoesOn(q, s, p, 1)
<1>1. ASSUME NEW j \in Nat, Silent(q, 1, j) PROVE Silent(q, 0, j)
  <2>1. ASSUME NEW l \in 0 + 1 .. j PROVE ~Carries(q[l])
    <3>1. l = 1 \/ l \in 1 + 1 .. j
      OBVIOUS
    <3>2. QED
      BY <1>1, <3>1 DEF Silent
  <2>2. QED
    BY <2>1 DEF Silent
<1>2. Silent(q, 1, Len(q)) => s = p
  BY <1>1 DEF GoesOn
<1>3. ASSUME NEW j \in 1 + 1 .. Len(q), Carries(q[j]), Silent(q, 1, j - 1)
      PROVE  q[j].pci = ConsecutiveFrame /\ Before(q[j]) = p
  <2>1. PICK k \in Nat : k = j - 1
    <3>1. j - 1 \in Nat
      OBVIOUS
    <3>2. QED
      BY <3>1
  <2>2. Silent(q, 0, j - 1)
    BY <1>1, <1>3, <2>1
  <2>3. j \in 0 + 1 .. Len(q)
    OBVIOUS
  <2>4. QED
    BY <1>3, <2>2, <2>3 DEF GoesOn
<1>4. QED
  BY <1>2, <1>3 DEF GoesOn

-----------------------------------------------------------------------------
(* Delivery.                                                               *)

\* Nothing sent yet.
LEMMA InitLink == Init => LinkInd
BY EmptySeq DEF Init, NewRx, LinkInd, OrderIs, Holds, ChainIs, ReceptionIs, DeliveryIs

\* Frames lost or requests given up only widen b.
LEMMA MoreBroken ==
    ASSUME NEW r, NEW q, NEW s, NEW b, NEW c, b \subseteq c
    PROVE  /\ ChainIs(q, s, b) => ChainIs(q, s, c)
           /\ ReceptionIs(r, q, s, b) => ReceptionIs(r, q, s, c)
           /\ DeliveryIs(r, b) => DeliveryIs(r, c)
BY DEF ChainIs, ReceptionIs, DeliveryIs

\* A stream that no frame of the ring continues is continued by the sender,
\* which is still in the same request.
LEMMA WaitsForSender ==
    ASSUME TypeInd, NEW p, p.msg # 0, p.offset < lengths[p.msg],
           NEW i, GoesOn(ring, sender, p, i), Silent(ring, i, Len(ring))
    PROVE  sender.msg = p.msg /\ sender.msg # 0 /\ sender.offset < lengths[sender.msg]
BY DEF GoesOn

\* A request that starts.
LEMMA RequestLink ==
    ASSUME TypeInd, LinkInd, SendRequest
    PROVE  LinkInd'
<1>1. PICK m, len, f, given :
         /\ m = sender.msg + 1 /\ len = lengths[m]
         /\ f = IF len <= SfMax
                THEN TesterFrame(SingleFrame, len, len + 1, Bytes(m, len))
                ELSE TesterFrame(FirstFrame, len, CanDl,
                                 SubSeq(Bytes(m, len), 1, FfData))
         /\ m <= Len(lengths)
         /\ sender' = [msg |-> m, offset |-> Len(f.data), sn |-> 1 % SnMod]
         /\ given = (sender.msg # 0 /\ sender.offset < lengths[sender.msg])
         /\ \/ /\ Len(ring) < RingSlots /\ ring' = Append(ring, f)
               /\ broken' = broken \cup (IF given THEN {sender.msg} ELSE {})
            \/ /\ ring' = ring
               /\ broken' = broken \cup (IF given THEN {sender.msg} ELSE {}) \cup {m}
  BY DEF SendRequest
<1>2. UNCHANGED <<rx, lengths, taken>>
  BY DEF SendRequest, isotpVars
<1>3. /\ SenderInv /\ ring \in Seq(Frame(AnyByte)) /\ Len(ring) \in Nat
      /\ RxIs(rx) /\ RingInv /\ taken \in 0 .. Len(lengths)
  BY DEF TypeInd
<1>4. /\ f \in Frame(AnyByte) /\ FromTester(f, m) /\ Starts(f) /\ Of(f) = m
      /\ After(f) = sender'
  BY <1>1, <1>3, RequestFrame
<1>5. /\ OrderIs(rx, ring, taken, sender.msg) /\ ChainIs(ring, sender, broken)
      /\ ReceptionIs(rx, ring, sender, broken) /\ DeliveryIs(rx, broken)
  BY DEF LinkInd
<1>6. sender.msg \in Nat /\ m \in Nat /\ taken \in Nat /\ Len(lengths) \in Nat
  BY <1>1, <1>3, SenderFacts
<1>7. broken \subseteq broken' /\ (given => sender.msg \in broken') /\ given \in BOOLEAN
  BY <1>1
<1>8. ring' = ring \/ ring' = Append(ring, f)
  BY <1>1
<1>9. ASSUME NEW p, NEW i \in 0 .. Len(ring), p.msg # 0, p.msg \notin broken',
             p.offset < lengths[p.msg], GoesOn(ring, sender, p, i)
      PROVE  GoesOn(ring', sender', p, i)
  <2>1. ~Silent(ring, i, Len(ring))
    BY <1>1, <1>7, <1>9, WaitsForSender
  <2>2. PICK u : u = sender'
    OBVIOUS
  <2>3. GoesOn(ring, u, p, i) /\ GoesOn(Append(ring, f), u, p, i)
    BY <1>3, <1>4, <1>9, <2>1, GoesOnLater
  <2>4. QED
    BY <1>8, <2>2, <2>3
<1>10. PICK n \in Nat : n = Len(ring)
  BY <1>3
<1>11. PICK q : q = Append(ring, f)
  OBVIOUS
<1>12. /\ q \in Seq(Frame(AnyByte)) /\ Len(q) = n + 1 /\ q[n + 1] = f
       /\ \A i \in 1 .. n : q[i] = ring[i]
  BY <1>3, <1>4, <1>10, <1>11, AppendProperties
<1>13. \A i \in 1 .. n : Carries(ring[i]) =>
          Of(ring[i]) \in 1 .. sender.msg
  BY <1>3, <1>10 DEF RingInv, FromTester
<1>14. OrderIs(rx', ring', taken', sender'.msg)
  <2>1. sender'.msg = m /\ rx' = rx /\ taken' = taken
    BY <1>1, <1>2
  <2>2. \A i \in 1 .. n : Starts(ring[i]) => Of(ring[i]) \in 1 .. sender.msg
    BY <1>13 DEF Starts, Carries, SingleFrame, FirstFrame, FlowControl
  <2>3. Holds(rx) => rx.buf[1].msg \in taken + 1 .. sender.msg
    BY <1>5 DEF OrderIs
  <2>4. taken <= sender.msg
    BY <1>5 DEF OrderIs
  <2>5. CASE ring' = ring
    <3>0. m = sender.msg + 1
      BY <1>1
    <3>1. Holds(rx) => rx.buf[1].msg \in taken + 1 .. m
      BY <1>6, <2>3, <3>0
    <3>2. taken <= m
      BY <1>6, <2>4, <3>0
    <3>3. OrderIs(rx, ring, taken, m)
      BY <1>5, <1>6, <3>1, <3>2 DEF OrderIs
    <3>4. QED
      BY <2>1, <2>5, <3>3
  <2>6. CASE ring' = q
    <3>1. ASSUME NEW i \in 1 .. Len(q), Starts(q[i])
          PROVE  /\ Of(q[i]) > taken
                 /\ Holds(rx) => Of(q[i]) > rx.buf[1].msg
                 /\ \A j \in 1 .. i - 1 : Starts(q[j]) => Of(q[j]) < Of(q[i])
      <4>1. CASE i \in 1 .. n
        <5>1. q[i] = ring[i] /\ \A j \in 1 .. i - 1 : q[j] = ring[j]
          BY <1>12, <4>1
        <5>2. QED
          BY <1>5, <1>10, <3>1, <4>1, <5>1 DEF OrderIs
      <4>2. CASE i = n + 1
        <5>1. \A j \in 1 .. i - 1 : j \in 1 .. n /\ q[j] = ring[j]
          BY <1>12, <4>2
        <5>2. q[i] = f /\ Of(q[i]) = m
          BY <1>4, <1>12, <4>2
        <5>3. QED
          BY <1>1, <1>6, <2>2, <2>3, <2>4, <5>1, <5>2
      <4>3. QED
        BY <1>12, <4>1, <4>2
    <3>2. QED
      BY <1>1, <1>6, <2>1, <2>3, <2>4, <2>6, <3>1 DEF OrderIs
  <2>7. QED
    BY <1>8, <1>11, <2>5, <2>6
<1>15. ChainIs(ring', sender', broken')
  <2>1. ASSUME NEW i \in 1 .. n, Carries(ring[i]), Of(ring[i]) \notin broken',
               Upto(ring[i]) < lengths[Of(ring[i])]
        PROVE  GoesOn(ring', sender', After(ring[i]), i)
    <3>1. Of(ring[i]) \notin broken
      BY <1>7, <2>1
    <3>2. GoesOn(ring, sender, After(ring[i]), i)
      BY <1>5, <1>10, <2>1, <3>1 DEF ChainIs
    <3>3. PICK p : p = After(ring[i])
      OBVIOUS
    <3>4. p.msg = Of(ring[i]) /\ p.offset = Upto(ring[i])
      BY <3>3 DEF After
    <3>5. p.msg # 0 /\ i \in 0 .. Len(ring)
      BY <1>6, <1>10, <1>13, <2>1, <3>4
    <3>6. QED
      BY <1>9, <2>1, <3>2, <3>3, <3>4, <3>5
  <2>2. CASE ring' = ring
    BY <1>10, <2>1, <2>2 DEF ChainIs
  <2>3. CASE ring' = q
    <3>1. ASSUME NEW i \in 1 .. Len(q), Carries(q[i]), Of(q[i]) \notin broken',
                 Upto(q[i]) < lengths[Of(q[i])]
          PROVE  GoesOn(q, sender', After(q[i]), i)
      <4>1. CASE i \in 1 .. n
        BY <1>12, <2>1, <2>3, <3>1, <4>1
      <4>2. CASE i = n + 1
        <5>1. After(q[i]) = sender'
          BY <1>4, <1>12, <4>2
        <5>2. PICK u : u = sender'
          OBVIOUS
        <5>3. PICK k \in Nat : k = n + 1
          OBVIOUS
        <5>4. GoesOn(q, u, u, k)
          BY <1>12, <5>3, GoesOnAtTheEnd
        <5>5. QED
          BY <4>2, <5>1, <5>2, <5>3, <5>4
      <4>3. QED
        BY <1>12, <4>1, <4>2
    <3>2. QED
      BY <2>3, <3>1 DEF ChainIs
  <2>4. QED
    BY <1>8, <1>11, <2>2, <2>3
<1>16. ReceptionIs(rx', ring', sender', broken')
  <2>1. SUFFICES ASSUME rx.state = "Receiving", rx.buf[1].msg \notin broken'
                 PROVE  /\ rx.buf = Bytes(rx.buf[1].msg, Len(rx.buf))
                        /\ rx.expected = lengths[rx.buf[1].msg]
                        /\ GoesOn(ring', sender', At(rx), 0)
    BY <1>2 DEF ReceptionIs
  <2>2. /\ rx.buf = Bytes(rx.buf[1].msg, Len(rx.buf))
        /\ rx.expected = lengths[rx.buf[1].msg]
        /\ GoesOn(ring, sender, At(rx), 0)
    BY <1>5, <1>7, <2>1 DEF ReceptionIs
  <2>3. PICK p : p = At(rx)
    OBVIOUS
  <2>4. p.msg = rx.buf[1].msg /\ p.offset = Len(rx.buf)
    BY <2>3 DEF At
  <2>5. p.msg # 0
    BY <1>5, <1>6, <2>1, <2>4 DEF OrderIs, Holds
  <2>6. p.offset < lengths[p.msg]
    BY <1>3, <2>1, <2>2, <2>4 DEF RxIs
  <2>7. GoesOn(ring', sender', p, 0)
    BY <1>9, <1>10, <2>1, <2>2, <2>3, <2>4, <2>5, <2>6
  <2>8. QED
    BY <2>2, <2>3, <2>7
<1>17. DeliveryIs(rx', broken')
  BY <1>2, <1>5, <1>7, MoreBroken
<1>18. QED
  BY <1>2, <1>14, <1>15, <1>16, <1>17, LinkPrime

\* A Consecutive Frame sent, or lost.
LEMMA PieceLink ==
    ASSUME TypeInd, LinkInd, SendConsecutive
    PROVE  LinkInd'
<1>1. PICK m, len, last :
         /\ m = sender.msg /\ len = lengths[m] /\ last = Smaller(sender.offset + CfData, len)
         /\ m # 0 /\ sender.offset < len
         /\ sender' = [sender EXCEPT !.offset = last, !.sn = (@ + 1) % SnMod]
         /\ \/ ring' = ring /\ broken' = broken \cup {m}
            \/ \E pad \in BOOLEAN :
                 LET data == Padded(SubSeq(Bytes(m, len), sender.offset + 1, last),
                                    CfData, pad)
                 IN  Arrives(TesterFrame(ConsecutiveFrame, sender.sn, Len(data) + 1, data))
  BY DEF SendConsecutive, Lost
<1>2. UNCHANGED <<rx, lengths, taken>>
  BY DEF SendConsecutive, isotpVars
<1>3. /\ SenderInv /\ ring \in Seq(Frame(AnyByte)) /\ RxIs(rx) /\ RingInv
  BY DEF TypeInd
<1>4. /\ OrderIs(rx, ring, taken, sender.msg) /\ ChainIs(ring, sender, broken)
      /\ ReceptionIs(rx, ring, sender, broken) /\ DeliveryIs(rx, broken)
  BY DEF LinkInd
<1>5. sender'.msg = sender.msg /\ sender.msg \in Nat
  <2>1. sender \in [msg : 0 .. Len(lengths), offset : 0 .. MaxPayload, sn : 0 .. SnMod - 1]
    BY <1>3 DEF SenderInv
  <2>2. sender.msg \in Nat
    BY <1>3, SenderFacts
  <2>3. QED
    BY <1>1, <2>1, <2>2
<1>6. PICK n \in Nat : n = Len(ring)
  BY <1>3
<1>7. \A i \in 1 .. n : Carries(ring[i]) => Of(ring[i]) \in 1 .. sender.msg
  BY <1>3, <1>6 DEF RingInv, FromTester
\* The two outcomes, each with what it does to the stream behind a frame.
<1>8. CASE ring' = ring /\ broken' = broken \cup {m}
  <2>1. ASSUME NEW p, NEW i \in 0 .. Len(ring), p.msg # 0, p.msg \notin broken',
               p.offset < lengths[p.msg], GoesOn(ring, sender, p, i)
        PROVE  GoesOn(ring, sender', p, i)
    <3>1. ~Silent(ring, i, Len(ring))
      BY <1>1, <1>8, <2>1, WaitsForSender
    <3>2. PICK u : u = sender'
      OBVIOUS
    <3>3. GoesOn(ring, u, p, i)
      BY <1>3, <2>1, <3>1, GoesOnLater
    <3>4. QED
      BY <3>2, <3>3
  <2>2. broken \subseteq broken'
    BY <1>8
  <2>3. ChainIs(ring', sender', broken')
    <3>1. ASSUME NEW i \in 1 .. n, Carries(ring[i]), Of(ring[i]) \notin broken',
                 Upto(ring[i]) < lengths[Of(ring[i])]
          PROVE  GoesOn(ring, sender', After(ring[i]), i)
      <4>1. GoesOn(ring, sender, After(ring[i]), i)
        BY <1>4, <1>6, <2>2, <3>1 DEF ChainIs
      <4>2. PICK p : p = After(ring[i])
        OBVIOUS
      <4>3. p.msg = Of(ring[i]) /\ p.offset = Upto(ring[i])
        BY <4>2 DEF After
      <4>4. p.msg # 0 /\ i \in 0 .. Len(ring)
        BY <1>5, <1>6, <1>7, <3>1, <4>3
      <4>5. QED
        BY <2>1, <3>1, <4>1, <4>2, <4>3, <4>4
    <3>2. QED
      BY <1>6, <1>8, <3>1 DEF ChainIs
  <2>4. ReceptionIs(rx', ring', sender', broken')
    <3>1. SUFFICES ASSUME rx.state = "Receiving", rx.buf[1].msg \notin broken'
                   PROVE  /\ rx.buf = Bytes(rx.buf[1].msg, Len(rx.buf))
                          /\ rx.expected = lengths[rx.buf[1].msg]
                          /\ GoesOn(ring, sender', At(rx), 0)
      BY <1>2, <1>8 DEF ReceptionIs
    <3>2. /\ rx.buf = Bytes(rx.buf[1].msg, Len(rx.buf))
          /\ rx.expected = lengths[rx.buf[1].msg]
          /\ GoesOn(ring, sender, At(rx), 0)
      BY <1>4, <2>2, <3>1 DEF ReceptionIs
    <3>3. PICK p : p = At(rx)
      OBVIOUS
    <3>4. p.msg = rx.buf[1].msg /\ p.offset = Len(rx.buf)
      BY <3>3 DEF At
    <3>5. p.msg # 0
      <4>1. taken \in Nat
        BY <1>3, SenderFacts DEF TypeInd
      <4>2. QED
        BY <1>4, <1>5, <3>1, <3>4, <4>1 DEF OrderIs, Holds
    <3>6. p.offset < lengths[p.msg]
      BY <1>3, <3>1, <3>2, <3>4 DEF RxIs
    <3>7. GoesOn(ring, sender', p, 0)
      BY <1>6, <2>1, <3>1, <3>2, <3>3, <3>4, <3>5, <3>6
    <3>8. QED
      BY <3>2, <3>3, <3>7
  <2>5. OrderIs(rx', ring', taken', sender'.msg) /\ DeliveryIs(rx', broken')
    BY <1>2, <1>4, <1>5, <1>8, <2>2, MoreBroken
  <2>6. QED
    BY <1>2, <2>3, <2>4, <2>5, LinkPrime
<1>9. ASSUME NEW pad \in BOOLEAN,
             LET data == Padded(SubSeq(Bytes(m, len), sender.offset + 1, last), CfData, pad)
             IN  Arrives(TesterFrame(ConsecutiveFrame, sender.sn, Len(data) + 1, data))
      PROVE  LinkInd'
  <2>1. PICK data : data = Padded(SubSeq(Bytes(m, len), sender.offset + 1, last), CfData, pad)
    OBVIOUS
  <2>2. PICK f : f = TesterFrame(ConsecutiveFrame, sender.sn, Len(data) + 1, data)
    OBVIOUS
  <2>3. ring' = Append(ring, f) /\ broken' = broken
    BY <1>9, <2>1, <2>2 DEF Arrives
  <2>4. /\ f \in Frame(AnyByte) /\ f.pci = ConsecutiveFrame /\ Of(f) = m
        /\ Before(f) = sender
        /\ After(f) = [msg |-> m, offset |-> last, sn |-> (sender.sn + 1) % SnMod]
    BY <1>1, <1>3, <2>1, <2>2, PieceFrame
  <2>5. After(f) = sender'
    <3>1. sender \in [msg : 0 .. Len(lengths), offset : 0 .. MaxPayload, sn : 0 .. SnMod - 1]
      BY <1>3 DEF SenderInv
    <3>2. PICK x : x = (sender.sn + 1) % SnMod
      OBVIOUS
    <3>3. sender' = [sender EXCEPT !.offset = last, !.sn = x]
      BY <1>1, <3>2
    <3>4. sender' = [msg |-> sender.msg, offset |-> last, sn |-> x]
      BY <3>1, <3>3
    <3>5. After(f) = [msg |-> m, offset |-> last, sn |-> x]
      BY <2>4, <3>2
    <3>6. QED
      BY <1>1, <3>4, <3>5
  <2>6. Carries(f) /\ ~Starts(f)
    BY <2>4 DEF Carries, Starts, SingleFrame, FirstFrame, ConsecutiveFrame, FlowControl
  <2>7. PICK q : q = Append(ring, f)
    OBVIOUS
  <2>8. /\ Len(q) = n + 1 /\ q[n + 1] = f
        /\ \A i \in 1 .. n : q[i] = ring[i]
    BY <1>3, <1>6, <2>4, <2>7, AppendProperties
  <2>9. ASSUME NEW p, NEW i \in 0 .. Len(ring), GoesOn(ring, sender, p, i)
        PROVE  GoesOn(q, sender', p, i)
    <3>1. PICK u, s : u = sender' /\ s = sender
      OBVIOUS
    <3>2. GoesOn(q, u, p, i)
      BY <1>3, <2>4, <2>6, <2>7, <2>9, GoesOnOverPiece
    <3>3. QED
      BY <3>1, <3>2
  <2>10. ChainIs(ring', sender', broken')
    <3>1. ASSUME NEW i \in 1 .. Len(q), Carries(q[i]), Of(q[i]) \notin broken,
                 Upto(q[i]) < lengths[Of(q[i])]
          PROVE  GoesOn(q, sender', After(q[i]), i)
      <4>1. CASE i \in 1 .. n
        <5>1. q[i] = ring[i] /\ i \in 0 .. Len(ring)
          BY <1>6, <2>8, <4>1
        <5>2. GoesOn(ring, sender, After(ring[i]), i)
          BY <1>4, <1>6, <3>1, <4>1, <5>1 DEF ChainIs
        <5>3. PICK p : p = After(ring[i])
          OBVIOUS
        <5>4. QED
          BY <2>9, <5>1, <5>2, <5>3
      <4>2. CASE i = n + 1
        <5>1. After(q[i]) = sender'
          BY <2>5, <2>8, <4>2
        <5>2. PICK u : u = sender'
          OBVIOUS
        <5>3. PICK k \in Nat : k = n + 1
          OBVIOUS
        <5>4. GoesOn(q, u, u, k)
          BY <2>8, <5>3, GoesOnAtTheEnd
        <5>5. QED
          BY <4>2, <5>1, <5>2, <5>3, <5>4
      <4>3. QED
        BY <2>8, <4>1, <4>2
    <3>2. QED
      BY <2>3, <2>7, <3>1 DEF ChainIs
  <2>11. ReceptionIs(rx', ring', sender', broken')
    <3>1. SUFFICES ASSUME rx.state = "Receiving", rx.buf[1].msg \notin broken
                   PROVE  /\ rx.buf = Bytes(rx.buf[1].msg, Len(rx.buf))
                          /\ rx.expected = lengths[rx.buf[1].msg]
                          /\ GoesOn(q, sender', At(rx), 0)
      BY <1>2, <2>3, <2>7 DEF ReceptionIs
    <3>2. /\ rx.buf = Bytes(rx.buf[1].msg, Len(rx.buf))
          /\ rx.expected = lengths[rx.buf[1].msg]
          /\ GoesOn(ring, sender, At(rx), 0)
      BY <1>4, <3>1 DEF ReceptionIs
    <3>3. PICK p : p = At(rx)
      OBVIOUS
    <3>4. GoesOn(q, sender', p, 0)
      BY <1>6, <2>9, <3>2, <3>3
    <3>5. QED
      BY <3>2, <3>3, <3>4
  <2>12. OrderIs(rx', ring', taken', sender'.msg)
    <3>1. ASSUME NEW i \in 1 .. Len(q), Starts(q[i])
          PROVE  /\ Of(q[i]) > taken
                 /\ Holds(rx) => Of(q[i]) > rx.buf[1].msg
                 /\ \A j \in 1 .. i - 1 : Starts(q[j]) => Of(q[j]) < Of(q[i])
      <4>1. i \in 1 .. n
        BY <2>6, <2>8, <3>1
      <4>2. q[i] = ring[i] /\ \A j \in 1 .. i - 1 : q[j] = ring[j]
        BY <2>8, <4>1
      <4>3. QED
        BY <1>4, <1>6, <3>1, <4>1, <4>2 DEF OrderIs
    <3>2. QED
      BY <1>2, <1>4, <1>5, <2>3, <2>7, <3>1 DEF OrderIs
  <2>13. QED
    BY <1>2, <1>4, <2>3, <2>10, <2>11, <2>12, LinkPrime
<1>10. QED
  BY <1>1, <1>8, <1>9

\* Flow control frames carry no part of a request.
LEMMA FlowControlLink ==
    ASSUME TypeInd, LinkInd, SendFlowControl
    PROVE  LinkInd'
<1>1. UNCHANGED <<rx, lengths, sender, taken>>
  BY DEF SendFlowControl, isotpVars
<1>2. PICK fs \in {ContinueToSend, Wait, Overflow}, bs \in BlockSizes :
         Arrives([TesterFrame(FlowControl, fs, 3, <<>>) EXCEPT !.bs = bs])
  BY DEF SendFlowControl
<1>3. PICK f : f = [TesterFrame(FlowControl, fs, 3, <<>>) EXCEPT !.bs = bs]
  OBVIOUS
<1>4. f.pci = FlowControl
  BY <1>3 DEF TesterFrame
<1>5. ~Carries(f) /\ ~Starts(f)
  BY <1>4 DEF Carries, Starts, SingleFrame, FirstFrame, FlowControl
<1>6. ring' = Append(ring, f) /\ broken' = broken
  BY <1>2, <1>3 DEF Arrives
<1>7. ring \in Seq(Frame(AnyByte))
  BY DEF TypeInd
<1>8. PICK n \in Nat : n = Len(ring)
  BY <1>7
<1>9. PICK q : q = Append(ring, f)
  OBVIOUS
<1>10. PICK S : S = Frame(AnyByte) \cup {f}
  OBVIOUS
<1>11. ring \in Seq(S) /\ f \in S
  BY <1>7, <1>10
<1>12. Len(q) = n + 1 /\ q[n + 1] = f /\ \A i \in 1 .. n : q[i] = ring[i]
  BY <1>8, <1>9, <1>11, AppendProperties
<1>13. /\ OrderIs(rx, ring, taken, sender.msg) /\ ChainIs(ring, sender, broken)
       /\ ReceptionIs(rx, ring, sender, broken) /\ DeliveryIs(rx, broken)
  BY DEF LinkInd
<1>14. ASSUME NEW p, NEW i \in 0 .. Len(ring), GoesOn(ring, sender, p, i)
       PROVE  GoesOn(q, sender, p, i)
  <2>1. PICK s : s = sender
    OBVIOUS
  <2>2. GoesOn(q, s, p, i)
    BY <1>5, <1>9, <1>11, <1>14, <2>1, GoesOnOverFlowControl
  <2>3. QED
    BY <2>1, <2>2
<1>15. ChainIs(q, sender, broken)
  <2>1. ASSUME NEW i \in 1 .. Len(q), Carries(q[i]), Of(q[i]) \notin broken,
               Upto(q[i]) < lengths[Of(q[i])]
        PROVE  GoesOn(q, sender, After(q[i]), i)
    <3>1. i \in 1 .. n
      BY <1>5, <1>12, <2>1
    <3>2. q[i] = ring[i] /\ i \in 0 .. Len(ring)
      BY <1>8, <1>12, <3>1
    <3>3. GoesOn(ring, sender, After(ring[i]), i)
      BY <1>8, <1>13, <2>1, <3>1, <3>2 DEF ChainIs
    <3>4. PICK p : p = After(ring[i])
      OBVIOUS
    <3>5. QED
      BY <1>14, <3>2, <3>3, <3>4
  <2>2. QED
    BY <2>1 DEF ChainIs
<1>16. ReceptionIs(rx, q, sender, broken)
  <2>1. 0 \in 0 .. Len(ring)
    BY <1>8
  <2>2. PICK p : p = At(rx)
    OBVIOUS
  <2>3. GoesOn(ring, sender, p, 0) => GoesOn(q, sender, p, 0)
    BY <1>14, <2>1
  <2>4. QED
    BY <1>13, <2>2, <2>3 DEF ReceptionIs
<1>17. OrderIs(rx, q, taken, sender.msg)
  <2>1. ASSUME NEW i \in 1 .. Len(q), Starts(q[i])
        PROVE  /\ Of(q[i]) > taken
               /\ Holds(rx) => Of(q[i]) > rx.buf[1].msg
               /\ \A j \in 1 .. i - 1 : Starts(q[j]) => Of(q[j]) < Of(q[i])
    <3>1. i \in 1 .. n
      BY <1>5, <1>12, <2>1
    <3>2. q[i] = ring[i] /\ \A j \in 1 .. i - 1 : q[j] = ring[j]
      BY <1>12, <3>1
    <3>3. QED
      BY <1>8, <1>13, <2>1, <3>1, <3>2 DEF OrderIs
  <2>2. QED
    BY <1>13, <2>1 DEF OrderIs
<1>18. QED
  BY <1>1, <1>6, <1>9, <1>13, <1>15, <1>16, <1>17, LinkPrime

\* The Consecutive Frame at the right place: what is copied is the rest of it
\* that belongs to the message.
LEMMA NextPieceCopied ==
    ASSUME TypeInd, NEW f \in Frame(AnyByte), FromTester(f, sender.msg),
           ForUs(f), HandleCF(f, tick),
           rx.buf = Bytes(rx.buf[1].msg, Len(rx.buf)),
           rx.expected = lengths[rx.buf[1].msg],
           Before(f) = At(rx)
    PROVE  /\ Of(f) = rx.buf[1].msg
           /\ rx'.buf = Bytes(Of(f), Upto(f)) /\ Len(rx'.buf) = Upto(f)
<1>1. PICK m, k : m = rx.buf[1].msg /\ k = Len(rx.buf)
  OBVIOUS
<1>2. Of(f) = m /\ From(f) = k
  BY <1>1 DEF Before, At
<1>3. /\ f.pci = ConsecutiveFrame /\ rx.state = "Receiving"
  BY DEF HandleCF, ConsecutiveFrameOk
<1>4. Carries(f)
  BY <1>3 DEF Carries, ConsecutiveFrame, FlowControl
<1>5. SenderInv /\ RxIs(rx)
  BY DEF TypeInd
<1>6. /\ m \in 1 .. Len(lengths) /\ m \in 0 .. Len(lengths) /\ Len(lengths) \in Nat
      /\ lengths[m] \in Nat /\ lengths[m] < MaxPayload
  <2>1. /\ m \in 1 .. Len(lengths) /\ lengths[m] \in Nat /\ lengths[m] < MaxPayload
    BY <1>2, <1>4, <1>5, FrameOfRequest
  <2>2. Len(lengths) \in Nat
    BY <1>5, SenderFacts
  <2>3. QED
    BY <2>1, <2>2
<1>7. PICK len \in Nat : len = lengths[m] /\ len = rx.expected
  BY <1>1, <1>6
<1>8. k \in Nat /\ k < len
  BY <1>1, <1>3, <1>5, <1>7, RxTypes DEF RxIs
<1>9. CfData \in Nat /\ CfData >= 1 /\ MaxPayload \in Nat
  BY Sizes
<1>10. PICK a \in Nat : a = k + CfData
  BY <1>8, <1>9
<1>11. PICK last \in Nat : /\ last = Smaller(a, len)
                           /\ k < last /\ last <= len /\ last <= k + CfData
                           /\ (last = len \/ last = k + CfData)
  <2>1. PICK s : s = Smaller(a, len)
    OBVIOUS
  <2>2. /\ s \in Nat /\ k < s /\ s <= len /\ s <= k + CfData
        /\ (s = len \/ s = k + CfData)
    BY <1>7, <1>8, <1>9, <1>10, <2>1 DEF Smaller
  <2>3. QED
    BY <2>1, <2>2
<1>12. Upto(f) = last
  <2>1. Upto(f) = Smaller(k + CfData, len)
    BY <1>2, <1>3, <1>7 DEF Upto
  <2>2. QED
    BY <1>10, <1>11, <2>1
<1>13. PICK n \in Nat : n = last - k
  BY <1>8, <1>11
<1>14. PICK d \in Nat : d = Len(f.data) /\ f.dlc = d + 1 /\ d >= n
  <2>1. Len(f.data) \in Nat /\ f.dlc = Len(f.data) + 1
    BY <1>3, <1>4, FrameTypes DEF FromTester
  <2>2. Len(f.data) >= last - k
    BY <1>2, <1>3, <1>4, <1>12 DEF FromTester
  <2>3. QED
    BY <1>13, <2>1, <2>2
<1>15. \A i \in 1 .. n : f.data[i] = [msg |-> m, pos |-> k + i]
  BY <1>2, <1>3, <1>4, <1>12, <1>13 DEF FromTester
<1>16. BytesCopied(f) = n
  <2>1. PICK e \in Nat : e = len - k
    BY <1>8
  <2>2. rx.expected - Len(rx.buf) = e /\ f.dlc - 1 = d
    BY <1>1, <1>7, <1>14, <2>1
  <2>3. BytesCopied(f) = Smaller(Smaller(e, CfData), d)
    BY <2>2 DEF BytesCopied
  <2>4. Smaller(e, CfData) = n
    BY <1>8, <1>9, <1>11, <1>13, <2>1 DEF Smaller
  <2>5. QED
    BY <1>14, <2>3, <2>4 DEF Smaller
<1>17. rx'.buf = rx.buf \o SubSeq(f.data, 1, n)
  <2>1. rx \in RxObject(AnyByte)
    BY <1>5 DEF RxIs
  <2>2. PICK received, sn, due, complete :
           rx' = [rx EXCEPT !.buf = received, !.sn = sn, !.deadline = due,
                            !.state = IF complete THEN "Idle" ELSE @,
                            !.ready = @ \/ complete]
           /\ received = rx.buf \o SubSeq(f.data, 1, n)
    BY <1>16 DEF HandleCF
  <2>3. QED
    BY <2>1, <2>2 DEF RxObject
<1>18. PICK data \in Seq(AnyByte) : data = f.data
  BY FrameTypes
<1>19. Bytes(m, k) \o SubSeq(data, 1, n) = Bytes(m, last)
  <2>1. PICK piece : piece = SubSeq(data, 1, n)
    OBVIOUS
  <2>2. /\ piece \in Seq(AnyByte) /\ Len(piece) = n
        /\ \A i \in 1 .. n : piece[i] = data[i]
    BY <1>14, <1>18, <2>1
  <2>3. PICK j \in Nat : j = k /\ j + n = last
    BY <1>8, <1>13
  <2>4. last <= MaxPayload
    <3>1. len < MaxPayload
      BY <1>6, <1>7
    <3>2. QED
      BY <1>9, <1>11, <3>1
  <2>5. BytesFrom(piece, m, j)
    BY <1>15, <1>18, <2>2, <2>3 DEF BytesFrom
  <2>6. j + Len(piece) = last
    BY <2>2, <2>3
  <2>7. m \in 0 .. Len(lengths) /\ Len(lengths) \in Nat
    BY <1>6
  <2>8. Bytes(m, j) \o piece = Bytes(m, last)
    <3>1. piece \in Seq(AnyByte)
      BY <2>2
    <3>2. j \in Nat /\ j + Len(piece) <= MaxPayload
      BY <2>3, <2>4, <2>6
    <3>3. Bytes(m, j) \o piece = Bytes(m, j + Len(piece))
      BY <2>5, <2>7, <3>1, <3>2, ExtendBy
    <3>4. QED
      BY <2>6, <3>3
  <2>9. QED
    BY <2>1, <2>3, <2>8
<1>20. Len(Bytes(m, last)) = last
  <2>1. last \in 0 .. MaxPayload
    BY <1>6, <1>7, <1>9, <1>11
  <2>2. QED
    BY <1>6, <2>1, BytesSeq
<1>21. QED
  BY <1>1, <1>2, <1>12, <1>17, <1>18, <1>19, <1>20

\* A pass takes the frame at the head of the ring.
LEMMA FeedLink ==
    ASSUME TypeInd, LinkInd, FeedFrame
    PROVE  LinkInd'
<1>1. /\ ring # <<>> /\ ProcessFrame(Head(ring), tick)
      /\ UNCHANGED <<lengths, sender, taken, broken>>
  BY DEF FeedFrame
<1>2. PICK q : q = Tail(ring) /\ ring' = q
  BY DEF FeedFrame
<1>3. ring \in Seq(Frame(AnyByte)) /\ RxIs(rx) /\ SenderInv
  BY DEF TypeInd
<1>4. PICK n \in Nat : n = Len(q) /\ Len(ring) = n + 1
  BY <1>1, <1>2, RingShrinks
<1>5. \A i \in 1 .. n : q[i] = ring[i + 1]
  BY <1>1, <1>2, <1>4, RingShrinks
<1>6. PICK f \in Frame(AnyByte) : f = Head(ring) /\ f = ring[1] /\ FromTester(f, sender.msg)
  BY <1>1, <1>2, RingShrinks
<1>7. /\ OrderIs(rx, ring, taken, sender.msg) /\ ChainIs(ring, sender, broken)
      /\ ReceptionIs(rx, ring, sender, broken) /\ DeliveryIs(rx, broken)
  BY DEF LinkInd
<1>8. ASSUME NEW p, NEW i \in 0 .. n, GoesOn(ring, sender, p, i + 1)
      PROVE  GoesOn(q, sender, p, i)
  <2>1. PICK s : s = sender
    OBVIOUS
  <2>2. GoesOn(q, s, p, i)
    BY <1>1, <1>2, <1>3, <1>4, <1>8, <2>1, GoesOnBehind
  <2>3. QED
    BY <2>1, <2>2
<1>9. ChainIs(q, sender, broken)
  <2>1. ASSUME NEW i \in 1 .. Len(q), Carries(q[i]), Of(q[i]) \notin broken,
               Upto(q[i]) < lengths[Of(q[i])]
        PROVE  GoesOn(q, sender, After(q[i]), i)
    <3>1. PICK k \in 1 .. Len(ring) : k = i + 1
      BY <1>4
    <3>2. q[i] = ring[k] /\ i \in 0 .. n
      BY <1>4, <1>5, <3>1
    <3>3. GoesOn(ring, sender, After(ring[k]), k)
      BY <1>7, <2>1, <3>2 DEF ChainIs
    <3>4. PICK p : p = After(ring[k])
      OBVIOUS
    <3>5. QED
      BY <1>8, <3>1, <3>2, <3>3, <3>4
  <2>2. QED
    BY <2>1 DEF ChainIs
\* A frame behind which the stream goes on is the last one process_frame saw.
<1>10. ASSUME Carries(f), Of(f) \notin broken, Upto(f) < lengths[Of(f)]
       PROVE  GoesOn(q, sender, After(f), 0)
  <2>1. 1 \in 1 .. Len(ring) /\ 0 \in 0 .. n /\ 0 + 1 = 1
    BY <1>4
  <2>2. GoesOn(ring, sender, After(f), 1)
    BY <1>6, <1>7, <1>10, <2>1 DEF ChainIs
  <2>3. PICK p : p = After(f)
    OBVIOUS
  <2>4. GoesOn(ring, sender, p, 0 + 1)
    BY <2>1, <2>2, <2>3
  <2>5. QED
    BY <1>8, <2>1, <2>3, <2>4
<1>11. ASSUME rx.state = "Receiving", rx.buf[1].msg \notin broken
       PROVE  /\ Carries(f) => f.pci = ConsecutiveFrame /\ Before(f) = At(rx)
              /\ ~Carries(f) => GoesOn(q, sender, At(rx), 0)
  <2>1. GoesOn(ring, sender, At(rx), 0)
    BY <1>7, <1>11 DEF ReceptionIs
  <2>2. Carries(f) => f.pci = ConsecutiveFrame /\ Before(f) = At(rx)
    <3>1. 1 \in 0 + 1 .. Len(ring) /\ Silent(ring, 0, 1 - 1)
      BY <1>4 DEF Silent
    <3>2. QED
      BY <1>6, <2>1, <3>1 DEF GoesOn
  <2>3. ~Carries(f) => GoesOn(q, sender, At(rx), 0)
    <3>1. PICK p, s, r : p = At(rx) /\ s = sender /\ r = ring
      OBVIOUS
    <3>2. Len(r) \in Nat \ {0} /\ 0 \in 0 .. n /\ 0 + 1 = 1
      BY <1>4, <3>1
    <3>3. ~Carries(f) => GoesOn(r, s, p, 1)
      BY <1>6, <2>1, <3>1, <3>2, GoesOnPastHead
    <3>4. QED
      BY <1>8, <3>1, <3>2, <3>3
  <2>4. QED
    BY <2>2, <2>3
\* Order, whatever the frame does to the receive side.
<1>12. ASSUME NEW r,
              Holds(r) => \/ Holds(rx) /\ r.buf[1].msg = rx.buf[1].msg
                          \/ Starts(f) /\ r.buf[1].msg = Of(f) /\ Of(f) \in 1 .. sender.msg
       PROVE  OrderIs(r, q, taken, sender.msg)
  <2>1. sender.msg \in Nat /\ taken \in Nat
    BY <1>3, SenderFacts DEF TypeInd
  <2>2. 1 \in 1 .. Len(ring)
    BY <1>4
  <2>3. Holds(r) => r.buf[1].msg \in taken + 1 .. sender.msg
    <3>1. Starts(f) => Of(f) > taken
      BY <1>6, <1>7, <2>2 DEF OrderIs
    <3>2. QED
      BY <1>7, <1>12, <2>1, <3>1 DEF OrderIs
  <2>4. ASSUME NEW i \in 1 .. Len(q), Starts(q[i])
        PROVE  /\ Of(q[i]) > taken
               /\ Holds(r) => Of(q[i]) > r.buf[1].msg
               /\ \A j \in 1 .. i - 1 : Starts(q[j]) => Of(q[j]) < Of(q[i])
    <3>1. PICK k \in 1 .. Len(ring) : k = i + 1 /\ 1 \in 1 .. k - 1
      BY <1>4
    <3>2. q[i] = ring[k]
      BY <1>4, <1>5, <3>1
    <3>3. /\ Of(ring[k]) > taken
          /\ Holds(rx) => Of(ring[k]) > rx.buf[1].msg
          /\ \A j \in 1 .. k - 1 : Starts(ring[j]) => Of(ring[j]) < Of(ring[k])
      BY <1>7, <2>4, <3>2 DEF OrderIs
    <3>4. Starts(f) => Of(f) < Of(q[i])
      BY <1>6, <3>1, <3>2, <3>3
    <3>5. Holds(r) => Of(q[i]) > r.buf[1].msg
      <4>1. CASE Starts(f) /\ r.buf[1].msg = Of(f) /\ Of(f) \in 1 .. sender.msg
        <5>1. Of(q[i]) \in Nat
          <6>1. FromTester(ring[k], sender.msg)
            BY DEF TypeInd, RingInv
          <6>2. Carries(ring[k])
            BY <2>4, <3>2 DEF Starts, Carries, SingleFrame, FirstFrame, FlowControl
          <6>3. QED
            BY <1>3, <3>2, <6>1, <6>2, FrameOfRequest
        <5>2. PICK x \in Nat, y \in Nat : x = Of(q[i]) /\ y = Of(f) /\ y < x
          BY <2>1, <3>4, <4>1, <5>1
        <5>3. QED
          BY <4>1, <5>2
      <4>2. CASE Holds(rx) /\ r.buf[1].msg = rx.buf[1].msg
        BY <3>2, <3>3, <4>2
      <4>3. QED
        BY <1>12, <4>1, <4>2
    <3>6. ASSUME NEW j \in 1 .. i - 1, Starts(q[j]) PROVE Of(q[j]) < Of(q[i])
      <4>1. PICK h \in 1 .. k - 1 : h = j + 1
        BY <3>1
      <4>2. q[j] = ring[h]
        BY <1>4, <1>5, <4>1
      <4>3. QED
        BY <3>2, <3>3, <3>6, <4>2
    <3>7. QED
      BY <3>2, <3>3, <3>5, <3>6
  <2>5. taken <= sender.msg
    BY <1>7 DEF OrderIs
  <2>6. QED
    BY <2>3, <2>4, <2>5 DEF OrderIs
\* One case per kind of frame.
<1>13. CASE HandleSF(f)
  <2>1. /\ rx'.ready /\ rx'.state = "Idle" /\ rx'.buf[1].msg = Of(f)
        /\ rx'.buf = Bytes(Of(f), lengths[Of(f)])
        /\ Starts(f) /\ Of(f) \in 1 .. sender.msg
    BY <1>6, <1>13, SFStep
  <2>2. OrderIs(rx', q, taken, sender.msg)
    BY <1>12, <2>1
  <2>3. ReceptionIs(rx', q, sender, broken) /\ DeliveryIs(rx', broken)
    BY <2>1 DEF ReceptionIs, DeliveryIs
  <2>4. QED
    BY <1>1, <1>2, <1>9, <2>2, <2>3, LinkPrime
<1>14. CASE HandleFF(f, tick)
  <2>1. /\ rx'.state = "Receiving" /\ ~rx'.ready /\ rx'.buf[1].msg = Of(f)
        /\ rx'.buf = Bytes(Of(f), FfData) /\ Len(rx'.buf) = FfData
        /\ rx'.expected = lengths[Of(f)] /\ rx'.sn = 1 % SnMod
        /\ Starts(f) /\ f.pci = FirstFrame /\ Of(f) \in 1 .. sender.msg
    BY <1>6, <1>14, FFStep
  <2>2. OrderIs(rx', q, taken, sender.msg)
    BY <1>12, <2>1
  <2>3. DeliveryIs(rx', broken)
    BY <2>1 DEF DeliveryIs
  <2>4. Carries(f) /\ f.pci # ConsecutiveFrame
    BY <2>1 DEF Carries, FirstFrame, ConsecutiveFrame, FlowControl
  <2>5. Upto(f) = FfData /\ FfData < lengths[Of(f)]
    <3>1. f.data = Bytes(Of(f), FfData) /\ lengths[Of(f)] > SfMax
      BY <1>6, <2>1, <2>4 DEF FromTester
    <3>2. Upto(f) = FfData
      BY <2>1, <2>4, <3>1 DEF Upto
    <3>3. lengths[Of(f)] \in Nat
      BY <1>3, <1>6, <2>4, FrameOfRequest
    <3>4. QED
      BY <3>1, <3>2, <3>3, Sizes
  <2>6. After(f) = At(rx')
    BY <2>1, <2>4, <2>5 DEF After, At
  <2>7. ReceptionIs(rx', q, sender, broken)
    <3>1. Of(f) \notin broken => GoesOn(q, sender, At(rx'), 0)
      BY <1>10, <2>4, <2>5, <2>6
    <3>2. QED
      BY <2>1, <3>1 DEF ReceptionIs
  <2>8. QED
    BY <1>1, <1>2, <1>9, <2>2, <2>3, <2>7, LinkPrime
<1>15. CASE ForUs(f) /\ HandleCF(f, tick)
  <2>1. /\ RxIs(rx') /\ f.pci = ConsecutiveFrame /\ Carries(f) /\ f.n = rx.sn
        /\ rx.state = "Receiving" /\ rx'.buf[1] = rx.buf[1]
        /\ rx'.expected = rx.expected /\ rx'.sn = (rx.sn + 1) % SnMod
        /\ rx'.state = "Idle" => rx'.ready /\ Len(rx'.buf) = rx.expected
    BY <1>6, <1>15, CFStep
  <2>2. OrderIs(rx', q, taken, sender.msg)
    BY <1>12, <2>1 DEF Holds
  <2>3. ASSUME rx.buf[1].msg \notin broken
        PROVE  /\ Of(f) = rx.buf[1].msg /\ rx.expected = lengths[Of(f)]
               /\ rx'.buf = Bytes(Of(f), Upto(f)) /\ Len(rx'.buf) = Upto(f)
    <3>1. Before(f) = At(rx)
      BY <1>11, <2>1, <2>3
    <3>2. /\ rx.buf = Bytes(rx.buf[1].msg, Len(rx.buf))
          /\ rx.expected = lengths[rx.buf[1].msg]
      BY <1>7, <2>1, <2>3 DEF ReceptionIs
    <3>3. QED
      BY <1>6, <1>15, <3>1, <3>2, NextPieceCopied
  <2>4. DeliveryIs(rx', broken)
    <3>1. SUFFICES ASSUME rx'.ready, rx'.buf[1].msg \notin broken
                   PROVE  rx'.buf = Bytes(rx'.buf[1].msg, lengths[rx'.buf[1].msg])
      BY DEF DeliveryIs
    <3>2. /\ Of(f) = rx.buf[1].msg /\ rx.expected = lengths[Of(f)]
          /\ rx'.buf = Bytes(Of(f), Upto(f)) /\ Len(rx'.buf) = Upto(f)
      BY <2>1, <2>3, <3>1
    <3>3. Len(rx'.buf) = rx'.expected
      BY <2>1, <3>1 DEF RxIs
    <3>4. QED
      BY <2>1, <3>2, <3>3
  <2>5. ReceptionIs(rx', q, sender, broken)
    <3>1. SUFFICES ASSUME rx'.state = "Receiving", rx'.buf[1].msg \notin broken
                   PROVE  /\ rx'.buf = Bytes(rx'.buf[1].msg, Len(rx'.buf))
                          /\ rx'.expected = lengths[rx'.buf[1].msg]
                          /\ GoesOn(q, sender, At(rx'), 0)
      BY DEF ReceptionIs
    <3>2. /\ Of(f) = rx.buf[1].msg /\ rx.expected = lengths[Of(f)]
          /\ rx'.buf = Bytes(Of(f), Upto(f)) /\ Len(rx'.buf) = Upto(f)
      BY <2>1, <2>3, <3>1
    <3>3. Len(rx'.buf) < rx'.expected
      BY <2>1, <3>1 DEF RxIs
    <3>4. Upto(f) < lengths[Of(f)] /\ Of(f) \notin broken
      BY <2>1, <3>1, <3>2, <3>3
    <3>5. GoesOn(q, sender, After(f), 0)
      BY <1>10, <2>1, <3>4
    <3>6. After(f) = At(rx')
      BY <2>1, <3>2 DEF After, At
    <3>7. QED
      BY <2>1, <3>2, <3>5, <3>6
  <2>6. QED
    BY <1>1, <1>2, <1>9, <2>2, <2>4, <2>5, LinkPrime
<1>16. CASE rx' = rx /\ ~(ForUs(f) /\ HandleCF(f, tick)) /\ (~Carries(f) \/ Discard(f))
  <2>1. OrderIs(rx', q, taken, sender.msg)
    BY <1>12, <1>16
  <2>2. ASSUME rx.state = "Receiving", rx.buf[1].msg \notin broken
        PROVE  ~Carries(f)
    <3>1. SUFFICES ASSUME Carries(f) PROVE FALSE
      OBVIOUS
    <3>2. f.pci = ConsecutiveFrame /\ Before(f) = At(rx)
      BY <1>11, <2>2, <3>1
    <3>3. f.n = rx.sn
      BY <3>2 DEF Before, At
    <3>4. ConsecutiveFrameOk(f)
      BY <2>2, <3>2, <3>3 DEF ConsecutiveFrameOk
    <3>5. f.id = RxId /\ f.dlc = Len(f.data) + 1 /\ Len(f.data) \in Nat
      BY <1>6, <3>1, <3>2, FrameTypes DEF FromTester
    <3>6. ForUs(f)
      BY <3>5 DEF ForUs
    <3>7. QED
      BY <1>16, <3>1, <3>4, <3>6 DEF Discard
  <2>3. ReceptionIs(rx', q, sender, broken)
    BY <1>7, <1>11, <1>16, <2>2 DEF ReceptionIs
  <2>4. DeliveryIs(rx', broken)
    BY <1>7, <1>16 DEF DeliveryIs
  <2>5. QED
    BY <1>1, <1>2, <1>9, <2>1, <2>3, <2>4, LinkPrime
<1>17. CASE HandleFC(f, tick)
  <2>1. ~Carries(f) /\ rx' = rx
    BY <1>6, <1>17, FCStep
  <2>2. ~HandleCF(f, tick)
    BY <2>1 DEF HandleCF, ConsecutiveFrameOk, Carries, ConsecutiveFrame, FlowControl
  <2>3. QED
    BY <1>16, <2>1, <2>2
<1>18. CASE Discard(f)
  <2>1. rx' = rx
    BY <1>18 DEF Discard, isotpVars
  <2>2. QED
    BY <1>15, <1>16, <1>18, <2>1
<1>19. QED
  BY <1>1, <1>6, <1>13, <1>14, <1>15, <1>17, <1>18 DEF ProcessFrame

\* A pass without a frame: get_data(), and the N_Cr time-out.
LEMMA PassLink ==
    ASSUME TypeInd, LinkInd, IdlePass \/ AnswerPass
    PROVE  LinkInd'
<1>1. /\ OrderIs(rx, ring, taken, sender.msg) /\ ChainIs(ring, sender, broken)
      /\ ReceptionIs(rx, ring, sender, broken) /\ DeliveryIs(rx, broken)
  BY DEF LinkInd
<1>2. RxIs(rx) /\ RxIs(AfterGetData(rx))
  BY RxPass DEF TypeInd
<1>3. CASE IdlePass
  <2>1. UNCHANGED linkVars /\ ~rx.ready /\ rx' = RxUpdate(rx, tick)
    BY <1>3 DEF IdlePass
  <2>2. rx' = rx \/ (rx'.state = "Idle" /\ ~rx'.ready)
    BY <1>2, <2>1, RxPass
  <2>3. /\ OrderIs(rx', ring, taken, sender.msg)
        /\ ReceptionIs(rx', ring, sender, broken) /\ DeliveryIs(rx', broken)
    BY <1>1, <2>2 DEF OrderIs, Holds, ReceptionIs, DeliveryIs
  <2>4. QED
    BY <1>1, <2>1, <2>3, LinkPrime DEF linkVars
<1>4. CASE AnswerPass
  <2>1. /\ ring = <<>> /\ rx.ready /\ rx' = RxUpdate(AfterGetData(rx), tick)
        /\ taken' = rx.buf[1].msg /\ UNCHANGED <<lengths, ring, sender, broken>>
    BY <1>4 DEF AnswerPass
  <2>2. ~AfterGetData(rx).ready /\ AfterGetData(rx).state = "Idle"
    BY <1>2, <2>1, RxPass
  <2>3. rx'.state = "Idle" /\ ~rx'.ready
    <3>1. PICK r : r = AfterGetData(rx)
      OBVIOUS
    <3>2. RxIs(r) /\ ~r.ready /\ r.state = "Idle" /\ rx' = RxUpdate(r, tick)
      BY <1>2, <2>1, <2>2, <3>1
    <3>3. QED
      BY <3>2, RxPass
  <2>4. rx.buf[1].msg \in taken + 1 .. sender.msg
    BY <1>1, <2>1 DEF OrderIs, Holds
  <2>5. OrderIs(rx', ring', taken', sender'.msg)
    <3>1. sender.msg \in Nat /\ taken \in Nat /\ Len(lengths) \in Nat
      BY SenderFacts DEF TypeInd
    <3>2. taken' <= sender.msg
      BY <2>1, <2>4, <3>1
    <3>3. Len(ring') = 0
      BY <2>1
    <3>4. QED
      BY <2>1, <2>3, <3>2, <3>3 DEF OrderIs, Holds
  <2>6. ReceptionIs(rx', ring', sender', broken') /\ DeliveryIs(rx', broken')
    BY <2>3 DEF ReceptionIs, DeliveryIs
  <2>7. ChainIs(ring', sender', broken')
    BY <1>1, <2>1
  <2>8. QED
    BY <2>1, <2>5, <2>6, <2>7, LinkPrime
<1>5. QED
  BY <1>3, <1>4

\* One step per action that touches the requests.
LEMMA NextLink == TypeInd /\ LinkInd /\ [Next]_vars => LinkInd'
<1> SUFFICES ASSUME TypeInd, LinkInd, [Next]_vars PROVE LinkInd'
  OBVIOUS
<1>1. ASSUME UNCHANGED <<rx, lengths, ring, sender, taken, broken>> PROVE LinkInd'
  <2>1. /\ OrderIs(rx, ring, taken, sender.msg) /\ ChainIs(ring, sender, broken)
        /\ ReceptionIs(rx, ring, sender, broken) /\ DeliveryIs(rx, broken)
    BY DEF LinkInd
  <2>2. QED
    BY <1>1, <2>1, LinkPrime
<1>2. CASE SendRequest
  BY <1>2, RequestLink
<1>3. CASE SendConsecutive
  BY <1>3, PieceLink
<1>4. CASE SendFlowControl
  BY <1>4, FlowControlLink
<1>5. CASE Transmit
  BY <1>1, <1>5 DEF Transmit
<1>6. CASE FeedFrame
  BY <1>6, FeedLink
<1>7. CASE IdlePass \/ AnswerPass
  BY <1>7, PassLink
<1>8. CASE Advance
  BY <1>1, <1>8 DEF Advance, isotpVars
<1>9. CASE UNCHANGED vars
  BY <1>1, <1>9 DEF vars, isotpVars, linkVars
<1>10. QED
  BY <1>2, <1>3, <1>4, <1>5, <1>6, <1>7, <1>8, <1>9 DEF Next

\* The invariant the delivery theorems rest on.
LEMMA LinkInvariant == Spec => []LinkInd
<1>1. QED
  BY InitLink, NextLink, TypeInvariant, PTL DEF Spec

\* A request all of whose frames reached the ECU is delivered byte for byte,
\* whatever was lost, given up or interleaved around it: padding is not
\* copied, and no frame of another request is taken for one of its own.
THEOREM RequestsDeliveredIntact == Spec => []IntactDelivery
<1>1. LinkInd => IntactDelivery
  BY DEF LinkInd, DeliveryIs, IntactDelivery
<1>2. QED
  BY <1>1, LinkInvariant, PTL

\* Whatever is lost, requests are served in the order they were sent, each at
\* most once.
THEOREM RequestsServedInOrder == Spec => ServedInOrder
<1>1. TypeInd /\ LinkInd /\ [Next]_vars => [AnswerPass => taken' > taken]_vars
  <2>1. SUFFICES ASSUME TypeInd, LinkInd, AnswerPass PROVE taken' > taken
    OBVIOUS
  <2>2. rx.ready /\ taken' = rx.buf[1].msg
    BY <2>1 DEF AnswerPass
  <2>3. rx.buf[1].msg \in taken + 1 .. sender.msg
    BY <2>1, <2>2 DEF LinkInd, OrderIs, Holds
  <2>4. taken \in Nat /\ sender.msg \in Nat
    BY <2>1, SenderFacts DEF TypeInd
  <2>5. QED
    BY <2>2, <2>3, <2>4
<1>2. QED
  BY <1>1, TypeInvariant, LinkInvariant, PTL DEF Spec, ServedInOrder

-----------------------------------------------------------------------------
(* The responses on their way.                                             *)

\* The flow control frame of the ECU says nothing to the tester.
Speaks(f) == f.pci # SingleFrame \/ f.n # 0
Quiet(q, i, j) == \A l \in i + 1 .. j : ~Speaks(q[l])

\* A frame of a response carries bytes of it, from the first on unless it is a
\* Consecutive Frame.
ResponseFrame(f) ==
    Speaks(f) =>
        /\ f.pci \in {SingleFrame, FirstFrame, ConsecutiveFrame}
        /\ f.data # <<>>
        /\ BytesFrom(f.data, Of(f), From(f))
        /\ f.pci # ConsecutiveFrame => From(f) = 0

\* The position in a response behind a frame of it.
Behind(f) == [msg |-> Of(f), offset |-> From(f) + Len(f.data),
              sn |-> IF f.pci = ConsecutiveFrame THEN (f.n + 1) % SnMod ELSE 1 % SnMod]

\* If f continues a response at all, it does so at position p.
Fits(f, p) == f.pci = ConsecutiveFrame => f.n = p.sn /\ Of(f) = p.msg /\ From(f) = p.offset

\* If the transmit side has bytes to send, they are those from position p.
Pending(t, b, p) ==
    t.state # "Idle" =>
        /\ t.offset = p.offset /\ t.sn = p.sn
        /\ \A k \in t.offset + 1 .. t.total : b[k] = [msg |-> p.msg, pos |-> k]

\* In the mailboxes q after the i-th, and then at the transmit side, a response
\* goes on from position p, or there is no more of it.
Continues(q, t, b, p, i) ==
    /\ \A j \in i + 1 .. Len(q) : Speaks(q[j]) /\ Quiet(q, i, j - 1) => Fits(q[j], p)
    /\ Quiet(q, i, Len(q)) => Pending(t, b, p)

MailIs(q, t, b) ==
    \A i \in 1 .. Len(q) :
        /\ ResponseFrame(q[i])
        /\ Speaks(q[i]) /\ q[i].pci # SingleFrame => Continues(q, t, b, Behind(q[i]), i)

\* The bytes still to send are of one response.
BufferIs(t, b) ==
    t.state # "Idle" =>
        \A k \in t.offset + 1 .. t.total : b[k] = [msg |-> b[t.offset + 1].msg, pos |-> k]

\* What the tester has is the beginning of a response, which goes on.
TesterIs(r, q, t, b) ==
    /\ r.active => /\ r.buf # <<>>
                   /\ BytesFrom(r.buf, r.buf[1].msg, 0)
                   /\ Continues(q, t, b, At(r), 0)
    /\ r.got # <<>> => BytesFrom(r.got, r.got[1].msg, 0)

ReceiverObject(Byte) == [active : BOOLEAN, buf : Seq(Byte), expected : Nat,
                         sn : 0 .. SnMod - 1, got : Seq(Byte)]

ResponseInd ==
    /\ receiver \in ReceiverObject(AnyByte)
    /\ ~deaf /\ ~overwrote =>
          /\ BufferIs(tx, buffer)
          /\ MailIs(mailboxes, tx, buffer)
          /\ TesterIs(receiver, mailboxes, tx, buffer)

\* What s adds to the mailboxes goes on where the transmit side was, or starts a
\* response, or says nothing and leaves the transmit side where it was.
Joins(s, t, b, t2, b2) ==
    \A p : Pending(t, b, p) =>
        \/ Quiet(s, 0, Len(s)) /\ Pending(t2, b2, p)
        \/ s # <<>> /\ Speaks(s[1]) /\ Fits(s[1], p)

-----------------------------------------------------------------------------
(* The mailboxes as a queue.                                               *)

\* One frame is added.
LEMMA OneMore ==
    ASSUME NEW S, NEW q \in Seq(S), NEW f \in S, NEW s, s = <<f>>
    PROVE  s \in Seq(S) /\ Len(s) = 1 /\ s[1] = f /\ Append(q, f) = q \o s
OBVIOUS

\* Where the elements of two sequences are in the one they make.
LEMMA ConcatAt ==
    ASSUME NEW S, NEW q \in Seq(S), NEW s \in Seq(S), NEW both, both = q \o s,
           NEW n \in Nat, n = Len(q), NEW k \in Nat, k = Len(s)
    PROVE  /\ \A j \in 1 .. n : both[j] = q[j]
           /\ \A j \in 1 .. k : both[n + j] = s[j]
BY ConcatProperties

\* What is left of a sequence behind its first n elements.
LEMMA RestAt ==
    ASSUME NEW S, NEW q \in Seq(S), NEW n \in Nat, NEW k \in Nat, n + k = Len(q),
           NEW r, r = SubSeq(q, n + 1, n + k)
    PROVE  /\ r \in Seq(S) /\ Len(r) = k
           /\ \A j \in 1 .. k : r[j] = q[n + j]
<1>1. r \in Seq(S)
  OBVIOUS
<1>2. Len(r) = k
  OBVIOUS
<1>3. ASSUME NEW j \in 1 .. k PROVE r[j] = q[n + j]
  OBVIOUS
<1>4. QED
  BY <1>1, <1>2, <1>3

\* Frames are added behind.
LEMMA ContinuesJoined ==
    ASSUME NEW S, NEW q \in Seq(S), NEW s \in Seq(S), NEW both, both = q \o s,
           NEW t, NEW b, NEW t2, NEW b2, NEW p, NEW i \in 0 .. Len(q),
           Continues(q, t, b, p, i), Joins(s, t, b, t2, b2)
    PROVE  Continues(both, t2, b2, p, i)
<1>1. PICK n \in Nat, k \in Nat : n = Len(q) /\ k = Len(s)
  OBVIOUS
<1>2. /\ Len(both) = n + k /\ \A j \in 1 .. n : both[j] = q[j]
      /\ \A j \in 1 .. k : both[n + j] = s[j]
  BY <1>1, ConcatProperties
<1>3. i \in 0 .. n
  BY <1>1
<1>4. ASSUME NEW j \in Nat, j <= n, Quiet(both, i, j) PROVE Quiet(q, i, j)
  BY <1>2, <1>3, <1>4 DEF Quiet
<1>5. ASSUME NEW j \in Nat, n <= j, Quiet(both, i, j)
      PROVE  /\ Pending(t, b, p)
             /\ n < j => k = 0 \/ ~Speaks(s[1])
  <2>1. Quiet(both, i, n)
    BY <1>1, <1>3, <1>5 DEF Quiet
  <2>2. Pending(t, b, p)
    BY <1>1, <1>4, <2>1 DEF Continues
  <2>3. ASSUME n < j, k # 0 PROVE ~Speaks(s[1])
    <3>1. ~Speaks(both[n + 1])
      <4>1. n + 1 \in i + 1 .. j
        BY <1>1, <1>3, <1>5, <2>3
      <4>2. QED
        BY <1>5, <4>1 DEF Quiet
    <3>2. both[n + 1] = s[1]
      BY <1>2, <2>3
    <3>3. QED
      BY <3>1, <3>2
  <2>4. QED
    BY <2>2, <2>3
<1>6. s # <<>> <=> k # 0
  BY <1>1
<1>7. ASSUME NEW j \in i + 1 .. Len(both), Speaks(both[j]), Quiet(both, i, j - 1)
      PROVE  Fits(both[j], p)
  <2>1. CASE j <= n
    <3>1. Quiet(q, i, j - 1)
      BY <1>3, <1>4, <1>7, <2>1
    <3>2. j \in i + 1 .. Len(q) /\ both[j] = q[j]
      BY <1>1, <1>2, <1>3, <2>1
    <3>3. QED
      BY <1>7, <3>1, <3>2 DEF Continues
  <2>2. CASE j > n
    <3>1. PICK h \in 1 .. k : j = n + h /\ both[j] = s[h]
      <4>1. j - n \in 1 .. k /\ j = n + (j - n)
        BY <1>2, <1>3, <2>2
      <4>2. QED
        BY <1>2, <4>1
    <3>2. j - 1 \in Nat /\ n <= j - 1
      BY <1>3, <2>2
    <3>3. Pending(t, b, p) /\ (n < j - 1 => k = 0 \/ ~Speaks(s[1]))
      BY <1>5, <1>7, <3>2
    <3>4. \/ Quiet(s, 0, k)
          \/ Speaks(s[1]) /\ Fits(s[1], p)
      BY <1>1, <3>3 DEF Joins
    <3>5. CASE Quiet(s, 0, k)
      BY <1>7, <3>1, <3>5 DEF Quiet
    <3>6. CASE Speaks(s[1]) /\ Fits(s[1], p)
      <4>1. h = 1
        BY <3>1, <3>3, <3>6
      <4>2. QED
        BY <3>1, <3>6, <4>1
    <3>7. QED
      BY <3>4, <3>5, <3>6
  <2>3. QED
    BY <1>3, <2>1, <2>2
<1>8. ASSUME Quiet(both, i, Len(both)) PROVE Pending(t2, b2, p)
  <2>1. n + k \in Nat /\ n <= n + k
    OBVIOUS
  <2>2. Pending(t, b, p) /\ (n < n + k => k = 0 \/ ~Speaks(s[1]))
    BY <1>2, <1>5, <1>8, <2>1
  <2>3. \/ Pending(t2, b2, p)
        \/ k # 0 /\ Speaks(s[1])
    BY <1>6, <2>2 DEF Joins
  <2>4. QED
    BY <2>2, <2>3
<1>9. QED
  BY <1>7, <1>8 DEF Continues

\* What continues in the frames added does so behind the others.
LEMMA ContinuesBehind ==
    ASSUME NEW S, NEW q \in Seq(S), NEW s \in Seq(S), NEW both, both = q \o s,
           NEW t, NEW b, NEW p, NEW i \in 0 .. Len(s), NEW h, h = Len(q) + i,
           Continues(s, t, b, p, i)
    PROVE  Continues(both, t, b, p, h)
<1>1. PICK n \in Nat, k \in Nat : n = Len(q) /\ k = Len(s)
  OBVIOUS
<1>2. /\ Len(both) = n + k /\ i \in 0 .. k /\ h = n + i
      /\ \A j \in 1 .. k : both[n + j] = s[j]
  BY <1>1, ConcatProperties
<1>3. ASSUME NEW j \in i .. k, Quiet(both, h, n + j) PROVE Quiet(s, i, j)
  <2>1. ASSUME NEW l \in i + 1 .. j PROVE ~Speaks(s[l])
    <3>1. n + l \in h + 1 .. n + j /\ l \in 1 .. k
      BY <1>2
    <3>2. QED
      BY <1>2, <1>3, <3>1 DEF Quiet
  <2>2. QED
    BY <2>1 DEF Quiet
<1>4. ASSUME NEW j \in h + 1 .. Len(both), Speaks(both[j]), Quiet(both, h, j - 1)
      PROVE  Fits(both[j], p)
  <2>1. PICK l \in i + 1 .. k : j = n + l
    <3>1. j - n \in i + 1 .. k /\ j = n + (j - n)
      BY <1>2
    <3>2. QED
      BY <3>1
  <2>2. both[j] = s[l]
    BY <1>2, <2>1
  <2>3. l - 1 \in i .. k /\ j - 1 = n + (l - 1)
    BY <1>2, <2>1
  <2>4. Quiet(s, i, l - 1)
    BY <1>3, <1>4, <2>3
  <2>5. QED
    BY <1>1, <1>4, <2>2, <2>4 DEF Continues
<1>5. ASSUME Quiet(both, h, Len(both)) PROVE Pending(t, b, p)
  <2>1. k \in i .. k
    BY <1>2
  <2>2. Quiet(s, i, k)
    BY <1>2, <1>3, <1>5, <2>1
  <2>3. QED
    BY <1>1, <2>2 DEF Continues
<1>6. QED
  BY <1>4, <1>5 DEF Continues

\* The oldest frame leaves.
LEMMA ContinuesAhead ==
    ASSUME NEW S, NEW q \in Seq(S), q # <<>>, NEW r, r = Tail(q),
           NEW t, NEW b, NEW p, NEW i \in 0 .. Len(r), NEW h, h = i + 1,
           Continues(q, t, b, p, h)
    PROVE  Continues(r, t, b, p, i)
<1>1. PICK n \in Nat : n = Len(r)
  BY HeadTailProperties
<1>2. Len(q) = n + 1 /\ \A j \in 1 .. n : r[j] = q[j + 1]
  <2>1. Len(r) = Len(q) - 1 /\ Len(q) \in Nat /\ \A j \in 1 .. Len(r) : r[j] = q[j + 1]
    BY HeadTailProperties
  <2>2. QED
    BY <1>1, <2>1
<1>3. i \in 0 .. n
  BY <1>1
<1>4. ASSUME NEW j \in i .. n, Quiet(r, i, j), NEW g, g = j + 1 PROVE Quiet(q, h, g)
  <2>1. ASSUME NEW k \in h + 1 .. g PROVE ~Speaks(q[k])
    <3>1. PICK l \in i + 1 .. j : k = l + 1
      <4>1. k - 1 \in i + 1 .. j /\ k = (k - 1) + 1
        BY <1>3, <1>4
      <4>2. QED
        BY <4>1
    <3>2. r[l] = q[k]
      BY <1>2, <1>3, <3>1
    <3>3. QED
      BY <1>4, <3>1, <3>2 DEF Quiet
  <2>2. QED
    BY <2>1 DEF Quiet
<1>5. ASSUME Quiet(r, i, Len(r)) PROVE Pending(t, b, p)
  <2>1. n \in i .. n /\ Len(q) = n + 1
    BY <1>2, <1>3
  <2>2. Quiet(q, h, Len(q))
    BY <1>1, <1>4, <1>5, <2>1
  <2>3. QED
    BY <2>2 DEF Continues
<1>6. ASSUME NEW j \in i + 1 .. Len(r), Speaks(r[j]), Quiet(r, i, j - 1)
      PROVE  Fits(r[j], p)
  <2>1. PICK k \in i .. n, g \in h + 1 .. Len(q) : k = j - 1 /\ g = j + 1 /\ g - 1 = k + 1
    BY <1>1, <1>2, <1>3
  <2>2. r[j] = q[g]
    BY <1>1, <1>2, <1>3, <2>1
  <2>3. Quiet(q, h, g - 1)
    BY <1>4, <1>6, <2>1
  <2>4. QED
    BY <1>6, <2>2, <2>3 DEF Continues
<1>7. QED
  BY <1>5, <1>6 DEF Continues

\* A head that says nothing is no part of a response.
LEMMA ContinuesPastHead ==
    ASSUME NEW q, Len(q) \in Nat \ {0}, NEW t, NEW b, NEW p, ~Speaks(q[1]),
           Continues(q, t, b, p, 0)
    PROVE  Continues(q, t, b, p, 1)
<1>1. ASSUME NEW j \in Nat, Quiet(q, 1, j) PROVE Quiet(q, 0, j)
  <2>1. ASSUME NEW l \in 0 + 1 .. j PROVE ~Speaks(q[l])
    <3>1. l = 1 \/ l \in 1 + 1 .. j
      OBVIOUS
    <3>2. QED
      BY <1>1, <3>1 DEF Quiet
  <2>2. QED
    BY <2>1 DEF Quiet
<1>2. Quiet(q, 1, Len(q)) => Pending(t, b, p)
  BY <1>1 DEF Continues
<1>3. ASSUME NEW j \in 1 + 1 .. Len(q), Speaks(q[j]), Quiet(q, 1, j - 1)
      PROVE  Fits(q[j], p)
  <2>1. j - 1 \in Nat /\ j \in 0 + 1 .. Len(q)
    OBVIOUS
  <2>2. Quiet(q, 0, j - 1)
    BY <1>1, <1>3, <2>1
  <2>3. QED
    BY <1>3, <2>1, <2>2 DEF Continues
<1>4. QED
  BY <1>2, <1>3 DEF Continues

\* The invariant of the mailboxes, when frames are added.
LEMMA MailJoined ==
    ASSUME NEW S, NEW q \in Seq(S), NEW s \in Seq(S), NEW both, both = q \o s,
           NEW t, NEW b, NEW t2, NEW b2,
           MailIs(q, t, b), MailIs(s, t2, b2), Joins(s, t, b, t2, b2)
    PROVE  MailIs(both, t2, b2)
<1>1. PICK n \in Nat, k \in Nat : n = Len(q) /\ k = Len(s)
  OBVIOUS
<1>2. /\ Len(both) = n + k /\ \A j \in 1 .. n : both[j] = q[j]
      /\ \A j \in 1 .. k : both[n + j] = s[j]
  BY <1>1, ConcatProperties
<1>3. ASSUME NEW i \in 1 .. Len(both)
      PROVE  /\ ResponseFrame(both[i])
             /\ Speaks(both[i]) /\ both[i].pci # SingleFrame =>
                    Continues(both, t2, b2, Behind(both[i]), i)
  <2>1. CASE i <= n
    <3>1. PICK f : f = q[i] /\ f = both[i]
      BY <1>2, <2>1
    <3>2. /\ ResponseFrame(f)
          /\ Speaks(f) /\ f.pci # SingleFrame => Continues(q, t, b, Behind(f), i)
      BY <1>1, <2>1, <3>1 DEF MailIs
    <3>3. PICK p : p = Behind(f)
      OBVIOUS
    <3>4. i \in 0 .. Len(q)
      BY <1>1, <2>1
    <3>5. Continues(q, t, b, p, i) => Continues(both, t2, b2, p, i)
      BY <3>4, ContinuesJoined
    <3>6. QED
      BY <3>1, <3>2, <3>3, <3>5
  <2>2. CASE i > n
    <3>1. PICK h \in 1 .. k : i = n + h
      <4>1. i - n \in 1 .. k /\ i = n + (i - n)
        BY <1>2, <2>2
      <4>2. QED
        BY <4>1
    <3>2. PICK f : f = s[h] /\ f = both[i]
      BY <1>2, <3>1
    <3>3. /\ ResponseFrame(f)
          /\ Speaks(f) /\ f.pci # SingleFrame => Continues(s, t2, b2, Behind(f), h)
      BY <1>1, <3>1, <3>2 DEF MailIs
    <3>4. PICK p : p = Behind(f)
      OBVIOUS
    <3>5. h \in 0 .. Len(s) /\ i = Len(q) + h
      BY <1>1, <3>1
    <3>6. Continues(s, t2, b2, p, h) => Continues(both, t2, b2, p, i)
      BY <3>5, ContinuesBehind
    <3>7. QED
      BY <3>2, <3>3, <3>4, <3>6
  <2>3. QED
    BY <1>2, <2>1, <2>2
<1>4. QED
  BY <1>3 DEF MailIs

\* The invariant of the mailboxes, when the oldest frame leaves.
LEMMA MailShrinks ==
    ASSUME NEW S, NEW q \in Seq(S), q # <<>>, NEW r, r = Tail(q), NEW t, NEW b, MailIs(q, t, b)
    PROVE  MailIs(r, t, b)
<1>1. PICK n \in Nat : n = Len(r)
  BY HeadTailProperties
<1>2. Len(q) = n + 1 /\ \A j \in 1 .. n : r[j] = q[j + 1]
  <2>1. Len(r) = Len(q) - 1 /\ Len(q) \in Nat /\ \A j \in 1 .. Len(r) : r[j] = q[j + 1]
    BY HeadTailProperties
  <2>2. QED
    BY <1>1, <2>1
<1>3. ASSUME NEW i \in 1 .. Len(r)
      PROVE  /\ ResponseFrame(r[i])
             /\ Speaks(r[i]) /\ r[i].pci # SingleFrame => Continues(r, t, b, Behind(r[i]), i)
  <2>1. PICK h \in 1 .. Len(q) : h = i + 1
    BY <1>1, <1>2
  <2>2. PICK f : f = r[i] /\ f = q[h]
    BY <1>1, <1>2, <2>1
  <2>3. /\ ResponseFrame(f)
        /\ Speaks(f) /\ f.pci # SingleFrame => Continues(q, t, b, Behind(f), h)
    BY <2>2 DEF MailIs
  <2>4. PICK p : p = Behind(f)
    OBVIOUS
  <2>5. i \in 0 .. Len(r)
    BY <1>1
  <2>6. Continues(q, t, b, p, h) => Continues(r, t, b, p, i)
    BY <2>1, <2>5, ContinuesAhead
  <2>7. QED
    BY <2>2, <2>3, <2>4, <2>6
<1>4. QED
  BY <1>3 DEF MailIs

\* The invariant of the tester, when frames are added.
LEMMA TesterJoined ==
    ASSUME NEW S, NEW q \in Seq(S), NEW s \in Seq(S), NEW both, both = q \o s,
           NEW t, NEW b, NEW t2, NEW b2, NEW r,
           TesterIs(r, q, t, b), Joins(s, t, b, t2, b2)
    PROVE  TesterIs(r, both, t2, b2)
<1>1. PICK p : p = At(r)
  OBVIOUS
<1>2. 0 \in 0 .. Len(q)
  OBVIOUS
<1>3. Continues(q, t, b, p, 0) => Continues(both, t2, b2, p, 0)
  BY <1>2, ContinuesJoined
<1>4. QED
  BY <1>1, <1>3 DEF TesterIs

-----------------------------------------------------------------------------
(* The transmit side.                                                      *)

\* A Consecutive Frame made of the bytes still to send.
LEMMA PieceOf ==
    ASSUME TypeInd, tx.state # "Idle", BufferIs(tx, buffer),
           NEW m, m = buffer[tx.offset + 1].msg,
           NEW here \in Nat, tx.offset <= here, here < tx.total,
           NEW n \in 0 .. SnMod - 1, NEW f, f = ConsecutiveFrameAt(here, n)
    PROVE  /\ f \in Frame(AnyByte)
           /\ Speaks(f) /\ ResponseFrame(f)
           /\ f.pci = ConsecutiveFrame /\ f.n = n /\ Of(f) = m /\ From(f) = here
           /\ Behind(f) = [msg |-> m, offset |-> Smaller(here + CfData, tx.total),
                           sn |-> (n + 1) % SnMod]
<1>1. /\ tx \in TxObject /\ buffer \in Seq(AnyByte) /\ Len(buffer) = MaxPayload
  BY DEF TypeInd, TxIs
<1>2. PICK total \in 0 .. MaxPayload, offset \in Nat :
          total = tx.total /\ offset = tx.offset /\ offset <= here /\ here < total
  BY <1>1, Sizes DEF TxObject
<1>3. MaxPayload \in Nat /\ CfData \in Nat /\ CfData >= 1
  BY Sizes
<1>4. f \in Frame(AnyByte)
  BY <1>1, <1>2, CFTyped
<1>5. PICK last \in Nat : last = Smaller(here + CfData, total) /\ here < last /\ last <= total
  BY <1>2, <1>3 DEF Smaller
<1>6. PICK data : data = SubSeq(buffer, here + 1, last)
  OBVIOUS
<1>7. PICK size \in Nat : here + size = last /\ size >= 1
  <2>1. last - here \in Nat /\ here + (last - here) = last /\ last - here >= 1
    BY <1>5
  <2>2. QED
    BY <2>1
<1>8. Len(data) = size /\ \A i \in 1 .. size : data[i] = buffer[here + i]
  <2>1. PICK first \in Nat : first = here + 1
    OBVIOUS
  <2>2. first \in 1 .. MaxPayload /\ last \in 1 .. MaxPayload /\ first <= last
    BY <1>2, <1>3, <1>5, <2>1
  <2>3. last - first + 1 = size /\ \A i \in 1 .. size : first + i - 1 = here + i
    BY <1>7, <2>1
  <2>4. /\ Len(SubSeq(buffer, first, last)) = last - first + 1
        /\ \A i \in 1 .. last - first + 1 : SubSeq(buffer, first, last)[i] = buffer[first + i - 1]
    BY <1>1, <2>2, SubSeqProperties
  <2>5. QED
    BY <1>6, <2>1, <2>3, <2>4
<1>9. \A k \in offset + 1 .. total : buffer[k] = [msg |-> m, pos |-> k]
  BY <1>2 DEF BufferIs
<1>10. \A i \in 1 .. size : data[i] = [msg |-> m, pos |-> here + i]
  <2> TAKE i \in 1 .. size
  <2>1. here + i \in offset + 1 .. total
    BY <1>2, <1>5, <1>7
  <2>2. QED
    BY <1>8, <1>9, <2>1
<1>11. /\ f.pci = ConsecutiveFrame /\ f.n = n /\ f.data = data
  BY <1>2, <1>5, <1>6 DEF ConsecutiveFrameAt
<1>12. Of(f) = m /\ From(f) = here
  <2>1. 1 \in 1 .. size /\ (here + 1) - 1 = here
    BY <1>7
  <2>2. data[1] = [msg |-> m, pos |-> here + 1]
    BY <1>10, <2>1
  <2>3. QED
    BY <1>11, <2>1, <2>2 DEF Of, From
<1>13. Speaks(f)
  BY <1>11 DEF Speaks, SingleFrame, ConsecutiveFrame
<1>14. ResponseFrame(f)
  <2>1. data # <<>>
    BY <1>7, <1>8
  <2>2. BytesFrom(data, m, here)
    BY <1>8, <1>10 DEF BytesFrom
  <2>3. QED
    BY <1>11, <1>12, <2>1, <2>2 DEF ResponseFrame
<1>15. Behind(f) = [msg |-> m, offset |-> Smaller(here + CfData, tx.total),
                    sn |-> (n + 1) % SnMod]
  BY <1>2, <1>5, <1>7, <1>8, <1>11, <1>12 DEF Behind
<1>16. QED
  BY <1>4, <1>11, <1>12, <1>13, <1>14, <1>15

\* What send_next_cf() hands to the controller, in terms of frames.
BlockOf(s) ==
    /\ s \in Seq(Frame(AnyByte))
    /\ mailboxes' = mailboxes \o s
    /\ \A i \in 1 .. Len(s) :
          /\ tx.offset + (i - 1) * CfData < tx.total
          /\ s[i] = ConsecutiveFrameAt(tx.offset + (i - 1) * CfData, (tx.sn + i - 1) % SnMod)
    /\ tx'.total = tx.total
    /\ tx'.offset = Smaller(tx.offset + Len(s) * CfData, tx.total)
    /\ tx'.sn = (tx.sn + Len(s)) % SnMod

\* send_next_cf() puts a run of Consecutive Frames into the mailboxes.
LEMMA BlockExists ==
    ASSUME TypeInd, tx.state = "WaitFC", NEW bs \in 0 .. 255, SendNextCFs(bs, tick)
    PROVE  \E s : BlockOf(s)
<1>1. TxIs(tx) /\ MailboxesAre(mailboxes) /\ buffer \in Seq(AnyByte)
  BY DEF TypeInd
<1>2. PICK total \in Nat, offset \in Nat, sn \in 0 .. SnMod - 1 :
         total = tx.total /\ offset = tx.offset /\ sn = tx.sn
         /\ offset < total /\ total <= MaxPayload /\ tx \in TxObject
  BY <1>1, Sizes DEF TxIs, TxObject
<1>3. /\ CfData \in Nat \ {0} /\ SnMod \in Nat \ {0} /\ TxMailboxes \in Nat
  BY Sizes, IsoTpConstants
<1>4. PICK a \in Nat : a = total - offset /\ a > 0
  BY <1>2
<1>5. PICK left \in Nat : left = CfsLeft /\ left = (a + CfData - 1) \div CfData /\ left > 0
  <2>1. CfsLeft = (a + CfData - 1) \div CfData
    BY <1>2, <1>4 DEF CfsLeft
  <2>2. QED
    BY <1>3, <1>4, <2>1, PiecesCover
<1>6. PICK room \in Nat : room = Room
  <2>1. Len(mailboxes) \in Nat /\ Len(mailboxes) <= TxMailboxes
    BY <1>1 DEF MailboxesAre
  <2>2. Room = TxMailboxes - Len(mailboxes)
    BY DEF Room
  <2>3. QED
    BY <1>3, <2>1, <2>2
<1>7. PICK block \in Nat : block = (IF bs = 0 THEN CfsLeft ELSE Smaller(bs, CfsLeft))
                           /\ block <= left
  BY <1>5 DEF Smaller
<1>8. PICK sent \in Nat : sent = Smaller(block, Room) /\ sent <= left
  BY <1>6, <1>7 DEF Smaller
<1>9. PICK s : s = [i \in 1 .. sent |->
                      ConsecutiveFrameAt(tx.offset + (i - 1) * CfData, (tx.sn + i - 1) % SnMod)]
  OBVIOUS
<1>10. /\ mailboxes' = mailboxes \o s
       /\ tx'.total = tx.total
       /\ tx'.offset = Smaller(tx.offset + sent * CfData, tx.total)
       /\ tx'.sn = (tx.sn + sent) % SnMod
  BY <1>2, <1>7, <1>8, <1>9 DEF SendNextCFs, TxObject
<1>11. ASSUME NEW i \in 1 .. sent
       PROVE  /\ tx.offset + (i - 1) * CfData < tx.total
              /\ s[i] \in Frame(AnyByte)
              /\ s[i] = ConsecutiveFrameAt(tx.offset + (i - 1) * CfData, (tx.sn + i - 1) % SnMod)
  <2>1. PICK k \in Nat : k = i - 1 /\ k < left
    BY <1>8
  <2>2. k * CfData \in Nat /\ k * CfData < a
    BY <1>3, <1>4, <1>5, <2>1, PiecesFit
  <2>3. PICK here \in Nat : here = offset + k * CfData /\ offset <= here /\ here < total
    BY <1>2, <1>4, <2>2
  <2>4. PICK n \in 0 .. SnMod - 1 : n = (tx.sn + i - 1) % SnMod
    <3>1. PICK c \in Nat : c = sn + k
      BY <1>2, <2>1
    <3>2. tx.sn + i - 1 = c
      BY <1>2, <2>1, <3>1
    <3>3. QED
      BY <3>1, <3>2, Widths
  <2>5. here = tx.offset + (i - 1) * CfData /\ tx.offset <= here /\ here < tx.total
    BY <1>2, <2>1, <2>3
  <2>6. s[i] = ConsecutiveFrameAt(tx.offset + (i - 1) * CfData, (tx.sn + i - 1) % SnMod)
    BY <1>9
  <2>7. s[i] = ConsecutiveFrameAt(here, n)
    BY <2>4, <2>5, <2>6
  <2>8. s[i] \in Frame(AnyByte)
    BY <1>1, <1>2, <2>3, <2>4, <2>7, CFTyped DEF TypeInd
  <2>9. QED
    BY <2>5, <2>6, <2>8
<1>12. s \in Seq(Frame(AnyByte)) /\ Len(s) = sent
  BY <1>9, <1>11
<1>13. BlockOf(s)
  BY <1>10, <1>11, <1>12 DEF BlockOf
<1>14. QED
  BY <1>13

\* A block continues what was pending, frame by frame, and leaves the rest.
LEMMA BlockStream ==
    ASSUME TypeInd, TxIs(tx'), BufferIs(tx, buffer), tx.state # "Idle", NEW s, BlockOf(s)
    PROVE  /\ MailIs(s, tx', buffer)
           /\ Joins(s, tx, buffer, tx', buffer)
           /\ BufferIs(tx', buffer)
<1>1. PICK total \in Nat, offset \in Nat, sn \in 0 .. SnMod - 1 :
         total = tx.total /\ offset = tx.offset /\ sn = tx.sn /\ offset < total
  BY Sizes DEF TypeInd, TxIs, TxObject
<1>2. CfData \in Nat /\ CfData >= 1 /\ SnMod \in Nat \ {0}
  BY Sizes
<1>3. PICK m : m = buffer[tx.offset + 1].msg
  OBVIOUS
<1>4. PICK sent \in Nat : sent = Len(s)
  BY DEF BlockOf
<1>5. \A k \in offset + 1 .. total : buffer[k] = [msg |-> m, pos |-> k]
  BY <1>1, <1>3 DEF BufferIs
\* Where the frame i starts, and with which number.
<1>6. ASSUME NEW i \in 1 .. sent + 1
      PROVE  (i - 1) * CfData \in Nat /\ i * CfData = (i - 1) * CfData + CfData
  <2>1. PICK k \in Nat : k = i - 1
    OBVIOUS
  <2>2. k * CfData \in Nat /\ (k + 1) * CfData = k * CfData + CfData
    BY <1>2
  <2>3. QED
    BY <2>1, <2>2
<1>7. ASSUME NEW i \in 1 .. sent + 1
      PROVE  /\ (sn + i - 1) % SnMod \in 0 .. SnMod - 1
             /\ (((sn + i - 1) % SnMod) + 1) % SnMod = (sn + i) % SnMod
  <2>1. PICK c \in Nat : c = sn + i - 1
    BY <1>1, <1>2
  <2>2. c % SnMod \in 0 .. SnMod - 1
    BY Widths
  <2>3. 1 \in Nat /\ c + 1 = sn + i
    BY <1>1, <1>2, <2>1
  <2>4. ((c % SnMod) + 1) % SnMod = (c + 1) % SnMod
    BY <1>2, <2>3, RemainderOfSum
  <2>5. QED
    BY <2>1, <2>2, <2>3, <2>4
<1>8. ASSUME NEW i \in 1 .. sent
      PROVE  /\ Speaks(s[i]) /\ ResponseFrame(s[i])
             /\ s[i].pci = ConsecutiveFrame /\ s[i].n = (sn + i - 1) % SnMod
             /\ Of(s[i]) = m /\ From(s[i]) = offset + (i - 1) * CfData
             /\ Behind(s[i]) = [msg |-> m, offset |-> Smaller(offset + i * CfData, total),
                                sn |-> (sn + i) % SnMod]
             /\ offset + (i - 1) * CfData < total
  <2>0. i \in 1 .. sent + 1
    BY <1>4
  <2>1. PICK here \in Nat : here = offset + (i - 1) * CfData /\ offset <= here
    <3>1. PICK gone \in Nat : gone = (i - 1) * CfData
      BY <1>6, <2>0
    <3>2. offset + gone \in Nat /\ offset <= offset + gone
      BY <1>1, <3>1
    <3>3. QED
      BY <3>1, <3>2
  <2>2. PICK n \in 0 .. SnMod - 1 : n = (sn + i - 1) % SnMod
    BY <1>7, <2>0
  <2>3. here < total /\ s[i] = ConsecutiveFrameAt(here, n)
    BY <1>1, <1>4, <2>1, <2>2 DEF BlockOf
  <2>4. PICK f : f = s[i]
    OBVIOUS
  <2>5. /\ Speaks(f) /\ ResponseFrame(f)
        /\ f.pci = ConsecutiveFrame /\ f.n = n /\ Of(f) = m /\ From(f) = here
        /\ Behind(f) = [msg |-> m, offset |-> Smaller(here + CfData, tx.total),
                        sn |-> (n + 1) % SnMod]
    BY <1>1, <1>3, <2>1, <2>3, <2>4, PieceOf
  <2>6. here + CfData = offset + i * CfData
    BY <1>1, <1>2, <1>6, <2>0, <2>1
  <2>7. (n + 1) % SnMod = (sn + i) % SnMod
    BY <1>7, <2>0, <2>2
  <2>8. QED
    BY <1>1, <2>1, <2>2, <2>3, <2>4, <2>5, <2>6, <2>7
\* What is left.
<1>9. /\ tx'.total = total /\ tx'.offset = Smaller(offset + sent * CfData, total)
      /\ tx'.sn = (sn + sent) % SnMod
  BY <1>1, <1>4 DEF BlockOf
<1>10. sent * CfData \in Nat
  BY <1>2
<1>11. PICK newOffset \in Nat : newOffset = tx'.offset /\ offset <= newOffset /\ newOffset <= total
  BY <1>1, <1>9, <1>10 DEF Smaller
<1>12. \A k \in tx'.offset + 1 .. tx'.total : buffer[k] = [msg |-> m, pos |-> k]
  BY <1>1, <1>5, <1>9, <1>11
<1>13. BufferIs(tx', buffer)
  <2>1. SUFFICES ASSUME tx'.state # "Idle"
                 PROVE  \A k \in tx'.offset + 1 .. tx'.total :
                            buffer[k] = [msg |-> buffer[tx'.offset + 1].msg, pos |-> k]
    BY DEF BufferIs
  <2>2. tx'.offset < tx'.total
    BY <2>1 DEF TxIs
  <2>3. tx'.offset + 1 \in tx'.offset + 1 .. tx'.total
    BY <1>9, <1>11, <2>2
  <2>4. buffer[tx'.offset + 1].msg = m
    <3>1. PICK k : k = tx'.offset + 1
      OBVIOUS
    <3>2. buffer[k] = [msg |-> m, pos |-> k]
      BY <1>12, <2>3, <3>1
    <3>3. QED
      BY <3>1, <3>2
  <2>5. QED
    BY <1>12, <2>4
<1>14. Joins(s, tx, buffer, tx', buffer)
  <2>1. SUFFICES ASSUME NEW p, Pending(tx, buffer, p)
                 PROVE  \/ Quiet(s, 0, Len(s)) /\ Pending(tx', buffer, p)
                        \/ s # <<>> /\ Speaks(s[1]) /\ Fits(s[1], p)
    BY DEF Joins
  <2>2. /\ offset = p.offset /\ sn = p.sn
        /\ \A k \in offset + 1 .. total : buffer[k] = [msg |-> p.msg, pos |-> k]
    BY <1>1, <2>1 DEF Pending
  <2>3. sn % SnMod = sn
    BY <1>1, <1>2
  <2>4. CASE sent = 0
    <3>1. Quiet(s, 0, Len(s))
      BY <1>4, <2>4 DEF Quiet
    <3>2. tx'.offset = offset /\ tx'.sn = sn
      <4>1. sent * CfData = 0 /\ offset + 0 = offset /\ sn + sent = sn
        BY <1>1, <1>2, <2>4
      <4>2. QED
        BY <1>1, <1>9, <2>3, <4>1 DEF Smaller
    <3>3. Pending(tx', buffer, p)
      BY <1>9, <2>2, <3>2 DEF Pending
    <3>4. QED
      BY <3>1, <3>3
  <2>5. CASE sent # 0
    <3>1. 1 \in 1 .. sent /\ s # <<>>
      BY <1>4, <2>5
    <3>2. (1 - 1) * CfData = 0 /\ offset + 0 = offset /\ sn + 1 - 1 = sn
      BY <1>1, <1>2
    <3>3. /\ Speaks(s[1]) /\ s[1].n = sn /\ Of(s[1]) = m /\ From(s[1]) = offset
      BY <1>8, <2>3, <3>1, <3>2
    <3>4. m = p.msg
      <4>1. offset + 1 \in offset + 1 .. total
        BY <1>1
      <4>2. buffer[offset + 1] = [msg |-> p.msg, pos |-> offset + 1]
        BY <2>2, <4>1
      <4>3. QED
        BY <1>1, <1>3, <4>2
    <3>5. QED
      BY <2>2, <3>1, <3>3, <3>4 DEF Fits
  <2>6. QED
    BY <2>4, <2>5
<1>15. MailIs(s, tx', buffer)
  <2>1. ASSUME NEW i \in 1 .. sent PROVE Continues(s, tx', buffer, Behind(s[i]), i)
    <3>1. PICK p : p = Behind(s[i])
      OBVIOUS
    <3>2. p = [msg |-> m, offset |-> Smaller(offset + i * CfData, total), sn |-> (sn + i) % SnMod]
      BY <1>8, <3>1
    <3>3. ASSUME i # sent
          PROVE  i + 1 \in 1 .. sent /\ Speaks(s[i + 1]) /\ Fits(s[i + 1], p)
      <4>1. PICK h \in 1 .. sent : h = i + 1 /\ h - 1 = i /\ sn + h - 1 = sn + i
        BY <1>1, <3>3
      <4>2. /\ Speaks(s[h]) /\ s[h].n = (sn + i) % SnMod
            /\ Of(s[h]) = m /\ From(s[h]) = offset + i * CfData
            /\ offset + i * CfData < total
        BY <1>8, <4>1
      <4>3. Smaller(offset + i * CfData, total) = offset + i * CfData
        BY <4>2 DEF Smaller
      <4>4. QED
        BY <3>2, <4>1, <4>2, <4>3 DEF Fits
    <3>4. ASSUME NEW j \in i + 1 .. Len(s), Quiet(s, i, j - 1) PROVE Fits(s[j], p)
      <4>1. i # sent
        BY <1>4
      <4>2. j = i + 1
        <5>1. SUFFICES ASSUME j # i + 1 PROVE FALSE
          OBVIOUS
        <5>2. i + 1 \in i + 1 .. j - 1
          BY <5>1
        <5>3. QED
          BY <3>3, <3>4, <4>1, <5>2 DEF Quiet
      <4>3. QED
        BY <3>3, <4>1, <4>2
    <3>5. ASSUME Quiet(s, i, Len(s)) PROVE Pending(tx', buffer, p)
      <4>1. i = sent
        <5>1. SUFFICES ASSUME i # sent PROVE FALSE
          OBVIOUS
        <5>2. i + 1 \in i + 1 .. Len(s)
          BY <1>4, <5>1
        <5>3. QED
          BY <3>3, <3>5, <5>1, <5>2 DEF Quiet
      <4>2. QED
        BY <1>9, <1>12, <3>2, <4>1 DEF Pending
    <3>6. QED
      BY <3>1, <3>4, <3>5 DEF Continues
  <2>2. QED
    BY <1>4, <1>8, <2>1 DEF MailIs
<1>16. QED
  BY <1>13, <1>14, <1>15

\* A pass with a message: the server answers request m with len bytes, after it
\* wrote written ones into the buffer.
Answered(len, written, m) ==
    /\ len \in 0 .. MaxPayload /\ written \in 0 .. MaxPayload
    /\ m = rx.buf[1].msg /\ taken' = m /\ answers' = [answers EXCEPT ![m] = len]
    /\ \A k \in 1 .. written : buffer'[k] = [msg |-> m, pos |-> k]
    /\ \A k \in written + 1 .. MaxPayload : buffer'[k] = buffer[k]

\* A Single Frame, a First Frame or nothing is handed to the controller.  A First
\* Frame takes the transmit side over; otherwise the transmission under way, if any,
\* goes on or times out.
FrameOfAnswer(len, written, m, f) ==
    /\ f \in Frame(AnyByte) /\ mailboxes' = Append(mailboxes, f)
    /\ f.data # <<>> /\ BytesFrom(f.data, m, 0) /\ Of(f) = m /\ From(f) = 0
    /\ \/ f.pci = SingleFrame /\ f.n = len /\ len > 0 /\ Len(f.data) = len
       \/ /\ f.pci = FirstFrame /\ f.n = len % LenMod
          /\ Len(f.data) = FfData /\ FfData < len /\ len <= written
          /\ tx'.offset = FfData /\ tx'.total = len /\ tx'.sn = 1 % SnMod

GoesOnSending(written) ==
    /\ tx' = tx \/ tx'.state = "Idle"
    /\ ~overwrote' /\ tx.state # "Idle" => written <= tx.offset

\* What a pass of process() that takes a request does: the response it writes, and
\* its first frame, if the controller takes one.
LEMMA AnswerFacts ==
    ASSUME TypeInd, AnswerPass
    PROVE  \E len, written, m, f :
              /\ Answered(len, written, m)
              /\ \/ FrameOfAnswer(len, written, m, f) /\ f.pci = FirstFrame
                 \/ FrameOfAnswer(len, written, m, f) /\ f.pci = SingleFrame
                    /\ GoesOnSending(written)
                 \/ UNCHANGED mailboxes /\ GoesOnSending(written)
<1>1. PICK len, written, m, data :
          /\ len \in ResponseLengths /\ written \in ResponseLengths
          /\ rx.ready /\ m = rx.buf[1].msg /\ data = Bytes(m, len)
          /\ len <= written \/ (len = NrcLength /\ written = 0)
          /\ buffer' = Bytes(m, written) \o SubSeq(buffer, written + 1, Len(buffer))
          /\ mailboxes' = MailboxesAfterSend(data)
          /\ tx' = TxUpdate(TxAfterSend(data, tick), tick)
          /\ taken' = m /\ answers' = [answers EXCEPT ![m] = len]
          /\ ~overwrote' =>
                ~(tx.state # "Idle" /\ TxAfterSend(data, tick) = tx /\ written > tx.offset)
  <2>1. PICK len \in ResponseLengths, written \in ResponseLengths :
            LET m == rx.buf[1].msg
                data == Bytes(m, len)
            IN  /\ len <= written \/ (len = NrcLength /\ written = 0)
                /\ buffer' = Bytes(m, written) \o SubSeq(buffer, written + 1, Len(buffer))
                /\ mailboxes' = MailboxesAfterSend(data)
                /\ tx' = TxUpdate(TxAfterSend(data, tick), tick)
                /\ overwrote' = (overwrote \/ (/\ tx.state # "Idle"
                                               /\ TxAfterSend(data, tick) = tx
                                               /\ written > tx.offset))
                /\ taken' = m
                /\ answers' = [answers EXCEPT ![m] = len]
    BY DEF AnswerPass
  <2>2. rx.ready
    BY DEF AnswerPass
  <2>3. QED
    BY <2>1, <2>2
<1>2. /\ tx \in TxObject /\ mailboxes \in Seq(Frame(AnyByte))
      /\ buffer \in Seq(AnyByte) /\ Len(buffer) = MaxPayload /\ Len(lengths) \in Nat
      /\ rx.buf \in Seq(AnyByte) /\ rx.buf # <<>>
  <2>1. RxIs(rx) /\ SenderInv
    BY DEF TypeInd
  <2>2. rx.buf \in Seq(AnyByte) /\ rx.buf # <<>>
    BY <1>1, <2>1 DEF RxIs, RxObject
  <2>3. QED
    BY <2>1, <2>2, SenderFacts DEF TypeInd, TxIs, MailboxesAre
<1>3. /\ CanDl \in Nat /\ CanDl > 3 /\ SfMax = CanDl - 1 /\ FfData = CanDl - 2
      /\ FfData \in Nat /\ SfMax \in Nat /\ MaxPayload \in Nat /\ LenMod \in Nat \ {0}
  BY Sizes
<1>4. len \in 0 .. MaxPayload /\ written \in 0 .. MaxPayload /\ len \in Nat /\ written \in Nat
  BY <1>1, <1>3, LinkConstants
<1>5. m \in 0 .. Len(lengths)
  <2>1. rx.buf[1] \in AnyByte
    BY <1>2
  <2>2. QED
    BY <1>1, <2>1 DEF AnyByte
<1>6. /\ data \in Seq(AnyByte) /\ Len(data) = len
      /\ \A i \in 1 .. len : data[i] = [msg |-> m, pos |-> i]
  <2>1. data = Bytes(m, len)
    BY <1>1
  <2>2. QED
    BY <1>2, <1>4, <1>5, <2>1, BytesSeq
<1>7. /\ \A k \in 1 .. written : buffer'[k] = [msg |-> m, pos |-> k]
      /\ \A k \in written + 1 .. MaxPayload : buffer'[k] = buffer[k]
  <2>1. PICK w : w = Bytes(m, written)
    OBVIOUS
  <2>2. /\ w \in Seq(AnyByte) /\ Len(w) = written
        /\ \A k \in 1 .. written : w[k] = [msg |-> m, pos |-> k]
    BY <1>2, <1>4, <1>5, <2>1, BytesSeq
  <2>3. PICK k \in Nat : written + k = MaxPayload
    <3>1. MaxPayload - written \in Nat /\ written + (MaxPayload - written) = MaxPayload
      BY <1>3, <1>4
    <3>2. QED
      BY <3>1
  <2>4. PICK rest : rest = SubSeq(buffer, written + 1, MaxPayload)
    OBVIOUS
  <2>5. /\ rest \in Seq(AnyByte) /\ Len(rest) = k
        /\ \A j \in 1 .. k : rest[j] = buffer[written + j]
    <3>1. written + k = Len(buffer) /\ rest = SubSeq(buffer, written + 1, written + k)
      BY <1>2, <2>3, <2>4
    <3>2. written \in Nat /\ k \in Nat /\ buffer \in Seq(AnyByte)
      BY <1>2, <1>4, <2>3
    <3>3. QED
      BY <3>1, <3>2, RestAt
  <2>6. buffer' = w \o rest
    BY <1>1, <1>2, <2>1, <2>4
  <2>7. /\ \A j \in 1 .. written : buffer'[j] = w[j]
        /\ \A j \in 1 .. k : buffer'[written + j] = rest[j]
    <3>1. PICK both : both = buffer' /\ both = w \o rest
      BY <2>6
    <3>2. written \in Nat /\ k \in Nat /\ written = Len(w) /\ k = Len(rest)
      BY <1>4, <2>2, <2>3, <2>5
    <3>3. /\ \A j \in 1 .. written : both[j] = w[j]
          /\ \A j \in 1 .. k : both[written + j] = rest[j]
      BY <2>2, <2>5, <3>1, <3>2, ConcatAt
    <3>4. QED
      BY <3>1, <3>3
  <2>8. ASSUME NEW j \in written + 1 .. MaxPayload PROVE buffer'[j] = buffer[j]
    <3>1. PICK i \in 1 .. k : j = written + i
      <4>1. j - written \in 1 .. k /\ j = written + (j - written)
        BY <1>3, <1>4, <2>3
      <4>2. QED
        BY <4>1
    <3>2. QED
      BY <2>5, <2>7, <3>1
  <2>9. QED
    BY <2>2, <2>7, <2>8
<1>8. PICK f : f = IF len <= SfMax THEN SingleFrameOf(data) ELSE FirstFrameOf(data)
  OBVIOUS
<1>9. len > 0 => f.data # <<>> /\ BytesFrom(f.data, m, 0) /\ Of(f) = m /\ From(f) = 0
  <2>1. SUFFICES ASSUME len > 0
                 PROVE  f.data # <<>> /\ BytesFrom(f.data, m, 0) /\ Of(f) = m /\ From(f) = 0
    OBVIOUS
  <2>2. PICK d, size :
            /\ size \in 1 .. MaxPayload /\ d = f.data /\ Len(d) = size /\ d # <<>>
            /\ \A i \in 1 .. size : d[i] = [msg |-> m, pos |-> i]
    <3>1. CASE len <= SfMax
      <4>1. f.data = data /\ data # <<>> /\ len \in 1 .. MaxPayload
        BY <1>4, <1>6, <1>8, <2>1, <3>1 DEF SingleFrameOf
      <4>2. QED
        BY <1>6, <4>1
    <3>2. CASE ~(len <= SfMax)
      <4>1. f.data = SubSeq(data, 1, FfData) /\ FfData \in 1 .. len
        BY <1>3, <1>4, <1>6, <1>8, <3>2 DEF FirstFrameOf
      <4>2. PICK d : d = SubSeq(data, 1, FfData)
        OBVIOUS
      <4>3. Len(d) = FfData /\ \A i \in 1 .. FfData : d[i] = data[i]
        BY <1>3, <1>6, <4>1, <4>2
      <4>4. \A i \in 1 .. FfData : d[i] = [msg |-> m, pos |-> i]
        BY <1>3, <1>4, <1>6, <4>1, <4>3
      <4>5. d # <<>> /\ FfData \in 1 .. MaxPayload
        BY <1>3, <1>4, <4>1, <4>3
      <4>6. QED
        BY <4>1, <4>2, <4>3, <4>4, <4>5
    <3>3. QED
      BY <3>1, <3>2
  <2>3. BytesFrom(d, m, 0)
    BY <2>2 DEF BytesFrom
  <2>4. d[1] = [msg |-> m, pos |-> 1]
    BY <2>2
  <2>5. QED
    BY <2>2, <2>3, <2>4 DEF Of, From
<1>10. Answered(len, written, m)
  BY <1>1, <1>4, <1>7 DEF Answered
<1>11. CASE Sendable(data) /\ len > SfMax
  <2>1. /\ f = [id |-> TxId, pci |-> FirstFrame, n |-> len % LenMod, dlc |-> CanDl,
                data |-> SubSeq(data, 1, FfData), bs |-> 0]
        /\ mailboxes' = Append(mailboxes, f)
    BY <1>1, <1>3, <1>4, <1>6, <1>8, <1>11 DEF FirstFrameOf, MailboxesAfterSend
  <2>2. f \in Frame(AnyByte) /\ Len(f.data) = FfData
    <3>1. SubSeq(data, 1, FfData) \in Seq(AnyByte) /\ Len(SubSeq(data, 1, FfData)) = FfData
      BY <1>3, <1>4, <1>6, <1>11
    <3>2. CanDl \in 0 .. CanDl /\ FirstFrame \in 0 .. 3 /\ len % LenMod \in Nat
      BY <1>3, <1>4 DEF FirstFrame
    <3>3. QED
      BY <2>1, <3>1, <3>2 DEF Frame
  <2>3. TxAfterSend(data, tick).offset = FfData /\ TxAfterSend(data, tick).total = len
        /\ TxAfterSend(data, tick).sn = 1 % SnMod
    BY <1>6, <1>11 DEF TxAfterSend
  <2>4. tx'.offset = FfData /\ tx'.total = len /\ tx'.sn = 1 % SnMod
    <3>1. PICK t : t = TxAfterSend(data, tick)
      OBVIOUS
    <3>2. t.offset = FfData /\ t.total = len /\ t.sn = 1 % SnMod /\ t \in TxObject
      BY <1>1, <1>4, <1>5, <2>3, <3>1, SendPass DEF TxIs
    <3>3. tx' = t \/ tx' = [t EXCEPT !.state = "Idle"]
      BY <1>1, <3>1 DEF TxUpdate
    <3>4. QED
      BY <3>2, <3>3 DEF TxObject
  <2>5. len <= written /\ FfData < len /\ len > 0
    BY <1>1, <1>3, <1>4, <1>11 DEF NrcLength
  <2>6. FrameOfAnswer(len, written, m, f) /\ f.pci = FirstFrame
    BY <1>9, <2>1, <2>2, <2>4, <2>5 DEF FrameOfAnswer
  <2>7. QED
    BY <1>10, <2>6
<1>12. CASE ~(Sendable(data) /\ len > SfMax)
  <2>1. TxAfterSend(data, tick) = tx
    BY <1>6, <1>12 DEF TxAfterSend
  <2>2. tx' = tx \/ tx'.state = "Idle"
    BY <1>1, <1>2, <2>1 DEF TxUpdate, TxObject
  <2>3. GoesOnSending(written)
    BY <1>1, <1>2, <1>4, <2>1, <2>2 DEF GoesOnSending, TxObject
  <2>4. CASE ~Sendable(data)
    BY <1>1, <1>10, <2>3, <2>4 DEF MailboxesAfterSend
  <2>5. CASE Sendable(data)
    <3>1. len <= SfMax /\ len > 0
      BY <1>3, <1>4, <1>6, <1>12, <2>5 DEF Sendable
    <3>2. /\ f = [id |-> TxId, pci |-> SingleFrame, n |-> len, dlc |-> len + 1,
                  data |-> data, bs |-> 0]
          /\ mailboxes' = Append(mailboxes, f)
      BY <1>1, <1>6, <1>8, <2>5, <3>1 DEF SingleFrameOf, MailboxesAfterSend
    <3>3. f \in Frame(AnyByte)
      <4>1. len + 1 \in 0 .. CanDl /\ SingleFrame \in 0 .. 3
        BY <1>3, <1>4, <3>1 DEF SingleFrame
      <4>2. QED
        BY <1>4, <1>6, <3>2, <4>1 DEF Frame
    <3>4. FrameOfAnswer(len, written, m, f) /\ f.pci = SingleFrame
      BY <1>6, <1>9, <3>1, <3>2, <3>3 DEF FrameOfAnswer
    <3>5. QED
      BY <1>10, <2>3, <3>4
  <2>6. QED
    BY <2>4, <2>5
<1>13. QED
  BY <1>11, <1>12

\* What was still to be sent out of the buffer is replaced with the state, or
\* untouched.
LEMMA AnswerStream ==
    ASSUME TypeInd, BufferIs(tx, buffer), AnswerPass, ~overwrote'
    PROVE  \E s \in Seq(Frame(AnyByte)) :
              /\ mailboxes' = mailboxes \o s
              /\ MailIs(s, tx', buffer')
              /\ Joins(s, tx, buffer, tx', buffer')
              /\ BufferIs(tx', buffer')
<1>1. PICK len, written, m, f :
          /\ Answered(len, written, m)
          /\ \/ FrameOfAnswer(len, written, m, f) /\ f.pci = FirstFrame
             \/ FrameOfAnswer(len, written, m, f) /\ f.pci = SingleFrame
                /\ GoesOnSending(written)
             \/ UNCHANGED mailboxes /\ GoesOnSending(written)
  BY AnswerFacts
<1>2. /\ tx \in TxObject /\ mailboxes \in Seq(Frame(AnyByte))
      /\ FfData \in Nat /\ MaxPayload \in Nat
  BY Sizes DEF TypeInd, TxIs, MailboxesAre
<1>3. /\ len \in Nat /\ written \in Nat /\ written <= MaxPayload
      /\ \A k \in 1 .. written : buffer'[k] = [msg |-> m, pos |-> k]
      /\ \A k \in written + 1 .. MaxPayload : buffer'[k] = buffer[k]
  BY <1>1, <1>2 DEF Answered
<1>4. CASE FrameOfAnswer(len, written, m, f) /\ f.pci = FirstFrame
  <2>1. PICK s : s = <<f>>
    OBVIOUS
  <2>2. s \in Seq(Frame(AnyByte)) /\ mailboxes' = mailboxes \o s
    <3>1. f \in Frame(AnyByte) /\ mailboxes' = Append(mailboxes, f)
      BY <1>4 DEF FrameOfAnswer
    <3>2. QED
      BY <1>2, <2>1, <3>1, OneMore
  <2>3. Speaks(f)
    BY <1>4 DEF Speaks, SingleFrame, FirstFrame
  <2>4. ResponseFrame(f)
    BY <1>4 DEF FrameOfAnswer, ResponseFrame, FirstFrame, ConsecutiveFrame
  <2>5. /\ Len(f.data) = FfData /\ FfData < len /\ len <= written
        /\ tx'.offset = FfData /\ tx'.total = len /\ tx'.sn = 1 % SnMod
        /\ Of(f) = m /\ From(f) = 0
    BY <1>4 DEF FrameOfAnswer, SingleFrame, FirstFrame
  <2>6. \A k \in FfData + 1 .. len : buffer'[k] = [msg |-> m, pos |-> k]
    BY <1>2, <1>3, <2>5
  <2>7. BufferIs(tx', buffer')
    <3>1. PICK k : k = FfData + 1
      OBVIOUS
    <3>2. k \in FfData + 1 .. len
      BY <1>2, <1>3, <2>5, <3>1
    <3>3. buffer'[k] = [msg |-> m, pos |-> k]
      BY <2>6, <3>2
    <3>4. QED
      BY <2>5, <2>6, <3>1, <3>3 DEF BufferIs
  <2>8. Behind(f) = [msg |-> m, offset |-> FfData, sn |-> 1 % SnMod]
    BY <1>2, <1>4, <2>5 DEF Behind, FirstFrame, ConsecutiveFrame
  <2>9. Pending(tx', buffer', Behind(f))
    BY <2>5, <2>6, <2>8 DEF Pending
  <2>10. MailIs(s, tx', buffer')
    <3>1. Len(s) = 1 /\ s[1] = f
      BY <2>1
    <3>2. Continues(s, tx', buffer', Behind(f), 1)
      BY <2>9, <3>1 DEF Continues
    <3>3. QED
      BY <2>4, <3>1, <3>2 DEF MailIs
  <2>11. Joins(s, tx, buffer, tx', buffer')
    BY <1>4, <2>1, <2>3 DEF Joins, Fits, FirstFrame, ConsecutiveFrame
  <2>12. QED
    BY <2>2, <2>7, <2>10, <2>11
\* Otherwise the transmission under way, if any, goes on or times out.
<1>5. ASSUME GoesOnSending(written)
      PROVE  /\ BufferIs(tx', buffer')
             /\ \A p : Pending(tx, buffer, p) => Pending(tx', buffer', p)
  <2>1. ASSUME tx'.state # "Idle"
        PROVE  /\ tx' = tx /\ tx.state # "Idle"
               /\ \A k \in tx.offset + 1 .. tx.total : buffer'[k] = buffer[k]
    <3>1. tx' = tx /\ written <= tx.offset
      BY <1>5, <2>1 DEF GoesOnSending
    <3>2. tx.total <= MaxPayload /\ tx.total \in Nat /\ tx.offset \in Nat
      BY <1>2 DEF TxObject
    <3>3. QED
      BY <1>2, <1>3, <2>1, <3>1, <3>2
  <2>2. BufferIs(tx', buffer')
    <3>1. SUFFICES ASSUME tx'.state # "Idle"
                   PROVE  \A k \in tx.offset + 1 .. tx.total :
                              buffer'[k] = [msg |-> buffer'[tx.offset + 1].msg, pos |-> k]
      BY <2>1 DEF BufferIs
    <3>2. tx.state # "Idle" /\ \A k \in tx.offset + 1 .. tx.total : buffer'[k] = buffer[k]
      BY <2>1, <3>1
    <3>3. tx.offset < tx.total
      BY <3>2 DEF TypeInd, TxIs
    <3>4. PICK first : first = tx.offset + 1
      OBVIOUS
    <3>5. first \in tx.offset + 1 .. tx.total
      BY <1>2, <3>3, <3>4 DEF TxObject
    <3>6. buffer'[first] = buffer[first]
      BY <3>2, <3>5
    <3>7. QED
      BY <3>2, <3>4, <3>6 DEF BufferIs
  <2>3. ASSUME NEW p, Pending(tx, buffer, p) PROVE Pending(tx', buffer', p)
    BY <2>1, <2>3 DEF Pending
  <2>4. QED
    BY <2>2, <2>3
<1>6. CASE FrameOfAnswer(len, written, m, f) /\ f.pci = SingleFrame /\ GoesOnSending(written)
  <2>1. PICK s : s = <<f>>
    OBVIOUS
  <2>2. s \in Seq(Frame(AnyByte)) /\ mailboxes' = mailboxes \o s
    <3>1. f \in Frame(AnyByte) /\ mailboxes' = Append(mailboxes, f)
      BY <1>6 DEF FrameOfAnswer
    <3>2. QED
      BY <1>2, <2>1, <3>1, OneMore
  <2>3. Speaks(f) /\ ResponseFrame(f)
    BY <1>3, <1>6 DEF FrameOfAnswer, Speaks, ResponseFrame, SingleFrame, FirstFrame
  <2>4. MailIs(s, tx', buffer')
    BY <1>6, <2>1, <2>3 DEF MailIs
  <2>5. Joins(s, tx, buffer, tx', buffer')
    BY <1>6, <2>1, <2>3 DEF Joins, Fits, SingleFrame, ConsecutiveFrame
  <2>6. QED
    BY <1>5, <1>6, <2>2, <2>4, <2>5
<1>7. CASE UNCHANGED mailboxes /\ GoesOnSending(written)
  <2>1. PICK s \in Seq(Frame(AnyByte)) : s = <<>>
    BY EmptySeq
  <2>2. mailboxes' = mailboxes \o s
    BY <1>2, <1>7, <2>1
  <2>3. MailIs(s, tx', buffer') /\ Quiet(s, 0, Len(s))
    BY <2>1 DEF MailIs, Quiet
  <2>4. Joins(s, tx, buffer, tx', buffer')
    BY <1>5, <1>7, <2>3 DEF Joins
  <2>5. QED
    BY <1>5, <1>7, <2>2, <2>3, <2>4
<1>8. QED
  BY <1>1, <1>4, <1>6, <1>7

\* What a step adds to the mailboxes, and what it leaves to be sent.
Streams ==
    \E s \in Seq(Frame(AnyByte)) :
        /\ mailboxes' = mailboxes \o s
        /\ MailIs(s, tx', buffer')
        /\ Joins(s, tx, buffer, tx', buffer')
        /\ BufferIs(tx', buffer')

\* A step that hands no frame of a response to the controller, and at most gives
\* up the transmission under way.
LEMMA QuietStream ==
    ASSUME BufferIs(tx, buffer), buffer' = buffer,
           tx'.state # "Idle" => /\ tx.state # "Idle" /\ tx'.total = tx.total
                                 /\ tx'.offset = tx.offset /\ tx'.sn = tx.sn,
           NEW s \in Seq(Frame(AnyByte)), mailboxes' = mailboxes \o s,
           \A i \in 1 .. Len(s) : ~Speaks(s[i])
    PROVE  Streams
<1>1. BufferIs(tx', buffer')
  BY DEF BufferIs
<1>2. ASSUME NEW p, Pending(tx, buffer, p) PROVE Pending(tx', buffer', p)
  BY <1>2 DEF Pending
<1>3. Quiet(s, 0, Len(s))
  BY DEF Quiet
<1>4. MailIs(s, tx', buffer')
  BY DEF MailIs, ResponseFrame
<1>5. Joins(s, tx, buffer, tx', buffer')
  BY <1>2, <1>3 DEF Joins
<1>6. QED
  BY <1>1, <1>4, <1>5 DEF Streams

\* The flow control frame of the ECU is no frame of a response.
LEMMA FirstFrameStream ==
    ASSUME TypeInd, BufferIs(tx, buffer), NEW f, HandleFF(f, tick)
    PROVE  Streams
<1>1. UNCHANGED <<tx, buffer>> /\ mailboxes \in Seq(Frame(AnyByte))
  BY DEF HandleFF, TypeInd, MailboxesAre
<1>2. PICK b \in Frame(AnyByte) : b = FlowControlFrame(ContinueToSend)
  BY AnswerTyped
<1>3. ~Speaks(b)
  <2>1. FlowControlByte(ContinueToSend) \div 16 = 0 /\ FlowControlByte(ContinueToSend) % 16 = 0
    BY DEF FlowControlByte, ContinueToSend
  <2>2. b.pci = 0 /\ b.n = 0
    BY <1>2, <2>1 DEF FlowControlFrame
  <2>3. QED
    BY <2>2 DEF Speaks, SingleFrame
<1>4. CASE mailboxes' = mailboxes
  <2>1. PICK s \in Seq(Frame(AnyByte)) : s = <<>>
    BY EmptySeq
  <2>2. mailboxes' = mailboxes \o s /\ \A i \in 1 .. Len(s) : ~Speaks(s[i])
    BY <1>1, <1>4, <2>1
  <2>3. QED
    BY <1>1, <2>2, QuietStream
<1>5. CASE mailboxes' = Append(mailboxes, b)
  <2>1. PICK s : s = <<b>>
    OBVIOUS
  <2>2. s \in Seq(Frame(AnyByte)) /\ Len(s) = 1 /\ s[1] = b /\ Append(mailboxes, b) = mailboxes \o s
    BY <1>1, <1>2, <2>1, OneMore
  <2>3. mailboxes' = mailboxes \o s /\ \A i \in 1 .. Len(s) : ~Speaks(s[i])
    BY <1>3, <1>5, <2>2
  <2>4. QED
    BY <1>1, <2>2, <2>3, QuietStream
<1>6. QED
  BY <1>2, <1>4, <1>5 DEF HandleFF

\* Flow control puts the time-out off, or lets a block go.
LEMMA FlowControlStream ==
    ASSUME TypeInd, TxIs(tx'), BufferIs(tx, buffer),
           NEW f \in Frame(AnyByte), HandleFC(f, tick)
    PROVE  Streams
<1>1. tx.state = "WaitFC" /\ UNCHANGED buffer
  BY DEF HandleFC, FlowControlOk
<1>2. tx \in TxObject /\ mailboxes \in Seq(Frame(AnyByte))
  BY DEF TypeInd, TxIs, MailboxesAre
<1>3. CASE tx' = [tx EXCEPT !.deadline = (tick + NBs) % TickMod] /\ UNCHANGED mailboxes
  <2>1. PICK s \in Seq(Frame(AnyByte)) : s = <<>>
    BY EmptySeq
  <2>2. mailboxes' = mailboxes \o s /\ \A i \in 1 .. Len(s) : ~Speaks(s[i])
    BY <1>2, <1>3, <2>1
  <2>3. tx'.total = tx.total /\ tx'.offset = tx.offset /\ tx'.sn = tx.sn
    BY <1>2, <1>3 DEF TxObject
  <2>4. QED
    BY <1>1, <2>2, <2>3, QuietStream
<1>4. CASE SendNextCFs(f.bs, tick)
  <2>1. PICK bs \in 0 .. 255 : bs = f.bs
    BY FrameTypes
  <2>2. PICK s : BlockOf(s)
    BY <1>1, <1>4, <2>1, BlockExists
  <2>3. /\ MailIs(s, tx', buffer) /\ Joins(s, tx, buffer, tx', buffer)
        /\ BufferIs(tx', buffer)
    BY <1>1, <2>2, BlockStream
  <2>4. s \in Seq(Frame(AnyByte)) /\ mailboxes' = mailboxes \o s
    BY <2>2 DEF BlockOf
  <2>5. QED
    BY <1>1, <2>3, <2>4 DEF Streams
<1>5. QED
  BY <1>3, <1>4 DEF HandleFC

\* A pass without a message at most times the transmission out.
LEMMA IdleStream ==
    ASSUME TypeInd, BufferIs(tx, buffer), IdlePass
    PROVE  Streams
<1>1. tx \in TxObject /\ mailboxes \in Seq(Frame(AnyByte))
  BY DEF TypeInd, TxIs, MailboxesAre
<1>2. UNCHANGED <<buffer, mailboxes>> /\ (tx' = tx \/ tx'.state = "Idle")
  BY <1>1 DEF IdlePass, TxUpdate, TxObject
<1>3. PICK s \in Seq(Frame(AnyByte)) : s = <<>>
  BY EmptySeq
<1>4. mailboxes' = mailboxes \o s /\ \A i \in 1 .. Len(s) : ~Speaks(s[i])
  BY <1>1, <1>2, <1>3
<1>5. QED
  BY <1>2, <1>4, QuietStream

-----------------------------------------------------------------------------
(* The invariant of the responses.                                         *)

\* The plan does not change, and with it the set of bytes.
LEMMA ResponsePrime ==
    ASSUME lengths' = lengths, receiver' \in ReceiverObject(AnyByte),
           ~deaf' /\ ~overwrote' => /\ BufferIs(tx', buffer')
                                    /\ MailIs(mailboxes', tx', buffer')
                                    /\ TesterIs(receiver', mailboxes', tx', buffer')
    PROVE  ResponseInd'
<1>1. AnyByte' = AnyByte
  BY DEF AnyByte
<1>2. ReceiverObject(AnyByte)' = ReceiverObject(AnyByte)
  BY <1>1 DEF ReceiverObject
<1>3. QED
  BY <1>2 DEF ResponseInd

\* Frames are handed to the controller.
LEMMA GrowStep ==
    ASSUME TypeInd, ResponseInd, UNCHANGED <<lengths, receiver, deaf>>,
           overwrote => overwrote',
           ~deaf /\ ~overwrote' => Streams
    PROVE  ResponseInd'
<1>1. receiver' \in ReceiverObject(AnyByte)
  BY DEF ResponseInd
<1>2. ASSUME ~deaf', ~overwrote'
      PROVE  /\ BufferIs(tx', buffer')
             /\ MailIs(mailboxes', tx', buffer')
             /\ TesterIs(receiver', mailboxes', tx', buffer')
  <2>1. /\ MailIs(mailboxes, tx, buffer)
        /\ TesterIs(receiver, mailboxes, tx, buffer)
        /\ mailboxes \in Seq(Frame(AnyByte))
    BY <1>2 DEF ResponseInd, TypeInd, MailboxesAre
  <2>2. PICK s \in Seq(Frame(AnyByte)) :
            /\ mailboxes' = mailboxes \o s
            /\ MailIs(s, tx', buffer')
            /\ Joins(s, tx, buffer, tx', buffer')
            /\ BufferIs(tx', buffer')
    BY <1>2 DEF Streams
  <2>3. PICK both, t2, b2, r : both = mailboxes' /\ t2 = tx' /\ b2 = buffer' /\ r = receiver
    OBVIOUS
  <2>4. MailIs(both, t2, b2)
    BY <2>1, <2>2, <2>3, MailJoined
  <2>5. TesterIs(r, both, t2, b2)
    BY <2>1, <2>2, <2>3, TesterJoined
  <2>6. QED
    BY <2>2, <2>3, <2>4, <2>5
<1>3. QED
  BY <1>1, <1>2, ResponsePrime

-----------------------------------------------------------------------------
(* The tester.                                                             *)

\* The fields of the receiver.
LEMMA ReceiverFields ==
    ASSUME NEW r \in ReceiverObject(AnyByte)
    PROVE  /\ r.active \in BOOLEAN /\ r.buf \in Seq(AnyByte) /\ r.got \in Seq(AnyByte)
           /\ r.expected \in Nat /\ r.sn \in 0 .. SnMod - 1
BY DEF ReceiverObject

\* Whatever it receives, the tester stays of its type.
LEMMA ReceiverTyped ==
    ASSUME NEW r \in ReceiverObject(AnyByte), NEW f \in Frame(AnyByte)
    PROVE  Received(r, f) \in ReceiverObject(AnyByte)
<1>1. /\ f.data \in Seq(AnyByte) /\ f.n \in Nat
      /\ r.buf \in Seq(AnyByte) /\ r.sn \in 0 .. SnMod - 1
  BY FrameTypes, ReceiverFields
<1>2. /\ 1 % SnMod \in 0 .. SnMod - 1 /\ (r.sn + 1) % SnMod \in 0 .. SnMod - 1
      /\ 0 \in 0 .. SnMod - 1
  <2>1. PICK n \in Nat : n = r.sn + 1
    BY <1>1, Sizes
  <2>2. 1 \in Nat /\ SnMod \in Nat \ {0}
    BY Sizes
  <2>3. QED
    BY <2>1, <2>2, Widths
<1>3. PICK buf \in Seq(AnyByte) : buf = r.buf \o f.data
  BY <1>1, ConcatProperties
<1>4. <<>> \in Seq(AnyByte)
  BY EmptySeq
<1>5. QED
  BY <1>1, <1>2, <1>3, <1>4 DEF Received, ReceiverObject

\* The bytes the tester has, continued by the next ones.
LEMMA BytesJoined ==
    ASSUME NEW q \in Seq(AnyByte), q # <<>>, NEW d \in Seq(AnyByte), NEW m,
           BytesFrom(q, m, 0), BytesFrom(d, m, Len(q))
    PROVE  /\ BytesFrom(q \o d, m, 0) /\ q \o d # <<>>
           /\ Len(q \o d) = Len(q) + Len(d) /\ (q \o d)[1].msg = m
<1>1. PICK both : both = q \o d
  OBVIOUS
<1>2. PICK k, n : k = Len(q) /\ n = Len(d)
  OBVIOUS
<1>3. k \in Nat /\ n \in Nat /\ k # 0
  BY <1>2
<1>4. both \in Seq(AnyByte) /\ Len(both) = k + n
  BY <1>1, <1>2, <1>3, ConcatProperties
<1>5. /\ \A j \in 1 .. k : both[j] = q[j]
      /\ \A j \in 1 .. n : both[k + j] = d[j]
  BY <1>1, <1>2, <1>3, ConcatAt
<1>6. ASSUME NEW i \in 1 .. k + n PROVE both[i] = [msg |-> m, pos |-> i]
  <2>1. CASE i <= k
    <3>1. i \in 1 .. k
      BY <1>1, <1>2, <1>3, <2>1
    <3>2. q[i] = [msg |-> m, pos |-> 0 + i] /\ 0 + i = i
      BY <1>1, <1>2, <1>3, <3>1 DEF BytesFrom
    <3>3. QED
      BY <1>5, <3>1, <3>2
  <2>2. CASE i > k
    <3>1. PICK j \in 1 .. n : i = k + j
      <4>1. i - k \in 1 .. n /\ i = k + (i - k)
        BY <1>1, <1>2, <1>3, <2>2
      <4>2. QED
        BY <4>1
    <3>2. d[j] = [msg |-> m, pos |-> k + j]
      BY <1>1, <1>2, <1>3, <3>1 DEF BytesFrom
    <3>3. QED
      BY <1>5, <3>1, <3>2
  <2>3. QED
    BY <1>1, <1>2, <1>3, <2>1, <2>2
<1>7. both[1] = [msg |-> m, pos |-> 1]
  <2>1. 1 \in 1 .. k + n
    BY <1>1, <1>2, <1>3
  <2>2. QED
    BY <1>6, <2>1
<1>8. BytesFrom(both, m, 0)
  <2>1. ASSUME NEW i \in 1 .. Len(both) PROVE both[i] = [msg |-> m, pos |-> 0 + i]
    <3>1. i \in 1 .. k + n /\ 0 + i = i
      BY <1>4
    <3>2. QED
      BY <1>6, <3>1
  <2>2. QED
    BY <2>1 DEF BytesFrom
<1>9. QED
  BY <1>1, <1>2, <1>3, <1>4, <1>7, <1>8

\* The next Consecutive Frame ends the reception or goes on with it.
LEMMA ReceivedMore ==
    ASSUME NEW r \in ReceiverObject(AnyByte), NEW f, f.pci = ConsecutiveFrame,
           r.active, f.n = r.sn
    PROVE  /\ Len(r.buf \o f.data) >= r.expected =>
                  ~Received(r, f).active /\ Received(r, f).got = r.buf \o f.data
           /\ ~(Len(r.buf \o f.data) >= r.expected) =>
                  /\ Received(r, f).active /\ Received(r, f).got = r.got
                  /\ Received(r, f).buf = r.buf \o f.data
                  /\ Received(r, f).sn = (r.sn + 1) % SnMod
<1> PICK buf, r2 : buf = r.buf \o f.data /\ r2 = Received(r, f)
  OBVIOUS
<1>1. f.pci # SingleFrame /\ f.pci # FirstFrame
  BY DEF SingleFrame, FirstFrame, ConsecutiveFrame
<1>2. CASE Len(buf) >= r.expected
  <2>1. r2 = [[r EXCEPT !.active = FALSE, !.buf = <<>>, !.expected = 0, !.sn = 0]
                 EXCEPT !.got = buf]
    BY <1>1, <1>2, Zenon DEF Received
  <2>2. QED
    BY <1>2, <2>1 DEF ReceiverObject
<1>3. CASE ~(Len(buf) >= r.expected)
  <2>1. r2 = [r EXCEPT !.buf = buf, !.sn = (@ + 1) % SnMod]
    BY <1>1, <1>3, Zenon DEF Received
  <2>2. QED
    BY <1>3, <2>1 DEF ReceiverObject
<1>4. QED
  BY <1>2, <1>3

\* The oldest frame reaches the tester: what it has of a response is continued, a
\* response begins, or there is nothing in it for the tester.
LEMMA TesterHears ==
    ASSUME NEW q \in Seq(Frame(AnyByte)), q # <<>>, NEW f, f = Head(q),
           NEW rest, rest = Tail(q), NEW t, NEW b,
           NEW r \in ReceiverObject(AnyByte), NEW r2, r2 = Received(r, f),
           MailIs(q, t, b), TesterIs(r, q, t, b)
    PROVE  TesterIs(r2, rest, t, b)
<1>1. f = q[1] /\ f \in Frame(AnyByte) /\ Len(q) \in Nat \ {0}
  OBVIOUS
<1>2. /\ ResponseFrame(f)
      /\ Speaks(f) /\ f.pci # SingleFrame => Continues(q, t, b, Behind(f), 1)
  <2>1. 1 \in 1 .. Len(q)
    BY <1>1
  <2>2. QED
    BY <1>1, <2>1 DEF MailIs
<1>3. /\ f.data \in Seq(AnyByte) /\ r.buf \in Seq(AnyByte)
      /\ r.sn \in 0 .. SnMod - 1 /\ r.active \in BOOLEAN
  BY <1>1, FrameTypes, ReceiverFields
<1>4. ASSUME NEW p, Continues(q, t, b, p, 1) PROVE Continues(rest, t, b, p, 0)
  <2>1. 0 \in 0 .. Len(rest) /\ 1 = 0 + 1
    BY HeadTailProperties
  <2>2. QED
    BY <1>4, <2>1, ContinuesAhead
\* Nothing for the tester.
<1>5. CASE ~Speaks(f)
  <2>1. r2 = r
    BY <1>5 DEF Received, Speaks
  <2>2. PICK p : p = At(r)
    OBVIOUS
  <2>3. ASSUME Continues(q, t, b, p, 0) PROVE Continues(rest, t, b, p, 0)
    <3>1. Continues(q, t, b, p, 1)
      BY <1>1, <1>5, <2>3, ContinuesPastHead
    <3>2. QED
      BY <1>4, <3>1
  <2>4. QED
    BY <2>1, <2>2, <2>3 DEF TesterIs
\* A response in one frame.
<1>6. CASE Speaks(f) /\ f.pci = SingleFrame
  <2>1. ~r2.active /\ r2.got = f.data
    BY <1>6 DEF Received, Speaks, ReceiverObject
  <2>2. BytesFrom(f.data, f.data[1].msg, 0)
    BY <1>2, <1>6 DEF ResponseFrame, Of, SingleFrame, ConsecutiveFrame
  <2>3. QED
    BY <2>1, <2>2 DEF TesterIs
\* The beginning of a response.
<1>7. CASE Speaks(f) /\ f.pci = FirstFrame
  <2>1. /\ r2.buf = f.data /\ r2.sn = 1 % SnMod /\ r2.got = r.got
    BY <1>7 DEF Received, ReceiverObject, SingleFrame, FirstFrame
  <2>2. f.data # <<>> /\ BytesFrom(f.data, Of(f), 0) /\ From(f) = 0
    BY <1>2, <1>7 DEF ResponseFrame, FirstFrame, ConsecutiveFrame
  <2>3. PICK p : p = Behind(f)
    OBVIOUS
  <2>4. At(r2) = p
    <3>1. 0 + Len(f.data) = Len(f.data)
      BY <1>3
    <3>2. QED
      BY <1>7, <2>1, <2>2, <2>3, <3>1 DEF At, Behind, Of, FirstFrame, ConsecutiveFrame
  <2>5. Continues(rest, t, b, p, 0)
    <3>1. Continues(q, t, b, p, 1)
      BY <1>2, <1>7, <2>3 DEF SingleFrame, FirstFrame
    <3>2. QED
      BY <1>4, <3>1
  <2>6. r.got # <<>> => BytesFrom(r.got, r.got[1].msg, 0)
    BY DEF TesterIs
  <2>7. QED
    BY <2>1, <2>2, <2>4, <2>5, <2>6 DEF TesterIs, Of
\* More of it.
<1>8. CASE Speaks(f) /\ f.pci = ConsecutiveFrame /\ ~r.active
  <2>1. r2 = r
    BY <1>8 DEF Received, SingleFrame, FirstFrame, ConsecutiveFrame
  <2>2. QED
    BY <1>8, <2>1 DEF TesterIs
<1>9. CASE Speaks(f) /\ f.pci = ConsecutiveFrame /\ r.active
  <2>1. PICK m : m = r.buf[1].msg
    OBVIOUS
  <2>2. r.buf # <<>> /\ BytesFrom(r.buf, m, 0) /\ Continues(q, t, b, At(r), 0)
    BY <1>9, <2>1 DEF TesterIs
  <2>3. f.n = r.sn /\ Of(f) = m /\ From(f) = Len(r.buf)
    <3>1. PICK p : p = At(r)
      OBVIOUS
    <3>2. 1 \in 0 + 1 .. Len(q) /\ Quiet(q, 0, 1 - 1)
      BY <1>1 DEF Quiet
    <3>3. Fits(f, p)
      BY <1>1, <1>9, <2>2, <3>1, <3>2 DEF Continues
    <3>4. QED
      BY <1>9, <2>1, <3>1, <3>3 DEF Fits, At
  <2>4. BytesFrom(f.data, m, Len(r.buf))
    BY <1>2, <1>9, <2>3 DEF ResponseFrame
  <2>5. PICK buf, k : buf = r.buf \o f.data /\ k = Len(r.buf)
    OBVIOUS
  <2>6. /\ BytesFrom(buf, m, 0) /\ buf # <<>> /\ Len(buf) = k + Len(f.data)
        /\ buf[1].msg = m
    <3>1. PICK p, d : p = r.buf /\ d = f.data
      OBVIOUS
    <3>2. /\ p \in Seq(AnyByte) /\ d \in Seq(AnyByte) /\ p # <<>> /\ k = Len(p)
          /\ BytesFrom(p, m, 0) /\ BytesFrom(d, m, k) /\ buf = p \o d
      BY <1>3, <2>2, <2>4, <2>5, <3>1
    <3>3. /\ BytesFrom(p \o d, m, 0) /\ p \o d # <<>>
          /\ Len(p \o d) = Len(p) + Len(d) /\ (p \o d)[1].msg = m
      BY <3>2, BytesJoined
    <3>4. QED
      BY <3>1, <3>2, <3>3
  <2>7. /\ Len(buf) >= r.expected => ~r2.active /\ r2.got = buf
        /\ ~(Len(buf) >= r.expected) =>
               r2.buf = buf /\ r2.sn = (r.sn + 1) % SnMod /\ r2.got = r.got /\ r2.active
    <3>1. r \in ReceiverObject(AnyByte) /\ r2 = Received(r, f)
      OBVIOUS
    <3>2. f.pci = ConsecutiveFrame /\ r.active /\ f.n = r.sn
      BY <1>9, <2>3
    <3>3. QED
      BY <2>5, <3>1, <3>2, ReceivedMore
  <2>8. CASE Len(buf) >= r.expected
    <3>1. ~r2.active /\ r2.got = buf
      BY <2>7, <2>8
    <3>2. QED
      BY <2>6, <3>1 DEF TesterIs
  <2>9. CASE ~(Len(buf) >= r.expected)
    <3>1. r2.buf = buf /\ r2.sn = (r.sn + 1) % SnMod /\ r2.got = r.got /\ r2.active
      BY <2>7, <2>9
    <3>2. PICK p : p = Behind(f)
      OBVIOUS
    <3>3. At(r2) = p
      BY <1>9, <2>3, <2>5, <2>6, <3>1, <3>2 DEF At, Behind
    <3>4. Continues(rest, t, b, p, 0)
      <4>1. Continues(q, t, b, p, 1)
        BY <1>2, <1>9, <3>2 DEF SingleFrame, ConsecutiveFrame
      <4>2. QED
        BY <1>4, <4>1
    <3>5. r.got # <<>> => BytesFrom(r.got, r.got[1].msg, 0)
      BY DEF TesterIs
    <3>6. QED
      BY <2>6, <3>1, <3>3, <3>4, <3>5 DEF TesterIs
  <2>10. QED
    BY <2>8, <2>9
<1>10. QED
  BY <1>2, <1>3, <1>5, <1>6, <1>7, <1>8, <1>9 DEF ResponseFrame

\* A frame leaves the controller, and the tester receives it or does not.
LEMMA TransmitStep ==
    ASSUME TypeInd, ResponseInd, Transmit
    PROVE  ResponseInd'
<1>1. PICK q, rest, f, r2 :
          /\ q = mailboxes /\ rest = mailboxes' /\ f = Head(q) /\ r2 = Received(receiver, f)
          /\ q # <<>> /\ rest = Tail(q)
          /\ (receiver' = r2 /\ UNCHANGED deaf) \/ (deaf' = TRUE /\ UNCHANGED receiver)
          /\ UNCHANGED <<tx, buffer, lengths, overwrote>>
  BY DEF Transmit
<1>2. q \in Seq(Frame(AnyByte)) /\ f \in Frame(AnyByte)
  <2>1. q \in Seq(Frame(AnyByte))
    BY <1>1 DEF TypeInd, MailboxesAre
  <2>2. QED
    BY <1>1, <2>1
<1>3. receiver \in ReceiverObject(AnyByte)
  BY DEF ResponseInd
<1>4. receiver' \in ReceiverObject(AnyByte)
  BY <1>1, <1>2, <1>3, ReceiverTyped
<1>5. ASSUME ~deaf', ~overwrote'
      PROVE  /\ BufferIs(tx', buffer')
             /\ MailIs(mailboxes', tx', buffer')
             /\ TesterIs(receiver', mailboxes', tx', buffer')
  <2>1. BufferIs(tx, buffer) /\ MailIs(q, tx, buffer) /\ TesterIs(receiver, q, tx, buffer)
    BY <1>1, <1>5 DEF ResponseInd
  <2>2. PICK t, b, r : t = tx /\ b = buffer /\ r = receiver
    OBVIOUS
  <2>3. MailIs(rest, t, b)
    BY <1>1, <1>2, <2>1, <2>2, MailShrinks
  <2>4. TesterIs(r2, rest, t, b)
    BY <1>1, <1>2, <1>3, <2>1, <2>2, TesterHears
  <2>5. QED
    BY <1>1, <1>5, <2>1, <2>2, <2>3, <2>4
<1>6. QED
  BY <1>1, <1>4, <1>5, ResponsePrime

\* Nothing is under way at first.
LEMMA InitResponse == Init => ResponseInd
<1> SUFFICES ASSUME Init PROVE ResponseInd
  OBVIOUS
<1>1. receiver \in ReceiverObject(AnyByte)
  BY Sizes, EmptySeq DEF Init, ReceiverObject
<1>2. BufferIs(tx, buffer)
  BY DEF Init, NewTx, BufferIs
<1>3. MailIs(mailboxes, tx, buffer)
  BY DEF Init, MailIs
<1>4. TesterIs(receiver, mailboxes, tx, buffer)
  BY DEF Init, TesterIs
<1>5. QED
  BY <1>1, <1>2, <1>3, <1>4 DEF ResponseInd

\* One step per action that touches the responses.
LEMMA NextResponse == TypeInd /\ TypeInd' /\ ResponseInd /\ [Next]_vars => ResponseInd'
<1> SUFFICES ASSUME TypeInd, TypeInd', ResponseInd, [Next]_vars PROVE ResponseInd'
  OBVIOUS
<1>1. ASSUME UNCHANGED <<tx, buffer, mailboxes, lengths, receiver, deaf, overwrote>>
      PROVE  ResponseInd'
  BY <1>1, ResponsePrime DEF ResponseInd
<1>2. TxIs(tx')
  BY DEF TypeInd, TxIs
<1>3. CASE SendRequest \/ SendConsecutive \/ SendFlowControl
  BY <1>1, <1>3 DEF SendRequest, SendConsecutive, SendFlowControl, isotpVars
<1>4. CASE Transmit
  BY <1>4, TransmitStep
<1>5. CASE FeedFrame
  <2>1. PICK f \in Frame(AnyByte) : ProcessFrame(f, tick)
    <3>1. ring \in Seq(Frame(AnyByte)) /\ ring # <<>> /\ ProcessFrame(Head(ring), tick)
      BY <1>5 DEF FeedFrame, TypeInd
    <3>2. Head(ring) \in Frame(AnyByte)
      BY <3>1
    <3>3. QED
      BY <3>1, <3>2
  <2>2. UNCHANGED <<lengths, receiver, deaf, overwrote>>
    BY <1>5 DEF FeedFrame
  <2>3. CASE HandleSF(f) \/ HandleCF(f, tick) \/ Discard(f)
    <3>1. UNCHANGED <<tx, buffer, mailboxes>>
      BY <2>3 DEF HandleSF, HandleCF, Discard, isotpVars
    <3>2. QED
      BY <1>1, <2>2, <3>1
  <2>4. CASE HandleFF(f, tick) \/ HandleFC(f, tick)
    <3>1. ASSUME ~deaf, ~overwrote' PROVE Streams
      <4>1. BufferIs(tx, buffer)
        BY <2>2, <3>1 DEF ResponseInd
      <4>2. QED
        BY <1>2, <2>4, <4>1, FirstFrameStream, FlowControlStream
    <3>2. QED
      BY <2>2, <3>1, GrowStep
  <2>5. QED
    BY <2>1, <2>3, <2>4 DEF ProcessFrame
<1>6. CASE IdlePass
  <2>1. UNCHANGED <<lengths, receiver, deaf, overwrote>>
    BY <1>6 DEF IdlePass, linkVars
  <2>2. ASSUME ~deaf, ~overwrote' PROVE Streams
    <3>1. BufferIs(tx, buffer)
      BY <2>1, <2>2 DEF ResponseInd
    <3>2. QED
      BY <1>6, <3>1, IdleStream
  <2>3. QED
    BY <2>1, <2>2, GrowStep
<1>7. CASE AnswerPass
  <2>1. UNCHANGED <<lengths, receiver, deaf>> /\ (overwrote => overwrote')
    BY <1>7 DEF AnswerPass
  <2>2. ASSUME ~deaf, ~overwrote' PROVE Streams
    <3>1. BufferIs(tx, buffer)
      BY <2>1, <2>2 DEF ResponseInd
    <3>2. QED
      BY <1>7, <2>2, <3>1, AnswerStream DEF Streams
  <2>3. QED
    BY <2>1, <2>2, GrowStep
<1>8. CASE Advance
  BY <1>1, <1>8 DEF Advance, isotpVars
<1>9. CASE UNCHANGED vars
  BY <1>1, <1>9 DEF vars, isotpVars, linkVars
<1>10. QED
  BY <1>3, <1>4, <1>5, <1>6, <1>7, <1>8, <1>9 DEF Next

\* The invariant the theorem on the responses rests on.
LEMMA ResponseInvariant == Spec => []ResponseInd
<1>1. QED
  BY InitResponse, NextResponse, TypeInvariant, PTL DEF Spec

-----------------------------------------------------------------------------
(* The order of the responses, and their lengths.                          *)

\* A frame a response begins with.
Begins(f) == f.pci = FirstFrame \/ (f.pci = SingleFrame /\ f.n # 0)

\* Every response that begins in the mailboxes answers a later request than m,
\* and no later one than n.
Between(m, q, n) ==
    \A i \in 1 .. Len(q) :
        Begins(q[i]) => q[i].data # <<>> /\ Of(q[i]) \in m + 1 .. n

\* The responses begin in the order of the requests.
InOrder(q) ==
    \A i \in 1 .. Len(q) : \A j \in i + 1 .. Len(q) :
        Begins(q[i]) /\ Begins(q[j]) => Of(q[i]) < Of(q[j])

\* The last response the tester completed is older than the one it receives, and
\* both are older than those on their way.
HeardIs(r, q, n) ==
    /\ r.got # <<>> => r.got[1].msg \in 1 .. n /\ Between(r.got[1].msg, q, n)
    /\ r.active => /\ r.buf # <<>>
                   /\ r.buf[1].msg \in 1 .. n
                   /\ Between(r.buf[1].msg, q, n)
                   /\ r.got # <<>> => r.got[1].msg < r.buf[1].msg

\* A frame is part of a response of the length in a, and announces that length.
FitsAnswer(f, a, n) ==
    Speaks(f) =>
        /\ Of(f) \in 1 .. n
        /\ From(f) + Len(f.data) <= a[Of(f)]
        /\ f.pci = SingleFrame => Len(f.data) = a[Of(f)]
        /\ f.pci = FirstFrame => f.n = a[Of(f)] % LenMod

\* What is left in the buffer is the rest of such a response.
RestFits(t, b, a, n) ==
    t.state # "Idle" => LET m == b[t.offset + 1].msg IN m \in 1 .. n /\ t.total = a[m]

\* The tester has no more of a response than there is, and knows how much there is.
TesterFits(r, a) ==
    /\ r.active => LET m == r.buf[1].msg
                   IN  Len(r.buf) <= a[m] /\ r.expected = a[m] % LenMod
    /\ r.got # <<>> => LET m == r.got[1].msg IN a[m] < LenMod => Len(r.got) = a[m]

Answers == [1 .. Len(lengths) -> 0 .. MaxPayload]

AnswerInd ==
    /\ answers \in Answers
    /\ Between(0, mailboxes, taken) /\ InOrder(mailboxes)
    /\ HeardIs(receiver, mailboxes, taken)
    /\ ~deaf /\ ~overwrote =>
          /\ \A i \in 1 .. Len(mailboxes) : FitsAnswer(mailboxes[i], answers, taken)
          /\ RestFits(tx, buffer, answers, taken)
          /\ TesterFits(receiver, answers)

-----------------------------------------------------------------------------
(* The order as frames come and go.                                        *)

\* What is added to the mailboxes begins no response, or the one to request n2.
Newer(s, n, n2) ==
    \/ \A i \in 1 .. Len(s) : ~Begins(s[i])
    \/ Len(s) = 1 /\ s[1].data # <<>> /\ Of(s[1]) = n2 /\ n < n2

\* The bounds on the responses on their way, when frames are added.
LEMMA BetweenJoined ==
    ASSUME NEW S, NEW q \in Seq(S), NEW s \in Seq(S), NEW both, both = q \o s,
           NEW n \in Nat, NEW n2 \in Nat, n <= n2, NEW m \in 0 .. n,
           Between(m, q, n), Newer(s, n, n2)
    PROVE  Between(m, both, n2)
<1>1. PICK l, k : l = Len(q) /\ k = Len(s)
  OBVIOUS
<1>2. l \in Nat /\ k \in Nat
  BY <1>1
<1>3. /\ Len(both) = l + k /\ \A j \in 1 .. l : both[j] = q[j]
      /\ \A j \in 1 .. k : both[l + j] = s[j]
  BY <1>1, <1>2, ConcatAt, ConcatProperties
<1>4. ASSUME NEW i \in 1 .. Len(both), Begins(both[i])
      PROVE  both[i].data # <<>> /\ Of(both[i]) \in m + 1 .. n2
  <2>1. CASE i <= l
    <3>1. i \in 1 .. l
      BY <1>2, <1>3, <2>1
    <3>2. q[i].data # <<>> /\ Of(q[i]) \in m + 1 .. n
      BY <1>1, <1>3, <1>4, <3>1 DEF Between
    <3>3. QED
      BY <1>3, <3>1, <3>2
  <2>2. CASE i > l
    <3>1. PICK h \in 1 .. k : i = l + h
      <4>1. i - l \in 1 .. k /\ i = l + (i - l)
        BY <1>2, <1>3, <2>2
      <4>2. QED
        BY <4>1
    <3>2. both[i] = s[h]
      BY <1>3, <3>1
    <3>3. k = 1 /\ s[1].data # <<>> /\ Of(s[1]) = n2 /\ n < n2
      BY <1>1, <1>4, <3>1, <3>2 DEF Newer
    <3>4. h = 1 /\ n2 \in m + 1 .. n2
      BY <3>1, <3>3
    <3>5. QED
      BY <3>2, <3>3, <3>4
  <2>3. QED
    BY <1>2, <1>3, <2>1, <2>2
<1>5. QED
  BY <1>4 DEF Between

\* The order of the responses on their way, when frames are added.
LEMMA OrderJoined ==
    ASSUME NEW S, NEW q \in Seq(S), NEW s \in Seq(S), NEW both, both = q \o s,
           NEW n \in Nat, NEW n2 \in Nat,
           Between(0, q, n), InOrder(q), Newer(s, n, n2)
    PROVE  InOrder(both)
<1>1. PICK l, k : l = Len(q) /\ k = Len(s)
  OBVIOUS
<1>2. l \in Nat /\ k \in Nat
  BY <1>1
<1>3. /\ Len(both) = l + k /\ \A j \in 1 .. l : both[j] = q[j]
      /\ \A j \in 1 .. k : both[l + j] = s[j]
  BY <1>1, <1>2, ConcatAt, ConcatProperties
<1>4. ASSUME NEW i \in l + 1 .. Len(both), Begins(both[i])
      PROVE  i = l + 1 /\ k = 1 /\ Of(both[i]) = n2 /\ n < n2
  <2>1. PICK h \in 1 .. k : i = l + h
    <3>1. i - l \in 1 .. k /\ i = l + (i - l)
      BY <1>2, <1>3
    <3>2. QED
      BY <3>1
  <2>2. both[i] = s[h]
    BY <1>3, <2>1
  <2>3. k = 1 /\ Of(s[1]) = n2 /\ n < n2
    BY <1>1, <1>4, <2>1, <2>2 DEF Newer
  <2>4. h = 1
    BY <2>1, <2>3
  <2>5. QED
    BY <2>1, <2>2, <2>3, <2>4
<1>5. ASSUME NEW i \in 1 .. Len(both), NEW j \in i + 1 .. Len(both),
             Begins(both[i]), Begins(both[j])
      PROVE  Of(both[i]) < Of(both[j])
  <2>1. CASE j <= l
    <3>1. i \in 1 .. l /\ j \in i + 1 .. l
      BY <1>2, <1>3, <2>1
    <3>2. QED
      BY <1>1, <1>3, <1>5, <3>1 DEF InOrder
  <2>2. CASE j > l
    <3>1. j \in l + 1 .. Len(both)
      BY <1>2, <1>3, <2>2
    <3>2. j = l + 1 /\ Of(both[j]) = n2 /\ n < n2
      BY <1>4, <1>5, <3>1
    <3>3. i \in 1 .. l
      BY <1>2, <1>3, <3>2
    <3>4. Of(both[i]) \in 0 + 1 .. n
      BY <1>1, <1>3, <1>5, <3>3 DEF Between
    <3>5. QED
      BY <3>2, <3>4
  <2>3. QED
    BY <1>2, <1>3, <2>1, <2>2
<1>6. QED
  BY <1>5 DEF InOrder

\* The order of what the tester has, when frames are added.
LEMMA HeardJoined ==
    ASSUME NEW S, NEW q \in Seq(S), NEW s \in Seq(S), NEW both, both = q \o s,
           NEW n \in Nat, NEW n2 \in Nat, n <= n2, NEW r,
           HeardIs(r, q, n), Newer(s, n, n2)
    PROVE  HeardIs(r, both, n2)
<1>1. ASSUME NEW m, m \in 1 .. n, Between(m, q, n) PROVE m \in 1 .. n2 /\ Between(m, both, n2)
  <2>1. m \in 0 .. n /\ m \in 1 .. n2
    BY <1>1
  <2>2. QED
    BY <1>1, <2>1, BetweenJoined
<1>2. PICK g, m : g = r.got[1].msg /\ m = r.buf[1].msg
  OBVIOUS
<1>3. r.got # <<>> => g \in 1 .. n2 /\ Between(g, both, n2)
  BY <1>1, <1>2 DEF HeardIs
<1>4. r.active => m \in 1 .. n2 /\ Between(m, both, n2)
  BY <1>1, <1>2 DEF HeardIs
<1>5. QED
  BY <1>2, <1>3, <1>4 DEF HeardIs

\* The oldest frame leaves: the others begin later responses than it does.
LEMMA OrderShrinks ==
    ASSUME NEW S, NEW q \in Seq(S), q # <<>>, NEW rest, rest = Tail(q),
           NEW n \in Nat, InOrder(q)
    PROVE  /\ InOrder(rest)
           /\ \A m : Between(m, q, n) => Between(m, rest, n)
           /\ Begins(q[1]) /\ Between(0, q, n) => Between(Of(q[1]), rest, n)
<1>1. PICK l \in Nat : l = Len(rest)
  BY HeadTailProperties
<1>2. Len(q) = l + 1 /\ \A j \in 1 .. l : rest[j] = q[j + 1]
  <2>1. Len(rest) = Len(q) - 1 /\ Len(q) \in Nat /\ \A j \in 1 .. Len(rest) : rest[j] = q[j + 1]
    BY HeadTailProperties
  <2>2. QED
    BY <1>1, <2>1
<1>3. ASSUME NEW m, Between(m, q, n) PROVE Between(m, rest, n)
  <2>1. ASSUME NEW i \in 1 .. Len(rest), Begins(rest[i])
        PROVE  rest[i].data # <<>> /\ Of(rest[i]) \in m + 1 .. n
    <3>1. PICK j \in 1 .. Len(q) : j = i + 1 /\ rest[i] = q[j]
      BY <1>1, <1>2
    <3>2. QED
      BY <1>3, <2>1, <3>1 DEF Between
  <2>2. QED
    BY <2>1 DEF Between
<1>4. ASSUME Begins(q[1]), Between(0, q, n) PROVE Between(Of(q[1]), rest, n)
  <2>1. ASSUME NEW i \in 1 .. Len(rest), Begins(rest[i])
        PROVE  rest[i].data # <<>> /\ Of(rest[i]) \in Of(q[1]) + 1 .. n
    <3>1. PICK j \in 1 .. Len(q) : j = i + 1 /\ rest[i] = q[j]
      BY <1>1, <1>2
    <3>2. q[j].data # <<>> /\ Of(q[j]) \in 0 + 1 .. n
      BY <1>4, <2>1, <3>1 DEF Between
    <3>3. 1 \in 1 .. Len(q) /\ j \in 1 + 1 .. Len(q)
      BY <1>2, <3>1
    <3>4. Of(q[1]) < Of(q[j]) /\ Of(q[1]) \in 0 + 1 .. n
      BY <1>4, <2>1, <3>1, <3>3 DEF InOrder, Between
    <3>5. QED
      BY <3>1, <3>2, <3>4
  <2>2. QED
    BY <2>1 DEF Between
<1>5. InOrder(rest)
  <2>1. ASSUME NEW i \in 1 .. Len(rest), NEW j \in i + 1 .. Len(rest),
               Begins(rest[i]), Begins(rest[j])
        PROVE  Of(rest[i]) < Of(rest[j])
    <3>1. PICK g \in 1 .. Len(q), h \in 1 .. Len(q) : g = i + 1 /\ h = j + 1
      BY <1>1, <1>2
    <3>2. h \in g + 1 .. Len(q) /\ rest[i] = q[g] /\ rest[j] = q[h]
      BY <1>1, <1>2, <3>1
    <3>3. QED
      BY <2>1, <3>1, <3>2 DEF InOrder
  <2>2. QED
    BY <2>1 DEF InOrder
<1>6. QED
  BY <1>3, <1>4, <1>5

-----------------------------------------------------------------------------
(* The tester hears the oldest frame.                                      *)

\* A Consecutive Frame is nothing, given up or more to the tester.
LEMMA ReceivedPiece ==
    ASSUME NEW q \in Seq(AnyByte), q # <<>>, NEW r \in ReceiverObject(AnyByte), r.buf = q,
           NEW f \in Frame(AnyByte), f.pci = ConsecutiveFrame, r.active,
           NEW r2, r2 = Received(r, f)
    PROVE  \/ ~r2.active /\ r2.got = r.got
           \/ \E buf \in Seq(AnyByte) :
                 /\ buf # <<>> /\ buf[1] = q[1] /\ Len(buf) = Len(q) + Len(f.data)
                 /\ \/ ~r2.active /\ r2.got = buf /\ Len(buf) >= r.expected
                    \/ /\ r2.active /\ r2.buf = buf /\ r2.got = r.got
                       /\ r2.expected = r.expected
<1>1. f.data \in Seq(AnyByte)
  BY FrameTypes
<1>2. PICK buf, d : d = f.data /\ buf = q \o d
  OBVIOUS
<1>3. buf \in Seq(AnyByte) /\ Len(buf) = Len(q) + Len(f.data)
  BY <1>1, <1>2, ConcatProperties
<1>4. buf # <<>> /\ buf[1] = q[1]
  <2>1. PICK k, n : k = Len(q) /\ n = Len(d)
    OBVIOUS
  <2>2. k \in Nat /\ n \in Nat /\ k # 0 /\ d \in Seq(AnyByte)
    BY <1>1, <1>2, <2>1
  <2>3. \A j \in 1 .. k : buf[j] = q[j]
    BY <1>2, <2>1, <2>2, ConcatAt
  <2>4. 1 \in 1 .. k /\ Len(buf) # 0
    BY <1>2, <1>3, <2>1, <2>2
  <2>5. QED
    BY <1>3, <2>3, <2>4
<1>5. CASE f.n # r.sn
  BY <1>5 DEF Received, ReceiverObject, SingleFrame, FirstFrame, ConsecutiveFrame
<1>6. CASE f.n = r.sn /\ Len(buf) >= r.expected
  <2>1. ~r2.active /\ r2.got = buf
    BY <1>2, <1>6 DEF Received, ReceiverObject, SingleFrame, FirstFrame, ConsecutiveFrame
  <2>2. QED
    BY <1>3, <1>4, <1>6, <2>1
<1>7. CASE f.n = r.sn /\ ~(Len(buf) >= r.expected)
  <2>1. r2.active /\ r2.buf = buf /\ r2.got = r.got /\ r2.expected = r.expected
    BY <1>2, <1>7 DEF Received, ReceiverObject, SingleFrame, FirstFrame, ConsecutiveFrame
  <2>2. QED
    BY <1>3, <1>4, <2>1
<1>8. QED
  BY <1>5, <1>6, <1>7

\* The four things a frame can be to the tester.
LEMMA ReceivedCases ==
    ASSUME NEW r \in ReceiverObject(AnyByte), NEW f \in Frame(AnyByte),
           NEW r2, r2 = Received(r, f)
    PROVE  \/ f.pci = SingleFrame /\ f.n # 0 /\ ~r2.active /\ r2.got = f.data
           \/ /\ f.pci = FirstFrame /\ r2.active /\ r2.buf = f.data /\ r2.got = r.got
              /\ r2.expected = f.n
           \/ f.pci = ConsecutiveFrame /\ r.active
           \/ r2 = r
BY DEF Received, ReceiverObject, SingleFrame, FirstFrame, ConsecutiveFrame

\* What the tester completes answers a later request than what it completed last.
LEMMA HearsInOrder ==
    ASSUME NEW q \in Seq(Frame(AnyByte)), q # <<>>, NEW f, f = Head(q),
           NEW rest, rest = Tail(q), NEW n \in Nat,
           NEW r \in ReceiverObject(AnyByte), NEW r2, r2 = Received(r, f),
           Between(0, q, n), InOrder(q), HeardIs(r, q, n)
    PROVE  /\ HeardIs(r2, rest, n)
           /\ \/ r2.got = r.got
              \/ /\ r2.got # <<>> /\ r2.got[1].msg \in 1 .. n
                 /\ r.got # <<>> => r.got[1].msg < r2.got[1].msg
<1>1. f = q[1] /\ f \in Frame(AnyByte) /\ 1 \in 1 .. Len(q)
  OBVIOUS
<1>2. /\ \A m : Between(m, q, n) => Between(m, rest, n)
      /\ Begins(f) => Between(Of(f), rest, n) /\ Of(f) \in 1 .. n /\ f.data # <<>>
  <2>1. Begins(f) => Of(f) \in 0 + 1 .. n /\ f.data # <<>>
    BY <1>1 DEF Between
  <2>2. /\ \A m : Between(m, q, n) => Between(m, rest, n)
        /\ Begins(q[1]) /\ Between(0, q, n) => Between(Of(q[1]), rest, n)
    BY OrderShrinks
  <2>3. 0 + 1 .. n = 1 .. n
    OBVIOUS
  <2>4. QED
    BY <1>1, <2>1, <2>2, <2>3
<1>3. PICK g, m : g = r.got[1].msg /\ m = r.buf[1].msg
  OBVIOUS
<1>4. r.got # <<>> => /\ g \in 1 .. n /\ Between(g, q, n) /\ Between(g, rest, n)
                      /\ Begins(f) => g < Of(f)
  <2>1. SUFFICES ASSUME r.got # <<>>
                 PROVE  /\ g \in 1 .. n /\ Between(g, q, n) /\ Between(g, rest, n)
                        /\ Begins(f) => g < Of(f)
    OBVIOUS
  <2>2. g \in 1 .. n /\ Between(g, q, n)
    BY <1>3, <2>1 DEF HeardIs
  <2>3. Begins(f) => Of(f) \in g + 1 .. n
    BY <1>1, <2>2 DEF Between
  <2>4. QED
    BY <1>2, <2>2, <2>3
<1>5. r.active => /\ r.buf # <<>> /\ m \in 1 .. n /\ Between(m, rest, n)
                  /\ r.got # <<>> => g < m
  BY <1>2, <1>3 DEF HeardIs
<1>6. CASE f.pci = SingleFrame /\ f.n # 0 /\ ~r2.active /\ r2.got = f.data
  <2>1. Begins(f) /\ r2.got[1].msg = Of(f)
    BY <1>6 DEF Begins, Of
  <2>2. QED
    BY <1>2, <1>3, <1>4, <1>6, <2>1 DEF HeardIs
<1>7. CASE f.pci = FirstFrame /\ r2.active /\ r2.buf = f.data /\ r2.got = r.got
  <2>1. Begins(f) /\ r2.buf[1].msg = Of(f)
    BY <1>7 DEF Begins, Of
  <2>2. QED
    BY <1>2, <1>3, <1>4, <1>7, <2>1 DEF HeardIs
<1>8. CASE f.pci = ConsecutiveFrame /\ r.active
  <2>1. PICK b : b = r.buf
    OBVIOUS
  <2>2. b \in Seq(AnyByte) /\ b # <<>> /\ b[1].msg = m
    BY <1>3, <1>5, <1>8, <2>1, ReceiverFields
  <2>3. CASE ~r2.active /\ r2.got = r.got
    BY <1>3, <1>4, <2>3 DEF HeardIs
  <2>4. ASSUME NEW buf, buf # <<>>, buf[1] = b[1], ~r2.active, r2.got = buf
        PROVE  /\ HeardIs(r2, rest, n)
               /\ r2.got # <<>> /\ r2.got[1].msg \in 1 .. n
               /\ r.got # <<>> => r.got[1].msg < r2.got[1].msg
    <3>1. r2.got[1].msg = m
      BY <2>2, <2>4
    <3>2. QED
      BY <1>3, <1>5, <1>8, <2>4, <3>1 DEF HeardIs
  <2>5. ASSUME NEW buf, buf # <<>>, buf[1] = b[1], r2.active, r2.buf = buf, r2.got = r.got
        PROVE  HeardIs(r2, rest, n)
    <3>1. r2.buf[1].msg = m
      BY <2>2, <2>5
    <3>2. QED
      BY <1>3, <1>4, <1>5, <1>8, <2>5, <3>1 DEF HeardIs
  <2>6. \/ ~r2.active /\ r2.got = r.got
        \/ \E buf : /\ buf # <<>> /\ buf[1] = b[1]
                    /\ \/ ~r2.active /\ r2.got = buf
                       \/ r2.active /\ r2.buf = buf /\ r2.got = r.got
    BY <1>1, <1>8, <2>1, <2>2, ReceivedPiece
  <2>7. QED
    BY <2>3, <2>4, <2>5, <2>6
<1>9. CASE r2 = r
  BY <1>3, <1>4, <1>5, <1>9 DEF HeardIs
<1>10. QED
  BY <1>1, <1>6, <1>7, <1>8, <1>9, ReceivedCases

\* The next piece of what the tester receives starts where that ends.
LEMMA NextPiece ==
    ASSUME NEW q, Len(q) \in Nat \ {0}, NEW f, f = q[1], f.pci = ConsecutiveFrame,
           NEW t, NEW b, NEW r, r.active, TesterIs(r, q, t, b)
    PROVE  f.n = r.sn /\ Of(f) = r.buf[1].msg /\ From(f) = Len(r.buf)
<1>1. PICK p : p = At(r)
  OBVIOUS
<1>2. Continues(q, t, b, p, 0)
  BY <1>1 DEF TesterIs
<1>3. 1 \in 0 + 1 .. Len(q) /\ Quiet(q, 0, 1 - 1)
  BY DEF Quiet
<1>4. Speaks(f)
  BY DEF Speaks, SingleFrame, ConsecutiveFrame
<1>5. Fits(f, p)
  BY <1>2, <1>3, <1>4 DEF Continues
<1>6. QED
  BY <1>1, <1>5 DEF Fits, At

\* A length that fits its field is announced as it is.
LEMMA Announced ==
    ASSUME NEW l \in Nat, l < LenMod
    PROVE  l % LenMod = l
BY Sizes

\* What the tester has stays within the response it is of, and is all of it at the
\* end.
LEMMA HearsFitting ==
    ASSUME NEW q \in Seq(Frame(AnyByte)), q # <<>>, NEW f, f = Head(q), NEW n \in Nat,
           NEW t, NEW b, NEW a, \A k \in 1 .. n : a[k] \in Nat,
           NEW r \in ReceiverObject(AnyByte), NEW r2, r2 = Received(r, f),
           MailIs(q, t, b), TesterIs(r, q, t, b), HeardIs(r, q, n),
           FitsAnswer(f, a, n), TesterFits(r, a)
    PROVE  TesterFits(r2, a)
<1>1. f = q[1] /\ f \in Frame(AnyByte) /\ 1 \in 1 .. Len(q) /\ Len(q) \in Nat \ {0}
  OBVIOUS
<1>2. ResponseFrame(f) /\ f.data \in Seq(AnyByte) /\ Len(f.data) \in Nat
  BY <1>1, FrameTypes DEF MailIs
<1>3. r.got # <<>> => LET m == r.got[1].msg IN a[m] < LenMod => Len(r.got) = a[m]
  BY DEF TesterFits
<1>4. CASE f.pci = SingleFrame /\ f.n # 0 /\ ~r2.active /\ r2.got = f.data
  <2>1. Len(f.data) = a[Of(f)] /\ r2.got[1].msg = Of(f)
    BY <1>4 DEF FitsAnswer, Speaks, Of
  <2>2. QED
    BY <1>4, <2>1 DEF TesterFits
<1>5. CASE f.pci = FirstFrame /\ r2.active /\ r2.buf = f.data /\ r2.got = r.got
           /\ r2.expected = f.n
  <2>1. Speaks(f) /\ r2.buf[1].msg = Of(f)
    BY <1>5 DEF Speaks, Of, SingleFrame, FirstFrame
  <2>2. From(f) = 0
    BY <1>2, <1>5, <2>1 DEF ResponseFrame, FirstFrame, ConsecutiveFrame
  <2>3. 0 + Len(f.data) <= a[Of(f)] /\ f.n = a[Of(f)] % LenMod
    BY <1>5, <2>1, <2>2 DEF FitsAnswer
  <2>4. Len(f.data) <= a[Of(f)]
    BY <1>2, <2>3
  <2>5. QED
    BY <1>3, <1>5, <2>1, <2>3, <2>4 DEF TesterFits
<1>6. CASE f.pci = ConsecutiveFrame /\ r.active
  <2>1. PICK m, size : m = r.buf[1].msg /\ size = a[m]
    OBVIOUS
  <2>2. /\ r.buf \in Seq(AnyByte) /\ r.buf # <<>> /\ m \in 1 .. n /\ size \in Nat
        /\ r.expected = size % LenMod
    BY <1>6, <2>1, ReceiverFields DEF HeardIs, TesterFits
  <2>3. Of(f) = m /\ From(f) = Len(r.buf)
    BY <1>1, <1>6, <2>1, NextPiece
  <2>4. Len(r.buf) + Len(f.data) <= size
    <3>1. Speaks(f)
      BY <1>6 DEF Speaks, SingleFrame, ConsecutiveFrame
    <3>2. From(f) + Len(f.data) <= a[Of(f)]
      BY <3>1 DEF FitsAnswer
    <3>3. QED
      BY <2>1, <2>3, <3>2
  <2>5. CASE ~r2.active /\ r2.got = r.got
    BY <1>3, <2>5 DEF TesterFits
  <2>6. ASSUME NEW buf \in Seq(AnyByte), buf[1] = r.buf[1],
               Len(buf) = Len(r.buf) + Len(f.data),
               ~r2.active, r2.got = buf, Len(buf) >= r.expected
        PROVE  TesterFits(r2, a)
    <3>1. r2.got[1].msg = m
      BY <2>1, <2>6
    <3>2. size < LenMod => Len(buf) = size
      <4>1. size < LenMod => size % LenMod = size
        BY <2>2, Announced
      <4>2. PICK l : l = Len(buf)
        OBVIOUS
      <4>3. l <= size /\ l \in Nat
        <5>1. PICK g, h : g = Len(r.buf) /\ h = Len(f.data)
          OBVIOUS
        <5>2. g \in Nat /\ h \in Nat
          BY <1>2, <2>2, <5>1
        <5>3. g + h <= size /\ l = g + h
          BY <2>4, <2>6, <4>2, <5>1
        <5>4. QED
          BY <5>2, <5>3
      <4>4. l >= size % LenMod
        BY <2>2, <2>6, <4>2
      <4>5. QED
        BY <2>2, <4>1, <4>2, <4>3, <4>4
    <3>3. QED
      BY <2>1, <2>6, <3>1, <3>2 DEF TesterFits
  <2>7. ASSUME NEW buf \in Seq(AnyByte), buf[1] = r.buf[1],
               Len(buf) = Len(r.buf) + Len(f.data),
               r2.active, r2.buf = buf, r2.got = r.got, r2.expected = r.expected
        PROVE  TesterFits(r2, a)
    <3>1. r2.buf[1].msg = m
      BY <2>1, <2>7
    <3>2. QED
      BY <1>3, <2>1, <2>2, <2>4, <2>7, <3>1 DEF TesterFits
  <2>8. PICK c : c = r.buf
    OBVIOUS
  <2>9. \/ ~r2.active /\ r2.got = r.got
        \/ \E buf \in Seq(AnyByte) :
              /\ buf # <<>> /\ buf[1] = c[1] /\ Len(buf) = Len(c) + Len(f.data)
              /\ \/ ~r2.active /\ r2.got = buf /\ Len(buf) >= r.expected
                 \/ /\ r2.active /\ r2.buf = buf /\ r2.got = r.got
                    /\ r2.expected = r.expected
    <3>1. c \in Seq(AnyByte) /\ c # <<>> /\ r.buf = c
      BY <2>2, <2>8
    <3>2. f.pci = ConsecutiveFrame /\ r.active /\ f \in Frame(AnyByte)
          /\ r \in ReceiverObject(AnyByte) /\ r2 = Received(r, f)
      BY <1>1, <1>6
    <3>3. QED
      BY <3>1, <3>2, ReceivedPiece
  <2>10. QED
    BY <2>5, <2>6, <2>7, <2>8, <2>9
<1>7. CASE r2 = r
  BY <1>7
<1>8. QED
  BY <1>1, <1>4, <1>5, <1>6, <1>7, ReceivedCases

-----------------------------------------------------------------------------
(* The steps, and the lengths they keep.                                   *)

\* The entries of older responses do not change: what fits them still does.
LEMMA OlderFit ==
    ASSUME NEW n \in Nat, NEW n2 \in Nat, n <= n2, NEW a, NEW a2,
           \A k \in 1 .. n : a2[k] = a[k]
    PROVE  /\ \A f : FitsAnswer(f, a, n) => FitsAnswer(f, a2, n2)
           /\ \A t, b : RestFits(t, b, a, n) => RestFits(t, b, a2, n2)
           /\ \A q, r : HeardIs(r, q, n) /\ TesterFits(r, a) => TesterFits(r, a2)
<1>1. ASSUME NEW f, FitsAnswer(f, a, n) PROVE FitsAnswer(f, a2, n2)
  <2>1. SUFFICES ASSUME Speaks(f)
                 PROVE  /\ Of(f) \in 1 .. n2
                        /\ From(f) + Len(f.data) <= a2[Of(f)]
                        /\ f.pci = SingleFrame => Len(f.data) = a2[Of(f)]
                        /\ f.pci = FirstFrame => f.n = a2[Of(f)] % LenMod
    BY DEF FitsAnswer
  <2>2. PICK m \in 1 .. n : m = Of(f)
    BY <1>1, <2>1 DEF FitsAnswer
  <2>3. a2[m] = a[m] /\ m \in 1 .. n2
    BY <2>2
  <2>4. QED
    BY <1>1, <2>1, <2>2, <2>3 DEF FitsAnswer
<1>2. ASSUME NEW t, NEW b, RestFits(t, b, a, n) PROVE RestFits(t, b, a2, n2)
  BY <1>2 DEF RestFits
<1>3. ASSUME NEW q, NEW r, HeardIs(r, q, n), TesterFits(r, a) PROVE TesterFits(r, a2)
  <2>1. ASSUME r.got # <<>> PROVE a2[r.got[1].msg] = a[r.got[1].msg]
    BY <1>3, <2>1 DEF HeardIs
  <2>2. ASSUME r.active PROVE a2[r.buf[1].msg] = a[r.buf[1].msg]
    BY <1>3, <2>2 DEF HeardIs
  <2>3. QED
    BY <1>3, <2>1, <2>2 DEF TesterFits
<1>4. QED
  BY <1>1, <1>2, <1>3

\* Frames are handed to the controller, of responses already there or of a new one.
LEMMA AnswersGrow ==
    ASSUME TypeInd, AnswerInd, UNCHANGED <<lengths, receiver, deaf>>,
           overwrote => overwrote',
           answers' \in Answers, taken' \in Nat, taken <= taken',
           \A k \in 1 .. taken : answers'[k] = answers[k],
           NEW s \in Seq(Frame(AnyByte)), mailboxes' = mailboxes \o s,
           Newer(s, taken, taken'),
           ~deaf /\ ~overwrote' =>
              /\ \A i \in 1 .. Len(s) : FitsAnswer(s[i], answers', taken')
              /\ RestFits(tx', buffer', answers', taken')
    PROVE  AnswerInd'
<1>1. PICK q, both, n, n2, a, a2, r :
          /\ q = mailboxes /\ both = mailboxes' /\ n = taken /\ n2 = taken'
          /\ a = answers /\ a2 = answers' /\ r = receiver
  OBVIOUS
<1>2. /\ q \in Seq(Frame(AnyByte)) /\ both = q \o s /\ n \in Nat /\ n2 \in Nat /\ n <= n2
      /\ Between(0, q, n) /\ InOrder(q) /\ HeardIs(r, q, n) /\ Newer(s, n, n2)
      /\ 0 \in 0 .. n
  BY <1>1, SenderFacts DEF TypeInd, MailboxesAre, AnswerInd
<1>3. Between(0, both, n2)
  BY <1>2, BetweenJoined
<1>4. InOrder(both)
  BY <1>2, OrderJoined
<1>5. HeardIs(r, both, n2)
  BY <1>2, HeardJoined
<1>6. ASSUME ~deaf', ~overwrote'
      PROVE  /\ \A i \in 1 .. Len(both) : FitsAnswer(both[i], a2, n2)
             /\ RestFits(tx', buffer', a2, n2)
             /\ TesterFits(r, a2)
  <2>1. /\ \A i \in 1 .. Len(q) : FitsAnswer(q[i], a, n)
        /\ TesterFits(r, a)
    BY <1>1, <1>6 DEF AnswerInd
  <2>2. /\ \A i \in 1 .. Len(s) : FitsAnswer(s[i], a2, n2)
        /\ RestFits(tx', buffer', a2, n2)
    BY <1>1, <1>6
  <2>3. \A k \in 1 .. n : a2[k] = a[k]
    BY <1>1
  <2>4. /\ \A f : FitsAnswer(f, a, n) => FitsAnswer(f, a2, n2)
        /\ TesterFits(r, a2)
    BY <1>2, <2>1, <2>3, OlderFit
  <2>5. PICK l, k : l = Len(q) /\ k = Len(s)
    OBVIOUS
  <2>6. l \in Nat /\ k \in Nat
    BY <1>2, <2>5
  <2>7. /\ Len(both) = l + k /\ \A j \in 1 .. l : both[j] = q[j]
        /\ \A j \in 1 .. k : both[l + j] = s[j]
    BY <1>2, <2>5, <2>6, ConcatAt, ConcatProperties
  <2>8. ASSUME NEW i \in 1 .. Len(both) PROVE FitsAnswer(both[i], a2, n2)
    <3>1. CASE i \in 1 .. l
      BY <2>1, <2>4, <2>5, <2>7, <3>1
    <3>2. CASE i \notin 1 .. l
      <4>1. i - l \in 1 .. k /\ l + (i - l) = i
        BY <2>6, <2>7, <3>2
      <4>2. QED
        BY <2>2, <2>5, <2>7, <4>1
    <3>3. QED
      BY <3>1, <3>2
  <2>9. QED
    BY <2>2, <2>4, <2>8
<1>7. Answers' = Answers
  BY DEF Answers
<1>8. QED
  BY <1>1, <1>3, <1>4, <1>5, <1>6, <1>7 DEF AnswerInd

\* A step that hands over no frame, or the flow control frame of the ECU.
LEMMA AnswersQuiet ==
    ASSUME TypeInd, AnswerInd,
           UNCHANGED <<lengths, receiver, deaf, overwrote, taken, answers, buffer>>,
           tx'.state # "Idle" => tx.state # "Idle" /\ tx'.total = tx.total
                                 /\ tx'.offset = tx.offset,
           \/ UNCHANGED mailboxes
           \/ mailboxes' = Append(mailboxes, FlowControlFrame(ContinueToSend))
    PROVE  AnswerInd'
<1>1. mailboxes \in Seq(Frame(AnyByte)) /\ taken \in Nat
  BY SenderFacts DEF TypeInd, MailboxesAre
<1>2. PICK b \in Frame(AnyByte) : b = FlowControlFrame(ContinueToSend)
  BY AnswerTyped
<1>3. ~Speaks(b) /\ ~Begins(b)
  <2>1. FlowControlByte(ContinueToSend) \div 16 = 0 /\ FlowControlByte(ContinueToSend) % 16 = 0
    BY DEF FlowControlByte, ContinueToSend
  <2>2. b.pci = 0 /\ b.n = 0
    BY <1>2, <2>1 DEF FlowControlFrame
  <2>3. QED
    BY <2>2 DEF Speaks, Begins, SingleFrame, FirstFrame
<1>4. PICK s \in Seq(Frame(AnyByte)) :
          /\ mailboxes' = mailboxes \o s
          /\ \A i \in 1 .. Len(s) : ~Speaks(s[i]) /\ ~Begins(s[i])
  <2>1. CASE UNCHANGED mailboxes
    <3>1. PICK s \in Seq(Frame(AnyByte)) : s = <<>>
      BY EmptySeq
    <3>2. mailboxes' = mailboxes \o s /\ Len(s) = 0
      BY <1>1, <2>1, <3>1
    <3>3. 1 .. Len(s) = {}
      BY <3>2
    <3>4. QED
      BY <3>2, <3>3
  <2>2. CASE mailboxes' = Append(mailboxes, b)
    <3>1. PICK s : s = <<b>>
      OBVIOUS
    <3>2. s \in Seq(Frame(AnyByte)) /\ Len(s) = 1 /\ s[1] = b /\ Append(mailboxes, b) = mailboxes \o s
      BY <1>1, <1>2, <3>1, OneMore
    <3>3. QED
      BY <1>3, <2>2, <3>2
  <2>3. QED
    BY <1>2, <2>1, <2>2
<1>5. Newer(s, taken, taken')
  BY <1>4 DEF Newer
<1>6. answers' \in Answers /\ taken' \in Nat /\ taken <= taken'
  BY <1>1 DEF AnswerInd
<1>7. ASSUME ~deaf, ~overwrote'
      PROVE  /\ \A i \in 1 .. Len(s) : FitsAnswer(s[i], answers', taken')
             /\ RestFits(tx', buffer', answers', taken')
  <2>1. RestFits(tx, buffer, answers, taken)
    BY <1>7 DEF AnswerInd
  <2>2. RestFits(tx', buffer', answers', taken')
    BY <2>1 DEF RestFits
  <2>3. QED
    BY <1>4, <2>2 DEF FitsAnswer
<1>8. QED
  BY <1>4, <1>5, <1>6, <1>7, AnswersGrow

\* A block sent out of the buffer stays within the response, and so does the rest.
LEMMA BlockFits ==
    ASSUME TypeInd, TxIs(tx'), BufferIs(tx, buffer), tx.state # "Idle", NEW s, BlockOf(s),
           NEW a, NEW n, RestFits(tx, buffer, a, n)
    PROVE  /\ \A i \in 1 .. Len(s) : FitsAnswer(s[i], a, n)
           /\ RestFits(tx', buffer, a, n)
<1>1. PICK total \in Nat, offset \in Nat, sn \in 0 .. SnMod - 1 :
         total = tx.total /\ offset = tx.offset /\ sn = tx.sn /\ offset < total
  BY Sizes DEF TypeInd, TxIs, TxObject
<1>2. CfData \in Nat /\ SnMod \in Nat \ {0}
  BY Sizes
<1>3. PICK m : m = buffer[tx.offset + 1].msg
  OBVIOUS
<1>4. m \in 1 .. n /\ total = a[m]
  BY <1>1, <1>3 DEF RestFits
<1>5. PICK sent \in Nat : sent = Len(s) /\ s \in Seq(Frame(AnyByte))
  BY DEF BlockOf
<1>6. ASSUME NEW i \in 1 .. sent PROVE FitsAnswer(s[i], a, n)
  <2>1. PICK here \in Nat : here = offset + (i - 1) * CfData /\ offset <= here
    <3>1. PICK k \in Nat : k = i - 1
      OBVIOUS
    <3>2. PICK gone \in Nat : gone = k * CfData
      BY <1>2
    <3>3. offset + gone \in Nat /\ offset <= offset + gone
      BY <1>1
    <3>4. QED
      BY <3>1, <3>2, <3>3
  <2>2. PICK c : c = (tx.sn + i - 1) % SnMod
    OBVIOUS
  <2>3. c \in 0 .. SnMod - 1
    <3>1. PICK k \in Nat : k = sn + i - 1
      BY <1>1, <1>2
    <3>2. tx.sn + i - 1 = k
      BY <1>1, <3>1
    <3>3. QED
      BY <2>2, <3>2, Widths
  <2>4. here < tx.total /\ s[i] = ConsecutiveFrameAt(here, c)
    BY <1>1, <1>5, <2>1, <2>2 DEF BlockOf
  <2>5. PICK f : f = s[i]
    OBVIOUS
  <2>6. /\ f \in Frame(AnyByte) /\ f.pci = ConsecutiveFrame /\ Of(f) = m /\ From(f) = here
        /\ Behind(f) = [msg |-> m, offset |-> Smaller(here + CfData, tx.total),
                        sn |-> (c + 1) % SnMod]
    BY <1>1, <1>3, <2>1, <2>3, <2>4, <2>5, PieceOf
  <2>7. From(f) + Len(f.data) = Smaller(here + CfData, total)
    BY <1>1, <2>6 DEF Behind
  <2>8. Smaller(here + CfData, total) <= total
    BY <1>1, <1>2, <2>1 DEF Smaller
  <2>9. QED
    BY <1>4, <2>5, <2>6, <2>7, <2>8 DEF FitsAnswer, SingleFrame, FirstFrame, ConsecutiveFrame
<1>7. RestFits(tx', buffer, a, n)
  <2>1. SUFFICES ASSUME tx'.state # "Idle"
                 PROVE  buffer[tx'.offset + 1].msg = m /\ tx'.total = total
    BY <1>4 DEF RestFits
  <2>2. tx'.total = total /\ tx'.offset = Smaller(offset + sent * CfData, total)
    BY <1>1, <1>5 DEF BlockOf
  <2>3. PICK gone \in Nat : gone = sent * CfData
    BY <1>2
  <2>4. PICK k : k = tx'.offset + 1
    OBVIOUS
  <2>5. tx'.offset < tx'.total
    BY <2>1 DEF TxIs
  <2>6. k \in tx.offset + 1 .. tx.total
    BY <1>1, <2>2, <2>3, <2>4, <2>5 DEF Smaller
  <2>7. buffer[k] = [msg |-> buffer[tx.offset + 1].msg, pos |-> k]
    BY <2>6 DEF BufferIs
  <2>8. QED
    BY <1>3, <2>2, <2>4, <2>7
<1>8. QED
  BY <1>5, <1>6, <1>7

\* Flow control puts the time-out off, or lets a block go.
LEMMA AnswersOnFlowControl ==
    ASSUME TypeInd, TxIs(tx'), ResponseInd, AnswerInd,
           UNCHANGED <<lengths, receiver, deaf, overwrote, taken, answers>>,
           NEW f \in Frame(AnyByte), HandleFC(f, tick)
    PROVE  AnswerInd'
<1>1. tx.state = "WaitFC" /\ UNCHANGED buffer
  BY DEF HandleFC, FlowControlOk
<1>2. tx \in TxObject /\ mailboxes \in Seq(Frame(AnyByte)) /\ taken \in Nat
  BY SenderFacts DEF TypeInd, TxIs, MailboxesAre
<1>3. CASE tx' = [tx EXCEPT !.deadline = (tick + NBs) % TickMod] /\ UNCHANGED mailboxes
  <2>1. tx'.total = tx.total /\ tx'.offset = tx.offset
    BY <1>2, <1>3 DEF TxObject
  <2>2. QED
    BY <1>1, <1>3, <2>1, AnswersQuiet
<1>4. CASE SendNextCFs(f.bs, tick)
  <2>1. PICK bs \in 0 .. 255 : bs = f.bs
    BY FrameTypes
  <2>2. PICK s : BlockOf(s)
    BY <1>1, <1>4, <2>1, BlockExists
  <2>3. s \in Seq(Frame(AnyByte)) /\ mailboxes' = mailboxes \o s
    BY <2>2 DEF BlockOf
  <2>4. Newer(s, taken, taken')
    <3>1. ASSUME NEW i \in 1 .. Len(s) PROVE s[i].pci = ConsecutiveFrame
      <4>1. PICK here, c : s[i] = ConsecutiveFrameAt(here, c)
        BY <2>2 DEF BlockOf
      <4>2. QED
        BY <4>1 DEF ConsecutiveFrameAt
    <3>2. QED
      BY <3>1 DEF Newer, Begins, SingleFrame, FirstFrame, ConsecutiveFrame
  <2>5. answers' \in Answers /\ taken' \in Nat /\ taken <= taken'
    BY <1>2 DEF AnswerInd
  <2>6. ASSUME ~deaf, ~overwrote'
        PROVE  /\ \A i \in 1 .. Len(s) : FitsAnswer(s[i], answers', taken')
               /\ RestFits(tx', buffer', answers', taken')
    <3>1. RestFits(tx, buffer, answers, taken) /\ BufferIs(tx, buffer)
      BY <2>6 DEF AnswerInd, ResponseInd
    <3>2. PICK a, n : a = answers /\ n = taken
      OBVIOUS
    <3>3. RestFits(tx, buffer, a, n)
      BY <3>1, <3>2
    <3>4. /\ \A i \in 1 .. Len(s) : FitsAnswer(s[i], a, n)
          /\ RestFits(tx', buffer, a, n)
      BY <1>1, <2>2, <3>1, <3>3, BlockFits
    <3>5. QED
      BY <1>1, <3>2, <3>4
  <2>7. QED
    BY <2>3, <2>4, <2>5, <2>6, AnswersGrow
<1>5. QED
  BY <1>3, <1>4 DEF HandleFC

\* The server answers a later request than it took before.
LEMMA AnswersOnAnswer ==
    ASSUME TypeInd, LinkInd, AnswerInd, AnswerPass
    PROVE  AnswerInd'
<1>1. PICK len, written, m, f :
          /\ Answered(len, written, m)
          /\ \/ FrameOfAnswer(len, written, m, f) /\ f.pci = FirstFrame
             \/ FrameOfAnswer(len, written, m, f) /\ f.pci = SingleFrame
                /\ GoesOnSending(written)
             \/ UNCHANGED mailboxes /\ GoesOnSending(written)
  BY AnswerFacts
<1>2. /\ tx \in TxObject /\ mailboxes \in Seq(Frame(AnyByte)) /\ taken \in Nat
      /\ sender.msg \in 0 .. Len(lengths) /\ FfData \in Nat /\ MaxPayload \in Nat
      /\ Len(lengths) \in Nat /\ LenMod \in Nat \ {0}
  BY SenderFacts, Sizes DEF TypeInd, TxIs, MailboxesAre
<1>3. /\ len \in 0 .. MaxPayload /\ written \in 0 .. MaxPayload /\ m = rx.buf[1].msg
      /\ taken' = m /\ answers' = [answers EXCEPT ![m] = len]
      /\ \A k \in 1 .. written : buffer'[k] = [msg |-> m, pos |-> k]
      /\ \A k \in written + 1 .. MaxPayload : buffer'[k] = buffer[k]
  BY <1>1 DEF Answered
<1>4. m \in taken + 1 .. sender.msg
  <2>1. rx.ready
    BY DEF AnswerPass
  <2>2. rx.buf[1].msg \in taken + 1 .. sender.msg
    BY <2>1 DEF LinkInd, OrderIs, Holds
  <2>3. QED
    BY <1>3, <2>2
<1>5. m \in 1 .. Len(lengths) /\ taken < m /\ m \in 1 .. m
  BY <1>2, <1>4
<1>6. answers \in Answers
  BY DEF AnswerInd
<1>7. /\ answers' \in Answers /\ answers'[m] = len
      /\ \A k \in 1 .. taken : answers'[k] = answers[k]
  BY <1>2, <1>3, <1>5, <1>6 DEF Answers
<1>8. UNCHANGED <<lengths, receiver, deaf>> /\ (overwrote => overwrote')
  BY DEF AnswerPass
<1>9. ASSUME ~deaf, ~overwrote'
      PROVE  RestFits(tx', buffer', answers', taken')
  <2>1. CASE FrameOfAnswer(len, written, m, f) /\ f.pci = FirstFrame
    <3>1. FfData < len /\ len <= written /\ tx'.offset = FfData /\ tx'.total = len
      BY <2>1 DEF FrameOfAnswer, SingleFrame, FirstFrame
    <3>2. PICK k : k = FfData + 1
      OBVIOUS
    <3>3. k \in 1 .. written
      BY <1>2, <1>3, <3>1, <3>2
    <3>4. buffer'[k] = [msg |-> m, pos |-> k]
      BY <1>3, <3>3
    <3>5. buffer'[tx'.offset + 1].msg = m
      BY <3>1, <3>2, <3>4
    <3>6. QED
      BY <1>3, <1>5, <1>7, <3>1, <3>5 DEF RestFits
  <2>2. CASE GoesOnSending(written)
    <3>1. RestFits(tx, buffer, answers, taken)
      BY <1>8, <1>9 DEF AnswerInd
    <3>2. RestFits(tx, buffer, answers', taken')
      <4>1. PICK a, a2, n, n2, t, b : a = answers /\ a2 = answers' /\ n = taken /\ n2 = taken'
                                  /\ t = tx /\ b = buffer
        OBVIOUS
      <4>2. n \in Nat /\ n2 \in Nat /\ n <= n2 /\ \A k \in 1 .. n : a2[k] = a[k]
        BY <1>2, <1>3, <1>5, <1>7, <4>1
      <4>3. RestFits(t, b, a2, n2)
        BY <3>1, <4>1, <4>2, OlderFit
      <4>4. QED
        BY <4>1, <4>3
    <3>3. SUFFICES ASSUME tx'.state # "Idle"
                   PROVE  /\ tx' = tx /\ tx.state # "Idle"
                          /\ buffer'[tx.offset + 1] = buffer[tx.offset + 1]
      BY <3>2 DEF RestFits
    <3>4. tx' = tx /\ written <= tx.offset
      BY <1>9, <2>2, <3>3 DEF GoesOnSending
    <3>5. tx.offset < tx.total /\ tx.total \in 0 .. MaxPayload /\ tx.offset \in Nat
      BY <1>2, <3>3, <3>4 DEF TypeInd, TxIs, TxObject
    <3>6. PICK k : k = tx.offset + 1
      OBVIOUS
    <3>7. k \in written + 1 .. MaxPayload
      BY <1>2, <1>3, <3>4, <3>5, <3>6
    <3>8. QED
      BY <1>3, <3>3, <3>4, <3>6, <3>7
  <2>3. QED
    BY <1>1, <2>1, <2>2
<1>10. CASE FrameOfAnswer(len, written, m, f)
  <2>1. PICK s : s = <<f>>
    OBVIOUS
  <2>2. s \in Seq(Frame(AnyByte)) /\ Len(s) = 1 /\ s[1] = f /\ mailboxes' = mailboxes \o s
    <3>1. f \in Frame(AnyByte) /\ mailboxes' = Append(mailboxes, f)
      BY <1>10 DEF FrameOfAnswer
    <3>2. QED
      BY <1>2, <2>1, <3>1, OneMore
  <2>3. f.data # <<>> /\ Of(f) = m /\ From(f) = 0
    BY <1>10 DEF FrameOfAnswer
  <2>4. Newer(s, taken, taken')
    BY <1>3, <1>5, <2>2, <2>3 DEF Newer
  <2>5. FitsAnswer(f, answers', taken')
    <3>1. \/ f.pci = SingleFrame /\ Len(f.data) = len
          \/ f.pci = FirstFrame /\ f.n = len % LenMod /\ Len(f.data) < len
             /\ Len(f.data) \in Nat
      BY <1>2, <1>10 DEF FrameOfAnswer
    <3>2. 0 + Len(f.data) <= len
      BY <1>3, <3>1
    <3>3. QED
      BY <1>3, <1>5, <1>7, <2>3, <3>1, <3>2 DEF FitsAnswer, SingleFrame, FirstFrame
  <2>6. \A i \in 1 .. Len(s) : FitsAnswer(s[i], answers', taken')
    BY <2>2, <2>5
  <2>7. taken' \in Nat /\ taken <= taken'
    BY <1>2, <1>3, <1>5
  <2>8. QED
    BY <1>7, <1>8, <1>9, <2>2, <2>4, <2>6, <2>7, AnswersGrow
<1>11. CASE UNCHANGED mailboxes
  <2>1. PICK s \in Seq(Frame(AnyByte)) : s = <<>>
    BY EmptySeq
  <2>2. mailboxes' = mailboxes \o s /\ Len(s) = 0
    BY <1>2, <1>11, <2>1
  <2>3. 1 .. Len(s) = {}
    BY <2>2
  <2>4. Newer(s, taken, taken')
    BY <2>3 DEF Newer
  <2>5. \A i \in 1 .. Len(s) : FitsAnswer(s[i], answers', taken')
    BY <2>3
  <2>6. taken' \in Nat /\ taken <= taken'
    BY <1>2, <1>3, <1>5
  <2>7. QED
    BY <1>7, <1>8, <1>9, <2>2, <2>4, <2>5, <2>6, AnswersGrow
<1>12. QED
  BY <1>1, <1>10, <1>11

-----------------------------------------------------------------------------
(* The invariant of the order and the lengths of the responses.            *)

\* A frame leaves the controller, and the tester receives it or does not.
LEMMA AnswersOnTransmit ==
    ASSUME TypeInd, ResponseInd, AnswerInd, Transmit
    PROVE  AnswerInd'
<1>1. PICK q, rest, f, r, r2, n :
          /\ q = mailboxes /\ rest = mailboxes' /\ f = Head(q) /\ r = receiver
          /\ r2 = Received(r, f) /\ n = taken
          /\ q # <<>> /\ rest = Tail(q)
          /\ (receiver' = r2 /\ UNCHANGED deaf) \/ (deaf' = TRUE /\ UNCHANGED receiver)
          /\ UNCHANGED <<tx, buffer, lengths, taken, answers, overwrote>>
  BY DEF Transmit
<1>2. /\ q \in Seq(Frame(AnyByte)) /\ r \in ReceiverObject(AnyByte) /\ n \in Nat
      /\ Between(0, q, n) /\ InOrder(q) /\ HeardIs(r, q, n)
      /\ answers \in Answers
  BY <1>1, SenderFacts DEF TypeInd, MailboxesAre, ResponseInd, AnswerInd
<1>3. /\ InOrder(rest) /\ \A m : Between(m, q, n) => Between(m, rest, n)
  BY <1>1, <1>2, OrderShrinks
<1>4. HeardIs(r, rest, n)
  BY <1>2, <1>3 DEF HeardIs
<1>5. HeardIs(r2, rest, n)
  BY <1>1, <1>2, HearsInOrder
<1>6. ASSUME ~deaf', ~overwrote'
      PROVE  /\ \A i \in 1 .. Len(rest) : FitsAnswer(rest[i], answers, n)
             /\ RestFits(tx, buffer, answers, n)
             /\ TesterFits(r2, answers)
  <2>1. PICK a, t, b : a = answers /\ t = tx /\ b = buffer
    OBVIOUS
  <2>2. /\ ~deaf /\ ~overwrote
        /\ \A i \in 1 .. Len(q) : FitsAnswer(q[i], a, n)
        /\ RestFits(t, b, a, n) /\ TesterFits(r, a)
        /\ MailIs(q, t, b) /\ TesterIs(r, q, t, b)
    BY <1>1, <1>6, <2>1 DEF AnswerInd, ResponseInd
  <2>3. \A k \in 1 .. n : a[k] \in Nat
    <3>1. n \in 0 .. Len(lengths) /\ MaxPayload \in Nat /\ Len(lengths) \in Nat
      BY <1>1, SenderFacts, Sizes DEF TypeInd
    <3>2. QED
      BY <1>2, <2>1, <3>1 DEF Answers
  <2>4. f = q[1] /\ FitsAnswer(f, a, n)
    <3>1. f = q[1] /\ 1 \in 1 .. Len(q)
      BY <1>1, <1>2
    <3>2. QED
      BY <2>2, <3>1
  <2>5. TesterFits(r2, a)
    BY <1>1, <1>2, <2>2, <2>3, <2>4, HearsFitting
  <2>6. ASSUME NEW i \in 1 .. Len(rest) PROVE FitsAnswer(rest[i], a, n)
    <3>1. PICK j \in 1 .. Len(q) : rest[i] = q[j]
      <4>1. /\ Len(rest) = Len(q) - 1 /\ Len(q) \in Nat
            /\ \A k \in 1 .. Len(rest) : rest[k] = q[k + 1]
        BY <1>1, <1>2, HeadTailProperties
      <4>2. i + 1 \in 1 .. Len(q) /\ rest[i] = q[i + 1]
        BY <4>1
      <4>3. QED
        BY <4>2
    <3>2. QED
      BY <2>2, <3>1
  <2>7. QED
    BY <2>1, <2>2, <2>5, <2>6
<1>7. Answers' = Answers
  BY <1>1 DEF Answers
<1>8. Between(0, rest, n)
  BY <1>2, <1>3
<1>9. HeardIs(receiver', rest, n)
  BY <1>1, <1>4, <1>5
<1>10. ASSUME ~deaf', ~overwrote' PROVE receiver' = r2
  BY <1>1, <1>10
<1>11. QED
  BY <1>1, <1>2, <1>3, <1>6, <1>7, <1>8, <1>9, <1>10 DEF AnswerInd

\* Nothing is answered at first.
LEMMA InitAnswer == Init => AnswerInd
<1> SUFFICES ASSUME Init PROVE AnswerInd
  OBVIOUS
<1>1. /\ mailboxes = <<>> /\ ~receiver.active /\ receiver.got = <<>> /\ tx.state = "Idle"
      /\ answers = [m \in 1 .. Len(lengths) |-> 0]
  BY DEF Init, NewTx
<1>2. answers \in Answers
  BY <1>1, Sizes DEF Answers
<1>3. 1 .. Len(mailboxes) = {}
  BY <1>1
<1>4. Between(0, mailboxes, taken) /\ InOrder(mailboxes)
  BY <1>3 DEF Between, InOrder
<1>5. HeardIs(receiver, mailboxes, taken) /\ TesterFits(receiver, answers)
  BY <1>1 DEF HeardIs, TesterFits
<1>6. RestFits(tx, buffer, answers, taken)
  BY <1>1 DEF RestFits
<1>7. QED
  BY <1>2, <1>3, <1>4, <1>5, <1>6 DEF AnswerInd

\* One step per action that touches the responses.
LEMMA NextAnswer ==
    TypeInd /\ TypeInd' /\ LinkInd /\ ResponseInd /\ AnswerInd /\ [Next]_vars => AnswerInd'
<1> SUFFICES ASSUME TypeInd, TypeInd', LinkInd, ResponseInd, AnswerInd, [Next]_vars
             PROVE  AnswerInd'
  OBVIOUS
<1>1. ASSUME UNCHANGED <<tx, buffer, mailboxes, lengths, receiver, taken, answers, deaf,
                         overwrote>>
      PROVE  AnswerInd'
  BY <1>1, AnswersQuiet
<1>2. TxIs(tx') /\ tx \in TxObject
  BY DEF TypeInd, TxIs
<1>3. CASE SendRequest \/ SendConsecutive \/ SendFlowControl
  BY <1>1, <1>3 DEF SendRequest, SendConsecutive, SendFlowControl, isotpVars
<1>4. CASE Transmit
  BY <1>4, AnswersOnTransmit
<1>5. CASE FeedFrame
  <2>1. PICK f \in Frame(AnyByte) : ProcessFrame(f, tick)
    <3>1. ring \in Seq(Frame(AnyByte)) /\ ring # <<>> /\ ProcessFrame(Head(ring), tick)
      BY <1>5 DEF FeedFrame, TypeInd
    <3>2. Head(ring) \in Frame(AnyByte)
      BY <3>1
    <3>3. QED
      BY <3>1, <3>2
  <2>2. UNCHANGED <<lengths, receiver, deaf, overwrote, taken, answers>>
    BY <1>5 DEF FeedFrame
  <2>3. CASE HandleSF(f) \/ HandleCF(f, tick) \/ Discard(f)
    <3>1. UNCHANGED <<tx, buffer, mailboxes>>
      BY <2>3 DEF HandleSF, HandleCF, Discard, isotpVars
    <3>2. QED
      BY <1>1, <2>2, <3>1
  <2>4. CASE HandleFF(f, tick)
    <3>1. /\ UNCHANGED <<tx, buffer>>
          /\ \/ UNCHANGED mailboxes
             \/ mailboxes' = Append(mailboxes, FlowControlFrame(ContinueToSend))
      BY <2>4 DEF HandleFF
    <3>2. QED
      BY <2>2, <3>1, AnswersQuiet
  <2>5. CASE HandleFC(f, tick)
    BY <1>2, <2>2, <2>5, AnswersOnFlowControl
  <2>6. QED
    BY <2>1, <2>3, <2>4, <2>5 DEF ProcessFrame
<1>6. CASE IdlePass
  <2>1. UNCHANGED <<lengths, receiver, deaf, overwrote, taken, answers, buffer, mailboxes>>
    BY <1>6 DEF IdlePass, linkVars
  <2>2. tx' = tx \/ tx'.state = "Idle"
    BY <1>2, <1>6 DEF IdlePass, TxUpdate, TxObject
  <2>3. QED
    BY <2>1, <2>2, AnswersQuiet
<1>7. CASE AnswerPass
  BY <1>7, AnswersOnAnswer
<1>8. CASE Advance
  BY <1>1, <1>8 DEF Advance, isotpVars
<1>9. CASE UNCHANGED vars
  BY <1>1, <1>9 DEF vars, isotpVars, linkVars
<1>10. QED
  BY <1>3, <1>4, <1>5, <1>6, <1>7, <1>8, <1>9 DEF Next

\* The invariant the theorems on the responses rest on, next to ResponseInd.
LEMMA AnswerInvariant == Spec => []AnswerInd
<1>1. QED
  BY InitAnswer, NextAnswer, TypeInvariant, LinkInvariant, ResponseInvariant, PTL DEF Spec

\* The bytes of a response, by their number and in one formula.
LEMMA WholeBytes ==
    ASSUME NEW S, NEW q \in Seq(S), NEW m, NEW l \in Nat, Len(q) = l, BytesFrom(q, m, 0)
    PROVE  q = Bytes(m, l)
<1>1. PICK w : w = Bytes(m, l)
  OBVIOUS
<1>2. \A i \in 1 .. l : q[i] = w[i]
  BY <1>1 DEF Bytes, BytesFrom
<1>3. DOMAIN q = 1 .. l /\ DOMAIN w = 1 .. l
  BY <1>1 DEF Bytes
<1>4. q = [i \in 1 .. l |-> q[i]] /\ w = [i \in 1 .. l |-> w[i]]
  BY <1>1, <1>3 DEF Bytes
<1>5. QED
  BY <1>1, <1>2, <1>4

\* What the tester has is all of the response it is of.
LEMMA WholeAnswer ==
    ASSUME TypeInd, ResponseInd, AnswerInd
    PROVE  ResponseWhole
<1>1. SUFFICES ASSUME ~deaf, ~overwrote, receiver.got # <<>>,
                      NEW m, m = receiver.got[1].msg, answers[m] < LenMod
               PROVE  receiver.got = Bytes(m, answers[m])
  BY DEF ResponseWhole
<1>2. PICK q, l : q = receiver.got /\ l = answers[m]
  OBVIOUS
<1>3. q \in Seq(AnyByte) /\ BytesFrom(q, m, 0)
  BY <1>1, <1>2 DEF ResponseInd, ReceiverObject, TesterIs
<1>4. Len(q) = l
  BY <1>1, <1>2 DEF AnswerInd, TesterFits
<1>5. l \in Nat
  BY <1>3, <1>4
<1>6. QED
  BY <1>2, <1>3, <1>4, <1>5, WholeBytes

\* As long as no frame to the tester is lost and the response buffer is not
\* rewritten under a transmission, what the tester completes is one response of
\* the server, byte for byte and to its end -- whatever the flow control asks for,
\* however full the controller is, and whatever else it sends in between.
THEOREM ResponsesWhole == Spec => []ResponseWhole
<1>1. TypeInd /\ ResponseInd /\ AnswerInd => ResponseWhole
  BY WholeAnswer
<1>2. QED
  BY <1>1, TypeInvariant, ResponseInvariant, AnswerInvariant, PTL

-----------------------------------------------------------------------------
(* The refinement.                                                         *)

\* What waits for the server changes with the receive side only.
LEMMA WaitingKept ==
    ASSUME UNCHANGED lengths, UNCHANGED rx \/ (~rx.ready /\ ~rx'.ready)
    PROVE  UNCHANGED Waiting
<1>1. ASSUME ~rx.ready, ~rx'.ready PROVE UNCHANGED Waiting
  BY <1>1 DEF Waiting, NoMessage
<1>2. ASSUME UNCHANGED rx PROVE UNCHANGED Waiting
  BY <1>2 DEF Waiting, NoMessage, Bytes
<1>3. QED
  BY <1>1, <1>2

\* What the tester heard, with the receiver and the lengths.
LEMMA HeardKept ==
    ASSUME receiver'.got = receiver.got,
           receiver.got # <<>> => answers'[receiver.got[1].msg] = answers[receiver.got[1].msg]
    PROVE  UNCHANGED Heard
<1>1. CASE receiver.got = <<>>
  BY <1>1 DEF Heard, NoMessage
<1>2. CASE receiver.got # <<>>
  BY <1>2 DEF Heard, NoMessage, Bytes
<1>3. QED
  BY <1>1, <1>2

\* A step that changes nothing the abstract specification sees.
LEMMA Stutters ==
    ASSUME UNCHANGED <<sender, broken, taken, lengths, receiver, answers, deaf, overwrote>>,
           UNCHANGED rx \/ (~rx.ready /\ ~rx'.ready)
    PROVE  UNCHANGED Promise!dialogueVars
<1>1. UNCHANGED Waiting
  BY WaitingKept
<1>2. UNCHANGED Heard
  BY HeardKept
<1>3. UNCHANGED Spoiled
  BY DEF Spoiled
<1>4. QED
  BY <1>1, <1>2, <1>3 DEF Promise!dialogueVars

\* The number of the message that waits.
LEMMA WaitingFacts ==
    /\ rx.ready => Waiting.of = rx.buf[1].msg
    /\ ~rx.ready => Waiting = [of |-> 0, whole |-> TRUE]
BY DEF Waiting, NoMessage

\* A tester that begins a request asks; what it gave up or lost is damaged.
LEMMA RequestAsks ==
    ASSUME TypeInd, SendRequest
    PROVE  Promise!Ask
<1>1. /\ sender'.msg = sender.msg + 1
      /\ UNCHANGED <<rx, lengths, taken, receiver, answers, deaf, overwrote>>
  BY DEF SendRequest, isotpVars
<1>2. \E lost \in SUBSET {sender.msg, sender.msg + 1} : broken' = broken \cup lost
  <2>1. PICK g \in SUBSET {sender.msg} :
            broken' = broken \cup g \/ broken' = broken \cup g \cup {sender.msg + 1}
    <3>1. PICK g : /\ g = IF sender.msg # 0 /\ sender.offset < lengths[sender.msg]
                          THEN {sender.msg} ELSE {}
                   /\ \/ broken' = broken \cup g
                      \/ broken' = broken \cup g \cup {sender.msg + 1}
      BY DEF SendRequest
    <3>2. QED
      BY <3>1
  <2>2. CASE broken' = broken \cup g
    <3>1. g \in SUBSET {sender.msg, sender.msg + 1}
      OBVIOUS
    <3>2. QED
      BY <2>2, <3>1
  <2>3. CASE broken' = broken \cup g \cup {sender.msg + 1}
    <3>1. PICK h : h = g \cup {sender.msg + 1}
      OBVIOUS
    <3>2. h \in SUBSET {sender.msg, sender.msg + 1} /\ broken' = broken \cup h
      BY <2>3, <3>1
    <3>3. QED
      BY <3>2
  <2>4. QED
    BY <2>1, <2>2, <2>3
<1>3. UNCHANGED Waiting /\ UNCHANGED Heard /\ UNCHANGED Spoiled
  BY <1>1, WaitingKept, HeardKept DEF Spoiled
<1>4. QED
  BY <1>1, <1>2, <1>3 DEF Promise!Ask

\* A further frame of the tester at most damages the request it belongs to.
LEMMA PieceDamages ==
    ASSUME SendConsecutive
    PROVE  Promise!Damage \/ UNCHANGED Promise!dialogueVars
<1>1. /\ sender'.msg = sender.msg
      /\ UNCHANGED <<rx, lengths, taken, receiver, answers, deaf, overwrote>>
      /\ broken' = broken \cup {sender.msg} \/ UNCHANGED broken
  BY DEF SendConsecutive, isotpVars, Lost, Arrives
<1>2. UNCHANGED Waiting /\ UNCHANGED Heard /\ UNCHANGED Spoiled
  BY <1>1, WaitingKept, HeardKept DEF Spoiled
<1>3. CASE broken' = broken \cup {sender.msg}
  BY <1>1, <1>2, <1>3 DEF Promise!Damage
<1>4. CASE UNCHANGED broken
  BY <1>1, <1>2, <1>4 DEF Promise!dialogueVars
<1>5. QED
  BY <1>1, <1>3, <1>4

\* A frame completes a request, begins another, or does neither.
LEMMA FrameDelivers ==
    ASSUME TypeInd, LinkInd, LinkInd', FeedFrame
    PROVE  Promise!Deliver \/ Promise!GiveUp \/ UNCHANGED Promise!dialogueVars
<1>1. /\ ring # <<>> /\ ProcessFrame(Head(ring), tick)
      /\ UNCHANGED <<lengths, sender, receiver, taken, answers, broken, deaf, overwrote>>
  BY DEF FeedFrame
<1>2. PICK q : q = Tail(ring)
  OBVIOUS
<1>3. PICK f \in Frame(AnyByte) : f = Head(ring) /\ f = ring[1] /\ FromTester(f, sender.msg)
  BY <1>1, <1>2, RingShrinks
<1>4. 1 \in 1 .. Len(ring)
  BY <1>1 DEF TypeInd
<1>5. taken \in Nat /\ sender.msg \in Nat
  BY SenderFacts DEF TypeInd
<1>6. UNCHANGED Heard /\ UNCHANGED Spoiled
  BY <1>1, HeardKept DEF Spoiled
<1>7. /\ Holds(rx) => rx.buf[1].msg \in taken + 1 .. sender.msg
      /\ Starts(f) /\ Holds(rx) => Of(f) > rx.buf[1].msg
  BY <1>3, <1>4 DEF LinkInd, OrderIs
<1>8. /\ Holds(rx') => rx'.buf[1].msg \in taken + 1 .. sender.msg
      /\ rx'.ready /\ rx'.buf[1].msg \notin broken =>
            rx'.buf = Bytes(rx'.buf[1].msg, lengths[rx'.buf[1].msg])
  <2>1. OrderIs(rx, ring, taken, sender.msg)' /\ DeliveryIs(rx, broken)'
    BY DEF LinkInd
  <2>2. Holds(rx') => rx'.buf[1].msg \in taken' + 1 .. sender'.msg
    BY <2>1 DEF OrderIs, Holds
  <2>3. rx'.ready /\ rx'.buf[1].msg \notin broken' =>
            rx'.buf = Bytes(rx'.buf[1].msg, lengths'[rx'.buf[1].msg])
    BY <2>1 DEF DeliveryIs, Bytes
  <2>4. QED
    BY <1>1, <2>2, <2>3
<1>9. ASSUME rx'.ready, rx.ready => rx'.buf[1].msg > rx.buf[1].msg
      PROVE  Promise!Deliver
  <2>1. PICK m, whole : /\ m = rx'.buf[1].msg
                        /\ whole = (rx'.buf = Bytes(m, lengths[m]))
    OBVIOUS
  <2>2. m \in taken + 1 .. sender.msg /\ (whole \/ m \in broken)
    BY <1>8, <1>9, <2>1 DEF Holds
  <2>3. Waiting' = [of |-> m, whole |-> whole]
    BY <1>1, <1>9, <2>1 DEF Waiting, Bytes
  <2>4. m > Waiting.of
    BY <1>5, <1>9, <2>1, <2>2, WaitingFacts
  <2>5. whole \in BOOLEAN
    BY <2>1
  <2>6. QED
    BY <1>1, <1>6, <2>2, <2>3, <2>4, <2>5 DEF Promise!Deliver
<1>10. CASE HandleSF(f)
  <2>1. rx'.ready /\ Starts(f) /\ rx'.buf[1].msg = Of(f)
    BY <1>3, <1>10, SFStep
  <2>2. QED
    BY <1>7, <1>9, <2>1 DEF Holds
<1>11. CASE HandleFF(f, tick)
  <2>1. ~rx'.ready /\ Starts(f) /\ Of(f) \in 1 .. sender.msg
    BY <1>3, <1>11, FFStep
  <2>2. CASE ~rx.ready
    BY <1>1, <2>1, <2>2, Stutters
  <2>3. CASE rx.ready
    <3>1. PICK m, n : m = rx.buf[1].msg /\ n = Of(f)
      OBVIOUS
    <3>2. m \in taken + 1 .. sender.msg /\ n \in 1 .. sender.msg /\ n > m
      BY <1>7, <2>1, <2>3, <3>1 DEF Holds
    <3>3. Waiting.of # 0 /\ Waiting.of < sender.msg
      BY <1>5, <2>3, <3>1, <3>2, WaitingFacts
    <3>4. Waiting' = [of |-> 0, whole |-> TRUE]
      BY <2>1 DEF Waiting, NoMessage
    <3>5. QED
      BY <1>1, <1>6, <3>3, <3>4 DEF Promise!GiveUp, Promise!Nothing
  <2>4. QED
    BY <2>2, <2>3
<1>12. CASE ForUs(f) /\ HandleCF(f, tick)
  <2>1. rx.state = "Receiving"
    BY <1>12 DEF HandleCF, ConsecutiveFrameOk
  <2>2. ~rx.ready
    BY <2>1 DEF TypeInd, RxIs
  <2>3. CASE rx'.ready
    BY <1>9, <2>2, <2>3
  <2>4. CASE ~rx'.ready
    BY <1>1, <2>2, <2>4, Stutters
  <2>5. QED
    BY <2>3, <2>4
<1>13. CASE HandleFC(f, tick) \/ Discard(f)
  <2>1. UNCHANGED rx
    BY <1>13 DEF HandleFC, Discard, isotpVars
  <2>2. QED
    BY <1>1, <2>1, Stutters
<1>14. QED
  BY <1>1, <1>3, <1>10, <1>11, <1>12, <1>13 DEF ProcessFrame

\* The server takes the message that waits.
LEMMA AnswerServes ==
    ASSUME TypeInd, LinkInd, AnswerInd, AnswerPass
    PROVE  Promise!Serve
<1>1. PICK len, m :
          /\ rx.ready /\ m = rx.buf[1].msg /\ taken' = m
          /\ answers' = [answers EXCEPT ![m] = len]
          /\ rx' = RxUpdate(AfterGetData(rx), tick)
          /\ overwrote => overwrote'
          /\ UNCHANGED <<lengths, sender, receiver, broken, deaf>>
  BY DEF AnswerPass
<1>2. m \in taken + 1 .. sender.msg
  BY <1>1 DEF LinkInd, OrderIs, Holds
<1>3. taken \in Nat /\ sender.msg \in 0 .. Len(lengths) /\ Len(lengths) \in Nat
  BY SenderFacts DEF TypeInd
<1>4. \A k \in 1 .. taken : answers'[k] = answers[k]
  <2>1. answers \in [1 .. Len(lengths) -> 0 .. MaxPayload]
    BY DEF AnswerInd, Answers
  <2>2. QED
    BY <1>1, <1>2, <1>3, <2>1
<1>5. ~rx'.ready
  <2>1. PICK r : r = AfterGetData(rx)
    OBVIOUS
  <2>2. RxIs(r) /\ ~r.ready /\ rx' = RxUpdate(r, tick)
    BY <1>1, <2>1, RxPass DEF TypeInd
  <2>3. QED
    BY <2>2, RxPass
<1>6. Waiting.of = m /\ m # 0
  BY <1>1, <1>2, <1>3, WaitingFacts
<1>7. Waiting' = [of |-> 0, whole |-> TRUE]
  BY <1>5 DEF Waiting, NoMessage
<1>8. UNCHANGED Heard
  <2>1. receiver.got # <<>> => receiver.got[1].msg \in 1 .. taken
    BY DEF AnswerInd, HeardIs
  <2>2. QED
    BY <1>1, <1>4, <2>1, HeardKept
<1>9. Spoiled => Spoiled'
  <2>1. ASSUME NEW k \in 1 .. taken, answers[k] >= LenMod
        PROVE  k \in 1 .. taken' /\ answers'[k] >= LenMod
    BY <1>1, <1>2, <1>3, <1>4, <2>1
  <2>2. QED
    BY <1>1, <2>1 DEF Spoiled
<1>10. Spoiled' \in {Spoiled, TRUE}
  BY <1>9 DEF Spoiled
<1>11. QED
  BY <1>1, <1>6, <1>7, <1>8, <1>10 DEF Promise!Serve, Promise!Nothing

\* A frame is lost, completes a response, or does neither.
LEMMA FrameIsHeard ==
    ASSUME TypeInd, ResponseInd, AnswerInd, ResponseWhole', Transmit
    PROVE  Promise!Hear \/ Promise!Spoil \/ UNCHANGED Promise!dialogueVars
<1>1. PICK q, rest, f, r, r2, n :
          /\ q = mailboxes /\ rest = mailboxes' /\ f = Head(q) /\ r = receiver
          /\ r2 = Received(r, f) /\ n = taken
          /\ q # <<>> /\ rest = Tail(q)
          /\ (receiver' = r2 /\ UNCHANGED deaf) \/ (deaf' = TRUE /\ UNCHANGED receiver)
          /\ UNCHANGED <<rx, lengths, sender, taken, answers, broken, overwrote>>
  BY DEF Transmit
<1>2. /\ q \in Seq(Frame(AnyByte)) /\ r \in ReceiverObject(AnyByte) /\ n \in Nat
      /\ Between(0, q, n) /\ InOrder(q) /\ HeardIs(r, q, n)
  BY <1>1, SenderFacts DEF TypeInd, MailboxesAre, ResponseInd, AnswerInd
<1>3. UNCHANGED Waiting
  BY <1>1, WaitingKept
<1>4. CASE deaf' = TRUE /\ UNCHANGED receiver
  <2>1. Spoiled' = TRUE
    BY <1>4 DEF Spoiled
  <2>2. UNCHANGED Heard
    BY <1>1, <1>4, HeardKept
  <2>3. QED
    BY <1>1, <1>3, <2>1, <2>2 DEF Promise!Spoil
<1>5. CASE receiver' = r2 /\ UNCHANGED deaf
  <2>1. UNCHANGED Spoiled
    BY <1>1, <1>5 DEF Spoiled
  <2>2. \/ r2.got = r.got
        \/ /\ r2.got # <<>> /\ r2.got[1].msg \in 1 .. n
           /\ r.got # <<>> => r.got[1].msg < r2.got[1].msg
    BY <1>1, <1>2, HearsInOrder
  <2>3. CASE r2.got = r.got
    <3>1. UNCHANGED Heard
      BY <1>1, <1>5, <2>3, HeardKept
    <3>2. QED
      BY <1>1, <1>3, <2>1, <3>1 DEF Promise!dialogueVars
  <2>4. CASE /\ r2.got # <<>> /\ r2.got[1].msg \in 1 .. n
             /\ r.got # <<>> => r.got[1].msg < r2.got[1].msg
    <3>1. PICK m, whole : /\ m = r2.got[1].msg
                          /\ whole = (r2.got = Bytes(m, answers[m]))
      OBVIOUS
    <3>2. Heard' = [of |-> m, whole |-> whole]
      BY <1>1, <1>5, <2>4, <3>1 DEF Heard, Bytes
    <3>3. m \in 1 .. n /\ (r.got # <<>> => r.got[1].msg \in 1 .. n /\ r.got[1].msg < m)
      BY <1>2, <2>4, <3>1 DEF HeardIs
    <3>4. m \in Heard.of + 1 .. taken
      <4>1. CASE r.got = <<>>
        <5>1. Heard.of = 0
          BY <1>1, <4>1 DEF Heard, NoMessage
        <5>2. QED
          BY <1>1, <1>2, <3>3, <5>1
      <4>2. CASE r.got # <<>>
        <5>1. PICK g : g = r.got[1].msg
          OBVIOUS
        <5>2. Heard.of = g
          BY <1>1, <4>2, <5>1 DEF Heard
        <5>3. QED
          BY <1>1, <1>2, <3>3, <4>2, <5>1, <5>2
      <4>3. QED
        BY <4>1, <4>2
    <3>5. whole \/ Spoiled
      <4>1. SUFFICES ASSUME ~Spoiled PROVE whole
        OBVIOUS
      <4>2. ~deaf' /\ ~overwrote' /\ ~(answers[m] >= LenMod)
        BY <1>1, <1>5, <3>3, <4>1 DEF Spoiled
      <4>3. answers[m] < LenMod
        <5>1. answers \in [1 .. Len(lengths) -> 0 .. MaxPayload] /\ taken \in 0 .. Len(lengths)
          BY DEF AnswerInd, Answers, TypeInd
        <5>2. MaxPayload \in Nat /\ LenMod \in Nat /\ Len(lengths) \in Nat
          BY Sizes, SenderFacts DEF TypeInd
        <5>3. answers[m] \in Nat
          BY <1>1, <3>3, <5>1, <5>2
        <5>4. QED
          BY <4>2, <5>2, <5>3
      <4>4. receiver'.got # <<>> /\ receiver'.got[1].msg = m
        BY <1>5, <2>4, <3>1
      <4>5. receiver'.got = Bytes(m, answers[m])
        <5>1. ~deaf' /\ ~overwrote' /\ receiver'.got # <<>> =>
                 (answers'[receiver'.got[1].msg] < LenMod =>
                     receiver'.got = Bytes(receiver'.got[1].msg, answers'[receiver'.got[1].msg]))
          BY DEF ResponseWhole, Bytes
        <5>2. QED
          BY <1>1, <4>2, <4>3, <4>4, <5>1
      <4>6. QED
        BY <1>5, <3>1, <4>5
    <3>6. whole \in BOOLEAN
      BY <3>1
    <3>7. QED
      BY <1>1, <1>3, <2>1, <3>2, <3>4, <3>5, <3>6 DEF Promise!Hear
  <2>5. QED
    BY <2>2, <2>3, <2>4
<1>6. QED
  BY <1>1, <1>4, <1>5

\* Every step of the transport is a step of the abstract exchange, or none.
LEMMA NextImplements ==
    ASSUME TypeInd, LinkInd, LinkInd', ResponseInd, AnswerInd, ResponseWhole', [Next]_vars
    PROVE  [Promise!DialogueNext]_(Promise!dialogueVars)
<1>1. CASE SendRequest
  BY <1>1, RequestAsks DEF Promise!DialogueNext
<1>2. CASE SendConsecutive
  BY <1>2, PieceDamages DEF Promise!DialogueNext
<1>3. CASE SendFlowControl
  BY <1>3, Stutters DEF SendFlowControl, Arrives, isotpVars
<1>4. CASE Transmit
  BY <1>4, FrameIsHeard DEF Promise!DialogueNext
<1>5. CASE FeedFrame
  BY <1>5, FrameDelivers DEF Promise!DialogueNext
<1>6. CASE IdlePass
  <2>1. ~rx.ready /\ rx' = RxUpdate(rx, tick) /\ UNCHANGED linkVars
    BY <1>6 DEF IdlePass
  <2>2. ~rx'.ready
    <3>1. RxIs(rx)
      BY Zenon DEF TypeInd
    <3>2. RxUpdate(rx, tick).ready = rx.ready
      BY <3>1, RxPass
    <3>3. QED
      BY <2>1, <3>2
  <2>3. UNCHANGED linkVars
    BY <2>1
  <2>4. UNCHANGED <<sender, broken, taken, lengths, receiver, answers, deaf, overwrote>>
    BY <2>3 DEF linkVars
  <2>5. UNCHANGED Promise!dialogueVars
    BY <2>1, <2>2, <2>4, Stutters
  <2>6. QED
    BY <2>5
<1>7. CASE AnswerPass
  BY <1>7, AnswerServes DEF Promise!DialogueNext
<1>8. CASE Advance
  BY <1>8, Stutters DEF Advance, isotpVars
<1>9. CASE UNCHANGED vars
  BY <1>9, Stutters DEF vars, isotpVars, linkVars
<1>10. QED
  BY <1>1, <1>2, <1>3, <1>4, <1>5, <1>6, <1>7, <1>8, <1>9 DEF Next

\* Whatever frames are lost, delayed, interleaved or given up, on either way, the
\* transport implements the abstract exchange: requests reach the server in order,
\* at most once, and whole unless a frame of them was lost; the tester hears at most
\* one response to each, in the same order, and whole unless one was spoiled.
THEOREM TransportImplementsDialogue == Spec => LinkImplementsDialogue
<1>1. Init => Promise!DialogueInit
  <2>1. SUFFICES ASSUME Init PROVE Promise!DialogueInit
    OBVIOUS
  <2>2. /\ sender.msg = 0 /\ broken = {} /\ taken = 0 /\ ~rx.ready /\ receiver.got = <<>>
        /\ ~deaf /\ ~overwrote
    BY <2>1 DEF Init, NewRx
  <2>3. Waiting = [of |-> 0, whole |-> TRUE] /\ Heard = [of |-> 0, whole |-> TRUE]
    BY <2>2 DEF Waiting, Heard, NoMessage
  <2>4. Spoiled = FALSE
    BY <2>2 DEF Spoiled
  <2>5. QED
    BY <2>2, <2>3, <2>4 DEF Promise!DialogueInit, Promise!Nothing
<1>2. TypeInd /\ LinkInd /\ LinkInd' /\ ResponseInd /\ AnswerInd /\ ResponseWhole'
         /\ [Next]_vars => [Promise!DialogueNext]_(Promise!dialogueVars)
  BY NextImplements
<1>3. QED
  BY <1>1, <1>2, TypeInvariant, LinkInvariant, ResponseInvariant, AnswerInvariant,
     ResponsesWhole, PTL DEF Spec, LinkImplementsDialogue, Promise!DialogueSpec

=============================================================================
