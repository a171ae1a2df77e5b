--------------------------- MODULE DartLinkProofs ---------------------------
(***************************************************************************)
(* The line delivers a pump's payloads in order and at most once, and no   *)
(* TX# is ever out of step unless the pump is interrupted: for any number  *)
(* of TX#s, payloads, commands, frames in flight and interruptions.        *)
(***************************************************************************)
EXTENDS DartLink, SequenceTheorems, TLAPS

-----------------------------------------------------------------------------
(* Types. *)

Seqs == 0..MaxSeq

Frame == [kind: {"POLL", "DATA", "ACK", "NAK", "EOT"}, seq: Seqs, body: Nat, intact: BOOLEAN]

IsData(f) == f.kind = "DATA"
IsAck(f) == f.kind = "ACK"

\* A side that receives DATA: the pump, or the session.
Receiver(r) == r.expected \in Seqs /\ r.accepted \in Seqs \union {None}

Pumps == [tx: Seqs, awaiting: Seqs \union {None}, expected: Seqs,
          accepted: Seqs \union {None}, enabled: BOOLEAN]

Sessions == [tx: Seqs, expected: Seqs, accepted: Seqs \union {None}, timeouts: Nat,
             health: {"UNKNOWN", "HEALTHY", "DEGRADED", "DISCONNECTED"}, connected: BOOLEAN]

LinkTypes ==
  /\ pump \in Pumps /\ session \in Sessions
  /\ {queued, popped, issued, sent, restarts} \subseteq Nat
  /\ applied \in Seq(Nat)
  /\ toPump \in Seq(Frame) /\ toController \in Seq(Frame)

-----------------------------------------------------------------------------
(* The inductive invariant. *)

\* DATA with TX# tx goes out to the receiver r, its ACKs come back.  The DATA of
\* tx is under way, behind repetitions of what r accepted before it.
Underway(tx, r, out, back) ==
  /\ tx = r.expected
  /\ \A i \in DOMAIN out : IsData(out[i]) => out[i].seq \in {r.accepted, r.expected}
  /\ \A i, j \in DOMAIN out :
       i <= j /\ IsData(out[i]) /\ IsData(out[j]) /\ out[i].seq = r.expected
         => out[j].seq = r.expected
  /\ \A i \in DOMAIN back : IsAck(back[i]) => back[i].seq = r.accepted

\* It has arrived, and its ACKs come behind repetitions of earlier ones.
Arrived(tx, r, out, back) ==
  /\ tx = r.accepted
  /\ \A i \in DOMAIN out : IsData(out[i]) => out[i].seq = r.accepted
  /\ \A i, j \in DOMAIN back :
       i <= j /\ IsAck(back[i]) /\ IsAck(back[j]) /\ back[i].seq = tx => back[j].seq = tx

Relay(tx, r, out, back) ==
  /\ r.accepted # None => r.expected = NextSeq(r.accepted)
  /\ Underway(tx, r, out, back) \/ Arrived(tx, r, out, back)

\* The DATA on the way to the controller: payloads from the last applied one to
\* the n-th, which the pump sends now, in their order and each with one TX#.
Order(p, s, n, last, out) ==
  /\ last <= n
  /\ \A i \in DOMAIN out :
       IsData(out[i]) =>
         /\ last <= out[i].body /\ out[i].body <= n /\ out[i].body > 0
         /\ out[i].body = last => out[i].seq = s.accepted
         /\ out[i].body = n /\ p.awaiting # None => out[i].seq = p.awaiting
  /\ \A i, j \in DOMAIN out :
       i <= j /\ IsData(out[i]) /\ IsData(out[j]) =>
         /\ out[i].body <= out[j].body
         /\ out[i].body = out[j].body => out[i].seq = out[j].seq
  /\ p.awaiting # None =>
       p.awaiting = p.tx /\ n > 0 /\ (n = last => s.accepted = p.awaiting)

\* While nothing interrupts the pump its payloads are numbered without gaps.
Numbered(p, s, n, last, out) ==
  /\ n = IF p.awaiting # None /\ p.tx = s.expected THEN last + 1 ELSE last
  /\ p.awaiting = None => p.tx = s.expected
  /\ \A i \in DOMAIN out :
       IsData(out[i]) => out[i].body = IF out[i].seq = s.accepted THEN last ELSE last + 1
  /\ last > 0 => s.accepted # None

LastOf(a) == IF a = <<>> THEN 0 ELSE a[Len(a)]

LinkInv ==
  /\ LinkTypes
  /\ popped <= queued
  /\ Order(pump, session, popped, LastOf(applied), toController)
  /\ restarts = 0 =>
       /\ Relay(pump.tx, session, toController, toPump)
       /\ Relay(session.tx, pump, toPump, toController)
       /\ Numbered(pump, session, popped, LastOf(applied), toController)

-----------------------------------------------------------------------------
(* Wires: what is lost is lost at the head. *)

SameFrame(f, g) == f.kind = g.kind /\ f.seq = g.seq /\ f.body = g.body

\* Some frames at the head are gone, and some of the others may be damaged.
Shrunk(v, w) ==
  /\ v \in Seq(Frame)
  /\ \E k \in 0..Len(w) :
       /\ Len(v) = Len(w) - k
       /\ \A i \in 1..Len(v) : i + k \in 1..Len(w) /\ SameFrame(v[i], w[i + k])

LEMMA FrameFacts ==
  ASSUME NEW f \in Frame PROVE f.seq \in Seqs /\ f.body \in Nat /\ f.intact \in BOOLEAN
BY DEF Frame

LEMMA WireFacts ==
  ASSUME NEW w \in Seq(Frame)
  PROVE  \A i \in DOMAIN w : w[i] \in Frame /\ w[i].seq \in Seqs /\ w[i].body \in Nat
<1>1. \A i \in DOMAIN w : w[i] \in Frame
  OBVIOUS
<1> QED
  BY <1>1, FrameFacts

LEMMA TailFacts ==
  ASSUME NEW S, NEW w \in Seq(S), w # <<>>
  PROVE  /\ Tail(w) \in Seq(S) /\ Len(Tail(w)) = Len(w) - 1 /\ Len(w) \in Nat \ {0}
         /\ \A i \in 1..Len(w) - 1 : Tail(w)[i] = w[i + 1]
         /\ Head(w) = w[1] /\ w[1] \in S
OBVIOUS

LEMMA AppendFacts ==
  ASSUME NEW S, NEW w \in Seq(S), NEW f \in S
  PROVE  /\ Append(w, f) \in Seq(S) /\ Len(Append(w, f)) = Len(w) + 1 /\ Len(w) \in Nat
         /\ DOMAIN Append(w, f) = 1..Len(w) + 1
         /\ \A i \in 1..Len(w) : Append(w, f)[i] = w[i]
         /\ Append(w, f)[Len(w) + 1] = f
OBVIOUS

LEMMA ShrinksNot ==
  ASSUME NEW w \in Seq(Frame) PROVE Shrunk(w, w)
<1>1. /\ 0 \in 0..Len(w) /\ Len(w) = Len(w) - 0
      /\ \A i \in 1..Len(w) : i + 0 \in 1..Len(w) /\ SameFrame(w[i], w[i + 0])
  BY DEF SameFrame
<1> QED
  BY <1>1 DEF Shrunk

LEMMA TailShrinks ==
  ASSUME NEW w \in Seq(Frame), w # <<>> PROVE Shrunk(Tail(w), w)
<1>1. /\ 1 \in 0..Len(w) /\ Len(Tail(w)) = Len(w) - 1 /\ Tail(w) \in Seq(Frame)
      /\ \A i \in 1..Len(Tail(w)) : i + 1 \in 1..Len(w) /\ SameFrame(Tail(w)[i], w[i + 1])
  BY TailFacts DEF SameFrame
<1> QED
  BY <1>1 DEF Shrunk

\* _read_one_frame forgets what came with the first frame.
LEMMA ReadShrinks ==
  ASSUME NEW w \in Seq(Frame), w # <<>>, NEW n \in 1..Len(w)
  PROVE  Shrunk(SubSeq(w, n + 1, Len(w)), Tail(w))
<1> DEFINE v == SubSeq(w, n + 1, Len(w))
<1>1. Len(w) \in Nat /\ n \in Nat /\ n >= 1 /\ n <= Len(w)
  OBVIOUS
<1>2. /\ v \in Seq(Frame) /\ Len(v) = Len(w) - n
      /\ \A i \in 1..Len(v) : v[i] = w[i + n]
  <2>1. \A i \in n+1..Len(w) : w[i] \in Frame
    BY <1>1
  <2> QED
    BY <1>1, <2>1, SubSeqProperties
<1>3. /\ Tail(w) \in Seq(Frame) /\ Len(Tail(w)) = Len(w) - 1
      /\ \A i \in 1..Len(w) - 1 : Tail(w)[i] = w[i + 1]
  BY TailFacts
<1> HIDE DEF v
<1> DEFINE k == n - 1
           u == Tail(w)
<1>4. k \in 0..Len(u) /\ Len(v) = Len(u) - k /\ k \in Nat
  BY <1>1, <1>2, <1>3
<1>5. ASSUME NEW i \in 1..Len(v) PROVE i + k \in 1..Len(u) /\ v[i] = u[i + k]
  <2>1. i \in Nat /\ i >= 1 /\ i <= Len(w) - n /\ (i + k) + 1 = i + n
    BY <1>1, <1>2
  <2>2. i + k \in 1..Len(w) - 1
    BY <1>1, <2>1
  <2>3. u[i + k] = w[i + n]
    BY <1>3, <2>1, <2>2
  <2> QED
    BY <1>2, <1>3, <2>2, <2>3
<1> HIDE DEF k, u
<1>6. Shrunk(v, u)
  BY <1>2, <1>4, <1>5 DEF Shrunk, SameFrame
<1> QED
  BY <1>6 DEF v, u

\* A full buffer loses its oldest frame.
LEMMA PutIsAppend ==
  ASSUME NEW w \in Seq(Frame), NEW f
  PROVE  \E v : Shrunk(v, w) /\ Put(w, f) = Append(v, f)
<1>1. CASE Len(w) < MaxWire
  BY <1>1, ShrinksNot DEF Put
<1>2. CASE ~(Len(w) < MaxWire)
  <2>1. w # <<>>
    BY <1>2, LinkAssumption DEF LinkAssumption
  <2> QED
    BY <1>2, <2>1, TailShrinks DEF Put
<1> QED
  BY <1>1, <1>2

LEMMA DamageShrinks ==
  ASSUME NEW w \in Seq(Frame), w # <<>>
  PROVE  Shrunk(Damaged(w), w)
<1> DEFINE f == [w[1] EXCEPT !.intact = FALSE]
<1>1. w[1] \in Frame /\ 1 \in 1..Len(w) /\ Len(w) \in Nat
  OBVIOUS
<1>2. f \in Frame /\ SameFrame(f, w[1])
  BY <1>1 DEF Frame, SameFrame
<1>3. Damaged(w) = [w EXCEPT ![1] = f]
  BY DEF Damaged
<1> HIDE DEF f
<1>4. /\ Damaged(w) \in Seq(Frame) /\ Len(Damaged(w)) = Len(w)
      /\ \A i \in 1..Len(w) : Damaged(w)[i] = IF i = 1 THEN f ELSE w[i]
  BY <1>1, <1>2, <1>3
<1>5. /\ 0 \in 0..Len(w) /\ Len(Damaged(w)) = Len(w) - 0
      /\ \A i \in 1..Len(w) : i + 0 \in 1..Len(w) /\ SameFrame(Damaged(w)[i], w[i + 0])
  BY <1>1, <1>2, <1>4 DEF SameFrame
<1> QED
  BY <1>4, <1>5 DEF Shrunk

LEMMA ShrunkFacts ==
  ASSUME NEW v, NEW w \in Seq(Frame), Shrunk(v, w)
  PROVE  \E k \in Nat : \A i \in DOMAIN v :
           /\ i \in Nat /\ i + k \in Nat /\ i + k \in DOMAIN w
           /\ SameFrame(v[i], w[i + k]) /\ v[i] \in Frame
<1>1. PICK k \in 0..Len(w) :
        /\ Len(v) = Len(w) - k
        /\ \A i \in 1..Len(v) : i + k \in 1..Len(w) /\ SameFrame(v[i], w[i + k])
  BY DEF Shrunk
<1>2. v \in Seq(Frame) /\ DOMAIN v = 1..Len(v) /\ DOMAIN w = 1..Len(w) /\ Len(w) \in Nat
  BY DEF Shrunk
<1>3. k \in Nat /\ \A i \in 1..Len(w) : i \in Nat
  BY <1>2
<1>4. \A i \in DOMAIN v : i \in Nat /\ v[i] \in Frame
  BY <1>2
<1> QED
  BY <1>1, <1>2, <1>3, <1>4

LEMMA AppendCases ==
  ASSUME NEW w \in Seq(Frame), NEW f \in Frame
  PROVE  /\ \A i \in DOMAIN Append(w, f) :
              \/ i \in DOMAIN w /\ Append(w, f)[i] = w[i]
              \/ i = Len(w) + 1 /\ Append(w, f)[i] = f
         /\ \A i \in DOMAIN w : ~(Len(w) + 1 <= i)
<1>1. /\ Len(w) \in Nat /\ DOMAIN Append(w, f) = 1..Len(w) + 1 /\ DOMAIN w = 1..Len(w)
      /\ \A i \in 1..Len(w) : Append(w, f)[i] = w[i]
      /\ Append(w, f)[Len(w) + 1] = f
  BY AppendFacts
<1>2. \A i \in 1..Len(w) + 1 : i \in 1..Len(w) \/ i = Len(w) + 1
  BY <1>1
<1>3. \A i \in 1..Len(w) : ~(Len(w) + 1 <= i)
  BY <1>1
<1> QED
  BY <1>1, <1>2, <1>3, Zenon

LEMMA NextSeqFacts ==
  ASSUME NEW q \in Seqs PROVE NextSeq(q) \in Seqs /\ NextSeq(q) # q /\ q # None
BY LinkAssumption DEF LinkAssumption, NextSeq, Seqs

-----------------------------------------------------------------------------
(* One direction of the line. *)

LEMMA RelayShrinks ==
  ASSUME NEW tx, NEW r, NEW out \in Seq(Frame), NEW back \in Seq(Frame),
         NEW out2, NEW back2,
         Relay(tx, r, out, back), Shrunk(out2, out), Shrunk(back2, back)
  PROVE  Relay(tx, r, out2, back2)
<1>1. PICK k \in Nat : \A i \in DOMAIN out2 :
        i \in Nat /\ i + k \in Nat /\ i + k \in DOMAIN out /\ SameFrame(out2[i], out[i + k])
  BY ShrunkFacts
<1>2. PICK m \in Nat : \A i \in DOMAIN back2 :
        i \in Nat /\ i + m \in Nat /\ i + m \in DOMAIN back /\ SameFrame(back2[i], back[i + m])
  BY ShrunkFacts
<1>3. CASE Underway(tx, r, out, back)
  <2>1. \A i \in DOMAIN out2 : IsData(out2[i]) => out2[i].seq \in {r.accepted, r.expected}
    BY <1>1, <1>3 DEF Underway, SameFrame, IsData
  <2>2. ASSUME NEW i \in DOMAIN out2, NEW j \in DOMAIN out2, i <= j,
               IsData(out2[i]), IsData(out2[j]), out2[i].seq = r.expected
        PROVE  out2[j].seq = r.expected
    <3>1. i + k <= j + k
      BY <1>1, <2>2
    <3> QED
      BY <1>1, <1>3, <2>2, <3>1 DEF Underway, SameFrame, IsData
  <2>3. \A i \in DOMAIN back2 : IsAck(back2[i]) => back2[i].seq = r.accepted
    BY <1>2, <1>3 DEF Underway, SameFrame, IsAck
  <2> QED
    BY <1>3, <2>1, <2>2, <2>3 DEF Relay, Underway
<1>4. CASE Arrived(tx, r, out, back)
  <2>1. \A i \in DOMAIN out2 : IsData(out2[i]) => out2[i].seq = r.accepted
    BY <1>1, <1>4 DEF Arrived, SameFrame, IsData
  <2>2. ASSUME NEW i \in DOMAIN back2, NEW j \in DOMAIN back2, i <= j,
               IsAck(back2[i]), IsAck(back2[j]), back2[i].seq = tx
        PROVE  back2[j].seq = tx
    <3>1. i + m <= j + m
      BY <1>2, <2>2
    <3> QED
      BY <1>2, <1>4, <2>2, <3>1 DEF Arrived, SameFrame, IsAck
  <2> QED
    BY <1>4, <2>1, <2>2 DEF Relay, Arrived
<1> QED
  BY <1>3, <1>4 DEF Relay

\* The sender repeats its DATA, or sends something else.
LEMMA RelaySends ==
  ASSUME NEW tx, NEW r, NEW out \in Seq(Frame), NEW back, NEW f \in Frame,
         Relay(tx, r, out, back), IsData(f) => f.seq = tx
  PROVE  Relay(tx, r, Append(out, f), back)
<1> DEFINE w == Append(out, f)
           l == Len(out)
<1>1. /\ \A i \in DOMAIN w : (i \in DOMAIN out /\ w[i] = out[i]) \/ (i = l + 1 /\ w[i] = f)
      /\ \A i \in DOMAIN out : ~(l + 1 <= i)
  BY AppendCases
<1> SUFFICES Relay(tx, r, w, back)
  OBVIOUS
<1> HIDE DEF w, l
<1>2. CASE Underway(tx, r, out, back)
  BY <1>1, <1>2 DEF Relay, Underway
<1>3. CASE Arrived(tx, r, out, back)
  BY <1>1, <1>3 DEF Relay, Arrived
<1> QED
  BY <1>2, <1>3 DEF Relay

\* The receiver acknowledges what it accepted last, or answers something else.
LEMMA RelayAnswers ==
  ASSUME NEW tx, NEW r, NEW out, NEW back \in Seq(Frame), NEW f \in Frame,
         Relay(tx, r, out, back), IsAck(f) => f.seq = r.accepted
  PROVE  Relay(tx, r, out, Append(back, f))
<1> DEFINE w == Append(back, f)
           l == Len(back)
<1>1. /\ \A i \in DOMAIN w : (i \in DOMAIN back /\ w[i] = back[i]) \/ (i = l + 1 /\ w[i] = f)
      /\ \A i \in DOMAIN back : ~(l + 1 <= i)
  BY AppendCases
<1> SUFFICES Relay(tx, r, out, w)
  OBVIOUS
<1> HIDE DEF w, l
<1>2. CASE Underway(tx, r, out, back)
  BY <1>1, <1>2 DEF Relay, Underway
<1>3. CASE Arrived(tx, r, out, back)
  BY <1>1, <1>3 DEF Relay, Arrived
<1> QED
  BY <1>2, <1>3 DEF Relay

\* The receiver accepts the DATA under way, and acknowledges it behind its
\* earlier ACKs.
LEMMA RelayAccepts ==
  ASSUME NEW tx, NEW r, NEW r2, NEW out \in Seq(Frame), NEW back \in Seq(Frame),
         NEW f \in Frame, out # <<>>,
         Receiver(r), Relay(tx, r, out, back),
         IsData(Head(out)), Head(out).seq = r.expected, Head(out).seq # r.accepted,
         r2.accepted = r.expected, r2.expected = NextSeq(r.expected),
         IsAck(f) => f.seq = r.expected
  PROVE  Relay(tx, r2, Tail(out), Append(back, f))
<1>1. 1 \in DOMAIN out /\ out[1] = Head(out) /\ 1 \in Nat
  BY TailFacts
<1>2. Underway(tx, r, out, back)
  BY <1>1 DEF Relay, Arrived
<1>3. PICK k \in Nat : \A i \in DOMAIN Tail(out) :
        /\ i \in Nat /\ i + k \in Nat /\ i + k \in DOMAIN out
        /\ SameFrame(Tail(out)[i], out[i + k])
  BY TailShrinks, ShrunkFacts
<1>4. ASSUME NEW i \in DOMAIN Tail(out), IsData(Tail(out)[i])
      PROVE  Tail(out)[i].seq = r2.accepted
  <2>1. 1 <= i + k
    <3>1. DOMAIN Tail(out) = 1..Len(Tail(out))
      BY TailFacts
    <3>2. i >= 1
      BY <3>1
    <3> QED
      BY <1>3, <3>2
  <2> QED
    BY <1>1, <1>2, <1>3, <1>4, <2>1 DEF Underway, SameFrame, IsData
<1> DEFINE w == Append(back, f)
           l == Len(back)
<1>5. /\ \A i \in DOMAIN w : (i \in DOMAIN back /\ w[i] = back[i]) \/ (i = l + 1 /\ w[i] = f)
      /\ \A i \in DOMAIN back : ~(l + 1 <= i)
  BY AppendCases
<1> HIDE DEF w, l
<1>6. \A i \in DOMAIN back : IsAck(back[i]) => back[i].seq # tx
  BY <1>1, <1>2 DEF Underway
<1>7. Arrived(tx, r2, Tail(out), w)
  BY <1>2, <1>4, <1>5, <1>6 DEF Underway, Arrived
<1> QED
  BY <1>7 DEF Relay, w

\* The awaited ACK arrives, which only happens when the DATA has: every other
\* ACK of that TX# is behind it.
LEMMA RelayConfirmed ==
  ASSUME NEW tx, NEW r, NEW out, NEW back \in Seq(Frame), back # <<>>,
         Receiver(r), Relay(tx, r, out, back),
         IsAck(Head(back)), Head(back).seq = tx
  PROVE  /\ Arrived(tx, r, out, back) /\ tx = r.accepted /\ r.expected = NextSeq(tx)
         /\ r.expected # r.accepted
         /\ \A b : Shrunk(b, Tail(back)) => Relay(NextSeq(tx), r, out, b)
<1>1. 1 \in DOMAIN back /\ back[1] = Head(back) /\ back[1] \in Frame
  BY TailFacts
<1>2. tx \in Seqs /\ tx # None
  BY <1>1, NextSeqFacts DEF Frame
<1>3. ~Underway(tx, r, out, back)
  BY <1>1, <1>2, NextSeqFacts DEF Relay, Underway
<1>4. /\ Arrived(tx, r, out, back) /\ tx = r.accepted
      /\ r.expected = NextSeq(tx) /\ r.expected # r.accepted
  BY <1>2, <1>3, NextSeqFacts DEF Relay, Arrived
<1>5. PICK k \in Nat : \A i \in DOMAIN Tail(back) :
        /\ i \in Nat /\ i + k \in Nat /\ i + k \in DOMAIN back
        /\ SameFrame(Tail(back)[i], back[i + k])
  BY TailShrinks, ShrunkFacts
<1>6. ASSUME NEW i \in DOMAIN Tail(back), IsAck(Tail(back)[i])
      PROVE  Tail(back)[i].seq = r.accepted
  <2>1. 1 <= i + k
    <3>1. DOMAIN Tail(back) = 1..Len(Tail(back))
      BY TailFacts
    <3>2. i >= 1
      BY <3>1
    <3> QED
      BY <1>5, <3>2
  <2> QED
    BY <1>1, <1>4, <1>5, <1>6, <2>1 DEF Arrived, SameFrame, IsAck
<1>7. ASSUME NEW b, Shrunk(b, Tail(back)) PROVE Relay(NextSeq(tx), r, out, b)
  <2>1. Tail(back) \in Seq(Frame)
    BY TailFacts
  <2>2. PICK m \in Nat : \A i \in DOMAIN b :
          i + m \in DOMAIN Tail(back) /\ SameFrame(b[i], Tail(back)[i + m])
    BY <1>7, <2>1, ShrunkFacts
  <2>3. \A i \in DOMAIN b : IsAck(b[i]) => b[i].seq = r.accepted
    BY <1>6, <2>2 DEF SameFrame, IsAck
  <2>4. Underway(NextSeq(tx), r, out, b)
    BY <1>4, <2>3 DEF Arrived, Underway
  <2> QED
    BY <1>4, <2>4 DEF Relay
<1> QED
  BY <1>4, <1>7

LEMMA TailMoves ==
  ASSUME NEW w \in Seq(Frame), w # <<>>
  PROVE  /\ \A i \in DOMAIN Tail(w) : i + 1 \in DOMAIN w /\ 1 <= i + 1 /\ Tail(w)[i] = w[i + 1]
         /\ \A i, j \in DOMAIN Tail(w) : i <= j => i + 1 <= j + 1
         /\ 1 \in DOMAIN w /\ Head(w) = w[1] /\ Tail(w) \in Seq(Frame)
<1>1. /\ Len(w) \in Nat \ {0} /\ DOMAIN w = 1..Len(w)
      /\ DOMAIN Tail(w) = 1..Len(w) - 1 /\ Tail(w) \in Seq(Frame)
      /\ \A i \in 1..Len(w) - 1 : Tail(w)[i] = w[i + 1]
      /\ Head(w) = w[1]
  BY TailFacts
<1>2. \A i \in 1..Len(w) - 1 : i + 1 \in 1..Len(w) /\ 1 <= i + 1
  BY <1>1
<1>3. \A i, j \in 1..Len(w) - 1 : i <= j => i + 1 <= j + 1
  OBVIOUS
<1> QED
  BY <1>1, <1>2, <1>3

-----------------------------------------------------------------------------
(* The payloads on the way to the controller. *)

LEMMA OrderShrinks ==
  ASSUME NEW p, NEW s, NEW n, NEW last, NEW out \in Seq(Frame), NEW out2,
         Order(p, s, n, last, out), Shrunk(out2, out)
  PROVE  Order(p, s, n, last, out2)
<1>1. PICK k \in Nat : \A i \in DOMAIN out2 :
        i \in Nat /\ i + k \in Nat /\ i + k \in DOMAIN out /\ SameFrame(out2[i], out[i + k])
  BY ShrunkFacts
<1>2. ASSUME NEW i \in DOMAIN out2, IsData(out2[i])
      PROVE  /\ last <= out2[i].body /\ out2[i].body <= n /\ out2[i].body > 0
             /\ out2[i].body = last => out2[i].seq = s.accepted
             /\ out2[i].body = n /\ p.awaiting # None => out2[i].seq = p.awaiting
  BY <1>1, <1>2 DEF Order, SameFrame, IsData
<1>3. ASSUME NEW i \in DOMAIN out2, NEW j \in DOMAIN out2, i <= j,
             IsData(out2[i]), IsData(out2[j])
      PROVE  /\ out2[i].body <= out2[j].body
             /\ out2[i].body = out2[j].body => out2[i].seq = out2[j].seq
  <2>1. i + k <= j + k
    BY <1>1, <1>3
  <2>2. IsData(out[i + k]) /\ IsData(out[j + k])
    BY <1>1, <1>3 DEF SameFrame, IsData
  <2>3. /\ out[i + k].body <= out[j + k].body
        /\ out[i + k].body = out[j + k].body => out[i + k].seq = out[j + k].seq
    BY <1>1, <2>1, <2>2, Zenon DEF Order
  <2> QED
    BY <1>1, <2>3 DEF SameFrame
<1> QED
  BY <1>2, <1>3 DEF Order

\* The pump sends payload m: the awaited one again, or the next one.  Any other
\* answer leaves the payloads as they are.
LEMMA OrderSends ==
  ASSUME NEW p, NEW p2, NEW s, NEW n \in Nat, NEW m \in Nat, NEW last \in Nat,
         NEW out \in Seq(Frame), NEW f \in Frame,
         Order(p, s, n, last, out), p2.tx = p.tx,
         IsData(f) => f.body = m /\ f.seq = p2.awaiting,
         \/ p2.awaiting = p.awaiting /\ m = n /\ (IsData(f) => p.awaiting # None)
         \/ p.awaiting = None /\ p2.awaiting = p.tx /\ m = n + 1
  PROVE  Order(p2, s, m, last, Append(out, f))
<1> DEFINE w == Append(out, f)
           l == Len(out)
<1>1. /\ \A i \in DOMAIN w : (i \in DOMAIN out /\ w[i] = out[i]) \/ (i = l + 1 /\ w[i] = f)
      /\ \A i \in DOMAIN out : ~(l + 1 <= i)
  BY AppendCases
<1>2. \A i \in DOMAIN out : out[i] \in Frame /\ out[i].body \in Nat
  BY WireFacts
<1> SUFFICES Order(p2, s, m, last, w)
  OBVIOUS
<1> HIDE DEF w, l
<1>3. /\ last <= m /\ n <= m
      /\ p2.awaiting # None =>
           p2.awaiting = p2.tx /\ m > 0 /\ (m = last => s.accepted = p2.awaiting)
  BY DEF Order
<1>4. \A i \in DOMAIN out : IsData(out[i]) => out[i].body <= n
  BY DEF Order
<1>5. ASSUME NEW i \in DOMAIN w, IsData(w[i])
      PROVE  /\ last <= w[i].body /\ w[i].body <= m /\ w[i].body > 0
             /\ w[i].body = last => w[i].seq = s.accepted
             /\ w[i].body = m /\ p2.awaiting # None => w[i].seq = p2.awaiting
  <2>1. CASE i \in DOMAIN out /\ w[i] = out[i]
    <3>1. w[i].body <= n /\ w[i].body \in Nat
      BY <1>2, <1>4, <1>5, <2>1
    <3>2. w[i].body <= m /\ (w[i].body = m => m = n)
      BY <1>3, <3>1
    <3> QED
      BY <1>5, <2>1, <3>2 DEF Order
  <2>2. CASE i = l + 1 /\ w[i] = f
    <3>1. p2.awaiting # None \/ p2.awaiting = p.tx
      BY <1>5, <2>2
    <3>2. m > 0 /\ (m = last => s.accepted = p2.awaiting)
      BY <1>3, <1>5, <2>2 DEF Order
    <3> QED
      BY <1>3, <1>5, <2>2, <3>2
  <2> QED
    BY <1>1, <2>1, <2>2
<1>6. ASSUME NEW i \in DOMAIN w, NEW j \in DOMAIN w, i <= j, IsData(w[i]), IsData(w[j])
      PROVE  w[i].body <= w[j].body /\ (w[i].body = w[j].body => w[i].seq = w[j].seq)
  <2>1. CASE j \in DOMAIN out /\ w[j] = out[j]
    BY <1>1, <1>6, <2>1 DEF Order
  <2>2. CASE j = l + 1 /\ w[j] = f
    <3>1. CASE i \in DOMAIN out /\ w[i] = out[i]
      <4>1. w[i].body <= n /\ w[i].body \in Nat /\ w[j].body = m
        BY <1>2, <1>4, <1>6, <2>2, <3>1
      <4>2. w[i].body <= m /\ (w[i].body = m => m = n)
        BY <1>3, <4>1
      <4> QED
        BY <1>6, <2>2, <3>1, <4>1, <4>2 DEF Order
    <3>2. CASE i = l + 1 /\ w[i] = f
      BY <1>6, <2>2, <3>2
    <3> QED
      BY <1>1, <3>1, <3>2
  <2> QED
    BY <1>1, <2>1, <2>2
<1> QED
  BY <1>3, <1>5, <1>6 DEF Order

\* The session accepts the payload that arrives.
LEMMA OrderAccepts ==
  ASSUME NEW p, NEW s, NEW s2, NEW n \in Nat, NEW last \in Nat, NEW out \in Seq(Frame),
         out # <<>>, Order(p, s, n, last, out),
         IsData(Head(out)), Head(out).seq # s.accepted, s2.accepted = Head(out).seq
  PROVE  last < Head(out).body /\ Order(p, s2, n, Head(out).body, Tail(out))
<1> DEFINE v == Tail(out)
           h == Head(out)
<1>1. /\ \A i \in DOMAIN v : i + 1 \in DOMAIN out /\ 1 <= i + 1 /\ v[i] = out[i + 1]
      /\ \A i, j \in DOMAIN v : i <= j => i + 1 <= j + 1
      /\ 1 \in DOMAIN out /\ h = out[1]
  BY TailMoves
<1>2. h.body \in Nat
  BY <1>1, WireFacts
<1> SUFFICES last < h.body /\ Order(p, s2, n, h.body, v)
  OBVIOUS
<1>3. IsData(h) /\ h.seq # s.accepted /\ s2.accepted = h.seq
  OBVIOUS
<1> HIDE DEF v, h
<1>4. /\ last <= h.body /\ h.body <= n /\ h.body > 0
      /\ h.body = last => h.seq = s.accepted
      /\ h.body = n /\ p.awaiting # None => h.seq = p.awaiting
  BY <1>1, <1>3 DEF Order
<1>5. last < h.body
  BY <1>2, <1>3, <1>4
<1>6. ASSUME NEW i \in DOMAIN v, IsData(v[i])
      PROVE  /\ h.body <= v[i].body /\ v[i].body <= n /\ v[i].body > 0
             /\ v[i].body = h.body => v[i].seq = s2.accepted
             /\ v[i].body = n /\ p.awaiting # None => v[i].seq = p.awaiting
  BY <1>1, <1>3, <1>6 DEF Order
<1>7. ASSUME NEW i \in DOMAIN v, NEW j \in DOMAIN v, i <= j, IsData(v[i]), IsData(v[j])
      PROVE  v[i].body <= v[j].body /\ (v[i].body = v[j].body => v[i].seq = v[j].seq)
  BY <1>1, <1>7 DEF Order
<1>8. p.awaiting # None =>
        p.awaiting = p.tx /\ n > 0 /\ (n = h.body => s2.accepted = p.awaiting)
  BY <1>3, <1>4 DEF Order
<1> QED
  BY <1>4, <1>5, <1>6, <1>7, <1>8 DEF Order

\* The pump stops awaiting its payload: it was acknowledged, or is forgotten with
\* the others up to the m-th.
LEMMA OrderForgets ==
  ASSUME NEW p, NEW p2, NEW s, NEW n \in Nat, NEW m \in Nat, NEW last \in Nat,
         NEW out \in Seq(Frame),
         Order(p, s, n, last, out), p2.awaiting = None, n <= m
  PROVE  Order(p2, s, m, last, out)
<1>1. \A i \in DOMAIN out : out[i].body \in Nat
  BY WireFacts
<1>2. last <= m /\ \A i \in DOMAIN out : out[i].body <= n => out[i].body <= m
  BY <1>1 DEF Order
<1> QED
  BY <1>2 DEF Order

LEMMA NumberedShrinks ==
  ASSUME NEW p, NEW s, NEW n, NEW last, NEW out \in Seq(Frame), NEW out2,
         Numbered(p, s, n, last, out), Shrunk(out2, out)
  PROVE  Numbered(p, s, n, last, out2)
<1>1. PICK k \in Nat : \A i \in DOMAIN out2 :
        i + k \in DOMAIN out /\ SameFrame(out2[i], out[i + k])
  BY ShrunkFacts
<1>2. \A i \in DOMAIN out2 :
        IsData(out2[i]) => out2[i].body = IF out2[i].seq = s.accepted THEN last ELSE last + 1
  BY <1>1 DEF Numbered, SameFrame, IsData
<1> QED
  BY <1>2 DEF Numbered

LEMMA NumberedSends ==
  ASSUME NEW p, NEW p2, NEW s, NEW n \in Nat, NEW m \in Nat, NEW last \in Nat,
         NEW out \in Seq(Frame), NEW back, NEW f \in Frame,
         Receiver(s), p.tx \in Seqs, p2.tx = p.tx,
         Relay(p.tx, s, out, back), Numbered(p, s, n, last, out),
         p.awaiting # None => p.awaiting = p.tx,
         IsData(f) => f.body = m /\ f.seq = p2.awaiting,
         \/ p2.awaiting = p.awaiting /\ m = n /\ (IsData(f) => p.awaiting # None)
         \/ p.awaiting = None /\ p2.awaiting = p.tx /\ m = n + 1
  PROVE  Numbered(p2, s, m, last, Append(out, f))
<1> DEFINE w == Append(out, f)
           l == Len(out)
<1>1. \A i \in DOMAIN w : (i \in DOMAIN out /\ w[i] = out[i]) \/ (i = l + 1 /\ w[i] = f)
  BY AppendCases
<1> SUFFICES Numbered(p2, s, m, last, w)
  OBVIOUS
<1> HIDE DEF w, l
<1>2. p.tx # None /\ (s.accepted # None => s.expected # s.accepted)
  BY NextSeqFacts DEF Relay, Receiver
<1>3. p.tx = s.expected \/ p.tx = s.accepted
  BY DEF Relay, Underway, Arrived
<1>4. /\ m = IF p2.awaiting # None /\ p2.tx = s.expected THEN last + 1 ELSE last
      /\ p2.awaiting = None => p2.tx = s.expected
  BY <1>2 DEF Numbered
<1>5. IsData(f) => f.body = IF f.seq = s.accepted THEN last ELSE last + 1
  <2>1. IsData(f) => p2.awaiting = p.tx /\ f.seq = p.tx /\ f.body = m
    OBVIOUS
  <2>2. p.tx = s.accepted => p.tx # s.expected
    BY <1>2
  <2> QED
    BY <1>2, <1>3, <1>4, <2>1, <2>2
<1>6. \A i \in DOMAIN w :
        IsData(w[i]) => w[i].body = IF w[i].seq = s.accepted THEN last ELSE last + 1
  BY <1>1, <1>5 DEF Numbered
<1> QED
  BY <1>4, <1>6 DEF Numbered

\* What the session accepts is the payload after the last one.
LEMMA NumberedAccepts ==
  ASSUME NEW p, NEW s, NEW s2, NEW n \in Nat, NEW last \in Nat,
         NEW out \in Seq(Frame), NEW back, out # <<>>,
         Receiver(s), p.tx \in Seqs,
         Relay(p.tx, s, out, back), Order(p, s, n, last, out), Numbered(p, s, n, last, out),
         IsData(Head(out)), Head(out).seq = s.expected, Head(out).seq # s.accepted,
         s2.accepted = s.expected, s2.expected = NextSeq(s.expected)
  PROVE  Head(out).body = last + 1 /\ Numbered(p, s2, n, last + 1, Tail(out))
<1> DEFINE v == Tail(out)
           h == Head(out)
<1>1. /\ \A i \in DOMAIN v : i + 1 \in DOMAIN out /\ 1 <= i + 1 /\ v[i] = out[i + 1]
      /\ 1 \in DOMAIN out /\ h = out[1]
  BY TailMoves
<1>2. IsData(h) /\ h.seq = s.expected /\ h.seq # s.accepted
  OBVIOUS
<1> SUFFICES h.body = last + 1 /\ Numbered(p, s2, n, last + 1, v)
  OBVIOUS
<1> HIDE DEF v, h
<1>3. h.body = last + 1 /\ h.body <= n
  BY <1>1, <1>2 DEF Numbered, Order
<1>4. Underway(p.tx, s, out, back)
  BY <1>1, <1>2 DEF Relay, Arrived
<1>5. p.awaiting # None /\ n = last + 1 /\ p.tx = s.expected
  BY <1>3, <1>4 DEF Numbered, Underway
<1>6. s2.expected # p.tx /\ s2.accepted # None
  BY <1>5, NextSeqFacts
<1>7. ASSUME NEW i \in DOMAIN v, IsData(v[i])
      PROVE  v[i].body = IF v[i].seq = s2.accepted THEN last + 1 ELSE last + 1 + 1
  <2>1. v[i].seq = s.expected
    BY <1>1, <1>2, <1>4, <1>7 DEF Underway
  <2> QED
    BY <1>1, <1>2, <1>7, <2>1 DEF Numbered
<1> QED
  BY <1>3, <1>5, <1>6, <1>7 DEF Numbered

\* The acknowledged payload is the last one the session applied.
LEMMA NumberedConfirmed ==
  ASSUME NEW p, NEW p2, NEW s, NEW n, NEW last, NEW out,
         Numbered(p, s, n, last, out), s.expected # p.tx,
         p2.awaiting = None, p2.tx = s.expected
  PROVE  Numbered(p2, s, n, last, out)
BY DEF Numbered

-----------------------------------------------------------------------------
(* The same where a full buffer also loses its oldest frame. *)

LEMMA PutTypes ==
  ASSUME NEW w \in Seq(Frame), NEW f \in Frame PROVE Put(w, f) \in Seq(Frame)
<1>1. PICK v : Shrunk(v, w) /\ Put(w, f) = Append(v, f)
  BY PutIsAppend
<1> QED
  BY <1>1, AppendFacts DEF Shrunk

LEMMA ShrunkTypes ==
  ASSUME NEW v, NEW w, Shrunk(v, w) PROVE v \in Seq(Frame)
BY DEF Shrunk

\* The sender's frames f, the receiver's answers g.
LEMMA RelayMoves ==
  ASSUME NEW tx, NEW r, NEW out \in Seq(Frame), NEW back \in Seq(Frame),
         NEW o, NEW b, NEW f \in Frame, NEW g \in Frame,
         Relay(tx, r, out, back), Shrunk(o, out), Shrunk(b, back),
         IsData(f) => f.seq = tx, IsAck(g) => g.seq = r.accepted
  PROVE  /\ Relay(tx, r, o, b) /\ Relay(tx, r, Put(o, f), b)
         /\ Relay(tx, r, o, Put(b, g)) /\ Relay(tx, r, Put(o, f), Put(b, g))
<1>1. o \in Seq(Frame) /\ b \in Seq(Frame) /\ Shrunk(o, o) /\ Shrunk(b, b)
  BY ShrunkTypes, ShrinksNot
<1>2. Relay(tx, r, o, b)
  BY RelayShrinks
<1>3. PICK v : Shrunk(v, o) /\ Put(o, f) = Append(v, f)
  BY <1>1, PutIsAppend
<1>4. PICK u : Shrunk(u, b) /\ Put(b, g) = Append(u, g)
  BY <1>1, PutIsAppend
<1>5. v \in Seq(Frame) /\ u \in Seq(Frame)
  BY <1>3, <1>4, ShrunkTypes
<1>6. Relay(tx, r, v, b) /\ Relay(tx, r, o, u) /\ Relay(tx, r, v, u)
  BY <1>1, <1>2, <1>3, <1>4, RelayShrinks
<1>7. Relay(tx, r, Append(v, f), b) /\ Relay(tx, r, Append(v, f), u)
  BY <1>5, <1>6, RelaySends
<1>8. Relay(tx, r, o, Append(u, g)) /\ Relay(tx, r, Append(v, f), Append(u, g))
  BY <1>5, <1>6, <1>7, RelayAnswers
<1> QED
  BY <1>2, <1>3, <1>4, <1>7, <1>8

LEMMA RelayAcceptsPut ==
  ASSUME NEW tx, NEW r, NEW r2, NEW out \in Seq(Frame), NEW back \in Seq(Frame),
         NEW o, NEW f \in Frame, out # <<>>,
         Receiver(r), Relay(tx, r, out, back), Shrunk(o, Tail(out)),
         IsData(Head(out)), Head(out).seq = r.expected, Head(out).seq # r.accepted,
         r2.accepted = r.expected, r2.expected = NextSeq(r.expected),
         IsAck(f) => f.seq = r.expected
  PROVE  Relay(tx, r2, o, Put(back, f))
<1>1. PICK v : Shrunk(v, back) /\ Put(back, f) = Append(v, f)
  BY PutIsAppend
<1>2. v \in Seq(Frame) /\ Relay(tx, r, out, v)
  BY <1>1, ShrunkTypes, ShrinksNot, RelayShrinks
<1>3. Relay(tx, r2, Tail(out), Append(v, f))
  BY <1>2, RelayAccepts
<1>4. Tail(out) \in Seq(Frame) /\ Append(v, f) \in Seq(Frame)
  BY <1>2, TailFacts, AppendFacts
<1> QED
  BY <1>1, <1>3, <1>4, ShrinksNot, RelayShrinks

LEMMA OrderPut ==
  ASSUME NEW p, NEW p2, NEW s, NEW n \in Nat, NEW m \in Nat, NEW last \in Nat,
         NEW out \in Seq(Frame), NEW o, NEW f \in Frame,
         Order(p, s, n, last, out), Shrunk(o, out), p2.tx = p.tx,
         IsData(f) => f.body = m /\ f.seq = p2.awaiting,
         \/ p2.awaiting = p.awaiting /\ m = n /\ (IsData(f) => p.awaiting # None)
         \/ p.awaiting = None /\ p2.awaiting = p.tx /\ m = n + 1
  PROVE  Order(p2, s, m, last, Put(o, f))
<1>1. o \in Seq(Frame) /\ Order(p, s, n, last, o)
  BY ShrunkTypes, OrderShrinks
<1>2. PICK v : Shrunk(v, o) /\ Put(o, f) = Append(v, f)
  BY <1>1, PutIsAppend
<1>3. v \in Seq(Frame) /\ Order(p, s, n, last, v)
  BY <1>1, <1>2, ShrunkTypes, OrderShrinks
<1>4. Order(p2, s, m, last, Append(v, f))
  BY <1>3, OrderSends
<1> QED
  BY <1>2, <1>4

LEMMA NumberedPut ==
  ASSUME NEW p, NEW p2, NEW s, NEW n \in Nat, NEW m \in Nat, NEW last \in Nat,
         NEW out \in Seq(Frame), NEW back \in Seq(Frame), NEW o, NEW f \in Frame,
         Receiver(s), p.tx \in Seqs, p2.tx = p.tx,
         Relay(p.tx, s, out, back), Numbered(p, s, n, last, out), Shrunk(o, out),
         p.awaiting # None => p.awaiting = p.tx,
         IsData(f) => f.body = m /\ f.seq = p2.awaiting,
         \/ p2.awaiting = p.awaiting /\ m = n /\ (IsData(f) => p.awaiting # None)
         \/ p.awaiting = None /\ p2.awaiting = p.tx /\ m = n + 1
  PROVE  Numbered(p2, s, m, last, Put(o, f))
<1>1. /\ o \in Seq(Frame) /\ Numbered(p, s, n, last, o)
      /\ Relay(p.tx, s, o, back)
  BY ShrunkTypes, NumberedShrinks, ShrinksNot, RelayShrinks
<1>2. PICK v : Shrunk(v, o) /\ Put(o, f) = Append(v, f)
  BY <1>1, PutIsAppend
<1>3. /\ v \in Seq(Frame) /\ Numbered(p, s, n, last, v)
      /\ Relay(p.tx, s, v, back)
  BY <1>1, <1>2, ShrunkTypes, NumberedShrinks, ShrinksNot, RelayShrinks
<1>4. Numbered(p2, s, m, last, Append(v, f))
  BY <1>3, NumberedSends
<1> QED
  BY <1>2, <1>4

-----------------------------------------------------------------------------
(* Steps that leave the TX#s of both sides and the payloads as they are. *)

LEMMA LastOfFacts ==
  /\ \A a \in Seq(Nat) : LastOf(a) \in Nat
  /\ \A a \in Seq(Nat), n \in Nat :
       Append(a, n) \in Seq(Nat) /\ LastOf(Append(a, n)) = n
BY DEF LastOf

LEMMA TypeFacts ==
  ASSUME LinkTypes
  PROVE  /\ Receiver(session) /\ Receiver(pump)
         /\ pump.tx \in Seqs /\ session.tx \in Seqs
         /\ pump.awaiting \in Seqs \union {None}
         /\ popped \in Nat /\ queued \in Nat /\ restarts \in Nat
         /\ issued \in Nat /\ sent \in Nat
         /\ LastOf(applied) \in Nat
         /\ toPump \in Seq(Frame) /\ toController \in Seq(Frame)
<1>1. LastOf(applied) \in Nat
  BY LastOfFacts DEF LinkTypes
<1> QED
  BY <1>1 DEF LinkTypes, Pumps, Sessions, Receiver

\* What the session may write to the pump without a change to its TX#s, and what
\* the pump may answer.
SessionMayWrite(f) ==
  /\ IsData(f) => f.seq = session.tx
  /\ IsAck(f) => f.seq = session.accepted

PumpMayAnswer(f) ==
  /\ IsData(f) => pump.awaiting # None /\ f.seq = pump.awaiting /\ f.body = popped
  /\ IsAck(f) => f.seq = pump.accepted

SessionKeepsStep ==
  /\ session'.tx = session.tx /\ session'.accepted = session.accepted
  /\ session'.expected = session.expected
  /\ applied' = applied

PumpKeepsStep ==
  /\ pump'.tx = pump.tx /\ pump'.awaiting = pump.awaiting
  /\ pump'.accepted = pump.accepted /\ pump'.expected = pump.expected
  /\ popped' = popped /\ queued <= queued'

WiresMove ==
  /\ \E v : /\ Shrunk(v, toPump)
            /\ toPump' = v \/ \E f \in Frame : SessionMayWrite(f) /\ toPump' = Put(v, f)
  /\ \E v : /\ Shrunk(v, toController)
            /\ \/ toController' = v
               \/ \E f \in Frame : PumpMayAnswer(f) /\ toController' = Put(v, f)

LEMMA SameStep ==
  ASSUME NEW p, NEW p2, NEW s, NEW s2, NEW n, NEW last, NEW out, NEW back, NEW tx,
         p2.tx = p.tx, p2.awaiting = p.awaiting,
         s2.accepted = s.accepted, s2.expected = s.expected
  PROVE  /\ Relay(tx, s, out, back) => Relay(tx, s2, out, back)
         /\ Order(p, s, n, last, out) => Order(p2, s2, n, last, out)
         /\ Numbered(p, s, n, last, out) => Numbered(p2, s2, n, last, out)
<1>1. Relay(tx, s, out, back) => Relay(tx, s2, out, back)
  BY DEF Relay, Underway, Arrived
<1>2. Order(p, s, n, last, out) => Order(p2, s2, n, last, out)
  BY DEF Order
<1>3. Numbered(p, s, n, last, out) => Numbered(p2, s2, n, last, out)
  BY DEF Numbered
<1> QED
  BY <1>1, <1>2, <1>3

LEMMA QuietStep ==
  ASSUME LinkInv, LinkTypes', SessionKeepsStep, PumpKeepsStep, WiresMove,
         restarts' = restarts
  PROVE  LinkInv'
<1> DEFINE last == LastOf(applied)
<1>1. /\ Receiver(session) /\ Receiver(pump) /\ pump.tx \in Seqs /\ popped \in Nat
      /\ queued \in Nat /\ last \in Nat
      /\ toPump \in Seq(Frame) /\ toController \in Seq(Frame)
  BY TypeFacts DEF LinkInv
<1>2. PICK v : /\ Shrunk(v, toPump)
               /\ toPump' = v \/ \E f \in Frame : SessionMayWrite(f) /\ toPump' = Put(v, f)
  BY DEF WiresMove
<1>3. PICK u : /\ Shrunk(u, toController)
               /\ \/ toController' = u
                  \/ \E f \in Frame : PumpMayAnswer(f) /\ toController' = Put(u, f)
  BY DEF WiresMove
<1>4. Poll \in Frame /\ SessionMayWrite(Poll) /\ PumpMayAnswer(Poll)
  BY LinkAssumption
     DEF LinkAssumption, Poll, ControlFrame, Frame, Seqs, SessionMayWrite, PumpMayAnswer,
         IsData, IsAck
<1>5. PICK f \in Frame : SessionMayWrite(f) /\ (toPump' = v \/ toPump' = Put(v, f))
  BY <1>2, <1>4
<1>6. PICK g \in Frame : PumpMayAnswer(g) /\ (toController' = u \/ toController' = Put(u, g))
  BY <1>3, <1>4
<1>7. popped' <= queued'
  <2>1. queued' \in Nat /\ popped <= queued
    BY DEF LinkInv, LinkTypes
  <2> QED
    BY <1>1, <2>1 DEF PumpKeepsStep
<1>8. Order(pump, session, popped, last, toController')
  <2>1. Order(pump, session, popped, last, toController)
    BY DEF LinkInv
  <2>2. Order(pump, session, popped, last, u)
    BY <1>1, <1>3, <2>1, OrderShrinks
  <2>3. Order(pump, session, popped, last, Put(u, g))
    BY <1>1, <1>3, <1>6, <2>1, OrderPut DEF PumpMayAnswer
  <2> QED
    BY <1>6, <2>2, <2>3
<1>9. ASSUME restarts = 0
      PROVE  /\ Relay(pump.tx, session, toController', toPump')
             /\ Relay(session.tx, pump, toPump', toController')
             /\ Numbered(pump, session, popped, last, toController')
  <2>1. /\ Relay(pump.tx, session, toController, toPump)
        /\ Relay(session.tx, pump, toPump, toController)
        /\ Numbered(pump, session, popped, last, toController)
        /\ pump.awaiting # None => pump.awaiting = pump.tx
    BY <1>9 DEF LinkInv, Order
  <2>2. IsData(g) => g.seq = pump.tx
    BY <1>6, <2>1 DEF PumpMayAnswer
  <2>3. /\ Relay(pump.tx, session, u, v) /\ Relay(pump.tx, session, Put(u, g), v)
        /\ Relay(pump.tx, session, u, Put(v, f))
        /\ Relay(pump.tx, session, Put(u, g), Put(v, f))
    BY <1>1, <1>2, <1>3, <1>5, <2>1, <2>2, RelayMoves DEF SessionMayWrite
  <2>4. /\ Relay(session.tx, pump, v, u) /\ Relay(session.tx, pump, Put(v, f), u)
        /\ Relay(session.tx, pump, v, Put(u, g))
        /\ Relay(session.tx, pump, Put(v, f), Put(u, g))
    BY <1>1, <1>2, <1>3, <1>5, <1>6, <2>1, RelayMoves DEF SessionMayWrite, PumpMayAnswer
  <2>5. Numbered(pump, session, popped, last, u)
    BY <1>1, <1>3, <2>1, NumberedShrinks
  <2>6. Numbered(pump, session, popped, last, Put(u, g))
    BY <1>1, <1>3, <1>6, <2>1, NumberedPut DEF PumpMayAnswer
  <2> QED
    BY <1>5, <1>6, <2>3, <2>4, <2>5, <2>6
<1>10. Order(pump', session', popped', last, toController')
  BY <1>8, SameStep DEF PumpKeepsStep, SessionKeepsStep
<1>11. ASSUME restarts = 0
       PROVE  /\ Relay(pump'.tx, session', toController', toPump')
              /\ Relay(session'.tx, pump', toPump', toController')
              /\ Numbered(pump', session', popped', last, toController')
  BY <1>9, <1>11, SameStep DEF PumpKeepsStep, SessionKeepsStep
<1> QED
  BY <1>7, <1>10, <1>11 DEF LinkInv, SessionKeepsStep

LEMMA ControlFacts ==
  /\ Poll \in Frame /\ ~IsData(Poll) /\ ~IsAck(Poll)
  /\ \A q \in Seqs : /\ ControlFrame("EOT", q, 0) \in Frame
                     /\ ~IsData(ControlFrame("EOT", q, 0)) /\ ~IsAck(ControlFrame("EOT", q, 0))
  /\ \A q \in Seqs, n \in Nat :
       /\ Data(q, n) \in Frame /\ IsData(Data(q, n)) /\ ~IsAck(Data(q, n))
       /\ Data(q, n).seq = q /\ Data(q, n).body = n
  /\ \A f \in Frame : /\ Ack(f) \in Frame /\ ~IsData(Ack(f)) /\ IsAck(Ack(f)) /\ Ack(f).seq = f.seq
                      /\ Nak(f) \in Frame /\ ~IsData(Nak(f)) /\ ~IsAck(Nak(f))
<1>1. 0 \in Seqs
  BY LinkAssumption DEF LinkAssumption, Seqs
<1> QED
  BY <1>1 DEF Poll, ControlFrame, Data, Ack, Nak, IsData, IsAck, Frame

\* A wire that loses frames, or a frame put on what is left of it.
LEMMA WriteFacts ==
  ASSUME LinkTypes
  PROVE  /\ Shrunk(toPump, toPump) /\ Shrunk(toController, toController)
         /\ toPump # <<>> =>
              Shrunk(Tail(toPump), toPump) /\ Head(toPump) \in Frame /\ Tail(toPump) \in Seq(Frame)
         /\ toController # <<>> =>
              /\ Shrunk(Tail(toController), toController) /\ Head(toController) \in Frame
              /\ Tail(toController) \in Seq(Frame)
         /\ \A f \in Frame : Put(toPump, f) \in Seq(Frame) /\ Put(toController, f) \in Seq(Frame)
BY TypeFacts, ShrinksNot, TailShrinks, TailFacts, PutTypes

\* What one step of each side keeps of the other's variables.
LEMMA SessionVarsKept ==
  ASSUME UNCHANGED <<session, applied>> PROVE SessionKeepsStep
BY DEF SessionKeepsStep

LEMMA PumpVarsKept ==
  ASSUME LinkTypes, UNCHANGED <<pump, queued, popped>> PROVE PumpKeepsStep
<1>1. queued <= queued
  BY TypeFacts
<1> QED
  BY <1>1 DEF PumpKeepsStep

LEMMA QueuePayloadKeeps ==
  ASSUME LinkInv, QueuePayload PROVE LinkInv'
<1>1. LinkTypes
  BY DEF LinkInv
<1>2. queued \in Nat /\ queued + 1 \in Nat /\ queued <= queued + 1
  BY <1>1, TypeFacts
<1>3. LinkTypes'
  BY <1>1, <1>2 DEF LinkTypes, QueuePayload, commandVars, sessionVars, wireVars
<1>4. PumpKeepsStep
  BY <1>2 DEF PumpKeepsStep, QueuePayload
<1>5. WiresMove
  BY <1>1, WriteFacts DEF WiresMove, QueuePayload, wireVars
<1> QED
  BY <1>3, <1>4, <1>5, QuietStep, SessionVarsKept DEF QueuePayload, sessionVars

-----------------------------------------------------------------------------
(* The pump's steps. *)

\* What Receives does to the variables it names.
LEMMA ReceivesFacts ==
  ASSUME LinkInv, NEW kind, Receives(kind)
  PROVE  /\ LinkTypes /\ toPump # <<>> /\ toPump' = Tail(toPump)
         /\ Head(toPump).kind = kind /\ Head(toPump) \in Frame
         /\ UNCHANGED <<queued, session, applied, issued, sent, restarts>>
         /\ Shrunk(Tail(toPump), toPump) /\ Tail(toPump) \in Seq(Frame)
         /\ SessionKeepsStep
<1>1. LinkTypes
  BY DEF LinkInv
<1>2. toPump # <<>> /\ UNCHANGED <<session, applied>>
  BY DEF Receives, sessionVars
<1> QED
  BY <1>1, <1>2, WriteFacts, SessionVarsKept DEF Receives, sessionVars

\* A frame the pump reads without a change to its TX#s.
LEMMA PumpReadsKeeps ==
  ASSUME LinkInv, NEW kind, Receives(kind), UNCHANGED <<pump, popped>>,
         \/ UNCHANGED toController
         \/ \E f \in Frame : PumpMayAnswer(f) /\ toController' = Put(toController, f)
  PROVE  LinkInv'
<1>1. /\ LinkTypes /\ toPump # <<>> /\ toPump' = Tail(toPump)
      /\ UNCHANGED <<queued, session, applied, issued, sent, restarts>>
      /\ Shrunk(Tail(toPump), toPump) /\ Tail(toPump) \in Seq(Frame)
      /\ SessionKeepsStep
  BY ReceivesFacts
<1>2. toController' \in Seq(Frame)
  BY <1>1, WriteFacts DEF LinkTypes
<1>3. LinkTypes'
  BY <1>1, <1>2 DEF LinkTypes
<1>4. WiresMove
  BY <1>1, WriteFacts DEF WiresMove
<1>5. PumpKeepsStep
  BY <1>1, PumpVarsKept
<1> QED
  BY <1>1, <1>3, <1>4, <1>5, QuietStep

LEMMA PumpIsDeafKeeps ==
  ASSUME LinkInv, PumpIsDeaf PROVE LinkInv'
BY PumpReadsKeeps DEF PumpIsDeaf, PumpIsSilent

\* The pump takes the next payload and sends it under its TX#.
LEMMA PumpSendsNext ==
  ASSUME LinkInv, Receives("POLL"), pump.awaiting = None, popped < queued,
         popped' = popped + 1, pump' = [pump EXCEPT !.awaiting = pump.tx],
         PumpAnswers(Data(pump.tx, popped + 1))
  PROVE  LinkInv'
<1> DEFINE f == Data(pump.tx, popped + 1)
           last == LastOf(applied)
<1>1. /\ LinkTypes /\ toPump # <<>> /\ toPump' = Tail(toPump)
      /\ UNCHANGED <<queued, session, applied, issued, sent, restarts>>
      /\ Shrunk(Tail(toPump), toPump) /\ Tail(toPump) \in Seq(Frame)
      /\ Shrunk(toController, toController)
  BY ReceivesFacts, WriteFacts
<1>2. /\ Receiver(session) /\ Receiver(pump) /\ pump.tx \in Seqs /\ session.tx \in Seqs
      /\ popped \in Nat /\ popped + 1 \in Nat /\ last \in Nat /\ queued \in Nat
      /\ toPump \in Seq(Frame) /\ toController \in Seq(Frame)
  BY <1>1, TypeFacts
<1>3. f \in Frame /\ IsData(f) /\ ~IsAck(f) /\ f.seq = pump.tx /\ f.body = popped + 1
  BY <1>2, ControlFacts
<1>4. toController' = Put(toController, f) /\ toController' \in Seq(Frame)
  BY <1>2, <1>3, PutTypes DEF PumpAnswers
<1>5. /\ pump' \in Pumps
      /\ pump'.tx = pump.tx /\ pump'.awaiting = pump.tx
      /\ pump'.accepted = pump.accepted /\ pump'.expected = pump.expected
  BY <1>1, <1>2 DEF LinkTypes, Pumps
<1> HIDE DEF f, last
<1>6. LinkTypes'
  BY <1>1, <1>2, <1>4, <1>5 DEF LinkTypes
<1>7. popped' <= queued'
  BY <1>1, <1>2
<1>8. Order(pump', session, popped', last, toController')
  <2>1. Order(pump, session, popped, last, toController)
    BY DEF LinkInv, last
  <2>2. /\ pump'.tx = pump.tx
        /\ IsData(f) => f.body = popped + 1 /\ f.seq = pump'.awaiting
        /\ pump.awaiting = None /\ pump'.awaiting = pump.tx
    BY <1>3, <1>5
  <2>3. /\ popped \in Nat /\ popped + 1 \in Nat /\ last \in Nat /\ f \in Frame
        /\ toController \in Seq(Frame) /\ Shrunk(toController, toController)
    BY <1>1, <1>2, <1>3
  <2> DEFINE m == popped + 1
             p2 == pump'
  <2>4. /\ IsData(f) => f.body = m /\ f.seq = p2.awaiting
        /\ p2.tx = pump.tx /\ p2.awaiting = pump.tx /\ m \in Nat /\ m = popped + 1
    BY <2>2, <2>3
  <2> HIDE DEF m, p2
  <2>5. Order(p2, session, m, last, Put(toController, f))
    BY <2>1, <2>2, <2>3, <2>4, OrderPut
  <2> QED
    BY <1>4, <2>5 DEF m, p2
<1>9. ASSUME restarts = 0
      PROVE  /\ Relay(pump.tx, session, toController', toPump')
             /\ Relay(session.tx, pump', toPump', toController')
             /\ Numbered(pump', session, popped', last, toController')
  <2>1. /\ Relay(pump.tx, session, toController, toPump)
        /\ Relay(session.tx, pump, toPump, toController)
        /\ Numbered(pump, session, popped, last, toController)
    BY <1>9 DEF LinkInv, last
  <2>2. Relay(pump.tx, session, Put(toController, f), Tail(toPump))
    BY <1>1, <1>2, <1>3, <2>1, RelayMoves
  <2>3. Relay(session.tx, pump, Tail(toPump), Put(toController, f))
    BY <1>1, <1>2, <1>3, <2>1, RelayMoves, ControlFacts
  <2>4. Numbered(pump', session, popped', last, Put(toController, f))
    BY <1>1, <1>2, <1>3, <1>5, <2>1, NumberedPut
  <2>5. Relay(session.tx, pump', Tail(toPump), Put(toController, f))
    BY <1>5, <2>3, SameStep
  <2> QED
    BY <1>1, <1>4, <2>2, <2>4, <2>5
<1> QED
  BY <1>1, <1>5, <1>6, <1>7, <1>8, <1>9 DEF LinkInv, last

LEMMA PumpAnswersPollKeeps ==
  ASSUME LinkInv, PumpAnswersPoll PROVE LinkInv'
<1>1. /\ pump.tx \in Seqs /\ pump.awaiting \in Seqs \union {None} /\ popped \in Nat
  BY TypeFacts DEF LinkInv
<1>2. CASE /\ pump.awaiting # None
           /\ PumpAnswers(Data(pump.awaiting, popped))
           /\ UNCHANGED <<pump, popped>>
  <2> DEFINE f == Data(pump.awaiting, popped)
  <2>1. f \in Frame /\ f.seq = pump.awaiting /\ f.body = popped /\ ~IsAck(f)
    BY <1>1, <1>2, ControlFacts
  <2>2. PumpMayAnswer(f) /\ toController' = Put(toController, f)
    BY <1>2, <2>1 DEF PumpMayAnswer, PumpAnswers
  <2> QED
    BY <1>2, <2>1, <2>2, PumpReadsKeeps DEF PumpAnswersPoll
<1>3. CASE /\ pump.awaiting = None /\ popped < queued
           /\ popped' = popped + 1
           /\ pump' = [pump EXCEPT !.awaiting = pump.tx]
           /\ PumpAnswers(Data(pump.tx, popped + 1))
  BY <1>3, PumpSendsNext DEF PumpAnswersPoll
<1>4. CASE /\ PumpAnswers(ControlFrame("EOT", pump.tx, 0))
           /\ UNCHANGED <<pump, popped>>
  <2>1. /\ ControlFrame("EOT", pump.tx, 0) \in Frame
        /\ PumpMayAnswer(ControlFrame("EOT", pump.tx, 0))
    BY <1>1, ControlFacts DEF PumpMayAnswer
  <2> QED
    BY <1>4, <2>1, PumpReadsKeeps DEF PumpAnswersPoll, PumpAnswers
<1> QED
  BY <1>2, <1>3, <1>4 DEF PumpAnswersPoll

\* The pump accepts a command and acknowledges it.
LEMMA PumpAcceptsCommand ==
  ASSUME LinkInv, Receives("DATA"), Head(toPump).seq # pump.accepted,
         Head(toPump).seq = pump.expected, PumpAnswers(Ack(Head(toPump))),
         pump' = [pump EXCEPT !.accepted = Head(toPump).seq,
                              !.expected = NextSeq(Head(toPump).seq)],
         UNCHANGED popped
  PROVE  LinkInv'
<1> DEFINE h == Head(toPump)
           f == Ack(h)
           last == LastOf(applied)
<1>1. /\ LinkTypes /\ toPump # <<>> /\ toPump' = Tail(toPump) /\ IsData(h) /\ h \in Frame
      /\ UNCHANGED <<queued, session, applied, issued, sent, restarts>>
      /\ Shrunk(Tail(toPump), toPump) /\ Tail(toPump) \in Seq(Frame)
      /\ Shrunk(toController, toController)
  BY ReceivesFacts, WriteFacts DEF IsData
<1>2. /\ Receiver(session) /\ Receiver(pump) /\ pump.tx \in Seqs /\ session.tx \in Seqs
      /\ popped \in Nat /\ last \in Nat
      /\ toPump \in Seq(Frame) /\ toController \in Seq(Frame)
  BY <1>1, TypeFacts
<1>3. f \in Frame /\ ~IsData(f) /\ f.seq = pump.expected /\ pump.expected \in Seqs
  BY <1>1, <1>2, ControlFacts DEF Receiver
<1>4. toController' = Put(toController, f) /\ toController' \in Seq(Frame)
  BY <1>2, <1>3, PutTypes DEF PumpAnswers
<1>5. NextSeq(pump.expected) \in Seqs
  BY <1>3, NextSeqFacts
<1>6. /\ pump' \in Pumps
      /\ pump'.tx = pump.tx /\ pump'.awaiting = pump.awaiting
      /\ pump'.accepted = pump.expected /\ pump'.expected = NextSeq(pump.expected)
  BY <1>1, <1>3, <1>5 DEF LinkTypes, Pumps
<1>7. LinkTypes'
  BY <1>1, <1>4, <1>6 DEF LinkTypes
<1>8. /\ h.seq # pump.accepted /\ h.seq = pump.expected /\ h = Head(toPump)
  OBVIOUS
<1> HIDE DEF h, f, last
<1>9. Order(pump', session, popped, last, toController')
  <2>1. Order(pump, session, popped, last, toController)
    BY DEF LinkInv, last
  <2>2. Order(pump, session, popped, last, Put(toController, f))
    BY <1>1, <1>2, <1>3, <2>1, OrderPut
  <2> QED
    BY <1>4, <1>6, <2>2, SameStep
<1>10. ASSUME restarts = 0
       PROVE  /\ Relay(pump.tx, session, toController', toPump')
              /\ Relay(session.tx, pump', toPump', toController')
              /\ Numbered(pump', session, popped, last, toController')
  <2>1. /\ Relay(pump.tx, session, toController, toPump)
        /\ Relay(session.tx, pump, toPump, toController)
        /\ Numbered(pump, session, popped, last, toController)
        /\ pump.awaiting # None => pump.awaiting = pump.tx
    BY <1>10 DEF LinkInv, last, Order
  <2>2. Relay(pump.tx, session, Put(toController, f), Tail(toPump))
    BY <1>1, <1>2, <1>3, <2>1, RelayMoves, ControlFacts
  <2>3. Relay(session.tx, pump', Tail(toPump), Put(toController, f))
    BY <1>1, <1>2, <1>3, <1>6, <1>8, <2>1, RelayAcceptsPut, ShrinksNot
  <2>4. Numbered(pump, session, popped, last, Put(toController, f))
    BY <1>1, <1>2, <1>3, <2>1, NumberedPut
  <2>5. Numbered(pump', session, popped, last, Put(toController, f))
    BY <1>6, <2>4, SameStep
  <2> QED
    BY <1>1, <1>4, <2>2, <2>3, <2>5
<1>11. popped' <= queued'
  BY <1>1 DEF LinkInv
<1> QED
  BY <1>1, <1>6, <1>7, <1>9, <1>10, <1>11 DEF LinkInv, last

LEMMA PumpTakesCommandKeeps ==
  ASSUME LinkInv, PumpTakesCommand PROVE LinkInv'
<1> DEFINE f == Head(toPump)
<1>1. Receives("DATA") /\ UNCHANGED popped
  BY DEF PumpTakesCommand
<1>2. f \in Frame
  BY <1>1, ReceivesFacts
<1>3. CASE ~f.intact /\ PumpIsSilent /\ UNCHANGED pump
  BY <1>1, <1>3, PumpReadsKeeps DEF PumpIsSilent
<1>4. CASE f.seq = pump.accepted /\ PumpAnswers(Ack(f)) /\ UNCHANGED pump
  <2>1. Ack(f) \in Frame /\ PumpMayAnswer(Ack(f))
    BY <1>2, <1>4, ControlFacts DEF PumpMayAnswer
  <2> QED
    BY <1>1, <1>4, <2>1, PumpReadsKeeps DEF PumpAnswers
<1>5. CASE PumpAnswers(Nak(f)) /\ UNCHANGED pump
  <2>1. Nak(f) \in Frame /\ PumpMayAnswer(Nak(f))
    BY <1>2, ControlFacts DEF PumpMayAnswer
  <2> QED
    BY <1>1, <1>5, <2>1, PumpReadsKeeps DEF PumpAnswers
<1>6. CASE /\ f.seq # pump.accepted /\ f.seq = pump.expected
           /\ PumpAnswers(Ack(f))
           /\ pump' = [pump EXCEPT !.accepted = f.seq, !.expected = NextSeq(f.seq)]
  BY <1>1, <1>6, PumpAcceptsCommand
<1> QED
  BY <1>3, <1>4, <1>5, <1>6 DEF PumpTakesCommand

\* The ACK the pump awaits: the session has applied the payload.
LEMMA PumpIsConfirmed ==
  ASSUME LinkInv, Receives("ACK"), Head(toPump).seq = pump.awaiting,
         pump' = [pump EXCEPT !.tx = NextSeq(@), !.awaiting = None],
         UNCHANGED <<popped, toController>>
  PROVE  LinkInv'
<1> DEFINE h == Head(toPump)
           last == LastOf(applied)
<1>1. /\ LinkTypes /\ toPump # <<>> /\ toPump' = Tail(toPump) /\ IsAck(h) /\ h \in Frame
      /\ UNCHANGED <<queued, session, applied, issued, sent, restarts>>
      /\ Shrunk(Tail(toPump), toPump) /\ Tail(toPump) \in Seq(Frame)
      /\ Shrunk(toController, toController)
  BY ReceivesFacts, WriteFacts DEF IsAck
<1>2. /\ Receiver(session) /\ Receiver(pump) /\ pump.tx \in Seqs /\ session.tx \in Seqs
      /\ popped \in Nat /\ last \in Nat /\ popped <= popped
      /\ toPump \in Seq(Frame) /\ toController \in Seq(Frame)
  BY <1>1, TypeFacts
<1>3. Order(pump, session, popped, last, toController)
  BY DEF LinkInv
<1>4. h.seq = pump.tx
  <2>1. h.seq \in Seqs /\ h.seq # None
    BY <1>1, FrameFacts, NextSeqFacts
  <2> QED
    BY <1>3, <2>1 DEF Order
<1>5. NextSeq(pump.tx) \in Seqs
  BY <1>2, NextSeqFacts
<1>6. /\ pump' \in Pumps
      /\ pump'.tx = NextSeq(pump.tx) /\ pump'.awaiting = None
      /\ pump'.accepted = pump.accepted /\ pump'.expected = pump.expected
  BY <1>1, <1>5 DEF LinkTypes, Pumps
<1>7. LinkTypes'
  BY <1>1, <1>6 DEF LinkTypes
<1>8. h = Head(toPump)
  OBVIOUS
<1> HIDE DEF h, last
<1>9. Order(pump', session, popped, last, toController)
  BY <1>2, <1>3, <1>6, OrderForgets
<1>10. ASSUME restarts = 0
       PROVE  /\ Relay(pump'.tx, session, toController, toPump')
              /\ Relay(session.tx, pump', toPump', toController)
              /\ Numbered(pump', session, popped, last, toController)
  <2>1. /\ Relay(pump.tx, session, toController, toPump)
        /\ Relay(session.tx, pump, toPump, toController)
        /\ Numbered(pump, session, popped, last, toController)
    BY <1>10 DEF LinkInv, last
  <2>2. /\ pump.tx = session.accepted /\ session.expected = NextSeq(pump.tx)
        /\ session.expected # session.accepted
        /\ Relay(NextSeq(pump.tx), session, toController, Tail(toPump))
    BY <1>1, <1>2, <1>4, <1>8, <2>1, RelayConfirmed, ShrinksNot
  <2>3. Relay(session.tx, pump, Tail(toPump), toController)
    BY <1>1, <1>2, <2>1, RelayShrinks
  <2>4. Relay(session.tx, pump', Tail(toPump), toController)
    BY <1>6, <2>3 DEF Relay, Underway, Arrived
  <2>5. Numbered(pump', session, popped, last, toController)
    BY <1>6, <2>1, <2>2, NumberedConfirmed
  <2> QED
    BY <1>1, <1>6, <2>2, <2>4, <2>5
<1>11. popped' <= queued'
  BY <1>1 DEF LinkInv
<1> QED
  BY <1>1, <1>7, <1>9, <1>10, <1>11 DEF LinkInv, last

LEMMA PumpTakesAckKeeps ==
  ASSUME LinkInv, PumpTakesAck PROVE LinkInv'
<1>1. Receives("ACK") /\ UNCHANGED <<popped, toController>>
  BY DEF PumpTakesAck, PumpIsSilent
<1>2. CASE IsAwaitedAck(Head(toPump))
  BY <1>1, <1>2, PumpIsConfirmed DEF PumpTakesAck, IsAwaitedAck
<1>3. CASE ~IsAwaitedAck(Head(toPump))
  BY <1>1, <1>3, PumpReadsKeeps DEF PumpTakesAck
<1> QED
  BY <1>2, <1>3

-----------------------------------------------------------------------------
(* The controller's steps. *)

LEMMA ShrunkTwice ==
  ASSUME NEW u, NEW v, NEW w \in Seq(Frame), Shrunk(u, v), Shrunk(v, w)
  PROVE  Shrunk(u, w)
<1>1. PICK k \in 0..Len(v) :
        /\ Len(u) = Len(v) - k
        /\ \A i \in 1..Len(u) : i + k \in 1..Len(v) /\ SameFrame(u[i], v[i + k])
  BY DEF Shrunk
<1>2. PICK m \in 0..Len(w) :
        /\ Len(v) = Len(w) - m
        /\ \A i \in 1..Len(v) : i + m \in 1..Len(w) /\ SameFrame(v[i], w[i + m])
  BY DEF Shrunk
<1>3. /\ u \in Seq(Frame) /\ v \in Seq(Frame)
      /\ Len(u) \in Nat /\ Len(v) \in Nat /\ Len(w) \in Nat /\ k \in Nat /\ m \in Nat
  BY DEF Shrunk
<1>4. k + m \in 0..Len(w) /\ Len(u) = Len(w) - (k + m)
  BY <1>1, <1>2, <1>3
<1>5. ASSUME NEW i \in 1..Len(u)
      PROVE  i + (k + m) \in 1..Len(w) /\ SameFrame(u[i], w[i + (k + m)])
  <2>1. i \in Nat /\ (i + k) + m = i + (k + m)
    BY <1>3
  <2>2. i + k \in 1..Len(v) /\ SameFrame(u[i], v[i + k])
    BY <1>1
  <2>3. (i + k) + m \in 1..Len(w) /\ SameFrame(v[i + k], w[(i + k) + m])
    BY <1>2, <2>2
  <2> QED
    BY <2>1, <2>2, <2>3 DEF SameFrame
<1> QED
  BY <1>3, <1>4, <1>5 DEF Shrunk

LEMMA ReadsFacts ==
  ASSUME LinkInv, Reads
  PROVE  /\ toController # <<>> /\ Head(toController) \in Frame
         /\ Shrunk(toController', Tail(toController)) /\ Shrunk(toController', toController)
         /\ toController' \in Seq(Frame)
<1>1. LinkTypes /\ toController \in Seq(Frame) /\ toController # <<>>
  BY TypeFacts DEF LinkInv, Reads
<1>2. Shrunk(toController', Tail(toController))
  BY <1>1, ReadShrinks DEF Reads
<1> QED
  BY <1>1, <1>2, WriteFacts, ShrunkTwice, ShrunkTypes

\* on_timeout and the answers that are not DATA leave the TX#s alone.
LEMMA HealthFacts ==
  ASSUME NEW s \in Sessions
  PROVE  /\ Heard(s) \in Sessions /\ TimedOut(s) \in Sessions
         /\ Heard(s).tx = s.tx /\ TimedOut(s).tx = s.tx
         /\ Heard(s).accepted = s.accepted /\ TimedOut(s).accepted = s.accepted
         /\ Heard(s).expected = s.expected /\ TimedOut(s).expected = s.expected
<1>1. Heard(s) \in Sessions /\ Heard(s).tx = s.tx
      /\ Heard(s).accepted = s.accepted /\ Heard(s).expected = s.expected
  BY DEF Heard, Sessions
<1> DEFINE n == IF s.timeouts < MaxConsecutive THEN s.timeouts + 1 ELSE MaxConsecutive
           health == IF n >= MaxConsecutive THEN "DISCONNECTED"
                     ELSE IF n >= 2 THEN "DEGRADED" ELSE s.health
           connected == s.connected /\ n < MaxConsecutive
<1>2. /\ n \in Nat /\ connected \in BOOLEAN
      /\ health \in {"UNKNOWN", "HEALTHY", "DEGRADED", "DISCONNECTED"}
  BY LinkAssumption DEF LinkAssumption, Sessions
<1>3. TimedOut(s) = [s EXCEPT !.timeouts = n, !.health = health, !.connected = connected]
  BY DEF TimedOut
<1> HIDE DEF n, health, connected
<1> QED
  BY <1>1, <1>2, <1>3 DEF Sessions

\* A step of the controller that changes no TX#.
LEMMA SessionStepKeeps ==
  ASSUME LinkInv, UNCHANGED <<pump, queued, popped, applied, restarts>>,
         issued' \in Nat, sent' \in Nat, session' \in Sessions,
         session'.tx = session.tx, session'.accepted = session.accepted,
         session'.expected = session.expected,
         UNCHANGED toController \/ Shrunk(toController', toController),
         \/ UNCHANGED toPump
         \/ \E f \in Frame : SessionMayWrite(f) /\ toPump' = Put(toPump, f)
  PROVE  LinkInv'
<1>1. LinkTypes
  BY DEF LinkInv
<1>2. Shrunk(toController', toController) /\ toController' \in Seq(Frame)
  BY <1>1, WriteFacts, ShrunkTypes
<1>3. toPump' \in Seq(Frame)
  BY <1>1, WriteFacts, TypeFacts
<1>4. LinkTypes'
  BY <1>1, <1>2, <1>3 DEF LinkTypes
<1>5. WiresMove
  BY <1>1, <1>2, WriteFacts DEF WiresMove
<1>6. SessionKeepsStep /\ PumpKeepsStep
  BY <1>1, PumpVarsKept DEF SessionKeepsStep
<1> QED
  BY <1>4, <1>5, <1>6, QuietStep

LEMMA SessionFacts ==
  ASSUME LinkInv
  PROVE  /\ session \in Sessions /\ issued \in Nat /\ sent \in Nat
         /\ SessionMayWrite(Poll) /\ Poll \in Frame
BY ControlFacts, TypeFacts DEF LinkInv, LinkTypes, Sessions, SessionMayWrite

LEMMA EnqueueCommandKeeps ==
  ASSUME LinkInv, EnqueueCommand PROVE LinkInv'
<1>1. issued' \in Nat
  BY SessionFacts DEF EnqueueCommand
<1> QED
  BY <1>1, SessionFacts, SessionStepKeeps DEF EnqueueCommand, pumpVars, sessionVars, wireVars

LEMMA StartCycleKeeps ==
  ASSUME LinkInv, StartCycle PROVE LinkInv'
BY SessionFacts, SessionStepKeeps DEF StartCycle, Writes, pumpVars

LEMMA SendCommandKeeps ==
  ASSUME LinkInv, SendCommand PROVE LinkInv'
<1>1. PICK n \in sent + 1 .. issued : sent' = n /\ Writes(Data(session.tx, n))
  BY DEF SendCommand
<1>2. n \in Nat
  BY <1>1, SessionFacts
<1>3. /\ Data(session.tx, n) \in Frame
      /\ SessionMayWrite(Data(session.tx, n))
  BY <1>2, TypeFacts, ControlFacts DEF LinkInv, SessionMayWrite
<1> QED
  BY <1>1, <1>2, <1>3, SessionFacts, SessionStepKeeps DEF SendCommand, Writes, pumpVars

LEMMA CommandTimedOutKeeps ==
  ASSUME LinkInv, CommandTimedOut PROVE LinkInv'
BY SessionFacts, SessionStepKeeps DEF CommandTimedOut, Writes, pumpVars, commandVars

LEMMA ReceiveControlKeeps ==
  ASSUME LinkInv, ReceiveControl PROVE LinkInv'
<1>1. /\ session' \in Sessions /\ session'.tx = session.tx
      /\ session'.accepted = session.accepted /\ session'.expected = session.expected
  BY SessionFacts, HealthFacts DEF ReceiveControl
<1>2. Shrunk(toController', toController)
  BY ReadsFacts DEF ReceiveControl
<1> QED
  BY <1>1, <1>2, SessionFacts, SessionStepKeeps DEF ReceiveControl, pumpVars, commandVars

LEMMA ResponseTimedOutKeeps ==
  ASSUME LinkInv, ResponseTimedOut PROVE LinkInv'
<1>1. /\ session' \in Sessions /\ session'.tx = session.tx
      /\ session'.accepted = session.accepted /\ session'.expected = session.expected
  BY SessionFacts, HealthFacts DEF ResponseTimedOut
<1>2. \/ UNCHANGED toPump
      \/ \E f \in Frame : SessionMayWrite(f) /\ toPump' = Put(toPump, f)
  BY SessionFacts DEF ResponseTimedOut, Writes
<1> QED
  BY <1>1, <1>2, SessionFacts, SessionStepKeeps DEF ResponseTimedOut, pumpVars, commandVars

\* A command's ACK arrives: the session's TX# moves on.
LEMMA SessionIsConfirmed ==
  ASSUME LinkInv, Reads, ConfirmsCommand(Head(toController)),
         session' = [session EXCEPT !.tx = NextSeq(@)], Writes(Poll),
         UNCHANGED <<pump, queued, popped, applied, issued, sent, restarts>>
  PROVE  LinkInv'
<1> DEFINE h == Head(toController)
           last == LastOf(applied)
<1>1. /\ LinkTypes /\ toController # <<>> /\ h \in Frame /\ IsAck(h) /\ h.seq = session.tx
      /\ Shrunk(toController', Tail(toController)) /\ Shrunk(toController', toController)
      /\ toController' \in Seq(Frame)
      /\ Shrunk(toPump, toPump)
  BY ReadsFacts, WriteFacts DEF LinkInv, ConfirmsCommand, IsAck
<1>2. /\ Receiver(session) /\ Receiver(pump) /\ pump.tx \in Seqs /\ session.tx \in Seqs
      /\ toPump \in Seq(Frame) /\ toController \in Seq(Frame)
  BY <1>1, TypeFacts
<1>3. toPump' = Put(toPump, Poll) /\ toPump' \in Seq(Frame)
  BY <1>2, ControlFacts, PutTypes DEF Writes
<1>4. NextSeq(session.tx) \in Seqs
  BY <1>2, NextSeqFacts
<1>5. /\ session' \in Sessions /\ session'.tx = NextSeq(session.tx)
      /\ session'.accepted = session.accepted /\ session'.expected = session.expected
  BY <1>1, <1>4 DEF LinkTypes, Sessions
<1>6. LinkTypes'
  BY <1>1, <1>3, <1>5 DEF LinkTypes
<1>7. h = Head(toController)
  OBVIOUS
<1> HIDE DEF h, last
<1>8. Order(pump, session', popped, last, toController')
  <2>1. Order(pump, session, popped, last, toController)
    BY DEF LinkInv, last
  <2>2. Order(pump, session, popped, last, toController')
    BY <1>1, <1>2, <2>1, OrderShrinks
  <2> QED
    BY <1>5, <2>2, SameStep
<1>9. ASSUME restarts = 0
      PROVE  /\ Relay(pump.tx, session', toController', toPump')
             /\ Relay(session'.tx, pump, toPump', toController')
             /\ Numbered(pump, session', popped, last, toController')
  <2>1. /\ Relay(pump.tx, session, toController, toPump)
        /\ Relay(session.tx, pump, toPump, toController)
        /\ Numbered(pump, session, popped, last, toController)
    BY <1>9 DEF LinkInv, last
  <2>2. Relay(pump.tx, session, toController', Put(toPump, Poll))
    BY <1>1, <1>2, <2>1, RelayMoves, ControlFacts
  <2>3. Relay(pump.tx, session', toController', Put(toPump, Poll))
    BY <1>5, <2>2, SameStep
  <2>4. Relay(NextSeq(session.tx), pump, toPump, toController')
    BY <1>1, <1>2, <1>7, <2>1, RelayConfirmed
  <2>5. Relay(NextSeq(session.tx), pump, Put(toPump, Poll), toController')
    BY <1>1, <1>2, <2>4, RelayMoves, ControlFacts, ShrinksNot
  <2>6. Numbered(pump, session, popped, last, toController')
    BY <1>1, <1>2, <2>1, NumberedShrinks
  <2>7. Numbered(pump, session', popped, last, toController')
    BY <1>5, <2>6, SameStep
  <2> QED
    BY <1>3, <1>5, <2>3, <2>5, <2>7
<1> QED
  BY <1>6, <1>8, <1>9 DEF LinkInv, last

LEMMA CommandAnsweredKeeps ==
  ASSUME LinkInv, CommandAnswered PROVE LinkInv'
<1>1. /\ Reads /\ Writes(Poll)
      /\ UNCHANGED <<pump, queued, popped, applied, issued, sent, restarts>>
  BY DEF CommandAnswered, pumpVars, commandVars
<1>2. CASE ConfirmsCommand(Head(toController))
  BY <1>1, <1>2, SessionIsConfirmed DEF CommandAnswered
<1>3. CASE ~ConfirmsCommand(Head(toController))
  <2>1. UNCHANGED session
    BY <1>3 DEF CommandAnswered
  <2> QED
    BY <1>1, <2>1, ReadsFacts, SessionFacts, SessionStepKeeps DEF Writes
<1> QED
  BY <1>2, <1>3

\* The session applies a payload and acknowledges it.
LEMMA SessionAccepts ==
  ASSUME LinkInv, Reads, IsData(Head(toController)),
         IsFresh(session, Head(toController)),
         session' = [Heard(session) EXCEPT !.accepted = Head(toController).seq,
                                           !.expected = NextSeq(Head(toController).seq)],
         applied' = Append(applied, Head(toController).body),
         Writes(Ack(Head(toController))),
         UNCHANGED <<pump, queued, popped, issued, sent, restarts>>
  PROVE  /\ LinkInv' /\ LastOf(applied) < LastOf(applied')
         /\ LastOf(applied') = Head(toController).body
         /\ restarts = 0 => LastOf(applied') = LastOf(applied) + 1
         /\ LastOf(applied') <= queued
<1> DEFINE h == Head(toController)
           f == Ack(h)
           last == LastOf(applied)
<1>1. /\ LinkTypes /\ toController # <<>> /\ h \in Frame
      /\ Shrunk(toController', Tail(toController))
      /\ toController' \in Seq(Frame) /\ Tail(toController) \in Seq(Frame)
      /\ Shrunk(toPump, toPump)
  BY ReadsFacts, WriteFacts DEF LinkInv
<1>2. /\ Receiver(session) /\ Receiver(pump) /\ pump.tx \in Seqs /\ session.tx \in Seqs
      /\ popped \in Nat /\ queued \in Nat /\ last \in Nat
      /\ toPump \in Seq(Frame) /\ toController \in Seq(Frame)
  BY <1>1, TypeFacts
<1>3. h.seq = session.expected /\ h.seq # session.accepted /\ session.expected \in Seqs
  BY <1>2 DEF IsFresh, Receiver
<1>4. f \in Frame /\ ~IsData(f) /\ f.seq = session.expected
  BY <1>1, <1>3, ControlFacts
<1>5. toPump' = Put(toPump, f) /\ toPump' \in Seq(Frame)
  BY <1>2, <1>4, PutTypes DEF Writes
<1>6. NextSeq(session.expected) \in Seqs
  BY <1>3, NextSeqFacts
<1>7. /\ session' \in Sessions /\ session'.tx = session.tx
      /\ session'.accepted = session.expected
      /\ session'.expected = NextSeq(session.expected)
  <2>1. session \in Sessions
    BY <1>1 DEF LinkTypes
  <2>2. Heard(session) \in Sessions /\ Heard(session).tx = session.tx
    BY <2>1, HealthFacts
  <2> QED
    BY <1>3, <1>6, <2>2 DEF Sessions
<1>8. applied' \in Seq(Nat) /\ LastOf(applied') = h.body
  <2>1. h.body \in Nat /\ applied \in Seq(Nat)
    BY <1>1, FrameFacts DEF LinkTypes
  <2> QED
    BY <2>1, LastOfFacts
<1>9. LinkTypes'
  BY <1>1, <1>5, <1>7, <1>8 DEF LinkTypes
<1>10. h = Head(toController) /\ IsData(h)
  OBVIOUS
<1> HIDE DEF h, f, last
<1>11. Order(pump, session, popped, last, toController)
  BY DEF LinkInv, last
<1>12. last < h.body /\ Order(pump, session', popped, h.body, toController')
  <2>1. last < h.body /\ Order(pump, session', popped, h.body, Tail(toController))
    BY <1>1, <1>2, <1>3, <1>7, <1>10, <1>11, OrderAccepts
  <2> QED
    BY <1>1, <2>1, OrderShrinks
<1>13. h.body <= queued
  <2>1. h.body <= popped /\ popped <= queued
    BY <1>12 DEF Order, LinkInv
  <2>2. h.body \in Nat
    BY <1>1, FrameFacts
  <2> QED
    BY <1>2, <2>1, <2>2
<1>14. ASSUME restarts = 0
       PROVE  /\ h.body = last + 1
              /\ Relay(pump.tx, session', toController', toPump')
              /\ Relay(session.tx, pump, toPump', toController')
              /\ Numbered(pump, session', popped, h.body, toController')
  <2>1. /\ Relay(pump.tx, session, toController, toPump)
        /\ Relay(session.tx, pump, toPump, toController)
        /\ Numbered(pump, session, popped, last, toController)
    BY <1>14 DEF LinkInv, last
  <2>2. Relay(pump.tx, session', toController', Put(toPump, f))
    BY <1>1, <1>2, <1>3, <1>4, <1>7, <1>10, <2>1, RelayAcceptsPut
  <2>3. Shrunk(toController', toController)
    BY ReadsFacts
  <2>4. Relay(session.tx, pump, Put(toPump, f), toController')
    BY <1>1, <1>2, <1>4, <2>1, <2>3, RelayMoves, ControlFacts
  <2> DEFINE s2 == session'
             v == Tail(toController)
  <2>5. /\ toController # <<>> /\ IsData(Head(toController))
        /\ Head(toController).seq = session.expected
        /\ Head(toController).seq # session.accepted
        /\ s2.accepted = session.expected /\ s2.expected = NextSeq(session.expected)
    BY <1>1, <1>3, <1>7, <1>10
  <2> HIDE DEF s2
  <2>6. /\ Head(toController).body = last + 1
        /\ Numbered(pump, s2, popped, last + 1, v)
    BY <1>2, <1>11, <2>1, <2>5, NumberedAccepts, Zenon
  <2>7. h.body = last + 1 /\ Numbered(pump, session', popped, last + 1, Tail(toController))
    BY <1>10, <2>6 DEF s2
  <2>8. Numbered(pump, session', popped, last + 1, toController')
    BY <1>1, <2>7, NumberedShrinks
  <2> QED
    BY <1>5, <2>2, <2>4, <2>7, <2>8
<1>15. LinkInv'
  <2>1. popped <= queued
    BY DEF LinkInv
  <2> QED
    BY <1>7, <1>8, <1>9, <1>12, <1>14, <2>1 DEF LinkInv
<1> QED
  BY <1>8, <1>10, <1>12, <1>13, <1>14, <1>15 DEF last

LEMMA ReceiveDataKeeps ==
  ASSUME LinkInv, ReceiveData PROVE LinkInv'
<1> DEFINE f == Head(toController)
<1>1. /\ Reads /\ IsData(f)
      /\ UNCHANGED <<pump, queued, popped, issued, sent, restarts>>
  BY DEF ReceiveData, pumpVars, commandVars, IsData
<1>2. f \in Frame /\ Shrunk(toController', toController)
  BY <1>1, ReadsFacts
<1>3. CASE /\ IsFresh(session, f)
           /\ session' = [Heard(session) EXCEPT !.accepted = f.seq, !.expected = NextSeq(f.seq)]
           /\ applied' = Append(applied, f.body)
           /\ Writes(Ack(f))
  BY <1>1, <1>3, SessionAccepts
<1>4. CASE IsRepeat(session, f) /\ Writes(Ack(f)) /\ UNCHANGED <<session, applied>>
  <2>1. Ack(f) \in Frame /\ SessionMayWrite(Ack(f))
    BY <1>2, <1>4, ControlFacts DEF SessionMayWrite, IsRepeat
  <2> QED
    BY <1>1, <1>2, <1>4, <2>1, SessionFacts, SessionStepKeeps DEF Writes
<1>5. CASE UNCHANGED <<session, applied, toPump>>
  BY <1>1, <1>2, <1>5, SessionFacts, SessionStepKeeps
<1> QED
  BY <1>3, <1>4, <1>5 DEF ReceiveData

-----------------------------------------------------------------------------
(* The medium and the interruptions of the pump. *)

LEMMA WireStepKeeps ==
  ASSUME LinkInv,
         UNCHANGED <<pump, queued, popped, session, applied, issued, sent, restarts>>,
         UNCHANGED toPump \/ Shrunk(toPump', toPump),
         UNCHANGED toController \/ Shrunk(toController', toController)
  PROVE  LinkInv'
<1>1. LinkTypes
  BY DEF LinkInv
<1>2. Shrunk(toPump', toPump) /\ Shrunk(toController', toController)
  BY <1>1, WriteFacts
<1>3. LinkTypes'
  BY <1>1, <1>2, ShrunkTypes DEF LinkTypes
<1>4. WiresMove
  BY <1>2 DEF WiresMove
<1> QED
  BY <1>1, <1>3, <1>4, QuietStep, PumpVarsKept, SessionVarsKept

LEMMA LoseFrameKeeps ==
  ASSUME LinkInv, LoseFrame PROVE LinkInv'
BY WriteFacts, WireStepKeeps DEF LinkInv, LoseFrame, pumpVars, sessionVars, commandVars

LEMMA DamageFrameKeeps ==
  ASSUME LinkInv, DamageFrame PROVE LinkInv'
BY TypeFacts, DamageShrinks, WireStepKeeps
   DEF LinkInv, DamageFrame, CarriesData, pumpVars, sessionVars, commandVars

\* The pump forgets its payloads; while restarts > 0 nothing is said of the TX#s.
LEMMA PumpForgets ==
  ASSUME LinkInv, pump' \in Pumps, pump'.awaiting = None, popped' = queued,
         restarts' = restarts + 1,
         UNCHANGED <<queued, session, applied, issued, sent, toPump, toController>>
  PROVE  LinkInv'
<1>1. /\ LinkTypes /\ popped \in Nat /\ queued \in Nat /\ restarts \in Nat
      /\ LastOf(applied) \in Nat /\ popped <= queued /\ toController \in Seq(Frame)
  BY TypeFacts DEF LinkInv
<1>2. LinkTypes'
  BY <1>1 DEF LinkTypes
<1>3. Order(pump, session, popped, LastOf(applied), toController)
  BY DEF LinkInv
<1>4. Order(pump', session, queued, LastOf(applied), toController)
  BY <1>1, <1>3, OrderForgets
<1>5. restarts' # 0 /\ queued <= queued
  BY <1>1
<1> QED
  BY <1>2, <1>4, <1>5 DEF LinkInv

LEMMA RestartPumpKeeps ==
  ASSUME LinkInv, RestartPump PROVE LinkInv'
<1>1. 0 \in Seqs /\ pump.enabled \in BOOLEAN
  BY LinkAssumption DEF LinkAssumption, Seqs, LinkInv, LinkTypes, Pumps
<1>2. NewPump \in Pumps /\ NewPump.awaiting = None
  BY <1>1 DEF NewPump, Pumps
<1>3. pump' \in Pumps /\ pump'.awaiting = None
  BY <1>1, <1>2 DEF Pumps, RestartPump
<1> QED
  BY <1>3, PumpForgets DEF RestartPump, Interrupts, sessionVars, commandVars, wireVars

LEMMA DisableCommunicationKeeps ==
  ASSUME LinkInv, DisableCommunication PROVE LinkInv'
<1>1. pump' \in Pumps /\ pump'.awaiting = None
  BY DEF LinkInv, LinkTypes, Pumps, DisableCommunication
<1> QED
  BY <1>1, PumpForgets DEF DisableCommunication, Interrupts, sessionVars, commandVars, wireVars

LEMMA EnableCommunicationKeeps ==
  ASSUME LinkInv, EnableCommunication PROVE LinkInv'
<1>1. /\ pump' \in Pumps
      /\ pump'.tx = pump.tx /\ pump'.awaiting = pump.awaiting
      /\ pump'.accepted = pump.accepted /\ pump'.expected = pump.expected
  BY DEF LinkInv, LinkTypes, Pumps, EnableCommunication
<1>2. LinkTypes /\ queued <= queued
  BY TypeFacts DEF LinkInv
<1>3. LinkTypes'
  BY <1>1, <1>2 DEF LinkTypes, EnableCommunication, sessionVars, commandVars, wireVars
<1>4. PumpKeepsStep
  BY <1>1, <1>2 DEF PumpKeepsStep, EnableCommunication
<1>5. WiresMove
  BY <1>2, WriteFacts DEF WiresMove, EnableCommunication, wireVars
<1> QED
  BY <1>3, <1>4, <1>5, QuietStep, SessionVarsKept DEF EnableCommunication, sessionVars

-----------------------------------------------------------------------------
(* The invariant. *)

LEMMA InitLink == Init => LinkInv
<1> SUFFICES ASSUME Init PROVE LinkInv
  OBVIOUS
<1>1. 0 \in Seqs /\ 0 \in Nat /\ <<>> \in Seq(Nat) /\ <<>> \in Seq(Frame)
  BY LinkAssumption DEF LinkAssumption, Seqs
<1>2. LinkTypes
  BY <1>1 DEF Init, NewPump, LinkTypes, Pumps, Sessions
<1>3. LastOf(applied) = 0 /\ popped = 0 /\ queued = 0
  BY DEF Init, LastOf
<1>4. /\ DOMAIN toController = {} /\ DOMAIN toPump = {}
  BY DEF Init
<1>5. /\ pump.tx = 0 /\ pump.awaiting = None /\ pump.accepted = None /\ pump.expected = 0
      /\ session.tx = 0 /\ session.accepted = None /\ session.expected = 0
  BY DEF Init, NewPump
<1>6. Order(pump, session, popped, LastOf(applied), toController)
  BY <1>3, <1>4, <1>5 DEF Order
<1>7. /\ Relay(pump.tx, session, toController, toPump)
      /\ Relay(session.tx, pump, toPump, toController)
  BY <1>4, <1>5 DEF Relay, Underway
<1>8. Numbered(pump, session, popped, LastOf(applied), toController)
  BY <1>3, <1>4, <1>5 DEF Numbered
<1> QED
  BY <1>2, <1>3, <1>6, <1>7, <1>8 DEF LinkInv

LEMMA LinkStep == LinkInv /\ [Next]_vars => LinkInv'
<1> SUFFICES ASSUME LinkInv, [Next]_vars PROVE LinkInv'
  OBVIOUS
<1>1. CASE PumpStep
  BY <1>1, QueuePayloadKeeps, PumpAnswersPollKeeps, PumpTakesCommandKeeps, PumpTakesAckKeeps
     DEF PumpStep
<1>2. CASE ControllerStep
  BY <1>2, EnqueueCommandKeeps, StartCycleKeeps, SendCommandKeeps, CommandAnsweredKeeps,
     CommandTimedOutKeeps, ReceiveDataKeeps, ReceiveControlKeeps, ResponseTimedOutKeeps
     DEF ControllerStep
<1>3. CASE LoseFrame \/ DamageFrame
  BY <1>3, LoseFrameKeeps, DamageFrameKeeps
<1>4. CASE Interruption
  BY <1>4, RestartPumpKeeps, DisableCommunicationKeeps, EnableCommunicationKeeps,
     PumpIsDeafKeeps DEF Interruption
<1>5. CASE UNCHANGED vars
  BY <1>5, WireStepKeeps DEF vars, pumpVars, sessionVars, commandVars, wireVars
<1> QED
  BY <1>1, <1>2, <1>3, <1>4, <1>5 DEF Next

\* The line as a whole: for each direction, whether its DATA or its ACK is the
\* one under way, what may still be on the wire behind it, and which payload
\* each frame carries (SimulatorSession and PumpSession with the medium).
THEOREM LinkInvariant == Spec => []LinkInv
<1> QED
  BY InitLink, LinkStep, PTL DEF Spec

\* No undamaged DATA is ever refused for its TX# while the pump is not
\* interrupted: what is on the wire carries the TX# accepted last or the one
\* expected (the mismatch branches of PumpSession._on_data and of
\* SimulatorSession are never taken).
THEOREM LineStaysInStep == Spec => []NeverOutOfStep
<1>1. LinkInv => NeverOutOfStep
  <2>1. ASSUME NEW tx, NEW r, NEW out, NEW back, Relay(tx, r, out, back)
        PROVE  \A i \in DOMAIN out : IsData(out[i]) => out[i].seq \in {r.accepted, r.expected}
    BY <2>1 DEF Relay, Underway, Arrived
  <2> QED
    BY <2>1 DEF LinkInv, NeverOutOfStep, IsData
<1> QED
  BY <1>1, LinkInvariant, PTL

\* What the session acknowledges without applying it is the payload it applied
\* last (PumpSession._on_data, "Duplicate DATA: ACK, do not re-apply").
THEOREM RepeatsWereApplied == Spec => []DroppedDataWasApplied
<1>1. LinkInv => DroppedDataWasApplied
  <2> SUFFICES ASSUME LinkInv, restarts = 0, CarriesData(toController),
                      IsRepeat(session, Head(toController))
               PROVE  Head(toController).body \in Carried(applied)
    BY DEF DroppedDataWasApplied
  <2> DEFINE h == Head(toController)
  <2>1. /\ toController \in Seq(Frame) /\ toController # <<>> /\ LastOf(applied) \in Nat
        /\ applied \in Seq(Nat)
    BY TypeFacts DEF LinkInv, LinkTypes, CarriesData
  <2>2. 1 \in DOMAIN toController /\ h = toController[1]
    BY <2>1, TailMoves
  <2>3. IsData(h) /\ h.seq = session.accepted
    BY DEF CarriesData, IsRepeat, IsData
  <2> HIDE DEF h
  <2>4. h.body > 0 /\ h.body = LastOf(applied)
    BY <2>2, <2>3 DEF LinkInv, Order, Numbered
  <2>5. applied # <<>>
    BY <2>4 DEF LastOf
  <2>6. Len(applied) \in DOMAIN applied /\ LastOf(applied) = applied[Len(applied)]
    BY <2>1, <2>5 DEF LastOf
  <2>7. h.body \in Carried(applied)
    BY <2>4, <2>6 DEF Carried
  <2> QED
    BY <2>7 DEF h
<1> QED
  BY <1>1, LinkInvariant, PTL

-----------------------------------------------------------------------------
(* The line implements ReliableDelivery. *)

LEMMA DeliveryLast == Delivery!LastApplied = LastOf(applied)
BY DEF Delivery!LastApplied, LastOf

\* Only these steps are seen through the abstract specification.
LEMMA VisibleSteps ==
  ASSUME [Next]_vars
  PROVE  \/ QueuePayload
         \/ ReceiveData
         \/ /\ UNCHANGED <<queued, applied>>
            /\ UNCHANGED restarts \/ restarts' = restarts + 1
<1>1. CASE PumpAnswersPoll \/ PumpTakesCommand \/ PumpTakesAck \/ PumpIsDeaf
  BY <1>1 DEF PumpAnswersPoll, PumpTakesCommand, PumpTakesAck, PumpIsDeaf, Receives, sessionVars
<1>2. CASE EnqueueCommand \/ StartCycle \/ SendCommand \/ CommandAnswered \/ CommandTimedOut
  BY <1>2 DEF EnqueueCommand, StartCycle, SendCommand, CommandAnswered, CommandTimedOut,
              pumpVars, sessionVars
<1>3. CASE ReceiveControl \/ ResponseTimedOut \/ LoseFrame \/ DamageFrame
  BY <1>3 DEF ReceiveControl, ResponseTimedOut, LoseFrame, DamageFrame, pumpVars, sessionVars
<1>4. CASE RestartPump \/ DisableCommunication \/ EnableCommunication
  BY <1>4 DEF RestartPump, DisableCommunication, EnableCommunication, Interrupts, sessionVars
<1>5. CASE UNCHANGED vars
  BY <1>5 DEF vars, pumpVars, sessionVars
<1> QED
  BY <1>1, <1>2, <1>3, <1>4, <1>5 DEF Next, PumpStep, ControllerStep, Interruption

LEMMA ReceiveDataDelivers ==
  ASSUME LinkInv, ReceiveData
  PROVE  \/ UNCHANGED <<queued, applied, restarts>>
         \/ \E n \in LastOf(applied) + 1 .. queued :
              /\ n = LastOf(applied) + 1 \/ restarts > 0
              /\ applied' = Append(applied, n)
              /\ UNCHANGED <<queued, restarts>>
<1> DEFINE f == Head(toController)
           last == LastOf(applied)
<1>1. /\ Reads /\ IsData(f)
      /\ UNCHANGED <<pump, queued, popped, issued, sent, restarts>>
  BY DEF ReceiveData, pumpVars, commandVars, IsData
<1>2. CASE /\ IsFresh(session, f)
           /\ session' = [Heard(session) EXCEPT !.accepted = f.seq, !.expected = NextSeq(f.seq)]
           /\ applied' = Append(applied, f.body)
           /\ Writes(Ack(f))
  <2>1. /\ last < f.body /\ f.body <= queued
        /\ restarts = 0 => f.body = last + 1
    <3>1. /\ last < LastOf(applied') /\ LastOf(applied') = f.body
          /\ restarts = 0 => LastOf(applied') = last + 1
          /\ LastOf(applied') <= queued
      BY <1>1, <1>2, SessionAccepts
    <3> QED
      BY <3>1
  <2>2. f.body \in Nat /\ last \in Nat /\ queued \in Nat /\ restarts \in Nat
    BY <1>1, ReadsFacts, FrameFacts, TypeFacts DEF LinkInv
  <2> HIDE DEF f, last
  <2>3. f.body \in last + 1 .. queued /\ (f.body = last + 1 \/ restarts > 0)
    BY <2>1, <2>2
  <2> QED
    BY <1>1, <1>2, <2>3 DEF last
<1>3. CASE UNCHANGED applied
  BY <1>1, <1>3
<1> QED
  BY <1>2, <1>3 DEF ReceiveData

LEMMA DeliveryStep ==
  LinkInv /\ [Next]_vars
    => (Delivery!Next \/ UNCHANGED <<queued, applied, restarts > 0>>)
<1> SUFFICES ASSUME LinkInv, [Next]_vars
             PROVE  Delivery!Next \/ UNCHANGED <<queued, applied, restarts > 0>>
  OBVIOUS
<1>1. restarts \in Nat
  BY TypeFacts DEF LinkInv
<1>2. CASE QueuePayload
  BY <1>2 DEF QueuePayload, sessionVars, Delivery!Next, Delivery!Queue
<1>3. CASE ReceiveData
  <2>1. CASE UNCHANGED <<queued, applied, restarts>>
    BY <2>1
  <2>2. ASSUME NEW n \in LastOf(applied) + 1 .. queued,
               n = LastOf(applied) + 1 \/ restarts > 0,
               applied' = Append(applied, n),
               UNCHANGED <<queued, restarts>>
        PROVE  Delivery!Next
    <3>1. n \in Delivery!LastApplied + 1 .. queued
      BY DeliveryLast
    <3>2. Delivery!Deliver(n)
      BY <2>2, DeliveryLast DEF Delivery!Deliver
    <3> QED
      BY <3>1, <3>2 DEF Delivery!Next
  <2> QED
    BY <1>3, <2>1, <2>2, ReceiveDataDelivers
<1>4. CASE UNCHANGED <<queued, applied, restarts>>
  BY <1>4
<1>5. CASE UNCHANGED <<queued, applied>> /\ restarts' = restarts + 1
  <2>1. (restarts > 0)' = TRUE
    BY <1>1, <1>5
  <2> QED
    BY <1>5, <2>1 DEF Delivery!Next, Delivery!Interrupt
<1> QED
  BY <1>2, <1>3, <1>4, <1>5, VisibleSteps

\* The whole line, with its polling, retries, lost, damaged and late frames and
\* the commands that share it, delivers a pump's payloads as ReliableDelivery
\* promises (pump_session.py, simulator/session.py, controller_loop.py).
THEOREM LineIsReliable == Spec => DeliveryIsReliable
<1>1. Init => Delivery!Init
  <2> SUFFICES ASSUME Init PROVE Delivery!Init
    OBVIOUS
  <2>1. (restarts > 0) = FALSE
    BY DEF Init
  <2> QED
    BY <2>1 DEF Init, Delivery!Init
<1>2. LinkInv /\ [Next]_vars => [Delivery!Next]_<<queued, applied, restarts > 0>>
  BY DeliveryStep
<1> QED
  BY <1>1, <1>2, LinkInvariant, PTL DEF Spec, DeliveryIsReliable, Delivery!Spec

=============================================================================
