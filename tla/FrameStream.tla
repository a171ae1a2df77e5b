----------------------------- MODULE FrameStream ----------------------------
(***************************************************************************)
(* The bytes of one line, from the frames a pump builds through a medium   *)
(* that damages some of them to FrameStreamAssembler                       *)
(* (protocol/dart/line/stream.py), which has to find the frames again, and *)
(* the decoding of what it finds.                                          *)
(*                                                                         *)
(* feed takes its bytes one by one and keeps nothing between the chunks    *)
(* but the assembler's fields, so a step is one byte.  The medium is idle  *)
(* when a frame is sent: what it still carries would only be fed later.    *)
(***************************************************************************)
EXTENDS DartFrames, WayneCodec
LOCAL INSTANCE SequencesExt

CONSTANTS
  Address,         \* of the pump
  Blocks(_),       \* what may be in the n-th frame: <<payload, what it means>>
  MaxBuffer,       \* max_buffer of the assembler
  Noise,           \* the bytes that noise puts on the line
  MaxFrames,       \* bound: frames sent
  MaxDamages       \* bound: frames damaged

VARIABLES
  wire,            \* bytes not yet fed to the assembler
  assembler,       \* its _buf and _after_dle
  event,           \* the event _feed_byte returned last, or None
  sent,            \* history: the frames sent, and whether they were left intact
  heard,           \* history: the numbers of the frames that were assembled
  damages          \* history: how many frames were damaged

vars == <<wire, assembler, event, sent, heard, damages>>

ASSUME StreamAssumption ==
  /\ MaxBuffer \in Nat /\ MaxBuffer >= 3
  /\ MaxFrames \in 0..15 /\ MaxDamages \in Nat
  /\ \A n \in 1..MaxFrames : \A block \in Blocks(n) : IsBuildable(Address, n, block[1])

-----------------------------------------------------------------------------
(* The assembler. *)

Cleared == [buf |-> <<>>, after_dle |-> FALSE]

Event(kind, raw, error) == [kind |-> kind, raw |-> raw, error |-> error]

Quiet(a) == [assembler |-> a, event |-> None]

\* pending_size
PendingSize(a) == Len(a.buf) + IF a.after_dle THEN 1 ELSE 0

Reset(a) == Cleared

\* _check_overflow
Checked(a) ==
  IF PendingSize(a) <= MaxBuffer THEN Quiet(a)
  ELSE [assembler |-> Reset(a), event |-> Event("OVERFLOW", a.buf, None)]

\* An SF that is not escaped ends a candidate.
Candidate(raw) ==
  [assembler |-> Cleared,
   event |-> IF Len(raw) < 3 THEN Event("NOISE", raw, None)
             ELSE IF ParseError(raw) # None THEN Event("REJECTED", raw, ParseError(raw))
             ELSE Event("FRAME", raw, None)]

\* Mutant of FeedByte: the DLE is dropped when it is seen.
FeedByteUnescaping(a, byte) ==
  IF a.after_dle THEN Checked([buf |-> Append(a.buf, byte), after_dle |-> FALSE])
  ELSE IF byte = DLE THEN Checked([a EXCEPT !.after_dle = TRUE])
  ELSE IF byte = SF THEN Candidate(Append(a.buf, byte))
  ELSE Checked([a EXCEPT !.buf = Append(@, byte)])

\* Mutant of FeedByte: after a DLE every byte is data until the next SF.
FeedByteKeepingDle(a, byte) ==
  IF a.after_dle THEN Checked([buf |-> Append(a.buf, byte), after_dle |-> byte # SF])
  ELSE IF byte = DLE THEN Checked([buf |-> Append(a.buf, byte), after_dle |-> TRUE])
  ELSE IF byte = SF THEN Candidate(Append(a.buf, byte))
  ELSE Checked([a EXCEPT !.buf = Append(@, byte)])

\* _feed_byte: the byte after a DLE is taken whatever it is.
FeedByte(a, byte) ==
  IF a.after_dle THEN Checked([buf |-> Append(a.buf, byte), after_dle |-> FALSE])
  ELSE IF byte = DLE THEN Checked([buf |-> Append(a.buf, byte), after_dle |-> TRUE])
  ELSE IF byte = SF THEN Candidate(Append(a.buf, byte))
  ELSE Checked([a EXCEPT !.buf = Append(@, byte)])

-----------------------------------------------------------------------------

Init ==
  /\ wire = <<>>
  /\ assembler = Cleared /\ event = None
  /\ sent = <<>> /\ heard = {} /\ damages = 0

\* One byte of the frame is lost, changed, or comes on top.
Damaged(raw) ==
  {RemoveAt(raw, i) : i \in DOMAIN raw}
    \union {ReplaceAt(raw, i, b) : i \in DOMAIN raw, b \in Noise}
    \union {InsertAt(raw, i, b) : i \in DOMAIN raw, b \in Noise}

Sends(raw, meaning) ==
  /\ wire = <<>>
  /\ \/ /\ wire' = raw
        /\ sent' = Append(sent, [raw |-> raw, meaning |-> meaning, intact |-> TRUE])
        /\ UNCHANGED damages
     \/ /\ damages < MaxDamages /\ damages' = damages + 1
        /\ wire' \in Damaged(raw) \ {raw}
        /\ sent' = Append(sent, [raw |-> raw, meaning |-> meaning, intact |-> FALSE])
  /\ event' = None
  /\ UNCHANGED <<assembler, heard>>

\* A POLL is answered with DATA, or with EOT.
SendData ==
  LET n == Len(sent) + 1 IN
  n <= MaxFrames /\ \E block \in Blocks(n) : Sends(BuildDataFrame(Address, n, block[1]), block[2])

SendEot == Len(sent) < MaxFrames /\ Sends(BuildControlFrame(Address, "EOT", Len(sent) + 1), <<>>)

\* The numbers of the frames with these bytes: TX#s make them different.
NumbersOf(raw) == {k \in DOMAIN sent : sent[k].raw = raw}

Receive ==
  LET fed == FeedByte(assembler, Head(wire)) IN
  /\ wire # <<>>
  /\ wire' = Tail(wire)
  /\ assembler' = fed.assembler
  /\ event' = fed.event
  /\ heard' = IF fed.event # None /\ fed.event.kind = "FRAME"
              THEN heard \union NumbersOf(fed.event.raw)
              ELSE heard
  /\ UNCHANGED <<sent, damages>>

Next == SendData \/ SendEot \/ Receive

Spec == Init /\ [][Next]_vars

-----------------------------------------------------------------------------
(* Properties *)

\* A frame was assembled in the last step.
Assembled == event # None /\ event.kind = "FRAME"

\* A DLE that is data stands before an escaped SF: it is not escaped itself
\* (escaping.py), so that the assembler takes the escape for data and the SF
\* for the end of the frame.
HidesEscape(raw) ==
  \E i \in 3..Len(raw) : SubSeq(raw, i - 2, i) = <<DLE, DLE, SF>>

\* Damage costs the damaged frame and at most the one after it: whatever is
\* lost, changed or added, escapes and overflows included, an intact frame that
\* follows an intact frame is assembled.  A frame that hides an escape is lost
\* undamaged, and costs no other.
StreamResynchronizes ==
  wire = <<>> =>
    \A k \in DOMAIN sent :
      /\ sent[k].intact /\ ~HidesEscape(sent[k].raw)
      /\ k = 1 \/ sent[k - 1].intact
      => k \in heard

\* A DATA frame whose CRC is valid says what a frame that was sent says: frames
\* torn apart or glued together by the noise do not pass for one.
ValidDataWasSent ==
  Assembled /\ ParsedFrame(event.raw).crc_valid = TRUE =>
    \E k \in DOMAIN sent : ParsedFrame(event.raw) = ParsedFrame(sent[k].raw)

\* The transactions the controller decodes from a frame are those the pump
\* encoded: escaping, CRC, split, BCD and dispatch undo each other, and bytes
\* that are no transaction are kept.
ReportsAreUnderstood ==
  Assembled =>
    \A k \in NumbersOf(event.raw) :
      sent[k].meaning # <<>> =>
        DecodeDataPayload(ParsedFrame(event.raw).payload) = sent[k].meaning

\* "Rejected/noise bytes are preserved on events (no silent loss)": each byte
\* is in the buffer or in the event its step returned, in the order of the wire.
NoByteIsLost ==
  [][wire # <<>> =>
       Append(assembler.buf, Head(wire)) =
         (IF event' = None THEN <<>> ELSE event'.raw) \o assembler'.buf]_vars

=============================================================================
