----------------------------- MODULE DartFrames -----------------------------
(***************************************************************************)
(* The bytes of the line (protocol/dart/line): control bytes, DLE          *)
(* transparency, and the frames that are built and parsed.  A frame on the *)
(* wire is its escaped buffer followed by SF.                              *)
(***************************************************************************)
EXTENDS Integers, Sequences
LOCAL INSTANCE SequencesExt

CONSTANTS
  None,            \* Python's None
  Crc(_),          \* the CRC of some bytes, as <<CRC-1, CRC-2>>
  MaxBufferSize    \* MAX_BUFFER_SIZE

Byte == 0..255

ETX == 3
DLE == 16
SF == 250

-----------------------------------------------------------------------------
(* Control bytes. *)

ControlBase ==
  [POLL |-> 32, DATA |-> 48, IAP |-> 64, NAK |-> 80, EOT |-> 112, ACK |-> 192,
   ACKPOLL |-> 224]

\* POLL and IAP are fixed values, the others carry a TX#.
Sequenced == DOMAIN ControlBase \ {"POLL", "IAP"}

ComposeControl(type, sequence) == ControlBase[type] + sequence

ExtractSequence(control) == control % 16

ClassifyControl(control) ==
  LET family == {t \in DOMAIN ControlBase :
                   \/ control = ControlBase[t]
                   \/ t \in Sequenced /\ control - ExtractSequence(control) = ControlBase[t]}
  IN IF family = {} THEN "UNKNOWN" ELSE CHOOSE t \in family : TRUE

-----------------------------------------------------------------------------
(* Transparency. *)

EscapeDle(data) ==
  FoldLeft(LAMBDA out, b : out \o (IF b = SF THEN <<DLE, b>> ELSE <<b>>), <<>>, data)

\* The DLE at i stands before an SF and is not data.
IsEscape(data, i) == data[i] = DLE /\ i < Len(data) /\ data[i + 1] = SF

IsMalformed(data) ==
  \/ Len(data) > 0 /\ data[Len(data)] = DLE
  \/ \E i \in DOMAIN data : data[i] = SF /\ ~(i > 1 /\ IsEscape(data, i - 1))

UnescapeDle(data) ==
  FoldLeftDomain(LAMBDA out, i : IF IsEscape(data, i) THEN out ELSE Append(out, data[i]),
                 <<>>, data)

-----------------------------------------------------------------------------
(* Building. *)

BuildControlFrame(address, type, sequence) ==
  Append(EscapeDle(<<address, ComposeControl(type, sequence)>>), SF)

\* The buffer of a DATA frame, before escaping.
DataBuffer(address, sequence, payload) ==
  LET protected == <<address, ComposeControl("DATA", sequence)>> \o payload IN
  protected \o Crc(protected) \o <<ETX>>

\* FrameBuildError otherwise.
IsBuildable(address, sequence, payload) ==
  Len(DataBuffer(address, sequence, payload)) <= MaxBufferSize

BuildDataFrame(address, sequence, payload) ==
  Append(EscapeDle(DataBuffer(address, sequence, payload)), SF)

-----------------------------------------------------------------------------
(* Parsing. *)

\* The code of the ParseError for raw, or None.
ParseError(raw) ==
  LET n == Len(raw)
      wireBody == SubSeq(raw, 1, n - 1)
      buffer == UnescapeDle(wireBody)
      size == Len(buffer)
  IN IF n < 3 THEN "TOO_SHORT"
     ELSE IF raw[n] # SF THEN "MISSING_SF"
     ELSE IF raw[n - 1] = DLE THEN "INVALID_TERMINATOR"
     ELSE IF IsMalformed(wireBody) THEN "MALFORMED_DLE"
     ELSE IF size > MaxBufferSize THEN "BUFFER_TOO_LARGE"
     ELSE IF size < 2 THEN "TOO_SHORT"
     ELSE IF size = 2 /\ ClassifyControl(buffer[2]) = "DATA" THEN "TOO_SHORT_DATA"
     ELSE IF size \in 3..4 THEN "TOO_SHORT_DATA"
     ELSE IF size > 4 /\ buffer[size] # ETX THEN "MISSING_ETX"
     ELSE None

Frame(buffer, payload, crcValid) ==
  [address |-> buffer[1], type |-> ClassifyControl(buffer[2]),
   sequence |-> ExtractSequence(buffer[2]), payload |-> payload, crc_valid |-> crcValid]

\* Mutant of CrcMatches: only CRC-1 is compared.
CrcMatchesLowByte(buffer) ==
  LET n == Len(buffer) IN Crc(SubSeq(buffer, 1, n - 3))[1] = buffer[n - 2]

CrcMatches(buffer) ==
  LET n == Len(buffer) IN Crc(SubSeq(buffer, 1, n - 3)) = SubSeq(buffer, n - 2, n - 1)

\* The frame of a raw that has no ParseError.
ParsedFrame(raw) ==
  LET buffer == UnescapeDle(SubSeq(raw, 1, Len(raw) - 1))
      n == Len(buffer)
  IN IF n = 2 THEN Frame(buffer, <<>>, None)
     ELSE Frame(buffer, SubSeq(buffer, 3, n - 3), CrcMatches(buffer))

=============================================================================
