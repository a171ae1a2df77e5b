---------------------------- MODULE MCFrameStream ---------------------------
(* Model checking of FrameStream, with the CRC of protocol/dart/line/crc.py. *)
EXTENDS FrameStream, Bitwise
LOCAL INSTANCE SequencesExt

\* One round of _crc16_lsb_first with the polynomial 0xA001.
CrcRound(crc) == IF crc % 2 = 1 THEN (crc \div 2) ^^ 40961 ELSE crc \div 2

CrcOfByte == [b \in Byte |-> FoldLeft(LAMBDA crc, i : CrcRound(crc), b, <<1, 2, 3, 4, 5, 6, 7, 8>>)]

\* The rounds are linear: those of a byte are taken from the table.
Crc16(data) ==
  FoldLeft(LAMBDA crc, b : (crc \div 256) ^^ CrcOfByte[(crc ^^ b) % 256], 0, data)

CrcBytes(data) == <<Crc16(data) % 256, Crc16(data) \div 256>>

Meaning(transactions, trailing) == [transactions |-> transactions, trailing |-> trailing]

\* One transaction, and its meaning.
One(bytes, type, status, body) ==
  <<bytes, Meaning(<<Decoded(type, status, body)>>, <<>>)>>

Status == One(EncodeDC1(5), "AMBIGUOUS_CD1_OR_DC1", "PARTIAL", <<5>>)

Nozzle(price, nozzle, out) ==
  One(EncodeDC3(price, nozzle, out), "DC3_NOZZLE_STATUS_PRICE", "PARTIAL", <<price, nozzle, out>>)

Sale(volume, amount) ==
  One(EncodeDC2(volume, amount), "DC2_FILLED_VOLUME_AMOUNT", "DECODED", <<volume, amount>>)

\* An alarm whose code is SF.
Alarm == One(EncodeDC5(SF), "DC5_ALARM", "DECODED", <<SF>>)

Totals ==
  One(EncodeDC101(1, 90817263, 1020, 0), "DC101_TOTAL_COUNTERS", "DECODED",
      <<1, 90817263, 1020, 0>>)

NoPrice == One(<<3, 4, SF, 10, 0, 1>>, "DC3_NOZZLE_STATUS_PRICE", "MALFORMED", <<>>)

Prices == One(<<5, 6, 0, 23, 153, 0, 24, 1>>, "CD5_PRICE_UPDATE", "DECODED", <<1799, 1801>>)

Request == One(<<101, 1, 1>>, "CD101_REQUEST_TOTALS", "DECODED", <<1>>)

\* Several transactions in one block, one of them unknown, and bytes that are none.
Several ==
  <<EncodeDC9(<<1, SF>>) \o Status[1] \o Alarm[1] \o <<2, 8, 0>>,
    Meaning(<<DecodeUnknown>> \o Status[2].transactions \o Alarm[2].transactions,
            <<2, 8, 0>>)>>

\* The amount 2436.10 ends in 10 and the CRC 0x22FA begins with FA when the TX# is
\* 2: on the wire 10 10 FA.
HiddenEscape == Sale(14330, 243610)

\* Every kind of transaction in the first frame, short ones in the others.
VariedBlocks(n) ==
  IF n = 1 THEN {Status, Nozzle(1799, 2, TRUE), Sale(9999, 20000), Alarm, Totals, NoPrice,
                 Prices, Request, Several}
  ELSE IF n = 2 THEN {Nozzle(1799, 2, FALSE), Alarm, HiddenEscape}
  ELSE {Alarm}

=============================================================================
