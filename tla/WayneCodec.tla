----------------------------- MODULE WayneCodec -----------------------------
(***************************************************************************)
(* The application bytes inside a DATA payload: the transactions the       *)
(* simulated pump encodes (simulator/encoding.py) and the controller       *)
(* splits and decodes (protocol/dart/application).  Warnings, decimals and *)
(* the alternative readings a decoder notes are left out.                  *)
(***************************************************************************)
EXTENDS Integers, Sequences
LOCAL INSTANCE SequencesExt

LOCAL Rest(s, n) == SubSeq(s, n, Len(s))

-----------------------------------------------------------------------------
(* Packed BCD. *)

\* The value has at most two digits to a byte; BcdError otherwise.
FitsBcd(value, length) == value \div 100 ^ (length - 1) <= 99

EncodePackedBcd(value, length) ==
  CASE FitsBcd(value, length) ->
    [i \in 1..length |->
       LET pair == (value \div 100 ^ (length - i)) % 100 IN 16 * (pair \div 10) + (pair % 10)]

\* BcdError otherwise.
IsPackedBcd(data) ==
  data # <<>> /\ \A i \in DOMAIN data : data[i] \div 16 <= 9 /\ data[i] % 16 <= 9

DecodePackedBcd(data) ==
  FoldLeft(LAMBDA value, b : 100 * value + 10 * (b \div 16) + (b % 16), 0, data)

-----------------------------------------------------------------------------
(* Encoders. *)

Tx(trans, data) == <<trans, Len(data)>> \o data

EncodeDC1(status) == Tx(1, <<status % 256>>)
EncodeDC2(volume, amount) == Tx(2, EncodePackedBcd(volume, 4) \o EncodePackedBcd(amount, 4))
EncodeDC3(price, nozzle, out) ==
  Tx(3, Append(EncodePackedBcd(price, 3), (nozzle % 16) + (IF out THEN 16 ELSE 0)))
EncodeDC5(alarm) == Tx(5, <<alarm % 256>>)
EncodeDC101(counter, value, meter1, meter2) ==
  Tx(101, <<counter % 256>> \o EncodePackedBcd(value, 5) \o EncodePackedBcd(meter1, 5)
                            \o EncodePackedBcd(meter2, 5))

\* Sixteen bytes of the identity at most, filled up to eight.
EncodeDC9(identity) ==
  LET n == IF Len(identity) > 16 THEN 16 ELSE IF Len(identity) < 8 THEN 8 ELSE Len(identity)
  IN Tx(9, [i \in 1..n |-> IF i <= Len(identity) THEN identity[i] ELSE 0])

-----------------------------------------------------------------------------
(* Splitting. *)

\* A header at i, with all of its data.
IsWhole(payload, i) ==
  /\ i + 1 <= Len(payload)
  /\ i + 1 + payload[i + 1] <= Len(payload)

\* The transactions of the payload, and the bytes that form none.
SplitTransactions(payload) ==
  LET from[i \in 1..Len(payload) + 1] ==
        IF IsWhole(payload, i)
        THEN LET end == i + 1 + payload[i + 1] IN
             [from[end + 1] EXCEPT
                !.transactions =
                  <<[id |-> payload[i], data |-> SubSeq(payload, i + 2, end)]>> \o @]
        ELSE [transactions |-> <<>>, trailing |-> Rest(payload, i)]
  IN from[1]

-----------------------------------------------------------------------------
(* Decoding. *)

Decoded(type, status, body) == [type |-> type, status |-> status, body |-> body]

\* A decoder whose BCD fields raise BcdError.
Malformed(type) == Decoded(type, "MALFORMED", <<>>)

DecodeUnknown == Decoded("UNKNOWN", "UNKNOWN", <<>>)

\* A pump status or a command: the direction tells, and is not on the wire.
DecodeAmbiguous01(d) == Decoded("AMBIGUOUS_CD1_OR_DC1", "PARTIAL", <<d[1]>>)

DecodeDC2(d) ==
  IF IsPackedBcd(d)
  THEN Decoded("DC2_FILLED_VOLUME_AMOUNT", "DECODED",
               <<DecodePackedBcd(SubSeq(d, 1, 4)), DecodePackedBcd(SubSeq(d, 5, 8))>>)
  ELSE Malformed("DC2_FILLED_VOLUME_AMOUNT")

\* Mutant of NozzleOut: the flag is looked for in the lowest bit.
NozzleOutLowBit(nozio) == nozio % 2 = 1

\* NOZIO & 0x10
NozzleOut(nozio) == (nozio \div 16) % 2 = 1

\* Price, selected nozzle, nozzle out.
DecodeDC3(d) ==
  LET price == SubSeq(d, 1, 3) IN
  IF IsPackedBcd(price)
  THEN Decoded("DC3_NOZZLE_STATUS_PRICE", "PARTIAL",
               <<DecodePackedBcd(price), d[4] % 16, NozzleOut(d[4])>>)
  ELSE Malformed("DC3_NOZZLE_STATUS_PRICE")

\* One price per nozzle, in the order of the nozzles.
DecodeCD5(d) ==
  LET price(n) == SubSeq(d, 3 * n - 2, 3 * n) IN
  IF IsPackedBcd(d)
  THEN Decoded("CD5_PRICE_UPDATE", "DECODED",
               [n \in 1..Len(d) \div 3 |-> DecodePackedBcd(price(n))])
  ELSE Malformed("CD5_PRICE_UPDATE")

DecodeDC5(d) == Decoded("DC5_ALARM", "DECODED", <<d[1]>>)

DecodeCD101(d) == Decoded("CD101_REQUEST_TOTALS", "DECODED", <<d[1]>>)

DecodeDC101(d) ==
  LET field(k) == SubSeq(d, 5 * k - 3, 5 * k + 1) IN
  IF IsPackedBcd(Tail(d))
  THEN Decoded("DC101_TOTAL_COUNTERS", "DECODED",
               <<d[1]>> \o [k \in 1..3 |-> DecodePackedBcd(field(k))])
  ELSE Malformed("DC101_TOTAL_COUNTERS")

\* decode_raw_transaction: number and length select the decoder.
DecodeRaw(tx) ==
  LET kind == <<tx.id, Len(tx.data)>> IN
  IF kind = <<1, 1>> THEN DecodeAmbiguous01(tx.data)
  ELSE IF kind = <<2, 8>> THEN DecodeDC2(tx.data)
  ELSE IF kind = <<3, 4>> THEN DecodeDC3(tx.data)
  ELSE IF kind = <<5, 1>> THEN DecodeDC5(tx.data)
  ELSE IF tx.id = 5 /\ kind[2] >= 3 /\ kind[2] % 3 = 0 THEN DecodeCD5(tx.data)
  ELSE IF kind = <<101, 1>> THEN DecodeCD101(tx.data)
  ELSE IF kind = <<101, 16>> THEN DecodeDC101(tx.data)
  ELSE DecodeUnknown

DecodeDataPayload(payload) ==
  LET split == SplitTransactions(payload) IN
  [transactions |-> [i \in DOMAIN split.transactions |-> DecodeRaw(split.transactions[i])],
   trailing |-> split.trailing]

=============================================================================
