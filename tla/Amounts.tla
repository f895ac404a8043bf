------------------------------ MODULE Amounts ------------------------------
(***************************************************************************)
(* Exact amounts and how they are spelt: Quantity and Money (money/), the  *)
(* wire form of both, the entries of a stored row (ledger/backends/models) *)
(* and the cursors of the feed (ledger/cursors).  Pure: no state.          *)
(*                                                                         *)
(* A text is a sequence of symbols: digits, and the three below.  What     *)
(* raises gives {}.  A negative zero and the lossy float are left out.     *)
(***************************************************************************)
EXTENDS Integers, SequencesExt

CONSTANTS
    Ten,            \* the base of numerals
    TokenLength     \* digits of a cursor: 20

Minus == -1
Point == -2
Letter == -3        \* anything else: a letter, a space, a plus

DirectionNames == {"in", "out", "self"}

Number(digits, base) == FoldLeft(LAMBDA n, d : n * base + d, 0, digits)

(* The last `count` digits of a number, first the largest.                 *)
Digits(n, base, count) == [k \in 1 .. count |-> (n \div base ^ (count - k)) % base]

Width(n, base) == CHOOSE w \in 0 .. n : n < base ^ w /\ \A v \in 0 .. w - 1 : n >= base ^ v

(* All of them, or none.                                                   *)
Together(options) ==
    IF \E k \in DOMAIN options : options[k] = {} THEN {}
    ELSE {[k \in DOMAIN options |-> CHOOSE x \in options[k] : TRUE]}

Zeros(count) == [k \in 1 .. count |-> 0]

-----------------------------------------------------------------------------
Magnitude(n) == IF n < 0 THEN -n ELSE n

(* str of an integer's magnitude: at least one digit.                      *)
Numeral(n) ==
    IF n = 0 THEN <<0>> ELSE Digits(Magnitude(n), Ten, Width(Magnitude(n), Ten))

Signed(n, text) == IF n < 0 THEN <<Minus>> \o text ELSE text

IntegerText(n) == Signed(n, Numeral(n))

IsNumeral(text) == text # <<>> /\ \A k \in DOMAIN text : text[k] \in 0 .. Ten - 1

Unsigned(text) == IF text # <<>> /\ text[1] = Minus THEN Tail(text) ELSE text

(* The sign, if any, and digits; nothing else.                             *)
IntegerOf(text) ==
    IF ~IsNumeral(Unsigned(text)) THEN {}
    ELSE {IF text[1] = Minus THEN -Number(Unsigned(text), Ten) ELSE Number(text, Ten)}

(* Quantity.__str__: as many digits as the scale needs, zeros trimmed.     *)
Padded(raw, decimals) ==
    Zeros(decimals + 1 - Len(Numeral(raw))) \o Numeral(raw)

Trimmed(fraction) ==
    LET kept == {k \in DOMAIN fraction : fraction[k] # 0}
    IN SubSeq(fraction, 1, IF kept = {} THEN 0 ELSE CHOOSE m \in kept : \A k \in kept : k <= m)

QuantityText(raw, decimals) ==
    LET digits == Padded(raw, decimals)
        whole == SubSeq(digits, 1, Len(digits) - decimals)
        fraction == Trimmed(SubSeq(digits, Len(digits) - decimals + 1, Len(digits)))
    IN Signed(raw, whole \o IF fraction = <<>> THEN <<>> ELSE <<Point>> \o fraction)

QuantityToWire(q) ==
    [raw |-> IntegerText(q.raw), decimals |-> q.decimals,
     numeric |-> QuantityText(q.raw, q.decimals)]

QuantityFromWire(wire) ==
    {[raw |-> raw, decimals |-> wire.decimals] : raw \in IntegerOf(wire.raw)}

-----------------------------------------------------------------------------
(* Decimals, as Money holds them: a coefficient at a power of ten.         *)
AsDecimal(q) == [coefficient |-> q.raw, exponent |-> -q.decimals]

CoefficientAt(value, exponent) == value.coefficient * Ten ^ (value.exponent - exponent)

Lower(m, n) == IF m < n THEN m ELSE n

ExactSum(left, right) ==
    LET exponent == Lower(left.exponent, right.exponent)
    IN [coefficient |-> CoefficientAt(left, exponent) + CoefficientAt(right, exponent),
        exponent |-> exponent]

ExactProduct(a, b) ==
    [coefficient |-> a.coefficient * b.coefficient, exponent |-> a.exponent + b.exponent]

(* format(amount, "f"): never scientific, and no zeros trimmed.            *)
AmountText(value) ==
    IF value.exponent >= 0 THEN IntegerText(CoefficientAt(value, 0))
    ELSE LET digits == Padded(value.coefficient, -value.exponent)
             point == Len(digits) + value.exponent
         IN Signed(value.coefficient,
                   SubSeq(digits, 1, point) \o <<Point>> \o SubSeq(digits, point + 1, Len(digits)))

(* Digits, and perhaps a point and digits again.                           *)
AmountOf(text) ==
    LET body == Unsigned(text)
        points == {k \in DOMAIN body : body[k] = Point}
        at == CHOOSE k \in points : TRUE
        whole == SubSeq(body, 1, at - 1)
        fraction == SubSeq(body, at + 1, Len(body))
        sign == IF text[1] = Minus THEN -1 ELSE 1
    IN IF points = {} THEN {[coefficient |-> n, exponent |-> 0] : n \in IntegerOf(text)}
       ELSE IF points # {at} \/ ~IsNumeral(whole) \/ ~IsNumeral(fraction) THEN {}
       ELSE {[coefficient |-> sign * Number(whole \o fraction, Ten), exponent |-> -Len(fraction)]}

-----------------------------------------------------------------------------
(* The entries of a stored row, which others may have written.             *)
EncodeEntries(entries) ==
    [k \in DOMAIN entries |->
        [asset_id |-> entries[k].asset_id, raw |-> IntegerText(entries[k].raw),
         decimals |-> entries[k].decimals, direction |-> entries[k].direction]]

DecodeEntry(item) ==
    IF item.direction \notin DirectionNames \/ item.decimals < 0 THEN {}
    ELSE {[asset_id |-> item.asset_id, raw |-> raw, decimals |-> item.decimals,
           direction |-> item.direction] : raw \in IntegerOf(item.raw)}

DecodeEntries(payload) == Together([k \in DOMAIN payload |-> DecodeEntry(payload[k])])

(* Zeros in front, to a fixed width.                                       *)
EncodeCursor(seq) ==
    IF seq < 0 THEN {}
    ELSE {Zeros(TokenLength - Len(Numeral(seq))) \o Numeral(seq)}

DecodeCursor(token) ==
    IF Len(token) # TokenLength \/ ~IsNumeral(token) THEN {} ELSE {Number(token, Ten)}

=============================================================================
