------------------------------- MODULE Codecs -------------------------------
(***************************************************************************)
(* What goes on the wire and comes off it: the words of an eth_call        *)
(* (sources/evm/codec/abi.py, reader.py), the batches of Multicall3        *)
(* (codec/aggregate3.py), Base58Check and the regrouped bits of a SegWit   *)
(* address (sources/bitcoin/encoding.py), the public keys derived from an  *)
(* extended public key (xpub.py), and the spellings of Amounts.  One       *)
(* conversion a behaviour.                                                 *)
(*                                                                         *)
(* Bytes, words, alphabets and the curve are those of the code with other  *)
(* sizes; the hashes are external.  A conversion that raises gives {}.     *)
(***************************************************************************)
EXTENDS Amounts, TLC

CONSTANTS
    ByteBits,       \* 8
    WordLen,        \* bytes in a word: 32
    AddressLen,     \* bytes in an address: 20
    GroupBits,      \* 5
    Alphabet,       \* 58
    CurveP,         \* the field
    CurveN,         \* the order of the group
    Generator,
    Hardened,       \* the first index that cannot be derived: 2^31
    MaxDepth,       \* 255
    Signatures,     \* SIGNATURES: name to argument and return types
    Bytestrings,    \* what comes back from an eth_call
    Payloads        \* what calls carry and Base58 encodes

VARIABLE code       \* the conversion made

codecVars == <<code>>

Byte == 2 ^ ByteBits

WordSize == Byte ^ WordLen

Unconverted == [kind |-> "none"]

CodecsInit == code = Unconverted

Piece(data, start, length) == SubSeq(data, start + 1, start + length)

-----------------------------------------------------------------------------
(* abi.py: static types, one word each.  A type is its kind and its width  *)
(* in bytes; a bool is 0 or 1.                                             *)

(* Two's complement for a negative.                                        *)
WordOf(value) == Digits(value % WordSize, Byte, WordLen)

IntegerRange(type) ==
    LET all == Byte ^ type.size IN
    CASE type.kind = "uint" -> 0 .. all - 1
      [] type.kind = "int" -> -(all \div 2) .. all \div 2 - 1
      [] type.kind = "address" -> 0 .. Byte ^ AddressLen - 1
      [] type.kind = "bool" -> {0, 1}

EncodeWord(type, value) == IF value \in IntegerRange(type) THEN {WordOf(value)} ELSE {}

(* What does not fit the type is left in.                                  *)
DecodeWordFault(type, chunk) ==
    LET raw == Number(chunk, Byte)
        value == IF type.kind = "int" /\ raw >= WordSize \div 2 THEN raw - WordSize ELSE raw
    IN {value}

DecodeWord(type, chunk) ==
    LET raw == Number(chunk, Byte)
        value == IF type.kind = "int" /\ raw >= WordSize \div 2 THEN raw - WordSize ELSE raw
    IN {value} \cap IntegerRange(type)

Encode(types, values) ==
    IF Len(types) # Len(values) THEN {}
    ELSE {FlattenSeq(words) :
             words \in Together([k \in DOMAIN types |-> EncodeWord(types[k], values[k])])}

Decode(types, data) ==
    IF Len(data) # WordLen * Len(types) THEN {}
    ELSE Together([k \in DOMAIN types |->
                      DecodeWord(types[k], Piece(data, (k - 1) * WordLen, WordLen))])

-----------------------------------------------------------------------------
(* EvmContractReader.call: the declared types, or, for a name that is not  *)
(* declared and takes nothing, one whole unsigned word.                    *)

OpenShape == [args |-> <<>>, returns |-> <<[kind |-> "uint", size |-> WordLen]>>]

ShapesOf(fn, args) ==
    IF fn \in DOMAIN Signatures THEN {Signatures[fn]}
    ELSE IF args = <<>> THEN {OpenShape} ELSE {}

(* A call the reader refuses is never sent.                                *)
Call(fn, args, body) ==
    LET shapes == {s \in ShapesOf(fn, args) : Encode(s.args, args) # {}}
        shape == CHOOSE s \in shapes : TRUE
    IN IF shapes = {} THEN [kind |-> "call", request |-> {}, values |-> {}]
       ELSE [kind |-> "call", shape |-> shape, args |-> args, body |-> body,
             request |-> {[fn |-> fn, types |-> shape.args, words |-> words] :
                             words \in Encode(shape.args, args)},
             values |-> Decode(shape.returns, body)]

-----------------------------------------------------------------------------
(* aggregate3.py: the two dynamic arrays. *)

Filled(data) == data \o Zeros((-Len(data)) % WordLen)

(* Length, an offset from after the length for each element, elements.     *)
DynamicArray(elements) ==
    LET Ahead(k) == WordLen * Len(elements)
                    + FoldLeft(LAMBDA sum, e : sum + Len(e), 0, SubSeq(elements, 1, k - 1))
    IN WordOf(Len(elements))
       \o FlattenSeq([k \in DOMAIN elements |-> WordOf(Ahead(k))])
       \o FlattenSeq(elements)

CallElement(call) ==
    WordOf(call.target) \o WordOf(call.allow) \o WordOf(3 * WordLen)
    \o WordOf(Len(call.data)) \o Filled(call.data)

EncodeAggregate3(calls) ==
    WordOf(WordLen) \o DynamicArray([k \in DOMAIN calls |-> CallElement(calls[k])])

WordAt(data, at) == Number(Piece(data, at, WordLen), Byte)

Aggregate3Result(data, start) ==
    LET head == start + 3 * WordLen
        length == WordAt(data, start + 2 * WordLen)
    IN IF head > Len(data) THEN {}
       ELSE IF \/ WordAt(data, start) > 1
               \/ WordAt(data, start + WordLen) # 2 * WordLen
               \/ head + length > Len(data) THEN {}
       ELSE {[success |-> WordAt(data, start), data |-> Piece(data, head, length)]}

DecodeAggregate3(data) ==
    LET count == WordAt(data, WordLen)
        Start(k) == 2 * WordLen + WordAt(data, (k + 1) * WordLen)
    IN IF Len(data) < 2 * WordLen THEN {}
       ELSE IF WordAt(data, 0) # WordLen \/ (2 + count) * WordLen > Len(data) THEN {}
       ELSE Together([k \in 1 .. count |-> Aggregate3Result(data, Start(k))])

(* The contract's side: how it lays out its answers, and reads the calls.  *)
Answer(results) ==
    WordOf(WordLen)
    \o DynamicArray([k \in DOMAIN results |->
           WordOf(results[k].success) \o WordOf(2 * WordLen)
           \o WordOf(Len(results[k].data)) \o Filled(results[k].data)])

CallsRead(data) ==
    LET base == WordAt(data, 0) + WordLen
        Start(k) == base + WordAt(data, base + (k - 1) * WordLen)
        Bytes(k) == Start(k) + WordAt(data, Start(k) + 2 * WordLen)
    IN [k \in 1 .. WordAt(data, base - WordLen) |->
           [target |-> WordAt(data, Start(k)), allow |-> WordAt(data, Start(k) + WordLen),
            data |-> Piece(data, Bytes(k) + WordLen, WordAt(data, Bytes(k)))]]

-----------------------------------------------------------------------------
(* encoding.py *)

(* sha256d, its first bytes.                                               *)
Checksum(payload) ==
    <<FoldLeft(LAMBDA sum, b : (3 * sum + b + 1) % Byte, Len(payload), payload)>>

LeadingZeros(digits) ==
    Cardinality({k \in DOMAIN digits : \A j \in 1 .. k : digits[j] = 0})

Base58CheckEncode(payload) ==
    LET full == payload \o Checksum(payload)
        number == Number(full, Byte)
    IN Zeros(LeadingZeros(full)) \o Digits(number, Alphabet, Width(number, Alphabet))

Base58CheckDecode(encoded) ==
    LET number == Number(encoded, Alphabet)
        full == Zeros(LeadingZeros(encoded)) \o Digits(number, Byte, Width(number, Byte))
        payload == Front(full)
    IN IF \E k \in DOMAIN encoded : encoded[k] >= Alphabet THEN {}
       ELSE IF full = <<>> THEN {}
       ELSE IF Checksum(payload) # <<Last(full)>> THEN {}
       ELSE {payload}

(* Bytes as groups of fewer bits, the last filled up with zeros.           *)
Regroup(data) ==
    LET bits == FlattenSeq([k \in DOMAIN data |-> Digits(data[k], 2, ByteBits)])
        padded == bits \o Zeros((-Len(bits)) % GroupBits)
    IN [k \in 1 .. Len(padded) \div GroupBits |->
           Number(Piece(padded, (k - 1) * GroupBits, GroupBits), 2)]

(* RIPEMD-160 of SHA-256 of a compressed key.                              *)
Hash160(pubkey) == Append(Digits(pubkey.x, Byte, Width(CurveP, Byte)), pubkey.lead)

P2pkh(pubkey) == Base58CheckEncode(<<0>> \o Hash160(pubkey))

P2wpkh(pubkey) ==
    LET data == <<0>> \o Regroup(Hash160(pubkey)) IN data \o Checksum(data)

-----------------------------------------------------------------------------
(* xpub.py: the curve y^2 = x^3 + 7; <<>> is the point at infinity.        *)

InverseModP(a) == CHOOSE i \in 1 .. CurveP - 1 : (a * i) % CurveP = 1

Add(left, right) ==
    LET slope == IF left[1] = right[1]
                 THEN 3 * left[1] * left[1] * InverseModP((2 * left[2]) % CurveP)
                 ELSE (right[2] - left[2]) * InverseModP((right[1] - left[1]) % CurveP)
        s == slope % CurveP
        x == (s * s - left[1] - right[1]) % CurveP
    IN CASE left = <<>> -> right
         [] right = <<>> -> left
         [] left # <<>> /\ right # <<>> /\ left[1] = right[1]
               /\ (left[2] + right[2]) % CurveP = 0 -> <<>>
         [] OTHER -> <<x, (s * (left[1] - x) - left[2]) % CurveP>>

(* Double and add, from the lowest bit up.                                 *)
Multiply(scalar, point) ==
    FoldLeft(LAMBDA s, bit : [result |-> IF bit = 1 THEN Add(s.result, s.addend)
                                         ELSE s.result,
                              addend |-> Add(s.addend, s.addend)],
             [result |-> <<>>, addend |-> point],
             Reverse(Digits(scalar, 2, Width(scalar, 2)))).result

PowerOf(base, exponent) ==
    FoldLeft(LAMBDA product, k : (product * base) % CurveP, 1,
             [k \in 1 .. exponent |-> k])

ParsePoint(pubkey) ==
    LET alpha == (pubkey.x * pubkey.x * pubkey.x + 7) % CurveP
        y == PowerOf(alpha, (CurveP + 1) \div 4)
    IN IF \/ pubkey.lead \notin {2, 3} \/ pubkey.x >= CurveP
          \/ (y * y) % CurveP # alpha THEN {}
       ELSE {<<pubkey.x, IF y % 2 = pubkey.lead % 2 THEN y ELSE CurveP - y>>}

SerializePoint(point) == [lead |-> 2 + (point[2] % 2), x |-> point[1]]

Versions == {"xpub", "xprv", "ypub", "zpub"}

ParseXpub(payload) ==
    IF payload.version # "xpub" \/ ParsePoint(payload.pubkey) = {} THEN {}
    ELSE {[depth |-> payload.depth, child_number |-> payload.child_number,
           chain_code |-> payload.chain_code, pubkey |-> payload.pubkey]}

(* HMAC-SHA512 of a key and an index: a scalar, and a chain code.          *)
Hmac(chain_code, pubkey, index) ==
    <<(3 * chain_code + 5 * pubkey.x + 7 * index + pubkey.lead) % (CurveN + 3),
      (chain_code + pubkey.x + 2 * index + 1) % 3>>

CkdPub(xpub, index) ==
    LET digest == Hmac(xpub.chain_code, xpub.pubkey, index)
        parent == CHOOSE point \in ParsePoint(xpub.pubkey) : TRUE
        child == Add(Multiply(digest[1], Generator), parent)
    IN IF \/ index \notin 0 .. Hardened - 1 \/ digest[1] >= CurveN
          \/ child = <<>> \/ xpub.depth = MaxDepth THEN {}
       ELSE {[depth |-> xpub.depth + 1, child_number |-> index,
              chain_code |-> digest[2], pubkey |-> SerializePoint(child)]}

AddressOf(kind, pubkey) == IF kind = "p2pkh" THEN P2pkh(pubkey) ELSE P2wpkh(pubkey)

(* The addresses of one branch from `start` on: the branch is derived once.*)
DeriveAddresses(payload, kind, chain, start, count) ==
    LET nodes == UNION {CkdPub(xpub, chain) : xpub \in ParseXpub(payload)}
        node == CHOOSE n \in nodes : TRUE
    IN IF \/ chain \notin {0, 1} \/ ~{start, count} \subseteq 0 .. Hardened - 1
          \/ nodes = {} THEN {}
       ELSE {[k \in DOMAIN keys |-> AddressOf(kind, keys[k].pubkey)] :
                keys \in Together([k \in 1 .. count |-> CkdPub(node, start + k - 1)])}

-----------------------------------------------------------------------------
Types ==
    [kind : {"uint", "int"}, size : 1 .. WordLen]
    \cup [kind : {"address", "bool"}, size : {WordLen}]

ConvertWords ==
    \/ \E type \in Types, value \in -WordSize .. WordSize :
           code' = [kind |-> "value", type |-> type, value |-> value,
                    words |-> EncodeWord(type, value)]
    \/ \E types \in SeqOf(Types, 2), body \in Bytestrings :
           code' = [kind |-> "words", types |-> types, body |-> body,
                    values |-> Decode(types, body)]
    \/ \E fn \in DOMAIN Signatures \cup {"unknown"}, args \in SeqOf({0, 1, Byte}, 2),
          body \in Bytestrings : code' = Call(fn, args, body)

ConvertBatches ==
    \/ \E calls \in SeqOf([target : {0, Byte - 1}, allow : {0, 1}, data : Payloads], 2) :
           code' = [kind |-> "calls", calls |-> calls, body |-> EncodeAggregate3(calls)]
    \/ \E results \in SeqOf([success : {0, 1}, data : Payloads], 2) :
           \E length \in 0 .. Len(Answer(results)) :
               code' = [kind |-> "results", results |-> results, length |-> length,
                        read |-> DecodeAggregate3(Piece(Answer(results), 0, length))]

ConvertBitcoin ==
    \/ \E payload \in Payloads :
           code' = [kind |-> "payload", payload |-> payload,
                    encoded |-> Base58CheckEncode(payload), groups |-> Regroup(payload)]
    \/ \E encoded \in SeqOf(0 .. Alphabet, 3) :
           code' = [kind |-> "encoded", encoded |-> encoded,
                    payload |-> Base58CheckDecode(encoded)]
    \/ \E version \in Versions, lead \in 1 .. 3, x \in 0 .. CurveP + 1, depth \in 0 .. MaxDepth,
          chain_code \in 0 .. 2 :
          LET payload == [version |-> version, depth |-> depth, child_number |-> 0,
                          chain_code |-> chain_code, pubkey |-> [lead |-> lead, x |-> x]]
          IN code' = [kind |-> "xpub", payload |-> payload, read |-> ParseXpub(payload)]
    \/ \E secret \in 1 .. CurveN - 1, depth \in {0, MaxDepth - 2, MaxDepth - 1},
          chain \in 0 .. 2, start, count \in 0 .. Hardened :
          LET pubkey == SerializePoint(Multiply(secret, Generator))
              payload == [version |-> "xpub", depth |-> depth, child_number |-> 0,
                          chain_code |-> secret % 3, pubkey |-> pubkey]
          IN code' = [kind |-> "derive", secret |-> secret, payload |-> payload,
                      chain |-> chain, start |-> start, count |-> count,
                      p2pkh |-> DeriveAddresses(payload, "p2pkh", chain, start, count),
                      p2wpkh |-> DeriveAddresses(payload, "p2wpkh", chain, start, count)]

(* Bounds: amounts of a few digits, texts and tokens of a few symbols.     *)
ConvertAmounts ==
    LET Scale == 0 .. TokenLength
        Raw == -(Ten ^ TokenLength) .. Ten ^ TokenLength
        Decimals == [coefficient : -Ten .. Ten, exponent : -2 .. 2]
        Items == [asset_id : {1}, raw : SeqOf({Minus, 1, Letter}, 2), decimals : {-1, 2},
                  direction : {"in", "up"}]
    IN \/ \E raw \in Raw, decimals \in Scale :
              LET q == [raw |-> raw, decimals |-> decimals]
              IN code' = [kind |-> "quantity", quantity |-> q, wire |-> QuantityToWire(q),
                          row |-> EncodeEntries(<<[asset_id |-> 1, raw |-> raw,
                                                   decimals |-> decimals, direction |-> "out"]>>)]
       \/ \E left, right \in Decimals :
              code' = [kind |-> "amounts", left |-> left, right |-> right,
                       sum |-> ExactSum(left, right), product |-> ExactProduct(left, right)]
       \/ \E text \in SeqOf(Letter .. Ten - 1, TokenLength + 1) :
              code' = [kind |-> "text", text |-> text, integer |-> IntegerOf(text),
                       amount |-> AmountOf(text), seq |-> DecodeCursor(text)]
       \/ \E items \in SeqOf(Items, 2) :
              code' = [kind |-> "row", items |-> items, entries |-> DecodeEntries(items)]

Convert ==
    /\ code = Unconverted
    /\ ConvertWords \/ ConvertBatches \/ ConvertBitcoin \/ ConvertAmounts

-----------------------------------------------------------------------------
(* A word is its value in the low bytes and nothing above: zeros, or the   *)
(* sign of a negative.                                                     *)
Fits(type, chunk) ==
    LET size == IF type.kind = "address" THEN AddressLen ELSE type.size
        Above(fill) == \A k \in 1 .. WordLen - size : chunk[k] = fill
        negative == chunk[WordLen - size + 1] >= Byte \div 2
    IN CASE type.kind \in {"uint", "address"} -> Above(0)
         [] type.kind = "bool" -> chunk \in {WordOf(0), WordOf(1)}
         [] OTHER -> IF negative THEN Above(Byte - 1) ELSE Above(0)

WordsAgree ==
    /\ code.kind = "value" =>
           IF code.value \in IntegerRange(code.type)
           THEN \E word \in code.words : DecodeWord(code.type, word) = {code.value}
           ELSE code.words = {}
    /\ code.kind = "words" =>
           /\ code.values # {} <=>
                  /\ Len(code.body) = WordLen * Len(code.types)
                  /\ \A k \in DOMAIN code.types :
                         Fits(code.types[k], Piece(code.body, (k - 1) * WordLen, WordLen))
           /\ \A values \in code.values : Encode(code.types, values) = {code.body}
    /\ code.kind = "call" =>
           /\ code.request = {} => code.values = {}
           /\ \A request \in code.request : Decode(request.types, request.words) = {code.args}
           /\ \A values \in code.values : Encode(code.shape.returns, values) = {code.body}

(* A contract reads the calls that were made; its answers are read as they *)
(* were, and one that is cut off is read so only if nothing but the filler *)
(* at the end is missing.                                                  *)
BatchesAgree ==
    /\ code.kind = "calls" => CallsRead(code.body) = code.calls
    /\ code.kind = "results" =>
           LET whole == Len(Answer(code.results))
               filler == IF code.results = <<>> THEN 0
                         ELSE (-Len(Last(code.results).data)) % WordLen
           IN code.read = IF code.length >= whole - filler THEN {code.results} ELSE {}

(* A payload is spelt in one way.                                          *)
SpellingsAgree ==
    /\ code.kind = "payload" =>
           /\ Base58CheckDecode(code.encoded) = {code.payload}
           /\ LET fill == Len(code.groups) * GroupBits - Len(code.payload) * ByteBits
              IN /\ fill \in 0 .. GroupBits - 1
                 /\ Number(code.groups, 2 ^ GroupBits) = Number(code.payload, Byte) * 2 ^ fill
    /\ code.kind = "encoded" =>
           \A payload \in code.payload : Base58CheckEncode(payload) = code.encoded

(* The keys of an extended secret key, which only its holder can derive:   *)
(* what BIP32 says the public ones must be.                                *)
SecretChild(node, index) ==
    LET point == SerializePoint(Multiply(node.secret, Generator))
        digest == Hmac(node.chain_code, point, index)
        secret == (digest[1] + node.secret) % CurveN
    IN IF index >= Hardened \/ digest[1] >= CurveN \/ secret = 0 \/ node.depth = MaxDepth
       THEN {} ELSE {[secret |-> secret, chain_code |-> digest[2], depth |-> node.depth + 1]}

(* The addresses a scan watches are those of the wallet's own keys, each   *)
(* in its place; what has no such key, or is no extended public key of the *)
(* main network on the curve, is refused.                                  *)
AddressesAgree ==
    /\ code.kind = "derive" =>
           LET account == [secret |-> code.secret, depth |-> code.payload.depth,
                           chain_code |-> code.payload.chain_code]
               Keys(k) == UNION {SecretChild(branch, code.start + k - 1) :
                                    branch \in SecretChild(account, code.chain)}
               Own(key) == SerializePoint(Multiply(key.secret, Generator))
               refused == \/ code.chain = 2 \/ Hardened \in {code.start, code.count}
                          \/ SecretChild(account, code.chain) = {}
                          \/ \E k \in 1 .. code.count : Keys(k) = {}
           IN IF refused THEN code.p2pkh = {} /\ code.p2wpkh = {}
              ELSE /\ code.p2pkh # {} /\ code.p2wpkh # {}
                   /\ \A k \in 1 .. code.count : \A key \in Keys(k) :
                          /\ \A all \in code.p2pkh : all[k] = P2pkh(Own(key))
                          /\ \A all \in code.p2wpkh : all[k] = P2wpkh(Own(key))
    /\ code.kind = "xpub" =>
           code.read # {} <=>
               /\ code.payload.version = "xpub"
               /\ \E k \in 1 .. CurveN - 1 :
                      SerializePoint(Multiply(k, Generator)) = code.payload.pubkey

(* An amount is spelt exactly and read back as it was; of what somebody    *)
(* else wrote, only a sign, digits and a point between digits are read,    *)
(* and a row is read whole or not at all.  Sums and products are those of  *)
(* the numbers, at any two exponents.  Cursors sort as their numbers do.   *)
AmountsAgree ==
    LET Worth(value) == CoefficientAt(value, -2 * TokenLength)
        Written(text) == \A k \in DOMAIN text : text[k] >= (IF k = 1 THEN Minus ELSE 0)
    IN /\ code.kind = "quantity" =>
              LET q == code.quantity
                  numeric == code.wire.numeric
              IN /\ QuantityFromWire(code.wire) = {q}
                 /\ \E read \in AmountOf(numeric) : Worth(read) = Worth(AsDecimal(q))
                 /\ Point \in ToSet(numeric) => Last(numeric) # 0
                 /\ AmountOf(AmountText(AsDecimal(q))) = {AsDecimal(q)}
                 /\ \E entries \in DecodeEntries(code.row) :
                        entries[1].raw = q.raw /\ entries[1].decimals = q.decimals
       /\ code.kind = "amounts" =>
              /\ Worth(code.sum) = Worth(code.left) + Worth(code.right)
              /\ CoefficientAt(code.product, -4)
                     = CoefficientAt(code.left, -2) * CoefficientAt(code.right, -2)
              /\ \E read \in AmountOf(AmountText(code.left)) : Worth(read) = Worth(code.left)
       /\ code.kind = "text" =>
              /\ code.integer # {} <=> Written(code.text) /\ code.text \notin {<<>>, <<Minus>>}
              /\ code.integer # {} => \E read \in code.amount, n \in code.integer :
                                          read = [coefficient |-> n, exponent |-> 0]
              /\ code.amount # {} => ToSet(code.text) \cap {Letter} = {}
              /\ \A seq \in code.seq : EncodeCursor(seq) = {code.text}
              /\ code.seq # {} => \A token \in EncodeCursor(Ten) :
                     LET n == CHOOSE n \in code.seq : TRUE
                         first == CHOOSE k \in 1 .. TokenLength + 1 :
                                      /\ k <= TokenLength => code.text[k] # token[k]
                                      /\ \A j \in 1 .. k - 1 : code.text[j] = token[j]
                     IN n < Ten <=> first <= TokenLength /\ code.text[first] < token[first]
       /\ code.kind = "row" =>
              IF \A k \in DOMAIN code.items :
                     /\ code.items[k].direction \in DirectionNames /\ code.items[k].decimals >= 0
                     /\ IntegerOf(code.items[k].raw) # {}
              THEN \E entries \in code.entries : EncodeEntries(entries) = code.items
              ELSE code.entries = {}

(* No conversion loses, adds or moves anything: see the five above.        *)
ConversionsAgree ==
    WordsAgree /\ BatchesAgree /\ SpellingsAgree /\ AddressesAgree /\ AmountsAgree

=============================================================================
