---------------------------- MODULE JsonFormats ----------------------------
(***************************************************************************)
(* A value on its way through a binary format: written by to_cbor,         *)
(* to_msgpack, to_ubjson or to_bson, or by another implementation in any   *)
(* form that the format allows, perhaps damaged, and read by from_cbor,    *)
(* ...  Bytes of which nothing is known are read too; what they are taken  *)
(* for is then a value like any other.                                     *)
(***************************************************************************)
EXTENDS JsonWriter

CONSTANTS Documents,    \* values
          Plain,        \* those of them that others write too
          RawInputs,    \* bytes of which nothing is known
          CutRange      \* bound: how far from either end a document is cut

VARIABLES
    format,     \* input_format_t
    opt,        \* use_count and use_type of to_ubjson
    stage,      \* raw, value, wire, cut, read, noticed, accepted, over; none
    value,      \* what the bytes stand for
    wire,       \* the bytes
    result      \* what was read

fvars == <<format, opt, stage, value, wire, result>>

Opts == {o \in [count : BOOLEAN, type : BOOLEAN] : o.type => o.count}
NoOpt == [count |-> FALSE, type |-> FALSE]

FInit ==
    /\ format \in {"cbor", "msgpack", "ubjson", "bson"}
    /\ opt \in IF format = "ubjson" THEN Opts ELSE {NoOpt}
    /\ \/ stage = "value" /\ value \in Documents /\ wire = <<>>
       \/ stage = "raw" /\ value = Null /\ wire \in RawInputs /\ opt = NoOpt
    /\ result = Failed

----------------------------------------------------------------------------
(* Every form in which another implementation may write a value            *)

RECURSIVE Concats(_)
Concats(sets) ==
    IF sets = <<>> THEN {<<>>} ELSE {a \o b : a \in sets[1], b \in Concats(Tail(sets))}

Widths(b) == {k \in 0..3 : Fits(b, 2^k)}
SignedWidths(b) == {k \in 0..3 : FitsSigned(b, 2^k)}

CborHeads(base, b) ==
    {CborHead(base, b)} \cup {<<base + 24 + k>> \o LowBytes(b, 2^k) : k \in Widths(b)}

RECURSIVE CborForms(_), MsgpackForms(_), UbjsonForms(_)

CborForms(v) ==
    CASE IsInteger(v) -> IF v[1] = "number_integer" /\ IsNegative(v[2])
                         THEN CborHeads(32, Complement(v[2])) ELSE CborHeads(0, v[2])
      [] v[1] = "string" ->
             {h \o v[2] : h \in CborHeads(96, Size(Len(v[2])))}
             \cup {<<127>> \o CborText(SubSeq(v[2], 1, i)) \o CborText(SubSeq(v[2], i + 1, Len(v[2]))) \o <<255>> :
                       i \in 0..Len(v[2])}
      [] v[1] = "array" ->
             LET body == Concats([i \in DOMAIN v[2] |-> CborForms(v[2][i])])
             IN  {h \o b : h \in CborHeads(128, Size(Len(v[2]))), b \in body}
                 \cup {<<159>> \o b \o <<255>> : b \in body}
      [] v[1] = "object" ->
             LET keys == Keys(v)
                 body == Concats([i \in DOMAIN keys |-> Concats(<<{CborText(keys[i])}, CborForms(v[2][keys[i]])>>)])
             IN  {h \o b : h \in CborHeads(160, Size(Len(keys))), b \in body}
                 \cup {<<191>> \o b \o <<255>> : b \in body}
      [] OTHER -> {WriteCbor(v)}

MsgpackForms(v) ==
    CASE IsInteger(v) ->
             (IF v[1] = "number_integer" /\ IsNegative(v[2]) THEN {}
              ELSE {<<204 + k>> \o LowBytes(v[2], 2^k) : k \in Widths(v[2])})
             \cup (IF v[1] = "number_unsigned" /\ IsNegative(v[2]) THEN {}
                   ELSE {<<208 + k>> \o LowBytes(v[2], 2^k) : k \in SignedWidths(v[2])})
      [] v[1] = "string" ->
             {<<217 + k>> \o LowBytes(Size(Len(v[2])), 2^k) \o v[2] : k \in Widths(Size(Len(v[2]))) \ {3}}
      [] v[1] = "array" ->
             LET body == Concats([i \in DOMAIN v[2] |-> MsgpackForms(v[2][i])])
             IN  {<<219 + k>> \o LowBytes(Size(Len(v[2])), 2^k) \o b : k \in {1, 2}, b \in body}
      [] v[1] = "object" ->
             LET keys == Keys(v)
                 body == Concats([i \in DOMAIN keys |-> Concats(<<{MsgpackText(keys[i])}, MsgpackForms(v[2][keys[i]])>>)])
             IN  {<<221 + k>> \o LowBytes(Size(Len(keys)), 2^k) \o b : k \in {1, 2}, b \in body}
      [] OTHER -> {WriteMsgpack(v)}

(* With no-ops in front of the value *)
UbjsonForms(v) ==
    {pad \o f : pad \in {<<>>, <<78>>},
                f \in CASE IsInteger(v) ->
                              IF v[1] = "number_unsigned" /\ IsNegative(v[2]) THEN {}
                              ELSE {<<t>> \o LowBytes(v[2], UbjsonWidth[t]) : t \in
                                        {u \in {73, 76, 105, 108} : FitsSigned(v[2], UbjsonWidth[u])}
                                        \cup {u \in {85} : Fits(v[2], 1)}}
                       [] v[1] = "string" /\ Len(v[2]) = 1 /\ v[2][1] < 128 -> {<<67>> \o v[2]}
                       [] v[1] = "array" ->
                              LET body == Concats([i \in DOMAIN v[2] |-> UbjsonForms(v[2][i])])
                              IN  {<<91>> \o b \o <<78, 93>> : b \in body}
                                  \cup {<<91, 35>> \o UbjsonLength(Len(v[2])) \o b : b \in body}
                       [] v[1] = "object" ->
                              LET keys == Keys(v)
                                  body == Concats([i \in DOMAIN keys |->
                                              Concats(<<{UbjsonText(keys[i])}, UbjsonForms(v[2][keys[i]])>>)])
                              IN  {<<123, 78>> \o b \o <<125>> : b \in body}
                       [] OTHER -> {WriteUbjson(v, opt, TRUE)}}

Forms(v) ==
    CASE format = "cbor" -> CborForms(v)
      [] format = "msgpack" -> MsgpackForms(v)
      [] format = "ubjson" -> UbjsonForms(v)
      [] format = "bson" -> {}

----------------------------------------------------------------------------
(* to_cbor, to_msgpack, to_ubjson, to_bson *)
WriteDocument ==
    /\ stage = "value"
    /\ wire' \in Written(format, opt, value)
    /\ stage' = "wire"
    /\ UNCHANGED <<format, opt, value, result>>

WriteThrows ==
    /\ stage = "value" /\ Written(format, opt, value) = {}
    /\ stage' = "over"
    /\ UNCHANGED <<format, opt, value, wire, result>>

OtherWriter ==
    /\ stage = "value" /\ value \in Plain
    /\ wire' \in Forms(value)
    /\ stage' = "wire"
    /\ UNCHANGED <<format, opt, value, result>>

(* The end is missing, or a byte is behind it *)
Damage ==
    /\ stage = "wire"
    /\ wire' \in {SubSeq(wire, 1, n) : n \in {m \in 0..(Len(wire) - 1) : m <= CutRange \/ m >= Len(wire) - CutRange}}
                \cup {Append(wire, b) : b \in {0, 255}}
    /\ stage' = "cut"
    /\ UNCHANGED <<format, opt, value, result>>

(* from_cbor, from_msgpack, from_ubjson, from_bson *)
ReadDocument ==
    \E r \in {SaxParse(format, wire)} :
        /\ \/ stage = "wire" /\ stage' = "read" /\ result' = r /\ UNCHANGED <<value, wire>>
           \/ stage = "cut" /\ stage' = (IF r.ok THEN "accepted" ELSE "noticed")
              /\ UNCHANGED <<value, wire, result>>
           \/ stage = "raw" /\ r.ok /\ stage' = "value" /\ value' = r.v /\ wire' = <<>> /\ UNCHANGED result
           \/ stage = "raw" /\ ~r.ok /\ stage' = "over" /\ UNCHANGED <<value, wire, result>>
        /\ UNCHANGED <<format, opt>>

FOver == stage \in {"read", "noticed", "accepted", "over"} /\ UNCHANGED fvars

FNext == WriteDocument \/ WriteThrows \/ OtherWriter \/ Damage \/ ReadDocument \/ FOver

----------------------------------------------------------------------------
(* Equal, whatever the type of an integer *)
RECURSIVE Same(_, _)
Same(v, w) ==
    \/ v = w
    \/ IsInteger(v) /\ IsInteger(w) /\ v[2] = w[2] /\ ~IsNegative(v[2])
    \/ /\ v[1] = w[1] /\ v[1] \in {"array", "object"} /\ DOMAIN v[2] = DOMAIN w[2]
       /\ \A k \in DOMAIN v[2] : Same(v[2][k], w[2][k])

(* What the writer writes, and what any other writes for the same value,   *)
(* is read as that value: numbers at every width, lengths at the edges of  *)
(* their encodings, sized, typed and open containers.                      *)
WrittenIsRead == stage = "read" => result.ok /\ Same(result.v, value)

(* A document without its end, or with a byte too many, is not taken for a *)
(* document.                                                               *)
DamageNoticed == stage # "accepted"

(* The size in front of a BSON document, added up from all values in it    *)
(* before anything is written, is the number of bytes that are written     *)
(* (from_bson does not look at it, other readers do).                      *)
BsonSizesExact ==
    (stage = "wire" /\ format = "bson") => Int32(Len(wire)) = SubSeq(wire, 1, 4)

(* What is written is read, and nothing else is; the sizes are true *)
BinaryFaithful == WrittenIsRead /\ DamageNoticed /\ BsonSizesExact

============================================================================
