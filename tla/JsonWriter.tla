----------------------------- MODULE JsonWriter -----------------------------
(***************************************************************************)
(* The writer of the binary formats of src/ChatServer/thirdparty/json.hpp  *)
(* (class binary_writer).  Values are those of JsonReader.                 *)
(***************************************************************************)
EXTENDS JsonReader, JsonDump

(* write_number: the last n bytes *)
LowBytes(b, n) == SubSeq(b, 9 - n, 8)
Fits(b, n) == \A i \in 1..(8 - n) : b[i] = 0
FitsSigned(b, n) == Signed(LowBytes(b, n))[2] = b

(* std::size_t *)
Size(n) == Widen(<<n \div 256, n % 256>>, 0)

(* The keys in the order of the std::map *)
Keys(v) ==
    LET keys == DOMAIN v[2]
    IN  [i \in 1..Cardinality(keys) |->
            CHOOSE k \in keys : Cardinality({j \in keys : Before(j, k)}) = i - 1]

IsInteger(v) == v[1] \in {"number_integer", "number_unsigned"}

----------------------------------------------------------------------------
(* A number or size in the first byte, or in the 1, 2, 4 or 8 bytes behind *)
CborHead(base, b) ==
    IF Fits(b, 1) /\ b[8] <= 23 THEN <<base + b[8]>>
    ELSE LET k == CHOOSE j \in 0..3 : Fits(b, 2^j) /\ \A i \in 0..(j - 1) : ~Fits(b, 2^i)
         IN  <<base + 24 + k>> \o LowBytes(b, 2^k)

CborUnsigned(b) == CborHead(0, b)
CborInteger(b) == IF IsNegative(b) THEN CborHead(32, Complement(b)) ELSE CborHead(0, b)
CborText(s) == CborHead(96, Size(Len(s))) \o s

RECURSIVE WriteCbor(_)

CborArray(v) ==
    CborHead(128, Size(Len(v[2]))) \o FlattenSeq([i \in DOMAIN v[2] |-> WriteCbor(v[2][i])])

CborMap(v) ==
    LET keys == Keys(v)
    IN  CborHead(160, Size(Len(keys)))
        \o FlattenSeq([i \in DOMAIN keys |-> CborText(keys[i]) \o WriteCbor(v[2][keys[i]])])

WriteCbor(v) ==
    CASE v[1] = "null" -> <<246>>
      [] v[1] = "boolean" -> IF v[2] THEN <<245>> ELSE <<244>>
      [] v[1] = "number_integer" -> CborInteger(v[2])
      [] v[1] = "number_unsigned" -> CborUnsigned(v[2])
      [] v[1] = "number_float" -> <<251>> \o v[2]
      [] v[1] = "string" -> CborText(v[2])
      [] v[1] = "array" -> CborArray(v)
      [] v[1] = "object" -> CborMap(v)

----------------------------------------------------------------------------
(* The smallest of the widths 2^0, 2^1, ... from 2^least in which b fits *)
MsgpackHead(base, least, b) ==
    LET k == CHOOSE j \in least..3 : Fits(b, 2^j) /\ \A i \in least..(j - 1) : ~Fits(b, 2^i)
    IN  <<base + k - least>> \o LowBytes(b, 2^k)

MsgpackUnsigned(b) == IF Fits(b, 1) /\ b[8] < 128 THEN <<b[8]>> ELSE MsgpackHead(204, 0, b)

MsgpackNegative(b) ==
    LET k == CHOOSE j \in 0..3 : FitsSigned(b, 2^j) /\ \A i \in 0..(j - 1) : ~FitsSigned(b, 2^i)
    IN  IF FitsSigned(b, 1) /\ b[8] >= 224 THEN <<b[8]>> ELSE <<208 + k>> \o LowBytes(b, 2^k)

MsgpackText(s) == (IF Len(s) <= 31 THEN <<160 + Len(s)>> ELSE MsgpackHead(217, 0, Size(Len(s)))) \o s

RECURSIVE WriteMsgpack(_)

MsgpackArray(v) ==
    LET n == Len(v[2])
    IN  (IF n <= 15 THEN <<144 + n>> ELSE MsgpackHead(220, 1, Size(n)))
        \o FlattenSeq([i \in DOMAIN v[2] |-> WriteMsgpack(v[2][i])])

MsgpackMap(v) ==
    LET keys == Keys(v)
        n == Len(keys)
    IN  (IF n <= 15 THEN <<128 + n>> ELSE MsgpackHead(222, 1, Size(n)))
        \o FlattenSeq([i \in DOMAIN keys |-> MsgpackText(keys[i]) \o WriteMsgpack(v[2][keys[i]])])

WriteMsgpack(v) ==
    CASE v[1] = "null" -> <<192>>
      [] v[1] = "boolean" -> IF v[2] THEN <<195>> ELSE <<194>>
      [] v[1] = "number_integer" -> IF IsNegative(v[2]) THEN MsgpackNegative(v[2]) ELSE MsgpackUnsigned(v[2])
      [] v[1] = "number_unsigned" -> MsgpackUnsigned(v[2])
      [] v[1] = "number_float" -> <<203>> \o v[2]
      [] v[1] = "string" -> MsgpackText(v[2])
      [] v[1] = "array" -> MsgpackArray(v)
      [] v[1] = "object" -> MsgpackMap(v)

----------------------------------------------------------------------------
(* UBJSON: i, U, I, l or L; an unsigned number is checked before *)
UbjsonType(b) ==
    IF FitsSigned(b, 1) THEN 105
    ELSE IF Fits(b, 1) THEN 85
    ELSE IF FitsSigned(b, 2) THEN 73
    ELSE IF FitsSigned(b, 4) THEN 108
    ELSE 76

UbjsonDigits(b) == LowBytes(b, UbjsonWidth[UbjsonType(b)])
UbjsonLength(n) == <<UbjsonType(Size(n))>> \o UbjsonDigits(Size(n))
UbjsonText(s) == UbjsonLength(Len(s)) \o s

(* ubjson_prefix *)
UbjsonPrefix(v) ==
    CASE v[1] = "null" -> 90
      [] v[1] = "boolean" -> IF v[2] THEN 84 ELSE 70
      [] IsInteger(v) -> UbjsonType(v[2])
      [] v[1] = "number_float" -> 68
      [] v[1] = "string" -> 83
      [] v[1] = "array" -> 91
      [] v[1] = "object" -> 123

(* The type that all values have, if use_type asks for one *)
CommonType(vs, opt) ==
    IF opt.type /\ vs # {} /\ Cardinality({UbjsonPrefix(v) : v \in vs}) = 1
    THEN {UbjsonPrefix(CHOOSE v \in vs : TRUE)} ELSE {}

RECURSIVE WriteUbjson(_, _, _)

(* [ $ type # size values ], without what is not asked for *)
UbjsonFrame(vs, n, opt, body, end) ==
    (IF CommonType(vs, opt) = {} THEN <<>> ELSE <<36, CHOOSE t \in CommonType(vs, opt) : TRUE>>)
    \o (IF opt.count THEN <<35>> \o UbjsonLength(n) ELSE <<>>)
    \o body
    \o (IF opt.count THEN <<>> ELSE <<end>>)

UbjsonList(v, opt) ==
    LET vs == Range(v[2])
    IN  UbjsonFrame(vs, Len(v[2]), opt,
            FlattenSeq([i \in DOMAIN v[2] |-> WriteUbjson(v[2][i], opt, CommonType(vs, opt) = {})]), 93)

UbjsonMap(v, opt) ==
    LET vs == {v[2][k] : k \in DOMAIN v[2]}
        keys == Keys(v)
    IN  UbjsonFrame(vs, Len(keys), opt,
            FlattenSeq([i \in DOMAIN keys |->
                UbjsonText(keys[i]) \o WriteUbjson(v[2][keys[i]], opt, CommonType(vs, opt) = {})]), 125)

WriteUbjson(v, opt, prefix) ==
    (IF prefix THEN <<UbjsonPrefix(v)>> ELSE <<>>)
    \o CASE IsInteger(v) -> UbjsonDigits(v[2])
         [] v[1] = "number_float" -> v[2]
         [] v[1] = "string" -> UbjsonText(v[2])
         [] v[1] = "array" -> UbjsonList(v, opt)
         [] v[1] = "object" -> UbjsonMap(v, opt)
         [] OTHER -> <<>>

----------------------------------------------------------------------------
(* BSON, in two passes: calc_bson_..._size computes the sizes that are     *)
(* written in front, write_bson_... writes                                 *)
IntegerSize(b) == IF FitsSigned(b, 4) THEN 4 ELSE 8

(* std::to_string of an index *)
IndexName(i) == DumpInteger(i - 1)

RECURSIVE CalcObjectSize(_), CalcArraySize(_), WriteObject(_)

CalcElementSize(name, v) ==
    1 + Len(name) + 1
    + CASE v[1] = "object" -> CalcObjectSize(v)
        [] v[1] = "array" -> CalcArraySize(v)
        [] v[1] = "boolean" -> 1
        [] v[1] = "number_float" -> 8
        [] IsInteger(v) -> IntegerSize(v[2])
        [] v[1] = "string" -> 4 + Len(v[2]) + 1
        [] v[1] = "null" -> 0

CalcObjectSize(v) ==
    4 + FoldSet(LAMBDA k, n : n + CalcElementSize(k, v[2][k]), 0, DOMAIN v[2]) + 1

CalcArraySize(v) ==
    4 + FoldSet(LAMBDA i, n : n + CalcElementSize(IndexName(i), v[2][i]), 0, DOMAIN v[2]) + 1

Int32(n) == Reverse(LowBytes(Size(n), 4))

EntryHeader(type, name) == <<type>> \o name \o <<0>>

WriteInteger(name, b) ==
    EntryHeader(IF FitsSigned(b, 4) THEN 16 ELSE 18, name) \o Reverse(LowBytes(b, IntegerSize(b)))

WriteString(name, s) == EntryHeader(2, name) \o Int32(Len(s) + 1) \o s \o <<0>>

RECURSIVE WriteElement(_, _)

WriteArray(name, v) ==
    EntryHeader(4, name) \o Int32(CalcArraySize(v))
    \o FlattenSeq([i \in DOMAIN v[2] |-> WriteElement(IndexName(i), v[2][i])]) \o <<0>>

WriteElement(name, v) ==
    CASE v[1] = "object" -> EntryHeader(3, name) \o WriteObject(v)
      [] v[1] = "array" -> WriteArray(name, v)
      [] v[1] = "boolean" -> EntryHeader(8, name) \o (IF v[2] THEN <<1>> ELSE <<0>>)
      [] v[1] = "number_float" -> EntryHeader(1, name) \o Reverse(v[2])
      [] IsInteger(v) -> WriteInteger(name, v[2])
      [] v[1] = "string" -> WriteString(name, v[2])
      [] v[1] = "null" -> EntryHeader(10, name)

WriteObject(v) ==
    LET keys == Keys(v)
    IN  Int32(CalcObjectSize(v))
        \o FlattenSeq([i \in DOMAIN keys |-> WriteElement(keys[i], v[2][keys[i]])]) \o <<0>>

----------------------------------------------------------------------------
(* The exceptions: an unsigned number beyond int64_t (UBJSON, BSON), a     *)
(* zero byte in a key (BSON)                                               *)
RECURSIVE Throws(_, _)
Throws(format, v) ==
    CASE v[1] = "number_unsigned" -> format \in {"ubjson", "bson"} /\ IsNegative(v[2])
      [] v[1] = "array" -> \E i \in DOMAIN v[2] : Throws(format, v[2][i])
      [] v[1] = "object" -> \E k \in DOMAIN v[2] :
             Throws(format, v[2][k]) \/ (format = "bson" /\ \E i \in DOMAIN k : k[i] = 0)
      [] OTHER -> FALSE

(* What to_cbor, ... write: one sequence of bytes, or none if they throw *)
Written(format, opt, v) ==
    IF Throws(format, v) \/ (format = "bson" /\ ~IsObject(v)) THEN {}
    ELSE {CASE format = "cbor" -> WriteCbor(v)
            [] format = "msgpack" -> WriteMsgpack(v)
            [] format = "ubjson" -> WriteUbjson(v, opt, TRUE)
            [] format = "bson" -> WriteObject(v)}
============================================================================
