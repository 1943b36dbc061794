----------------------------- MODULE JsonReader -----------------------------
(***************************************************************************)
(* The reader of the binary formats of src/ChatServer/thirdparty/json.hpp  *)
(* (class binary_reader): CBOR, MessagePack, UBJSON, BSON.                 *)
(*                                                                         *)
(* Integers keep their real widths: the content of a number_integer or     *)
(* number_unsigned is its eight bytes, most significant first, in two's    *)
(* complement, that of a number_float the eight bytes of the double.  An   *)
(* operator of the input and a place returns the value found there and     *)
(* the place behind it; an exception and a false are both Failed.          *)
(***************************************************************************)
EXTENDS JsonValue

CONSTANT Huge       \* bound: more elements than any input has bytes

Failed == [ok |-> FALSE, v |-> Null, at |-> 0]
Got(v, at) == [ok |-> TRUE, v |-> v, at |-> at]

(* get_number: n bytes *)
GetNumber(in, at, n) ==
    IF at + n - 1 <= Len(in) THEN Got(SubSeq(in, at, at + n - 1), at + n) ELSE Failed

(* Mutant: the end of the input ends the string *)
GetCharsLeft(in, at, n) ==
    Got(SubSeq(in, at, IF at + n - 1 <= Len(in) THEN at + n - 1 ELSE Len(in)), at + n)

(* get_string: n bytes *)
GetChars(in, at, n) ==
    IF at + n - 1 <= Len(in) THEN Got(SubSeq(in, at, at + n - 1), at + n) ELSE Failed

(* Conversions of the bytes of a number *)
Widen(bytes, fill) ==
    [i \in 1..8 |-> IF i <= 8 - Len(bytes) THEN fill ELSE bytes[i - 8 + Len(bytes)]]
Unsigned(bytes) == <<"number_unsigned", Widen(bytes, 0)>>
Signed(bytes) == <<"number_integer", Widen(bytes, IF bytes[1] >= 128 THEN 255 ELSE 0)>>
IsNegative(b) == b[1] >= 128
Complement(b) == [i \in 1..8 |-> 255 - b[i]]      \* -1 - b

(* The number of bytes or elements to expect *)
Count(b) == IF \A i \in 1..6 : b[i] = 0 THEN b[7] * 256 + b[8] ELSE Huge

(* A double from its sign, biased exponent and the first 23 bits of its    *)
(* fraction                                                                *)
Double(sign, e, f) ==
    <<"number_float", <<sign * 128 + e \div 16, (e % 16) * 16 + f \div 524288, (f \div 2048) % 256,
                        (f \div 8) % 256, (f % 8) * 32, 0, 0, 0>>>>

Log2(n) == CHOOSE k \in 0..23 : n \in 2^k..(2^(k + 1) - 1)

(* Half precision: the arithmetic of RFC 7049 *)
Half(bytes) ==
    LET sign == bytes[1] \div 128
        e == (bytes[1] \div 4) % 32
        mant == (bytes[1] % 4) * 256 + bytes[2]
        k == Log2(mant)
    IN  CASE e = 0 /\ mant = 0 -> Double(sign, 0, 0)
          [] e = 0 /\ mant # 0 -> Double(sign, k - 24 + 1023, (mant - 2^k) * 2^(23 - k))
          [] e = 31 -> Double(sign, 2047, IF mant = 0 THEN 0 ELSE 4194304)
          [] OTHER -> Double(sign, e - 15 + 1023, mant * 8192)

(* static_cast<double> of a float *)
Single(bytes) ==
    LET sign == bytes[1] \div 128
        e == (bytes[1] % 128) * 2 + bytes[2] \div 128
        f == (bytes[2] % 128) * 65536 + bytes[3] * 256 + bytes[4]
        k == Log2(f)
    IN  CASE e = 0 /\ f = 0 -> Double(sign, 0, 0)
          [] e = 0 /\ f # 0 -> Double(sign, k - 149 + 1023, (f - 2^k) * 2^(23 - k))
          [] e = 255 -> Double(sign, 2047, IF f \in 1..4194303 THEN f + 4194304 ELSE f)
          [] OTHER -> Double(sign, e - 127 + 1023, f)

(* A number of n bytes, converted *)
AsUnsigned(in, at, n) ==
    LET r == GetNumber(in, at, n) IN IF r.ok THEN Got(Unsigned(r.v), r.at) ELSE Failed
AsSigned(in, at, n) ==
    LET r == GetNumber(in, at, n) IN IF r.ok THEN Got(Signed(r.v), r.at) ELSE Failed
AsSingle(in, at) ==
    LET r == GetNumber(in, at, 4) IN IF r.ok THEN Got(Single(r.v), r.at) ELSE Failed
AsDouble(in, at) ==
    LET r == GetNumber(in, at, 8) IN IF r.ok THEN Got(<<"number_float", r.v>>, r.at) ELSE Failed

(* A string whose length was read just before *)
CharsOf(in, length) ==
    IF length.ok THEN GetChars(in, length.at, Count(length.v[2])) ELSE Failed

(* Characters that make a string *)
AsString(chars) == IF chars.ok THEN Got(<<"string", chars.v>>, chars.at) ELSE Failed

----------------------------------------------------------------------------
RECURSIVE Value(_, _, _), UbjsonValue(_, _, _), CborString(_, _), Chunks(_, _, _)
RECURSIVE Elements(_, _, _, _, _, _), Members(_, _, _, _, _, _), BsonList(_, _, _)

(* get_ignore_noop: UBJSON may have 'N' between values *)
NextByte(format, in, at) ==
    IF format # "ubjson" \/ at > Len(in) THEN at
    ELSE CHOOSE i \in at..(Len(in) + 1) :
             Char(in, i) # 78 /\ \A j \in at..(i - 1) : in[j] = 78

(* The byte that ends a container of no stated size *)
EndOf(format, array) == IF format = "cbor" THEN 255 ELSE IF array THEN 93 ELSE 125

(* An element of a container: its type stands in front of it or was stated *)
Item(format, in, at, type) ==
    IF type = 0 THEN Value(format, in, at) ELSE UbjsonValue(type, in, at)

(* The rest of an array: n elements, or any number if n is negative        *)
AddElement(r, format, in, n, type, seen) ==
    IF r.ok THEN Elements(format, in, r.at, n - 1, type, Append(seen, r.v)) ELSE Failed

Elements(format, in, at, n, type, seen) ==
    LET here == IF n < 0 THEN NextByte(format, in, at) ELSE at
    IN  IF n = 0 THEN Got(<<"array", seen>>, at)
        ELSE IF n < 0 /\ Char(in, here) = EndOf(format, TRUE) THEN Got(<<"array", seen>>, here + 1)
        ELSE AddElement(Item(format, in, here, type), format, in, n, type, seen)

----------------------------------------------------------------------------
(* CBOR: the five low bits of the first byte, or what they announce *)
CborInfo(in, at) ==
    LET info == in[at] % 32
    IN  IF info <= 23 THEN Got(Unsigned(<<info>>), at + 1)
        ELSE IF info <= 27 THEN AsUnsigned(in, at + 1, 2^(info - 24))
        ELSE Failed

(* -1 minus the number *)
CborNegative(in, at) ==
    LET r == CborInfo(in, at)
    IN  IF r.ok THEN Got(<<"number_integer", Complement(r.v[2])>>, r.at) ELSE Failed

(* The size of an array or map; 31, and a size of std::size_t(-1), mean    *)
(* that it is not known                                                    *)
CborSize(in, at) ==
    LET r == CborInfo(in, at)
    IN  IF in[at] % 32 = 31 THEN Got(-1, at + 1)
        ELSE IF r.ok THEN Got(IF r.v[2] = [i \in 1..8 |-> 255] THEN -1 ELSE Count(r.v[2]), r.at)
        ELSE Failed

CborString(in, at) ==
    LET b == Char(in, at)
    IN  IF b \in 96..123 THEN CharsOf(in, CborInfo(in, at))
        ELSE IF b = 127 THEN Chunks(in, at + 1, <<>>)
        ELSE Failed

Chunks(in, at, seen) ==
    LET r == CborString(in, at)
    IN  IF Char(in, at) = 255 THEN Got(seen, at + 1)
        ELSE IF r.ok THEN Chunks(in, r.at, seen \o r.v)
        ELSE Failed

(* parse_cbor_internal *)
CborValue(in, at) ==
    LET b == Char(in, at)
        size == CborSize(in, at)
        half == GetNumber(in, at + 1, 2)
    IN  CASE b \in 0..27 -> CborInfo(in, at)
          [] b \in 32..59 -> CborNegative(in, at)
          [] b \in 96..123 \cup {127} -> AsString(CborString(in, at))
          [] b \in 128..155 \cup {159} ->
                 IF size.ok THEN Elements("cbor", in, size.at, size.v, 0, <<>>) ELSE Failed
          [] b \in 160..187 \cup {191} ->
                 IF size.ok THEN Members("cbor", in, size.at, size.v, 0, EmptyObject) ELSE Failed
          [] b \in {244, 245} -> Got(<<"boolean", b = 245>>, at + 1)
          [] b = 246 -> Got(Null, at + 1)
          [] b = 249 -> IF half.ok THEN Got(Half(half.v), half.at) ELSE Failed
          [] b = 250 -> AsSingle(in, at + 1)
          [] b = 251 -> AsDouble(in, at + 1)
          [] OTHER -> Failed

----------------------------------------------------------------------------
MsgpackString(in, at) ==
    LET b == Char(in, at)
    IN  IF b \in 160..191 THEN GetChars(in, at + 1, b % 32)
        ELSE IF b \in 217..219 THEN CharsOf(in, AsUnsigned(in, at + 1, 2^(b - 217)))
        ELSE Failed

(* The first bytes that hold a small number, or the size *)
FixInt(b, at) == Got(Unsigned(<<b>>), at)
NegativeFixInt(b, at) == Got(Signed(<<b>>), at)
FixArray(in, at, n) == Elements("msgpack", in, at, n, 0, <<>>)
FixMap(in, at, n) == Members("msgpack", in, at, n, 0, EmptyObject)

(* The size of array 16, array 32, map 16 and map 32 *)
MsgpackSize(in, at) ==
    LET r == AsUnsigned(in, at + 1, IF in[at] \in {220, 222} THEN 2 ELSE 4)
    IN  IF r.ok THEN Got(Count(r.v[2]), r.at) ELSE Failed

(* parse_msgpack_internal *)
MsgpackValue(in, at) ==
    LET b == Char(in, at)
        size == MsgpackSize(in, at)
    IN  CASE b \in 0..127 -> FixInt(b, at + 1)
          [] b \in 224..255 -> NegativeFixInt(b, at + 1)
          [] b \in 128..143 -> FixMap(in, at + 1, b % 16)
          [] b \in 144..159 -> FixArray(in, at + 1, b % 16)
          [] b \in 160..191 \cup 217..219 -> AsString(MsgpackString(in, at))
          [] b = 192 -> Got(Null, at + 1)
          [] b \in {194, 195} -> Got(<<"boolean", b = 195>>, at + 1)
          [] b = 202 -> AsSingle(in, at + 1)
          [] b = 203 -> AsDouble(in, at + 1)
          [] b \in 204..207 -> AsUnsigned(in, at + 1, 2^(b - 204))
          [] b \in 208..211 -> AsSigned(in, at + 1, 2^(b - 208))
          [] b \in {220, 221} -> IF size.ok THEN FixArray(in, size.at, size.v) ELSE Failed
          [] b \in {222, 223} -> IF size.ok THEN FixMap(in, size.at, size.v) ELSE Failed
          [] OTHER -> Failed

----------------------------------------------------------------------------
(* UBJSON: 'i', 'I', 'l', 'L' are signed, 'U' is not *)
UbjsonWidth == (85 :> 1) @@ (105 :> 1) @@ (73 :> 2) @@ (108 :> 4) @@ (76 :> 8)

UbjsonNumber(type, in, at) ==
    IF type \notin DOMAIN UbjsonWidth THEN Failed
    ELSE IF type = 85 THEN AsUnsigned(in, at, 1) ELSE AsSigned(in, at, UbjsonWidth[type])

(* A negative length gives an empty string *)
UbjsonChars(in, length) ==
    IF length.ok /\ IsNegative(length.v[2]) THEN Got(<<>>, length.at) ELSE CharsOf(in, length)
UbjsonString(in, at) == UbjsonChars(in, UbjsonNumber(Char(in, at), in, at + 1))

(* A negative size is refused by start_array and start_object; -1 is taken *)
(* for no size, and its last byte for the first element, which it is not   *)
NotNegative(r) == IF r.ok /\ ~IsNegative(r.v[2]) THEN Got(Count(r.v[2]), r.at) ELSE Failed
UbjsonSize(in, at) ==
    LET here == NextByte("ubjson", in, at)
    IN  NotNegative(UbjsonNumber(Char(in, here), in, here + 1))

(* get_ubjson_size_type: [size, type], with -1 and 0 for none *)
Typed(size, type) ==
    IF size.ok /\ type # EOF THEN Got([size |-> size.v, type |-> type], size.at) ELSE Failed

(* '#' and the size *)
Sharp(in, at, type) == IF Char(in, at) = 35 THEN Typed(UbjsonSize(in, at + 1), type) ELSE Failed

UbjsonHeader(in, at) ==
    CASE Char(in, at) = 36 -> Sharp(in, NextByte("ubjson", in, at + 2), Char(in, at + 1))
      [] Char(in, at) = 35 -> Sharp(in, at, 0)
      [] OTHER -> Got([size |-> -1, type |-> 0], at)

UbjsonSizeType(in, at) == UbjsonHeader(in, NextByte("ubjson", in, at))

UbjsonElements(in, r) ==
    IF ~r.ok THEN Failed
    ELSE Elements("ubjson", in, r.at, IF r.v.type = 78 THEN 0 ELSE r.v.size, r.v.type, <<>>)
UbjsonArray(in, at) == UbjsonElements(in, UbjsonSizeType(in, at))

UbjsonMembers(in, r) ==
    IF r.ok THEN Members("ubjson", in, r.at, r.v.size, r.v.type, EmptyObject) ELSE Failed
UbjsonObject(in, at) == UbjsonMembers(in, UbjsonSizeType(in, at))

(* get_ubjson_value: the value behind its type *)
UbjsonValue(type, in, at) ==
    CASE type \in {84, 70} -> Got(<<"boolean", type = 84>>, at)
      [] type = 90 -> Got(Null, at)
      [] type \in DOMAIN UbjsonWidth -> UbjsonNumber(type, in, at)
      [] type = 100 -> AsSingle(in, at)
      [] type = 68 -> AsDouble(in, at)
      [] type = 67 -> IF Char(in, at) \in 0..127 THEN Got(<<"string", <<in[at]>>>>, at + 1) ELSE Failed
      [] type = 83 -> AsString(UbjsonString(in, at))
      [] type = 91 -> UbjsonArray(in, at)
      [] type = 123 -> UbjsonObject(in, at)
      [] OTHER -> Failed

----------------------------------------------------------------------------
(* The rest of an object of CBOR, MessagePack or UBJSON *)
KeyOf(format, in, at) ==
    CASE format = "cbor" -> CborString(in, at)
      [] format = "msgpack" -> MsgpackString(in, at)
      [] format = "ubjson" -> UbjsonString(in, at)

AddMember(k, r, format, in, n, type, obj) ==
    IF r.ok THEN Members(format, in, r.at, n - 1, type, SetKey(obj, k, r.v)) ELSE Failed

AddKey(k, format, in, n, type, obj) ==
    IF k.ok THEN AddMember(k.v, Item(format, in, k.at, type), format, in, n, type, obj) ELSE Failed

Members(format, in, at, n, type, obj) ==
    LET here == IF n < 0 THEN NextByte(format, in, at) ELSE at
    IN  IF n = 0 THEN Got(obj, at)
        ELSE IF n < 0 /\ Char(in, here) = EndOf(format, FALSE) THEN Got(obj, here + 1)
        ELSE AddKey(KeyOf(format, in, here), format, in, n, type, obj)

----------------------------------------------------------------------------
(* BSON: little endian.  The size of a document is read and not used. *)
BsonDocument(in, at, empty) ==
    IF GetNumber(in, at, 4).ok THEN BsonList(in, at + 4, empty) ELSE Failed

(* The string behind its length, which counts the byte that ends it *)
BsonChars(in, chars) ==
    IF chars.ok /\ Char(in, chars.at) # EOF THEN Got(<<"string", chars.v>>, chars.at + 1) ELSE Failed

BsonString(in, at) ==
    LET length == GetNumber(in, at, 4)
        n == Count(Widen(Reverse(length.v), 0))
    IN  IF ~length.ok \/ n < 1 THEN Failed ELSE BsonChars(in, GetChars(in, length.at, n - 1))

BsonArray(in, at) == BsonDocument(in, at, EmptyArray)

(* parse_bson_element_internal *)
BsonValue(type, in, at) ==
    LET number == GetNumber(in, at, IF type = 16 THEN 4 ELSE 8)
    IN  CASE type = 1 -> IF number.ok THEN Got(<<"number_float", Reverse(number.v)>>, number.at) ELSE Failed
          [] type = 2 -> BsonString(in, at)
          [] type = 3 -> BsonDocument(in, at, EmptyObject)
          [] type = 4 -> BsonArray(in, at)
          [] type = 8 -> Got(<<"boolean", Char(in, at) # 0>>, at + 1)
          [] type = 10 -> Got(Null, at)
          [] type \in {16, 18} -> IF number.ok THEN Got(Signed(Reverse(number.v)), number.at) ELSE Failed
          [] OTHER -> Failed

(* get_bson_cstr: up to a zero byte *)
BsonCstr(in, at) ==
    LET ends == {i \in at..Len(in) : in[i] = 0}
        e == CHOOSE i \in ends : \A j \in ends : i <= j
    IN  IF ends = {} THEN Failed ELSE Got(SubSeq(in, at, e - 1), e + 1)

(* parse_bson_element_list: the keys of an array are skipped *)
AddToList(k, r, in, seen) ==
    IF r.ok THEN BsonList(in, r.at, IF IsArray(seen) THEN EmplaceBack(seen, r.v) ELSE SetKey(seen, k, r.v))
    ELSE Failed

BsonList(in, at, seen) ==
    LET k == BsonCstr(in, at + 1)
    IN  IF Char(in, at) = 0 THEN Got(seen, at + 1)
        ELSE IF Char(in, at) # EOF /\ k.ok THEN AddToList(k.v, BsonValue(in[at], in, k.at), in, seen)
        ELSE Failed

----------------------------------------------------------------------------
Value(format, in, at) ==
    LET here == NextByte("ubjson", in, at)
    IN  CASE format = "cbor" -> CborValue(in, at)
          [] format = "msgpack" -> MsgpackValue(in, at)
          [] format = "ubjson" -> UbjsonValue(Char(in, here), in, here + 1)
          [] format = "bson" -> BsonDocument(in, at, EmptyObject)

(* sax_parse, strict: the input ends behind the value *)
Strictly(r, format, in) ==
    IF r.ok /\ Char(in, NextByte(format, in, r.at)) = EOF THEN r ELSE Failed
SaxParse(format, in) == Strictly(Value(format, in, 1), format, in)
============================================================================
