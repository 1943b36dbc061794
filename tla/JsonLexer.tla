----------------------------- MODULE JsonLexer -----------------------------
(***************************************************************************)
(* The lexer of src/ChatServer/thirdparty/json.hpp (class lexer), which    *)
(* reads every message that reaches the server.                            *)
(*                                                                         *)
(* A text is a sequence of bytes.  The scan functions are operators of the *)
(* text and the place of the next byte; they return the token, its value   *)
(* and the place behind it.  A value is a tuple whose first element is its *)
(* value_t.                                                                *)
(***************************************************************************)
EXTENDS Integers, Sequences, TLC

CONSTANTS UnsignedMax,              \* number_unsigned_t: 0 .. UnsignedMax
          IntegerMin, IntegerMax,   \* number_integer_t
          ExponentMax               \* largest power of ten of number_float_t

ASSUME LexerAssumption ==
    /\ UnsignedMax \in Nat /\ IntegerMax \in Nat /\ IntegerMin \in Int
    /\ IntegerMin < 0 /\ IntegerMax < UnsignedMax
    /\ ExponentMax \in Nat

EOF == -1
Null == <<"null">>

(* input_buffer_adapter::get_character *)
Char(t, i) == IF i \in DOMAIN t THEN t[i] ELSE EOF

Token(kind, value, next) == [kind |-> kind, value |-> value, next |-> next]
Plainly(kind, next) == Token(kind, Null, next)
ParseError == Plainly("parse_error", 0)

----------------------------------------------------------------------------
(* Strings *)

Quote == 34
Backslash == 92

HexDigit(c) ==
    IF c \in 48..57 THEN c - 48
    ELSE IF c \in 65..70 THEN c - 55
    ELSE IF c \in 97..102 THEN c - 87
    ELSE -1

(* get_codepoint: four hexadecimal digits, or -1 *)
Codepoint(t, i) ==
    LET d == [k \in 0..3 |-> HexDigit(Char(t, i + k))]
    IN  IF \E k \in 0..3 : d[k] = -1 THEN -1
        ELSE d[0] * 4096 + d[1] * 256 + d[2] * 16 + d[3]

(* A byte 10xxxxxx with the last six bits of x *)
Continuation(x) == 128 + (x % 64)

(* Mutant: two bytes also for what needs three *)
EncodeShort(cp) ==
    IF cp < 128 THEN <<cp>>
    ELSE <<192 + ((cp \div 64) % 32), Continuation(cp)>>

(* The code point in UTF-8 *)
Encode(cp) ==
    IF cp < 128 THEN <<cp>>
    ELSE IF cp <= 2047 THEN <<192 + cp \div 64, Continuation(cp)>>
    ELSE IF cp <= 65535
         THEN <<224 + cp \div 4096, Continuation(cp \div 64), Continuation(cp)>>
         ELSE <<240 + cp \div 262144, Continuation(cp \div 4096),
                Continuation(cp \div 64), Continuation(cp)>>

High == 55296..56319
Low == 56320..57343

(* What follows \u: the code point and the place behind it; -1 for four    *)
(* characters that are not digits and for a lone surrogate                 *)
Surrogates(t, i, one, two) ==
    IF one \in High
    THEN IF Char(t, i + 4) = Backslash /\ Char(t, i + 5) = 117 /\ two \in Low
         THEN [cp |-> one * 1024 + two - 56613888, next |-> i + 10]
         ELSE [cp |-> -1, next |-> i]
    ELSE [cp |-> IF one \in Low THEN -1 ELSE one, next |-> i + 4]

UnicodeEscape(t, i) == Surrogates(t, i, Codepoint(t, i), Codepoint(t, i + 6))

(* The characters after a backslash that stand for one byte *)
Escapes == (34 :> 34) @@ (92 :> 92) @@ (47 :> 47) @@ (98 :> 8) @@ (102 :> 12)
           @@ (110 :> 10) @@ (114 :> 13) @@ (116 :> 9)

(* Bytes that must be written as escapes *)
Control == 0..31

(* ASCII *)
Ascii == 32..127

(* The bytes that may follow a first byte; none is a bad first byte *)
Follow(c) ==
    CASE c \in 194..223 -> <<128..191>>
      [] c = 224 -> <<160..191, 128..191>>
      [] c \in (225..236) \cup {238, 239} -> <<128..191, 128..191>>
      [] c = 237 -> <<128..159, 128..191>>
      [] c = 240 -> <<144..191, 128..191, 128..191>>
      [] c \in 241..243 -> <<128..191, 128..191, 128..191>>
      [] c = 244 -> <<128..143, 128..191, 128..191>>
      [] OTHER -> <<>>

NextByteInRange(t, i, ranges) ==
    ranges # <<>> /\ \A k \in DOMAIN ranges : Char(t, i + k) \in ranges[k]

RECURSIVE ScanString(_, _, _)

AddCodepoint(t, u, buffer) ==
    IF u.cp # -1 THEN ScanString(t, u.next, buffer \o Encode(u.cp)) ELSE ParseError

(* i is behind a backslash *)
ScanEscape(t, i, buffer) ==
    LET c == Char(t, i)
    IN  IF c \in DOMAIN Escapes THEN ScanString(t, i + 1, Append(buffer, Escapes[c]))
        ELSE IF c = 117 THEN AddCodepoint(t, UnicodeEscape(t, i + 1), buffer)
        ELSE ParseError

(* i is behind the opening quote *)
ScanString(t, i, buffer) ==
    LET c == Char(t, i)
        more == Follow(c)
    IN  CASE c = Quote -> Token("value_string", <<"string", buffer>>, i + 1)
          [] c = Backslash -> ScanEscape(t, i + 1, buffer)
          [] c = EOF \/ c \in Control -> ParseError
          [] c \in Ascii \ {Quote, Backslash} -> ScanString(t, i + 1, Append(buffer, c))
          [] OTHER -> IF NextByteInRange(t, i, more)
                      THEN ScanString(t, i + 1 + Len(more), buffer \o SubSeq(t, i, i + Len(more)))
                      ELSE ParseError

----------------------------------------------------------------------------
(* Numbers *)

Digit == 48..57
Minus == 45

(* The state of scan_number after one more character *)
FromMinus(c) == IF c = 48 THEN "zero" ELSE IF c \in Digit THEN "any1" ELSE "error"
FromZero(c) == IF c = 46 THEN "decimal1" ELSE IF c \in {101, 69} THEN "exponent" ELSE "done"
FromAny1(c) == IF c \in Digit THEN "any1" ELSE FromZero(c)
FromDecimal1(c) == IF c \in Digit THEN "decimal2" ELSE "error"
FromDecimal2(c) ==
    IF c \in Digit THEN "decimal2" ELSE IF c \in {101, 69} THEN "exponent" ELSE "done"
FromSign(c) == IF c \in Digit THEN "any2" ELSE "error"
FromExponent(c) == IF c \in {43, 45} THEN "sign" ELSE FromSign(c)
FromAny2(c) == IF c \in Digit THEN "any2" ELSE "done"

NumberState(s, c) ==
    CASE s = "init" -> IF c = Minus THEN "minus" ELSE FromMinus(c)
      [] s = "minus" -> FromMinus(c)
      [] s = "zero" -> FromZero(c)
      [] s = "any1" -> FromAny1(c)
      [] s = "decimal1" -> FromDecimal1(c)
      [] s = "decimal2" -> FromDecimal2(c)
      [] s = "exponent" -> FromExponent(c)
      [] s = "sign" -> FromSign(c)
      [] s = "any2" -> FromAny2(c)

(* number_type changes on entering these states *)
NumberType(s, type) ==
    IF s = "minus" THEN "number_integer"
    ELSE IF s \in {"decimal1", "exponent"} THEN "number_float" ELSE type

(* Decimal value of a sequence of digits *)
Decimal(digits) ==
    LET v[k \in 0..Len(digits)] == IF k = 0 THEN 0 ELSE 10 * v[k - 1] + digits[k] - 48
    IN  v[Len(digits)]

(* strtoull, strtoll: errno tells when the value does not fit *)
Convert(buffer, type, next) ==
    LET x == IF type = "number_integer" THEN -Decimal(Tail(buffer)) ELSE Decimal(buffer)
    IN  IF type = "number_unsigned" /\ x <= UnsignedMax
        THEN Token("value_unsigned", <<type, x>>, next)
        ELSE IF type = "number_integer" /\ x >= IntegerMin
        THEN Token("value_integer", <<type, x>>, next)
        ELSE Token("value_float", <<"number_float", buffer>>, next)

RECURSIVE ScanNumber(_, _, _, _, _)
ScanNumber(t, i, s, type, buffer) ==
    LET c == Char(t, i)
        n == NumberState(s, c)
    IN  CASE n = "done" -> IF type = "number_float"
                           THEN Token("value_float", <<type, buffer>>, i)
                           ELSE Convert(buffer, type, i)
          [] n = "error" -> ParseError
          [] OTHER -> ScanNumber(t, i + 1, n, NumberType(n, type), Append(buffer, c))

(* strtod gives an infinite value.  Only the size of the exponent is       *)
(* looked at, the digits before the point are few.                         *)
Infinite(buffer) ==
    \E k \in DOMAIN buffer :
        /\ buffer[k] \in {101, 69}
        /\ \E j \in 1..(k - 1) : buffer[j] \in 49..57
        /\ buffer[k + 1] # Minus
        /\ Decimal(SubSeq(buffer, IF buffer[k + 1] = 43 THEN k + 2 ELSE k + 1, Len(buffer)))
               > ExponentMax

----------------------------------------------------------------------------
(* scan_literal; i is at its first character *)
ScanLiteral(t, i, literal, kind, value) ==
    IF \A k \in DOMAIN literal : Char(t, i + k - 1) = literal[k]
    THEN Token(kind, value, i + Len(literal))
    ELSE ParseError

White == {32, 9, 10, 13}

RECURSIVE SkipWhite(_, _)
SkipWhite(t, i) == IF Char(t, i) \in White THEN SkipWhite(t, i + 1) ELSE i

Bom == <<239, 187, 191>>

(* skip_bom: the place behind the mark, 0 if there is only a part of it *)
SkipBom(t) ==
    IF Char(t, 1) # 239 THEN 1
    ELSE IF \A k \in DOMAIN Bom : Char(t, k) = Bom[k] THEN 4 ELSE 0

Structural == (91 :> "begin_array") @@ (93 :> "end_array") @@ (123 :> "begin_object")
              @@ (125 :> "end_object") @@ (58 :> "name_separator") @@ (44 :> "value_separator")

(* A null byte ends the text, as it ends a string literal *)
End(c) == c \in {0, EOF}

(* The token that begins at this place *)
ScanHere(t, at) ==
    LET c == Char(t, at)
    IN  CASE c \in DOMAIN Structural -> Plainly(Structural[c], at + 1)
          [] c = 116 -> ScanLiteral(t, at, <<116, 114, 117, 101>>, "literal_true", <<"boolean", TRUE>>)
          [] c = 102 -> ScanLiteral(t, at, <<102, 97, 108, 115, 101>>, "literal_false", <<"boolean", FALSE>>)
          [] c = 110 -> ScanLiteral(t, at, <<110, 117, 108, 108>>, "literal_null", Null)
          [] c = Quote -> ScanString(t, at + 1, <<>>)
          [] c \in Digit \cup {Minus} -> ScanNumber(t, at, "init", "number_unsigned", <<>>)
          [] End(c) -> Plainly("end_of_input", at + 1)
          [] OTHER -> ParseError

(* The token at or behind place i *)
Scan(t, i) ==
    LET from == IF i = 1 THEN SkipBom(t) ELSE i
    IN  IF from = 0 THEN ParseError ELSE ScanHere(t, SkipWhite(t, from))
============================================================================
