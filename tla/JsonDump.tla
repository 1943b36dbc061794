------------------------------ MODULE JsonDump ------------------------------
(***************************************************************************)
(* The serializer of src/ChatServer/thirdparty/json.hpp, as dump() with    *)
(* its default arguments uses it: no indentation, no \u for what is not    *)
(* ASCII, strict about UTF-8.  A dump is the sequence of the bytes written *)
(* and a flag: FALSE when it throws.  Floats are left out.                 *)
(***************************************************************************)
EXTENDS JsonValue

CONSTANT StringBuffer   \* string_buffer.size(): 512

Dumped(bytes) == [bytes |-> bytes, ok |-> TRUE]

----------------------------------------------------------------------------
(* decode: Hoehrmann's automaton.  ByteType is the first half of utf8d ... *)
ByteType(b) ==
    CASE b \in 0..127 -> 0
      [] b \in 128..143 -> 1
      [] b \in 144..159 -> 9
      [] b \in 160..191 -> 7
      [] b \in {192, 193} \cup 245..255 -> 8
      [] b \in 194..223 -> 2
      [] b = 224 -> 10
      [] b \in (225..239) \ {237} -> 3
      [] b = 237 -> 4
      [] b = 240 -> 11
      [] b \in 241..243 -> 6
      [] b = 244 -> 5

Accept == 0
Reject == 1

(* ... and NextState the second *)
NextState(s, type) ==
    CASE s = 0 -> <<0, 1, 2, 3, 5, 8, 7, 1, 1, 1, 4, 6>>[type + 1]
      [] s = 2 -> IF type \in {1, 7, 9} THEN 0 ELSE 1
      [] s = 3 -> IF type \in {1, 7, 9} THEN 2 ELSE 1
      [] s = 4 -> IF type = 7 THEN 2 ELSE 1
      [] s = 5 -> IF type \in {1, 9} THEN 2 ELSE 1
      [] s = 6 -> IF type \in {7, 9} THEN 3 ELSE 1
      [] s = 7 -> IF type \in {1, 7, 9} THEN 3 ELSE 1
      [] s = 8 -> IF type = 1 THEN 3 ELSE 1
      [] OTHER -> 1

NextCodepoint(s, cp, b) ==
    IF s # Accept THEN (b % 64) + cp * 64
    ELSE IF ByteType(b) > 7 THEN 0 ELSE b % (2 ^ (8 - ByteType(b)))

----------------------------------------------------------------------------
Hex(d) == IF d < 10 THEN 48 + d ELSE 87 + d

(* What is written for a code point whose last byte is b *)
Escaped(cp, b) ==
    CASE cp = 8 -> <<Backslash, 98>>
      [] cp = 9 -> <<Backslash, 116>>
      [] cp = 10 -> <<Backslash, 110>>
      [] cp = 12 -> <<Backslash, 102>>
      [] cp = 13 -> <<Backslash, 114>>
      [] cp \in {Quote, Backslash} -> <<Backslash, cp>>
      [] cp \in (0..31) \ {8, 9, 10, 12, 13} ->
             <<Backslash, 117, 48, 48, Hex(cp \div 16), Hex(cp % 16)>>
      [] OTHER -> <<b>>

(* Mutant: the buffer is only written out when it is full *)
RoomLate(used) == used < StringBuffer

(* There is room for one more code point, as two \u and a null: 13 bytes *)
Room(used) == StringBuffer - used >= 13

(* What is left in string_buffer is written; a string that ends within a   *)
(* code point throws                                                       *)
Finished(r) == [bytes |-> r.out \o r.used, ok |-> r.ok /\ r.state = Accept, peak |-> r.peak]

(* The loop over the bytes: state of the automaton, code point, bytes in   *)
(* string_buffer, bytes written out, and how much of string_buffer was     *)
(* ever used (snprintf puts a null behind its six characters)              *)
DumpStart == [state |-> Accept, cp |-> 0, used |-> <<>>, out |-> <<>>, peak |-> 0, ok |-> TRUE]

Buffered(r, st, cp, used) ==
    LET touched == Len(used) + IF Len(used) = Len(r.used) + 6 THEN 1 ELSE 0
        flush == st = Accept /\ ~Room(Len(used))
    IN  [state |-> st, cp |-> cp,
         used |-> IF flush THEN <<>> ELSE used,
         out |-> IF flush THEN r.out \o used ELSE r.out,
         peak |-> IF touched > r.peak THEN touched ELSE r.peak,
         ok |-> TRUE]

Decoded(r, st, cp, b) ==
    IF ~r.ok \/ st = Reject THEN [r EXCEPT !.ok = FALSE]
    ELSE Buffered(r, st, cp, r.used \o IF st = Accept THEN Escaped(cp, b) ELSE <<b>>)

DumpByte(r, b) ==
    Decoded(r, NextState(r.state, ByteType(b)), NextCodepoint(r.state, r.cp, b), b)

DumpEscaped(s) ==
    LET step[i \in 0..Len(s)] == IF i = 0 THEN DumpStart ELSE DumpByte(step[i - 1], s[i])
    IN  Finished(step[Len(s)])

----------------------------------------------------------------------------
(* count_digits: four at a time *)
RECURSIVE CountDigits(_)
CountDigits(x) ==
    IF x < 10 THEN 1
    ELSE IF x < 100 THEN 2
    ELSE IF x < 1000 THEN 3
    ELSE IF x < 10000 THEN 4
    ELSE 4 + CountDigits(x \div 10000)

(* The digits from behind, two at a time *)
RECURSIVE Backward(_)
Backward(x) ==
    IF x >= 100 THEN Backward(x \div 100) \o <<48 + ((x % 100) \div 10), 48 + (x % 10)>>
    ELSE IF x >= 10 THEN <<48 + x \div 10, 48 + (x % 10)>>
    ELSE <<48 + x>>

(* dump_integer: the digits are put at the end of the n_chars of the buffer *)
DumpInteger(x) ==
    LET abs == IF x < 0 THEN -x ELSE x
        digits == Backward(abs)
        gap == CountDigits(abs) - Len(digits)
    IN  IF x = 0 THEN <<48>>
        ELSE (IF x < 0 THEN <<Minus>> ELSE <<>>) \o [k \in 1..gap |-> 0] \o digits

----------------------------------------------------------------------------
(* std::map keeps its keys in the order of their bytes *)
Before(a, b) ==
    \/ Len(a) < Len(b) /\ SubSeq(b, 1, Len(a)) = a
    \/ \E i \in 1..Len(a) :
          i <= Len(b) /\ SubSeq(a, 1, i - 1) = SubSeq(b, 1, i - 1) /\ a[i] < b[i]

(* Mutant: no comma between the parts *)
JoinedBare(parts) == FlattenSeq(parts)

(* The parts with commas between them *)
Joined(parts) ==
    FlattenSeq([i \in DOMAIN parts |-> IF i = 1 THEN parts[1] ELSE <<44>> \o parts[i]])

Quoted(d) == [bytes |-> <<Quote>> \o d.bytes \o <<Quote>>, ok |-> d.ok]
DumpString(s) == Quoted(DumpEscaped(s))

DumpList(parts) ==
    [bytes |-> <<91>> \o Joined([i \in DOMAIN parts |-> parts[i].bytes]) \o <<93>>,
     ok |-> \A i \in DOMAIN parts : parts[i].ok]

DumpMembers(names, parts) ==
    [bytes |-> <<123>>
               \o Joined([i \in DOMAIN names |-> names[i].bytes \o <<58>> \o parts[i].bytes])
               \o <<125>>,
     ok |-> \A i \in DOMAIN names : names[i].ok /\ parts[i].ok]

RECURSIVE Dump(_)
Dump(v) ==
    CASE v[1] = "object" ->
             LET keys == SetToSortSeq(DOMAIN v[2], Before)
             IN  DumpMembers([i \in DOMAIN keys |-> DumpString(keys[i])],
                             [i \in DOMAIN keys |-> Dump(v[2][keys[i]])])
      [] v[1] = "array" -> DumpList([i \in DOMAIN v[2] |-> Dump(v[2][i])])
      [] v[1] = "string" -> DumpString(v[2])
      [] v[1] = "boolean" ->
             Dumped(IF v[2] THEN <<116, 114, 117, 101>> ELSE <<102, 97, 108, 115, 101>>)
      [] v[1] \in {"number_integer", "number_unsigned"} -> Dumped(DumpInteger(v[2]))
      [] v[1] = "null" -> Dumped(<<110, 117, 108, 108>>)
============================================================================
