--------------------------- MODULE JsonReference ---------------------------
(***************************************************************************)
(* What JSON texts mean, defined independently of json.hpp: UTF-8 by the   *)
(* arithmetic of its code points, strings as UTF-16 units, numbers and     *)
(* values by their grammar (RFC 8259).  Each operator yields the set of    *)
(* meanings: one, or none for what is malformed.                           *)
(***************************************************************************)
EXTENDS JsonLexer, SequencesExt

(* Number of bytes that a first byte announces by its leading ones *)
UnitLength(b) ==
    IF b < 128 THEN 1
    ELSE IF b \div 32 = 6 THEN 2
    ELSE IF b \div 16 = 14 THEN 3
    ELSE IF b \div 8 = 30 THEN 4 ELSE 0

UnitValue(u) ==
    CASE Len(u) = 1 -> u[1]
      [] Len(u) = 2 -> (u[1] % 32) * 64 + (u[2] % 64)
      [] Len(u) = 3 -> (u[1] % 16) * 4096 + (u[2] % 64) * 64 + (u[3] % 64)
      [] Len(u) = 4 -> (u[1] % 8) * 262144 + (u[2] % 64) * 4096 + (u[3] % 64) * 64 + (u[4] % 64)

(* The shortest form of a code point that is not a surrogate *)
WellFormed(u) ==
    /\ \A i \in 2..Len(u) : u[i] \div 64 = 2
    /\ UnitValue(u) >= <<0, 128, 2048, 65536>>[Len(u)]
    /\ UnitValue(u) <= 1114111
    /\ UnitValue(u) \notin High \cup Low

(* UTF-8 to code points *)
RECURSIVE Chars(_)
Chars(bytes) ==
    IF bytes = <<>> THEN {<<>>}
    ELSE LET n == UnitLength(bytes[1])
             u == SubSeq(bytes, 1, n)
         IN  IF n = 0 \/ Len(bytes) < n THEN {}
             ELSE IF ~WellFormed(u) THEN {}
             ELSE {<<UnitValue(u)>> \o r : r \in Chars(SubSeq(bytes, n + 1, Len(bytes)))}

(* Escapes to UTF-16 units; what is not escaped stays a code point *)
RECURSIVE Unescaped(_)
Unescaped(cs) ==
    IF cs = <<>> THEN {<<>>}
    ELSE IF cs[1] < 32 \/ cs[1] = Quote THEN {}
    ELSE IF cs[1] # Backslash THEN {<<cs[1]>> \o r : r \in Unescaped(Tail(cs))}
    ELSE IF Len(cs) >= 2 /\ cs[2] \in DOMAIN Escapes
         THEN {<<Escapes[cs[2]]>> \o r : r \in Unescaped(SubSeq(cs, 3, Len(cs)))}
    ELSE IF Len(cs) >= 6 /\ cs[2] = 117 /\ \A i \in 3..6 : HexDigit(cs[i]) >= 0
         THEN {<<Codepoint(cs, 3)>> \o r : r \in Unescaped(SubSeq(cs, 7, Len(cs)))}
    ELSE {}

(* Pairs of surrogates to code points *)
RECURSIVE Paired(_)
Paired(us) ==
    IF us = <<>> THEN {<<>>}
    ELSE IF us[1] \in High
         THEN IF Len(us) >= 2 /\ us[2] \in Low
              THEN {<<65536 + (us[1] - 55296) * 1024 + (us[2] - 56320)>> \o r :
                        r \in Paired(SubSeq(us, 3, Len(us)))}
              ELSE {}
    ELSE IF us[1] \in Low THEN {}
    ELSE {<<us[1]>> \o r : r \in Paired(Tail(us))}

(* What stands between two quotes *)
StringMeaning(raw) == UNION {UNION {Paired(u) : u \in Unescaped(c)} : c \in Chars(raw)}

----------------------------------------------------------------------------
IsDigits(s) == s # <<>> /\ \A i \in DOMAIN s : s[i] \in Digit
IsInt(s) ==
    LET d == IF s # <<>> /\ s[1] = Minus THEN Tail(s) ELSE s
    IN  IsDigits(d) /\ (d[1] = 48 => Len(d) = 1)
IsFraction(s) == s = <<>> \/ (s[1] = 46 /\ IsDigits(Tail(s)))
IsExponent(s) ==
    s = <<>> \/ (/\ s[1] \in {69, 101}
                 /\ \/ IsDigits(Tail(s))
                    \/ Len(s) > 1 /\ s[2] \in {43, 45} /\ IsDigits(SubSeq(s, 3, Len(s))))
IsNumber(s) ==
    \E i \in 0..Len(s) : \E j \in i..Len(s) :
        IsInt(SubSeq(s, 1, i)) /\ IsFraction(SubSeq(s, i + 1, j)) /\ IsExponent(SubSeq(s, j + 1, Len(s)))

NumberMeaning(s) ==
    LET n == IF s[1] = Minus THEN -Decimal(Tail(s)) ELSE Decimal(s)
    IN  IF ~IsNumber(s) THEN {}
        ELSE IF ~IsInt(s) THEN IF Infinite(s) THEN {} ELSE {<<"float">>}
        ELSE IF n < IntegerMin \/ n > UnsignedMax THEN {<<"float">>}
        ELSE {<<"int", n>>}

----------------------------------------------------------------------------
(* Texts as sequences of tokens: a character, or a scalar with its meaning *)
IsScalar(k) == k[1] \in {"str", "int", "float", "true", "false", "null"}

RECURSIVE ListMeaning(_), MemberMeaning(_)

ValueMeaning(ts) ==
    LET inner == SubSeq(ts, 2, Len(ts) - 1)
    IN  IF ts = <<>> THEN {}
        ELSE IF Len(ts) = 1 THEN {k \in {ts[1]} : IsScalar(k)}
        ELSE IF ts[1] = <<"[">> /\ Last(ts) = <<"]">>
             THEN IF inner = <<>> THEN {<<"arr", <<>>>>} ELSE {<<"arr", l>> : l \in ListMeaning(inner)}
        ELSE IF ts[1] = <<"{">> /\ Last(ts) = <<"}">>
             THEN IF inner = <<>> THEN {<<"obj", <<>>>>} ELSE {<<"obj", m>> : m \in MemberMeaning(inner)}
        ELSE {}

Splits(ts) == {i \in DOMAIN ts : ts[i] = <<",">>}

ListMeaning(ts) ==
    {<<v>> : v \in ValueMeaning(ts)}
    \cup UNION {{<<v>> \o l : v \in ValueMeaning(SubSeq(ts, 1, i - 1)),
                             l \in ListMeaning(SubSeq(ts, i + 1, Len(ts)))} : i \in Splits(ts)}

(* One member, as a function of its key *)
PairMeaning(ts) ==
    IF Len(ts) >= 3 /\ ts[1][1] = "str" /\ ts[2] = <<":">>
    THEN {[k \in {ts[1][2]} |-> v] : v \in ValueMeaning(SubSeq(ts, 3, Len(ts)))}
    ELSE {}

(* Of members with the same key the last one counts *)
MemberMeaning(ts) ==
    PairMeaning(ts)
    \cup UNION {{m @@ p : p \in PairMeaning(SubSeq(ts, 1, i - 1)),
                         m \in MemberMeaning(SubSeq(ts, i + 1, Len(ts)))} : i \in Splits(ts)}

(* A null byte between tokens ends the text *)
TextMeaning(ts) ==
    LET ends == {i \in DOMAIN ts : ts[i] = <<"nul">>}
    IN  ValueMeaning(IF ends = {} THEN ts
                     ELSE SubSeq(ts, 1, (CHOOSE i \in ends : \A j \in ends : i <= j) - 1))
============================================================================
