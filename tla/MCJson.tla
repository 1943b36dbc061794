------------------------------- MODULE MCJson -------------------------------
(* Families of messages that between them contain every kind of error, and *)
(* beside them the documents of the binary formats: a behaviour is about   *)
(* one message or about one document                                       *)
EXTENDS JsonMessage, MCFormats

Chunk(bytes, tok) == [bytes |-> bytes, tok |-> tok]
Mark(b, name) == Chunk(<<b>>, <<name>>)

Number(raw) == Chunk(raw, CHOOSE k \in {<<"bad">>} \cup NumberMeaning(raw) :
                              NumberMeaning(raw) # {} => k \in NumberMeaning(raw))
Str(raw) ==
    LET ms == StringMeaning(raw)
    IN  Chunk(<<Quote>> \o raw \o <<Quote>>,
              IF ms = {} THEN <<"bad">> ELSE <<"str", CHOOSE c \in ms : TRUE>>)

LBrace == Mark(123, "{")
RBrace == Mark(125, "}")
Comma == Mark(44, ",")
Colon == Mark(58, ":")
Int1 == Number(<<49>>)
True == Chunk(<<116, 114, 117, 101>>, <<"true">>)

(* Short texts, some of them JSON *)
Marks == {LBrace, RBrace, Mark(91, "["), Mark(93, "]"), Comma, Colon, Mark(0, "nul"),
          Int1, Str(<<97>>)}
Rare == {Mark(32, "ws"), True, Chunk(<<102, 97, 108, 115, 101>>, <<"false">>),
         Chunk(<<110, 117, 108, 108>>, <<"null">>), Chunk(<<110, 117, 108>>, <<"bad">>),
         Chunk(SubSeq(Bom, 1, 2), <<"bad">>)}
Apart(s) == \A i \in 1..(Len(s) - 1) : ~(s[i] = Int1 /\ s[i + 1] = Int1)
Short == {s \in UpTo(Marks, 5) \cup UpTo(Marks \cup Rare, 3) : Apart(s)}
Marked == {<<Chunk(Bom, <<"ws">>)>> \o s : s \in {r \in UpTo(Marks, 2) : Apart(r)}}

(* An object from key and value chunks *)
Member(k, v) == <<Str(k), Colon, v>>
RECURSIVE MemberList(_)
MemberList(ms) == IF Len(ms) = 1 THEN ms[1] ELSE ms[1] \o <<Comma>> \o MemberList(Tail(ms))
Object(ms) == <<LBrace>> \o (IF ms = <<>> THEN <<>> ELSE MemberList(ms)) \o <<RBrace>>

Digits(n) == Number(DumpInteger(n))
Chat == <<Member(MsgId, Digits(6)), Member(Id, Digits(1)), Member(ToId, Digits(2))>>
X == <<120>>

(* Chat messages with a string of the bytes that begin and end the ranges  *)
(* of UTF-8, of escapes, with a number, with a nested value                *)
Edges == {97, 9, 127, 128, 144, 160, 191, 193, 194, 224, 225, 237, 240, 241, 244, 245}
Slash(s) == <<Backslash>> \o s
U(a, b, c, d) == <<Backslash, 117, a, b, c, d>>
EscapeSet == {<<97>>, Slash(<<34>>), Slash(<<92>>), Slash(<<110>>), Slash(<<120>>),
           U(48, 48, 48, 49), U(48, 48, 101, 57), U(48, 56, 48, 48),
           U(100, 56, 51, 68), U(100, 101, 48, 48), <<Backslash, 117, 48, 48, 52>>}
Raws == UpTo(Edges, 3) \cup [1..4 -> Edges \ {9, 127, 193, 224, 237}]
        \cup {FlattenSeq(e) : e \in UpTo(EscapeSet, 3)}
WithString == {Object(<<Member(X, Str(r))>> \o Chat) : r \in Raws}
WithNumber == {Object(<<Member(ToId, Number(r))>> \o SubSeq(Chat, 1, 2)) :
                   r \in UpTo({43, 45, 46, 48, 49, 57, 101}, 4) \ {<<>>}}
              \cup {<<Number(r)>> : r \in [1..5 -> {43, 45, 46, 49, 101}]}
Nested == {SubSeq(Object(Chat), 1, 12) \o <<Comma, Str(X), Colon>> \o s \o <<RBrace>> :
               s \in {r \in UpTo(Marks \ {Mark(0, "nul")}, 4) : Apart(r)}}

(* Requests to every handler, with fields left out or of another type *)
Values == {Int1, Digits(-3), Digits(100), Str(<<97>>), True, Number(<<49, 46, 49>>)}
Fields(m) == Handlers[m].ints \cup Handlers[m].strings
Request(id, f) ==
    LET keys == SetToSortSeq({k \in DOMAIN f : f[k] # Comma}, Before)
    IN  Object(<<Member(MsgId, id)>> \o [i \in DOMAIN keys |-> Member(keys[i], f[keys[i]])])
Requests == UNION {{Request(Digits(m), f) : f \in [Fields(m) -> Values \cup {Comma}]} : m \in DOMAIN Handlers}
            \cup {Request(v, <<>>) : v \in Values \cup {Digits(5), Comma}}
(* The last member of a name counts *)
Doubled == {Object(<<Member(k, v), Member(k, w)>> \o Chat) : k \in {X, ToId, Id}, v \in Values, w \in Values}

(* Widths: the proportions of int, int64_t and uint64_t *)
MCIntMin == -16
MCIntegerMin == -128

MCSources == Short \cup Marked \cup WithString \cup WithNumber \cup Nested \cup Requests \cup Doubled

NoDocument ==
    /\ format = "cbor" /\ opt = NoOpt /\ stage = "none"
    /\ value = Null /\ wire = <<>> /\ result = Failed

NoMessage ==
    /\ text = <<>> /\ meant = {} /\ token = ParserStart(<<>>).token
    /\ phase = "value" /\ states = <<>> /\ root = Null /\ ref_stack = <<>>
    /\ element = <<>> /\ verdict = "none"
    /\ hop = 1 /\ outcome = "none" /\ args = NoArgs

MCInit == (Init /\ NoDocument) \/ (NoMessage /\ FInit)
MCNext == (stage = "none" /\ Next /\ UNCHANGED fvars) \/ (stage # "none" /\ FNext /\ UNCHANGED vars)
MCSpec == MCInit /\ [][MCNext]_<<vars, fvars>>
============================================================================
