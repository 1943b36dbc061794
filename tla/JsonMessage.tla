---------------------------- MODULE JsonMessage ----------------------------
(***************************************************************************)
(* The life of one message: json::parse in ChatServer::onMessage, the      *)
(* handler that msgid selects and the fields it reads, and for a chat      *)
(* message js.dump() to the other server, which parses it once more        *)
(* (handleRedisSubscribeMessage) and dumps it to its client (sendJson).    *)
(*                                                                         *)
(* A source is a sequence of chunks: bytes with the token of JsonReference *)
(* they stand for ("ws" for none, "bad" for malformed ones).  The names of *)
(* the fields are shortened to a letter.                                   *)
(***************************************************************************)
EXTENDS JsonParser, JsonDump, JsonReference

CONSTANT Sources

VARIABLES
    meant,      \* what the first text means: a set of one meaning or none
    hop,        \* 1: from the client, 2: from Redis
    outcome,    \* what became of the message
    args        \* what its handler read

vars == <<text, parser, meant, hop, outcome, args>>

----------------------------------------------------------------------------
(* js["msgid"] ... *)
MsgId == <<109>>
Id == <<105>>
Password == <<112>>
Name == <<110>>
ToId == <<116>>
FriendId == <<102>>
GroupId == <<103>>
GroupName == <<99>>
GroupDesc == <<100>>

Handler(needs, ints, strings) == [needs |-> needs, ints |-> ints, strings |-> strings]

(* Mutant: oneChat reads the addressee without looking for it *)
HandlersHasty ==
    (1 :> Handler({Id, Password}, {Id}, {Password})) @@ (6 :> Handler({Id}, {Id, ToId}, {}))

(* _msgHandlerMap: the fields each handler looks for with contains, and    *)
(* the ones it then reads as int and as string                             *)
Handlers ==
    (1 :> Handler({Id, Password}, {Id}, {Password}))                     \* login
    @@ (3 :> Handler({Id}, {Id}, {}))                                    \* loginout
    @@ (4 :> Handler({Name, Password}, {}, {Name, Password}))            \* reg
    @@ (6 :> Handler({Id, ToId}, {Id, ToId}, {}))                        \* oneChat
    @@ (7 :> Handler({Id, FriendId}, {Id, FriendId}, {}))                \* addFriend
    @@ (8 :> Handler({Id, GroupName}, {Id}, {GroupName, GroupDesc}))     \* createGroup
    @@ (9 :> Handler({Id, GroupId}, {Id, GroupId}, {}))                  \* addGroup
    @@ (10 :> Handler({Id, GroupId}, {Id, GroupId}, {}))                 \* groupChat
    @@ (12 :> Handler({Id, Name}, {Id}, {Name}))                         \* updateName
    @@ (13 :> Handler({}, {}, {}))                                       \* heartbeat

Chats == {6, 10}

NoArgs == [msgid |-> 0, ints |-> <<>>, strings |-> <<>>]

(* Every function that picks an element of the set Of(k) for each k *)
Picks(keys, Of(_)) ==
    {f \in [keys -> UNION {Of(k) : k \in keys}] : \A k \in keys : f[k] \in Of(k)}

----------------------------------------------------------------------------
Begin(t) ==
    \E p \in {ParserStart(t)} :
        /\ text' = t
        /\ token' = p.token /\ phase' = p.phase /\ states' = p.states /\ root' = p.root
        /\ ref_stack' = p.ref_stack /\ element' = p.element /\ verdict' = p.verdict

SourceBytes(s) == FlattenSeq([i \in DOMAIN s |-> s[i].bytes])
SourceTokens(s) == SelectSeq([i \in DOMAIN s |-> s[i].tok], LAMBDA k : k # <<"ws">>)

Init ==
    \E s \in Sources :
        /\ text = SourceBytes(s)
        /\ meant = TextMeaning(SourceTokens(s))
        /\ token = ParserStart(text).token
        /\ phase = "value" /\ states = <<>> /\ root = Null /\ ref_stack = <<>>
        /\ element = <<>> /\ verdict = "none"
        /\ hop = 1
        /\ outcome = "none"
        /\ args = NoArgs

(* One step of json::parse, here or there *)
ParseStep == Parse /\ UNCHANGED <<meant, hop, outcome, args>>

Read == hop = 1 /\ phase = "done" /\ outcome = "none"

Becomes(what) ==
    /\ outcome' = what
    /\ UNCHANGED <<text, parser, meant, hop, args>>

(* parse_error or out_of_range is caught: the message is logged *)
NotJson == Read /\ verdict # "value" /\ Becomes("rejected")

MsgIds == UNION {GetInt(v) : v \in Element(root, MsgId)}
IntsAt(k) == UNION {GetInt(v) : v \in Element(root, k)}
StringsAt(k) == UNION {GetString(v) : v \in Element(root, k)}

(* js["msgid"].get<int>() throws type_error *)
NoMsgId == Read /\ verdict = "value" /\ MsgIds = {} /\ Becomes("dropped")

(* getHandler's default *)
Unknown ==
    /\ Read /\ verdict = "value"
    /\ \E m \in MsgIds : m \notin DOMAIN Handlers
    /\ Becomes("unknown")

(* A handler of the map: a field is missing, has the wrong type, or all    *)
(* are read                                                                *)
Refuse ==
    /\ Read /\ verdict = "value"
    /\ \E m \in MsgIds \cap DOMAIN Handlers : \E k \in Handlers[m].needs : ~HasKey(root, k)
    /\ Becomes("refused")

Handle ==
    /\ Read /\ verdict = "value"
    /\ \E m \in MsgIds \cap DOMAIN Handlers :
         /\ \A k \in Handlers[m].needs : HasKey(root, k)
         /\ \E i \in Picks(Handlers[m].ints, IntsAt) : \E s \in Picks(Handlers[m].strings, StringsAt) :
                args' = [msgid |-> m, ints |-> i, strings |-> s]
    /\ outcome' = "handled"
    /\ UNCHANGED <<text, parser, meant, hop>>

WrongType ==
    /\ Read /\ verdict = "value"
    /\ \E m \in MsgIds \cap DOMAIN Handlers :
         /\ \A k \in Handlers[m].needs : HasKey(root, k)
         /\ \/ \E k \in Handlers[m].ints : IntsAt(k) = {}
            \/ \E k \in Handlers[m].strings : StringsAt(k) = {}
    /\ Becomes("dropped")

(* oneChat and groupChat: the message goes on as js.dump().  One with a    *)
(* float is not followed further.                                          *)
Forward ==
    /\ hop = 1 /\ outcome = "handled" /\ args.msgid \in Chats
    /\ ~HasFloat(root)
    /\ \E d \in {Dump(root)} :
           \/ d.ok /\ Begin(d.bytes) /\ hop' = 2 /\ UNCHANGED <<meant, outcome, args>>
           \/ ~d.ok /\ Becomes("unsent")

(* handleRedisSubscribeMessage for a client of this server: the packet     *)
(* that sendJson makes, or an exception that is caught                     *)
Deliver ==
    /\ hop = 2 /\ phase = "done" /\ outcome = "handled"
    /\ \E d \in {Dump(root)} :
           \/ /\ verdict = "value" /\ d.ok
              /\ text' = d.bytes
              /\ outcome' = "delivered"
              /\ UNCHANGED <<parser, meant, hop, args>>
           \/ ~(verdict = "value" /\ d.ok) /\ Becomes("lost")

(* Nothing more happens to the message.  Anything else that has no next    *)
(* step is a deadlock: bytes for which the code has no case.               *)
Over ==
    /\ \/ outcome \notin {"none", "handled"}
       \/ outcome = "handled" /\ hop = 1 /\ (args.msgid \notin Chats \/ HasFloat(root))
    /\ UNCHANGED vars

Next ==
    \/ ParseStep \/ NotJson \/ NoMsgId \/ Unknown \/ Refuse \/ Handle \/ WrongType
    \/ Forward \/ Deliver \/ Over

Spec == Init /\ [][Next]_vars

----------------------------------------------------------------------------
(* The meaning of a value *)
RECURSIVE Meaning(_)
Meaning(v) ==
    CASE v[1] = "string" -> <<"str", CHOOSE c \in Chars(v[2]) \cup {<<>>} : Chars(v[2]) # {} => c \in Chars(v[2])>>
      [] v[1] \in {"number_unsigned", "number_integer"} -> <<"int", v[2]>>
      [] v[1] = "number_float" -> <<"float">>
      [] v[1] = "boolean" -> IF v[2] THEN <<"true">> ELSE <<"false">>
      [] v[1] = "array" -> <<"arr", [i \in DOMAIN v[2] |-> Meaning(v[2][i])]>>
      [] v[1] = "object" ->
             <<"obj", [c \in UNION {Chars(k) : k \in DOMAIN v[2]} |->
                          Meaning(v[2][CHOOSE k \in DOMAIN v[2] : c \in Chars(k)])]>>
      [] OTHER -> Null

(* json::parse accepts exactly the texts that are JSON, up to a null byte, *)
(* and builds the value they mean: escapes and surrogate pairs, overlong   *)
(* and truncated UTF-8, every form of number, nesting, the last of several *)
(* members with one key.                                                   *)
ParsedAsMeant ==
    (phase = "done" /\ hop = 1) =>
        IF meant = {} THEN verdict # "value" ELSE verdict = "value" /\ Meaning(root) \in meant

HasMember(m, k) == m[1] = "obj" /\ k \in DOMAIN m[2]
MeantInt(m, k) == HasMember(m, k) /\ m[2][k][1] = "int" /\ m[2][k][2] \in Ints
MeantString(m, k) == HasMember(m, k) /\ m[2][k][1] = "str"

(* The one field that a handler reads without looking for it is the        *)
(* description of a new group                                              *)
Unlooked(id) == IF id = 8 THEN {GroupDesc} ELSE {}

(* Every message that parses gets the answer its meaning asks for: with    *)
(* all fields of its msgid, of their types, the handler runs on the values *)
(* that were meant; without one of the fields that the handler reads (id,  *)
(* password, name, toid, friendid, groupid, groupname), whatever the       *)
(* others are, the request is refused by the handler itself (a login or a  *)
(* registration is then answered) and not dropped by an exception.         *)
(* createGroup alone reads a field, groupdesc, that it has not looked for: *)
(* a request without it ends in the exception, and with no answer.         *)
HandledAsMeant ==
    \A m \in meant : (outcome # "none" /\ MeantInt(m, MsgId)) =>
        LET id == m[2][MsgId][2]
            h == Handlers[id]
            Right == (\A k \in h.ints : MeantInt(m, k)) /\ (\A k \in h.strings : MeantString(m, k))
            Missing == {k \in h.ints \cup h.strings : ~HasMember(m, k)}
        IN  IF id \notin DOMAIN Handlers THEN outcome = "unknown"
            ELSE /\ Right =>
                       /\ outcome \notin {"refused", "dropped"}
                       /\ args.msgid = id
                       /\ \A k \in h.ints : args.ints[k] = m[2][k][2]
                       /\ \A k \in h.strings : Chars(args.strings[k]) = {m[2][k][2]}
                 /\ outcome = "refused" <=> Missing \ Unlooked(id) # {}
                 /\ (Missing # {} /\ Missing \subseteq Unlooked(id)) => outcome = "dropped"

(* A chat message that was accepted can always be dumped, and reaches the  *)
(* client of the other server with the meaning it had.                     *)
ForwardedWhole ==
    /\ outcome \notin {"unsent", "lost"}
    /\ outcome = "delivered" => Meaning(root) \in meant

RECURSIVE StringsOf(_)
StringsOf(v) ==
    CASE v[1] = "string" -> {v[2]}
      [] v[1] = "array" -> UNION {StringsOf(v[2][i]) : i \in DOMAIN v[2]}
      [] v[1] = "object" -> DOMAIN v[2] \cup UNION {StringsOf(v[2][k]) : k \in DOMAIN v[2]}
      [] OTHER -> {}

(* dump_escaped checks for room once per code point, after it is written:  *)
(* no code point is ever written past the end of string_buffer.            *)
DumpInBounds ==
    (phase = "done" /\ verdict = "value") =>
        \A s \in StringsOf(root) : DumpEscaped(s).peak <= StringBuffer

(* Neither the parser nor the serializer leaves its memory *)
InMemory == PointersValid /\ DumpInBounds
============================================================================
