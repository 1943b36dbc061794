----------------------------- MODULE JsonParser -----------------------------
(***************************************************************************)
(* The parser of src/ChatServer/thirdparty/json.hpp: sax_parse_internal    *)
(* with its stack of open arrays and objects, and the events of            *)
(* json_sax_dom_parser, which builds the value through pointers into the   *)
(* part that is already there.                                             *)
(*                                                                         *)
(* The loop has two halves: a value begins with the last token ("value"),  *)
(* or one is complete and the container it is in goes on ("evaluate"; this *)
(* is also where skip_to_state_evaluation leads).  One action is one half  *)
(* with the tokens it reads.                                               *)
(***************************************************************************)
EXTENDS JsonValue

VARIABLES
    text,       \* the message
    token,      \* last_token, its value and the place behind it
    phase,      \* value, evaluate, done
    states,     \* the open containers: array or object
    root,       \* the value so far
    ref_stack,  \* pointers to the open containers
    element,    \* object_element: the pointer to the last key's value
    verdict     \* none, value, parse_error, out_of_range

parser == <<token, phase, states, root, ref_stack, element, verdict>>

(* parser::parser reads the first token *)
ParserStart(t) ==
    [token |-> Scan(t, 1), phase |-> "value", states |-> <<>>, root |-> Null,
     ref_stack |-> <<>>, element |-> <<>>, verdict |-> "none"]

(* get_token after token k *)
TokenAfter(k) == Scan(text, k.next)

Stop(why) ==
    /\ phase' = "done"
    /\ verdict' = why
    /\ UNCHANGED <<text, token, states, root, ref_stack, element>>

----------------------------------------------------------------------------
(* handle_value: where the next value goes, and the root with it there *)
Place(r, refs, elem) ==
    IF refs = <<>> THEN <<>>
    ELSE LET top == Last(refs)
         IN  IF IsArray(At(r, top)) THEN Append(top, Len(At(r, top)[2]) + 1) ELSE elem

HandleValue(r, refs, elem, v) ==
    IF refs = <<>> THEN v
    ELSE LET top == Last(refs)
         IN  IF IsArray(At(r, top)) THEN Assign(r, top, EmplaceBack(At(r, top), v))
             ELSE Assign(r, elem, v)

(* start_object, start_array *)
Open(v) ==
    /\ root' = HandleValue(root, ref_stack, element, v)
    /\ ref_stack' = Append(ref_stack, Place(root, ref_stack, element))

(* key: the element is there before its value is read *)
WithKey(r, refs, k) == Assign(r, Last(refs), Touch(At(r, Last(refs)), k))

----------------------------------------------------------------------------
(* { } *)
ObjectEmpty ==
    \E one \in {TokenAfter(token)} :
        /\ phase = "value" /\ token.kind = "begin_object"
        /\ one.kind = "end_object"
        /\ token' = one
        /\ root' = HandleValue(root, ref_stack, element, EmptyObject)
        /\ phase' = "evaluate"
        /\ UNCHANGED <<text, states, ref_stack, element, verdict>>

(* { key : *)
ObjectBegins ==
    LET refs == Append(ref_stack, Place(root, ref_stack, element))
        r == HandleValue(root, ref_stack, element, EmptyObject)
    IN  /\ phase = "value" /\ token.kind = "begin_object"
        /\ \E one \in {TokenAfter(token)} :
              /\ one.kind = "value_string"
              /\ \E two \in {TokenAfter(one)} :
                    two.kind = "name_separator" /\ token' = TokenAfter(two)
              /\ root' = WithKey(r, refs, one.value[2])
              /\ element' = Append(Last(refs), one.value[2])
        /\ ref_stack' = refs
        /\ states' = Append(states, "object")
        /\ UNCHANGED <<text, phase, verdict>>

ObjectFails ==
    \E one \in {TokenAfter(token)} :
        /\ phase = "value" /\ token.kind = "begin_object"
        /\ one.kind # "end_object"
        /\ one.kind = "value_string" => TokenAfter(one).kind # "name_separator"
        /\ Stop("parse_error")

(* [ ] *)
ArrayEmpty ==
    \E one \in {TokenAfter(token)} :
        /\ phase = "value" /\ token.kind = "begin_array"
        /\ one.kind = "end_array"
        /\ token' = one
        /\ root' = HandleValue(root, ref_stack, element, EmptyArray)
        /\ phase' = "evaluate"
        /\ UNCHANGED <<text, states, ref_stack, element, verdict>>

ArrayBegins ==
    \E one \in {TokenAfter(token)} :
        /\ phase = "value" /\ token.kind = "begin_array"
        /\ one.kind # "end_array"
        /\ token' = one
        /\ Open(EmptyArray)
        /\ states' = Append(states, "array")
        /\ UNCHANGED <<text, phase, element, verdict>>

Scalars == {"value_float", "literal_false", "literal_null", "literal_true",
            "value_integer", "value_string", "value_unsigned"}

Scalar ==
    /\ phase = "value" /\ token.kind \in Scalars
    /\ token.kind = "value_float" => ~Infinite(token.value[2])
    /\ root' = HandleValue(root, ref_stack, element, token.value)
    /\ phase' = "evaluate"
    /\ UNCHANGED <<text, token, states, ref_stack, element, verdict>>

(* out_of_range 406 *)
FloatOverflows ==
    /\ phase = "value" /\ token.kind = "value_float"
    /\ Infinite(token.value[2])
    /\ Stop("out_of_range")

Unexpected ==
    /\ phase = "value"
    /\ token.kind \notin Scalars \cup {"begin_object", "begin_array"}
    /\ Stop("parse_error")

----------------------------------------------------------------------------
(* The whole text is read; strict: nothing may follow *)
Finish ==
    /\ phase = "evaluate" /\ states = <<>>
    /\ Stop(IF TokenAfter(token).kind = "end_of_input" THEN "value" ELSE "parse_error")

(* , in an array *)
NextElement ==
    \E one \in {TokenAfter(token)} :
        /\ phase = "evaluate" /\ states # <<>> /\ Last(states) = "array"
        /\ one.kind = "value_separator"
        /\ token' = TokenAfter(one)
        /\ phase' = "value"
        /\ UNCHANGED <<text, states, root, ref_stack, element, verdict>>

(* , key : in an object *)
NextMember ==
    /\ phase = "evaluate" /\ states # <<>> /\ Last(states) = "object"
    /\ \E one \in {TokenAfter(token)} :
          /\ one.kind = "value_separator"
          /\ \E key \in {TokenAfter(one)} :
                /\ key.kind = "value_string"
                /\ \E sep \in {TokenAfter(key)} :
                      sep.kind = "name_separator" /\ token' = TokenAfter(sep)
                /\ root' = WithKey(root, ref_stack, key.value[2])
                /\ element' = Append(Last(ref_stack), key.value[2])
    /\ phase' = "value"
    /\ UNCHANGED <<text, states, ref_stack, verdict>>

(* ] or }: the container is a complete value itself *)
Close ==
    \E one \in {TokenAfter(token)} :
        /\ phase = "evaluate" /\ states # <<>>
        /\ one.kind = IF Last(states) = "array" THEN "end_array" ELSE "end_object"
        /\ token' = one
        /\ ref_stack' = Front(ref_stack)
        /\ states' = Front(states)
        /\ UNCHANGED <<text, phase, root, element, verdict>>

MemberFails ==
    /\ phase = "evaluate" /\ states # <<>>
    /\ \E one \in {TokenAfter(token)} :
          /\ one.kind # IF Last(states) = "array" THEN "end_array" ELSE "end_object"
          /\ one.kind = "value_separator" =>
                /\ Last(states) = "object"
                /\ \E key \in {TokenAfter(one)} :
                      key.kind = "value_string" => TokenAfter(key).kind # "name_separator"
    /\ Stop("parse_error")

Parse ==
    \/ ObjectEmpty \/ ObjectBegins \/ ObjectFails \/ ArrayEmpty \/ ArrayBegins
    \/ Scalar \/ FloatOverflows \/ Unexpected
    \/ Finish \/ NextElement \/ NextMember \/ Close \/ MemberFails

----------------------------------------------------------------------------
(* A pointer of ref_stack stays valid while it is there: each points to     *)
(* the newest element of the container below it (an array that grew would   *)
(* have moved the others), or to an element of the object below it; and the *)
(* stack has the shape of states.                                           *)
PointersValid ==
    phase # "done" =>
      /\ Len(ref_stack) = Len(states)
      /\ \A i \in DOMAIN ref_stack :
           /\ At(root, ref_stack[i])[1] = states[i]
           /\ i > 1 =>
                LET below == ref_stack[i - 1]
                    k == Last(ref_stack[i])
                IN  /\ ref_stack[i] = Append(below, k)
                    /\ states[i - 1] = "object" \/ k = Len(At(root, below)[2])
      /\ (phase = "value" /\ states # <<>> /\ Last(states) = "object") =>
             element \in {Append(Last(ref_stack), k) : k \in DOMAIN At(root, Last(ref_stack))[2]}
============================================================================
