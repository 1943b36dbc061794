----------------------------- MODULE JsonValue -----------------------------
(***************************************************************************)
(* JSON values as the chat server uses them (class basic_json of           *)
(* src/ChatServer/thirdparty/json.hpp): a tuple of the value_t and the     *)
(* content, which is a function of the keys for an object and a sequence   *)
(* for an array.  A pointer into a value is a path: the keys and indexes   *)
(* that lead there.  Access yields a set: the possible results, none of    *)
(* them if it throws.                                                      *)
(***************************************************************************)
EXTENDS JsonLexer, SequencesExt

CONSTANTS IntMin, IntMax    \* int

Ints == IntMin..IntMax

EmptyObject == <<"object", <<>>>>
EmptyArray == <<"array", <<>>>>

IsObject(v) == v[1] = "object"
IsArray(v) == v[1] = "array"

(* array->emplace_back *)
EmplaceBack(v, x) == <<"array", Append(v[2], x)>>

(* The element of the std::map becomes x *)
SetKey(v, k, x) ==
    <<"object", [j \in DOMAIN v[2] \cup {k} |-> IF j = k THEN x ELSE v[2][j]]>>

(* object->operator[]: a key that is not there is added with null *)
Touch(v, k) == IF k \in DOMAIN v[2] THEN v ELSE SetKey(v, k, Null)

RECURSIVE At(_, _)
At(v, path) == IF path = <<>> THEN v ELSE At(v[2][Head(path)], Tail(path))

(* The value with x in the place of what the path leads to *)
RECURSIVE Assign(_, _, _)
Assign(v, path, x) ==
    IF path = <<>> THEN x
    ELSE LET k == Head(path)
             y == Assign(v[2][k], Tail(path), x)
         IN  <<v[1], [v[2] EXCEPT ![k] = y]>>

----------------------------------------------------------------------------
(* contains *)
HasKey(v, k) == IsObject(v) /\ k \in DOMAIN v[2]

(* operator[] with a key: null becomes an object, everything else but an   *)
(* object throws type_error 305                                            *)
Element(v, k) ==
    IF v = Null THEN {Null}
    ELSE IF IsObject(v) THEN {At(Touch(v, k), <<k>>)} ELSE {}

(* static_cast<int> of a wider integer keeps the low bits *)
Narrow(x) == ((x - IntMin) % (IntMax - IntMin + 1)) + IntMin

(* get<int>: booleans too; what a float gives depends on digits that are   *)
(* not modelled                                                            *)
GetInt(v) ==
    CASE v[1] \in {"number_unsigned", "number_integer"} -> {Narrow(v[2])}
      [] v[1] = "boolean" -> {IF v[2] THEN 1 ELSE 0}
      [] v[1] = "number_float" -> Ints
      [] OTHER -> {}

(* The conversion to std::string *)
GetString(v) == IF v[1] = "string" THEN {v[2]} ELSE {}

RECURSIVE HasFloat(_)
HasFloat(v) ==
    \/ v[1] = "number_float"
    \/ v[1] \in {"array", "object"} /\ \E k \in DOMAIN v[2] : HasFloat(v[2][k])
============================================================================
