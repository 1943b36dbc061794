----------------------------- MODULE MCFormats -----------------------------
(* Values at the edges of every encoding of the binary formats *)
EXTENDS JsonFormats

UpTo(S, n) == UNION {[1..k -> S] : k \in 0..n}
Same8(b) == [i \in 1..8 |-> b]

(* 0, 5, and the last and first numbers of every width *)
Borders ==
    {Widen(b, 0) : b \in
       {<<0>>, <<5>>, <<23>>, <<24>>, <<31>>, <<32>>, <<127>>, <<128>>, <<255>>, <<1, 0>>,
        <<127, 255>>, <<128, 0>>, <<255, 255>>, <<1, 0, 0>>,
        <<127, 255, 255, 255>>, <<128, 0, 0, 0>>, <<255, 255, 255, 255>>, <<1, 0, 0, 0, 0>>,
        <<127, 255, 255, 255, 255, 255, 255, 255>>}}
Uint(b) == <<"number_unsigned", b>>
Sint(b) == <<"number_integer", b>>
Pi == <<"number_float", <<64, 9, 33, 251, 84, 68, 45, 24>>>>
Text(s) == <<"string", s>>
List(s) == <<"array", s>>
Dict(f) == <<"object", f>>
Times(x, n) == [i \in 1..n |-> x]
Key(n) == Times(107, n)

Texts == {Text(Times(97, n)) : n \in {0, 1, 2, 23, 24, 31, 32, 127, 128, 255, 256}}
         \cup {Text(s) : s \in {<<0>>, <<78>>, <<97, 0>>, <<255, 93>>, <<125>>}}
Atoms == {Uint(b) : b \in Borders \cup {Same8(255), [Same8(0) EXCEPT ![1] = 128]}}
         \cup {Sint(b) : b \in Borders} \cup {Sint(Complement(b)) : b \in Borders}
         \cup Texts \cup {Pi, Null, <<"boolean", TRUE>>, <<"boolean", FALSE>>}

Few == {Null, <<"boolean", TRUE>>, Uint(Widen(<<5>>, 0)), Sint(Complement(Widen(<<127>>, 0))),
        Uint(Widen(<<1, 0>>, 0)), Pi, Text(<<>>), Text(<<78>>), EmptyArray, EmptyObject}
Lists == {List(s) : s \in UpTo(Few, 2)} \cup {List(Times(x, n)) : x \in Few, n \in {11, 15, 16, 23, 24}}
Dicts == {Dict(f) : f \in UNION {[ks -> Few] : ks \in {{}, {Key(0)}, {Key(1)}, {Key(1), Key(2)}, {<<107, 0>>}}}}
         \cup {Dict([k \in {Key(i) : i \in 1..n} |-> Null]) : n \in {15, 16, 23, 24, 31, 32}}
Nests == {List(<<List(<<x>>), Dict(Key(1) :> x)>>) : x \in Few}
         \cup {Dict(Key(1) :> Dict(Key(2) :> List(<<x, x>>))) : x \in Few}

MCDocuments == Atoms \cup Lists \cup Dicts \cup Nests \cup {Dict(Key(1) :> x) : x \in Atoms \cup Lists}

MCPlain ==
    LET some == {Null, Uint(Widen(<<5>>, 0)), Text(<<78>>)}
    IN  Atoms \cup {List(s) : s \in UpTo(some \cup {Pi, EmptyArray}, 2)}
        \cup {Dict(f) : f \in UNION {[ks -> some] : ks \in {{}, {Key(1)}, {Key(1), Key(2)}}}}

(* Every first byte, with up to two behind it *)
MCRawInputs == {<<b>> \o s : b \in 0..255, s \in UpTo({0, 1, 65, 78, 93, 255}, 2)}
============================================================================
