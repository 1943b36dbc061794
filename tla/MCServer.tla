------------------------------ MODULE MCServer ------------------------------
(* What one server process keeps behind a mutex or in a buffer: the pool   *)
(* of database connections, the session table, the bytes of a connection.  *)
(* They share no state: a behaviour is about one of them, and the others   *)
(* stay as they began.                                                     *)
EXTENDS DbPool, SessionTable, Framing, TLC

CONSTANT d1

VARIABLE part       \* which of them moves

(* Two users, each of whom may log in and out on any of three connections, *)
(* any number of times, on three pairs of a user and a connection, with    *)
(* two handlers at a time                                                  *)
MCSymmetry == Permutations(Sockets) \cup Permutations(Users)

ThreePairs ==
    Cardinality({x \in Sockets \X Users : x[2] \in logins[x[1]]}) <= 3

TwoHandlers == Cardinality({c \in Sockets : at[c] # "idle"}) <= 2

(* The shortest message, one of two, of Limit and of one byte more *)
Run(b, n) == [i \in 1..n |-> b]
MCBodies == {Run(2, 1), <<3, 2>>, Run(3, Limit), Run(2, Limit + 1)}

(* It does not matter which connection the pool opened first *)
MCInit ==
    /\ Init /\ TableInit /\ FramingInit
    /\ idle = <<d1>>
    /\ part \in {"pool", "table", "bytes"}

(* The bytes come to rest when all is sent or the client has hung up, the  *)
(* session table when all sockets are closed; the pool never does.         *)
AtRest ==
    \/ part = "bytes" /\ (wire = [s \in Sides |-> <<>>] \/ ~open)
    \/ part = "table" /\ \A c \in Sockets : link[c] = "down" /\ at[c] = "idle"

MCNext ==
    /\ UNCHANGED part
    /\ \/ part = "pool" /\ Next /\ UNCHANGED <<tableVars, framing>>
       \/ part = "table" /\ TableNext /\ UNCHANGED <<vars, framing>>
       \/ part = "bytes" /\ FramingNext /\ UNCHANGED <<vars, tableVars>>
       \/ AtRest /\ UNCHANGED <<vars, tableVars, framing>>

MCSpec == MCInit /\ [][MCNext]_<<part, vars, tableVars, framing>>
============================================================================
