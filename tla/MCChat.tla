------------------------------- MODULE MCChat -------------------------------
(* Small instances of ChatHistory.  Alice may come back on further         *)
(* connections, to the same or to the other server (a1, a2, a3); Bob (b1)  *)
(* writes to her, or to a group with Carol, who is never online, in it.    *)
EXTENDS ChatHistory, TLC

CONSTANTS s1, s2, alice, bob, carol, a1, a2, a3, b1, m1, m2

MCUserOf ==
    [c \in Conns |-> IF c = b1 THEN bob ELSE alice]

(* One server for all, or two: Alice's a3 and Bob are on the other *)
OnOne == [c \in Conns |-> s1]
OnTwo == [c \in Conns |-> IF c \in {a1, a2} THEN s1 ELSE s2]

NoFriends == [u \in Users |-> {}]
AliceAndBob ==
    [u \in Users |-> IF u = alice THEN {bob} ELSE IF u = bob THEN {alice} ELSE {}]

FromBob == [m \in Msgs |-> bob]
ToAlice == [m \in Msgs |-> {alice}]
ToGroup == [m \in Msgs |-> {alice, carol}]

(* State constraint of the message runs: Bob logs in before Alice does     *)
(* anything, and stays; Alice's connections send nothing before a login.   *)
BobStays ==
    /\ link[b1] = "open"
    /\ client[b1] # "out"
    /\ \/ client[b1] = "in" /\ pc[b1] \in {"idle", "send"}
       \/ \A c \in Conns \ {b1} : client[c] = "fresh"
    /\ \A c \in Conns : client[c] = "fresh" => link[c] = "open" /\ c \notin connectionLastTime

(* ... and behaviours are followed only until the history releases the     *)
(* service from its promises, after which PresenceExact and ExactlyOnce    *)
(* say nothing (raced and disturbed never shrink).                         *)
BobStaysBound ==
    /\ BobStays
    /\ raced = {}
    /\ \A m \in Msgs : \E u \in To[m] : <<m, u>> \notin disturbed

(* ... and Alice logs in on at most two of her connections (any two)       *)
AliceUses == {c \in Conns \ {b1} : client[c] # "fresh"}
TwoSessions == BobStaysBound /\ Cardinality(AliceUses) <= 2

(* Alice logs in on one connection, and behaviours are followed only while *)
(* the history leaves one of the two views of a friend promised            *)
Released == <<b1, alice>> \in blurred /\ \E c \in AliceUses : <<c, bob>> \in blurred

OneLogin == BobStays /\ Cardinality(AliceUses) <= 1 /\ ~Released

(* State constraint: no connection is shut down by the server *)
NoShutdown == \A c \in Conns : link[c] # "half"

(* Alice's connections to one server are interchangeable *)
AliceSymmetric == Permutations({a1, a2})
============================================================================
