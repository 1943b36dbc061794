---------------------------- MODULE MCLifecycle ----------------------------
(* One user with connections to two servers (a1 and a2 to one, a3 to the    *)
(* other).                                                                 *)
EXTENDS ChatLifecycle, TLC

CONSTANTS s1, s2, alice, a1, a2, a3

MCServerOf == [c \in Conns |-> IF c = a3 THEN s2 ELSE s1]
MCUserOf == [c \in Conns |-> alice]
MCFriends == [u \in Users |-> {}]
NoMsg == [m \in Msgs |-> alice]
NoAddressee == [m \in Msgs |-> {}]

(* State constraint: followed until a lost write, exit or crash meets two  *)
(* session handlers of one user at the same time, after which nothing is   *)
(* promised (raced never shrinks)                                          *)
NotRaced == raced = {}
============================================================================
