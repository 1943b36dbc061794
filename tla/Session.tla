------------------------------ MODULE Session ------------------------------
(***************************************************************************)
(* What the client promises its user: the server takes the client's        *)
(* connection for a user only while that is the account the user has asked *)
(* for, and has neither cancelled nor left.                                *)
(***************************************************************************)
CONSTANTS Accounts, NoOne

VARIABLES user,    \* the account that is asked for
          server   \* the account that the server has logged in

Init == user = NoOne /\ server = NoOne

Ask(a) == server = NoOne /\ user' = a /\ UNCHANGED server
GiveUp == user' = NoOne /\ server' = NoOne
Enter == user # NoOne /\ server' = user /\ UNCHANGED user
Lose == server' = NoOne /\ UNCHANGED user

Next == (\E a \in Accounts : Ask(a)) \/ GiveUp \/ Enter \/ Lose

Spec == Init /\ [][Next]_<<user, server>>
============================================================================
