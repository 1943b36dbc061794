----------------------------- MODULE MCClients -----------------------------
(* Either client, whose user has two accounts: the other one is not started *)
EXTENDS QtSession, ConsoleClient, TLC

CONSTANTS alice, bob

MCHas == (alice :> {"friends", "groups"}) @@ (bob :> {"groups"})

MCInit == Init /\ ConsoleOff
MCNext == (main = "off" /\ Next /\ UNCHANGED console) \/ (c = Start /\ ConsoleNext /\ UNCHANGED c)
MCSpec == MCInit /\ [][MCNext]_<<c, console>> /\ Fairness /\ ConsoleFairness
============================================================================
