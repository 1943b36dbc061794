---------------------------- MODULE MCDirectory ----------------------------
(* Two clients on two pooled connections and two names: a client can       *)
(* insert while the other waits for its generated id, a name can be taken, *)
(* ids that do not exist can be asked for, and a renaming can be cut off   *)
(* before or after its UPDATE.  One client makes three requests, the other *)
(* two.                                                                    *)
EXTENDS Directory, TLC

CONSTANTS ann, ben, k1, k2, n1, n2

Symmetric == Permutations({ann, ben}) \cup Permutations({k1, k2}) \cup Permutations({n1, n2})

FiveRequests == asked[ann] + asked[ben] <= 5
============================================================================
