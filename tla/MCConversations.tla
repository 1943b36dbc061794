-------------------------- MODULE MCConversations --------------------------
(* Instance of Conversations: a friend and a group with the same id.        *)
EXTENDS Conversations

(* Bound: at most two frames wait in the kernel, which is enough for a      *)
(* message or a state beside the answer to a login                          *)
ShortQueue == Len(socket) <= 2
=============================================================================
