---------------------------- MODULE MCChatSession -----------------------------
(* Requests differ in nothing but their names, and so do session ids.        *)
EXTENDS ChatSession

Symmetry == Permutations(Requests) \cup Permutations(SessionIds)
===============================================================================
