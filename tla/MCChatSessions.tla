---------------------------- MODULE MCChatSessions ----------------------------
(***************************************************************************)
(* ChatSessions for TLC.  The sets are sets of model values, given in the  *)
(* configurations; ids of one kind are interchangeable, so safety runs may *)
(* identify states up to a permutation of them.                            *)
(***************************************************************************)
EXTENDS ChatSessions, TLC

Symmetry == Permutations(Sessions) \cup Permutations(UiIds) \cup Permutations(ApiIds)
               \cup Permutations(Flows) \cup Permutations(Requests) \cup Permutations(Chats)
               \cup Permutations(Models)
=============================================================================
