----------------------------- MODULE ChatSessions -----------------------------
(***************************************************************************)
(* The app and its gateway at work on one wallet: the same chain sessions, *)
(* the same SQLite file, no common lock.                                   *)
(***************************************************************************)
EXTENDS LocalChat, GatewayRecords

vars == <<chain, storeVars, localVars, gatewayVars>>

TypeOK == ChainType /\ StoreType /\ LocalType /\ GatewayType

Init == ChainInit /\ StoreInit /\ LocalInit /\ GatewayInit

SessionExpires(s) == Expire(s) /\ UNCHANGED <<storeVars, localVars, gatewayVars>>

(* The process dies or the user quits, and the app starts again: the       *)
(* database file and the chain are all that is left.                       *)
AppRestart ==
    /\ "crash" \in Faults
    /\ mu' = Idle
    /\ flow' = [f \in Flows |->
                  IF flow[f].pc = "new" THEN flow[f] ELSE [flow[f] EXCEPT !.pc = "gone"]]
    /\ prompt' = [p \in Prompts |->
                  IF prompt[p].pc = "idle" THEN prompt[p] ELSE [prompt[p] EXCEPT !.pc = "done"]]
    /\ serving' = FALSE
    /\ req' = [r \in Requests |->
                  IF req[r].pc = "new" THEN req[r] ELSE [req[r] EXCEPT !.pc = "done"]]
    /\ UNCHANGED <<run, chatIDMap, chain, storeVars>>

Next ==
    \/ LocalNext /\ UNCHANGED gatewayVars
    \/ GatewayNext /\ UNCHANGED localVars
    \/ \E s \in Sessions : SessionExpires(s)
    \/ AppRestart

Spec == Init /\ [][Next]_vars

(* The home screen's 45 s timer calls GetConversations for as long as the  *)
(* app runs (home_screen.dart:183), and a bridge function that was entered *)
(* returns.                                                                *)
Fairness ==
    /\ WF_vars(ListSnapshot /\ UNCHANGED gatewayVars)
    /\ WF_vars(ListReconcile /\ UNCHANGED gatewayVars)
    /\ \A f \in Flows : WF_vars(ClaimDraft(f) /\ UNCHANGED gatewayVars)
    /\ WF_vars((DeleteClose \/ DeleteClear \/ DeleteRows \/ CloseClear) /\ UNCHANGED gatewayVars)

FairSpec == Spec /\ Fairness
-----------------------------------------------------------------------------
(* A row is bound only to a session that was opened, and opened for the    *)
(* row's own model, however lookups, opens, expiry, claims, resumes,       *)
(* retries and restarts interleave: a prompt sent in a resumed thread      *)
(* never goes to another model's session (chat_screen.dart _send,          *)
(* session.go findExistingSession).                                        *)
BindingsAgreeWithChain ==
    \A c \in ConvIds, s \in Sessions :
        c \in BoundTo(s) => OpenedFor(s, rows[c].model)

(* The thread a chat screen shows keeps its row for as long as the screen  *)
(* is there: neither another screen's draft cleanup nor a delete takes it  *)
(* away (api.go ClaimEmptyDraftForModel, DeleteConversation).              *)
ScreenThreadExists ==
    \A f \in Flows : flow[f].pc \in OnScreen /\ flow[f].conv # None => IsRow(flow[f].conv)

(* A stored message disappears only when the user deletes its own thread:  *)
(* not through the draft cleanup, even when a late reply turns a draft     *)
(* into a thread while it runs (store.go DeleteOtherEmptyConversations).   *)
HistoryKept ==
    [][\A x \in msgs : x \notin msgs' => mu.op = "deleteRows" /\ mu.conv = x.conv]_vars

(* The rows of API traffic are an audit trail: only the user's delete of   *)
(* that row removes it, and no screen's claim of a draft ever holds one    *)
(* (store.go:718-722, 748-750).                                            *)
ApiRowsKept ==
    [][\A c \in ConvIds : (IsRow(c) /\ rows[c].source = "api") =>
          /\ ~IsRow(c)' => mu.op = "deleteRows" /\ mu.conv = c
          /\ ~(mu'.op = "claim" /\ mu'.conv = c)]_vars

(* Requests of one gateway run without an X-Chat-Id that got the same      *)
(* session got the same conversation id, also when they arrived together   *)
(* and before the row existed (handlers.go:305-308).                       *)
SessionRequestsShareRow ==
    \A q, r \in Requests :
        /\ req[q].conv # None /\ req[r].conv # None
        /\ req[q].chat = None /\ req[r].chat = None
        /\ req[q].run = req[r].run
        /\ req[q].session = req[r].session
        => req[q].conv = req[r].conv

(* No session has two gateway rows bound to it, also after a restart has   *)
(* emptied the map (handlers.go:305-311): as long as one gateway serves at *)
(* a time and the store answers its lookups.                               *)
OneBoundApiRow ==
    \A s \in Sessions : \A c, d \in BoundTo(s) \cap ApiIds : c = d

(* Deleting a thread closes its session on chain only if no other thread   *)
(* is bound to it (store.go:805-806, api.go:1176): as long as no gateway   *)
(* binds rows meanwhile and the threads can be counted.                    *)
SharedSessionKept ==
    [][\A s \in Sessions :
          mu.op = "deleteClose" /\ mu'.op = "deleteClear" /\ mu.session = s
             => BoundTo(s) \subseteq {mu.conv}]_vars

(* A thread bound to a session that has ended or was closed is unbound, or *)
(* bound again, in the end: the list offers no dead session for ever.      *)
DeadBindingsCleared ==
    \A c \in ConvIds, s \in Sessions :
        (c \in BoundTo(s) /\ chain[s].state \in {"ended", "closed"}) ~> c \notin BoundTo(s)

(* The history as its users see it: what a row says of its thread, and the *)
(* ids that nobody has drawn or whose request has yet to insert the row.   *)
Threads == [c \in {d \in ConvIds : IsRow(d)} |->
               [model |-> rows[c].model, source |-> rows[c].source]]

FreshIds == {c \in ConvIds : \/ c \notin used
                             \/ \E r \in Requests : req[r].pc = "create" /\ req[r].conv = c}

History == INSTANCE ThreadHistory WITH
               Ids <- ConvIds, Messages <- Message,
               fresh <- FreshIds, threads <- Threads, said <- msgs

(* Screens, prompts, the list, deletes, API requests and restarts together *)
(* keep the promises of ThreadHistory: no late write, retry or restart     *)
(* brings a deleted thread back, no cleanup takes the last draft or a      *)
(* thread with messages, and a delete leaves no message of its thread      *)
(* behind (store.go 690-870).                                              *)
HistoryImplemented == History!Spec
=============================================================================
