------------------------------ MODULE LocalChat ------------------------------
(***************************************************************************)
(* The app's own use of conversations: the chat screen's bootstrap and     *)
(* send (lib/screens/chat/chat_screen.dart), the home screen's list and    *)
(* delete, and the bridge functions of mobile/api.go they call.            *)
(*                                                                         *)
(* Every bridge function holds the global mutex mu from entry to return,   *)
(* so two of them never interleave; the gateway and the replies of         *)
(* prompts do not take mu.  A bridge function that reads first and writes  *)
(* later is split at that point, and mu records which one is inside.       *)
(* A flow is one chat screen, from its opening to its disposal.            *)
(***************************************************************************)
EXTENDS ConversationStore

CONSTANTS Flows,    \* chat screens opened during a run
          Prompts   \* prompts sent during a run

ASSUME LocalAssumption == Prompts \subseteq Authors

VARIABLES mu, flow, prompt

localVars == <<mu, flow, prompt>>

Idle == [op |-> "idle", conv |-> None, session |-> None, usable |-> {}]

OnScreen == {"claim", "reuse", "opening", "create", "bind", "ready", "sending",
             "reattach", "reopening", "rebind"}

LocalType ==
    /\ mu \in [op : {"idle", "claim", "list", "deleteClose", "deleteClear", "deleteRows",
                     "closeClear"},
               conv : ConvIds \cup {None}, session : Sessions \cup {None},
               usable : SUBSET Sessions]
    /\ flow \in [Flows -> [pc : OnScreen \cup {"new", "left", "gone"},
                           model : Models \cup {None}, conv : ConvIds \cup {None},
                           session : Sessions \cup {None}]]
    /\ prompt \in [Prompts -> [pc : {"idle", "streaming", "saveUser", "saveAssistant", "done",
                                    "failed"},
                               conv : ConvIds \cup {None}, flow : Flows \cup {None}]]

LocalInit ==
    /\ mu = Idle
    /\ flow = [f \in Flows |-> [pc |-> "new", model |-> None, conv |-> None, session |-> None]]
    /\ prompt = [p \in Prompts |-> [pc |-> "idle", conv |-> None, flow |-> None]]

MuFree == mu.op = "idle"

(* The home screen lies under the chat screen: it is reachable when no     *)
(* chat screen is mounted.                                                 *)
AtHome == \A f \in Flows : flow[f].pc \notin OnScreen

Goto(f, pc) == flow' = [flow EXCEPT ![f].pc = pc]
-----------------------------------------------------------------------------
(* ClaimEmptyDraftForModel, first half: pick the draft, if there is one.   *)
StartChat(f, m) ==
    /\ AtHome /\ MuFree
    /\ flow[f].pc = "new"
    /\ \/ /\ EmptyDrafts(m) = {}
          /\ flow' = [flow EXCEPT ![f] = [pc |-> "reuse", model |-> m, conv |-> None,
                                          session |-> None]]
          /\ UNCHANGED mu
       \/ \E c \in EmptyDrafts(m) :
            /\ flow' = [flow EXCEPT ![f] = [pc |-> "claim", model |-> m, conv |-> c,
                                            session |-> rows[c].session]]
            /\ mu' = [Idle EXCEPT !.op = "claim", !.conv = c]
       \/ /\ SelectFails
          /\ flow' = [flow EXCEPT ![f] = [pc |-> "gone", model |-> m, conv |-> None,
                                          session |-> None]]
          /\ UNCHANGED mu
    /\ UNCHANGED <<storeVars, chain, prompt>>

(* Second half: drop the model's other drafts, then show the claimed one.  *)
ClaimDraft(f) ==
    /\ mu.op = "claim"
    /\ flow[f].pc = "claim"
    /\ \/ /\ DeleteOtherEmptyConversationsForModel(flow[f].model, flow[f].conv)
          /\ Goto(f, IF flow[f].session # None THEN "ready" ELSE "reuse")
       \/ /\ Busy \/ SelectFails
          /\ UNCHANGED <<rows, msgs>>
          /\ Goto(f, "gone")
    /\ mu' = Idle
    /\ UNCHANGED <<used, chain, prompt>>

(* A session found or opened for a resumed thread, for a new thread, or    *)
(* for a claimed draft.                                                    *)
AfterSession(f) == CASE flow[f].pc \in {"reattach", "reopening"} -> "rebind"
                     [] flow[f].conv = None -> "create"
                     [] OTHER -> "bind"

GiveSession(f, s) == flow' = [flow EXCEPT ![f].session = s, ![f].pc = AfterSession(f)]

\* Mutated form: any session may be reused, whatever model it was opened for.
UsableForAny(f) == Usable

(* ReusableSessionForModel.                                                *)
Reusable(f) == UsableFor(flow[f].model)

ReuseSession(f) ==
    /\ MuFree
    /\ flow[f].pc \in {"reuse", "reattach"}
    /\ \/ \E s \in Reusable(f) : GiveSession(f, s)
       \/ /\ Reusable(f) = {}
          /\ Goto(f, IF flow[f].pc = "reattach" THEN "reopening" ELSE "opening")
       \/ /\ "readfail" \in Faults
          /\ Goto(f, IF flow[f].pc = "reattach" THEN "ready" ELSE "gone")
    /\ UNCHANGED <<storeVars, chain, mu, prompt>>

(* OpenSession.  The bootstrap runs it in a background isolate, which goes *)
(* on when the screen has left or its 120 s have run out ("left").         *)
OpenSession(f) ==
    /\ MuFree
    /\ flow[f].pc \in {"opening", "reopening", "left"}
    /\ \/ \E s \in Sessions :
            /\ ChainOpen(flow[f].model, s)
            /\ IF flow[f].pc = "left" THEN Goto(f, "gone") ELSE GiveSession(f, s)
       \/ /\ Goto(f, IF flow[f].pc = "reopening" THEN "ready" ELSE "gone")
          /\ UNCHANGED chain
    /\ UNCHANGED <<storeVars, mu, prompt>>

CreateConversation(f) ==
    /\ MuFree
    /\ flow[f].pc = "create"
    /\ \/ \E c \in UiIds \ used :
            /\ createConversation(c, flow[f].model, "ui")
            /\ used' = used \cup {c}
            /\ flow' = [flow EXCEPT ![f].conv = c, ![f].pc = "bind"]
       \/ Busy /\ Goto(f, "gone") /\ UNCHANGED <<rows, used>>
    /\ UNCHANGED <<msgs, chain, mu, prompt>>

(* When the write fails, the bootstrap ends in its error phase; a resumed  *)
(* thread stays on screen without a session.                               *)
BindConversation(f) ==
    /\ MuFree
    /\ flow[f].pc \in {"bind", "rebind"}
    /\ \/ SetConversationSession(flow[f].conv, flow[f].session) /\ Goto(f, "ready")
       \/ /\ Busy \/ ~IsRow(flow[f].conv)
          /\ UNCHANGED rows
          /\ flow' = [flow EXCEPT ![f].session = None,
                                  ![f].pc = IF flow[f].pc = "rebind" THEN "ready" ELSE "gone"]
    /\ UNCHANGED <<msgs, used, chain, mu, prompt>>

(* The history list is up to 45 s old: it shows the row's session, one of  *)
(* the same model that has died since, or still none.                      *)
Listed(c) == {rows[c].session, None} \cup
                {s \in Sessions : OpenedFor(s, rows[c].model) /\ s \notin Usable}

(* A thread is opened from the history list, with the session it shows.    *)
ResumeChat(f, c) ==
    /\ AtHome /\ MuFree
    /\ flow[f].pc = "new"
    /\ IsRow(c)
    /\ \E s \in Listed(c) :
          flow' = [flow EXCEPT ![f] = [pc |-> "ready", model |-> rows[c].model, conv |-> c,
                                      session |-> s]]
    /\ UNCHANGED <<storeVars, chain, mu, prompt>>

LeaveChat(f) ==
    /\ flow[f].pc \in {"opening", "ready", "sending"}
    /\ Goto(f, IF flow[f].pc = "opening" THEN "left" ELSE "gone")
    /\ UNCHANGED <<storeVars, chain, mu, prompt>>
-----------------------------------------------------------------------------
(* _send: a thread without a session first reuses or opens one.            *)
Send(f) ==
    /\ flow[f].pc = "ready"
    /\ \/ flow[f].session = None /\ Goto(f, "reattach") /\ UNCHANGED prompt
       \/ /\ flow[f].session # None
          /\ \E p \in Prompts :
                /\ prompt[p].pc = "idle"
                /\ prompt' = [prompt EXCEPT ![p] = [pc |-> "streaming", conv |-> flow[f].conv,
                                                    flow |-> f]]
          /\ Goto(f, "sending")
    /\ UNCHANGED <<storeVars, chain, mu>>

(* The screen, when it is still there, accepts input again.                *)
PromptEnds(p, end) ==
    LET f == prompt[p].flow IN
    /\ prompt' = [prompt EXCEPT ![p].pc = end]
    /\ flow' = IF flow[f].pc = "sending" THEN [flow EXCEPT ![f].pc = "ready"] ELSE flow

(* sendPromptWithOptions goes on whether or not the screen is still there. *)
(* A reply, or the text received before a cancel, is to be saved; an error *)
(* or an empty cancelled reply is not.                                     *)
PromptReply(p) ==
    /\ prompt[p].pc = "streaming"
    /\ \/ prompt' = [prompt EXCEPT ![p].pc = "saveUser"] /\ UNCHANGED flow
       \/ PromptEnds(p, "done") \/ PromptEnds(p, "failed")
    /\ UNCHANGED <<storeVars, chain, mu>>

(* "Reconnect session", offered under the error of a failed prompt.        *)
RecoverSession(f) ==
    /\ flow[f].pc = "ready"
    /\ \E p \in Prompts : prompt[p].pc = "failed" /\ prompt[p].flow = f
    /\ flow' = [flow EXCEPT ![f].session = None, ![f].pc = "reattach"]
    /\ UNCHANGED <<storeVars, chain, mu, prompt>>

PromptSaveUser(p) ==
    /\ prompt[p].pc = "saveUser"
    /\ SaveMessage(prompt[p].conv, "user", p)
    /\ prompt' = [prompt EXCEPT ![p].pc = "saveAssistant"]
    /\ UNCHANGED <<rows, used, chain, mu, flow>>

PromptSaveAssistant(p) ==
    /\ prompt[p].pc = "saveAssistant"
    /\ SaveMessage(prompt[p].conv, "assistant", p)
    /\ PromptEnds(p, "done")
    /\ UNCHANGED <<rows, used, chain, mu>>
-----------------------------------------------------------------------------
\* Mutated form: expired sessions are kept in the snapshot.
UnclosedSessions == {s \in Sessions : chain[s].state \in {"open", "ended"}}

(* loadChainSessionSnapshot's UsableKeys.                                  *)
UsableKeys == Usable

(* GetConversations, first half; when the chain cannot be read nothing is  *)
(* reconciled and nothing changes.                                         *)
ListSnapshot ==
    /\ MuFree
    /\ mu' = [Idle EXCEPT !.op = "list", !.usable = UsableKeys]
    /\ UNCHANGED <<storeVars, chain, flow, prompt>>

ListReconcile ==
    /\ mu.op = "list"
    /\ ReconcileConversationSessions(mu.usable)
    /\ mu' = Idle
    /\ UNCHANGED <<msgs, used, chain, flow, prompt>>

(* DeleteConversation: close the session first if this is the last thread  *)
(* on it, and also if the threads on it could not be counted.              *)
DeleteStart(c) ==
    /\ AtHome /\ MuFree
    /\ IsRow(c)
    /\ LET s == rows[c].session IN
       \/ /\ s # None
          /\ LastThreadOn(s, c) \/ SelectFails
          /\ mu' = [Idle EXCEPT !.op = "deleteClose", !.conv = c, !.session = s]
       \/ /\ s = None \/ ~LastThreadOn(s, c)
          /\ mu' = [Idle EXCEPT !.op = "deleteRows", !.conv = c, !.session = s]
    /\ UNCHANGED <<storeVars, chain, flow, prompt>>

DeleteClose ==
    /\ mu.op = "deleteClose"
    /\ \/ ChainClose(mu.session) /\ mu' = [mu EXCEPT !.op = "deleteClear"]
       \/ UNCHANGED chain /\ mu' = [mu EXCEPT !.op = "deleteRows"]
    /\ UNCHANGED <<storeVars, flow, prompt>>

DeleteClear ==
    /\ mu.op = "deleteClear"
    /\ ClearConversationSessionBySessionID(mu.session)
    /\ mu' = [mu EXCEPT !.op = "deleteRows"]
    /\ UNCHANGED <<msgs, used, chain, flow, prompt>>

DeleteRows ==
    /\ mu.op = "deleteRows"
    /\ \/ DeleteThread(mu.conv)
       \/ Busy /\ UNCHANGED <<rows, msgs>>
    /\ mu' = Idle
    /\ UNCHANGED <<used, chain, flow, prompt>>

(* CloseSession, from the history list or the wallet screen.               *)
CloseSession(s) ==
    /\ AtHome /\ MuFree
    /\ ChainClose(s)
    /\ mu' = [Idle EXCEPT !.op = "closeClear", !.session = s]
    /\ UNCHANGED <<storeVars, flow, prompt>>

CloseClear ==
    /\ mu.op = "closeClear"
    /\ ClearConversationSessionBySessionID(mu.session)
    /\ mu' = Idle
    /\ UNCHANGED <<msgs, used, chain, flow, prompt>>
-----------------------------------------------------------------------------
LocalNext ==
    \/ \E f \in Flows :
          \/ \E m \in Models : StartChat(f, m)
          \/ ClaimDraft(f) \/ ReuseSession(f) \/ OpenSession(f)
          \/ CreateConversation(f) \/ BindConversation(f)
          \/ \E c \in ConvIds : ResumeChat(f, c)
          \/ LeaveChat(f) \/ Send(f) \/ RecoverSession(f)
    \/ \E p \in Prompts : PromptReply(p) \/ PromptSaveUser(p) \/ PromptSaveAssistant(p)
    \/ ListSnapshot \/ ListReconcile
    \/ \E c \in ConvIds : DeleteStart(c)
    \/ DeleteClose \/ DeleteClear \/ DeleteRows
    \/ \E s \in Sessions : CloseSession(s)
    \/ CloseClear
=============================================================================
