---------------------- MODULE ChatSessionsHistoryProofs ----------------------
(***************************************************************************)
(* Proofs, for every value of the constants, of what ChatSessions promises *)
(* about threads on screen, stored messages and the rows of API traffic,   *)
(* and that it implements ThreadHistory: every step of a screen, a prompt, *)
(* a bridge function, a request or a restart is a step of the history or   *)
(* leaves it unchanged.                                                    *)
(***************************************************************************)
EXTENDS ChatSessionsProofs

(* Unbinding, binding and inserting remove no row.                         *)
LEMMA UnbindLeavesRows ==
  ASSUME StoreType, NEW stale, Unbind(stale), NEW c \in ConvIds, IsRow(c)
  PROVE  IsRow(c)'
<1>1. rows[c] \in Row /\ [rows[c] EXCEPT !.session = None] \in Row
  BY DEF StoreType, IsRow, Row
<1>2. rows'[c] \in Row
  BY <1>1 DEF Unbind
<1> QED
  BY <1>2, StoreAssumption DEF IsRow

LEMMA BindLeavesRows ==
  ASSUME StoreType, NEW d \in ConvIds, NEW s \in Sessions, SetConversationSession(d, s),
         NEW c \in ConvIds, IsRow(c)
  PROVE  IsRow(c)'
<1>1. rows[c] \in Row /\ [rows[c] EXCEPT !.session = s] \in Row
  BY DEF StoreType, IsRow, Row
<1>2. rows'[c] \in Row
  BY <1>1 DEF SetConversationSession, StoreType
<1> QED
  BY <1>2, StoreAssumption DEF IsRow

(* A row goes away by the claim's draft cleanup or by the delete of its    *)
(* thread.                                                                 *)
LEMMA WhoRemovesRows ==
  ASSUME Typed, [Next]_vars, NEW c \in ConvIds, IsRow(c), ~IsRow(c)'
  PROVE  \/ \E f \in Flows : /\ ClaimDraft(f)
                             /\ c \in EmptyDrafts(flow[f].model) \ {flow[f].conv}
         \/ DeleteRows /\ mu.conv = c
<1>0. StoreType /\ FlowType /\ RequestType
  BY DEF Typed
<1>1. rows'[c] # rows[c]
  BY DEF IsRow
<1>2. ASSUME NEW f \in Flows, CreateConversation(f) PROVE FALSE
  <2>1. flow[f].model \in Models
    BY <1>0, <1>2, FlowInHand DEF CreateConversation
  <2> QED
    BY <1>0, <1>1, <1>2, <2>1, CreateEffect DEF CreateConversation, ConvIds
<1>3. ASSUME NEW r \in Requests, CreateApiConversation(r) PROVE FALSE
  <2>1. req[r].model \in Models /\ req[r].conv \in ConvIds
    BY <1>0, <1>3, RequestInHand DEF CreateApiConversation
  <2> QED
    BY <1>0, <1>1, <1>3, <2>1, CreateEffect DEF CreateApiConversation
<1>4. ASSUME NEW f \in Flows, BindConversation(f) PROVE FALSE
  <2>1. flow[f].conv \in ConvIds /\ flow[f].session \in Sessions
    BY <1>0, <1>4, FlowInHand DEF BindConversation
  <2> QED
    BY <1>0, <1>1, <1>4, <2>1, BindLeavesRows DEF BindConversation
<1>5. ASSUME NEW r \in Requests, BindApiConversation(r) PROVE FALSE
  <2>1. req[r].conv \in ConvIds /\ req[r].session \in Sessions
    BY <1>0, <1>5, RequestInHand DEF BindApiConversation
  <2> QED
    BY <1>0, <1>1, <1>5, <2>1, BindLeavesRows DEF BindApiConversation
<1>6. ASSUME ListReconcile \/ DeleteClear \/ CloseClear PROVE FALSE
  BY <1>0, <1>6, UnbindLeavesRows
     DEF ListReconcile, DeleteClear, CloseClear, ReconcileConversationSessions,
         ClearConversationSessionBySessionID
<1>7. ASSUME NEW f \in Flows, ClaimDraft(f)
      PROVE  c \in EmptyDrafts(flow[f].model) \ {flow[f].conv}
  BY <1>1, <1>7 DEF ClaimDraft, DeleteOtherEmptyConversationsForModel, RemoveThreads
<1>8. DeleteRows => mu.conv = c
  BY <1>1 DEF DeleteRows, DeleteThread, RemoveThreads
<1>9. CASE LocalNext
  BY <1>1, <1>2, <1>4, <1>6, <1>7, <1>8, <1>9
     DEF LocalNext, StartChat, ReuseSession, OpenSession, ResumeChat, LeaveChat, Send, RecoverSession,
         PromptReply, PromptSaveUser, PromptSaveAssistant, ListSnapshot, DeleteStart,
         DeleteClose, CloseSession, storeVars
<1>10. CASE GatewayNext
  BY <1>1, <1>3, <1>5, <1>10
     DEF GatewayNext, StartGateway, StopGateway, Arrive, FindExistingSession, GatewayOpenSession,
         ReuseCachedConversation, ReattachConversation, MintConversation,
         PersistInboundMessages, PersistAssistantTurn, storeVars
<1> QED
  BY <1>1, <1>9, <1>10 DEF Next, SessionExpires, AppRestart, vars, storeVars

(* A row never changes its source.                                         *)
LEMMA SourceKept ==
  ASSUME Typed, [Next]_vars, NEW c \in ConvIds, IsRow(c), IsRow(c)'
  PROVE  rows'[c].source = rows[c].source
<1>0. StoreType /\ FlowType /\ RequestType
  BY DEF Typed
<1>1. CASE rows'[c] = rows[c]
  BY <1>1
<1>2. ASSUME NEW f \in Flows, CreateConversation(f) PROVE rows'[c] = rows[c]
  <2>1. flow[f].model \in Models
    BY <1>0, <1>2, FlowInHand DEF CreateConversation
  <2> QED
    BY <1>0, <1>2, <2>1, CreateEffect DEF CreateConversation, createConversation, ConvIds
<1>3. ASSUME NEW r \in Requests, CreateApiConversation(r) PROVE rows'[c] = rows[c]
  <2>1. req[r].model \in Models /\ req[r].conv \in ConvIds
    BY <1>0, <1>3, RequestInHand DEF CreateApiConversation
  <2> QED
    BY <1>0, <1>3, <2>1, CreateEffect DEF CreateApiConversation, createConversation
<1>4. ASSUME NEW f \in Flows, BindConversation(f) PROVE rows'[c].source = rows[c].source
  <2>1. flow[f].conv \in ConvIds /\ flow[f].session \in Sessions
    BY <1>0, <1>4, FlowInHand DEF BindConversation
  <2> QED
    BY <1>0, <1>4, <2>1, BindEffect DEF BindConversation
<1>5. ASSUME NEW r \in Requests, BindApiConversation(r) PROVE rows'[c].source = rows[c].source
  <2>1. req[r].conv \in ConvIds /\ req[r].session \in Sessions
    BY <1>0, <1>5, RequestInHand DEF BindApiConversation
  <2> QED
    BY <1>0, <1>5, <2>1, BindEffect DEF BindApiConversation
<1> QED
  BY <1>1, <1>2, <1>3, <1>4, <1>5, RowsKept DEF Kept
-----------------------------------------------------------------------------
(* A screen comes up only when there is none and no bridge call is inside. *)
Appears(f) ==
    /\ AtHome /\ MuFree
    /\ UNCHANGED rows
    /\ \A g \in Flows \ {f} : flow'[g] = flow[g]
    /\ flow'[f].conv # None => IsRow(flow'[f].conv)

LEMMA GotoScreen ==
  ASSUME FlowType, NEW f \in Flows, NEW pc, Goto(f, pc), flow[f].pc \in OnScreen \/ pc \notin OnScreen,
         NEW g \in Flows, flow'[g].pc \in OnScreen
  PROVE  flow[g].pc \in OnScreen
  BY DEF FlowType, FlowRecord, Goto

LEMMA ScreenSource ==
  ASSUME Typed, [Next]_vars, NEW g \in Flows, flow'[g].pc \in OnScreen
  PROVE  flow[g].pc \in OnScreen \/ Appears(g)
<1>0. FlowType
  BY DEF Typed
<1>1. CASE UNCHANGED flow
  BY <1>1
<1>2. ASSUME NEW f \in Flows, NEW m \in Models, StartChat(f, m)
      PROVE  flow[g].pc \in OnScreen \/ Appears(g)
  <2>1. \A h \in Flows \ {f} : flow'[h] = flow[h]
    BY <1>0, <1>2 DEF StartChat, FlowType
  <2>2. flow'[f].conv # None => IsRow(flow'[f].conv)
    <3>1. CASE \E pc \in {"reuse", "gone"} :
                   flow' = [flow EXCEPT ![f] = [pc |-> pc, model |-> m, conv |-> None,
                                                session |-> None]]
      BY <1>0, <3>1 DEF FlowType
    <3>2. ASSUME NEW c \in EmptyDrafts(m),
                 flow' = [flow EXCEPT ![f] = [pc |-> "claim", model |-> m, conv |-> c,
                                              session |-> rows[c].session]]
          PROVE  IsRow(flow'[f].conv)
      <4>1. flow'[f].conv = c
        BY <1>0, <3>2 DEF FlowType
      <4> QED
        BY <4>1 DEF EmptyDrafts
    <3> QED
      BY <1>2, <3>1, <3>2 DEF StartChat
  <2> QED
    BY <1>2, <2>1, <2>2 DEF StartChat, Appears, storeVars
<1>3. ASSUME NEW f \in Flows, NEW c \in ConvIds, ResumeChat(f, c)
      PROVE  flow[g].pc \in OnScreen \/ Appears(g)
  <2>1. \A h \in Flows \ {f} : flow'[h] = flow[h]
    BY <1>0, <1>3 DEF ResumeChat, FlowType
  <2>2. flow'[f].conv = c /\ IsRow(c)
    BY <1>0, <1>3 DEF ResumeChat, FlowType
  <2> QED
    BY <1>3, <2>1, <2>2 DEF ResumeChat, Appears, storeVars
<1>4. ASSUME NEW f \in Flows, flow[f].pc \in OnScreen, \A h \in Flows \ {f} : flow'[h] = flow[h]
      PROVE  flow[g].pc \in OnScreen
  BY <1>4
<1>5. ASSUME NEW f \in Flows, ReuseSession(f) \/ CreateConversation(f) \/ BindConversation(f)
                              \/ ClaimDraft(f) \/ LeaveChat(f) \/ Send(f) \/ RecoverSession(f)
      PROVE  flow[g].pc \in OnScreen
  <2>1. flow[f].pc \in OnScreen
    BY <1>5 DEF ReuseSession, CreateConversation, BindConversation, ClaimDraft, LeaveChat, Send, RecoverSession,
       OnScreen
  <2>2. \A h \in Flows \ {f} : flow'[h] = flow[h]
    BY <1>0, <1>5 DEF ReuseSession, CreateConversation, BindConversation, ClaimDraft, LeaveChat,
       Send, RecoverSession, Goto, GiveSession, FlowType
  <2> QED
    BY <1>4, <2>1, <2>2
<1>6. ASSUME NEW f \in Flows, OpenSession(f) PROVE flow[g].pc \in OnScreen
  <2>1. CASE flow[f].pc = "left"
    BY <1>0, <1>6, <2>1, GotoScreen DEF OpenSession, OnScreen
  <2>2. CASE flow[f].pc # "left"
    <3>1. flow[f].pc \in OnScreen
      BY <1>6, <2>2 DEF OpenSession, OnScreen
    <3>2. \A h \in Flows \ {f} : flow'[h] = flow[h]
      BY <1>0, <1>6 DEF OpenSession, Goto, GiveSession, FlowType
    <3> QED
      BY <1>4, <3>1, <3>2
  <2> QED
    BY <2>1, <2>2
<1>7. ASSUME NEW p \in Prompts, PromptReply(p) \/ PromptSaveUser(p) \/ PromptSaveAssistant(p)
      PROVE  flow[g].pc \in OnScreen
  <2>1. ASSUME NEW f, flow[f].pc = "sending", flow' = [flow EXCEPT ![f].pc = "ready"]
        PROVE  flow[g].pc \in OnScreen
    BY <1>0, <2>1 DEF FlowType, FlowRecord, OnScreen
  <2>2. CASE PromptEnds(p, "done") \/ PromptEnds(p, "failed")
    BY <1>1, <2>1, <2>2 DEF PromptEnds
  <2> QED
    BY <1>1, <1>7, <2>2 DEF PromptReply, PromptSaveUser, PromptSaveAssistant
<1>8. CASE LocalNext
  BY <1>1, <1>2, <1>3, <1>5, <1>6, <1>7, <1>8
     DEF LocalNext, ListSnapshot, ListReconcile, DeleteStart, DeleteClose, DeleteClear, DeleteRows,
         CloseSession, CloseClear
<1>9. CASE AppRestart
  BY <1>0, <1>9 DEF AppRestart, FlowType, FlowRecord, OnScreen
<1> QED
  BY <1>1, <1>8, <1>9 DEF Next, SessionExpires, vars, localVars
-----------------------------------------------------------------------------
(* How the bridge call inside changes.                                     *)
LEMMA MuSource ==
  ASSUME Typed, [Next]_vars
  PROVE  \/ UNCHANGED mu
         \/ mu'.op \in {"idle", "list", "closeClear"}
         \/ /\ mu.op \in {"deleteClose", "deleteClear"} /\ UNCHANGED flow
            /\ mu'.op \in {"deleteClear", "deleteRows"}
         \/ AtHome /\ UNCHANGED flow /\ mu'.op \in {"deleteClose", "deleteRows"}
         \/ \E m \in Models : /\ mu'.op = "claim" /\ mu'.conv \in EmptyDrafts(m)
                             /\ UNCHANGED rows
<1>1. CASE mu' = Idle
  BY <1>1 DEF Idle
<1>2. ASSUME NEW f \in Flows, NEW m \in Models, StartChat(f, m)
      PROVE  \/ UNCHANGED mu
             \/ mu'.op = "claim" /\ mu'.conv \in EmptyDrafts(m) /\ UNCHANGED rows
  BY <1>2 DEF StartChat, Idle, storeVars
<1>3. CASE ListSnapshot
  BY <1>3 DEF ListSnapshot, Idle
<1>4. ASSUME NEW c \in ConvIds, DeleteStart(c)
      PROVE  AtHome /\ UNCHANGED flow /\ mu'.op \in {"deleteClose", "deleteRows"}
  BY <1>4 DEF DeleteStart, Idle
<1>5. CASE DeleteClose \/ DeleteClear
  BY <1>5 DEF DeleteClose, DeleteClear, Typed, MuType
<1>6. ASSUME NEW s \in Sessions, CloseSession(s) PROVE mu'.op = "closeClear"
  BY <1>6 DEF CloseSession, Idle
<1>7. CASE LocalNext
  BY <1>1, <1>2, <1>3, <1>4, <1>5, <1>6, <1>7
     DEF LocalNext, ClaimDraft, ReuseSession, OpenSession, CreateConversation, BindConversation,
         ResumeChat, LeaveChat, Send, RecoverSession, PromptReply, PromptSaveUser, PromptSaveAssistant,
         ListReconcile, DeleteRows, CloseClear
<1> QED
  BY <1>1, <1>7 DEF Next, SessionExpires, AppRestart, vars, localVars

LEMMA OneScreenStep ==
  ASSUME Shown, [Next]_vars
  PROVE  OneScreen'
<1> USE DEF Shown
<1>0. FlowType /\ StoreType
  BY DEF Typed
<1>1. ASSUME NEW f \in Flows, NEW g \in Flows, flow'[f].pc \in OnScreen,
             flow'[g].pc \in OnScreen, f # g
      PROVE  FALSE
  <2>1. CASE flow[f].pc \in OnScreen /\ flow[g].pc \in OnScreen
    BY <1>1, <2>1 DEF OneScreen
  <2>2. ASSUME NEW h \in {f, g}, NEW i \in {f, g}, h # i, Appears(h) PROVE FALSE
    BY <1>1, <2>2 DEF Appears, AtHome
  <2> QED
    BY <1>1, <2>1, <2>2, ScreenSource
<1>2. ASSUME mu'.op \in {"deleteClose", "deleteClear", "deleteRows"}
      PROVE  AtHome'
  <2>1. CASE UNCHANGED mu
    <3>1. AtHome /\ ~MuFree
      BY <1>2, <2>1 DEF OneScreen, MuFree
    <3> QED
      BY <3>1, ScreenSource DEF AtHome, Appears
  <2>2. CASE AtHome /\ UNCHANGED flow
    BY <2>2 DEF AtHome
  <2>3. CASE mu.op \in {"deleteClose", "deleteClear"} /\ UNCHANGED flow
    BY <2>3 DEF OneScreen, AtHome
  <2> QED
    BY <1>2, <2>1, <2>2, <2>3, MuSource
<1>3. ASSUME mu'.op = "claim"
      PROVE  mu'.conv \in ConvIds /\ rows'[mu'.conv] # None /\ rows'[mu'.conv].source = "ui"
  <2>1. ASSUME NEW m \in Models, mu'.conv \in EmptyDrafts(m), UNCHANGED rows
        PROVE  mu'.conv \in ConvIds /\ rows'[mu'.conv] # None /\ rows'[mu'.conv].source = "ui"
    BY <2>1 DEF EmptyDrafts, IsRow
  <2>2. ASSUME UNCHANGED mu, NEW c \in ConvIds, mu.conv = c
        PROVE  IsRow(c)' /\ rows'[c].source = "ui"
    <3>1. IsRow(c) /\ rows[c].source = "ui"
      BY <1>3, <2>2 DEF OneScreen
    <3>2. ~DeleteRows
      BY <1>3, <2>2 DEF DeleteRows
    <3>3. ASSUME NEW f \in Flows, ClaimDraft(f) PROVE FALSE
      BY <1>3, <2>2, <3>3 DEF ClaimDraft, Idle
    <3> QED
      BY <3>1, <3>2, <3>3, WhoRemovesRows, SourceKept
  <2>3. ASSUME UNCHANGED mu
        PROVE  mu'.conv \in ConvIds /\ rows'[mu'.conv] # None /\ rows'[mu'.conv].source = "ui"
    <3>1. mu.conv \in ConvIds /\ mu'.conv = mu.conv
      BY <1>3, <2>3 DEF OneScreen
    <3> QED
      BY <2>2, <2>3, <3>1 DEF IsRow
  <2> QED
    BY <1>3, <2>1, <2>3, MuSource
<1> QED
  BY <1>1, <1>2, <1>3 DEF OneScreen, IsRow

LEMMA ScreenThreadStep ==
  ASSUME Shown, [Next]_vars
  PROVE  ScreenThreadExists'
<1> USE DEF Shown
<1>0. FlowType /\ StoreType /\ FlowType'
  BY TypedStep DEF Typed
<1> SUFFICES ASSUME NEW f \in Flows, NEW c \in ConvIds, flow'[f].pc \in OnScreen,
                    flow'[f].conv = c
             PROVE  IsRow(c)'
  BY <1>0 DEF ScreenThreadExists, FlowType, FlowRecord, IsRow
<1>1. CASE UNCHANGED rows /\ IsRow(c)
  BY <1>1 DEF IsRow
<1>2. CASE flow[f].pc \in OnScreen /\ flow[f].conv = c
  <2>1. IsRow(c)
    BY <1>2, NoneIsNothing DEF ScreenThreadExists
  <2>2. ASSUME NEW g \in Flows, ClaimDraft(g), c # flow[g].conv PROVE FALSE
    <3>1. flow[g].pc \in OnScreen
      BY <2>2 DEF ClaimDraft, OnScreen
    <3> QED
      BY <1>2, <2>2, <3>1 DEF OneScreen
  <2>3. ~DeleteRows
    BY <1>2 DEF DeleteRows, OneScreen, AtHome
  <2> QED
    BY <2>1, <2>2, <2>3, WhoRemovesRows
<1>3. ASSUME createConversation(c, flow[f].model, "ui"), CreateConversation(f) PROVE IsRow(c)'
  <2>1. flow[f].model \in Models
    BY <1>0, <1>3, FlowInHand DEF CreateConversation
  <2> QED
    BY <1>0, <1>3, <2>1, CreateEffect
<1>4. CASE Appears(f)
  BY <1>1, <1>4, NoneIsNothing DEF Appears
<1>5. CASE flow[f].pc \in OnScreen
  BY <1>1, <1>2, <1>3, <1>5, FlowConvSource, NoneIsNothing
<1> QED
  BY <1>4, <1>5, ScreenSource
LEMMA SpecShown == Spec => []Shown
<1>1. Init => Shown
  <2> SUFFICES ASSUME Init PROVE OneScreen /\ ScreenThreadExists
    BY InitTyped DEF Shown
  <2> QED
    BY DEF Init, LocalInit, Idle, OneScreen, ScreenThreadExists, OnScreen
<1>2. Shown /\ [Next]_vars => Shown'
  BY TypedStep, OneScreenStep, ScreenThreadStep DEF Shown
<1> QED
  BY <1>1, <1>2, PTL DEF Spec

(* The thread on screen keeps its row while the screen is there, for any   *)
(* number of screens, threads and requests (api.go ClaimEmptyDraftForModel,*)
(* DeleteConversation).                                                    *)
THEOREM ScreenThreads == Spec => []ScreenThreadExists
<1>1. Shown => ScreenThreadExists
  BY DEF Shown
<1> QED
  BY <1>1, SpecShown, PTL

(* A stored message is only ever removed by the user's delete of its own   *)
(* thread (store.go DeleteOtherEmptyConversationsForModel).                *)
THEOREM StoredHistory == Spec => HistoryKept
<1> DEFINE Step == \A x \in msgs : x \notin msgs' => mu.op = "deleteRows" /\ mu.conv = x.conv
<1>1. Typed /\ [Next]_vars => [Step]_vars
  <2> SUFFICES ASSUME Typed, [Next]_vars, NEW x \in msgs, x \notin msgs'
               PROVE  mu.op = "deleteRows" /\ mu.conv = x.conv
    OBVIOUS
  <2>1. msgs' # msgs
    OBVIOUS
  <2>2. ASSUME NEW c, NEW role, NEW a, SaveMessage(c, role, a) PROVE FALSE
    BY <2>2 DEF SaveMessage
  <2>3. ASSUME NEW f \in Flows, ClaimDraft(f) PROVE FALSE
    BY <2>3 DEF ClaimDraft, DeleteOtherEmptyConversationsForModel, RemoveThreads, EmptyDrafts,
       HasMessages
  <2>4. CASE DeleteRows
    BY <2>1, <2>4 DEF DeleteRows, DeleteThread, RemoveThreads
  <2>5. CASE LocalNext
    BY <2>1, <2>2, <2>3, <2>4, <2>5
       DEF LocalNext, StartChat, ReuseSession, OpenSession, CreateConversation, BindConversation,
           ResumeChat, LeaveChat, Send, RecoverSession, PromptReply, PromptSaveUser, PromptSaveAssistant,
           ListSnapshot, ListReconcile, DeleteStart, DeleteClose, DeleteClear, CloseSession,
           CloseClear, storeVars
  <2>6. CASE GatewayNext
    BY <2>1, <2>2, <2>6
       DEF GatewayNext, StartGateway, StopGateway, Arrive, FindExistingSession,
           GatewayOpenSession, ReuseCachedConversation, ReattachConversation, MintConversation,
           CreateApiConversation, BindApiConversation, PersistInboundMessages,
           PersistAssistantTurn, storeVars
  <2> QED
    BY <2>1, <2>5, <2>6 DEF Next, SessionExpires, AppRestart, vars, storeVars
<1>2. [][Step]_vars => HistoryKept
  BY PTL DEF HistoryKept
<1> QED
  BY <1>1, <1>2, SpecTyped, PTL DEF Spec

(* A row of API traffic goes only with the user's delete of that row, and  *)
(* no screen's claim ever holds one (store.go:718-722, 748-750).           *)
THEOREM ApiTraffic == Spec => ApiRowsKept
<1> DEFINE Step == \A c \in ConvIds : (IsRow(c) /\ rows[c].source = "api") =>
                      /\ ~IsRow(c)' => mu.op = "deleteRows" /\ mu.conv = c
                      /\ ~(mu'.op = "claim" /\ mu'.conv = c)
<1>1. Shown /\ Shown' /\ [Next]_vars => [Step]_vars
  <2> SUFFICES ASSUME Shown, Shown', [Next]_vars, NEW c \in ConvIds, IsRow(c),
                      rows[c].source = "api"
               PROVE  /\ ~IsRow(c)' => mu.op = "deleteRows" /\ mu.conv = c
                      /\ ~(mu'.op = "claim" /\ mu'.conv = c)
    OBVIOUS
  <2>1. ASSUME ~IsRow(c)' PROVE mu.op = "deleteRows" /\ mu.conv = c
    BY <2>1, WhoRemovesRows DEF Shown, EmptyDrafts, DeleteRows
  <2>2. ASSUME mu'.op = "claim", mu'.conv = c PROVE FALSE
    <3>1. IsRow(c)' /\ rows'[c].source = "ui"
      BY <2>2 DEF Shown, OneScreen, IsRow
    <3> QED
      BY <3>1, SourceKept DEF Shown
  <2> QED
    BY <2>1, <2>2
<1>2. [][Step]_vars => ApiRowsKept
  BY PTL DEF ApiRowsKept
<1> QED
  BY <1>1, <1>2, SpecShown, PTL DEF Spec
-----------------------------------------------------------------------------
Steady == Consistent /\ Shown

HistoryStep == [History!Next]_(History!historyVars)

(* The history of a store depends on which rows there are, and on their    *)
(* model and source.                                                       *)
LEMMA ThreadsSame ==
  ASSUME \A c \in ConvIds : /\ IsRow(c)' <=> IsRow(c)
                            /\ IsRow(c) => /\ rows'[c].model = rows[c].model
                                           /\ rows'[c].source = rows[c].source
  PROVE  Threads' = Threads
<1>1. {c \in ConvIds : IsRow(c)}' = {c \in ConvIds : IsRow(c)}
  OBVIOUS
<1> QED
  BY <1>1 DEF Threads

LEMMA ThreadsOf ==
  /\ DOMAIN Threads = {c \in ConvIds : IsRow(c)}
  /\ \A c \in ConvIds : IsRow(c) =>
        Threads[c].model = rows[c].model /\ Threads[c].source = rows[c].source
  BY DEF Threads

LEMMA UnbindSameThreads ==
  ASSUME StoreType, NEW stale, \A c \in stale : IsRow(c), Unbind(stale)
  PROVE  Threads' = Threads
<1>1. ASSUME NEW c \in ConvIds PROVE Kept(c) /\ (IsRow(c) => IsRow(c)')
  BY <1>1, UnbindKeeps, UnbindLeavesRows
<1> QED
  BY <1>1, ThreadsSame DEF Kept

LEMMA BindSameThreads ==
  ASSUME StoreType, NEW d \in ConvIds, NEW s \in Sessions, SetConversationSession(d, s)
  PROVE  Threads' = Threads
<1>1. ASSUME NEW c \in ConvIds
      PROVE  /\ IsRow(c) => IsRow(c)'
             /\ IsRow(c)' => /\ IsRow(c)
                             /\ rows'[c].model = rows[c].model
                             /\ rows'[c].source = rows[c].source
  BY <1>1, BindEffect, BindLeavesRows
<1> QED
  BY <1>1, ThreadsSame

LEMMA CreateBegins ==
  ASSUME StoreType, NEW c \in ConvIds, NEW m \in Models, NEW src \in {"ui", "api"},
         createConversation(c, m, src)
  PROVE  Threads' = [d \in DOMAIN Threads \cup {c} |->
                        IF d = c THEN [model |-> m, source |-> src] ELSE Threads[d]]
<1>1. IsRow(c)' /\ rows'[c].model = m /\ rows'[c].source = src
  BY CreateEffect
<1>2. ASSUME NEW d \in ConvIds, d # c PROVE rows'[d] = rows[d]
  BY <1>2, CreateEffect
<1>3. {d \in ConvIds : IsRow(d)}' = {d \in ConvIds : IsRow(d)} \cup {c}
  BY <1>1, <1>2 DEF IsRow
<1> QED
  BY <1>1, <1>2, <1>3, ThreadsOf DEF Threads

LEMMA RemovalLeavesRest ==
  ASSUME NEW dead, RemoveThreads(dead)
  PROVE  Threads' = History!Without(dead)
<1>1. ASSUME NEW c \in ConvIds
      PROVE  /\ IsRow(c)' <=> IsRow(c) /\ c \notin dead
             /\ IsRow(c)' => rows'[c] = rows[c]
  BY <1>1 DEF RemoveThreads, IsRow
<1>2. {c \in ConvIds : IsRow(c)}' = {c \in ConvIds : IsRow(c)} \ dead
  BY <1>1
<1> QED
  BY <1>1, <1>2 DEF Threads, History!Without
-----------------------------------------------------------------------------
(* The ids a thread may begin under change only with the clock and with    *)
(* the requests that are about to insert a row.                            *)
LEMMA FreshSame ==
  ASSUME UNCHANGED used,
         \A r \in Requests : req'[r] # req[r] =>
             req[r].pc # "create" /\ req'[r].pc # "create"
  PROVE  FreshIds' = FreshIds
<1>1. \A c \in ConvIds :
         (\E r \in Requests : req'[r].pc = "create" /\ req'[r].conv = c)
            <=> (\E r \in Requests : req[r].pc = "create" /\ req[r].conv = c)
  OBVIOUS
<1> QED
  BY <1>1 DEF FreshIds

LEMMA NotStarted ==
  ASSUME RequestType, NEW r \in Requests,
         \/ \E m \in Models, chat \in Chats \cup {None}, role \in Inbound : Arrive(r, m, chat, role)
         \/ FindExistingSession(r) \/ GatewayOpenSession(r)
         \/ ReuseCachedConversation(r) \/ ReattachConversation(r)
         \/ BindApiConversation(r) \/ PersistInboundMessages(r) \/ PersistAssistantTurn(r)
  PROVE  FreshIds' = FreshIds
<1>1. \A q \in Requests \ {r} : req'[q] = req[q]
  BY DEF Arrive, FindExistingSession, GatewayOpenSession, ReuseCachedConversation,
     ReattachConversation, BindApiConversation, PersistInboundMessages, PersistAssistantTurn,
     RequestGoto, RequestType
<1>2. req[r].pc # "create" /\ req'[r].pc # "create"
  <2>1. ASSUME NEW m \in Models, NEW chat \in Chats \cup {None}, NEW role \in Inbound,
               Arrive(r, m, chat, role)
        PROVE  req[r].pc # "create" /\ req'[r].pc # "create"
    BY <2>1 DEF Arrive, RequestType
  <2>2. CASE FindExistingSession(r) \/ GatewayOpenSession(r)
    BY <2>2 DEF FindExistingSession, GatewayOpenSession, RequestGoto, RequestType, RequestRecord
  <2>3. CASE ReuseCachedConversation(r) \/ ReattachConversation(r)
    BY <2>3 DEF ReuseCachedConversation, ReattachConversation, RequestType, RequestRecord
  <2>4. CASE BindApiConversation(r) \/ PersistInboundMessages(r) \/ PersistAssistantTurn(r)
    BY <2>4 DEF BindApiConversation, PersistInboundMessages, PersistAssistantTurn, RequestGoto,
       RequestType, RequestRecord
  <2> QED
    BY <2>1, <2>2, <2>3, <2>4
<1>3. UNCHANGED used
  BY DEF Arrive, FindExistingSession, GatewayOpenSession, ReuseCachedConversation,
     ReattachConversation, BindApiConversation, PersistInboundMessages, PersistAssistantTurn,
     storeVars
<1> QED
  BY <1>1, <1>2, <1>3, FreshSame

LEMMA LocalStepsSameFresh ==
  ASSUME UNCHANGED <<used, gatewayVars>>
  PROVE  FreshIds' = FreshIds
  BY FreshSame DEF gatewayVars

(* Storing a message says it, or changes nothing.                          *)
LEMMA SaveSays ==
  ASSUME NEW c \in ConvIds, NEW role \in {"user", "tool", "assistant"}, NEW a \in Authors,
         SaveMessage(c, role, a), FreshIds' = FreshIds, Threads' = Threads
  PROVE  HistoryStep
<1> DEFINE x == [conv |-> c, role |-> role, by |-> a]
<1>1. CASE UNCHANGED msgs
  BY <1>1 DEF HistoryStep, History!historyVars
<1>2. CASE msgs' = msgs \cup {x} /\ ~(role = "user" /\ ~IsRow(c))
  <2>1. x \in Message /\ x.role = role /\ x.conv = c
    BY DEF Message
  <2>2. History!Say(x)
    BY <1>2, <2>1, ThreadsOf DEF History!Say
  <2> QED
    BY <2>1, <2>2 DEF HistoryStep, History!Next
<1> QED
  BY <1>1, <1>2 DEF SaveMessage
-----------------------------------------------------------------------------
LEMMA HistoryInit == Init => History!Init
<1> SUFFICES ASSUME Init PROVE History!Init
  OBVIOUS
<1>1. \A c \in ConvIds : ~IsRow(c)
  BY DEF Init, StoreInit, IsRow
<1>2. {c \in ConvIds : IsRow(c)} = {}
  BY <1>1
<1>3. Threads = [c \in {} |-> {}]
  BY <1>2 DEF Threads
<1>4. FreshIds = ConvIds /\ msgs = {}
  BY DEF Init, StoreInit, FreshIds
<1> QED
  BY <1>3, <1>4 DEF History!Init

(* A screen draws an id and inserts the row in one call.                   *)
LEMMA CreateStep ==
  ASSUME Steady, NEW f \in Flows, CreateConversation(f), UNCHANGED gatewayVars
  PROVE  HistoryStep
<1>0. StoreType /\ FlowType /\ flow[f].model \in Models
  BY FlowInHand DEF Steady, Consistent, Typed, CreateConversation
<1>1. CASE UNCHANGED <<rows, used>>
  <2>1. Threads' = Threads
    BY <1>1 DEF Threads, IsRow
  <2>2. FreshIds' = FreshIds
    BY <1>1, LocalStepsSameFresh
  <2> QED
    BY <2>1, <2>2 DEF CreateConversation, HistoryStep, History!historyVars
<1>2. ASSUME NEW c \in UiIds \ used, createConversation(c, flow[f].model, "ui"),
             used' = used \cup {c}
      PROVE  HistoryStep
  <2> DEFINE t == [model |-> flow[f].model, source |-> "ui"]
  <2>1. c \in ConvIds
    BY DEF ConvIds
  <2>2. Threads' = [d \in DOMAIN Threads \cup {c} |-> IF d = c THEN t ELSE Threads[d]]
    BY <1>0, <1>2, <2>1, CreateBegins
  <2>3. \A r \in Requests : req[r].pc = "create" => req[r].conv # c
    BY DEF Steady, Consistent, IdsDrawn
  <2>4. c \in FreshIds /\ FreshIds' = FreshIds \ {c}
    BY <1>2, <2>1, <2>3 DEF FreshIds, gatewayVars
  <2>5. History!Begin(c, t)
    BY <2>2, <2>4 DEF History!Begin, CreateConversation
  <2>6. t \in History!Thread
    BY <1>0 DEF History!Thread
  <2> QED
    BY <2>1, <2>5, <2>6 DEF HistoryStep, History!Next
<1> QED
  BY <1>1, <1>2 DEF CreateConversation

(* A request inserts the row of the id it minted, or loses the chance.     *)
LEMMA ApiCreateStep ==
  ASSUME Steady, NEW r \in Requests, CreateApiConversation(r)
  PROVE  HistoryStep
<1> DEFINE c == req[r].conv
<1>0. /\ StoreType /\ RequestType
      /\ req[r].pc = "create" /\ c \in ConvIds /\ req[r].model \in Models
      /\ UNCHANGED <<used, msgs>>
  BY RequestInHand DEF Steady, Consistent, Typed, CreateApiConversation
<1>1. /\ \A q \in Requests \ {r} : req'[q] = req[q]
      /\ req'[r].pc # "create"
  BY <1>0 DEF CreateApiConversation, RequestGoto, RequestType, RequestRecord
<1>2. \A q \in Requests \ {r} : req[q].pc = "create" => req[q].conv # c
  BY <1>0 DEF Steady, Consistent, MintedOnce
<1>3. c \in used
  BY <1>0 DEF Steady, Consistent, IdsDrawn
<1>4. c \in FreshIds /\ FreshIds' = FreshIds \ {c}
  BY <1>0, <1>1, <1>2, <1>3 DEF FreshIds
<1>5. CASE UNCHANGED rows
  <2>1. Threads' = Threads
    BY <1>5 DEF Threads, IsRow
  <2>2. History!Forfeit
    BY <1>0, <1>4, <2>1 DEF History!Forfeit
  <2> QED
    BY <2>2 DEF HistoryStep, History!Next
<1>6. CASE createConversation(c, req[r].model, "api")
  <2> DEFINE t == [model |-> req[r].model, source |-> "api"]
  <2>1. Threads' = [d \in DOMAIN Threads \cup {c} |-> IF d = c THEN t ELSE Threads[d]]
    BY <1>0, <1>6, CreateBegins
  <2>2. History!Begin(c, t)
    BY <1>0, <1>4, <2>1 DEF History!Begin
  <2>3. t \in History!Thread
    BY <1>0 DEF History!Thread
  <2> QED
    BY <1>0, <2>2, <2>3 DEF HistoryStep, History!Next
<1> QED
  BY <1>5, <1>6 DEF CreateApiConversation

(* Minting an id hands it from the clock to the request: nothing is seen.  *)
LEMMA MintStep ==
  ASSUME Steady, NEW r \in Requests, MintConversation(r)
  PROVE  HistoryStep
<1>0. RequestType
  BY DEF Steady, Consistent, Typed
<1>1. PICK c \in ApiIds \ used :
         used' = used \cup {c} /\ req' = [req EXCEPT ![r].conv = c, ![r].pc = "create"]
  BY DEF MintConversation
<1>2. req'[r].pc = "create" /\ req'[r].conv = c /\ req[r].pc # "create"
  BY <1>0, <1>1 DEF MintConversation, RequestType, RequestRecord
<1>3. \A q \in Requests \ {r} : req'[q] = req[q]
  BY <1>0, <1>1 DEF RequestType
<1>4. FreshIds' = FreshIds
  BY <1>1, <1>2, <1>3 DEF FreshIds
<1>5. UNCHANGED <<rows, msgs>>
  BY DEF MintConversation
<1>6. Threads' = Threads
  BY <1>5 DEF Threads, IsRow
<1> QED
  BY <1>4, <1>5, <1>6 DEF HistoryStep, History!historyVars

(* The claim's cleanup leaves the claimed thread and everything that has   *)
(* a message, another model or the source "api".                           *)
LEMMA ClaimStep ==
  ASSUME Steady, NEW f \in Flows, ClaimDraft(f), UNCHANGED gatewayVars
  PROVE  HistoryStep
<1> DEFINE m == flow[f].model
           keep == flow[f].conv
<1>0. FreshIds' = FreshIds
  BY LocalStepsSameFresh DEF ClaimDraft
<1>1. CASE UNCHANGED <<rows, msgs>>
  BY <1>0, <1>1 DEF HistoryStep, History!historyVars, Threads, IsRow
<1>2. CASE RemoveThreads(EmptyDrafts(m) \ {keep})
  <2>1. keep \in ConvIds /\ m \in Models
    BY DEF Steady, Shown, Typed, FlowType, FlowRecord, ClaimDraft
  <2>2. IsRow(keep) /\ rows[keep].model = m
    BY <2>1, NoneIsNothing
       DEF Steady, Shown, ScreenThreadExists, OnScreen, Consistent, RowsAgree, ClaimDraft
  <2>3. EmptyDrafts(m) = History!Spare(m)
    BY ThreadsOf DEF EmptyDrafts, HasMessages, History!Spare
  <2>4. Threads' = History!Without(History!Spare(m) \ {keep})
    BY <1>2, <2>3, RemovalLeavesRest
  <2>5. UNCHANGED msgs
    BY <1>2 DEF RemoveThreads, EmptyDrafts, HasMessages
  <2>6. History!Discard(m, keep)
    BY <1>0, <2>1, <2>2, <2>4, <2>5, ThreadsOf DEF History!Discard
  <2> QED
    BY <2>1, <2>6 DEF HistoryStep, History!Next
<1> QED
  BY <1>1, <1>2 DEF ClaimDraft, DeleteOtherEmptyConversationsForModel

LEMMA DeleteStep ==
  ASSUME Steady, DeleteRows, UNCHANGED gatewayVars
  PROVE  HistoryStep
<1>0. FreshIds' = FreshIds
  BY LocalStepsSameFresh DEF DeleteRows
<1>1. CASE UNCHANGED <<rows, msgs>>
  BY <1>0, <1>1 DEF HistoryStep, History!historyVars, Threads, IsRow
<1>2. mu.conv \in ConvIds \cup {None} /\ StoreType
  BY DEF Steady, Shown, Typed, MuType
<1>3. ASSUME RemoveThreads({mu.conv}), mu.conv \notin ConvIds PROVE UNCHANGED <<rows, msgs>>
  BY <1>2, <1>3, NoneIsNothing DEF RemoveThreads, StoreType, Message
<1>4. CASE IsRow(mu.conv) /\ RemoveThreads({mu.conv}) /\ mu.conv \in ConvIds
  <2>1. Threads' = History!Without({mu.conv})
    BY <1>4, RemovalLeavesRest
  <2>2. msgs' = {x \in msgs : x.conv # mu.conv}
    BY <1>4 DEF RemoveThreads
  <2>3. History!Erase(mu.conv)
    BY <1>0, <1>4, <2>1, <2>2, ThreadsOf DEF History!Erase
  <2> QED
    BY <1>4, <2>3 DEF HistoryStep, History!Next
<1> QED
  BY <1>1, <1>3, <1>4 DEF DeleteRows, DeleteThread

(* A restart forfeits the ids of the requests it kills.                    *)
LEMMA RestartStep ==
  ASSUME Steady, AppRestart
  PROVE  HistoryStep
<1>1. \A r \in Requests : req'[r].pc # "create"
  BY DEF AppRestart, Steady, Consistent, Typed, RequestType, RequestRecord
<1>2. FreshIds' \subseteq FreshIds
  BY <1>1 DEF FreshIds, AppRestart, storeVars
<1>3. FreshIds' = FreshIds \ (FreshIds \ FreshIds')
  BY <1>2
<1>4. UNCHANGED <<Threads, msgs>>
  BY DEF AppRestart, storeVars, Threads, IsRow
<1>5. History!Forfeit
  BY <1>3, <1>4 DEF History!Forfeit
<1> QED
  BY <1>5 DEF HistoryStep, History!Next
-----------------------------------------------------------------------------
(* Calls that write no row and no message, or only sessions of rows.       *)
LEMMA UnseenLocalStep ==
  ASSUME Steady, UNCHANGED <<used, msgs, gatewayVars>>,
         \/ UNCHANGED rows
         \/ \E f \in Flows : BindConversation(f)
         \/ ListReconcile \/ DeleteClear \/ CloseClear
  PROVE  HistoryStep
<1>0. StoreType /\ FlowType
  BY DEF Steady, Consistent, Typed
<1>1. CASE UNCHANGED rows
  BY <1>1 DEF Threads, IsRow, HistoryStep, History!historyVars, FreshIds, gatewayVars
<1>2. FreshIds' = FreshIds
  BY LocalStepsSameFresh
<1>3. ASSUME NEW f \in Flows, BindConversation(f) PROVE HistoryStep
  <2>1. flow[f].conv \in ConvIds /\ flow[f].session \in Sessions
    BY <1>0, <1>3, FlowInHand DEF BindConversation
  <2>2. CASE SetConversationSession(flow[f].conv, flow[f].session)
    BY <1>0, <1>2, <2>1, <2>2, BindSameThreads DEF HistoryStep, History!historyVars
  <2> QED
    BY <1>1, <1>3, <2>2 DEF BindConversation
<1>4. CASE ListReconcile \/ DeleteClear \/ CloseClear
  <2>1. PICK stale : Unbind(stale) /\ \A c \in stale : IsRow(c)
    BY <1>4 DEF ListReconcile, DeleteClear, CloseClear, ReconcileConversationSessions,
       ClearConversationSessionBySessionID, BoundTo, BoundRows
  <2> QED
    BY <1>0, <1>2, <2>1, UnbindSameThreads DEF HistoryStep, History!historyVars
<1> QED
  BY <1>1, <1>3, <1>4

LEMMA PromptStep ==
  ASSUME Steady, NEW p \in Prompts, PromptSaveUser(p) \/ PromptSaveAssistant(p),
         UNCHANGED gatewayVars
  PROVE  HistoryStep
<1>1. prompt[p].conv \in ConvIds /\ p \in Authors
  BY LocalAssumption
     DEF Steady, Consistent, Typed, PromptType, PromptRecord, PromptSaveUser, PromptSaveAssistant
<1>2. FreshIds' = FreshIds /\ Threads' = Threads
  BY LocalStepsSameFresh DEF PromptSaveUser, PromptSaveAssistant, Threads, IsRow
<1> QED
  BY <1>1, <1>2, SaveSays DEF PromptSaveUser, PromptSaveAssistant

LEMMA LocalStep ==
  ASSUME Steady, LocalNext, UNCHANGED gatewayVars
  PROVE  HistoryStep
<1>1. CASE UNCHANGED <<rows, msgs, used>>
  BY <1>1, UnseenLocalStep
<1>2. ASSUME NEW f \in Flows, CreateConversation(f) \/ ClaimDraft(f) PROVE HistoryStep
  BY <1>2, CreateStep, ClaimStep
<1>3. ASSUME NEW f \in Flows, BindConversation(f) PROVE HistoryStep
  BY <1>3, UnseenLocalStep DEF BindConversation
<1>4. CASE ListReconcile \/ DeleteClear \/ CloseClear
  BY <1>4, UnseenLocalStep DEF ListReconcile, DeleteClear, CloseClear
<1> QED
  BY <1>1, <1>2, <1>3, <1>4, PromptStep, DeleteStep
     DEF LocalNext, StartChat, ReuseSession, OpenSession, ResumeChat, LeaveChat, Send,
         RecoverSession, PromptReply, ListSnapshot, DeleteStart, DeleteClose, CloseSession, storeVars

(* The steps of a request before and after its row is inserted.            *)
LEMMA RequestStep ==
  ASSUME Steady, NEW r \in Requests,
         \/ \E m \in Models, chat \in Chats \cup {None}, role \in Inbound : Arrive(r, m, chat, role)
         \/ FindExistingSession(r) \/ GatewayOpenSession(r)
         \/ ReuseCachedConversation(r) \/ ReattachConversation(r)
         \/ BindApiConversation(r) \/ PersistInboundMessages(r) \/ PersistAssistantTurn(r)
  PROVE  HistoryStep
<1>0. StoreType /\ RequestType
  BY DEF Steady, Consistent, Typed
<1>1. FreshIds' = FreshIds
  BY <1>0, NotStarted
<1>2. CASE UNCHANGED <<rows, msgs>>
  BY <1>1, <1>2 DEF HistoryStep, History!historyVars, Threads, IsRow
<1>3. CASE BindApiConversation(r)
  <2>1. req[r].conv \in ConvIds /\ req[r].session \in Sessions
    BY <1>0, <1>3, RequestInHand DEF BindApiConversation
  <2>2. CASE SetConversationSession(req[r].conv, req[r].session)
    BY <1>0, <1>1, <1>3, <2>1, <2>2, BindSameThreads
       DEF BindApiConversation, HistoryStep, History!historyVars
  <2> QED
    BY <1>2, <1>3, <2>2 DEF BindApiConversation
<1>4. CASE PersistInboundMessages(r) \/ PersistAssistantTurn(r)
  <2>1. req[r].conv \in ConvIds /\ r \in Authors /\ req[r].role \in {"user", "tool", "none"}
    BY <1>0, <1>4, GatewayAssumption
       DEF RequestType, RequestRecord, PersistInboundMessages, PersistAssistantTurn
  <2>2. Threads' = Threads
    BY <1>4 DEF PersistInboundMessages, PersistAssistantTurn, Threads, IsRow
  <2>3. UNCHANGED rows
    BY <1>4 DEF PersistInboundMessages, PersistAssistantTurn
  <2> QED
    BY <1>1, <1>2, <1>4, <2>1, <2>2, <2>3, SaveSays
       DEF PersistInboundMessages, PersistAssistantTurn
<1> QED
  BY <1>2, <1>3, <1>4
     DEF Arrive, FindExistingSession, GatewayOpenSession, ReuseCachedConversation,
         ReattachConversation, storeVars

LEMMA GatewayStep ==
  ASSUME Steady, GatewayNext
  PROVE  HistoryStep
<1>1. CASE StartGateway \/ StopGateway
  <2>1. UNCHANGED <<rows, msgs, used, req>>
    BY <1>1 DEF StartGateway, StopGateway, storeVars
  <2> QED
    BY <2>1 DEF HistoryStep, History!historyVars, Threads, FreshIds, IsRow
<1> QED
  BY <1>1, RequestStep, MintStep, ApiCreateStep DEF GatewayNext

(* ChatSessions implements ThreadHistory: for any number of screens,       *)
(* prompts, requests, sessions and restarts, and under every fault, the    *)
(* stored history changes only as ThreadHistory allows (store.go 690-870). *)
THEOREM Refinement == Spec => HistoryImplemented
<1>1. Init => History!Init
  BY HistoryInit
<1>2. Steady /\ [Next]_vars => [History!Next]_(History!historyVars)
  <2> SUFFICES ASSUME Steady, [Next]_vars PROVE HistoryStep
    BY DEF HistoryStep
  <2>1. CASE UNCHANGED vars
    BY <2>1 DEF vars, storeVars, gatewayVars, HistoryStep, History!historyVars, Threads, FreshIds, IsRow
  <2>2. ASSUME NEW s \in Sessions, SessionExpires(s) PROVE HistoryStep
    BY <2>2 DEF SessionExpires, storeVars, gatewayVars, HistoryStep, History!historyVars, Threads,
       FreshIds, IsRow
  <2> QED
    BY <2>1, <2>2, LocalStep, GatewayStep, RestartStep DEF Next
<1>3. Spec => []Steady
  BY SpecConsistent, SpecShown, PTL DEF Steady
<1> QED
  BY <1>1, <1>2, <1>3, PTL DEF Spec, HistoryImplemented, History!Spec
===============================================================================
