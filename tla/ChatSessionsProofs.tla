-------------------------- MODULE ChatSessionsProofs --------------------------
(***************************************************************************)
(* Proofs, for every value of the constants, of the type correctness of    *)
(* ChatSessions and of the safety of its bindings.  The inductive          *)
(* invariant Consistent says where the ids in the hands of screens and     *)
(* requests come from: from the chain and from the clock, for the model at *)
(* hand.  Then what the gateway's map keeps together, and, for the gateway *)
(* or the chat screen on its own, what their common use of a session can   *)
(* break: one row per session, one thread per closed session.              *)
(***************************************************************************)
EXTENDS ChatSessions, TLAPS

(* Well-typed records, with what the program counter says of the data that *)
(* goes with it.                                                           *)
FlowRecord ==
    {x \in [pc : OnScreen \cup {"new", "left", "gone"}, model : Models \cup {None},
            conv : ConvIds \cup {None}, session : Sessions \cup {None}] :
        /\ x.pc # "new" => x.model \in Models
        /\ x.pc \in OnScreen \ {"reuse", "opening", "create"} => x.conv \in ConvIds
        /\ x.pc \in {"create", "bind", "rebind"} => x.session \in Sessions}

PromptRecord ==
    {x \in [pc : {"idle", "streaming", "saveUser", "saveAssistant", "done", "failed"},
            conv : ConvIds \cup {None}, flow : Flows \cup {None}] :
        x.pc \in {"streaming", "saveUser", "saveAssistant"} => x.conv \in ConvIds}

RequestRecord ==
    {x \in [pc : {"new", "find", "open", "record", "create", "bind", "inbound", "stream", "done"},
            model : Models \cup {None}, chat : Chats \cup {None},
            role : Inbound \cup {"none"}, run : 0..MaxRuns,
            session : Sessions \cup {None}, conv : ConvIds \cup {None}] :
        /\ x.pc # "new" => x.model \in Models /\ x.run \in Runs
        /\ x.pc \in {"record", "create", "bind"} => x.session \in Sessions
        /\ x.pc \in {"create", "bind", "inbound", "stream"} => x.conv \in ConvIds}

MuType == mu \in [op : {"idle", "claim", "list", "deleteClose", "deleteClear", "deleteRows",
                        "closeClear"},
                  conv : ConvIds \cup {None}, session : Sessions \cup {None},
                  usable : SUBSET Sessions]
FlowType == flow \in [Flows -> FlowRecord]
PromptType == prompt \in [Prompts -> PromptRecord]
RunType == run \in 0..MaxRuns /\ serving \in BOOLEAN /\ (serving => run \in Runs)
MapType == chatIDMap \in [Runs -> [Keys -> ApiIds \cup UiIds \cup {None}]]
RequestType == req \in [Requests -> RequestRecord]

(* The inductive form of TypeOK.                                           *)
Typed ==
    /\ ChainType /\ StoreType
    /\ MuType /\ FlowType /\ PromptType
    /\ RunType /\ MapType /\ RequestType

LEMMA TypedImpliesTypeOK == Typed => TypeOK
<1> SUFFICES ASSUME Typed PROVE TypeOK
  OBVIOUS
<1>1. LocalType
  BY DEF Typed, MuType, FlowType, PromptType, FlowRecord, PromptRecord, LocalType
<1>2. GatewayType
  BY DEF Typed, RunType, MapType, RequestType, RequestRecord, GatewayType
<1> QED
  BY <1>1, <1>2 DEF Typed, TypeOK

LEMMA InitTyped == Init => Typed
<1> SUFFICES ASSUME Init PROVE Typed
  OBVIOUS
<1>1. ChainType
  BY DEF Init, ChainInit, ChainType, SessionState
<1>2. StoreType
  BY DEF Init, StoreInit, StoreType
<1>3. MuType
  BY DEF Init, LocalInit, MuType, Idle
<1>4. FlowType
  BY DEF Init, LocalInit, FlowType, FlowRecord, OnScreen
<1>5. PromptType
  BY DEF Init, LocalInit, PromptType, PromptRecord
<1>6. 0 \in 0..MaxRuns
  BY GatewayAssumption
<1>7. RunType
  BY <1>6 DEF Init, GatewayInit, RunType
<1>8. MapType
  BY DEF Init, GatewayInit, MapType
<1>9. RequestType
  BY <1>6 DEF Init, GatewayInit, RequestType, RequestRecord
<1> QED
  BY <1>1, <1>2, <1>3, <1>4, <1>5, <1>7, <1>8, <1>9 DEF Typed
-----------------------------------------------------------------------------
(* Every method of the store leaves well-typed tables.                     *)
LEMMA UnbindType ==
  ASSUME StoreType, NEW stale, \A c \in stale : IsRow(c), Unbind(stale)
  PROVE  rows' \in [ConvIds -> Row \cup {None}]
  BY DEF StoreType, Unbind, Row, IsRow

LEMMA RemoveType ==
  ASSUME StoreType, NEW dead, RemoveThreads(dead)
  PROVE  rows' \in [ConvIds -> Row \cup {None}] /\ msgs' \subseteq Message
  BY DEF StoreType, RemoveThreads

LEMMA SetSessionType ==
  ASSUME StoreType, NEW c \in ConvIds, NEW s \in Sessions \cup {None}, SetConversationSession(c, s)
  PROVE  rows' \in [ConvIds -> Row \cup {None}]
  BY DEF StoreType, SetConversationSession, Row, IsRow

LEMMA CreateType ==
  ASSUME StoreType, NEW c \in ConvIds, NEW m \in Models, NEW src \in {"ui", "api"},
         createConversation(c, m, src)
  PROVE  rows' \in [ConvIds -> Row \cup {None}]
  BY DEF StoreType, createConversation, Row

LEMMA SaveType ==
  ASSUME StoreType, NEW c \in ConvIds, NEW role \in {"user", "tool", "assistant"},
         NEW a \in Authors, SaveMessage(c, role, a)
  PROVE  msgs' \subseteq Message
  BY DEF StoreType, SaveMessage, Message

LEMMA DraftsAreRows ==
  ASSUME StoreType, NEW m, NEW c \in EmptyDrafts(m)
  PROVE  c \in ConvIds /\ IsRow(c) /\ rows[c].session \in Sessions \cup {None}
  BY DEF StoreType, EmptyDrafts, Row, IsRow

LEMMA ChainOpenType ==
  ASSUME ChainType, NEW m \in Models, NEW s \in Sessions, ChainOpen(m, s)
  PROVE  ChainType'
  BY DEF ChainType, ChainOpen, SessionState

LEMMA ChainCloseType ==
  ASSUME ChainType, NEW s \in Sessions, ChainClose(s)
  PROVE  ChainType'
  BY DEF ChainType, ChainClose, SessionState
-----------------------------------------------------------------------------
LEMMA GiveSessionType ==
  ASSUME FlowType, NEW f \in Flows, NEW s \in Sessions,
         flow[f].pc \in {"reuse", "opening", "reattach", "reopening"}, GiveSession(f, s)
  PROVE  FlowType'
<1> DEFINE pc == AfterSession(f)
<1>1. flow[f] \in FlowRecord
  BY DEF FlowType
<1>2. /\ pc \in {"create", "bind", "rebind"}
      /\ pc \in {"bind", "rebind"} => flow[f].conv \in ConvIds
  BY <1>1 DEF FlowRecord, AfterSession, OnScreen
<1>3. flow' = [flow EXCEPT ![f] = [flow[f] EXCEPT !.session = s, !.pc = pc]]
  BY DEF GiveSession
<1> HIDE DEF pc
<1>4. [flow[f] EXCEPT !.session = s, !.pc = pc] \in FlowRecord
  BY <1>1, <1>2 DEF FlowRecord, OnScreen
<1> QED
  BY <1>3, <1>4 DEF FlowType

LEMMA FlowTyped ==
  ASSUME StoreType, FlowType, PromptType, LocalNext
  PROVE  FlowType'
<1>1. ASSUME NEW f \in Flows, NEW m \in Models, StartChat(f, m) PROVE FlowType'
  <2>1. CASE \E pc \in {"reuse", "gone"} :
                 flow' = [flow EXCEPT ![f] = [pc |-> pc, model |-> m, conv |-> None,
                                              session |-> None]]
    BY <2>1 DEF FlowType, FlowRecord, OnScreen
  <2>2. ASSUME NEW c \in EmptyDrafts(m),
               flow' = [flow EXCEPT ![f] = [pc |-> "claim", model |-> m, conv |-> c,
                                            session |-> rows[c].session]]
        PROVE  FlowType'
    <3>1. c \in ConvIds /\ rows[c].session \in Sessions \cup {None}
      BY DraftsAreRows
    <3> QED
      BY <2>2, <3>1 DEF FlowType, FlowRecord, OnScreen
  <2> QED
    BY <1>1, <2>1, <2>2 DEF StartChat
<1>2. ASSUME NEW f \in Flows, ClaimDraft(f) PROVE FlowType'
  BY <1>2 DEF FlowType, FlowRecord, ClaimDraft, OnScreen, Goto
<1>3. ASSUME NEW f \in Flows, ReuseSession(f) PROVE FlowType'
  <2>1. ASSUME NEW s \in Reusable(f), GiveSession(f, s) PROVE FlowType'
    BY <1>3, <2>1, GiveSessionType DEF ReuseSession, Reusable, UsableFor, Usable
  <2>2. CASE Goto(f, IF flow[f].pc = "reattach" THEN "reopening" ELSE "opening")
    BY <1>3, <2>2 DEF FlowType, FlowRecord, ReuseSession, Goto, OnScreen
  <2>3. CASE Goto(f, IF flow[f].pc = "reattach" THEN "ready" ELSE "gone")
    BY <1>3, <2>3 DEF FlowType, FlowRecord, ReuseSession, Goto, OnScreen
  <2> QED
    BY <1>3, <2>1, <2>2, <2>3 DEF ReuseSession
<1>4. ASSUME NEW f \in Flows, OpenSession(f) PROVE FlowType'
  <2>1. ASSUME NEW s \in Sessions, GiveSession(f, s), flow[f].pc # "left" PROVE FlowType'
    BY <1>4, <2>1, GiveSessionType DEF OpenSession
  <2>2. CASE \/ flow[f].pc = "left" /\ Goto(f, "gone")
             \/ Goto(f, IF flow[f].pc = "reopening" THEN "ready" ELSE "gone")
    BY <1>4, <2>2 DEF FlowType, FlowRecord, OpenSession, Goto, OnScreen
  <2> QED
    BY <1>4, <2>1, <2>2 DEF OpenSession
<1>5. ASSUME NEW f \in Flows, CreateConversation(f) PROVE FlowType'
  <2>1. flow[f].pc = "create" /\ flow[f] \in FlowRecord
    BY <1>5 DEF CreateConversation, FlowType
  <2>2. ASSUME NEW c \in UiIds, flow' = [flow EXCEPT ![f].conv = c, ![f].pc = "bind"]
        PROVE  FlowType'
    <3>1. [flow[f] EXCEPT !.conv = c, !.pc = "bind"] \in FlowRecord
      BY <2>1 DEF FlowRecord, OnScreen, ConvIds
    <3> QED
      BY <2>2, <3>1 DEF FlowType
  <2>3. CASE Goto(f, "gone")
    BY <2>1, <2>3 DEF FlowType, FlowRecord, Goto, OnScreen
  <2> QED
    BY <1>5, <2>2, <2>3 DEF CreateConversation
<1>6. ASSUME NEW f \in Flows, BindConversation(f) PROVE FlowType'
  BY <1>6 DEF FlowType, FlowRecord, BindConversation, OnScreen, Goto
<1>7. ASSUME NEW f \in Flows, NEW c \in ConvIds, ResumeChat(f, c) PROVE FlowType'
  <2>1. rows[c].model \in Models /\ Listed(c) \subseteq Sessions \cup {None}
    BY <1>7 DEF ResumeChat, Listed, StoreType, Row, IsRow
  <2> PICK s \in Listed(c) :
          flow' = [flow EXCEPT ![f] = [pc |-> "ready", model |-> rows[c].model, conv |-> c,
                                       session |-> s]]
    BY <1>7 DEF ResumeChat
  <2> DEFINE x == [pc |-> "ready", model |-> rows[c].model, conv |-> c, session |-> s]
  <2>2. x \in FlowRecord
    BY <2>1 DEF FlowRecord, OnScreen
  <2>3. flow' = [flow EXCEPT ![f] = x]
    OBVIOUS
  <2> HIDE DEF x
  <2> QED
    BY <2>2, <2>3 DEF FlowType
<1>8. ASSUME NEW f \in Flows, LeaveChat(f) \/ Send(f) \/ RecoverSession(f) PROVE FlowType'
  BY <1>8 DEF FlowType, FlowRecord, LeaveChat, Send, RecoverSession, Goto, OnScreen
<1>9. ASSUME NEW p \in Prompts, PromptReply(p) \/ PromptSaveUser(p) \/ PromptSaveAssistant(p)
      PROVE  FlowType'
  <2>1. CASE UNCHANGED flow
    BY <2>1 DEF FlowType
  <2>2. ASSUME NEW f, flow[f].pc = "sending", flow' = [flow EXCEPT ![f].pc = "ready"]
        PROVE  FlowType'
    <3>1. f \in Flows => [flow[f] EXCEPT !.pc = "ready"] \in FlowRecord
      BY <2>2 DEF FlowType, FlowRecord, OnScreen
    <3> QED
      BY <2>2, <3>1 DEF FlowType
  <2>3. CASE PromptEnds(p, "done") \/ PromptEnds(p, "failed")
    BY <2>1, <2>2, <2>3 DEF PromptEnds
  <2> QED
    BY <1>9, <2>1, <2>3 DEF PromptReply, PromptSaveUser, PromptSaveAssistant
<1>10. CASE UNCHANGED flow
  BY <1>10 DEF FlowType
<1> QED
  BY <1>1, <1>2, <1>3, <1>4, <1>5, <1>6, <1>7, <1>8, <1>9, <1>10
     DEF LocalNext, ListSnapshot, ListReconcile, DeleteStart, DeleteClose, DeleteClear, DeleteRows,
         CloseSession, CloseClear
LEMMA StoreTypedLocally ==
  ASSUME StoreType, FlowType, PromptType, MuType, LocalNext
  PROVE  StoreType'
<1> DEFINE RowsType == rows \in [ConvIds -> Row \cup {None}]
           MsgsType == msgs \subseteq Message
           UsedType == used \subseteq ConvIds
<1> SUFFICES RowsType' /\ MsgsType' /\ UsedType'
  BY DEF StoreType
<1>0. RowsType /\ MsgsType /\ UsedType
  BY DEF StoreType
<1>1. CASE UNCHANGED storeVars
  BY <1>0, <1>1 DEF storeVars
<1>2. ASSUME NEW f \in Flows, ClaimDraft(f) PROVE RowsType' /\ MsgsType' /\ UsedType'
  BY <1>0, <1>2, RemoveType DEF ClaimDraft, DeleteOtherEmptyConversationsForModel
<1>3. ASSUME NEW f \in Flows, CreateConversation(f) PROVE RowsType' /\ MsgsType' /\ UsedType'
  <2>1. flow[f].model \in Models
    BY <1>3 DEF CreateConversation, FlowType, FlowRecord
  <2>2. RowsType'
    BY <1>0, <1>3, <2>1, CreateType DEF CreateConversation, ConvIds
  <2> QED
    BY <1>0, <1>3, <2>2 DEF CreateConversation, ConvIds
<1>4. ASSUME NEW f \in Flows, BindConversation(f) PROVE RowsType' /\ MsgsType' /\ UsedType'
  <2>1. flow[f].conv \in ConvIds /\ flow[f].session \in Sessions
    BY <1>4 DEF BindConversation, FlowType, FlowRecord, OnScreen
  <2> QED
    BY <1>0, <1>4, <2>1, SetSessionType DEF BindConversation
<1>5. ASSUME NEW p \in Prompts, PromptSaveUser(p) \/ PromptSaveAssistant(p)
      PROVE  RowsType' /\ MsgsType' /\ UsedType'
  <2>1. prompt[p].conv \in ConvIds /\ p \in Authors
    BY <1>5, LocalAssumption DEF PromptSaveUser, PromptSaveAssistant, PromptType, PromptRecord
  <2> QED
    BY <1>0, <1>5, <2>1, SaveType DEF PromptSaveUser, PromptSaveAssistant
<1>6. CASE ListReconcile
  <2>1. RowsType'
    BY <1>6, UnbindType DEF ListReconcile, ReconcileConversationSessions, BoundRows
  <2> QED
    BY <1>0, <1>6, <2>1 DEF ListReconcile
<1>7. CASE DeleteClear \/ CloseClear
  <2>1. RowsType'
    BY <1>7, UnbindType
       DEF DeleteClear, CloseClear, ClearConversationSessionBySessionID, BoundTo
  <2> QED
    BY <1>0, <1>7, <2>1 DEF DeleteClear, CloseClear
<1>8. CASE DeleteRows
  BY <1>0, <1>8, RemoveType DEF DeleteRows, DeleteThread
<1> QED
  BY <1>1, <1>2, <1>3, <1>4, <1>5, <1>6, <1>7, <1>8
     DEF LocalNext, StartChat, ReuseSession, OpenSession, ResumeChat, LeaveChat, Send, RecoverSession,
         PromptReply, ListSnapshot, DeleteStart, DeleteClose, CloseSession

LEMMA ChainTypedLocally ==
  ASSUME ChainType, FlowType, MuType, LocalNext
  PROVE  ChainType'
<1>1. CASE UNCHANGED chain
  BY <1>1 DEF ChainType
<1>2. ASSUME NEW f \in Flows, OpenSession(f) PROVE ChainType'
  <2>1. flow[f].model \in Models
    BY <1>2 DEF OpenSession, FlowType, FlowRecord
  <2> QED
    BY <1>1, <1>2, <2>1, ChainOpenType DEF OpenSession
<1>3. CASE DeleteClose
  <2>1. ASSUME ChainClose(mu.session) PROVE ChainType'
    BY <2>1 DEF ChainType, ChainClose, SessionState
  <2> QED
    BY <1>1, <1>3, <2>1 DEF DeleteClose
<1>4. ASSUME NEW s \in Sessions, CloseSession(s) PROVE ChainType'
  BY <1>4, ChainCloseType DEF CloseSession
<1> QED
  BY <1>1, <1>2, <1>3, <1>4
     DEF LocalNext, StartChat, ClaimDraft, ReuseSession, CreateConversation, BindConversation,
         ResumeChat, LeaveChat, Send, RecoverSession, PromptReply, PromptSaveUser, PromptSaveAssistant,
         ListSnapshot, ListReconcile, DeleteStart, DeleteClear, DeleteRows, CloseClear

LEMMA PromptTyped ==
  ASSUME FlowType, PromptType, LocalNext
  PROVE  PromptType'
<1>1. CASE UNCHANGED prompt
  BY <1>1 DEF PromptType
<1>2. ASSUME NEW f \in Flows, Send(f) PROVE PromptType'
  <2>1. flow[f].conv \in ConvIds
    BY <1>2 DEF Send, FlowType, FlowRecord, OnScreen
  <2>2. ASSUME NEW p \in Prompts,
               prompt' = [prompt EXCEPT ![p] = [pc |-> "streaming", conv |-> flow[f].conv,
                                                flow |-> f]]
        PROVE  PromptType'
    BY <2>1, <2>2 DEF PromptType, PromptRecord
  <2> QED
    BY <1>1, <1>2, <2>2 DEF Send
<1>3. ASSUME NEW p \in Prompts, PromptReply(p) \/ PromptSaveUser(p) \/ PromptSaveAssistant(p)
      PROVE  PromptType'
  BY <1>3 DEF PromptType, PromptRecord, PromptReply, PromptSaveUser, PromptSaveAssistant, PromptEnds
<1> QED
  BY <1>1, <1>2, <1>3
     DEF LocalNext, StartChat, ClaimDraft, ReuseSession, OpenSession, CreateConversation,
         BindConversation, ResumeChat, LeaveChat, RecoverSession, ListSnapshot, ListReconcile,
         DeleteStart, DeleteClose, DeleteClear, DeleteRows, CloseSession, CloseClear

LEMMA MuTyped ==
  ASSUME StoreType, MuType, LocalNext
  PROVE  MuType'
<1>1. CASE UNCHANGED mu
  BY <1>1 DEF MuType
<1>2. CASE mu' = Idle
  BY <1>2 DEF MuType, Idle
<1>3. ASSUME NEW f \in Flows, NEW m \in Models, StartChat(f, m) PROVE MuType'
  <2>1. ASSUME NEW c \in EmptyDrafts(m), mu' = [Idle EXCEPT !.op = "claim", !.conv = c]
        PROVE  MuType'
    BY <2>1, DraftsAreRows DEF MuType, Idle
  <2> QED
    BY <1>1, <1>3, <2>1 DEF StartChat
<1>4. CASE ListSnapshot
  BY <1>4 DEF ListSnapshot, UsableKeys, Usable, MuType, Idle
<1>5. ASSUME NEW c \in ConvIds, DeleteStart(c) PROVE MuType'
  <2>1. rows[c].session \in Sessions \cup {None}
    BY <1>5 DEF DeleteStart, StoreType, Row, IsRow
  <2> QED
    BY <1>5, <2>1 DEF DeleteStart, MuType, Idle
<1>6. CASE DeleteClose \/ DeleteClear
  BY <1>6 DEF DeleteClose, DeleteClear, MuType
<1>7. ASSUME NEW s \in Sessions, CloseSession(s) PROVE MuType'
  BY <1>7 DEF CloseSession, MuType, Idle
<1> QED
  BY <1>1, <1>2, <1>3, <1>4, <1>5, <1>6, <1>7
     DEF LocalNext, ClaimDraft, ReuseSession, OpenSession, CreateConversation, BindConversation,
         ResumeChat, LeaveChat, Send, RecoverSession, PromptReply, PromptSaveUser, PromptSaveAssistant,
         ListReconcile, DeleteRows, CloseClear
-----------------------------------------------------------------------------
(* Each action of the gateway keeps everything it changes typed.           *)
LEMMA RememberType ==
  ASSUME RequestType, MapType, NEW r \in Requests, NEW c \in ConvIds, Remember(r, c)
  PROVE  MapType'
<1> DEFINE new == [k \in Keys |-> IF k \in CacheKeys(r) THEN c ELSE chatIDMap[req[r].run][k]]
<1>1. chatIDMap' = [chatIDMap EXCEPT ![req[r].run] = new]
  BY DEF Remember
<1>2. req[r].run \in Runs => new \in [Keys -> ApiIds \cup UiIds \cup {None}]
  BY DEF MapType, ConvIds
<1> HIDE DEF new
<1> QED
  BY <1>1, <1>2 DEF MapType

LEMMA CachedType ==
  ASSUME RequestType, MapType, NEW r \in Requests, req[r].pc = "record", CachedConv(r) # None
  PROVE  CachedConv(r) \in ConvIds
<1>1. req[r].run \in Runs /\ req[r].session \in Keys /\ req[r].chat \in Keys \cup {None}
  BY DEF RequestType, RequestRecord, Keys
<1>2. \A k \in Keys : Cached(r, k) \in ConvIds \cup {None}
  BY <1>1 DEF MapType, Cached, ConvIds
<1> QED
  BY <1>1, <1>2 DEF CachedConv

LEMMA MapTyped ==
  ASSUME RequestType, MapType, StoreType, GatewayNext
  PROVE  MapType'
<1>1. CASE UNCHANGED chatIDMap
  BY <1>1 DEF MapType
<1>2. ASSUME NEW r \in Requests, ReattachConversation(r) PROVE MapType'
  BY <1>2, RememberType DEF ReattachConversation, BoundTo
<1>3. ASSUME NEW r \in Requests, MintConversation(r) PROVE MapType'
  BY <1>3, RememberType DEF MintConversation, RememberMinted, ConvIds
<1> QED
  BY <1>1, <1>2, <1>3
     DEF GatewayNext, StartGateway, StopGateway, Arrive, FindExistingSession, GatewayOpenSession,
         ReuseCachedConversation, CreateApiConversation, BindApiConversation,
         PersistInboundMessages, PersistAssistantTurn

LEMMA RunTyped ==
  ASSUME RunType, GatewayNext
  PROVE  RunType'
<1>1. CASE UNCHANGED <<run, serving>>
  BY <1>1 DEF RunType
<1>2. CASE StartGateway
  <2>1. run + 1 \in Runs /\ run + 1 \in 0..MaxRuns
    BY <1>2, GatewayAssumption DEF StartGateway, RunType, Runs
  <2> QED
    BY <1>2, <2>1 DEF StartGateway, RunType
<1>3. CASE StopGateway
  BY <1>3 DEF StopGateway, RunType
<1> QED
  BY <1>1, <1>2, <1>3
     DEF GatewayNext, Arrive, FindExistingSession, GatewayOpenSession, ReuseCachedConversation,
         ReattachConversation, MintConversation, CreateApiConversation, BindApiConversation,
         PersistInboundMessages, PersistAssistantTurn

LEMMA RequestTyped ==
  ASSUME StoreType, RunType, MapType, RequestType, GatewayNext
  PROVE  RequestType'
<1>1. CASE UNCHANGED req
  BY <1>1 DEF RequestType
<1>2. ASSUME NEW r \in Requests, NEW m \in Models, NEW chat \in Chats \cup {None},
             NEW role \in Inbound, Arrive(r, m, chat, role)
      PROVE  RequestType'
  <2>1. run \in Runs /\ run \in 0..MaxRuns
    BY <1>2 DEF Arrive, RunType
  <2>2. [pc |-> "find", model |-> m, chat |-> chat, role |-> role, run |-> run,
         session |-> None, conv |-> None] \in RequestRecord
    BY <2>1 DEF RequestRecord
  <2>3. req' = [req EXCEPT ![r] = [pc |-> "find", model |-> m, chat |-> chat, role |-> role,
                                   run |-> run, session |-> None, conv |-> None]]
    BY <1>2 DEF Arrive
  <2> QED
    BY <2>2, <2>3 DEF RequestType
<1>3. ASSUME NEW r \in Requests, NEW s \in Sessions, req[r].pc \in {"find", "open"},
             req' = [req EXCEPT ![r].session = s, ![r].pc = "record"]
      PROVE  RequestType'
  BY <1>3 DEF RequestType, RequestRecord
<1>4. ASSUME NEW r \in Requests, FindExistingSession(r) PROVE RequestType'
  <2>1. CASE req[r].pc = "find" /\ RequestGoto(r, "open")
    BY <2>1 DEF RequestGoto, RequestType, RequestRecord
  <2> QED
    BY <1>3, <1>4, <2>1 DEF FindExistingSession, ExistingSessions, UsableFor, Usable
<1>5. ASSUME NEW r \in Requests, GatewayOpenSession(r) PROVE RequestType'
  <2>1. CASE req[r].pc = "open" /\ RequestGoto(r, "done")
    BY <2>1 DEF RequestGoto, RequestType, RequestRecord
  <2> QED
    BY <1>3, <1>5, <2>1 DEF GatewayOpenSession
<1>6. ASSUME NEW r \in Requests, NEW c \in ConvIds, NEW pc \in {"create", "inbound"},
             req[r].pc = "record", req' = [req EXCEPT ![r].conv = c, ![r].pc = pc]
      PROVE  RequestType'
  BY <1>6 DEF RequestType, RequestRecord
<1>7. ASSUME NEW r \in Requests,
             ReuseCachedConversation(r) \/ ReattachConversation(r) \/ MintConversation(r)
      PROVE  RequestType'
  BY <1>6, <1>7, CachedType
     DEF ReuseCachedConversation, ReattachConversation, MintConversation, BoundTo, ConvIds
<1>8. ASSUME NEW r \in Requests,
             \/ CreateApiConversation(r) \/ BindApiConversation(r)
             \/ PersistInboundMessages(r) \/ PersistAssistantTurn(r)
      PROVE  RequestType'
  BY <1>8 DEF RequestType, RequestRecord, RequestGoto, CreateApiConversation, BindApiConversation,
     PersistInboundMessages, PersistAssistantTurn
<1> QED
  BY <1>1, <1>2, <1>4, <1>5, <1>7, <1>8 DEF GatewayNext, StartGateway, StopGateway

LEMMA ChainTypedInGateway ==
  ASSUME ChainType, RequestType, GatewayNext
  PROVE  ChainType'
<1>1. CASE UNCHANGED chain
  BY <1>1 DEF ChainType
<1>2. ASSUME NEW r \in Requests, GatewayOpenSession(r) PROVE ChainType'
  <2>1. req[r].model \in Models
    BY <1>2 DEF GatewayOpenSession, RequestType, RequestRecord
  <2> QED
    BY <1>1, <1>2, <2>1, ChainOpenType DEF GatewayOpenSession
<1> QED
  BY <1>1, <1>2
     DEF GatewayNext, StartGateway, StopGateway, Arrive, FindExistingSession,
         ReuseCachedConversation, ReattachConversation, MintConversation, CreateApiConversation,
         BindApiConversation, PersistInboundMessages, PersistAssistantTurn

LEMMA StoreTypedInGateway ==
  ASSUME StoreType, RequestType, GatewayNext
  PROVE  StoreType'
<1>1. CASE UNCHANGED storeVars
  BY <1>1 DEF StoreType, storeVars
<1>2. ASSUME NEW r \in Requests, MintConversation(r) PROVE StoreType'
  BY <1>2 DEF MintConversation, StoreType, ConvIds
<1>3. ASSUME NEW r \in Requests, CreateApiConversation(r) PROVE StoreType'
  <2>1. req[r].conv \in ConvIds /\ req[r].model \in Models
    BY <1>3 DEF CreateApiConversation, RequestType, RequestRecord
  <2>2. rows' \in [ConvIds -> Row \cup {None}]
    BY <1>3, <2>1, CreateType DEF CreateApiConversation, StoreType
  <2> QED
    BY <1>3, <2>2 DEF CreateApiConversation, StoreType
<1>4. ASSUME NEW r \in Requests, BindApiConversation(r) PROVE StoreType'
  <2>1. req[r].conv \in ConvIds /\ req[r].session \in Sessions
    BY <1>4 DEF BindApiConversation, RequestType, RequestRecord
  <2>2. rows' \in [ConvIds -> Row \cup {None}]
    BY <1>4, <2>1, SetSessionType DEF BindApiConversation, StoreType
  <2> QED
    BY <1>4, <2>2 DEF BindApiConversation, StoreType
<1>5. ASSUME NEW r \in Requests, PersistInboundMessages(r) \/ PersistAssistantTurn(r)
      PROVE  StoreType'
  <2>1. req[r].conv \in ConvIds /\ r \in Authors
    BY <1>5, GatewayAssumption
       DEF PersistInboundMessages, PersistAssistantTurn, RequestType, RequestRecord
  <2>2. req[r].role # "none" => req[r].role \in {"user", "tool", "assistant"}
    BY GatewayAssumption DEF RequestType, RequestRecord
  <2>3. msgs' \subseteq Message
    BY <1>5, <2>1, <2>2, SaveType DEF PersistInboundMessages, PersistAssistantTurn, StoreType
  <2> QED
    BY <1>5, <2>3 DEF PersistInboundMessages, PersistAssistantTurn, StoreType
<1> QED
  BY <1>1, <1>2, <1>3, <1>4, <1>5
     DEF GatewayNext, StartGateway, StopGateway, Arrive, FindExistingSession, GatewayOpenSession,
         ReuseCachedConversation, ReattachConversation
-----------------------------------------------------------------------------
LEMMA TypedStep == Typed /\ [Next]_vars => Typed'
<1> SUFFICES ASSUME Typed, [Next]_vars PROVE Typed'
  OBVIOUS
<1> USE DEF Typed
<1>1. CASE LocalNext /\ UNCHANGED gatewayVars
  <2>1. (RunType /\ MapType /\ RequestType)'
    BY <1>1 DEF gatewayVars, RunType, MapType, RequestType
  <2> QED
    BY <1>1, <2>1, ChainTypedLocally, StoreTypedLocally, MuTyped, FlowTyped, PromptTyped
<1>2. CASE GatewayNext /\ UNCHANGED localVars
  <2>1. (MuType /\ FlowType /\ PromptType)'
    BY <1>2 DEF localVars, MuType, FlowType, PromptType
  <2> QED
    BY <1>2, <2>1, ChainTypedInGateway, StoreTypedInGateway, RunTyped, MapTyped, RequestTyped
<1>3. ASSUME NEW s \in Sessions, SessionExpires(s) PROVE Typed'
  <2>1. ChainType'
    BY <1>3 DEF SessionExpires, Expire, ChainType, SessionState
  <2> QED
    BY <1>3, <2>1
       DEF SessionExpires, storeVars, localVars, gatewayVars, StoreType, MuType, FlowType,
           PromptType, RunType, MapType, RequestType
<1>4. CASE AppRestart
  <2>1. (ChainType /\ StoreType /\ RunType /\ MapType)'
    BY <1>4 DEF AppRestart, storeVars, ChainType, StoreType, RunType, MapType
  <2>2. MuType'
    BY <1>4 DEF AppRestart, MuType, Idle
  <2>3. FlowType'
    BY <1>4 DEF AppRestart, FlowType, FlowRecord, OnScreen
  <2>4. PromptType'
    BY <1>4 DEF AppRestart, PromptType, PromptRecord
  <2>5. RequestType'
    BY <1>4 DEF AppRestart, RequestType, RequestRecord
  <2> QED
    BY <2>1, <2>2, <2>3, <2>4, <2>5
<1>5. CASE UNCHANGED vars
  BY <1>5 DEF vars, storeVars, localVars, gatewayVars, ChainType, StoreType, MuType, FlowType,
     PromptType, RunType, MapType, RequestType
<1> QED
  BY <1>1, <1>2, <1>3, <1>4, <1>5 DEF Next

LEMMA SpecTyped == Spec => []Typed
  BY InitTyped, TypedStep, PTL DEF Spec

(* Every variable keeps to its type, however many screens, requests,       *)
(* sessions and conversations there are.                                   *)
THEOREM TypeCorrect == Spec => []TypeOK
  BY SpecTyped, TypedImpliesTypeOK, PTL
-----------------------------------------------------------------------------
(* No id is in use that was not drawn.                                     *)
IdsDrawn ==
    /\ \A c \in ConvIds : IsRow(c) => c \in used
    /\ \A f \in Flows : flow[f].conv # None => flow[f].conv \in used
    /\ \A r \in Requests : req[r].pc \in {"create", "bind"} => req[r].conv \in used

(* Only the request that minted an id may insert its row.                  *)
MintedOnce ==
    /\ \A r \in Requests : req[r].pc = "create" =>
          ~IsRow(req[r].conv) /\ \A f \in Flows : flow[f].conv # req[r].conv
    /\ \A q, r \in Requests :
          /\ req[q].pc \in {"create", "bind"} /\ req[r].pc \in {"create", "bind"}
          /\ req[q].conv = req[r].conv
          => q = r

(* A session in hand was opened for the model in hand.                     *)
SessionsAgree ==
    /\ \A f \in Flows : flow[f].session # None => OpenedFor(flow[f].session, flow[f].model)
    /\ \A r \in Requests : req[r].session # None => OpenedFor(req[r].session, req[r].model)

(* A row in hand is of the model in hand.                                  *)
RowsAgree ==
    /\ \A f \in Flows : flow[f].conv # None /\ IsRow(flow[f].conv) =>
          rows[flow[f].conv].model = flow[f].model
    /\ \A r \in Requests : req[r].pc = "bind" /\ IsRow(req[r].conv) =>
          rows[req[r].conv].model = req[r].model

Consistent ==
    Typed /\ IdsDrawn /\ MintedOnce /\ SessionsAgree /\ RowsAgree /\ BindingsAgreeWithChain

(* One screen at a time, none while the home screen deletes a thread, and  *)
(* the draft being claimed is a thread of the app.                         *)
OneScreen ==
    /\ \A f, g \in Flows : flow[f].pc \in OnScreen /\ flow[g].pc \in OnScreen => f = g
    /\ mu.op \in {"deleteClose", "deleteClear", "deleteRows"} => AtHome
    /\ mu.op = "claim" => mu.conv \in ConvIds /\ IsRow(mu.conv) /\ rows[mu.conv].source = "ui"

Shown == Typed /\ OneScreen /\ ScreenThreadExists
-----------------------------------------------------------------------------
(* How a step may change a row other than by creating or binding it.       *)
Kept(c) ==
    IsRow(c)' => /\ IsRow(c)
                 /\ rows'[c].model = rows[c].model
                 /\ rows'[c].source = rows[c].source
                 /\ rows'[c].session \in {rows[c].session, None}

LEMMA UnbindKeeps ==
  ASSUME StoreType, NEW stale, \A c \in stale : IsRow(c), Unbind(stale), NEW c \in ConvIds
  PROVE  Kept(c)
  BY StoreAssumption DEF StoreType, Unbind, Kept, IsRow, Row

LEMMA RemoveKeeps ==
  ASSUME NEW dead, RemoveThreads(dead), NEW c \in ConvIds
  PROVE  Kept(c)
  BY DEF RemoveThreads, Kept, IsRow

LEMMA RowsKept ==
  ASSUME Typed, [Next]_vars,
         \A f \in Flows : ~CreateConversation(f) /\ ~BindConversation(f),
         \A r \in Requests : ~CreateApiConversation(r) /\ ~BindApiConversation(r),
         NEW c \in ConvIds
  PROVE  Kept(c)
<1>1. CASE UNCHANGED rows
  BY <1>1 DEF Kept, IsRow
<1>2. ASSUME NEW f \in Flows, ClaimDraft(f) PROVE Kept(c)
  BY <1>1, <1>2, RemoveKeeps DEF ClaimDraft, DeleteOtherEmptyConversationsForModel
<1>3. CASE ListReconcile \/ DeleteClear \/ CloseClear
  BY <1>3, UnbindKeeps
     DEF Typed, ListReconcile, DeleteClear, CloseClear, ReconcileConversationSessions, BoundRows,
         ClearConversationSessionBySessionID, BoundTo
<1>4. CASE DeleteRows
  BY <1>1, <1>4, RemoveKeeps DEF DeleteRows, DeleteThread
<1>5. CASE LocalNext
  BY <1>1, <1>2, <1>3, <1>4, <1>5
     DEF LocalNext, StartChat, ReuseSession, OpenSession, ResumeChat, LeaveChat, Send, RecoverSession,
         PromptReply, PromptSaveUser, PromptSaveAssistant, ListSnapshot, DeleteStart,
         DeleteClose, CloseSession, storeVars
<1>6. CASE GatewayNext
  BY <1>1, <1>6
     DEF GatewayNext, StartGateway, StopGateway, Arrive, FindExistingSession, GatewayOpenSession,
         ReuseCachedConversation, ReattachConversation, MintConversation,
         PersistInboundMessages, PersistAssistantTurn, storeVars
<1> QED
  BY <1>1, <1>5, <1>6 DEF Next, SessionExpires, AppRestart, vars, storeVars

(* A session, once opened, stays a session of its model.                   *)
LEMMA OpenedStays ==
  ASSUME Typed, [Next]_vars, NEW s \in Sessions, NEW m, OpenedFor(s, m)
  PROVE  OpenedFor(s, m)'
<1>1. CASE UNCHANGED chain
  BY <1>1 DEF OpenedFor
<1>2. ASSUME NEW n, NEW t \in Sessions, ChainOpen(n, t) PROVE OpenedFor(s, m)'
  BY <1>2 DEF Typed, ChainType, ChainOpen, OpenedFor
<1>3. ASSUME NEW t, ChainClose(t) \/ Expire(t) PROVE OpenedFor(s, m)'
  BY <1>3 DEF Typed, ChainType, ChainClose, Expire, OpenedFor
<1>4. CASE LocalNext
  BY <1>1, <1>2, <1>3, <1>4
     DEF LocalNext, StartChat, ClaimDraft, ReuseSession, OpenSession, CreateConversation,
         BindConversation, ResumeChat, LeaveChat, Send, RecoverSession, PromptReply, PromptSaveUser,
         PromptSaveAssistant, ListSnapshot, ListReconcile, DeleteStart, DeleteClose, DeleteClear,
         DeleteRows, CloseSession, CloseClear
<1>5. CASE GatewayNext
  BY <1>1, <1>2, <1>5
     DEF GatewayNext, StartGateway, StopGateway, Arrive, FindExistingSession, GatewayOpenSession,
         ReuseCachedConversation, ReattachConversation, MintConversation, CreateApiConversation,
         BindApiConversation, PersistInboundMessages, PersistAssistantTurn
<1> QED
  BY <1>1, <1>3, <1>4, <1>5 DEF Next, SessionExpires, AppRestart, vars

LEMMA UsableIsOpened ==
  ASSUME NEW m, NEW s \in UsableFor(m)
  PROVE  s \in Sessions /\ OpenedFor(s, m)
  BY DEF UsableFor, Usable, OpenedFor
-----------------------------------------------------------------------------
(* How the data a screen or a request holds may change.                    *)
FlowKept(f) == /\ flow'[f].model = flow[f].model
               /\ flow'[f].session \in {flow[f].session, None}
               /\ flow'[f].conv = flow[f].conv

RequestKept(r) == /\ req'[r].model = req[r].model
                  /\ req'[r].session = req[r].session
                  /\ req'[r].conv = req[r].conv
                  /\ req'[r].pc \in {"create", "bind"} => req[r].pc \in {"create", "bind"}
                  /\ req'[r].pc = "create" => req[r].pc = "create"

GivenData(f) ==
    \/ \E m \in Models : StartChat(f, m)
    \/ \E c \in ConvIds : ResumeChat(f, c)
    \/ ReuseSession(f) \/ OpenSession(f) \/ CreateConversation(f)

LEMMA GotoKeeps ==
  ASSUME FlowType, NEW f, NEW pc, Goto(f, pc), NEW g \in Flows
  PROVE  FlowKept(g)
  BY DEF FlowType, FlowRecord, Goto, FlowKept

LEMMA FlowsKept ==
  ASSUME Typed, [Next]_vars, NEW g \in Flows, ~GivenData(g)
  PROVE  FlowKept(g)
<1> USE DEF Typed
<1>1. CASE UNCHANGED flow
  BY <1>1 DEF FlowKept
<1>2. ASSUME NEW f \in Flows, f # g, GivenData(f) PROVE FlowKept(g)
  <2>1. flow'[g] = flow[g]
    BY <1>2 DEF GivenData, StartChat, ResumeChat, ReuseSession, OpenSession, CreateConversation,
       GiveSession, Goto, FlowType
  <2> QED
    BY <2>1 DEF FlowKept
<1>3. ASSUME NEW f \in Flows, ClaimDraft(f) \/ LeaveChat(f) \/ Send(f) \/ RecoverSession(f)
      PROVE  FlowKept(g)
  <2>1. CASE RecoverSession(f)
    BY <2>1 DEF RecoverSession, FlowType, FlowRecord, FlowKept
  <2> QED
    BY <1>3, <2>1, GotoKeeps DEF ClaimDraft, LeaveChat, Send
<1>4. ASSUME NEW f \in Flows, BindConversation(f) PROVE FlowKept(g)
  <2>1. CASE Goto(f, "ready")
    BY <2>1, GotoKeeps
  <2>2. ASSUME NEW pc, flow' = [flow EXCEPT ![f].session = None, ![f].pc = pc] PROVE FlowKept(g)
    BY <2>2 DEF FlowType, FlowRecord, FlowKept
  <2> QED
    BY <1>4, <2>1, <2>2 DEF BindConversation
<1>5. ASSUME NEW p \in Prompts, PromptReply(p) \/ PromptSaveUser(p) \/ PromptSaveAssistant(p)
      PROVE  FlowKept(g)
  <2>1. CASE PromptEnds(p, "done") \/ PromptEnds(p, "failed")
    <3>1. ASSUME NEW f, flow' = [flow EXCEPT ![f].pc = "ready"] PROVE FlowKept(g)
      BY <3>1 DEF FlowType, FlowRecord, FlowKept
    <3> QED
      BY <1>1, <2>1, <3>1 DEF PromptEnds
  <2> QED
    BY <1>1, <1>5, <2>1 DEF PromptReply, PromptSaveUser, PromptSaveAssistant
<1>6. CASE LocalNext
  BY <1>1, <1>2, <1>3, <1>4, <1>5, <1>6
     DEF LocalNext, GivenData, ListSnapshot, ListReconcile, DeleteStart, DeleteClose, DeleteClear,
         DeleteRows, CloseSession, CloseClear
<1>7. CASE AppRestart
  BY <1>7 DEF AppRestart, FlowType, FlowRecord, FlowKept
<1> QED
  BY <1>1, <1>6, <1>7 DEF Next, SessionExpires, vars, localVars

LEMMA RequestGotoKeeps ==
  ASSUME RequestType, NEW q \in Requests, NEW pc, RequestGoto(q, pc), NEW r \in Requests,
         pc \notin {"create", "bind"} \/ (pc = "bind" /\ req[q].pc = "create")
  PROVE  RequestKept(r)
  BY DEF RequestType, RequestRecord, RequestGoto, RequestKept

GivenRequest(r) ==
    \/ \E m \in Models, chat \in Chats \cup {None}, role \in Inbound : Arrive(r, m, chat, role)
    \/ FindExistingSession(r) \/ GatewayOpenSession(r)
    \/ ReuseCachedConversation(r) \/ ReattachConversation(r) \/ MintConversation(r)

LEMMA RequestsKept ==
  ASSUME Typed, [Next]_vars, NEW r \in Requests, ~GivenRequest(r)
  PROVE  RequestKept(r)
<1> USE DEF Typed
<1>1. CASE UNCHANGED req
  BY <1>1 DEF RequestKept
<1>2. ASSUME NEW q \in Requests, q # r, GivenRequest(q) PROVE RequestKept(r)
  <2>1. req'[r] = req[r]
    BY <1>2 DEF GivenRequest, Arrive, FindExistingSession, GatewayOpenSession,
       ReuseCachedConversation, ReattachConversation, MintConversation, RequestGoto, RequestType
  <2> QED
    BY <2>1 DEF RequestKept
<1>3. ASSUME NEW q \in Requests, CreateApiConversation(q) \/ BindApiConversation(q)
                              \/ PersistInboundMessages(q) \/ PersistAssistantTurn(q)
      PROVE  RequestKept(r)
  BY <1>3, RequestGotoKeeps
     DEF CreateApiConversation, BindApiConversation, PersistInboundMessages, PersistAssistantTurn
<1>4. CASE GatewayNext
  BY <1>1, <1>2, <1>3, <1>4 DEF GatewayNext, GivenRequest, StartGateway, StopGateway
<1>5. CASE AppRestart
  BY <1>5 DEF AppRestart, RequestType, RequestRecord, RequestKept
<1> QED
  BY <1>1, <1>4, <1>5 DEF Next, SessionExpires, vars, gatewayVars
-----------------------------------------------------------------------------
LEMMA GivenSession ==
  ASSUME FlowType, NEW f \in Flows, NEW s \in Sessions, GiveSession(f, s)
  PROVE  /\ flow'[f].session = s
         /\ flow'[f].model = flow[f].model
         /\ flow'[f].conv = flow[f].conv
<1> DEFINE pc == AfterSession(f)
<1>1. flow' = [flow EXCEPT ![f].session = s, ![f].pc = pc]
  BY DEF GiveSession
<1> HIDE DEF pc
<1> QED
  BY <1>1 DEF FlowType, FlowRecord

LEMMA BoundIsOpened ==
  ASSUME StoreType, BindingsAgreeWithChain, NEW c \in ConvIds, IsRow(c), rows[c].session # None
  PROVE  rows[c].session \in Sessions /\ OpenedFor(rows[c].session, rows[c].model)
<1>1. rows[c].session \in Sessions
  BY DEF StoreType, Row, IsRow
<1> QED
  BY <1>1 DEF BindingsAgreeWithChain, BoundTo

LEMMA SessionsAgreeStep ==
  ASSUME Consistent, [Next]_vars
  PROVE  SessionsAgree'
<1> DEFINE Agrees(x) == x.session # None => OpenedFor(x.session, x.model)
<1> USE DEF Consistent
<1>0. FlowType /\ RequestType /\ StoreType /\ ChainType
  BY DEF Typed
<1>1. ASSUME NEW f \in Flows PROVE Agrees(flow[f])'
  <2>1. Agrees(flow[f]) /\ flow[f].session \in Sessions \cup {None}
    BY <1>0 DEF SessionsAgree, FlowType, FlowRecord
  <2>2. CASE FlowKept(f)
    BY <2>1, <2>2, OpenedStays DEF FlowKept
  <2>3. ASSUME NEW m \in Models, StartChat(f, m) PROVE Agrees(flow[f])'
    <3>1. CASE \E pc \in {"reuse", "gone"} :
                 flow' = [flow EXCEPT ![f] = [pc |-> pc, model |-> m, conv |-> None,
                                              session |-> None]]
      BY <1>0, <3>1 DEF FlowType
    <3>2. ASSUME NEW c \in EmptyDrafts(m),
                 flow' = [flow EXCEPT ![f] = [pc |-> "claim", model |-> m, conv |-> c,
                                              session |-> rows[c].session]]
          PROVE  Agrees(flow[f])'
      <4>1. c \in ConvIds /\ IsRow(c) /\ rows[c].model = m
        BY DEF EmptyDrafts
      <4>2. flow'[f].session = rows[c].session /\ flow'[f].model = m
        BY <1>0, <3>2 DEF FlowType
      <4> QED
        BY <1>0, <4>1, <4>2, BoundIsOpened, OpenedStays
    <3> QED
      BY <2>3, <3>1, <3>2 DEF StartChat
  <2>4. ASSUME NEW c \in ConvIds, ResumeChat(f, c) PROVE Agrees(flow[f])'
    <3>1. /\ flow'[f].session \in Listed(c) /\ flow'[f].model = rows[c].model
          /\ IsRow(c)
      BY <1>0, <2>4 DEF ResumeChat, FlowType
    <3>2. CASE flow'[f].session = rows[c].session
      BY <1>0, <3>1, <3>2, BoundIsOpened, OpenedStays
    <3>3. ASSUME NEW s \in Sessions, flow'[f].session = s, OpenedFor(s, rows[c].model)
          PROVE  Agrees(flow[f])'
      BY <1>0, <3>1, <3>3, OpenedStays
    <3> QED
      BY <3>1, <3>2, <3>3 DEF Listed
  <2>5. CASE ReuseSession(f)
    <3>1. ASSUME NEW s \in UsableFor(flow[f].model), GiveSession(f, s) PROVE Agrees(flow[f])'
      BY <1>0, <3>1, GivenSession, UsableIsOpened, OpenedStays
    <3> QED
      BY <1>0, <2>2, <2>5, <3>1, GotoKeeps DEF ReuseSession, Reusable
  <2>6. CASE OpenSession(f)
    <3>1. ASSUME NEW s \in Sessions, ChainOpen(flow[f].model, s), GiveSession(f, s)
          PROVE  Agrees(flow[f])'
      <4>1. chain'[s].state # "unused" /\ chain'[s].model = flow[f].model
        BY <1>0, <3>1 DEF ChainOpen, ChainType
      <4> QED
        BY <1>0, <3>1, <4>1, GivenSession DEF OpenedFor
    <3> QED
      BY <1>0, <2>2, <2>6, <3>1, GotoKeeps DEF OpenSession
  <2>7. CASE CreateConversation(f)
    <3>1. ASSUME NEW c, flow' = [flow EXCEPT ![f].conv = c, ![f].pc = "bind"]
          PROVE  Agrees(flow[f])'
      <4>1. flow'[f].session = flow[f].session /\ flow'[f].model = flow[f].model
        BY <1>0, <3>1 DEF FlowType, FlowRecord
      <4> QED
        BY <2>1, <4>1, OpenedStays
    <3> QED
      BY <1>0, <2>2, <2>7, <3>1, GotoKeeps DEF CreateConversation
  <2> QED
    BY <2>2, <2>3, <2>4, <2>5, <2>6, <2>7, FlowsKept DEF GivenData
<1>2. ASSUME NEW r \in Requests PROVE Agrees(req[r])'
  <2>1. Agrees(req[r]) /\ req[r].session \in Sessions \cup {None}
    BY <1>0 DEF SessionsAgree, RequestType, RequestRecord
  <2>2. CASE req'[r].session = req[r].session /\ req'[r].model = req[r].model
    BY <2>1, <2>2, OpenedStays
  <2>3. ASSUME NEW m \in Models, NEW chat, NEW role, Arrive(r, m, chat, role)
        PROVE  Agrees(req[r])'
    BY <1>0, <2>3 DEF Arrive, RequestType
  <2>4. ASSUME NEW pc, RequestGoto(r, pc) PROVE Agrees(req[r])'
    BY <1>0, <2>2, <2>4 DEF RequestGoto, RequestType, RequestRecord
  <2>5. ASSUME NEW s \in Sessions, req' = [req EXCEPT ![r].session = s, ![r].pc = "record"]
        PROVE  req'[r].session = s /\ req'[r].model = req[r].model
    BY <1>0, <2>5 DEF RequestType, RequestRecord
  <2>6. CASE FindExistingSession(r)
    <3>1. ASSUME NEW s \in UsableFor(req[r].model),
                 req' = [req EXCEPT ![r].session = s, ![r].pc = "record"]
          PROVE  Agrees(req[r])'
      BY <2>5, <3>1, UsableIsOpened, OpenedStays
    <3> QED
      BY <2>4, <2>6, <3>1 DEF FindExistingSession, ExistingSessions
  <2>7. CASE GatewayOpenSession(r)
    <3>1. ASSUME NEW s \in Sessions, ChainOpen(req[r].model, s),
                 req' = [req EXCEPT ![r].session = s, ![r].pc = "record"]
          PROVE  Agrees(req[r])'
      <4>1. /\ chain'[s].state # "unused" /\ chain'[s].model = req[r].model
        BY <1>0, <3>1 DEF ChainOpen, ChainType
      <4> QED
        BY <2>5, <3>1, <4>1 DEF OpenedFor
    <3> QED
      BY <2>4, <2>7, <3>1 DEF GatewayOpenSession
  <2>8. CASE ReuseCachedConversation(r) \/ ReattachConversation(r) \/ MintConversation(r)
    <3>1. ASSUME NEW c, NEW pc, req' = [req EXCEPT ![r].conv = c, ![r].pc = pc]
          PROVE  Agrees(req[r])'
      BY <1>0, <2>2, <3>1 DEF RequestType, RequestRecord
    <3> QED
      BY <2>8, <3>1 DEF ReuseCachedConversation, ReattachConversation, MintConversation
  <2>9. CASE RequestKept(r)
    BY <2>2, <2>9 DEF RequestKept
  <2> QED
    BY <2>3, <2>6, <2>7, <2>8, <2>9, RequestsKept DEF GivenRequest
<1> QED
  BY <1>1, <1>2 DEF SessionsAgree
-----------------------------------------------------------------------------
(* Inserting and binding a row touch that row only.                        *)
LEMMA CreateEffect ==
  ASSUME StoreType, NEW c \in ConvIds, NEW m \in Models, NEW src \in {"ui", "api"},
         createConversation(c, m, src), NEW d \in ConvIds
  PROVE  /\ d # c => rows'[d] = rows[d]
         /\ IsRow(c)'
         /\ rows'[c].model = m /\ rows'[c].source = src /\ rows'[c].session = None
<1>1. rows'[c] = [model |-> m, source |-> src, session |-> None]
  BY DEF StoreType, createConversation
<1>2. rows'[c] \in Row
  BY <1>1 DEF Row
<1> QED
  BY <1>1, <1>2, StoreAssumption DEF StoreType, createConversation, IsRow

LEMMA BindEffect ==
  ASSUME StoreType, NEW c \in ConvIds, NEW s \in Sessions, SetConversationSession(c, s),
         NEW d \in ConvIds
  PROVE  /\ IsRow(d)' => /\ IsRow(d)
                          /\ rows'[d].model = rows[d].model
                          /\ rows'[d].source = rows[d].source
         /\ d # c => rows'[d] = rows[d]
         /\ d = c => rows'[d].session = s
  BY StoreAssumption DEF StoreType, SetConversationSession, IsRow, Row

LEMMA FlowInHand ==
  ASSUME FlowType, NEW f \in Flows
  PROVE  /\ flow[f].pc = "create" => flow[f].model \in Models
         /\ flow[f].pc \in {"bind", "rebind"} =>
                flow[f].conv \in ConvIds /\ flow[f].session \in Sessions
  BY DEF FlowType, FlowRecord, OnScreen

LEMMA RequestInHand ==
  ASSUME RequestType, NEW r \in Requests, req[r].pc \in {"create", "bind"}
  PROVE  req[r].model \in Models /\ req[r].conv \in ConvIds /\ req[r].session \in Sessions
  BY DEF RequestType, RequestRecord

LEMMA NoneIsNothing == None \notin ConvIds /\ None \notin Sessions /\ None \notin Models
  BY StoreAssumption

LEMMA BindingsStep ==
  ASSUME Consistent, [Next]_vars
  PROVE  BindingsAgreeWithChain'
<1> SUFFICES ASSUME NEW c \in ConvIds, NEW s \in Sessions, IsRow(c)', rows'[c].session = s
             PROVE  chain'[s].state # "unused" /\ chain'[s].model = rows'[c].model
  BY DEF BindingsAgreeWithChain, BoundTo, OpenedFor
<1> USE DEF Consistent
<1>0. FlowType /\ RequestType /\ StoreType /\ ChainType
  BY DEF Typed
<1> DEFINE Opened == chain'[s].state # "unused" /\ chain'[s].model = rows'[c].model
           Same == IsRow(c) /\ rows'[c].model = rows[c].model /\ rows'[c].session = rows[c].session
<1>1. CASE Same
  BY <1>0, <1>1, BoundIsOpened, OpenedStays, NoneIsNothing DEF OpenedFor
<1>2. CASE UNCHANGED rows
  BY <1>1, <1>2 DEF IsRow
<1>3. ASSUME NEW f \in Flows, CreateConversation(f) PROVE Opened
  <2>1. ASSUME NEW d \in ConvIds, createConversation(d, flow[f].model, "ui")
        PROVE  Opened
    <3>1. flow[f].model \in Models
      BY <1>0, <1>3, FlowInHand DEF CreateConversation
    <3>2. c # d
      BY <1>0, <2>1, <3>1, CreateEffect, NoneIsNothing
    <3>3. rows'[c] = rows[c]
      BY <1>0, <2>1, <3>1, <3>2, CreateEffect
    <3> QED
      BY <1>1, <3>3 DEF IsRow
  <2> QED
    BY <1>2, <1>3, <2>1 DEF CreateConversation, ConvIds
<1>4. ASSUME NEW f \in Flows, BindConversation(f) PROVE Opened
  <2>1. flow[f].conv \in ConvIds /\ flow[f].session \in Sessions
    BY <1>0, <1>4, FlowInHand DEF BindConversation
  <2>2. CASE SetConversationSession(flow[f].conv, flow[f].session)
    <3>1. CASE c # flow[f].conv
      BY <1>0, <1>1, <2>1, <2>2, <3>1, BindEffect DEF IsRow
    <3>2. CASE c = flow[f].conv
      <4>1. IsRow(c) /\ rows'[c].model = rows[c].model /\ s = flow[f].session
        BY <1>0, <2>1, <2>2, <3>2, BindEffect
      <4>2. rows[c].model = flow[f].model
        BY <3>2, <4>1, NoneIsNothing DEF RowsAgree
      <4> QED
        BY <2>1, <4>1, <4>2, OpenedStays, NoneIsNothing DEF SessionsAgree, OpenedFor
    <3> QED
      BY <3>1, <3>2
  <2> QED
    BY <1>2, <1>4, <2>2 DEF BindConversation
<1>5. ASSUME NEW r \in Requests, CreateApiConversation(r) PROVE Opened
  <2>1. CASE createConversation(req[r].conv, req[r].model, "api")
    <3>1. req[r].conv \in ConvIds /\ req[r].model \in Models
      BY <1>0, <1>5, RequestInHand DEF CreateApiConversation
    <3>2. c # req[r].conv
      BY <1>0, <2>1, <3>1, CreateEffect, NoneIsNothing
    <3>3. rows'[c] = rows[c]
      BY <1>0, <2>1, <3>1, <3>2, CreateEffect
    <3> QED
      BY <1>1, <3>3 DEF IsRow
  <2> QED
    BY <1>2, <1>5, <2>1 DEF CreateApiConversation
<1>6. ASSUME NEW r \in Requests, BindApiConversation(r) PROVE Opened
  <2>1. req[r].conv \in ConvIds /\ req[r].session \in Sessions /\ req[r].pc = "bind"
    BY <1>0, <1>6, RequestInHand DEF BindApiConversation
  <2>2. CASE SetConversationSession(req[r].conv, req[r].session)
    <3>1. CASE c # req[r].conv
      BY <1>0, <1>1, <2>1, <2>2, <3>1, BindEffect DEF IsRow
    <3>2. CASE c = req[r].conv
      <4>1. IsRow(c) /\ rows'[c].model = rows[c].model /\ s = req[r].session
        BY <1>0, <2>1, <2>2, <3>2, BindEffect
      <4>2. rows[c].model = req[r].model
        BY <2>1, <3>2, <4>1 DEF RowsAgree
      <4> QED
        BY <2>1, <4>1, <4>2, OpenedStays, NoneIsNothing DEF SessionsAgree, OpenedFor
    <3> QED
      BY <3>1, <3>2
  <2> QED
    BY <1>2, <1>6, <2>2 DEF BindApiConversation
<1>7. CASE Kept(c)
  BY <1>1, <1>7, NoneIsNothing DEF Kept
<1> QED
  BY <1>3, <1>4, <1>5, <1>6, <1>7, RowsKept
-----------------------------------------------------------------------------
LEMMA UsedGrows ==
  ASSUME [Next]_vars
  PROVE  used \subseteq used'
  BY DEF Next, vars, storeVars, LocalNext, StartChat, ClaimDraft, ReuseSession, OpenSession,
     CreateConversation, BindConversation, ResumeChat, LeaveChat, Send, RecoverSession, PromptReply,
     PromptSaveUser, PromptSaveAssistant, ListSnapshot, ListReconcile, DeleteStart, DeleteClose,
     DeleteClear, DeleteRows, CloseSession, CloseClear, GatewayNext, StartGateway, StopGateway,
     Arrive, FindExistingSession, GatewayOpenSession, ReuseCachedConversation,
     ReattachConversation, MintConversation, CreateApiConversation, BindApiConversation,
     PersistInboundMessages, PersistAssistantTurn, SessionExpires, AppRestart

(* The thread a screen gets is one it had, a row, or freshly created.      *)
LEMMA FlowConvSource ==
  ASSUME Typed, [Next]_vars, NEW f \in Flows
  PROVE  \/ flow'[f].conv = flow[f].conv /\ flow'[f].model = flow[f].model
         \/ flow'[f].conv = None
         \/ /\ UNCHANGED rows
            /\ flow'[f].conv \in ConvIds /\ IsRow(flow'[f].conv)
            /\ rows[flow'[f].conv].model = flow'[f].model
         \/ /\ CreateConversation(f)
            /\ flow'[f].conv \in UiIds \ used
            /\ flow'[f].conv \in used'
            /\ flow'[f].model = flow[f].model
            /\ createConversation(flow'[f].conv, flow[f].model, "ui")
<1> DEFINE Goal == \/ flow'[f].conv = flow[f].conv /\ flow'[f].model = flow[f].model
                   \/ flow'[f].conv = None
                   \/ /\ UNCHANGED rows
                      /\ flow'[f].conv \in ConvIds /\ IsRow(flow'[f].conv)
                      /\ rows[flow'[f].conv].model = flow'[f].model
                   \/ /\ CreateConversation(f)
                      /\ flow'[f].conv \in UiIds \ used
                      /\ flow'[f].conv \in used'
                      /\ flow'[f].model = flow[f].model
                      /\ createConversation(flow'[f].conv, flow[f].model, "ui")
<1>0. FlowType
  BY DEF Typed
<1>1. CASE FlowKept(f)
  BY <1>1 DEF FlowKept
<1>2. ASSUME NEW m \in Models, StartChat(f, m) PROVE Goal
  <2>1. CASE \E pc \in {"reuse", "gone"} :
                 flow' = [flow EXCEPT ![f] = [pc |-> pc, model |-> m, conv |-> None,
                                              session |-> None]]
    BY <1>0, <2>1 DEF FlowType
  <2>2. ASSUME NEW c \in EmptyDrafts(m),
               flow' = [flow EXCEPT ![f] = [pc |-> "claim", model |-> m, conv |-> c,
                                            session |-> rows[c].session]]
        PROVE  Goal
    <3>1. flow'[f].conv = c /\ flow'[f].model = m
      BY <1>0, <2>2 DEF FlowType
    <3> QED
      BY <1>2, <3>1 DEF StartChat, storeVars, EmptyDrafts
  <2> QED
    BY <1>2, <2>1, <2>2 DEF StartChat
<1>3. ASSUME NEW c \in ConvIds, ResumeChat(f, c) PROVE Goal
  <2>1. flow'[f].conv = c /\ flow'[f].model = rows[c].model
    BY <1>0, <1>3 DEF ResumeChat, FlowType
  <2> QED
    BY <1>3, <2>1 DEF ResumeChat, storeVars
<1>4. CASE ReuseSession(f) \/ OpenSession(f)
  BY <1>0, <1>1, <1>4, GotoKeeps, GivenSession
     DEF ReuseSession, OpenSession, Reusable, UsableFor, Usable
<1>5. CASE CreateConversation(f)
  <2>1. ASSUME NEW c \in UiIds \ used, flow' = [flow EXCEPT ![f].conv = c, ![f].pc = "bind"],
               createConversation(c, flow[f].model, "ui"), used' = used \cup {c}
        PROVE  Goal
    <3>1. flow'[f].conv = c /\ flow'[f].model = flow[f].model
      BY <1>0, <2>1 DEF FlowType, FlowRecord
    <3> QED
      BY <1>5, <2>1, <3>1
  <2> QED
    BY <1>0, <1>1, <1>5, <2>1, GotoKeeps DEF CreateConversation
<1> QED
  BY <1>1, <1>2, <1>3, <1>4, <1>5, FlowsKept DEF GivenData
(* Nobody creates the row of an id that was drawn before, but the request  *)
(* that minted it; and binding a row leaves its model.                     *)
LEMMA RowModelKept ==
  ASSUME Consistent, [Next]_vars, NEW c \in ConvIds, c \in used, IsRow(c)',
         \A r \in Requests : CreateApiConversation(r) => c # req[r].conv
  PROVE  IsRow(c) /\ rows'[c].model = rows[c].model
<1>0. FlowType /\ RequestType /\ StoreType
  BY DEF Consistent, Typed
<1>1. CASE rows'[c] = rows[c]
  BY <1>1 DEF IsRow
<1>2. ASSUME NEW f \in Flows, CreateConversation(f) PROVE rows'[c] = rows[c]
  <2>1. flow[f].model \in Models
    BY <1>0, <1>2, FlowInHand DEF CreateConversation
  <2> QED
    BY <1>0, <1>2, <2>1, CreateEffect DEF CreateConversation, ConvIds
<1>3. ASSUME NEW r \in Requests, CreateApiConversation(r) PROVE rows'[c] = rows[c]
  <2>1. req[r].model \in Models /\ req[r].conv \in ConvIds /\ c # req[r].conv
    BY <1>0, <1>3, RequestInHand DEF CreateApiConversation
  <2> QED
    BY <1>0, <1>3, <2>1, CreateEffect DEF CreateApiConversation
<1>4. ASSUME NEW f \in Flows, BindConversation(f)
      PROVE  IsRow(c) /\ rows'[c].model = rows[c].model
  <2>1. flow[f].conv \in ConvIds /\ flow[f].session \in Sessions
    BY <1>0, <1>4, FlowInHand DEF BindConversation
  <2> QED
    BY <1>0, <1>1, <1>4, <2>1, BindEffect DEF BindConversation
<1>5. ASSUME NEW r \in Requests, BindApiConversation(r)
      PROVE  IsRow(c) /\ rows'[c].model = rows[c].model
  <2>1. req[r].conv \in ConvIds /\ req[r].session \in Sessions
    BY <1>0, <1>5, RequestInHand DEF BindApiConversation
  <2> QED
    BY <1>0, <1>1, <1>5, <2>1, BindEffect DEF BindApiConversation
<1> QED
  BY <1>1, <1>2, <1>3, <1>4, <1>5, RowsKept DEF Consistent, Kept

(* A request comes to its bind by trying to create the row.                *)
LEMMA BindingComesFromCreating ==
  ASSUME Typed, [Next]_vars, NEW r \in Requests, req'[r].pc = "bind"
  PROVE  /\ RequestKept(r)
         /\ req[r].pc = "bind" \/ CreateApiConversation(r)
<1>0. RequestType
  BY DEF Typed
<1>1. ASSUME GivenRequest(r) PROVE FALSE
  <2>1. ASSUME NEW m, NEW chat, NEW role, Arrive(r, m, chat, role) PROVE FALSE
    BY <1>0, <2>1 DEF Arrive, RequestType
  <2>2. CASE FindExistingSession(r) \/ GatewayOpenSession(r)
    BY <1>0, <2>2 DEF FindExistingSession, GatewayOpenSession, RequestGoto, RequestType,
       RequestRecord
  <2>3. CASE ReuseCachedConversation(r) \/ ReattachConversation(r) \/ MintConversation(r)
    BY <1>0, <2>3 DEF ReuseCachedConversation, ReattachConversation, MintConversation,
       RequestType, RequestRecord
  <2> QED
    BY <1>1, <2>1, <2>2, <2>3 DEF GivenRequest
<1>2. RequestKept(r)
  BY <1>1, RequestsKept
<1>3. ASSUME ~CreateApiConversation(r), req[r].pc = "create" PROVE FALSE
  <2>1. CASE UNCHANGED req
    BY <1>3, <2>1
  <2>2. ASSUME NEW q \in Requests, q # r, req'[r] # req[r],
               \/ GivenRequest(q) \/ CreateApiConversation(q) \/ BindApiConversation(q)
               \/ PersistInboundMessages(q) \/ PersistAssistantTurn(q)
        PROVE  FALSE
    BY <1>0, <2>2 DEF GivenRequest, Arrive, FindExistingSession, GatewayOpenSession,
       ReuseCachedConversation, ReattachConversation, MintConversation, CreateApiConversation,
       BindApiConversation, PersistInboundMessages, PersistAssistantTurn, RequestGoto, RequestType
  <2>3. CASE GatewayNext
    BY <1>1, <1>3, <2>1, <2>2, <2>3
       DEF GatewayNext, GivenRequest, StartGateway, StopGateway, BindApiConversation,
           PersistInboundMessages, PersistAssistantTurn
  <2>4. CASE AppRestart
    BY <1>0, <1>3, <2>4 DEF AppRestart, RequestType, RequestRecord
  <2> QED
    BY <2>1, <2>3, <2>4 DEF Next, SessionExpires, vars, gatewayVars
<1> QED
  BY <1>2, <1>3 DEF RequestKept
LEMMA RowsAgreeStep ==
  ASSUME Consistent, [Next]_vars
  PROVE  RowsAgree'
<1> USE DEF Consistent
<1>0. FlowType /\ RequestType /\ StoreType /\ FlowType' /\ RequestType'
  BY TypedStep DEF Typed
<1>1. ASSUME NEW f \in Flows, NEW c \in ConvIds, flow'[f].conv = c, IsRow(c)'
      PROVE  rows'[c].model = flow'[f].model
  <2>2. CASE c = flow[f].conv /\ flow'[f].model = flow[f].model
    <3>1. c \in used /\ \A r \in Requests : CreateApiConversation(r) => c # req[r].conv
      BY <1>1, <2>2, NoneIsNothing DEF IdsDrawn, MintedOnce, CreateApiConversation
    <3>2. IsRow(c) /\ rows'[c].model = rows[c].model
      BY <1>1, <3>1, RowModelKept
    <3> QED
      BY <1>1, <2>2, <3>2, NoneIsNothing DEF RowsAgree
  <2>3. CASE UNCHANGED rows /\ rows[c].model = flow'[f].model
    BY <2>3
  <2>4. CASE createConversation(c, flow[f].model, "ui") /\ CreateConversation(f)
             /\ flow'[f].model = flow[f].model
    <3>1. flow[f].model \in Models
      BY <1>0, <2>4, FlowInHand DEF CreateConversation
    <3> QED
      BY <1>0, <2>4, <3>1, CreateEffect
  <2> QED
    BY <1>1, <2>2, <2>3, <2>4, FlowConvSource, NoneIsNothing
<1>2. ASSUME NEW r \in Requests, NEW c \in ConvIds, req'[r].pc = "bind", req'[r].conv = c,
             IsRow(c)'
      PROVE  rows'[c].model = req'[r].model
  <2>1. /\ req[r].conv = c /\ req'[r].model = req[r].model
        /\ req[r].pc \in {"create", "bind"}
        /\ req[r].pc = "bind" \/ CreateApiConversation(r)
    BY <1>2, BindingComesFromCreating DEF RequestKept
  <2>2. c \in used
    BY <2>1 DEF IdsDrawn
  <2>3. CASE req[r].pc = "bind"
    <3>1. \A q \in Requests : CreateApiConversation(q) => c # req[q].conv
      BY <2>1, <2>3 DEF MintedOnce, CreateApiConversation
    <3>2. IsRow(c) /\ rows'[c].model = rows[c].model
      BY <1>2, <2>2, <3>1, RowModelKept
    <3> QED
      BY <2>1, <2>3, <3>2 DEF RowsAgree
  <2>4. CASE CreateApiConversation(r)
    <3>1. req[r].model \in Models /\ req[r].pc = "create"
      BY <1>0, <2>4, RequestInHand DEF CreateApiConversation
    <3>2. CASE createConversation(c, req[r].model, "api")
      BY <1>0, <2>1, <3>1, <3>2, CreateEffect
    <3>3. CASE UNCHANGED rows
      BY <1>2, <2>1, <3>1, <3>3 DEF MintedOnce, IsRow
    <3> QED
      BY <2>1, <2>4, <3>2, <3>3 DEF CreateApiConversation
  <2> QED
    BY <2>1, <2>3, <2>4
<1>3. \A f \in Flows : flow'[f].conv # None => flow'[f].conv \in ConvIds
  BY <1>0 DEF FlowType, FlowRecord
<1>4. \A r \in Requests : req'[r].pc = "bind" => req'[r].conv \in ConvIds
  BY <1>0 DEF RequestType, RequestRecord
<1> QED
  BY <1>1, <1>2, <1>3, <1>4 DEF RowsAgree, IsRow
(* A row that appears in a step was created from a fresh id by a screen,   *)
(* or by the request that minted its id.                                   *)
LEMMA NewRow ==
  ASSUME Typed, [Next]_vars, NEW c \in ConvIds, ~IsRow(c), IsRow(c)'
  PROVE  \/ c \in UiIds \ used /\ c \in used'
         \/ \E r \in Requests : CreateApiConversation(r) /\ req[r].conv = c
<1>0. FlowType /\ RequestType /\ StoreType
  BY DEF Typed
<1>1. ~Kept(c)
  BY DEF Kept
<1>2. rows'[c] # rows[c]
  BY DEF IsRow
<1>3. ASSUME NEW f \in Flows, CreateConversation(f) PROVE c \in UiIds \ used /\ c \in used'
  <2>1. flow[f].model \in Models
    BY <1>0, <1>3, FlowInHand DEF CreateConversation
  <2>2. PICK d \in UiIds \ used :
           createConversation(d, flow[f].model, "ui") /\ used' = used \cup {d}
    BY <1>2, <1>3 DEF CreateConversation
  <2>3. d = c
    BY <1>0, <1>2, <2>1, <2>2, CreateEffect DEF ConvIds
  <2> QED
    BY <2>2, <2>3
<1>4. ASSUME NEW r \in Requests, CreateApiConversation(r) PROVE req[r].conv = c
  <2>1. req[r].model \in Models /\ req[r].conv \in ConvIds
    BY <1>0, <1>4, RequestInHand DEF CreateApiConversation
  <2> QED
    BY <1>0, <1>2, <1>4, <2>1, CreateEffect DEF CreateApiConversation
<1>5. ASSUME NEW f \in Flows, BindConversation(f) PROVE FALSE
  <2>1. flow[f].conv \in ConvIds /\ flow[f].session \in Sessions
    BY <1>0, <1>5, FlowInHand DEF BindConversation
  <2> QED
    BY <1>0, <1>2, <1>5, <2>1, BindEffect DEF BindConversation
<1>6. ASSUME NEW r \in Requests, BindApiConversation(r) PROVE FALSE
  <2>1. req[r].conv \in ConvIds /\ req[r].session \in Sessions
    BY <1>0, <1>6, RequestInHand DEF BindApiConversation
  <2> QED
    BY <1>0, <1>2, <1>6, <2>1, BindEffect DEF BindApiConversation
<1> QED
  BY <1>1, <1>3, <1>4, <1>5, <1>6, RowsKept

(* A step that mints an id is a step of the gateway.                       *)
LEMMA GatewayStepsLeaveFlows ==
  ASSUME Typed, [Next]_vars, NEW r \in Requests, MintConversation(r)
  PROVE  UNCHANGED flow
<1>0. RequestType
  BY DEF Typed
<1>1. req'[r].pc = "create" /\ req[r].pc = "record" /\ used' # used
  BY <1>0 DEF MintConversation, RequestType, RequestRecord
<1>2. UNCHANGED req => FALSE
  BY <1>1
<1>3. ~AppRestart
  BY <1>1 DEF AppRestart, storeVars
<1> QED
  BY <1>2, <1>3 DEF Next, SessionExpires, vars, localVars, gatewayVars

(* Where the first steps of a request lead; they leave the others alone.   *)
LEMMA RequestMoves ==
  ASSUME RequestType, NEW q \in Requests
  PROVE  /\ FindExistingSession(q) \/ GatewayOpenSession(q) =>
               req'[q].pc \in {"open", "record", "done"} /\ \A r \in Requests \ {q} : req'[r] = req[r]
         /\ ReuseCachedConversation(q) \/ ReattachConversation(q) =>
               req'[q].pc = "inbound" /\ \A r \in Requests \ {q} : req'[r] = req[r]
         /\ MintConversation(q) =>
               req'[q].pc = "create" /\ \A r \in Requests \ {q} : req'[r] = req[r]
<1>1. req \in [Requests -> RequestRecord] /\ "pc" \in DOMAIN req[q]
  BY DEF RequestType, RequestRecord
<1>2. ASSUME NEW s, NEW pc, req' = [req EXCEPT ![q].session = s, ![q].pc = pc]
      PROVE  req'[q].pc = pc /\ \A r \in Requests \ {q} : req'[r] = req[r]
  BY <1>1, <1>2
<1>3. ASSUME NEW c, NEW pc, req' = [req EXCEPT ![q].conv = c, ![q].pc = pc]
      PROVE  req'[q].pc = pc /\ \A r \in Requests \ {q} : req'[r] = req[r]
  BY <1>1, <1>3
<1>4. ASSUME NEW pc, RequestGoto(q, pc)
      PROVE  req'[q].pc = pc /\ \A r \in Requests \ {q} : req'[r] = req[r]
  BY <1>1, <1>4 DEF RequestGoto
<1>5. ASSUME FindExistingSession(q) \/ GatewayOpenSession(q)
      PROVE  req'[q].pc \in {"open", "record", "done"} /\ \A r \in Requests \ {q} : req'[r] = req[r]
  <2>1. CASE \E s : req' = [req EXCEPT ![q].session = s, ![q].pc = "record"]
    BY <1>2, <2>1
  <2>2. CASE \E pc \in {"open", "done"} : RequestGoto(q, pc)
    BY <1>4, <2>2
  <2> QED
    BY <1>5, <2>1, <2>2 DEF FindExistingSession, GatewayOpenSession
<1>6. ASSUME ReuseCachedConversation(q) \/ ReattachConversation(q)
      PROVE  req'[q].pc = "inbound" /\ \A r \in Requests \ {q} : req'[r] = req[r]
  <2>1. PICK c : req' = [req EXCEPT ![q].conv = c, ![q].pc = "inbound"]
    BY <1>6 DEF ReuseCachedConversation, ReattachConversation
  <2> QED
    BY <1>3, <2>1
<1>7. ASSUME MintConversation(q)
      PROVE  req'[q].pc = "create" /\ \A r \in Requests \ {q} : req'[r] = req[r]
  <2>1. PICK c : req' = [req EXCEPT ![q].conv = c, ![q].pc = "create"]
    BY <1>7 DEF MintConversation
  <2> QED
    BY <1>3, <2>1
<1> QED
  BY <1>5, <1>6, <1>7

(* A request comes to create a row by minting its id.                      *)
LEMMA CreatingComesFromMinting ==
  ASSUME Typed, [Next]_vars, NEW r \in Requests, req'[r].pc = "create"
  PROVE  \/ req[r].pc = "create" /\ req'[r].conv = req[r].conv
         \/ /\ MintConversation(r)
            /\ req'[r].conv \in ApiIds \ used
            /\ req'[r].conv \in used'
            /\ UNCHANGED <<rows, flow>>
            /\ \A q \in Requests \ {r} : req'[q] = req[q]
<1>0. RequestType
  BY DEF Typed
<1>1. CASE ~GivenRequest(r)
  BY <1>1, RequestsKept DEF RequestKept
<1>2. ASSUME NEW m, NEW chat, NEW role, Arrive(r, m, chat, role) PROVE FALSE
  BY <1>0, <1>2 DEF Arrive, RequestType
<1>3. CASE FindExistingSession(r) \/ GatewayOpenSession(r)
  BY <1>0, <1>3, RequestMoves
<1>4. CASE ReuseCachedConversation(r) \/ ReattachConversation(r)
  BY <1>0, <1>4, RequestMoves
<1>5. CASE MintConversation(r)
  <2>1. UNCHANGED rows
    BY <1>5 DEF MintConversation
  <2>2. UNCHANGED flow
    BY <1>5, GatewayStepsLeaveFlows
  <2>3. PICK c \in ApiIds \ used :
           used' = used \cup {c} /\ req' = [req EXCEPT ![r].conv = c, ![r].pc = "create"]
    BY <1>5 DEF MintConversation
  <2>4. req'[r].conv = c
    BY <1>0, <2>3 DEF RequestType, RequestRecord
  <2>5. \A q \in Requests \ {r} : req'[q] = req[q]
    BY <1>0, <2>3 DEF RequestType
  <2>6. c \in used'
    BY <2>3
  <2> QED
    BY <1>5, <2>1, <2>2, <2>4, <2>5, <2>6
<1> QED
  BY <1>1, <1>2, <1>3, <1>4, <1>5 DEF GivenRequest
-----------------------------------------------------------------------------
LEMMA IdsDrawnStep ==
  ASSUME Consistent, [Next]_vars
  PROVE  IdsDrawn'
<1> USE DEF Consistent
<1>0. FlowType /\ RequestType
  BY DEF Typed
<1>1. ASSUME NEW c \in ConvIds, IsRow(c)' PROVE c \in used'
  BY <1>1, NewRow, UsedGrows, RequestInHand, <1>0 DEF IdsDrawn, CreateApiConversation
<1>2. ASSUME NEW f \in Flows, flow'[f].conv # None PROVE flow'[f].conv \in used'
  <2>1. CASE flow'[f].conv = flow[f].conv
    BY <1>2, <2>1, UsedGrows DEF IdsDrawn
  <2>2. CASE flow'[f].conv \in ConvIds /\ IsRow(flow'[f].conv)
    BY <2>2, UsedGrows DEF IdsDrawn
  <2> QED
    BY <1>2, <2>1, <2>2, FlowConvSource
<1>3. ASSUME NEW r \in Requests, req'[r].pc \in {"create", "bind"} PROVE req'[r].conv \in used'
  <2>1. CASE req'[r].pc = "create"
    BY <2>1, CreatingComesFromMinting, UsedGrows DEF IdsDrawn
  <2>2. CASE req'[r].pc = "bind"
    BY <2>2, BindingComesFromCreating, UsedGrows DEF IdsDrawn, RequestKept, CreateApiConversation
  <2> QED
    BY <1>3, <2>1, <2>2
<1> QED
  BY <1>1, <1>2, <1>3 DEF IdsDrawn, IsRow

LEMMA MintedOnceStep ==
  ASSUME Consistent, [Next]_vars
  PROVE  MintedOnce'
<1> USE DEF Consistent
<1>0. FlowType /\ RequestType /\ RequestType'
  BY TypedStep DEF Typed
<1>1. ASSUME NEW r \in Requests, NEW c \in ConvIds, req'[r].pc = "create", req'[r].conv = c
      PROVE  ~IsRow(c)' /\ \A f \in Flows : flow'[f].conv # c
  <2>1. ~IsRow(c) /\ \A f \in Flows : flow[f].conv # c
    <3>1. CASE req[r].pc = "create" /\ req[r].conv = c
      BY <3>1 DEF MintedOnce
    <3>2. CASE c \notin used
      BY <3>2, NoneIsNothing DEF IdsDrawn
    <3> QED
      BY <1>1, <3>1, <3>2, CreatingComesFromMinting
  <2>2. c \notin UiIds \ used
    BY <1>1, CreatingComesFromMinting, StoreAssumption DEF IdsDrawn
  <2>3. ASSUME NEW q \in Requests, CreateApiConversation(q), req[q].conv = c PROVE FALSE
    <3>1. req'[q].pc = "bind" /\ req[q].pc = "create" /\ req'[q].conv = req[q].conv
      BY <1>0, <2>3 DEF CreateApiConversation, RequestGoto, RequestType, RequestRecord
    <3>2. c \in used
      BY <2>3, <3>1 DEF IdsDrawn
    <3>3. req[r].pc = "create" /\ req[r].conv = c
      BY <1>1, <3>2, CreatingComesFromMinting
    <3> QED
      BY <1>1, <2>3, <3>1, <3>3 DEF MintedOnce
  <2>4. ~IsRow(c)'
    BY <2>1, <2>2, <2>3, NewRow
  <2>5. ASSUME NEW f \in Flows, flow'[f].conv = c PROVE FALSE
    BY <2>1, <2>2, <2>5, FlowConvSource, NoneIsNothing
  <2> QED
    BY <2>4, <2>5
<1>2. ASSUME NEW q \in Requests, NEW r \in Requests, q # r,
             req'[q].pc \in {"create", "bind"}, req'[r].pc \in {"create", "bind"},
             req'[q].conv = req'[r].conv
      PROVE  FALSE
  <2> DEFINE Old(p) == req[p].pc \in {"create", "bind"} /\ req'[p].conv = req[p].conv
             Fresh(p) == MintConversation(p) /\ req'[p].conv \notin used
                         /\ \A t \in Requests \ {p} : req'[t] = req[t]
  <2>1. \A p \in {q, r} : Old(p) \/ Fresh(p)
    BY <1>2, CreatingComesFromMinting, BindingComesFromCreating
       DEF RequestKept, CreateApiConversation
  <2>2. CASE Old(q) /\ Old(r)
    BY <1>2, <2>2 DEF MintedOnce
  <2>3. ASSUME NEW p \in {q, r}, NEW t \in {q, r}, p # t, Fresh(p) PROVE FALSE
    <3>1. req[t].pc \in {"create", "bind"} /\ req'[t].conv = req[t].conv
      BY <1>2, <2>3
    <3>2. req[t].conv \in used
      BY <3>1 DEF IdsDrawn
    <3> QED
      BY <1>2, <2>3, <3>1, <3>2
  <2> QED
    BY <1>2, <2>1, <2>2, <2>3
<1>3. \A r \in Requests : req'[r].pc = "create" => req'[r].conv \in ConvIds
  BY <1>0 DEF RequestType, RequestRecord
<1> QED
  BY <1>1, <1>2, <1>3 DEF MintedOnce, IsRow

LEMMA InitConsistent == Init => Consistent
<1> SUFFICES ASSUME Init PROVE Consistent
  OBVIOUS
<1>1. Typed
  BY InitTyped
<1>2. IdsDrawn /\ MintedOnce /\ RowsAgree /\ SessionsAgree /\ BindingsAgreeWithChain
  BY DEF Init, StoreInit, LocalInit, GatewayInit, IdsDrawn, MintedOnce, RowsAgree, SessionsAgree,
     BindingsAgreeWithChain, BoundTo, IsRow
<1> QED
  BY <1>1, <1>2 DEF Consistent

LEMMA SpecConsistent == Spec => []Consistent
<1>1. Consistent /\ [Next]_vars => Consistent'
  BY TypedStep, IdsDrawnStep, MintedOnceStep, SessionsAgreeStep, RowsAgreeStep, BindingsStep
     DEF Consistent
<1> QED
  BY <1>1, InitConsistent, PTL DEF Spec

(* A conversation is bound only to a session that was opened for the model *)
(* of the conversation, whatever screens, requests, expiries, failures and *)
(* restarts do (chat_screen.dart, session.go, store.go).                   *)
THEOREM BindingsCorrect == Spec => []BindingsAgreeWithChain
<1>1. Consistent => BindingsAgreeWithChain
  BY DEF Consistent
<1> QED
  BY <1>1, SpecConsistent, PTL
-----------------------------------------------------------------------------
(* An entry of a chatIDMap is never overwritten: a request writes only     *)
(* where both of its keys found nothing.                                   *)
LEMMA MapEntryKept ==
  ASSUME Typed, [Next]_vars, NEW n \in Runs, NEW k \in Keys, chatIDMap[n][k] # None
  PROVE  chatIDMap'[n][k] = chatIDMap[n][k]
<1>0. RequestType /\ MapType
  BY DEF Typed
<1>1. CASE UNCHANGED chatIDMap
  BY <1>1
<1>2. ASSUME NEW r \in Requests, NEW c, req[r].pc = "record", CachedConv(r) = None, Remember(r, c)
      PROVE  chatIDMap'[n][k] = chatIDMap[n][k]
  <2>1. req[r].run \in Runs
    BY <1>0, <1>2 DEF RequestType, RequestRecord
  <2>2. \A key \in CacheKeys(r) : Cached(r, key) = None
    BY <1>2 DEF CachedConv, CacheKeys
  <2>3. chatIDMap' = [chatIDMap EXCEPT ![req[r].run] =
                        [key \in Keys |-> IF key \in CacheKeys(r) THEN c
                                          ELSE chatIDMap[req[r].run][key]]]
    BY <1>2 DEF Remember
  <2>4. CASE n # req[r].run
    BY <1>0, <2>1, <2>3, <2>4 DEF MapType
  <2>5. CASE n = req[r].run
    <3>1. k \notin CacheKeys(r)
      BY <2>2, <2>5 DEF Cached
    <3> QED
      BY <1>0, <2>1, <2>3, <2>5, <3>1 DEF MapType
  <2> QED
    BY <2>4, <2>5
<1>3. CASE GatewayNext
  BY <1>1, <1>2, <1>3
     DEF GatewayNext, StartGateway, StopGateway, Arrive, FindExistingSession, GatewayOpenSession,
         ReuseCachedConversation, ReattachConversation, MintConversation, RememberMinted,
         CreateApiConversation, BindApiConversation, PersistInboundMessages, PersistAssistantTurn
<1> QED
  BY <1>1, <1>3 DEF Next, SessionExpires, AppRestart, vars, localVars, gatewayVars

(* The key of a session is written with the conversation the request gets. *)
LEMMA Remembered ==
  ASSUME Typed, NEW r \in Requests, NEW c, req[r].pc = "record", Remember(r, c)
  PROVE  chatIDMap'[req[r].run][req[r].session] = c
<1>1. /\ req[r].run \in Runs /\ req[r].session \in Sessions /\ req[r].session # None
  BY StoreAssumption DEF Typed, RequestType, RequestRecord
<1>2. req[r].session \in CacheKeys(r) /\ req[r].session \in Keys
  BY <1>1 DEF CacheKeys, Keys
<1> QED
  BY <1>1, <1>2 DEF Remember, Typed, MapType

(* A request without an X-Chat-Id holds the conversation the map of its    *)
(* gateway has for its session.                                            *)
SharedRow ==
    \A r \in Requests :
        req[r].conv # None /\ req[r].chat = None =>
            /\ req[r].run \in Runs /\ req[r].session \in Sessions
            /\ chatIDMap[req[r].run][req[r].session] = req[r].conv

(* How a step may change the request it is not given to.                   *)
LEMMA RequestSame ==
  ASSUME Typed, [Next]_vars, NEW r \in Requests
  PROVE  \/ /\ req'[r].run = req[r].run /\ req'[r].session = req[r].session
            /\ req'[r].conv = req[r].conv /\ req'[r].chat = req[r].chat
         \/ req'[r].conv = None
         \/ /\ req[r].pc = "find" \/ req[r].pc = "open"
            /\ req'[r].conv = req[r].conv
         \/ /\ req[r].pc = "record"
            /\ req'[r].run = req[r].run /\ req'[r].session = req[r].session
            /\ req'[r].chat = req[r].chat
            /\ \/ ReuseCachedConversation(r) /\ req'[r].conv = CachedConv(r)
               \/ CachedConv(r) = None /\ Remember(r, req'[r].conv)
<1> DEFINE Same == /\ req'[r].run = req[r].run /\ req'[r].session = req[r].session
                   /\ req'[r].conv = req[r].conv /\ req'[r].chat = req[r].chat
           Given == /\ req[r].pc = "record"
                    /\ req'[r].run = req[r].run /\ req'[r].session = req[r].session
                    /\ req'[r].chat = req[r].chat
                    /\ \/ ReuseCachedConversation(r) /\ req'[r].conv = CachedConv(r)
                       \/ CachedConv(r) = None /\ Remember(r, req'[r].conv)
<1>0. RequestType
  BY DEF Typed
<1>1. CASE UNCHANGED req
  BY <1>1
<1>2. ASSUME NEW q \in Requests, q # r, \E x : req' = [req EXCEPT ![q] = x] PROVE Same
  BY <1>0, <1>2 DEF RequestType
<1>3. ASSUME NEW q \in Requests, NEW pc, RequestGoto(q, pc) PROVE Same
  BY <1>0, <1>3 DEF RequestGoto, RequestType, RequestRecord
<1>4. ASSUME NEW q \in Requests, NEW c, NEW pc,
             req' = [req EXCEPT ![q].conv = c, ![q].pc = pc]
      PROVE  /\ q # r => Same
             /\ q = r => /\ req'[r].run = req[r].run /\ req'[r].session = req[r].session
                         /\ req'[r].chat = req[r].chat /\ req'[r].conv = c
  BY <1>0, <1>4 DEF RequestType, RequestRecord
<1>5. ASSUME NEW q \in Requests, NEW m, NEW chat, NEW role, Arrive(q, m, chat, role)
      PROVE  Same \/ req'[r].conv = None
  BY <1>0, <1>5 DEF Arrive, RequestType
<1>6. ASSUME NEW q \in Requests, NEW s, req' = [req EXCEPT ![q].session = s, ![q].pc = "record"]
      PROVE  req'[r].conv = req[r].conv /\ (q # r => Same)
  BY <1>0, <1>6 DEF RequestType, RequestRecord
<1>7. ASSUME NEW q \in Requests, FindExistingSession(q) \/ GatewayOpenSession(q)
      PROVE  \/ Same
             \/ (req[r].pc = "find" \/ req[r].pc = "open") /\ req'[r].conv = req[r].conv
  BY <1>3, <1>6, <1>7 DEF FindExistingSession, GatewayOpenSession
<1>8. ASSUME NEW q \in Requests, ReuseCachedConversation(q) PROVE Same \/ Given
  BY <1>4, <1>8 DEF ReuseCachedConversation
<1>9. ASSUME NEW q \in Requests, ReattachConversation(q) \/ MintConversation(q) PROVE Same \/ Given
  <2>1. PICK c, pc : Remember(q, c) /\ req' = [req EXCEPT ![q].conv = c, ![q].pc = pc]
    BY <1>9 DEF ReattachConversation, MintConversation, RememberMinted
  <2>2. req[q].pc = "record" /\ CachedConv(q) = None
    BY <1>9 DEF ReattachConversation, MintConversation
  <2>3. CASE q = r
    <3>1. /\ req'[r].run = req[r].run /\ req'[r].session = req[r].session
          /\ req'[r].chat = req[r].chat /\ req'[r].conv = c
      BY <1>4, <2>1, <2>3
    <3>2. Remember(r, req'[r].conv)
      BY <2>1, <2>3, <3>1
    <3> QED
      BY <2>2, <2>3, <3>1, <3>2
  <2> QED
    BY <1>4, <2>1, <2>3
<1>10. ASSUME NEW q \in Requests, CreateApiConversation(q) \/ BindApiConversation(q)
                              \/ PersistInboundMessages(q) \/ PersistAssistantTurn(q)
       PROVE  Same
  BY <1>3, <1>10
     DEF CreateApiConversation, BindApiConversation, PersistInboundMessages, PersistAssistantTurn
<1>11. CASE GatewayNext
  BY <1>1, <1>5, <1>7, <1>8, <1>9, <1>10, <1>11 DEF GatewayNext, StartGateway, StopGateway
<1>12. CASE AppRestart
  BY <1>0, <1>12 DEF AppRestart, RequestType, RequestRecord
<1> QED
  BY <1>1, <1>11, <1>12 DEF Next, SessionExpires, vars, gatewayVars

(* A request that has no session yet has no conversation.                  *)
NoRowYet == \A r \in Requests : req[r].pc \in {"find", "open"} => req[r].conv = None

LEMMA NoRowYetStep ==
  ASSUME Typed, NoRowYet, [Next]_vars
  PROVE  NoRowYet'
<1> SUFFICES ASSUME NEW r \in Requests, req'[r].pc \in {"find", "open"} PROVE req'[r].conv = None
  BY DEF NoRowYet
<1>0. RequestType
  BY DEF Typed
<1> DEFINE Same == req'[r].pc \in {"find", "open"} => req[r].pc \in {"find", "open"}
                                                      /\ req'[r].conv = req[r].conv
<1>1. CASE Same
  BY <1>1 DEF NoRowYet
<1>2. CASE UNCHANGED req
  BY <1>1, <1>2
<1>3. ASSUME NEW q \in Requests, NEW m, NEW chat, NEW role, Arrive(q, m, chat, role)
      PROVE  Same \/ req'[r].conv = None
  BY <1>0, <1>3 DEF Arrive, RequestType
<1>4. ASSUME NEW q \in Requests, FindExistingSession(q) \/ GatewayOpenSession(q) PROVE Same
  <2>1. CASE \E s : req' = [req EXCEPT ![q].session = s, ![q].pc = "record"]
    BY <1>0, <2>1 DEF RequestType, RequestRecord
  <2>2. CASE req[q].pc \in {"find", "open"} /\ \E pc : RequestGoto(q, pc)
    BY <1>0, <2>2 DEF RequestGoto, RequestType, RequestRecord
  <2> QED
    BY <1>4, <2>1, <2>2 DEF FindExistingSession, GatewayOpenSession
<1>5. ASSUME NEW q \in Requests,
             ReuseCachedConversation(q) \/ ReattachConversation(q) \/ MintConversation(q)
      PROVE  Same
  <2>1. CASE q = r
    BY <1>0, <1>5, <2>1, RequestMoves
  <2>2. CASE q # r
    <3>1. req'[r] = req[r]
      BY <1>0, <1>5, <2>2, RequestMoves
    <3> QED
      BY <3>1
  <2> QED
    BY <2>1, <2>2
<1>6. ASSUME NEW q \in Requests, CreateApiConversation(q) \/ BindApiConversation(q)
                              \/ PersistInboundMessages(q) \/ PersistAssistantTurn(q)
      PROVE  Same
  BY <1>0, <1>6 DEF CreateApiConversation, BindApiConversation, PersistInboundMessages,
     PersistAssistantTurn, RequestGoto, RequestType, RequestRecord
<1>7. CASE GatewayNext
  BY <1>1, <1>2, <1>3, <1>4, <1>5, <1>6, <1>7 DEF GatewayNext, StartGateway, StopGateway
<1>8. CASE AppRestart
  BY <1>0, <1>1, <1>8 DEF AppRestart, RequestType, RequestRecord
<1> QED
  BY <1>2, <1>7, <1>8 DEF Next, SessionExpires, vars, gatewayVars

LEMMA SharedRowStep ==
  ASSUME Typed, NoRowYet, SharedRow, [Next]_vars
  PROVE  SharedRow'
<1> SUFFICES ASSUME NEW r \in Requests, req'[r].conv # None, req'[r].chat = None
             PROVE  /\ req'[r].run \in Runs /\ req'[r].session \in Sessions
                    /\ chatIDMap'[req'[r].run][req'[r].session] = req'[r].conv
  BY DEF SharedRow
<1>1. CASE /\ req'[r].run = req[r].run /\ req'[r].session = req[r].session
           /\ req'[r].conv = req[r].conv /\ req'[r].chat = req[r].chat
  <2>1. /\ req[r].run \in Runs /\ req[r].session \in Sessions
        /\ chatIDMap[req[r].run][req[r].session] = req[r].conv
    BY <1>1 DEF SharedRow
  <2> QED
    BY <1>1, <2>1, MapEntryKept DEF Keys
<1>2. CASE /\ req[r].pc = "record"
           /\ req'[r].run = req[r].run /\ req'[r].session = req[r].session
           /\ req'[r].chat = req[r].chat
  <2>1. req[r].run \in Runs /\ req[r].session \in Sessions
    BY <1>2 DEF Typed, RequestType, RequestRecord
  <2>2. CASE ReuseCachedConversation(r) /\ req'[r].conv = CachedConv(r)
    BY <1>2, <2>1, <2>2 DEF ReuseCachedConversation, CachedConv, Cached
  <2>3. CASE Remember(r, req'[r].conv)
    BY <1>2, <2>1, <2>3, Remembered
  <2> QED
    BY <1>2, <2>2, <2>3, <1>1, RequestSame
<1>3. CASE (req[r].pc = "find" \/ req[r].pc = "open") /\ req'[r].conv = req[r].conv
  BY <1>3 DEF NoRowYet
<1> QED
  BY <1>1, <1>2, <1>3, RequestSame

(* Requests of one gateway run that named no chat and got the same session *)
(* hold the same conversation, also before its row exists, whatever the    *)
(* screens, the faults and the restarts do (handlers.go:305-308).          *)
THEOREM OneConversationPerSession == Spec => []SessionRequestsShareRow
<1>1. Init => NoRowYet /\ SharedRow
  BY DEF Init, GatewayInit, NoRowYet, SharedRow
<1>2. NoRowYet /\ SharedRow /\ Typed /\ [Next]_vars => (NoRowYet /\ SharedRow)'
  BY NoRowYetStep, SharedRowStep
<1>3. SharedRow => SessionRequestsShareRow
  BY DEF SharedRow, SessionRequestsShareRow
<1> QED
  BY <1>1, <1>2, <1>3, SpecTyped, PTL DEF Spec
-----------------------------------------------------------------------------
(* The gateway without the chat screen, and never stopped on request.      *)
GatewayAlone == Flows = {} /\ Faults \cap {"stop", "dbread"} = {}

(* A row becomes bound only by the request that was given it.              *)
LEMMA BoundByRequest ==
  ASSUME GatewayAlone, Typed, [Next]_vars, NEW s \in Sessions, NEW c \in BoundTo(s)'
  PROVE  \/ c \in BoundTo(s)
         \/ \E r \in Requests : BindApiConversation(r) /\ req[r].conv = c /\ req[r].session = s
<1>0. RequestType /\ StoreType
  BY DEF Typed
<1>1. c \in ConvIds /\ IsRow(c)' /\ rows'[c].session = s /\ s # None
  BY NoneIsNothing DEF BoundTo
<1>2. ASSUME Kept(c) PROVE c \in BoundTo(s)
  BY <1>1, <1>2 DEF Kept, BoundTo
<1>3. ASSUME rows'[c] = rows[c] PROVE c \in BoundTo(s)
  BY <1>1, <1>3 DEF IsRow, BoundTo
<1>4. ASSUME NEW r \in Requests, CreateApiConversation(r) PROVE c \in BoundTo(s)
  <2>1. req[r].conv \in ConvIds /\ req[r].model \in Models
    BY <1>0, <1>4, RequestInHand DEF CreateApiConversation
  <2>2. CASE createConversation(req[r].conv, req[r].model, "api")
    <3>1. rows'[c] = rows[c] \/ rows'[c].session = None
      BY <1>0, <1>1, <2>1, <2>2, CreateEffect
    <3> QED
      BY <1>1, <1>3, <3>1
  <2> QED
    BY <1>3, <1>4, <2>2 DEF CreateApiConversation
<1>5. ASSUME NEW r \in Requests, BindApiConversation(r)
      PROVE  c \in BoundTo(s) \/ (req[r].conv = c /\ req[r].session = s)
  <2>1. req[r].conv \in ConvIds /\ req[r].session \in Sessions
    BY <1>0, <1>5, RequestInHand DEF BindApiConversation
  <2>2. CASE SetConversationSession(req[r].conv, req[r].session)
    <3>1. rows'[c] = rows[c] \/ (c = req[r].conv /\ rows'[c].session = req[r].session)
      BY <1>0, <1>1, <2>1, <2>2, BindEffect
    <3> QED
      BY <1>1, <1>3, <3>1
  <2> QED
    BY <1>3, <1>5, <2>2 DEF BindApiConversation
<1> QED
  BY <1>1, <1>2, <1>4, <1>5, RowsKept DEF GatewayAlone

(* A request in flight is one of the latest gateway.                       *)
InFlight == \A r \in Requests : req[r].pc \notin {"new", "done"} => serving /\ req[r].run = run

LEMMA RunKept ==
  ASSUME [Next]_vars, serving
  PROVE  run' = run
  BY DEF Next, GatewayNext, StartGateway, StopGateway, Arrive, FindExistingSession,
     GatewayOpenSession, ReuseCachedConversation, ReattachConversation, MintConversation,
     CreateApiConversation, BindApiConversation, PersistInboundMessages, PersistAssistantTurn,
     SessionExpires, AppRestart, vars, gatewayVars

LEMMA InFlightStep ==
  ASSUME GatewayAlone, Typed, InFlight, [Next]_vars
  PROVE  InFlight'
<1> SUFFICES ASSUME NEW r \in Requests, req'[r].pc \notin {"new", "done"}
             PROVE  serving' /\ req'[r].run = run'
  BY DEF InFlight
<1>0. RequestType
  BY DEF Typed
<1> DEFINE Same == req[r].pc \notin {"new", "done"} /\ req'[r].run = req[r].run
<1>1. CASE UNCHANGED <<run, serving>> /\ Same
  BY <1>1 DEF InFlight
<1>2. CASE StartGateway
  BY <1>2 DEF StartGateway, InFlight
<1>3. ASSUME NEW q \in Requests, NEW m, NEW chat, NEW role, Arrive(q, m, chat, role)
      PROVE  Same \/ (serving' /\ req'[r].run = run')
  <2>1. serving /\ UNCHANGED <<run, serving>>
    BY <1>3 DEF Arrive
  <2>2. CASE q = r
    BY <1>0, <1>3, <2>1, <2>2 DEF Arrive, RequestType
  <2>3. CASE q # r
    BY <1>0, <1>3, <2>3 DEF Arrive, RequestType
  <2> QED
    BY <2>2, <2>3
<1>4. ASSUME NEW q \in Requests, FindExistingSession(q) \/ GatewayOpenSession(q) PROVE Same
  <2>1. req[q].pc \notin {"new", "done"}
    BY <1>4 DEF FindExistingSession, GatewayOpenSession
  <2>2. CASE \E s : req' = [req EXCEPT ![q].session = s, ![q].pc = "record"]
    BY <1>0, <2>1, <2>2 DEF RequestType, RequestRecord
  <2>3. CASE \E pc : RequestGoto(q, pc)
    BY <1>0, <2>1, <2>3 DEF RequestGoto, RequestType, RequestRecord
  <2> QED
    BY <1>4, <2>2, <2>3 DEF FindExistingSession, GatewayOpenSession
<1>5. ASSUME NEW q \in Requests,
             ReuseCachedConversation(q) \/ ReattachConversation(q) \/ MintConversation(q)
      PROVE  Same
  <2>1. req[q].pc \notin {"new", "done"}
    BY <1>5 DEF ReuseCachedConversation, ReattachConversation, MintConversation
  <2>2. \E c, pc : req' = [req EXCEPT ![q].conv = c, ![q].pc = pc]
    BY <1>5 DEF ReuseCachedConversation, ReattachConversation, MintConversation
  <2> QED
    BY <1>0, <2>1, <2>2 DEF RequestType, RequestRecord
<1>6. ASSUME NEW q \in Requests, CreateApiConversation(q) \/ BindApiConversation(q)
                              \/ PersistInboundMessages(q) \/ PersistAssistantTurn(q)
      PROVE  Same
  <2>1. req[q].pc \notin {"new", "done"} /\ \E pc : RequestGoto(q, pc)
    BY <1>6 DEF CreateApiConversation, BindApiConversation, PersistInboundMessages,
       PersistAssistantTurn
  <2> QED
    BY <1>0, <2>1 DEF RequestGoto, RequestType, RequestRecord
<1>7. ~StopGateway
  BY DEF GatewayAlone, StopGateway
<1>8. CASE GatewayNext
  <2>1. CASE \E q \in Requests :
                \/ FindExistingSession(q) \/ GatewayOpenSession(q)
                \/ ReuseCachedConversation(q) \/ ReattachConversation(q) \/ MintConversation(q)
                \/ CreateApiConversation(q) \/ BindApiConversation(q)
                \/ PersistInboundMessages(q) \/ PersistAssistantTurn(q)
    <3>1. UNCHANGED <<run, serving>>
      BY <2>1
         DEF FindExistingSession, GatewayOpenSession, ReuseCachedConversation,
             ReattachConversation, MintConversation, CreateApiConversation, BindApiConversation,
             PersistInboundMessages, PersistAssistantTurn
    <3>2. Same
      BY <1>4, <1>5, <1>6, <2>1
    <3> QED
      BY <1>1, <3>1, <3>2
  <2>2. ASSUME NEW q \in Requests, NEW m, NEW chat, NEW role, Arrive(q, m, chat, role)
        PROVE  serving' /\ req'[r].run = run'
    <3>1. UNCHANGED <<run, serving>>
      BY <2>2 DEF Arrive
    <3> HIDE DEF Same
    <3> QED
      BY <1>1, <1>3, <2>2, <3>1
  <2> QED
    BY <1>2, <1>7, <1>8, <2>1, <2>2 DEF GatewayNext
<1>9. CASE AppRestart
  BY <1>0, <1>9 DEF AppRestart, RequestType, RequestRecord
<1>10. CASE UNCHANGED gatewayVars
  BY <1>1, <1>10 DEF gatewayVars
<1> QED
  BY <1>8, <1>9, <1>10 DEF Next, SessionExpires, vars

(* The chatIDMap of a gateway that was not started is empty.               *)
MapsToCome == \A n \in Runs, k \in Keys : n > run => chatIDMap[n][k] = None

(* Who writes an entry of a chatIDMap.                                     *)
LEMMA MapEntryNew ==
  ASSUME Typed, [Next]_vars, NEW n \in Runs, NEW k \in Keys, chatIDMap'[n][k] # chatIDMap[n][k]
  PROVE  \E r \in Requests :
            /\ req[r].pc = "record" /\ req[r].run = n /\ k \in CacheKeys(r)
            /\ \/ NoneFound(r)
               \/ chatIDMap'[n][k] \in BoundTo(req[r].session)
<1>0. RequestType /\ MapType
  BY DEF Typed
<1>1. ASSUME NEW r \in Requests, NEW c, req[r].pc = "record", Remember(r, c)
      PROVE  req[r].run = n /\ k \in CacheKeys(r) /\ chatIDMap'[n][k] = c
  <2>1. req[r].run \in Runs
    BY <1>0, <1>1 DEF RequestType, RequestRecord
  <2>2. chatIDMap' = [chatIDMap EXCEPT ![req[r].run] =
                        [key \in Keys |-> IF key \in CacheKeys(r) THEN c
                                          ELSE chatIDMap[req[r].run][key]]]
    BY <1>1 DEF Remember
  <2> QED
    BY <1>0, <2>1, <2>2 DEF MapType
<1>2. chatIDMap' # chatIDMap
  OBVIOUS
<1>3. PICK r \in Requests : ReattachConversation(r) \/ MintConversation(r)
  BY <1>2
     DEF Next, GatewayNext, StartGateway, StopGateway, Arrive, FindExistingSession,
         GatewayOpenSession, ReuseCachedConversation, CreateApiConversation, BindApiConversation,
         PersistInboundMessages, PersistAssistantTurn, SessionExpires, AppRestart, vars, gatewayVars
<1>4. CASE ReattachConversation(r)
  BY <1>1, <1>4 DEF ReattachConversation
<1>5. CASE MintConversation(r)
  BY <1>1, <1>5 DEF MintConversation, RememberMinted
<1> QED
  BY <1>3, <1>4, <1>5

LEMMA MapsToComeStep ==
  ASSUME GatewayAlone, Typed, InFlight, MapsToCome, [Next]_vars
  PROVE  MapsToCome'
<1> SUFFICES ASSUME NEW n \in Runs, NEW k \in Keys, n > run' PROVE chatIDMap'[n][k] = None
  BY DEF MapsToCome
<1>1. run \in Nat /\ run' \in Nat /\ run <= run'
  <2>1. run \in 0..MaxRuns /\ run' \in 0..MaxRuns
    BY TypedStep DEF Typed, RunType
  <2>2. run' = run \/ run' = run + 1
    BY <2>1
       DEF Next, GatewayNext, StartGateway, StopGateway, Arrive, FindExistingSession,
           GatewayOpenSession, ReuseCachedConversation, ReattachConversation, MintConversation,
           CreateApiConversation, BindApiConversation, PersistInboundMessages,
           PersistAssistantTurn, SessionExpires, AppRestart, vars, gatewayVars
  <2> QED
    BY <2>1, <2>2, GatewayAssumption
<1>2. n > run
  BY <1>1, GatewayAssumption DEF Runs
<1>3. chatIDMap[n][k] = None
  BY <1>2 DEF MapsToCome
<1>4. ASSUME chatIDMap'[n][k] # chatIDMap[n][k] PROVE FALSE
  <2>1. PICK r \in Requests : req[r].pc = "record" /\ req[r].run = n
    BY <1>4, MapEntryNew
  <2>2. n = run
    BY <2>1 DEF InFlight
  <2> QED
    BY <1>1, <1>2, <2>2
<1> QED
  BY <1>3, <1>4

(* A request that is to insert or bind its row has it in the map.          *)
Recorded ==
    \A r \in Requests : req[r].pc \in {"create", "bind"} =>
        chatIDMap[run][req[r].session] = req[r].conv

LEMMA RecordedStep ==
  ASSUME GatewayAlone, Typed, InFlight, Recorded, [Next]_vars
  PROVE  Recorded'
<1> SUFFICES ASSUME NEW r \in Requests, req'[r].pc \in {"create", "bind"}
             PROVE  chatIDMap'[run'][req'[r].session] = req'[r].conv
  BY DEF Recorded
<1>0. RequestType /\ RunType
  BY DEF Typed
<1>1. CASE RequestKept(r)
  <2>1. /\ req[r].pc \in {"create", "bind"}
        /\ req'[r].session = req[r].session /\ req'[r].conv = req[r].conv
    BY <1>1 DEF RequestKept
  <2>2. serving /\ run' = run /\ run \in Runs
    BY <1>0, <2>1, RunKept DEF InFlight, RunType
  <2>3. chatIDMap[run][req[r].session] = req[r].conv
    BY <2>1 DEF Recorded
  <2>4. req[r].conv # None /\ req[r].session \in Keys
    BY <1>0, <2>1, RequestInHand, NoneIsNothing DEF Keys
  <2> QED
    BY <2>1, <2>2, <2>3, <2>4, MapEntryKept
<1>2. CASE MintConversation(r)
  <2>1. PICK c : Remember(r, c) /\ req' = [req EXCEPT ![r].conv = c, ![r].pc = "create"]
    BY <1>2 DEF MintConversation, RememberMinted
  <2>2. req[r].pc = "record" /\ UNCHANGED run
    BY <1>2 DEF MintConversation
  <2>3. req'[r].conv = c /\ req'[r].session = req[r].session
    BY <1>0, <2>1 DEF RequestType, RequestRecord
  <2>4. req[r].run = run
    BY <2>2 DEF InFlight
  <2> QED
    BY <2>1, <2>2, <2>3, <2>4, Remembered
<1>3. ASSUME NEW m, NEW chat, NEW role, Arrive(r, m, chat, role) PROVE FALSE
  BY <1>0, <1>3 DEF Arrive, RequestType
<1>4. CASE FindExistingSession(r) \/ GatewayOpenSession(r)
  BY <1>0, <1>4, RequestMoves
<1>5. CASE ReuseCachedConversation(r) \/ ReattachConversation(r)
  BY <1>0, <1>5, RequestMoves
<1> QED
  BY <1>1, <1>2, <1>3, <1>4, <1>5, RequestsKept DEF GivenRequest

(* A session in the map has no bound row but the one in the map, and no    *)
(* session has two.                                                        *)
BoundInMap ==
    run \in Runs => \A s \in Sessions : chatIDMap[run][s] # None =>
                        BoundTo(s) \subseteq {chatIDMap[run][s]}

BoundOnce == \A s \in Sessions : \A c, d \in BoundTo(s) : c = d

LEMMA BoundInMapStep ==
  ASSUME GatewayAlone, Typed, InFlight, MapsToCome, Recorded, BoundInMap, BoundOnce, [Next]_vars
  PROVE  BoundInMap'
<1> SUFFICES ASSUME NEW s \in Sessions, run' \in Runs, chatIDMap'[run'][s] # None,
                    NEW c \in BoundTo(s)'
             PROVE  c = chatIDMap'[run'][s]
  BY DEF BoundInMap
<1>0. s \in Keys /\ RequestType
  BY DEF Keys, Typed
<1>1. CASE StartGateway
  <2>1. run' > run
    BY <1>1, GatewayAssumption DEF StartGateway, Typed, RunType
  <2> QED
    BY <1>0, <1>1, <2>1 DEF StartGateway, MapsToCome
<1>2. ASSUME ~StartGateway PROVE run' = run
  BY <1>2
     DEF Next, GatewayNext, StopGateway, Arrive, FindExistingSession, GatewayOpenSession,
         ReuseCachedConversation, ReattachConversation, MintConversation, CreateApiConversation,
         BindApiConversation, PersistInboundMessages, PersistAssistantTurn, SessionExpires,
         AppRestart, vars, gatewayVars
<1>3. ASSUME run' = run, c \in BoundTo(s) PROVE c = chatIDMap'[run'][s]
  <2>1. CASE chatIDMap'[run][s] = chatIDMap[run][s]
    BY <1>3, <2>1 DEF BoundInMap
  <2>2. CASE chatIDMap'[run][s] # chatIDMap[run][s]
    <3>1. PICK r \in Requests : /\ req[r].pc = "record" /\ s \in CacheKeys(r)
                                /\ \/ NoneFound(r)
                                   \/ chatIDMap'[run][s] \in BoundTo(req[r].session)
      BY <1>0, <1>3, <2>2, MapEntryNew
    <3>2. s = req[r].session
      BY <1>0, <3>1, GatewayAssumption DEF CacheKeys, RequestType, RequestRecord
    <3> QED
      BY <1>3, <3>1, <3>2 DEF NoneFound, SelectFails, GatewayAlone, BoundOnce
  <2> QED
    BY <2>1, <2>2
<1>4. ASSUME run' = run, NEW r \in Requests, BindApiConversation(r), req[r].conv = c,
             req[r].session = s
      PROVE  c = chatIDMap'[run'][s]
  <2>1. req[r].pc = "bind" /\ UNCHANGED chatIDMap
    BY <1>4 DEF BindApiConversation
  <2> QED
    BY <1>4, <2>1 DEF Recorded
<1> QED
  BY <1>1, <1>2, <1>3, <1>4, BoundByRequest

LEMMA BoundOnceStep ==
  ASSUME GatewayAlone, Typed, InFlight, Recorded, BoundInMap, BoundOnce, [Next]_vars
  PROVE  BoundOnce'
<1> SUFFICES ASSUME NEW s \in Sessions, NEW c \in BoundTo(s)', NEW d \in BoundTo(s)' PROVE c = d
  BY DEF BoundOnce
<1>1. CASE c \in BoundTo(s) /\ d \in BoundTo(s)
  BY <1>1 DEF BoundOnce
<1>2. ASSUME NEW r \in Requests, BindApiConversation(r), req[r].session = s, NEW x \in BoundTo(s)
      PROVE  x = req[r].conv
  <2>1. req[r].pc = "bind" /\ RequestType /\ RunType
    BY <1>2 DEF BindApiConversation, Typed
  <2>2. run \in Runs /\ chatIDMap[run][s] = req[r].conv
    BY <1>2, <2>1 DEF Recorded, InFlight, RunType
  <2>3. req[r].conv # None
    BY <2>1, RequestInHand, NoneIsNothing
  <2> QED
    BY <2>2, <2>3 DEF BoundInMap
<1>3. ASSUME NEW q \in Requests, BindApiConversation(q), req[q].session = s,
             NEW r \in Requests, BindApiConversation(r), req[r].session = s
      PROVE  req[q].conv = req[r].conv
  BY <1>3 DEF BindApiConversation, Recorded
<1>4. \A x \in {c, d} : \/ x \in BoundTo(s)
                        \/ \E r \in Requests : /\ BindApiConversation(r) /\ req[r].conv = x
                                               /\ req[r].session = s
  BY BoundByRequest
<1> QED
  BY <1>1, <1>2, <1>3, <1>4

(* Without the chat screen, while no gateway is stopped on request and the *)
(* store answers its lookups, no session has two gateway rows bound to it, *)
(* however requests interleave, writes fail and the app restarts           *)
(* (handlers.go:305-331).                                                  *)
THEOREM OneRowPerSession == GatewayAlone => (Spec => []OneBoundApiRow)
<1> SUFFICES ASSUME GatewayAlone PROVE Spec => []OneBoundApiRow
  OBVIOUS
<1> DEFINE Alone == InFlight /\ MapsToCome /\ Recorded /\ BoundInMap /\ BoundOnce
<1>1. Init => Alone
  <2> SUFFICES ASSUME Init PROVE Alone
    OBVIOUS
  <2>1. InFlight /\ Recorded /\ MapsToCome
    BY DEF Init, GatewayInit, InFlight, Recorded, MapsToCome
  <2>2. \A s \in Sessions : BoundTo(s) = {}
    BY DEF Init, StoreInit, BoundTo, IsRow
  <2> QED
    BY <2>1, <2>2 DEF BoundInMap, BoundOnce
<1>2. Alone /\ Typed /\ [Next]_vars => Alone'
  BY InFlightStep, MapsToComeStep, RecordedStep, BoundInMapStep, BoundOnceStep
<1>3. Alone => OneBoundApiRow
  BY DEF BoundOnce, OneBoundApiRow
<1> HIDE DEF Alone
<1> QED
  BY <1>1, <1>2, <1>3, SpecTyped, PTL DEF Spec
-----------------------------------------------------------------------------
(* The chat screen without the gateway, and a store that can be read.      *)
ScreensAlone == Requests = {} /\ "dbread" \notin Faults

(* What DeleteConversation learned of a session is still true when it has  *)
(* closed it.                                                              *)
LastThread == mu.op = "deleteClose" => BoundTo(mu.session) \subseteq {mu.conv}

LEMMA DeletingLeavesRows ==
  ASSUME ScreensAlone, Typed, [Next]_vars, mu.op = "deleteClose", mu'.op = "deleteClose"
  PROVE  UNCHANGED <<rows, mu>>
<1>1. CASE LocalNext
  <2>1. ~DeleteClose
    BY DEF DeleteClose, Typed, MuType
  <2> QED
    BY <1>1, <2>1
       DEF LocalNext, StartChat, ClaimDraft, ReuseSession, OpenSession, CreateConversation,
           BindConversation, ResumeChat, LeaveChat, Send, RecoverSession, PromptReply,
           PromptSaveUser, PromptSaveAssistant, ListSnapshot, ListReconcile, DeleteStart,
           DeleteClear, DeleteRows, CloseSession, CloseClear, MuFree, storeVars
<1>2. CASE GatewayNext /\ UNCHANGED localVars
  BY <1>2 DEF ScreensAlone, GatewayNext, StartGateway, StopGateway, storeVars, localVars
<1>3. CASE AppRestart
  BY <1>3 DEF AppRestart, Idle
<1> QED
  BY <1>1, <1>2, <1>3 DEF Next, SessionExpires, vars, storeVars, localVars

LEMMA LastThreadStep ==
  ASSUME ScreensAlone, Typed, LastThread, [Next]_vars
  PROVE  LastThread'
<1> SUFFICES ASSUME mu'.op = "deleteClose" PROVE (BoundTo(mu.session) \subseteq {mu.conv})'
  BY DEF LastThread, BoundTo, IsRow
<1>1. CASE mu.op = "deleteClose"
  <2>1. UNCHANGED <<rows, mu>>
    BY <1>1, DeletingLeavesRows
  <2>2. BoundTo(mu.session) \subseteq {mu.conv}
    BY <1>1 DEF LastThread
  <2> QED
    BY <2>1, <2>2 DEF BoundTo, IsRow
<1>2. ASSUME NEW c \in ConvIds, DeleteStart(c) PROVE (BoundTo(mu.session) \subseteq {mu.conv})'
  <2>1. mu'.conv = c /\ mu'.session = rows[c].session /\ UNCHANGED rows
    BY <1>2 DEF DeleteStart, Idle, storeVars
  <2>2. LastThreadOn(rows[c].session, c)
    BY <1>2 DEF DeleteStart, Idle, SelectFails, ScreensAlone
  <2> QED
    BY <2>1, <2>2 DEF LastThreadOn, BoundTo, IsRow
<1>3. ASSUME mu.op # "deleteClose", \A c \in ConvIds : ~DeleteStart(c) PROVE FALSE
  <2>1. CASE UNCHANGED mu
    BY <1>3, <2>1
  <2>2. ASSUME mu' = Idle PROVE FALSE
    BY <2>2 DEF Idle
  <2>3. ASSUME NEW x, mu' = [Idle EXCEPT !.op = "claim", !.conv = x] PROVE FALSE
    BY <2>3 DEF Idle
  <2>4. ASSUME ListSnapshot \/ DeleteClose \/ DeleteClear PROVE FALSE
    BY <2>4 DEF ListSnapshot, DeleteClose, DeleteClear, Idle, Typed, MuType
  <2>5. ASSUME NEW s \in Sessions, CloseSession(s) PROVE FALSE
    BY <2>5 DEF CloseSession, Idle
  <2>6. CASE LocalNext
    BY <1>3, <2>1, <2>2, <2>3, <2>4, <2>5, <2>6
       DEF LocalNext, StartChat, ClaimDraft, ReuseSession, OpenSession, CreateConversation,
           BindConversation, ResumeChat, LeaveChat, Send, RecoverSession, PromptReply,
           PromptSaveUser, PromptSaveAssistant, ListReconcile, DeleteRows, CloseClear
  <2> QED
    BY <2>1, <2>2, <2>6 DEF Next, SessionExpires, AppRestart, vars, localVars
<1> QED
  BY <1>1, <1>2, <1>3

(* With no gateway at work and as long as the threads can be counted,      *)
(* deleting a thread closes its session only if no other thread is bound   *)
(* to it: the bridge's mutex keeps the count true until the close          *)
(* (store.go:805-806, api.go:1172-1176).                                   *)
THEOREM LastThreadCloses == ScreensAlone => (Spec => SharedSessionKept)
<1> SUFFICES ASSUME ScreensAlone PROVE Spec => SharedSessionKept
  OBVIOUS
<1>1. Init => LastThread
  BY DEF Init, LocalInit, Idle, LastThread
<1>2. LastThread /\ Typed /\ [Next]_vars => LastThread'
  BY LastThreadStep
<1>3. LastThread => [\A s \in Sessions :
                        mu.op = "deleteClose" /\ mu'.op = "deleteClear" /\ mu.session = s
                            => BoundTo(s) \subseteq {mu.conv}]_vars
  BY DEF LastThread
<1> QED
  BY <1>1, <1>2, <1>3, SpecTyped, PTL DEF Spec, SharedSessionKept
===============================================================================
