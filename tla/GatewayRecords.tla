---------------------------- MODULE GatewayRecords ----------------------------
(***************************************************************************)
(* How the OpenAI-compatible gateway (internal/gateway) serves a request:  *)
(* find or open a session, give the request a conversation row, store the  *)
(* inbound message, forward, store the answer.  Requests run in their own  *)
(* goroutines and take no lock but convMu, which covers exactly the choice *)
(* of the conversation id.  The chat, completions and embeddings endpoints *)
(* follow the same steps.                                                  *)
(*                                                                         *)
(* Every StartGateway makes a new Gateway with an empty chatIDMap; one     *)
(* that was stopped lives on in the requests Shutdown did not wait for.    *)
(***************************************************************************)
EXTENDS ConversationStore, Naturals

CONSTANTS Requests,  \* API requests received during a run of the app
          Chats,     \* values of the X-Chat-Id header
          Inbound,   \* roles of the last message of a request
          MaxRuns    \* bound on the number of StartGateway calls

Runs == 1..MaxRuns

ASSUME GatewayAssumption ==
    /\ Requests \subseteq Authors
    /\ MaxRuns \in Nat
    /\ None \notin Chats
    /\ Chats \cap Sessions = {}
    /\ Inbound \subseteq {"user", "tool", "none"}

VARIABLES run,        \* the latest StartGateway, 0 before the first
          serving,    \* whether its server accepts requests
          chatIDMap,  \* run -> key -> conversation id; a key is a chat or a session
          req

gatewayVars == <<run, serving, chatIDMap, req>>

Keys == Chats \cup Sessions

GatewayType ==
    /\ run \in 0..MaxRuns
    /\ serving \in BOOLEAN
    /\ chatIDMap \in [Runs -> [Keys -> ApiIds \cup UiIds \cup {None}]]
    /\ req \in [Requests -> [pc : {"new", "find", "open", "record", "create", "bind",
                                   "inbound", "stream", "done"},
                             model : Models \cup {None}, chat : Chats \cup {None},
                             role : Inbound \cup {"none"}, run : 0..MaxRuns,
                             session : Sessions \cup {None}, conv : ConvIds \cup {None}]]

GatewayInit ==
    /\ run = 0
    /\ serving = FALSE
    /\ chatIDMap = [n \in Runs |-> [k \in Keys |-> None]]
    /\ req = [r \in Requests |-> [pc |-> "new", model |-> None, chat |-> None, role |-> "none",
                                  run |-> 0, session |-> None, conv |-> None]]

RequestGoto(r, pc) == req' = [req EXCEPT ![r].pc = pc]
-----------------------------------------------------------------------------
StartGateway ==
    /\ ~serving
    /\ run < MaxRuns
    /\ run' = run + 1
    /\ serving' = TRUE
    /\ UNCHANGED <<chatIDMap, req, storeVars, chain>>

(* Shutdown waits up to five seconds for the requests in flight; after     *)
(* that the server is dropped and the requests go on.                      *)
StopGateway ==
    /\ serving
    /\ "stop" \in Faults
    /\ serving' = FALSE
    /\ UNCHANGED <<run, chatIDMap, req, storeVars, chain>>

Arrive(r, m, chat, role) ==
    /\ serving
    /\ req[r].pc = "new"
    /\ req' = [req EXCEPT ![r] = [pc |-> "find", model |-> m, chat |-> chat, role |-> role,
                                  run |-> run, session |-> None, conv |-> None]]
    /\ UNCHANGED <<run, serving, chatIDMap, storeVars, chain>>

\* Mutated form: the first unexpired session is taken whatever its model.
UsableForRequest(r) == Usable

(* The sessions findExistingSession would return.                          *)
ExistingSessions(r) == UsableFor(req[r].model)

(* A failed listing counts as "no session": the request opens a new one.   *)
FindExistingSession(r) ==
    /\ req[r].pc = "find"
    /\ \/ \E s \in ExistingSessions(r) :
            req' = [req EXCEPT ![r].session = s, ![r].pc = "record"]
       \/ ExistingSessions(r) = {} /\ RequestGoto(r, "open")
       \/ "readfail" \in Faults /\ RequestGoto(r, "open")
    /\ UNCHANGED <<run, serving, chatIDMap, storeVars, chain>>

GatewayOpenSession(r) ==
    /\ req[r].pc = "open"
    /\ \/ \E s \in Sessions :
            /\ ChainOpen(req[r].model, s)
            /\ req' = [req EXCEPT ![r].session = s, ![r].pc = "record"]
       \/ RequestGoto(r, "done") /\ UNCHANGED chain
    /\ UNCHANGED <<run, serving, chatIDMap, storeVars>>
-----------------------------------------------------------------------------
CacheKeys(r) == ({req[r].chat} \cup {req[r].session}) \ {None}

Cached(r, k) == chatIDMap[req[r].run][k]

(* The chat key is looked up before the session key.                       *)
CachedConv(r) ==
    IF req[r].chat # None /\ Cached(r, req[r].chat) # None
    THEN Cached(r, req[r].chat)
    ELSE Cached(r, req[r].session)

Remember(r, c) ==
    chatIDMap' = [chatIDMap EXCEPT ![req[r].run] =
                    [k \in Keys |-> IF k \in CacheKeys(r) THEN c ELSE @[k]]]

(* getOrCreateConversation finds the row in chatIDMap: the other keys of   *)
(* the request are not added.  TouchConversation bumps updated_at only.    *)
ReuseCachedConversation(r) ==
    /\ req[r].pc = "record"
    /\ CachedConv(r) # None
    /\ req' = [req EXCEPT ![r].conv = CachedConv(r), ![r].pc = "inbound"]
    /\ UNCHANGED <<run, serving, chatIDMap, storeVars, chain>>

(* ... or FindLatestConversationBySessionID finds it in the store ...      *)
ReattachConversation(r) ==
    /\ req[r].pc = "record"
    /\ CachedConv(r) = None
    /\ \E c \in BoundTo(req[r].session) :
          /\ Remember(r, c)
          /\ req' = [req EXCEPT ![r].conv = c, ![r].pc = "inbound"]
    /\ UNCHANGED <<run, serving, storeVars, chain>>

\* Mutated form: the id is minted without looking into the store.
NeverLooked(r) == TRUE

(* A failed lookup counts as "no row", also when there is one.             *)
NoneFound(r) == BoundTo(req[r].session) = {} \/ SelectFails

\* Mutated form: only the chat key is cached on a mint.
RememberChatOnly(r, c) ==
    chatIDMap' = [chatIDMap EXCEPT ![req[r].run] =
                    [k \in Keys |-> IF k = req[r].chat THEN c ELSE @[k]]]

RememberMinted(r, c) == Remember(r, c)

(* ... or a fresh id is minted, and cached before its row exists.          *)
MintConversation(r) ==
    /\ req[r].pc = "record"
    /\ CachedConv(r) = None
    /\ NoneFound(r)
    /\ \E c \in ApiIds \ used :
          /\ used' = used \cup {c}
          /\ RememberMinted(r, c)
          /\ req' = [req EXCEPT ![r].conv = c, ![r].pc = "create"]
    /\ UNCHANGED <<run, serving, rows, msgs, chain>>

(* recordGatewaySession logs and drops the errors of these two writes.     *)
CreateApiConversation(r) ==
    /\ req[r].pc = "create"
    /\ \/ createConversation(req[r].conv, req[r].model, "api")
       \/ Busy /\ UNCHANGED rows
    /\ RequestGoto(r, "bind")
    /\ UNCHANGED <<run, serving, chatIDMap, msgs, used, chain>>

BindApiConversation(r) ==
    /\ req[r].pc = "bind"
    /\ \/ SetConversationSession(req[r].conv, req[r].session)
       \/ (Busy \/ ~IsRow(req[r].conv)) /\ UNCHANGED rows
    /\ RequestGoto(r, "inbound")
    /\ UNCHANGED <<run, serving, chatIDMap, msgs, used, chain>>

PersistInboundMessages(r) ==
    /\ req[r].pc = "inbound"
    /\ IF req[r].role = "none" THEN UNCHANGED msgs
       ELSE SaveMessage(req[r].conv, req[r].role, r)
    /\ RequestGoto(r, "stream")
    /\ UNCHANGED <<run, serving, chatIDMap, rows, used, chain>>

(* The provider answered, or it failed and there is nothing to store.      *)
PersistAssistantTurn(r) ==
    /\ req[r].pc = "stream"
    /\ SaveMessage(req[r].conv, "assistant", r) \/ UNCHANGED msgs
    /\ RequestGoto(r, "done")
    /\ UNCHANGED <<run, serving, chatIDMap, rows, used, chain>>
-----------------------------------------------------------------------------
GatewayNext ==
    \/ StartGateway \/ StopGateway
    \/ \E r \in Requests :
          \/ \E m \in Models, chat \in Chats \cup {None}, role \in Inbound :
                Arrive(r, m, chat, role)
          \/ FindExistingSession(r) \/ GatewayOpenSession(r)
          \/ ReuseCachedConversation(r) \/ ReattachConversation(r) \/ MintConversation(r)
          \/ CreateApiConversation(r) \/ BindApiConversation(r)
          \/ PersistInboundMessages(r) \/ PersistAssistantTurn(r)
=============================================================================
