-------------------------- MODULE ConversationStore --------------------------
(***************************************************************************)
(* The conversations and messages tables of internal/store/store.go, one   *)
(* operator per method of Store that the chat and gateway flows call.  A   *)
(* method is one SQLite statement or one transaction, so one step.         *)
(*                                                                         *)
(* updated_at has a resolution of one second, and rows touched within the  *)
(* same second come back in any order: "the latest" of several candidate   *)
(* rows is therefore any of them.                                          *)
(*                                                                         *)
(* store.New sets no busy_timeout, so a write that overlaps another        *)
(* connection's write fails at once with SQLITE_BUSY: fault "busy".  A     *)
(* SELECT fails when the file cannot be read or the database was closed    *)
(* under a gateway: fault "dbread".  What a caller then does is modelled;  *)
(* some go on as if there were nothing to find.                            *)
(***************************************************************************)
EXTENDS SessionChain

CONSTANTS UiIds,     \* ids drawn by the chat screen ("c-<us>-<rand>")
          ApiIds,    \* ids drawn by the gateway ("api-<ns>")
          Authors,   \* prompts and API requests, as writers of messages
          Faults     \* the faults the environment exercises

ConvIds == UiIds \cup ApiIds

Row == [model : Models, source : {"ui", "api"}, session : Sessions \cup {None}]

Message == [conv : ConvIds, role : {"user", "tool", "assistant"}, by : Authors]

ASSUME StoreAssumption ==
    /\ UiIds \cap ApiIds = {}
    /\ None \notin ConvIds \cup Sessions \cup Models \cup Row
    /\ Faults \subseteq {"busy", "dbread", "readfail", "stop", "crash"}

VARIABLES rows,  \* id -> conversation row, None when there is no such row
          msgs,  \* the messages table
          used   \* ids already drawn from the clock: none is drawn twice

storeVars == <<rows, msgs, used>>

StoreType ==
    /\ rows \in [ConvIds -> Row \cup {None}]
    /\ msgs \subseteq Message
    /\ used \subseteq ConvIds

StoreInit ==
    /\ rows = [c \in ConvIds |-> None]
    /\ msgs = {}
    /\ used = {}

Busy == "busy" \in Faults

SelectFails == "dbread" \in Faults
-----------------------------------------------------------------------------
IsRow(c) == rows[c] # None

BoundTo(s) == {c \in ConvIds : IsRow(c) /\ rows[c].session = s}

BoundRows == {c \in ConvIds : IsRow(c) /\ rows[c].session # None}

\* Mutated form: the row keeps the column's empty source.
createUnlabelled(c, m, src) ==
    /\ ~IsRow(c)
    /\ rows' = [rows EXCEPT ![c] = [model |-> m, source |-> "", session |-> None]]

createConversation(c, m, src) ==
    /\ ~IsRow(c)
    /\ rows' = [rows EXCEPT ![c] = [model |-> m, source |-> src, session |-> None]]

(* Reports an error, and changes nothing, when there is no such row.       *)
SetConversationSession(c, s) ==
    /\ IsRow(c)
    /\ rows' = [rows EXCEPT ![c].session = s]

(* The loops below select the rows first, then update row by row and stop  *)
(* at the first failed UPDATE.                                             *)
Unbind(stale) ==
    \E done \in SUBSET stale :
        /\ done = stale \/ Busy \/ (SelectFails /\ done = {})
        /\ rows' = [c \in ConvIds |->
                        IF c \in done THEN [rows[c] EXCEPT !.session = None] ELSE rows[c]]

ClearConversationSessionBySessionID(s) == Unbind(BoundTo(s))

ReconcileConversationSessions(openKeys) ==
    Unbind({c \in BoundRows : rows[c].session \notin openKeys})

\* Mutated form: two threads on the session still count as one.
LastOrSecondLast(s, c) == \A d, e \in BoundTo(s) : c \in {d, e} \/ d = e

(* CountConversationsWithSessionID(s) <= 1, asked about a row bound to s,  *)
(* when the SELECT succeeds.                                               *)
LastThreadOn(s, c) == BoundTo(s) \subseteq {c}

HasMessages(c) == \E x \in msgs : x.conv = c

\* Mutated form: without the source filter.
DraftsAnySource(m) ==
    {c \in ConvIds : IsRow(c) /\ rows[c].model = m /\ ~HasMessages(c)}

(* What LatestEmptyConversationForModel and the dedupe select from.        *)
EmptyDrafts(m) ==
    {c \in ConvIds : /\ IsRow(c)
                     /\ rows[c].model = m
                     /\ rows[c].source = "ui"
                     /\ ~HasMessages(c)}

RemoveThreads(dead) ==
    /\ rows' = [c \in ConvIds |-> IF c \in dead THEN None ELSE rows[c]]
    /\ msgs' = {x \in msgs : x.conv \notin dead}

\* Mutated forms: without keepID; without NOT EXISTS on messages.
DeleteEmptyConversationsForModel(m, keep) == RemoveThreads(EmptyDrafts(m))
DeleteOtherConversationsForModel(m, keep) ==
    RemoveThreads({c \in ConvIds \ {keep} :
                      IsRow(c) /\ rows[c].model = m /\ rows[c].source = "ui"})

DeleteOtherEmptyConversationsForModel(m, keep) == RemoveThreads(EmptyDrafts(m) \ {keep})

DeleteThread(c) == IsRow(c) /\ RemoveThreads({c})

\* Mutated form: the insert is committed when the title cannot be read.
SaveMessageAnyway(c, role, author) ==
    msgs' = msgs \cup {[conv |-> c, role |-> role, by |-> author]}

(* The insert needs no row (foreign keys are not enforced), but a "user"   *)
(* message also reads the row's title: without a row the transaction       *)
(* fails and is rolled back.  Every caller drops the error.                *)
SaveMessage(c, role, author) ==
    \/ msgs' = IF role = "user" /\ ~IsRow(c)
               THEN msgs
               ELSE msgs \cup {[conv |-> c, role |-> role, by |-> author]}
    \/ (Busy \/ SelectFails) /\ UNCHANGED msgs
=============================================================================
