---------------------------- MODULE SessionChain ----------------------------
(***************************************************************************)
(* The compute sessions of this wallet on the Morpheus chain, as the proxy *)
(* router SDK (a dependency, not part of the repository) shows them to the *)
(* app: OpenSession stakes and returns a fresh id, CloseSession closes it, *)
(* GetUnclosedUserSessions lists what is not closed with its ends_at.  A   *)
(* session past its ends_at stays listed until somebody closes it.         *)
(***************************************************************************)
CONSTANTS Models,    \* model ids
          Sessions,  \* session ids the chain can still hand out
          None       \* "no model", "no session", "no row": never a value

VARIABLE chain

SessionState == {"unused", "open", "ended", "closed"}

ChainType ==
    chain \in [Sessions -> [model : Models \cup {None}, state : SessionState]]

ChainInit == chain = [s \in Sessions |-> [model |-> None, state |-> "unused"]]

(* GetUnclosedUserSessions minus the sessions whose ends_at has passed.    *)
Usable == {s \in Sessions : chain[s].state = "open"}

UsableFor(m) == {s \in Usable : chain[s].model = m}

ChainOpen(m, s) ==
    /\ chain[s].state = "unused"
    /\ chain' = [chain EXCEPT ![s] = [model |-> m, state |-> "open"]]

(* The contract refuses to close what is not open.                         *)
ChainClose(s) ==
    /\ chain[s].state \in {"open", "ended"}
    /\ chain' = [chain EXCEPT ![s].state = "closed"]

(* Wall-clock time passes the session's ends_at.                           *)
Expire(s) ==
    /\ chain[s].state = "open"
    /\ chain' = [chain EXCEPT ![s].state = "ended"]

(* A session the app has been given, by the model it was opened for.       *)
OpenedFor(s, m) == chain[s].state # "unused" /\ chain[s].model = m
=============================================================================
