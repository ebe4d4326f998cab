---------------------------- MODULE BackupPromise ----------------------------
(***************************************************************************)
(* What export and import promise of a wallet's history: the backup file   *)
(* holds everything there was when the export began, and nothing that was  *)
(* never there; an import replaces the history of the wallet whose backup  *)
(* it is by all of the backup, in one step, or changes nothing.  Between   *)
(* them history grows row by row and shrinks thread by thread.  It knows   *)
(* nothing of tables, transactions, locks or crashes.                      *)
(***************************************************************************)
CONSTANTS Wallets, Rows,            \* a row has the field id
          Conversations, Messages,  \* ids of threads and of messages
          None

VARIABLES history,  \* the rows of each wallet
          begun,    \* the rows when the export that is under way began
          backup    \* the wallet and the rows of the backup file; None without one

promiseVars == <<history, begun, backup>>

NoBackup == [wallet |-> None, rows |-> {}]

Init ==
    /\ history = [w \in Wallets |-> {}]
    /\ begun = {}
    /\ backup = NoBackup

Write(w, x) ==
    /\ history' = [history EXCEPT ![w] = @ \cup {x}]
    /\ UNCHANGED <<begun, backup>>

(* One thread goes, and messages with it.                                  *)
Delete(w, c, of) ==
    /\ \E x \in history[w] : x.id = c
    /\ history' = [history EXCEPT ![w] = {x \in @ : x.id \notin {c} \cup of}]
    /\ UNCHANGED <<begun, backup>>

BeginExport(w) ==
    /\ begun' = history[w]
    /\ UNCHANGED <<history, backup>>

Export(w, rows) ==
    /\ begun \subseteq rows /\ rows \subseteq history[w]
    /\ backup' = [wallet |-> w, rows |-> rows]
    /\ UNCHANGED <<history, begun>>

(* The file is about to be written again, or was not written to its end.   *)
LoseBackup ==
    /\ backup' = NoBackup
    /\ UNCHANGED <<history, begun>>

Import(w) ==
    /\ backup.wallet = w
    /\ history' = [history EXCEPT ![w] = backup.rows]
    /\ UNCHANGED <<begun, backup>>

Next ==
    \/ \E w \in Wallets :
          \/ \E x \in Rows : Write(w, x)
          \/ \E c \in Conversations : \E of \in SUBSET Messages : Delete(w, c, of)
          \/ BeginExport(w) \/ Import(w)
          \/ \E rows \in SUBSET Rows : Export(w, rows)
    \/ LoseBackup

Spec == Init /\ [][Next]_promiseVars
=============================================================================
