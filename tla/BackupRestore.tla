---------------------------- MODULE BackupRestore ----------------------------
(***************************************************************************)
(* Export and import of a wallet's database: store/backup.go, called by    *)
(* the Backup & Reset screen through the bridge.  Both hold mu, which      *)
(* keeps bridge calls out; gateway requests, prompts and the log level     *)
(* setting write through a *Store of their own and are not kept out.       *)
(*                                                                         *)
(* A database is its rows, in three tables; what changes inside a row is   *)
(* not told apart.  Rows are encrypted with the key of the wallet that     *)
(* wrote them, and are exported and imported as they are stored; the       *)
(* passphrase of the file is the wallet's private key.  SQLite (external)  *)
(* lets readers see what was committed, admits one writer at a time and    *)
(* answers "busy" to others, and drops an open transaction in a crash.     *)
(***************************************************************************)
EXTENDS Naturals

CONSTANTS Wallets,
          Conversations, Messages, Preferences,  \* ids of the rows of each table
          None

Ids == Conversations \cup Messages \cup Preferences

ASSUME BackupAssumption ==
    /\ None \notin Wallets
    /\ Conversations \cap Messages = {}
    /\ Conversations \cap Preferences = {}
    /\ Messages \cap Preferences = {}

Rows == [id : Ids, key : Wallets]

VARIABLES wallet,   \* the wallet whose database is open
          db,       \* the committed rows of each wallet's database
          op,       \* what holds mu
          read,     \* rows the export has read, or the import has decoded
          begun,    \* history: the rows when the export began
          tx,       \* the rows the import's transaction would commit
          file      \* the backup file

backupVars == <<wallet, db, op, read, begun, tx, file>>

Free == "free"

(* The rows an export has are of the tables it has read so far.            *)
TypeOK ==
    /\ wallet \in Wallets
    /\ db \in [Wallets -> SUBSET Rows]
    /\ op \in {Free, "conversations", "messages", "preferences", "encrypt", "write",
               "begin", "clearMessages", "clearConversations", "clearPreferences",
               "insertConversations", "insertMessages", "insertPreferences", "commit"}
    /\ read \in SUBSET Rows
    /\ op = "conversations" => read = {}
    /\ op = "messages" => \A x \in read : x.id \in Conversations
    /\ op = "preferences" => \A x \in read : x.id \in Conversations \cup Messages
    /\ begun \in SUBSET Rows
    /\ tx \in SUBSET Rows
    /\ file \in [state : {"absent", "partial", "whole"}, wallet : Wallets \cup {None},
                 rows : SUBSET Rows]

NoFile == [state |-> "absent", wallet |-> None, rows |-> {}]
Truncated == [state |-> "partial", wallet |-> None, rows |-> {}]

Init ==
    /\ wallet \in Wallets
    /\ db = [w \in Wallets |-> {}]
    /\ op = Free
    /\ read = {} /\ begun = {} /\ tx = {}
    /\ file = NoFile

(* The import's transaction has the write lock from its first DELETE on.   *)
InTransaction ==
    op \in {"clearConversations", "clearPreferences", "insertConversations", "insertMessages",
            "insertPreferences", "commit"}
-----------------------------------------------------------------------------
(* Writers.  One that finds the database locked loses its row.             *)
Write(id) ==
    /\ ~InTransaction
    /\ db' = [db EXCEPT ![wallet] = @ \cup {[id |-> id, key |-> wallet]}]
    /\ UNCHANGED <<wallet, op, read, begun, tx, file>>

(* A thread with its messages, an empty draft: bridge calls, under mu.     *)
Delete(c, of) ==
    /\ op = Free
    /\ \E x \in db[wallet] : x.id = c
    /\ db' = [db EXCEPT ![wallet] = {x \in @ : x.id \notin {c} \cup of}]
    /\ UNCHANGED <<wallet, op, read, begun, tx, file>>

(* The wallet is erased and another imported.                              *)
SwitchWallet(w) ==
    /\ op = Free
    /\ wallet' = w
    /\ UNCHANGED <<db, op, read, begun, tx, file>>

(* The process dies; what writeFile had opened stays behind truncated.     *)
Crash ==
    /\ op # Free
    /\ op' = Free /\ read' = {} /\ tx' = {}
    /\ UNCHANGED <<wallet, db, begun, file>>
-----------------------------------------------------------------------------
ExportBackup ==
    /\ op = Free
    /\ op' = "conversations"
    /\ read' = {} /\ begun' = db[wallet]
    /\ UNCHANGED <<wallet, db, tx, file>>

\* Mutated form: every SELECT is a copy of exportAllMessages'.
FromMessages(table) == {x \in db[wallet] : x.id \in Messages}

(* One SELECT over a table: three of them, each with its own snapshot.     *)
SelectAll(table) == {x \in db[wallet] : x.id \in table}

Export(table, from, to) ==
    /\ op = from /\ op' = to
    /\ read' = read \cup SelectAll(table)
    /\ UNCHANGED <<wallet, db, begun, tx, file>>

ExportTables ==
    \/ Export(Conversations, "conversations", "messages")
    \/ Export(Messages, "messages", "preferences")
    \/ Export(Preferences, "preferences", "encrypt")

(* os.WriteFile truncates whatever the user chose to replace ...           *)
OpenFile ==
    /\ op = "encrypt"
    /\ op' = "write"
    /\ file' = Truncated
    /\ UNCHANGED <<wallet, db, read, begun, tx>>

(* ... and then writes; what a full disk cut off stays.                    *)
WriteFile ==
    /\ op = "write"
    /\ file' = [state |-> "whole", wallet |-> wallet, rows |-> read]
    /\ op' = Free /\ read' = {}
    /\ UNCHANGED <<wallet, db, begun, tx>>

ExportFails ==
    /\ op \in {"conversations", "messages", "preferences", "encrypt", "write"}
    /\ op' = Free /\ read' = {}
    /\ UNCHANGED <<wallet, db, begun, tx, file>>
-----------------------------------------------------------------------------
\* Mutated form: any archive that can be opened is taken.
AnyWhole == file.state = "whole"

(* AES-GCM opens the file only whole and only under the key it was sealed  *)
(* with; the zip and the manifest inside are then those of the export.     *)
Decrypts == file.state = "whole" /\ file.wallet = wallet

ImportBackup ==
    /\ op = Free
    /\ Decrypts
    /\ op' = "begin" /\ read' = file.rows
    /\ UNCHANGED <<wallet, db, begun, tx, file>>

Begin ==
    /\ op = "begin"
    /\ op' = "clearMessages" /\ tx' = {}
    /\ UNCHANGED <<wallet, db, read, begun, file>>

\* Mutated form: the statements go to the database, not to the transaction.
ExecDirect(rows) == tx' = rows /\ db' = [db EXCEPT ![wallet] = rows]

Exec(rows) == tx' = rows /\ UNCHANGED db

Without(rows, table) == {x \in rows : x.id \notin table}
Only(rows, table) == {x \in rows : x.id \in table}

Statement(rows, from, to) ==
    /\ op = from /\ op' = to
    /\ Exec(rows)
    /\ UNCHANGED <<wallet, read, begun, file>>

(* The first statement takes the lock: the transaction sees what is        *)
(* committed then.                                                         *)
ImportTables ==
    \/ Statement(Without(db[wallet], Messages), "clearMessages", "clearConversations")
    \/ Statement(Without(tx, Conversations), "clearConversations", "clearPreferences")
    \/ Statement(Without(tx, Preferences), "clearPreferences", "insertConversations")
    \/ Statement(tx \cup Only(read, Conversations), "insertConversations", "insertMessages")
    \/ Statement(tx \cup Only(read, Messages), "insertMessages", "insertPreferences")
    \/ Statement(tx \cup Only(read, Preferences), "insertPreferences", "commit")

Commit ==
    /\ op = "commit"
    /\ db' = [db EXCEPT ![wallet] = tx]
    /\ op' = Free /\ read' = {} /\ tx' = {}
    /\ UNCHANGED <<wallet, begun, file>>

(* The deferred Rollback, after a statement or the commit has failed.      *)
ImportFails ==
    /\ InTransaction \/ op \in {"begin", "clearMessages"}
    /\ op' = Free /\ read' = {} /\ tx' = {}
    /\ UNCHANGED <<wallet, db, begun, file>>
-----------------------------------------------------------------------------
Next ==
    \/ \E id \in Ids : Write(id)
    \/ \E c \in Conversations : \E of \in SUBSET Messages : Delete(c, of)
    \/ \E w \in Wallets : SwitchWallet(w)
    \/ Crash
    \/ ExportBackup \/ ExportTables \/ OpenFile \/ WriteFile \/ ExportFails
    \/ ImportBackup \/ Begin \/ ImportTables \/ Commit \/ ImportFails

Spec == Init /\ [][Next]_backupVars
-----------------------------------------------------------------------------
(* Safety: every row of a wallet's database can be decrypted with that     *)
(* wallet's key, whatever backups are taken, kept while the wallet is      *)
(* switched, and imported: the archive is sealed with the same wallet's    *)
(* key as the rows inside it (backup.go exports rows undecrypted).         *)
RowsReadable == \A w \in Wallets : \A x \in db[w] : x.key = w

(* What the file is worth: nothing until its last byte is written.         *)
Backup == IF file.state = "whole" THEN [wallet |-> file.wallet, rows |-> file.rows]
                                     ELSE [wallet |-> None, rows |-> {}]

Promise == INSTANCE BackupPromise WITH history <- db, backup <- Backup

(* Refinement: the three reads of an export, with writers between them,    *)
(* and the seven statements of an import, with failures and crashes        *)
(* between them, keep what BackupPromise says: the file holds all that was *)
(* there when the export began, and an import replaces all or nothing.     *)
PromiseKept == Promise!Spec
=============================================================================
