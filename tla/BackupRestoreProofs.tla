-------------------------- MODULE BackupRestoreProofs --------------------------
(***************************************************************************)
(* Proofs, for every value of the constants, that BackupRestore is type    *)
(* correct, that every row stays readable with its wallet's key, and that  *)
(* export and import keep BackupPromise.                                   *)
(*                                                                         *)
(* The inductive invariant says how far each has come: what the export has *)
(* read covers the tables behind it and nothing else, and the transaction  *)
(* of the import holds nothing of the tables cleared and all of those      *)
(* inserted.                                                               *)
(***************************************************************************)
EXTENDS BackupRestore, TLAPS

Exporting == op \in {"conversations", "messages", "preferences", "encrypt", "write"}
Importing == op \in {"begin", "clearMessages"} \/ InTransaction

ReadBehind ==
    /\ op \in {"messages", "preferences", "encrypt", "write"} => Only(begun, Conversations) \subseteq read
    /\ op \in {"preferences", "encrypt", "write"} => Only(begun, Messages) \subseteq read
    /\ op \in {"encrypt", "write"} => Only(begun, Preferences) \subseteq read

ExportInv ==
    Exporting => begun \subseteq db[wallet] /\ read \subseteq db[wallet] /\ ReadBehind

ImportInv ==
    /\ Importing => file.state = "whole" /\ file.wallet = wallet /\ read = file.rows
    /\ op = "clearConversations" => Only(tx, Messages) = {}
    /\ op = "clearPreferences" => Only(tx, Messages) = {} /\ Only(tx, Conversations) = {}
    /\ op = "insertConversations" => tx = {}
    /\ op = "insertMessages" => tx = Only(read, Conversations)
    /\ op = "insertPreferences" => tx = Only(read, Conversations) \cup Only(read, Messages)
    /\ op = "commit" => tx = read

FileInv ==
    file.state = "whole" => file.wallet \in Wallets /\ \A x \in file.rows : x.key = file.wallet

Inv == TypeOK /\ ExportInv /\ ImportInv /\ FileInv /\ RowsReadable
-----------------------------------------------------------------------------
(* The three tables are all of a database.                                 *)
LEMMA ThreeTables ==
  ASSUME NEW rows \in SUBSET Rows
  PROVE  rows = Only(rows, Conversations) \cup Only(rows, Messages) \cup Only(rows, Preferences)
  BY DEF Rows, Ids, Only

LEMMA InitInv == Init => Inv
  BY DEF Init, Inv, TypeOK, ExportInv, ImportInv, FileInv, RowsReadable, NoFile, Free,
         Exporting, Importing, InTransaction

LEMMA WriterInv ==
  ASSUME Inv, \/ \E id \in Ids : Write(id)
              \/ \E c \in Conversations : \E of \in SUBSET Messages : Delete(c, of)
  PROVE  Inv'
<1>1. CASE \E id \in Ids : Write(id)
  <2>1. PICK id \in Ids : Write(id)
    BY <1>1
  <2>2. TypeOK' /\ RowsReadable'
    BY <2>1 DEF Inv, TypeOK, RowsReadable, Write, Rows
  <2>3. db[wallet] \subseteq db'[wallet] /\ UNCHANGED <<wallet, op, read, begun, tx, file>>
    BY <2>1 DEF Inv, TypeOK, Write
  <2> QED
    BY <2>2, <2>3 DEF Inv, ExportInv, ReadBehind, ImportInv, FileInv, Exporting, Importing,
                      InTransaction
<1>2. CASE \E c \in Conversations : \E of \in SUBSET Messages : Delete(c, of)
  BY <1>2 DEF Inv, TypeOK, ExportInv, ImportInv, FileInv, RowsReadable, Delete, Free,
              Exporting, Importing, InTransaction
<1> QED
  BY <1>1, <1>2

LEMMA RestInv ==
  ASSUME Inv, Crash \/ ExportFails \/ ImportFails \/ (\E w \in Wallets : SwitchWallet(w))
  PROVE  Inv'
  BY DEF Inv, TypeOK, ExportInv, ImportInv, FileInv, RowsReadable, Crash, ExportFails,
         ImportFails, SwitchWallet, Free, Exporting, Importing, InTransaction

LEMMA ExportTablesInv == ASSUME Inv, ExportTables PROVE Inv'
<1>1. TypeOK'
  BY DEF Inv, TypeOK, ExportTables, Export, SelectAll
<1>2. ExportInv'
  BY DEF Inv, TypeOK, ExportInv, ReadBehind, ExportTables, Export, SelectAll, Only, Exporting
<1> QED
  BY <1>1, <1>2 DEF Inv, ImportInv, FileInv, RowsReadable, ExportTables, Export, Importing,
                    InTransaction

LEMMA ExportInvStep == ASSUME Inv, ExportBackup \/ OpenFile \/ WriteFile PROVE Inv'
<1>1. CASE ExportBackup
  BY <1>1 DEF Inv, TypeOK, ExportInv, ReadBehind, ImportInv, FileInv, RowsReadable,
              ExportBackup, Free, Exporting, Importing, InTransaction
<1>2. CASE OpenFile
  BY <1>2 DEF Inv, TypeOK, ExportInv, ReadBehind, ImportInv, FileInv, RowsReadable,
              OpenFile, Truncated, Exporting, Importing, InTransaction
<1>3. CASE WriteFile
  BY <1>3 DEF Inv, TypeOK, ExportInv, ReadBehind, ImportInv, FileInv, RowsReadable,
              WriteFile, Free, Exporting, Importing, InTransaction
<1> QED
  BY <1>1, <1>2, <1>3

LEMMA ImportTablesInv == ASSUME Inv, ImportTables PROVE Inv'
<1>1. TypeOK'
  BY DEF Inv, TypeOK, ImportTables, Statement, Exec, Without, Only
<1>2. ImportInv'
  <2>1. CASE Statement(Without(db[wallet], Messages), "clearMessages", "clearConversations")
    BY <2>1 DEF Inv, ImportInv, Statement, Exec, Without, Only, Importing, InTransaction
  <2>2. CASE Statement(Without(tx, Conversations), "clearConversations", "clearPreferences")
    BY <2>2 DEF Inv, ImportInv, Statement, Exec, Without, Only, Importing, InTransaction
  <2>3. CASE Statement(Without(tx, Preferences), "clearPreferences", "insertConversations")
    <3>1. tx \in SUBSET Rows
      BY DEF Inv, TypeOK
    <3>2. Without(tx, Preferences) = {}
      BY <2>3, <3>1, ThreeTables DEF Inv, ImportInv, Statement, Without, Only
    <3> QED
      BY <2>3, <3>2 DEF Inv, ImportInv, Statement, Exec, Importing, InTransaction
  <2>4. CASE Statement(tx \cup Only(read, Conversations), "insertConversations", "insertMessages")
    BY <2>4 DEF Inv, ImportInv, Statement, Exec, Importing, InTransaction
  <2>5. CASE Statement(tx \cup Only(read, Messages), "insertMessages", "insertPreferences")
    BY <2>5 DEF Inv, ImportInv, Statement, Exec, Importing, InTransaction
  <2>6. CASE Statement(tx \cup Only(read, Preferences), "insertPreferences", "commit")
    <3>1. read = Only(read, Conversations) \cup Only(read, Messages) \cup Only(read, Preferences)
      BY ThreeTables DEF Inv, TypeOK
    <3> QED
      BY <2>6, <3>1 DEF Inv, ImportInv, Statement, Exec, Importing, InTransaction
  <2> QED
    BY <2>1, <2>2, <2>3, <2>4, <2>5, <2>6 DEF ImportTables
<1> QED
  BY <1>1, <1>2 DEF Inv, ExportInv, FileInv, RowsReadable, ImportTables, Statement, Exec, Exporting

LEMMA ImportInvStep == ASSUME Inv, ImportBackup \/ Begin \/ Commit PROVE Inv'
<1>1. CASE ImportBackup
  BY <1>1 DEF Inv, TypeOK, ExportInv, ImportInv, FileInv, RowsReadable, ImportBackup, Decrypts,
              Exporting, Importing, InTransaction
<1>2. CASE Begin
  BY <1>2 DEF Inv, TypeOK, ExportInv, ImportInv, FileInv, RowsReadable, Begin,
              Exporting, Importing, InTransaction
<1>3. CASE Commit
  <2>1. db' = [db EXCEPT ![wallet] = file.rows] /\ file.wallet = wallet /\ file.state = "whole"
    BY <1>3 DEF Inv, ImportInv, Commit, Importing, InTransaction
  <2> QED
    BY <1>3, <2>1 DEF Inv, TypeOK, ExportInv, ImportInv, FileInv, RowsReadable, Commit, Free,
                      Exporting, Importing, InTransaction
<1> QED
  BY <1>1, <1>2, <1>3

(* The invariant is inductive.                                             *)
LEMMA InvHolds == Spec => []Inv
<1>1. Init => Inv
  BY InitInv
<1>2. Inv /\ [Next]_backupVars => Inv'
  <2> SUFFICES ASSUME Inv, [Next]_backupVars PROVE Inv'
    OBVIOUS
  <2>1. CASE UNCHANGED backupVars
    BY <2>1 DEF Inv, TypeOK, ExportInv, ReadBehind, ImportInv, FileInv, RowsReadable, backupVars,
                Exporting, Importing, InTransaction
  <2> QED
    BY <2>1, WriterInv, RestInv, ExportTablesInv, ExportInvStep, ImportTablesInv, ImportInvStep
       DEF Next
<1> QED
  BY <1>1, <1>2, PTL DEF Spec

(* Type correctness of an export, an import and their writers.             *)
THEOREM BackupTypeCorrect == Spec => []TypeOK
  BY InvHolds, PTL DEF Inv

(* No backup, taken and imported in any order of wallets, failures and     *)
(* crashes, brings rows into a database that its wallet cannot decrypt.    *)
THEOREM RowsStayReadable == Spec => []RowsReadable
  BY InvHolds, PTL DEF Inv
-----------------------------------------------------------------------------
PromiseStep == [Promise!Next]_(Promise!promiseVars)

LEMMA PromiseInit == Init => Promise!Init
  BY DEF Init, Promise!Init, Promise!NoBackup, Backup, NoFile

LEMMA QuietStep ==
  ASSUME UNCHANGED <<db, begun, file>>
  PROVE  UNCHANGED Promise!promiseVars
  BY DEF Promise!promiseVars, Backup

LEMMA WritesKeepPromise ==
  ASSUME Inv, \/ \E id \in Ids : Write(id)
              \/ \E c \in Conversations : \E of \in SUBSET Messages : Delete(c, of)
  PROVE  PromiseStep
<1>1. wallet \in Wallets /\ db \in [Wallets -> SUBSET Rows]
  BY DEF Inv, TypeOK
<1>2. CASE \E id \in Ids : Write(id)
  <2>1. PICK id \in Ids : Write(id)
    BY <1>2
  <2>2. [id |-> id, key |-> wallet] \in Rows
    BY <1>1 DEF Rows
  <2>3. Promise!Write(wallet, [id |-> id, key |-> wallet])
    BY <2>1 DEF Write, Promise!Write, Backup
  <2> QED
    BY <1>1, <2>2, <2>3 DEF PromiseStep, Promise!Next
<1>3. CASE \E c \in Conversations : \E of \in SUBSET Messages : Delete(c, of)
  <2>1. PICK c \in Conversations, of \in SUBSET Messages : Delete(c, of)
    BY <1>3
  <2>2. Promise!Delete(wallet, c, of)
    BY <2>1 DEF Delete, Promise!Delete, Backup
  <2> QED
    BY <1>1, <2>1, <2>2 DEF PromiseStep, Promise!Next
<1> QED
  BY <1>2, <1>3

LEMMA ExportKeepsPromise ==
  ASSUME Inv, ExportBackup \/ ExportTables \/ OpenFile \/ WriteFile
  PROVE  PromiseStep
<1>1. wallet \in Wallets /\ begun \in SUBSET Rows /\ read \in SUBSET Rows
  BY DEF Inv, TypeOK
<1>2. CASE ExportBackup
  <2>1. Promise!BeginExport(wallet)
    BY <1>2 DEF ExportBackup, Promise!BeginExport, Backup
  <2> QED
    BY <1>1, <2>1 DEF PromiseStep, Promise!Next
<1>3. CASE ExportTables
  BY <1>3, QuietStep DEF PromiseStep, ExportTables, Export
<1>4. CASE OpenFile
  BY <1>4 DEF OpenFile, Truncated, PromiseStep, Promise!Next, Promise!LoseBackup,
              Promise!NoBackup, Backup
<1>5. CASE WriteFile
  <2>1. begun \subseteq read /\ read \subseteq db[wallet]
    BY <1>1, <1>5, ThreeTables DEF WriteFile, Inv, ExportInv, ReadBehind, Exporting
  <2>2. Promise!Export(wallet, read)
    BY <1>5, <2>1 DEF WriteFile, Promise!Export, Backup
  <2> QED
    BY <1>1, <2>2 DEF PromiseStep, Promise!Next
<1> QED
  BY <1>2, <1>3, <1>4, <1>5

LEMMA ImportKeepsPromise ==
  ASSUME Inv, ImportBackup \/ Begin \/ ImportTables \/ Commit
  PROVE  PromiseStep
<1>1. CASE ImportBackup \/ Begin \/ ImportTables
  BY <1>1, QuietStep DEF PromiseStep, ImportBackup, Begin, ImportTables, Statement, Exec
<1>2. CASE Commit
  <2>1. wallet \in Wallets
    BY DEF Inv, TypeOK
  <2>2. file.state = "whole" /\ file.wallet = wallet /\ tx = file.rows
    BY <1>2 DEF Commit, Inv, ImportInv, Importing, InTransaction
  <2>3. Backup = [wallet |-> wallet, rows |-> file.rows]
    BY <2>2 DEF Backup
  <2>4. Promise!Import(wallet)
    BY <1>2, <2>2, <2>3 DEF Commit, Promise!Import, Backup
  <2> QED
    BY <2>1, <2>4 DEF PromiseStep, Promise!Next
<1> QED
  BY <1>1, <1>2

LEMMA StepKeepsPromise == ASSUME Inv, [Next]_backupVars PROVE PromiseStep
<1>1. CASE UNCHANGED backupVars
  BY <1>1, QuietStep DEF backupVars, PromiseStep
<1>2. CASE Crash \/ ExportFails \/ ImportFails \/ (\E w \in Wallets : SwitchWallet(w))
  BY <1>2, QuietStep DEF Crash, ExportFails, ImportFails, SwitchWallet, PromiseStep
<1> QED
  BY <1>1, <1>2, WritesKeepPromise, ExportKeepsPromise, ImportKeepsPromise DEF Next

(* Refinement: export and import keep BackupPromise for every number of    *)
(* wallets, threads, messages and preferences.                             *)
THEOREM BackupKeepsPromise == Spec => PromiseKept
<1>1. Init => Promise!Init
  BY PromiseInit
<1>2. Inv /\ [Next]_backupVars => PromiseStep
  BY StepKeepsPromise
<1> QED
  BY <1>1, <1>2, InvHolds, PTL DEF Spec, PromiseKept, Promise!Spec, PromiseStep
=============================================================================
