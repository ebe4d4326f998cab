----------------------------- MODULE AppLifecycle -----------------------------
(***************************************************************************)
(* Start-up, onboarding, erase, factory reset and RPC change: lib/app.dart *)
(* and the onboarding screen over the bridge functions Init,               *)
(* OpenWalletDatabase, SetEncryptionKey and ImportWalletPrivateKey.        *)
(*                                                                         *)
(* Each wallet has its own database file; a process that has just started  *)
(* opens the unscoped nodeneo.db until it knows the wallet.  The keychain, *)
(* the sentinel file, the RPC override and the database files outlive the  *)
(* process.                                                                *)
(***************************************************************************)
EXTENDS FiniteSets

CONSTANTS Wallets,     \* wallets, by private key; each has its own fingerprint
          Forms,       \* ways to write a private key: upper or lower case, 0x or not
          Rpcs,        \* values of the RPC setting
          DefaultRpc,  \* the value without an override
          Legacy,      \* the file nodeneo.db
          Unlinked,    \* an open database whose file was deleted
          None,
          Faults       \* what the environment does to the app, see below

(* The keychain keeps the text of a private key, and the key of a database *)
(* is the SHA-256 of that text, not of the number it stands for.           *)
KeyTexts == [wallet : Wallets, form : Forms]

ASSUME LifecycleAssumption ==
    /\ DefaultRpc \in Rpcs
    /\ Legacy \notin Wallets /\ Unlinked \notin Wallets /\ None \notin Wallets
    /\ Legacy # Unlinked /\ Legacy # None /\ Unlinked # None
    /\ None \notin Rpcs /\ None \notin KeyTexts
    /\ Faults \subseteq {"offline",      \* the network canary fails
                         "initfail",     \* NewSDK or the first store.New fails
                         "importfail",   \* the SDK refuses the stored key
                         "dbfail",       \* store.New of a wallet's file fails
                         "summaryfail",  \* GetWalletSummary cannot read the balance
                         "keychain",     \* a keychain read or write fails
                         "sentinel",     \* the sentinel file cannot be written
                         "gateway"}      \* the API gateway is used

VARIABLES vault, sentinel, rpc,               \* keychain, sentinel file, RPC override
          files, stored,                      \* database files; conversations in them
          client, sdkWallet, openDb, dbKey,   \* globals of the Go side
          gw,                                 \* the gateway and the store it was given
          pc, hasWallet,                      \* the app's widget state
          secret                              \* the key text onboarding works with

disk == <<vault, sentinel, rpc, files, stored>>
go == <<client, sdkWallet, openDb, dbKey, gw>>
lifecycleVars == <<disk, go, pc, hasWallet, secret>>

DbFiles == Wallets \cup {Legacy}

Conversation == [db : DbFiles, owner : Wallets, key : KeyTexts \cup {None}]

TypeOK ==
    /\ vault \in KeyTexts \cup {None}
    /\ sentinel \in BOOLEAN
    /\ rpc \in Rpcs
    /\ files \subseteq DbFiles
    /\ stored \subseteq Conversation
    /\ client \in Rpcs \cup {None}
    /\ sdkWallet \in Wallets \cup {None}
    /\ openDb \in DbFiles \cup {Unlinked, None}
    /\ dbKey \in KeyTexts \cup {None}
    /\ gw \in {"off", "live", "stale"}
    /\ pc \in {"start", "network", "init", "restore", "onboarding", "save", "scope", "home",
               "offline", "error", "erased", "reset", "wipe", "rpcChanged"}
    /\ hasWallet \in BOOLEAN
    /\ secret \in KeyTexts \cup {None}

Fresh == client = None /\ sdkWallet = None /\ openDb = None /\ dbKey = None /\ gw = "off"

(* A new installation, with what an earlier one may have left in the       *)
(* keychain; or one of a release that had a single database.               *)
Init ==
    /\ \/ /\ vault \in KeyTexts \cup {None} /\ sentinel = FALSE
          /\ files = {} /\ stored = {}
       \/ /\ vault \in KeyTexts /\ sentinel = TRUE
          /\ files = {Legacy}
          /\ stored = {[db |-> Legacy, owner |-> vault.wallet, key |-> vault]}
    /\ rpc = DefaultRpc
    /\ Fresh
    /\ pc = "start" /\ hasWallet = FALSE /\ secret = None
-----------------------------------------------------------------------------
\* Mutated form: the sentinel is not looked at.
NeverSeen == TRUE

FirstLaunch == ~sentinel

(* FirstLaunchGuard: the keychain outlives the container.                  *)
ReconcileFreshInstall ==
    /\ pc = "start"
    /\ pc' = "network"
    /\ IF FirstLaunch
       THEN /\ vault' = None
            /\ sentinel' = TRUE \/ ("sentinel" \in Faults /\ UNCHANGED sentinel)
       ELSE UNCHANGED <<vault, sentinel>>
    /\ UNCHANGED <<rpc, files, stored, go, hasWallet, secret>>

CheckNetwork ==
    /\ pc = "network"
    /\ pc' = "init" \/ ("offline" \in Faults /\ pc' = "offline")
    /\ UNCHANGED <<disk, go, hasWallet, secret>>

RetryOffline == pc = "offline" /\ pc' = "start" /\ UNCHANGED <<disk, go, hasWallet, secret>>

(* Init: a second call in one process changes nothing.                     *)
InitSdk ==
    /\ pc = "init"
    /\ \/ client # None /\ pc' = "restore" /\ UNCHANGED <<files, go>>
       \/ /\ client = None /\ pc' = "restore"
          /\ client' = rpc
          /\ openDb' = Legacy /\ dbKey' = None
          /\ files' = files \cup {Legacy}
          /\ UNCHANGED <<sdkWallet, gw>>
       \/ /\ client = None /\ "initfail" \in Faults /\ pc' = "error"
          /\ UNCHANGED <<files, go>>
    /\ UNCHANGED <<vault, sentinel, rpc, stored, hasWallet, secret>>
-----------------------------------------------------------------------------
\* Mutated forms: an existing wallet file is replaced; nodeneo.db is left alone.
LegacyPresent(w) == Legacy \in files
NeverRenamed(w) == FALSE

Migrates(w) == w \notin files /\ Legacy \in files

(* The rename of nodeneo.db to the wallet's file, which replaces it.       *)
MigrateLegacy(w) ==
    IF Migrates(w)
    THEN /\ files' = (files \ {Legacy}) \cup {w}
         /\ stored' = {IF x.db = Legacy THEN [x EXCEPT !.db = w] ELSE x :
                          x \in {y \in stored : y.db # w}}
    ELSE /\ files' = files \cup {w}
         /\ UNCHANGED stored

\* Mutated form: a database that is open already is kept.
KeepOpen(w) == IF openDb \in DbFiles \ {Legacy} THEN openDb ELSE w

Scoped(w) == w

(* The gateway goes on with the Store it was started with.                 *)
ReplaceDb(d) ==
    /\ openDb' = d
    /\ gw' = IF gw = "live" THEN "stale" ELSE gw

\* Mutated form: the key goes to the store that is then closed.
KeyBeforeOpen(w, key) ==
    /\ MigrateLegacy(w)
    /\ ReplaceDb(Scoped(w)) /\ dbKey' = None

(* OpenWalletDatabase, then SetEncryptionKey with the hash of a key text:  *)
(* nothing else of the app runs between the two calls.                     *)
OpenWalletDatabase(w, key) ==
    /\ MigrateLegacy(w)
    /\ ReplaceDb(Scoped(w)) /\ dbKey' = key

OpenFails(w) ==
    /\ "dbfail" \in Faults
    /\ MigrateLegacy(w)
    /\ ReplaceDb(None) /\ dbKey' = None

\* Mutated form: the wallet still loaded in the SDK decides.
ShownForSdk == IF sdkWallet # None THEN "home" ELSE "onboarding"

Shown == IF hasWallet THEN "home" ELSE "onboarding"

(* The wallet part of _initSDK.  Any error of the bridge empties the       *)
(* vault; a vault that cannot be read counts as an empty one.              *)
RestoreWallet ==
    /\ pc = "restore"
    /\ \/ /\ vault = None \/ "keychain" \in Faults
          /\ pc' = Shown
          /\ UNCHANGED <<vault, files, stored, go, hasWallet>>
       \/ /\ vault # None /\ "importfail" \in Faults
          /\ vault' = None
          /\ pc' = Shown
          /\ UNCHANGED <<files, stored, go, hasWallet>>
       \/ /\ vault # None
          /\ sdkWallet' = vault.wallet
          /\ \/ OpenWalletDatabase(vault.wallet, vault) /\ UNCHANGED vault
             \/ OpenFails(vault.wallet) /\ vault' = None
          /\ pc' = "home" /\ hasWallet' = TRUE
          /\ UNCHANGED client
    /\ UNCHANGED <<sentinel, rpc, secret>>
-----------------------------------------------------------------------------
(* Onboarding: a wallet is created and its key shown, or imported from     *)
(* what the user typed, in either case of letters ...                      *)
LoadWallet(key) ==
    /\ pc = "onboarding"
    /\ sdkWallet' = key.wallet
    /\ \/ secret' = key /\ pc' = "save"
       \/ "summaryfail" \in Faults /\ UNCHANGED <<secret, pc>>
    /\ UNCHANGED <<disk, client, openDb, dbKey, gw, hasWallet>>

(* ... then saved ...                                                      *)
SavePrivateKey ==
    /\ pc = "save"
    /\ \/ vault' = secret /\ pc' = "scope" /\ UNCHANGED secret
       \/ "keychain" \in Faults /\ UNCHANGED vault /\ pc' = "onboarding" /\ secret' = None
    /\ UNCHANGED <<sentinel, rpc, files, stored, go, hasWallet>>

(* ... and its database opened; an error is not fatal, and the key is      *)
(* given to whatever database is open.                                     *)
OpenScopedDbAndEncrypt ==
    /\ pc = "scope"
    /\ \/ OpenWalletDatabase(sdkWallet, secret) \/ OpenFails(sdkWallet)
       \/ /\ "summaryfail" \in Faults
          /\ dbKey' = IF openDb # None THEN secret ELSE None
          /\ UNCHANGED <<files, stored, openDb, gw>>
    /\ pc' = "home" /\ hasWallet' = TRUE /\ secret' = None
    /\ UNCHANGED <<vault, sentinel, rpc, client, sdkWallet>>
-----------------------------------------------------------------------------
\* Mutated form: rows are counted whether or not the file is there.
WriteAnywhere == stored' = stored \cup {[db |-> openDb, owner |-> sdkWallet, key |-> dbKey]}

Write ==
    IF openDb \in DbFiles
    THEN stored' = stored \cup {[db |-> openDb, owner |-> sdkWallet, key |-> dbKey]}
    ELSE UNCHANGED stored

Converse ==
    /\ pc = "home" /\ sdkWallet # None /\ openDb # None
    /\ Write
    /\ UNCHANGED <<vault, sentinel, rpc, files, go, pc, hasWallet, secret>>

StartGateway ==
    /\ "gateway" \in Faults
    /\ pc = "home" /\ gw = "off"
    /\ client # None /\ openDb # None
    /\ gw' = "live"
    /\ UNCHANGED <<disk, client, sdkWallet, openDb, dbKey, pc, hasWallet, secret>>

StopGateway ==
    /\ pc = "home" /\ gw # "off"
    /\ gw' = "off"
    /\ UNCHANGED <<disk, client, sdkWallet, openDb, dbKey, pc, hasWallet, secret>>

(* A closed store lets no API key through: nothing is served.              *)
ServeApi ==
    /\ gw = "live" /\ sdkWallet # None
    /\ Write
    /\ UNCHANGED <<vault, sentinel, rpc, files, go, pc, hasWallet, secret>>
-----------------------------------------------------------------------------
(* _safeShutdown runs GoBridge().shutdown in another isolate, where the    *)
(* bridge's own "initialized" is false: the Go side is left as it is.      *)
SafeShutdown == UNCHANGED go

EraseWallet ==
    /\ pc = "home"
    /\ vault' = None
    /\ pc' = "erased"
    /\ UNCHANGED <<sentinel, rpc, files, stored, go, hasWallet, secret>>

HandleWalletErased ==
    /\ pc = "erased"
    /\ SafeShutdown
    /\ pc' = "start" /\ hasWallet' = FALSE
    /\ UNCHANGED <<disk, secret>>

FullFactoryReset ==
    /\ pc = "home"
    /\ vault' = None
    /\ pc' = "reset"
    /\ UNCHANGED <<sentinel, rpc, files, stored, go, hasWallet, secret>>

ResetShutdown ==
    /\ pc = "reset"
    /\ SafeShutdown
    /\ pc' = "wipe"
    /\ UNCHANGED <<disk, hasWallet, secret>>

WipeFactoryLocalFiles ==
    /\ pc = "wipe"
    /\ rpc' = DefaultRpc
    /\ files' = {} /\ stored' = {}
    /\ openDb' = IF openDb = None THEN None ELSE Unlinked
    /\ pc' = "start" /\ hasWallet' = FALSE
    /\ UNCHANGED <<vault, sentinel, client, sdkWallet, dbKey, gw, secret>>

(* From the expert or the network screen, or "retry with default RPC".     *)
ChangeRpc(u) ==
    /\ pc \in {"home", "error"}
    /\ rpc' = u
    /\ pc' = "rpcChanged"
    /\ UNCHANGED <<vault, sentinel, files, stored, go, hasWallet, secret>>

RestartSdkAfterRpcChange ==
    /\ pc = "rpcChanged"
    /\ SafeShutdown
    /\ pc' = "start"
    /\ UNCHANGED <<disk, hasWallet, secret>>

(* The process ends, at any point, and the app is launched again.          *)
Relaunch ==
    /\ client' = None /\ sdkWallet' = None /\ openDb' = None /\ dbKey' = None /\ gw' = "off"
    /\ pc' = "start" /\ hasWallet' = FALSE /\ secret' = None
    /\ UNCHANGED disk
-----------------------------------------------------------------------------
Next ==
    \/ ReconcileFreshInstall \/ CheckNetwork \/ RetryOffline \/ InitSdk \/ RestoreWallet
    \/ \E key \in KeyTexts : LoadWallet(key)
    \/ SavePrivateKey \/ OpenScopedDbAndEncrypt
    \/ Converse \/ StartGateway \/ StopGateway \/ ServeApi
    \/ EraseWallet \/ HandleWalletErased
    \/ FullFactoryReset \/ ResetShutdown \/ WipeFactoryLocalFiles
    \/ \E u \in Rpcs : ChangeRpc(u)
    \/ RestartSdkAfterRpcChange \/ Relaunch

Spec == Init /\ [][Next]_lifecycleVars
-----------------------------------------------------------------------------
(* Every stored conversation is in the file of the wallet that had it, or  *)
(* still in the unscoped one, and encrypted with that wallet's key as the  *)
(* user or the SDK wrote it, across erasing, importing another wallet,     *)
(* renaming nodeneo.db and restarts (api.go OpenWalletDatabase).           *)
ConversationsInOwnDb ==
    \A x \in stored : x.db \in {x.owner, Legacy} /\ x.key \in [wallet : {x.owner}, form : Forms]

(* No conversation is stored before the encryption key is set, in any      *)
(* order of failures, imports, restarts and API requests (llms.txt:344).   *)
EncryptedAtRest == \A x \in stored : x.key # None

(* Until the factory reset wipes the files no conversation is lost, altered *)
(* or moved, but with nodeneo.db, when it becomes the file of a wallet     *)
(* that had none (api.go:177-187).  Whose file that is, this does not say. *)
HistorySurvives ==
    [][pc # "wipe" =>
          \A x \in stored :
             \/ x \in stored'
             \/ /\ x.db = Legacy
                /\ \E w \in Wallets \ files : [x EXCEPT !.db = w] \in stored']_lifecycleVars

(* A wallet finds its history: on the home screen all conversations it has *)
(* had are in the open database, also after it was erased and imported     *)
(* again or used in turn with others (app.dart:263, llms.txt:261).  They   *)
(* are readable if the key was typed as it was then.                       *)
HistoryFound ==
    pc = "home" => \A x \in stored : x.owner = sdkWallet => x.db = openDb

(* The private key leaves the keychain when the user erases the wallet or  *)
(* resets the app, or when the container is new; nothing else replaces it  *)
(* (wallet_vault.dart, first_launch_guard.dart).                           *)
VaultKept ==
    [][vault \notin {None, vault'} =>
          /\ vault' = None
          /\ pc' \in {"erased", "reset"} \/ (pc = "start" /\ files = {})]_lifecycleVars

(* The home screen works with one wallet: the one whose key is saved is    *)
(* the one the SDK signs with, and its database is open under its key.     *)
OneWallet ==
    pc = "home" => /\ vault # None /\ dbKey = vault
                   /\ sdkWallet = vault.wallet /\ openDb = vault.wallet
-----------------------------------------------------------------------------
(* What a comment says and the code does not do.                           *)

(* app.dart:250: after an RPC settings change "tear down Go, re-init with  *)
(* new URL".                                                               *)
ClientUsesSavedRpc == pc = "home" => client = rpc
=============================================================================
