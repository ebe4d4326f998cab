-------------------------- MODULE AppLifecycleProofs --------------------------
(***************************************************************************)
(* AppLifecycle for any wallets and RPC settings: its type; that history   *)
(* survives and nothing is stored without a key under every fault; and,    *)
(* for a device on which only the network and the SDK's start may fail,    *)
(* that the home screen works with one wallet, that every conversation is  *)
(* in its own wallet's file, and that the saved key is never replaced.     *)
(***************************************************************************)
EXTENDS AppLifecycle, TLAPS

(* A wallet is loaded before its key is saved and its database opened.     *)
Typed == TypeOK /\ (pc \in {"save", "scope"} => sdkWallet # None /\ secret # None)

LEMMA TypeInit == Init => Typed
<1> SUFFICES ASSUME Init PROVE Typed
  OBVIOUS
<1>1. stored \subseteq Conversation
  BY DEF Init, Conversation, KeyTexts, DbFiles
<1>2. files \subseteq DbFiles /\ vault \in KeyTexts \cup {None} /\ sentinel \in BOOLEAN
  BY DEF Init, DbFiles
<1> QED
  BY <1>1, <1>2, LifecycleAssumption DEF Init, Fresh, Typed, TypeOK

(* Opening a wallet's file, well or badly, keeps the types.                *)
LEMMA OpenType ==
  ASSUME TypeOK, NEW w \in Wallets, NEW key \in KeyTexts,
         OpenWalletDatabase(w, key) \/ OpenFails(w)
  PROVE  /\ files' \subseteq DbFiles
         /\ stored' \subseteq Conversation
         /\ openDb' \in DbFiles \cup {Unlinked, None}
         /\ dbKey' \in KeyTexts \cup {None}
         /\ gw' \in {"off", "live", "stale"}
<1>1. MigrateLegacy(w)
  BY DEF OpenWalletDatabase, OpenFails
<1>2. stored' \subseteq Conversation
  <2>1. CASE Migrates(w)
    <3>1. \A x \in stored : [x EXCEPT !.db = w] \in Conversation
      BY DEF TypeOK, Conversation, DbFiles
    <3> QED
      BY <1>1, <2>1, <3>1 DEF MigrateLegacy, TypeOK
  <2>2. CASE ~Migrates(w)
    BY <1>1, <2>2 DEF MigrateLegacy, TypeOK
  <2> QED
    BY <2>1, <2>2
<1>3. files' \subseteq DbFiles
  BY <1>1 DEF MigrateLegacy, TypeOK, DbFiles
<1>4. /\ openDb' \in DbFiles \cup {Unlinked, None}
      /\ dbKey' \in KeyTexts \cup {None}
      /\ gw' \in {"off", "live", "stale"}
  BY DEF OpenWalletDatabase, OpenFails, ReplaceDb, Scoped, TypeOK, DbFiles
<1> QED
  BY <1>2, <1>3, <1>4

LEMMA RestoreType ==
  ASSUME Typed, RestoreWallet PROVE Typed'
<1>1. CASE /\ UNCHANGED <<files, stored, go, hasWallet, secret>>
           /\ vault' \in {vault, None} /\ pc' = Shown
  BY <1>1 DEF Typed, TypeOK, RestoreWallet, go, Shown
<1>2. CASE /\ vault # None /\ sdkWallet' = vault.wallet
           /\ OpenWalletDatabase(vault.wallet, vault) \/ OpenFails(vault.wallet)
           /\ vault' \in {vault, None}
           /\ pc' = "home" /\ hasWallet' = TRUE /\ UNCHANGED client
  <2>1. vault \in KeyTexts /\ vault.wallet \in Wallets
    BY <1>2 DEF Typed, TypeOK, KeyTexts
  <2>2. /\ files' \subseteq DbFiles /\ stored' \subseteq Conversation
        /\ openDb' \in DbFiles \cup {Unlinked, None}
        /\ dbKey' \in KeyTexts \cup {None} /\ gw' \in {"off", "live", "stale"}
    BY <1>2, <2>1, OpenType DEF Typed
  <2> QED
    BY <1>2, <2>1, <2>2 DEF Typed, TypeOK, RestoreWallet
<1> QED
  BY <1>1, <1>2 DEF RestoreWallet

LEMMA ScopeType ==
  ASSUME Typed, OpenScopedDbAndEncrypt PROVE Typed'
<1>1. sdkWallet \in Wallets /\ secret \in KeyTexts
  BY DEF Typed, TypeOK, OpenScopedDbAndEncrypt
<1>2. CASE OpenWalletDatabase(sdkWallet, secret) \/ OpenFails(sdkWallet)
  <2>1. /\ files' \subseteq DbFiles /\ stored' \subseteq Conversation
        /\ openDb' \in DbFiles \cup {Unlinked, None}
        /\ dbKey' \in KeyTexts \cup {None} /\ gw' \in {"off", "live", "stale"}
    BY <1>1, <1>2, OpenType DEF Typed
  <2> QED
    BY <2>1 DEF Typed, TypeOK, OpenScopedDbAndEncrypt
<1>3. CASE /\ dbKey' = IF openDb # None THEN secret ELSE None
           /\ UNCHANGED <<files, stored, openDb, gw>>
  BY <1>1, <1>3 DEF Typed, TypeOK, OpenScopedDbAndEncrypt
<1> QED
  BY <1>2, <1>3 DEF OpenScopedDbAndEncrypt

LEMMA WriteType ==
  ASSUME TypeOK, sdkWallet # None, Write PROVE stored' \subseteq Conversation
BY DEF TypeOK, Write, Conversation, DbFiles

LEMMA TypeStep == Typed /\ [Next]_lifecycleVars => Typed'
<1> SUFFICES ASSUME Typed, [Next]_lifecycleVars PROVE Typed'
  OBVIOUS
<1> USE DEF Typed, TypeOK
<1>1. CASE ReconcileFreshInstall
  BY <1>1 DEF ReconcileFreshInstall, go
<1>2. CASE CheckNetwork
  BY <1>2 DEF CheckNetwork, disk, go
<1>3. CASE RetryOffline
  BY <1>3 DEF RetryOffline, disk, go
<1>4. CASE InitSdk
  BY <1>4 DEF InitSdk, go, DbFiles
<1>5. CASE RestoreWallet
  BY <1>5, RestoreType
<1>6. ASSUME NEW key \in KeyTexts, LoadWallet(key) PROVE Typed'
  BY <1>6, LifecycleAssumption DEF LoadWallet, KeyTexts, disk
<1>7. CASE SavePrivateKey
  BY <1>7 DEF SavePrivateKey, go
<1>8. CASE OpenScopedDbAndEncrypt
  BY <1>8, ScopeType
<1>9. CASE Converse
  BY <1>9, WriteType DEF Converse, go
<1>10. CASE StartGateway
  BY <1>10 DEF StartGateway, disk
<1>11. CASE StopGateway
  BY <1>11 DEF StopGateway, disk
<1>12. CASE ServeApi
  BY <1>12, WriteType DEF ServeApi, go
<1>13. CASE EraseWallet
  BY <1>13 DEF EraseWallet, go
<1>14. CASE HandleWalletErased
  BY <1>14 DEF HandleWalletErased, SafeShutdown, disk, go
<1>15. CASE FullFactoryReset
  BY <1>15 DEF FullFactoryReset, go
<1>16. CASE ResetShutdown
  BY <1>16 DEF ResetShutdown, SafeShutdown, disk, go
<1>17. CASE WipeFactoryLocalFiles
  BY <1>17, LifecycleAssumption DEF WipeFactoryLocalFiles
<1>18. ASSUME NEW u \in Rpcs, ChangeRpc(u) PROVE Typed'
  BY <1>18 DEF ChangeRpc, go
<1>19. CASE RestartSdkAfterRpcChange
  BY <1>19 DEF RestartSdkAfterRpcChange, SafeShutdown, disk, go
<1>20. CASE Relaunch
  BY <1>20 DEF Relaunch, disk
<1>21. CASE UNCHANGED lifecycleVars
  BY <1>21 DEF lifecycleVars, disk, go
<1> QED
  BY <1>1, <1>2, <1>3, <1>4, <1>5, <1>6, <1>7, <1>8, <1>9, <1>10, <1>11, <1>12, <1>13, <1>14,
     <1>15, <1>16, <1>17, <1>18, <1>19, <1>20, <1>21 DEF Next

(* The life cycle never leaves its types, whatever fails.                  *)
THEOREM LifecycleTypeCorrect == Spec => []TypeOK
<1>1. Typed => TypeOK
  BY DEF Typed
<1> QED
  BY <1>1, TypeInit, TypeStep, PTL DEF Spec
-----------------------------------------------------------------------------
(* Nothing is stored in a file that is not there, so a rename to a file    *)
(* that is not there replaces nothing.                                     *)
FilesPresent ==
    /\ \A x \in stored : x.db \in files
    /\ openDb \in DbFiles => openDb \in files

(* What HistorySurvives asks of one step.                                  *)
KeptOrRenamed ==
    \A x \in stored :
       \/ x \in stored'
       \/ /\ x.db = Legacy
          /\ \E w \in Wallets \ files : [x EXCEPT !.db = w] \in stored'

LEMMA FilesInit == Init => FilesPresent
BY LifecycleAssumption DEF Init, FilesPresent, Fresh, DbFiles

LEMMA OpenKeepsHistory ==
  ASSUME Typed, FilesPresent, NEW w \in Wallets, NEW key \in KeyTexts,
         OpenWalletDatabase(w, key) \/ OpenFails(w)
  PROVE  FilesPresent' /\ KeptOrRenamed
<1>1. MigrateLegacy(w)
  BY DEF OpenWalletDatabase, OpenFails
<1>2. openDb' \in {w, None} /\ w \in files'
  BY <1>1 DEF OpenWalletDatabase, OpenFails, ReplaceDb, Scoped, MigrateLegacy
<1>3. None \notin DbFiles
  BY LifecycleAssumption DEF DbFiles
<1>4. CASE Migrates(w)
  <2>1. \A x \in stored : x.db # w
    BY <1>4 DEF FilesPresent, Migrates
  <2>2. stored' = {IF x.db = Legacy THEN [x EXCEPT !.db = w] ELSE x : x \in stored}
    BY <1>1, <1>4, <2>1 DEF MigrateLegacy
  <2>3. \A x \in stored : [x EXCEPT !.db = w].db = w
    BY DEF Typed, TypeOK, Conversation
  <2>4. \A y \in stored' : y.db \in files'
    BY <1>1, <1>4, <2>2, <2>3 DEF MigrateLegacy, FilesPresent
  <2>5. KeptOrRenamed
    BY <1>4, <2>2 DEF KeptOrRenamed, Migrates
  <2> QED
    BY <1>2, <1>3, <2>4, <2>5 DEF FilesPresent
<1>5. CASE ~Migrates(w)
  BY <1>1, <1>2, <1>3, <1>5 DEF MigrateLegacy, FilesPresent, KeptOrRenamed
<1> QED
  BY <1>4, <1>5

LEMMA HistoryStep ==
  ASSUME Typed, FilesPresent, [Next]_lifecycleVars
  PROVE  /\ FilesPresent'
         /\ pc # "wipe" => KeptOrRenamed
<1>1. ASSUME UNCHANGED <<files, stored, openDb>> PROVE FilesPresent' /\ KeptOrRenamed
  BY <1>1 DEF FilesPresent, KeptOrRenamed
<1>2. CASE InitSdk
  BY <1>1, <1>2 DEF InitSdk, FilesPresent, KeptOrRenamed, go
<1>3. CASE RestoreWallet
  <2>1. vault # None => vault \in KeyTexts /\ vault.wallet \in Wallets
    BY DEF Typed, TypeOK, KeyTexts
  <2> QED
    BY <1>1, <1>3, <2>1, OpenKeepsHistory DEF RestoreWallet, go
<1>4. CASE OpenScopedDbAndEncrypt
  <2>1. sdkWallet \in Wallets /\ secret \in KeyTexts
    BY <1>4 DEF Typed, TypeOK, OpenScopedDbAndEncrypt
  <2> QED
    BY <1>1, <1>4, <2>1, OpenKeepsHistory DEF OpenScopedDbAndEncrypt
<1>5. CASE Converse \/ ServeApi
  BY <1>5 DEF Converse, ServeApi, Write, FilesPresent, KeptOrRenamed, go
<1>6. CASE WipeFactoryLocalFiles
  BY <1>6, LifecycleAssumption DEF WipeFactoryLocalFiles, FilesPresent, DbFiles
<1>7. CASE Relaunch
  BY <1>7, LifecycleAssumption DEF Relaunch, FilesPresent, KeptOrRenamed, DbFiles, disk
<1>8. CASE \/ ReconcileFreshInstall \/ CheckNetwork \/ RetryOffline
           \/ \E key \in KeyTexts : LoadWallet(key)
           \/ SavePrivateKey \/ StartGateway \/ StopGateway
           \/ EraseWallet \/ HandleWalletErased \/ FullFactoryReset \/ ResetShutdown
           \/ \E u \in Rpcs : ChangeRpc(u)
           \/ RestartSdkAfterRpcChange \/ UNCHANGED lifecycleVars
  <2>1. UNCHANGED <<files, stored, openDb>>
    BY <1>8 DEF ReconcileFreshInstall, CheckNetwork, RetryOffline, LoadWallet, SavePrivateKey,
                StartGateway, StopGateway, EraseWallet, HandleWalletErased, FullFactoryReset,
                ResetShutdown, ChangeRpc, RestartSdkAfterRpcChange, SafeShutdown,
                lifecycleVars, disk, go
  <2> QED
    BY <1>1, <2>1
<1> QED
  BY <1>2, <1>3, <1>4, <1>5, <1>6, <1>7, <1>8 DEF Next

(* Through every start, import, erase, failure and restart a conversation  *)
(* stays as and where it is, or is renamed with nodeneo.db to a file that  *)
(* was not there, up to a factory reset.                                   *)
THEOREM History == Spec => HistorySurvives
<1>1. Init => Typed /\ FilesPresent
  BY TypeInit, FilesInit
<1>2. Typed /\ FilesPresent /\ [Next]_lifecycleVars => (Typed /\ FilesPresent)'
  BY TypeStep, HistoryStep
<1>3. Typed /\ FilesPresent /\ [Next]_lifecycleVars
        => [pc # "wipe" => KeptOrRenamed]_lifecycleVars
  BY HistoryStep
<1>4. HistorySurvives <=> [][pc # "wipe" => KeptOrRenamed]_lifecycleVars
  BY DEF HistorySurvives, KeptOrRenamed
<1> QED
  BY <1>1, <1>2, <1>3, <1>4, PTL DEF Spec
-----------------------------------------------------------------------------
(* A device on which the network and the SDK's start are all that fails.   *)
Benign == Faults \subseteq {"offline", "initfail"}

(* The wallet in use, across the restarts of the SDK that keep it.         *)
InUse ==
    hasWallet /\ pc \notin {"erased", "reset", "wipe"} =>
        /\ client # None /\ sentinel
        /\ vault # None /\ dbKey = vault
        /\ sdkWallet = vault.wallet /\ openDb = vault.wallet

Screens ==
    /\ pc \in {"home", "erased"} => hasWallet
    /\ pc \in {"onboarding", "save", "scope"} => ~hasWallet
    /\ pc \in {"save", "scope"} => sdkWallet = secret.wallet
    /\ pc = "scope" => vault = secret
    /\ pc # "start" => sentinel
    /\ pc \in {"restore", "onboarding", "save", "scope"} => client # None
    /\ gw = "off"

(* What the single database of an older release holds waits for the saved  *)
(* wallet's first start: no other wallet can be imported before.           *)
Unmigrated ==
    (\E x \in stored : x.db = Legacy) =>
        /\ sentinel /\ ~hasWallet
        /\ files = {Legacy} /\ vault # None
        /\ pc \in {"start", "network", "init", "restore", "offline", "error", "rpcChanged"}

OwnKeys(w) == [wallet : {w}, form : Forms]

OwnRows ==
    \A x \in stored : /\ x.key \in OwnKeys(x.owner)
                      /\ x.db = x.owner \/ (x.db = Legacy /\ x.owner = vault.wallet)

Separate == InUse /\ Screens /\ Unmigrated /\ OwnRows

LEMMA SeparateInit == Init => Separate
<1> SUFFICES ASSUME Init PROVE Separate
  OBVIOUS
<1>1. vault # None => vault \in OwnKeys(vault.wallet)
  BY DEF Init, KeyTexts, OwnKeys
<1> QED
  BY <1>1, LifecycleAssumption DEF Init, Fresh, Separate, InUse, Screens, Unmigrated, OwnRows

(* Opening the file of the wallet that is saved takes over what the old    *)
(* database holds, which is that wallet's.                                 *)
LEMMA OpenSeparates ==
  ASSUME Typed, OwnRows, Unmigrated, NEW w \in Wallets, NEW key,
         OpenWalletDatabase(w, key), w = vault.wallet
  PROVE  /\ \A x \in stored' : x.key \in OwnKeys(x.owner) /\ x.db = x.owner
         /\ openDb' = w /\ dbKey' = key
         /\ gw = "off" => gw' = "off"
<1>1. openDb' = w /\ dbKey' = key /\ (gw = "off" => gw' = "off") /\ MigrateLegacy(w)
  BY DEF OpenWalletDatabase, ReplaceDb, Scoped
<1>2. w # Legacy
  BY LifecycleAssumption
<1>3. CASE Migrates(w)
  <2>1. \A x \in stored : [x EXCEPT !.db = w].db = w /\ [x EXCEPT !.db = w].owner = x.owner
                          /\ [x EXCEPT !.db = w].key = x.key
    BY DEF Typed, TypeOK, Conversation
  <2>2. \A y \in stored' : \E x \in stored :
            y = IF x.db = Legacy THEN [x EXCEPT !.db = w] ELSE x
    BY <1>1, <1>3 DEF MigrateLegacy
  <2>3. \A y \in stored' : y.key \in OwnKeys(y.owner) /\ y.db = y.owner
    <3> TAKE y \in stored'
    <3>1. PICK x \in stored : y = IF x.db = Legacy THEN [x EXCEPT !.db = w] ELSE x
      BY <2>2
    <3>2. CASE x.db = Legacy
      <4>1. y.db = w /\ y.owner = x.owner /\ y.key = x.key
        BY <2>1, <3>1, <3>2
      <4>2. x.key \in OwnKeys(x.owner) /\ (x.db = x.owner \/ x.owner = vault.wallet)
        BY DEF OwnRows
      <4>3. x.owner # Legacy
        BY LifecycleAssumption DEF Typed, TypeOK, Conversation
      <4> QED
        BY <3>2, <4>1, <4>2, <4>3
    <3>3. CASE x.db # Legacy
      BY <3>1, <3>3 DEF OwnRows
    <3> QED
      BY <3>2, <3>3
  <2> QED
    BY <1>1, <2>3
<1>4. CASE ~Migrates(w)
  <2>1. ~\E x \in stored : x.db = Legacy
    BY <1>2, <1>4 DEF Unmigrated, Migrates
  <2> QED
    BY <1>1, <1>4, <2>1 DEF MigrateLegacy, OwnRows
<1> QED
  BY <1>3, <1>4

LEMMA SeparateStep ==
  ASSUME Benign, Typed, FilesPresent, Separate, [Next]_lifecycleVars
  PROVE  Separate'
<1>0. /\ "importfail" \notin Faults /\ "dbfail" \notin Faults /\ "summaryfail" \notin Faults
      /\ "keychain" \notin Faults /\ "sentinel" \notin Faults /\ "gateway" \notin Faults
  BY DEF Benign
<1>1. \A x \in stored : x.owner \in Wallets /\ x.owner # None /\ x.owner # Legacy
  BY LifecycleAssumption DEF Typed, TypeOK, Conversation
<1>own. \A x \in stored' : x.owner # Legacy
  <2>1. Typed'
    BY TypeStep
  <2> QED
    BY <2>1, LifecycleAssumption DEF Typed, TypeOK, Conversation
<1> USE DEF Separate, InUse, Screens, Unmigrated, OwnRows
<1>2. CASE ReconcileFreshInstall
  BY <1>0, <1>2 DEF ReconcileFreshInstall, FirstLaunch, go
<1>3. CASE CheckNetwork
  BY <1>3 DEF CheckNetwork, disk, go
<1>4. CASE RetryOffline
  BY <1>4 DEF RetryOffline, disk, go
<1>5. CASE InitSdk
  <2>1. rpc # None
    BY LifecycleAssumption DEF Typed, TypeOK
  <2> QED
    BY <1>5, <2>1 DEF InitSdk, go
<1>6. CASE RestoreWallet
  <2>1. CASE vault = None /\ pc' = Shown /\ UNCHANGED <<vault, files, stored, go, hasWallet>>
    <3>1. ~hasWallet
      BY <1>6, <2>1 DEF RestoreWallet
    <3>2. \A x \in stored : x.db # Legacy
      BY <1>1, <2>1
    <3> QED
      BY <1>6, <2>1, <3>1, <3>2 DEF RestoreWallet, Shown, go
  <2>2. CASE /\ vault # None /\ sdkWallet' = vault.wallet
             /\ OpenWalletDatabase(vault.wallet, vault)
             /\ pc' = "home" /\ hasWallet' = TRUE /\ UNCHANGED <<vault, client>>
    <3>1. vault.wallet \in Wallets
      BY <2>2 DEF Typed, TypeOK, KeyTexts
    <3>2. /\ \A x \in stored' : x.key \in OwnKeys(x.owner) /\ x.db = x.owner
          /\ openDb' = vault.wallet /\ dbKey' = vault /\ gw' = "off"
      BY <2>2, <3>1, OpenSeparates
    <3>3. client # None
      BY <1>6 DEF RestoreWallet
    <3>4. \A x \in stored' : x.db # Legacy
      BY <1>own, <3>2
    <3> QED
      BY <1>6, <2>2, <3>1, <3>2, <3>3, <3>4 DEF RestoreWallet
  <2> QED
    BY <1>0, <1>6, <2>1, <2>2 DEF RestoreWallet, OpenFails
<1>7. ASSUME NEW key \in KeyTexts, LoadWallet(key) PROVE Separate'
  BY <1>0, <1>7 DEF LoadWallet, disk
<1>8. CASE SavePrivateKey
  <2>1. \A x \in stored : x.db # Legacy
    BY <1>8 DEF SavePrivateKey
  <2> QED
    BY <1>0, <1>8, <2>1 DEF SavePrivateKey, go
<1>9. CASE OpenScopedDbAndEncrypt
  <2>1. /\ OpenWalletDatabase(sdkWallet, vault) /\ sdkWallet \in Wallets
        /\ vault # None /\ sdkWallet = vault.wallet
    BY <1>0, <1>9 DEF OpenScopedDbAndEncrypt, OpenFails, Typed, TypeOK
  <2>3. /\ \A x \in stored' : x.key \in OwnKeys(x.owner) /\ x.db = x.owner
        /\ openDb' = vault.wallet /\ dbKey' = vault /\ gw' = "off"
    BY <2>1, OpenSeparates
  <2>4. /\ \A x \in stored' : x.db # Legacy
        /\ pc' = "home" /\ hasWallet' = TRUE /\ vault' = vault /\ sentinel' = sentinel
        /\ client' = client /\ sdkWallet' = sdkWallet /\ sentinel /\ client # None
    BY <1>9, <1>own, <2>3 DEF OpenScopedDbAndEncrypt
  <2> QED
    BY <2>1, <2>3, <2>4
<1>10. CASE Converse
  <2>1. /\ pc = "home" /\ vault # None /\ dbKey = vault
        /\ sdkWallet = vault.wallet /\ openDb = vault.wallet
    BY <1>10 DEF Converse
  <2>2. vault.wallet \in Wallets /\ vault.wallet # Legacy /\ vault \in OwnKeys(vault.wallet)
    BY <2>1, LifecycleAssumption DEF Typed, TypeOK, KeyTexts, OwnKeys
  <2>3. stored' = stored \cup {[db |-> vault.wallet, owner |-> vault.wallet, key |-> vault]}
    BY <1>10, <2>1, <2>2 DEF Converse, Write, DbFiles
  <2>4. \A x \in stored : x.db # Legacy
    BY <2>1
  <2> QED
    BY <1>10, <2>1, <2>2, <2>3, <2>4 DEF Converse, go
<1>11. CASE StartGateway \/ StopGateway \/ ServeApi
  BY <1>0, <1>11 DEF StartGateway, StopGateway, ServeApi
<1>12. CASE EraseWallet \/ FullFactoryReset
  <2>1. \A x \in stored : x.db # Legacy
    BY <1>12 DEF EraseWallet, FullFactoryReset
  <2> QED
    BY <1>12, <2>1 DEF EraseWallet, FullFactoryReset, go
<1>13. CASE HandleWalletErased
  BY <1>13 DEF HandleWalletErased, SafeShutdown, disk, go
<1>14. CASE ResetShutdown
  BY <1>14 DEF ResetShutdown, SafeShutdown, disk, go
<1>15. CASE WipeFactoryLocalFiles
  BY <1>15 DEF WipeFactoryLocalFiles
<1>16. ASSUME NEW u \in Rpcs, ChangeRpc(u) PROVE Separate'
  BY <1>16 DEF ChangeRpc, go
<1>17. CASE RestartSdkAfterRpcChange
  BY <1>17 DEF RestartSdkAfterRpcChange, SafeShutdown, disk, go
<1>18. CASE Relaunch
  BY <1>18 DEF Relaunch, disk
<1>19. CASE UNCHANGED lifecycleVars
  BY <1>19 DEF lifecycleVars, disk, go
<1> QED
  BY <1>2, <1>3, <1>4, <1>5, <1>6, <1>7, <1>8, <1>9, <1>10, <1>11, <1>12, <1>13, <1>14,
     <1>15, <1>16, <1>17, <1>18, <1>19 DEF Next

LEMMA SeparateAlways == Benign => (Spec => [](Typed /\ FilesPresent /\ Separate))
<1> SUFFICES ASSUME Benign PROVE Spec => [](Typed /\ FilesPresent /\ Separate)
  OBVIOUS
<1>1. Init => Typed /\ FilesPresent /\ Separate
  BY TypeInit, FilesInit, SeparateInit
<1>2. Typed /\ FilesPresent /\ Separate /\ [Next]_lifecycleVars
        => (Typed /\ FilesPresent /\ Separate)'
  BY TypeStep, HistoryStep, SeparateStep
<1> QED
  BY <1>1, <1>2, PTL DEF Spec

(* Where databases, keychain and chain reads do not fail and no gateway    *)
(* runs, every conversation is in its own wallet's file under its key.     *)
THEOREM OwnDatabases == Benign => (Spec => []ConversationsInOwnDb)
<1>1. Typed /\ FilesPresent /\ Separate => ConversationsInOwnDb
  BY DEF Separate, OwnRows, OwnKeys, ConversationsInOwnDb
<1> QED
  BY <1>1, SeparateAlways, PTL

(* ... all those of the wallet on the home screen are in the open database *)
(* again, whatever was erased, imported and restarted in between.          *)
THEOREM HistoryIsFound == Benign => (Spec => []HistoryFound)
<1>1. Typed /\ FilesPresent /\ Separate => HistoryFound
  <2> SUFFICES ASSUME Separate, pc = "home", NEW x \in stored, x.owner = sdkWallet
               PROVE  x.db = openDb
    BY DEF HistoryFound
  <2>1. hasWallet /\ sdkWallet = openDb
    BY DEF Separate, Screens, InUse
  <2>2. x.db # Legacy
    BY <2>1 DEF Separate, Unmigrated
  <2> QED
    BY <2>1, <2>2 DEF Separate, OwnRows
<1> QED
  BY <1>1, SeparateAlways, PTL

(* ... and the home screen works with exactly one wallet, the saved one.   *)
THEOREM HomeHasOneWallet == Benign => (Spec => []OneWallet)
<1>1. Typed /\ FilesPresent /\ Separate => OneWallet
  BY DEF Separate, InUse, Screens, OneWallet
<1> QED
  BY <1>1, SeparateAlways, PTL
-----------------------------------------------------------------------------
(* Whoever can store a conversation does so in a database that has a key:  *)
(* the app once it has a wallet, the gateway as long as its store is the   *)
(* open one.                                                               *)
Keyed ==
    /\ hasWallet \/ gw = "live" => (openDb \in DbFiles => dbKey # None)
    /\ pc = "home" => hasWallet
    /\ pc \in {"restore", "onboarding", "save", "scope", "home"} => client # None
    /\ client = None => ~hasWallet /\ gw = "off"
    /\ EncryptedAtRest

LEMMA KeyedInit == Init => Keyed
BY LifecycleAssumption DEF Init, Fresh, Keyed, EncryptedAtRest

(* The rename takes rows over with the key they have.                      *)
LEMMA MigrationKeepsKeys ==
  ASSUME Typed, EncryptedAtRest, NEW w \in Wallets, MigrateLegacy(w)
  PROVE  EncryptedAtRest'
<1>1. \A x \in stored : [x EXCEPT !.db = w].key = x.key
  BY DEF Typed, TypeOK, Conversation
<1>2. CASE Migrates(w)
  <2>1. \A y \in stored' : \E x \in stored :
            y = IF x.db = Legacy THEN [x EXCEPT !.db = w] ELSE x
    BY <1>2 DEF MigrateLegacy
  <2> QED
    BY <1>1, <2>1 DEF EncryptedAtRest
<1>3. CASE ~Migrates(w)
  BY <1>3 DEF MigrateLegacy, EncryptedAtRest
<1> QED
  BY <1>2, <1>3

LEMMA KeyedStep ==
  ASSUME Typed, Keyed, [Next]_lifecycleVars
  PROVE  Keyed'
<1>0. None \notin KeyTexts /\ None \notin DbFiles
  BY LifecycleAssumption DEF DbFiles
<1>1. ASSUME UNCHANGED <<stored, openDb, dbKey>> PROVE EncryptedAtRest'
  BY <1>1 DEF Keyed, EncryptedAtRest
<1>2. CASE InitSdk
  <2>1. rpc # None
    BY LifecycleAssumption DEF Typed, TypeOK
  <2> QED
    BY <1>2, <2>1 DEF InitSdk, Keyed, EncryptedAtRest, go
<1>3. CASE RestoreWallet
  <2>1. CASE pc' = Shown /\ UNCHANGED <<stored, go, hasWallet>>
    BY <1>3, <2>1 DEF RestoreWallet, Shown, Keyed, EncryptedAtRest, go
  <2>2. CASE /\ vault # None
             /\ OpenWalletDatabase(vault.wallet, vault) \/ OpenFails(vault.wallet)
             /\ pc' = "home" /\ hasWallet' = TRUE /\ UNCHANGED client
    <3>1. vault \in KeyTexts /\ vault.wallet \in Wallets
      BY <2>2 DEF Typed, TypeOK, KeyTexts
    <3>2. MigrateLegacy(vault.wallet)
      BY <2>2 DEF OpenWalletDatabase, OpenFails
    <3>3. EncryptedAtRest'
      BY <3>1, <3>2, MigrationKeepsKeys DEF Keyed
    <3>4. dbKey' = vault \/ openDb' = None
      BY <2>2 DEF OpenWalletDatabase, OpenFails, ReplaceDb
    <3> QED
      BY <1>0, <1>3, <2>2, <3>1, <3>3, <3>4 DEF RestoreWallet, Keyed, EncryptedAtRest
  <2> QED
    BY <1>3, <2>1, <2>2 DEF RestoreWallet
<1>4. CASE OpenScopedDbAndEncrypt
  <2>1. sdkWallet \in Wallets /\ secret # None /\ client' = client /\ client # None
        /\ pc' = "home" /\ hasWallet' = TRUE
    BY <1>0, <1>4 DEF OpenScopedDbAndEncrypt, Typed, TypeOK, Keyed
  <2>2. CASE OpenWalletDatabase(sdkWallet, secret) \/ OpenFails(sdkWallet)
    <3>1. MigrateLegacy(sdkWallet)
      BY <2>2 DEF OpenWalletDatabase, OpenFails
    <3>2. EncryptedAtRest'
      BY <2>1, <3>1, MigrationKeepsKeys DEF Keyed
    <3>3. dbKey' = secret \/ openDb' = None
      BY <2>2 DEF OpenWalletDatabase, OpenFails, ReplaceDb
    <3> QED
      BY <1>0, <2>1, <3>2, <3>3 DEF Keyed, EncryptedAtRest
  <2>3. CASE /\ dbKey' = IF openDb # None THEN secret ELSE None
             /\ UNCHANGED <<files, stored, openDb, gw>>
    BY <1>0, <2>1, <2>3 DEF Keyed, EncryptedAtRest
  <2> QED
    BY <1>4, <2>2, <2>3 DEF OpenScopedDbAndEncrypt
<1>5. CASE Converse
  BY <1>5 DEF Converse, Write, Keyed, EncryptedAtRest, go
<1>6. CASE ServeApi
  BY <1>6 DEF ServeApi, Write, Keyed, EncryptedAtRest, go
<1>7. CASE StartGateway
  BY <1>7 DEF StartGateway, Keyed, EncryptedAtRest, disk
<1>8. CASE WipeFactoryLocalFiles
  BY <1>8, LifecycleAssumption DEF WipeFactoryLocalFiles, Keyed, EncryptedAtRest, DbFiles
<1>9. CASE Relaunch
  BY <1>0, <1>9 DEF Relaunch, Keyed, EncryptedAtRest, disk
<1>10. CASE ReconcileFreshInstall \/ CheckNetwork \/ RetryOffline \/ SavePrivateKey \/ StopGateway
  BY <1>10 DEF ReconcileFreshInstall, CheckNetwork, RetryOffline, SavePrivateKey, StopGateway,
               Keyed, EncryptedAtRest, disk, go
<1>11. CASE EraseWallet \/ HandleWalletErased \/ FullFactoryReset \/ ResetShutdown
            \/ RestartSdkAfterRpcChange \/ UNCHANGED lifecycleVars
  BY <1>11 DEF EraseWallet, HandleWalletErased, FullFactoryReset, ResetShutdown,
               RestartSdkAfterRpcChange, SafeShutdown, lifecycleVars, Keyed, EncryptedAtRest,
               disk, go
<1>12. ASSUME NEW key \in KeyTexts, LoadWallet(key) PROVE Keyed'
  BY <1>12 DEF LoadWallet, Keyed, EncryptedAtRest, disk
<1>13. ASSUME NEW u \in Rpcs, ChangeRpc(u) PROVE Keyed'
  BY <1>13 DEF ChangeRpc, Keyed, EncryptedAtRest, go
<1> QED
  BY <1>2, <1>3, <1>4, <1>5, <1>6, <1>7, <1>8, <1>9, <1>10, <1>11, <1>12, <1>13 DEF Next

(* No conversation is stored without a key, whatever fails and in whatever *)
(* order wallets, restarts and API requests come: OpenWalletDatabase and   *)
(* SetEncryptionKey stand between every new database and its first row.    *)
THEOREM NothingStoredInClear == Spec => []EncryptedAtRest
<1>1. Init => Typed /\ Keyed
  BY TypeInit, KeyedInit
<1>2. Typed /\ Keyed /\ [Next]_lifecycleVars => (Typed /\ Keyed)'
  BY TypeStep, KeyedStep
<1>3. Typed /\ Keyed => EncryptedAtRest
  BY DEF Keyed
<1> QED
  BY <1>1, <1>2, <1>3, PTL DEF Spec
-----------------------------------------------------------------------------
(* The keychain is written only where it is empty, and a container without *)
(* the sentinel has no database.                                           *)
VaultFree ==
    /\ pc \in {"onboarding", "save"} => vault = None
    /\ pc = "scope" => vault = secret
    /\ pc # "start" => sentinel
    /\ ~sentinel => files = {}
    /\ pc \in {"home", "erased"} => hasWallet
    /\ hasWallet /\ pc = "restore" => vault # None

LEMMA VaultStep ==
  ASSUME Benign, Typed, Separate, VaultFree, [Next]_lifecycleVars
  PROVE  /\ VaultFree'
         /\ vault \notin {None, vault'} =>
               /\ vault' = None
               /\ pc' \in {"erased", "reset"} \/ (pc = "start" /\ files = {})
<1>0. /\ "importfail" \notin Faults /\ "dbfail" \notin Faults /\ "summaryfail" \notin Faults
      /\ "keychain" \notin Faults /\ "sentinel" \notin Faults /\ "gateway" \notin Faults
  BY DEF Benign
<1>sep. /\ hasWallet /\ pc \notin {"erased", "reset", "wipe"} => vault # None
        /\ pc \in {"onboarding", "save", "scope"} => ~hasWallet
  BY DEF Separate, InUse, Screens
<1> USE DEF VaultFree
<1>1. CASE ReconcileFreshInstall
  BY <1>0, <1>1, <1>sep DEF ReconcileFreshInstall, FirstLaunch, go
<1>2. CASE RestoreWallet
  BY <1>0, <1>2, <1>sep DEF RestoreWallet, OpenFails, Shown, go
<1>3. CASE InitSdk \/ SavePrivateKey \/ OpenScopedDbAndEncrypt \/ WipeFactoryLocalFiles
  BY <1>0, <1>3, <1>sep DEF InitSdk, SavePrivateKey, OpenScopedDbAndEncrypt, WipeFactoryLocalFiles, go
<1>4. CASE CheckNetwork \/ RetryOffline \/ Converse \/ StartGateway \/ StopGateway \/ ServeApi
           \/ (\E key \in KeyTexts : LoadWallet(key)) \/ (\E u \in Rpcs : ChangeRpc(u))
  BY <1>0, <1>4, <1>sep DEF CheckNetwork, RetryOffline, Converse, StartGateway, StopGateway, ServeApi,
                      LoadWallet, ChangeRpc, disk, go
<1>5. CASE EraseWallet \/ HandleWalletErased \/ FullFactoryReset \/ ResetShutdown
           \/ RestartSdkAfterRpcChange \/ Relaunch \/ UNCHANGED lifecycleVars
  BY <1>5, <1>sep DEF EraseWallet, HandleWalletErased, FullFactoryReset, ResetShutdown,
               RestartSdkAfterRpcChange, Relaunch, SafeShutdown, lifecycleVars, disk, go
<1> QED
  BY <1>1, <1>2, <1>3, <1>4, <1>5 DEF Next

(* Where only the network and the SDK's start fail, the private key leaves *)
(* the keychain through the user's erase or reset, or with the container,  *)
(* and is never replaced by another one.                                   *)
THEOREM VaultLeftAlone == Benign => (Spec => VaultKept)
<1> SUFFICES ASSUME Benign PROVE Spec => VaultKept
  OBVIOUS
<1> DEFINE Alone == vault \notin {None, vault'} =>
                       /\ vault' = None
                       /\ pc' \in {"erased", "reset"} \/ (pc = "start" /\ files = {})
<1>1. Init => VaultFree
  BY LifecycleAssumption DEF Init, VaultFree
<1>2. Typed /\ Separate /\ VaultFree /\ [Next]_lifecycleVars => VaultFree' /\ [Alone]_lifecycleVars
  BY VaultStep
<1> QED
  BY <1>1, <1>2, SeparateAlways, PTL DEF Spec, VaultKept
===============================================================================
