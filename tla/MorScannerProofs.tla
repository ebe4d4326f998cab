-------------------------- MODULE MorScannerProofs --------------------------
(***************************************************************************)
(* Proofs, for every number of endpoints, sessions and withdrawals, every  *)
(* batch size and every lag, that MorScanner is type correct, that a       *)
(* withdrawal is mined at most once, that a scan whose answers do not go   *)
(* back in time never overstates and that a scan that nothing disturbs is  *)
(* exact.                                                                  *)
(*                                                                         *)
(* WithdrawnOnce rests on one nonce per call: the transactions of a call   *)
(* all carry it, and once one of them is mined it is used up on the chain, *)
(* whatever an endpoint that lags still has in its pool.                   *)
(* ScanNeverOverstates rests on an order between any two blocks that can   *)
(* be seen (BlocksInv) and on a sum that does not grow along it: what the  *)
(* scan has found and what lies, in the block of its last answer, where it *)
(* has yet to look.  Money moves from the unread places to the read ones,  *)
(* unless a session is opened.                                             *)
(***************************************************************************)
EXTENDS MorScanner, FiniteSetTheorems, SequenceTheorems, TLAPS

Seen == {Genesis, chain, scan.last} \cup {view[e] : e \in Urls}

(* From block a to block b: sessions are added and closed, and unless one  *)
(* is added no MOR goes on hold that was not in a session.                 *)
Follows(a, b) ==
    /\ Len(a.sessions) <= Len(b.sessions)
    /\ OpenIn(b) \cap DOMAIN a.sessions \subseteq OpenIn(a)
    /\ Len(a.sessions) = Len(b.sessions) =>
          OnHold(b) + Cardinality(OpenIn(b)) <= OnHold(a) + Cardinality(OpenIn(a))

BlocksInv ==
    /\ \A b \in Seen : b.nonce <= chain.nonce
    /\ \A a, b \in Seen : a.nonce <= b.nonce => Follows(a, b)

IdSet == {scan.ids[i] : i \in DOMAIN scan.ids}

(* Session numbers of a batch, one after the other and above what remains. *)
BatchInv ==
    scan.pc = "sessions" =>
        /\ scan.ids # <<>>
        /\ \A i, j \in DOMAIN scan.ids : scan.ids[i] = scan.ids[j] => i = j
        /\ \A i \in DOMAIN scan.ids : scan.ids[i] > scan.remaining

PoolInv ==
    /\ \A e \in Urls : IsFiniteSet(pool[e])
    /\ \A e \in Urls : \A tx \in pool[e] :
          /\ tx.nonce = call[tx.call].nonce
          /\ call[tx.call].pc \in {"send", "ok", "error"}
    /\ \A c \in Withdrawals : call[c].pc = "send" => call[c].tried \in Urls

MinedInv ==
    \A c \in Withdrawals :
        /\ mined[c] \in {0, 1}
        /\ mined[c] = 1 => chain.nonce > call[c].nonce /\ call[c].pc \in {"send", "ok", "error"}
        /\ call[c].hash => call[c].pc = "ok" /\ (Taken(c) # {} \/ chain.nonce > call[c].nonce)

(* The sessions the scan has yet to read, and what it has yet to find in   *)
(* the block of its last answer.                                           *)
Unread ==
    IF scan.pc = "batch" THEN 1..scan.remaining
    ELSE IF scan.pc = "sessions" THEN 1..scan.remaining \cup IdSet
    ELSE IF scan.pc = "done" THEN {}
    ELSE DOMAIN scan.last.sessions

Held == IF scan.pc = "hold" THEN OnHold(scan.last) ELSE 0
Left == Cardinality(OpenIn(scan.last) \cap Unread)

Running == Scanning \/ scan.pc = "done"
Counted == scan.pc \in {"batch", "sessions", "done"}

ScanInv == Running /\ ~scan.back /\ ~scan.opened => scan.found + Held + Left <= scan.owned

(* The sessions that are still to come, by number.  A session that cannot  *)
(* be read, or a loop that breaks off, leaves the scan short of its total  *)
(* for good; a scan that is not short and under which nothing has moved    *)
(* has found what it started from, but for what it has yet to look at.     *)
Ahead ==
    IF scan.pc = "batch" THEN scan.remaining
    ELSE IF scan.pc = "sessions" THEN scan.remaining + Len(scan.ids)
    ELSE 0

Quiet == Running /\ ~scan.moved /\ ~scan.empty

ExactInv ==
    /\ scan.pc \in {"hold", "count"} => scan.scanned = 0
    /\ Counted => scan.scanned + Ahead <= scan.total
    /\ Counted /\ Quiet => scan.total = Len(scan.last.sessions)
    /\ Quiet /\ (Counted => scan.scanned + Ahead = scan.total)
          => scan.found + Held + Left = scan.owned

Inv == TypeOK /\ BlocksInv /\ BatchInv /\ PoolInv /\ MinedInv /\ ScanInv /\ ExactInv
-----------------------------------------------------------------------------
(* Blocks.                                                                 *)
LEMMA BlockFields ==
  ASSUME NEW b \in Blocks
  PROVE  /\ b.wallet \in Nat /\ b.locked \in Nat /\ b.available \in Nat /\ b.nonce \in Nat
         /\ b.sessions \in Seq(BOOLEAN) /\ Len(b.sessions) \in Nat
         /\ DOMAIN b.sessions = 1..Len(b.sessions) /\ OnHold(b) \in Nat
  BY DEF Blocks, OnHold

LEMMA GenesisBlock == Genesis \in Blocks
  BY ScannerAssumption DEF Genesis, Blocks

LEMMA OpenFinite ==
  ASSUME NEW b \in Blocks
  PROVE  /\ OpenIn(b) \subseteq 1..Len(b.sessions) /\ IsFiniteSet(OpenIn(b))
         /\ Cardinality(OpenIn(b)) \in Nat /\ Owned(b) \in Nat
         /\ \A U : /\ IsFiniteSet(OpenIn(b) \cap U)
                   /\ Cardinality(OpenIn(b) \cap U) \in Nat
                   /\ Cardinality(OpenIn(b) \cap U) <= Cardinality(OpenIn(b))
<1>1. OpenIn(b) \subseteq 1..Len(b.sessions)
  BY BlockFields DEF OpenIn
<1>2. IsFiniteSet(1..Len(b.sessions))
  BY BlockFields, FS_Interval
<1>3. IsFiniteSet(OpenIn(b))
  BY <1>1, <1>2, FS_Subset
<1>4. ASSUME NEW U
      PROVE  /\ IsFiniteSet(OpenIn(b) \cap U)
             /\ Cardinality(OpenIn(b) \cap U) <= Cardinality(OpenIn(b))
  BY <1>3, FS_Subset
<1>5. Cardinality(OpenIn(b)) \in Nat
  BY <1>3, FS_CardinalityType
<1>6. Owned(b) \in Nat
  BY <1>5, BlockFields DEF Owned
<1> QED
  BY <1>1, <1>3, <1>4, <1>5, <1>6, FS_CardinalityType

(* Fewer sessions are open or unread: their number does not grow.          *)
LEMMA Fewer ==
  ASSUME NEW b \in Blocks, NEW U, NEW V, V \subseteq OpenIn(b) \cap U
  PROVE  Cardinality(V) \in Nat /\ Cardinality(V) <= Cardinality(OpenIn(b) \cap U)
<1>1. IsFiniteSet(OpenIn(b) \cap U)
  BY OpenFinite
<1> QED
  BY <1>1, FS_Subset, FS_CardinalityType

LEMMA FollowsItself == ASSUME NEW b \in Blocks PROVE Follows(b, b)
  BY BlockFields, OpenFinite DEF Follows

LEMMA FollowsOn ==
  ASSUME NEW a \in Blocks, NEW b \in Blocks, NEW c \in Blocks, Follows(a, b), Follows(b, c)
  PROVE  Follows(a, c)
<1>1. Len(a.sessions) <= Len(b.sessions) /\ Len(b.sessions) <= Len(c.sessions)
  BY DEF Follows
<1>2. DOMAIN a.sessions \subseteq DOMAIN b.sessions
  BY <1>1, BlockFields
<1>3. OpenIn(c) \cap DOMAIN a.sessions \subseteq OpenIn(a)
  BY <1>2 DEF Follows
<1>4. ASSUME Len(a.sessions) = Len(c.sessions)
      PROVE  OnHold(c) + Cardinality(OpenIn(c)) <= OnHold(a) + Cardinality(OpenIn(a))
  <2>1. Len(a.sessions) = Len(b.sessions) /\ Len(b.sessions) = Len(c.sessions)
    BY <1>1, <1>4, BlockFields
  <2>2. /\ OnHold(c) + Cardinality(OpenIn(c)) <= OnHold(b) + Cardinality(OpenIn(b))
        /\ OnHold(b) + Cardinality(OpenIn(b)) <= OnHold(a) + Cardinality(OpenIn(a))
    BY <2>1 DEF Follows
  <2> QED
    BY <2>2, BlockFields, OpenFinite
<1>5. Len(a.sessions) <= Len(c.sessions)
  BY <1>1, BlockFields
<1> QED
  BY <1>3, <1>4, <1>5 DEF Follows
-----------------------------------------------------------------------------
LEMMA ScanFields ==
  ASSUME Inv
  PROVE  /\ scan \in Scans /\ scan.found \in Nat /\ scan.total \in Nat
         /\ scan.remaining \in Nat /\ scan.ids \in Seq(Nat) /\ scan.scanned \in Nat
         /\ scan.owned \in Nat /\ scan.last \in Blocks
         /\ scan.back \in BOOLEAN /\ scan.opened \in BOOLEAN /\ scan.moved \in BOOLEAN
         /\ scan.empty \in BOOLEAN /\ Left \in Nat /\ Held \in Nat
<1>1. scan \in Scans /\ scan.last \in Blocks
  BY DEF Inv, TypeOK, Scans
<1>2. Left \in Nat /\ Held \in Nat
  BY <1>1, OpenFinite, BlockFields DEF Left, Held
<1> QED
  BY <1>1, <1>2 DEF Scans

LEMMA CallFields ==
  ASSUME Inv
  PROVE  /\ chain \in Blocks /\ chain.nonce \in Nat /\ view \in [Urls -> Blocks]
         /\ call \in [Withdrawals -> Calls]
         /\ pool \in [Urls -> SUBSET Tx] /\ mined \in [Withdrawals -> Nat]
         /\ \A c \in Withdrawals : /\ call[c] \in Calls /\ call[c].nonce \in Nat
                                   /\ call[c].tried \in Nat /\ call[c].hash \in BOOLEAN
         /\ \A e \in Urls : \A tx \in pool[e] : tx.call \in Withdrawals /\ tx.nonce \in Nat
  BY DEF Inv, TypeOK, Calls, Tx, Blocks

LEMMA SeenBlocks == ASSUME Inv PROVE \A b \in Seen : b \in Blocks
  BY GenesisBlock, ScanFields, CallFields DEF Seen

LEMMA NoScanType == NoScan \in Scans
  BY GenesisBlock DEF NoScan, Scans

LEMMA InitInv == Init => Inv
<1> SUFFICES ASSUME Init PROVE Inv
  OBVIOUS
<1>1. TypeOK
  BY ScannerAssumption, NoScanType, GenesisBlock DEF Init, TypeOK, Calls, NoCall
<1>2. Seen = {Genesis}
  BY DEF Init, Seen, NoScan
<1>3. BlocksInv
  BY <1>2, GenesisBlock, BlockFields, FollowsItself DEF BlocksInv, Init
<1>4. \A e \in Urls : pool[e] = {}
  BY DEF Init
<1>5. PoolInv
  BY <1>4, FS_EmptySet DEF Init, PoolInv, NoCall
<1>6. MinedInv
  BY DEF Init, MinedInv, NoCall
<1>7. BatchInv /\ ScanInv /\ ExactInv
  BY DEF Init, NoScan, BatchInv, ScanInv, ExactInv, Counted, Quiet, Running, Scanning
<1> QED
  BY <1>1, <1>3, <1>5, <1>6, <1>7 DEF Inv
-----------------------------------------------------------------------------
(* What a step leaves alone keeps its part of the invariant.               *)
LEMMA SameCalls == ASSUME Inv, UNCHANGED <<chain, txVars>> PROVE PoolInv' /\ MinedInv'
  BY DEF Inv, PoolInv, MinedInv, Taken, txVars

LEMMA SameScan == ASSUME Inv, UNCHANGED scan PROVE BatchInv' /\ ScanInv' /\ ExactInv'
<1>1. /\ Unread' = Unread /\ Held' = Held /\ Left' = Left /\ Ahead' = Ahead
      /\ Running' = Running /\ Counted' = Counted /\ Quiet' = Quiet
  BY DEF Unread, IdSet, Held, Left, Ahead, Running, Scanning, Counted, Quiet
<1> QED
  BY <1>1 DEF Inv, BatchInv, ScanInv, ExactInv

LEMMA SeenAgain ==
  ASSUME Inv, UNCHANGED chain, Seen' \subseteq Seen
  PROVE  BlocksInv'
  BY DEF Inv, BlocksInv, Follows

(* A block is added to the chain.                                          *)
LEMMA SeenNext ==
  ASSUME Inv, NEW b \in Blocks, Mined(b), Follows(chain, b), chain.nonce <= b.nonce,
         b.nonce = chain.nonce => Follows(b, chain)
  PROVE  BlocksInv'
<1>1. Seen' \subseteq Seen \cup {b} /\ chain' = b /\ chain \in Seen /\ chain \in Blocks
  BY CallFields DEF Mined, Seen
<1>2. ASSUME NEW x \in Seen PROVE x \in Blocks /\ x.nonce <= chain.nonce /\ x.nonce \in Nat
  BY <1>2, SeenBlocks, BlockFields DEF Inv, BlocksInv
<1>3. \A x \in Seen' : x.nonce <= chain'.nonce
  BY <1>1, <1>2, BlockFields
<1>4. ASSUME NEW x \in Seen' , NEW y \in Seen', x.nonce <= y.nonce PROVE Follows(x, y)
  <2>1. CASE x \in Seen /\ y \in Seen
    BY <1>4, <2>1 DEF Inv, BlocksInv
  <2>2. CASE x \in Seen /\ y = b
    <3>1. Follows(x, chain)
      BY <1>1, <1>2, <2>2 DEF Inv, BlocksInv
    <3> QED
      BY <1>1, <1>2, <2>2, <3>1, FollowsOn
  <2>3. CASE x = b /\ y \in Seen
    <3>1. b.nonce = chain.nonce /\ chain.nonce <= y.nonce
      BY <1>1, <1>2, <1>4, <2>3, BlockFields
    <3>2. Follows(chain, y) /\ Follows(b, chain)
      BY <1>1, <2>3, <3>1 DEF Inv, BlocksInv
    <3> QED
      BY <1>1, <1>2, <2>3, <3>2, FollowsOn
  <2>4. CASE x = b /\ y = b
    BY <2>4, FollowsItself
  <2> QED
    BY <1>1, <2>1, <2>2, <2>3, <2>4
<1> QED
  BY <1>3, <1>4 DEF BlocksInv, Follows

(* Nothing of the withdrawals is used up but the nonce.                    *)
LEMMA NonceUsed ==
  ASSUME Inv, NEW b \in Blocks, Mined(b), chain.nonce <= b.nonce, UNCHANGED mined
  PROVE  PoolInv' /\ MinedInv' /\ TypeOK'
<1>1. chain' = b /\ UNCHANGED <<view, scan, call, pool>> /\ b.nonce \in Nat
  BY BlockFields DEF Mined
<1>2. TypeOK'
  BY <1>1 DEF Inv, TypeOK
<1>3. \A n \in Nat : chain.nonce > n => b.nonce > n
  BY <1>1, CallFields
<1>4. MinedInv'
  BY <1>1, <1>3, CallFields DEF Inv, MinedInv, Taken
<1> QED
  BY <1>1, <1>2, <1>4 DEF Inv, PoolInv
-----------------------------------------------------------------------------
(* The chain.                                                              *)
LEMMA OpenSessionInv == ASSUME Inv, OpenSession PROVE Inv'
<1> DEFINE b == [chain EXCEPT !.wallet = @ - 1, !.sessions = Append(@, TRUE), !.nonce = @ + 1]
<1>1. chain \in Blocks /\ chain.wallet > 0 /\ Mined(b) /\ UNCHANGED mined
  BY CallFields DEF OpenSession
<1>3. chain.sessions \in Seq(BOOLEAN) /\ Len(chain.sessions) \in Nat /\ chain.nonce \in Nat
  BY <1>1, BlockFields
<1>2. b \in Blocks /\ b.nonce = chain.nonce + 1 /\ b.sessions = Append(chain.sessions, TRUE)
  <2>1. /\ chain.wallet - 1 \in Nat /\ chain.nonce + 1 \in Nat
        /\ Append(chain.sessions, TRUE) \in Seq(BOOLEAN)
    BY <1>1, <1>3, BlockFields
  <2> QED
    BY <1>1, <2>1 DEF Blocks
<1> HIDE DEF b
<1>4. /\ Len(b.sessions) = Len(chain.sessions) + 1
      /\ \A i \in 1..Len(chain.sessions) : b.sessions[i] = chain.sessions[i]
  <2>1. ASSUME NEW s \in Seq(BOOLEAN)
        PROVE  /\ Len(Append(s, TRUE)) = Len(s) + 1
               /\ \A i \in 1..Len(s) : Append(s, TRUE)[i] = s[i]
    OBVIOUS
  <2> QED
    BY <1>2, <1>3, <2>1
<1>5. OpenIn(b) \cap DOMAIN chain.sessions \subseteq OpenIn(chain)
  BY <1>3, <1>4 DEF OpenIn
<1>6. Follows(chain, b)
  BY <1>3, <1>4, <1>5 DEF Follows
<1>7. chain.nonce <= b.nonce /\ b.nonce # chain.nonce
  BY <1>2, <1>3
<1>8. UNCHANGED scan
  BY <1>1 DEF Mined
<1> QED
  BY <1>1, <1>2, <1>6, <1>7, <1>8, SeenNext, NonceUsed, SameScan DEF Inv

LEMMA CloseSessionInv ==
  ASSUME Inv, NEW i \in DOMAIN chain.sessions, NEW early \in BOOLEAN, CloseSession(i, early)
  PROVE  Inv'
<1> DEFINE closed == [chain EXCEPT !.sessions[i] = FALSE, !.nonce = @ + 1]
           b == IF early THEN [closed EXCEPT !.locked = @ + 1]
                         ELSE [closed EXCEPT !.wallet = @ + 1]
<1>1. chain \in Blocks /\ i \in OpenIn(chain) /\ Mined(b) /\ UNCHANGED mined
  BY CallFields DEF CloseSession
<1>2. chain.sessions \in Seq(BOOLEAN) /\ chain.nonce \in Nat
  BY <1>1, BlockFields
<1>3. [chain.sessions EXCEPT ![i] = FALSE] \in Seq(BOOLEAN) /\ chain.nonce + 1 \in Nat
  BY <1>2
<1>4. /\ closed \in Blocks /\ closed.sessions = [chain.sessions EXCEPT ![i] = FALSE]
      /\ closed.nonce = chain.nonce + 1 /\ closed.locked = chain.locked
      /\ closed.available = chain.available
  BY <1>1, <1>3 DEF Blocks
<1> HIDE DEF closed
<1>5. /\ b \in Blocks /\ b.nonce = chain.nonce + 1 /\ b.sessions = [chain.sessions EXCEPT ![i] = FALSE]
      /\ b.locked \in {chain.locked, chain.locked + 1} /\ b.available = chain.available
  <2>1. closed.locked + 1 \in Nat /\ closed.wallet + 1 \in Nat
    BY <1>4, BlockFields
  <2> QED
    BY <1>4, <2>1 DEF Blocks
<1> HIDE DEF b
<1>6. OpenIn(b) = OpenIn(chain) \ {i} /\ Len(b.sessions) = Len(chain.sessions)
  BY <1>2, <1>5 DEF OpenIn
<1>7. Cardinality(OpenIn(b)) = Cardinality(OpenIn(chain)) - 1 /\ Cardinality(OpenIn(chain)) \in Nat
  BY <1>1, <1>6, OpenFinite, FS_RemoveElement
<1>8. OnHold(b) <= OnHold(chain) + 1
  BY <1>1, <1>5, BlockFields DEF OnHold
<1>9. OnHold(b) + Cardinality(OpenIn(b)) <= OnHold(chain) + Cardinality(OpenIn(chain))
  BY <1>1, <1>5, <1>7, <1>8, BlockFields
<1>10. Follows(chain, b)
  BY <1>1, <1>6, <1>9, BlockFields DEF Follows
<1>11. chain.nonce <= b.nonce /\ b.nonce # chain.nonce
  BY <1>2, <1>5
<1>12. UNCHANGED scan
  BY <1>1 DEF Mined
<1> QED
  BY <1>1, <1>5, <1>10, <1>11, <1>12, SeenNext, NonceUsed, SameScan DEF Inv

(* A block with the sessions of the chain, and no more on hold.            *)
LEMMA SameSessions ==
  ASSUME NEW a \in Blocks, NEW b \in Blocks, b.sessions = a.sessions, OnHold(b) <= OnHold(a)
  PROVE  Follows(a, b)
<1>1. OpenIn(b) = OpenIn(a)
  BY DEF OpenIn
<1> QED
  BY <1>1, OpenFinite, BlockFields DEF Follows

LEMMA ReleaseHoldInv == ASSUME Inv, ReleaseHold PROVE Inv'
<1> DEFINE b == [chain EXCEPT !.locked = 0, !.available = chain.available + chain.locked]
<1>1. chain \in Blocks /\ Mined(b) /\ UNCHANGED mined
  BY CallFields DEF ReleaseHold
<1>2. /\ b \in Blocks /\ b.nonce = chain.nonce /\ b.sessions = chain.sessions
      /\ b.locked = 0 /\ b.available = chain.available + chain.locked
  <2>1. chain.available + chain.locked \in Nat
    BY <1>1, BlockFields
  <2> QED
    BY <1>1, <2>1 DEF Blocks
<1> HIDE DEF b
<1>3. OnHold(b) = OnHold(chain) /\ chain.nonce <= b.nonce
  BY <1>1, <1>2, BlockFields DEF OnHold
<1>4. Follows(chain, b) /\ Follows(b, chain)
  BY <1>1, <1>2, <1>3, SameSessions, BlockFields
<1>5. UNCHANGED scan
  BY <1>1 DEF Mined
<1> QED
  BY <1>1, <1>2, <1>3, <1>4, <1>5, SeenNext, NonceUsed, SameScan DEF Inv

LEMMA MineInv == ASSUME Inv, NEW e \in Urls, NEW tx \in pool[e], MineWithdrawal(tx) PROVE Inv'
<1> DEFINE b == [chain EXCEPT !.wallet = @ + chain.available, !.available = 0, !.nonce = @ + 1]
<1>1. /\ chain \in Blocks /\ tx.nonce = chain.nonce /\ Mined(b)
      /\ mined' = [mined EXCEPT ![tx.call] = @ + 1] /\ tx.call \in Withdrawals
  BY CallFields DEF MineWithdrawal
<1>2. /\ b \in Blocks /\ b.nonce = chain.nonce + 1 /\ b.sessions = chain.sessions
      /\ b.locked = chain.locked /\ b.available = 0
  <2>1. chain.wallet + chain.available \in Nat /\ chain.nonce + 1 \in Nat
    BY <1>1, BlockFields
  <2> QED
    BY <1>1, <2>1 DEF Blocks
<1> HIDE DEF b
<1>3. OnHold(b) <= OnHold(chain) /\ chain.nonce \in Nat
  BY <1>1, <1>2, BlockFields DEF OnHold
<1>4. Follows(chain, b)
  BY <1>1, <1>2, <1>3, SameSessions
<1>5. BlocksInv'
  BY <1>1, <1>2, <1>3, <1>4, SeenNext
<1>6. chain' = b /\ UNCHANGED <<view, scan, call, pool>>
  BY <1>1 DEF Mined
<1>7. /\ mined[tx.call] = 0 /\ call[tx.call].nonce = chain.nonce
      /\ call[tx.call].pc \in {"send", "ok", "error"}
  BY <1>1, <1>3, CallFields DEF Inv, PoolInv, MinedInv
<1>8. /\ mined' \in [Withdrawals -> Nat] /\ mined'[tx.call] = 1
      /\ \A c \in Withdrawals : c # tx.call => mined'[c] = mined[c]
  BY <1>1, <1>7, CallFields
<1>9. TypeOK'
  BY <1>2, <1>6, <1>8 DEF Inv, TypeOK
<1>10. chain'.nonce > chain.nonce /\ \A n \in Nat : chain.nonce > n => chain'.nonce > n
  BY <1>2, <1>3, <1>6
<1>11. MinedInv'
  BY <1>6, <1>7, <1>8, <1>10, CallFields DEF Inv, MinedInv, Taken
<1>12. PoolInv'
  BY <1>6 DEF Inv, PoolInv
<1> QED
  BY <1>5, <1>6, <1>9, <1>11, <1>12, SameScan DEF Inv

LEMMA SyncInv == ASSUME Inv, NEW e \in Urls, Sync(e) PROVE Inv'
<1>1. /\ view' = [view EXCEPT ![e] = chain] /\ UNCHANGED <<chain, scan, call, mined>>
      /\ pool' = [pool EXCEPT ![e] = {tx \in pool[e] : tx.nonce >= chain.nonce}]
  BY DEF Sync
<1>2. TypeOK'
  <2>1. view' \in [Urls -> Blocks] /\ pool' \in [Urls -> SUBSET Tx]
    BY <1>1, CallFields
  <2> QED
    BY <1>1, <2>1 DEF Inv, TypeOK
<1>3. Seen' \subseteq Seen
  BY <1>1, CallFields DEF Seen
<1>4. \A u \in Urls : pool'[u] \subseteq pool[u]
  BY <1>1, CallFields
<1>5. PoolInv'
  BY <1>1, <1>4, FS_Subset DEF Inv, PoolInv
<1>6. ASSUME NEW c \in Withdrawals, call[c].hash
      PROVE  Taken(c)' # {} \/ chain.nonce > call[c].nonce
  <2>1. CASE chain.nonce > call[c].nonce
    BY <2>1
  <2>2. CASE ~(chain.nonce > call[c].nonce)
    <3>1. Taken(c) # {}
      BY <1>6, <2>2 DEF Inv, MinedInv
    <3>2. PICK u \in Urls : \E tx \in pool[u] : tx.call = c
      BY <3>1 DEF Taken
    <3>3. PICK tx \in pool[u] : tx.call = c
      BY <3>2
    <3>4. tx.nonce = call[c].nonce
      BY <3>3 DEF Inv, PoolInv
    <3>5. tx.nonce >= chain.nonce
      BY <2>2, <3>4, CallFields
    <3>6. tx \in pool'[u]
      BY <1>1, <3>3, <3>5, CallFields
    <3> QED
      BY <3>3, <3>6 DEF Taken
  <2> QED
    BY <2>1, <2>2
<1>7. MinedInv'
  BY <1>1, <1>6 DEF Inv, MinedInv
<1> QED
  BY <1>1, <1>2, <1>3, <1>5, <1>7, SeenAgain, SameScan DEF Inv
-----------------------------------------------------------------------------
(* The scan alone takes a step.                                            *)
LEMMA ScanStep ==
  ASSUME Inv, scan' \in Scans, scan'.last \in Seen, UNCHANGED <<chainVars, txVars>>
  PROVE  TypeOK' /\ BlocksInv' /\ PoolInv' /\ MinedInv'
<1>1. Seen' \subseteq Seen /\ UNCHANGED chain
  BY DEF Seen, chainVars
<1>2. TypeOK'
  BY DEF Inv, TypeOK, chainVars, txVars
<1> QED
  BY <1>1, <1>2, SeenAgain, SameCalls

(* Of a block that answers after another: what may have changed.           *)
LEMMA NextBlock ==
  ASSUME Inv, NEW b \in Seen
  PROVE  /\ b \in Blocks
         /\ scan.last.nonce <= b.nonce /\ Len(b.sessions) = Len(scan.last.sessions) =>
              /\ OpenIn(b) \subseteq OpenIn(scan.last)
              /\ OnHold(b) + Cardinality(OpenIn(b))
                   <= OnHold(scan.last) + Cardinality(OpenIn(scan.last))
         /\ b.nonce = scan.last.nonce =>
              /\ Len(b.sessions) = Len(scan.last.sessions) /\ OpenIn(b) = OpenIn(scan.last)
              /\ OnHold(b) = OnHold(scan.last)
<1> DEFINE a == scan.last
<1>1. a \in Seen /\ a \in Blocks /\ b \in Blocks
  BY SeenBlocks DEF Seen
<1>2. /\ a.nonce <= b.nonce => Follows(a, b)
      /\ b.nonce <= a.nonce => Follows(b, a)
  BY <1>1 DEF Inv, BlocksInv
<1>3. OpenIn(a) \subseteq DOMAIN a.sessions /\ OpenIn(b) \subseteq DOMAIN b.sessions
  BY DEF OpenIn
<1>4. Len(a.sessions) = Len(b.sessions) => DOMAIN a.sessions = DOMAIN b.sessions
  BY <1>1, BlockFields
<1>5. ASSUME a.nonce <= b.nonce, Len(b.sessions) = Len(a.sessions)
      PROVE  /\ OpenIn(b) \subseteq OpenIn(a)
             /\ OnHold(b) + Cardinality(OpenIn(b)) <= OnHold(a) + Cardinality(OpenIn(a))
  BY <1>2, <1>3, <1>4, <1>5 DEF Follows
<1>6. ASSUME b.nonce = a.nonce
      PROVE  Len(b.sessions) = Len(a.sessions) /\ OpenIn(b) = OpenIn(a) /\ OnHold(b) = OnHold(a)
  <2>1. Follows(a, b) /\ Follows(b, a)
    BY <1>1, <1>2, <1>6, BlockFields
  <2>2. Len(b.sessions) = Len(a.sessions)
    BY <1>1, <2>1, BlockFields DEF Follows
  <2>3. OpenIn(b) = OpenIn(a)
    BY <1>3, <1>4, <2>1, <2>2 DEF Follows
  <2>4. OnHold(b) = OnHold(a)
    <3>1. /\ OnHold(b) + Cardinality(OpenIn(b)) <= OnHold(a) + Cardinality(OpenIn(b))
          /\ OnHold(a) + Cardinality(OpenIn(b)) <= OnHold(b) + Cardinality(OpenIn(b))
      BY <2>1, <2>2, <2>3 DEF Follows
    <3> QED
      BY <1>1, <3>1, BlockFields, OpenFinite
  <2> QED
    BY <2>2, <2>3, <2>4
<1> QED
  BY <1>1, <1>5, <1>6

(* What an answer changes of the scan's record.                            *)
LEMMA AnsweredFields ==
  ASSUME Inv, NEW b \in Blocks, NEW empty \in BOOLEAN, NEW next \in Scans,
         Answered(b, empty, next),
         next.back = scan.back, next.opened = scan.opened, next.moved = scan.moved,
         next.empty = scan.empty, next.owned = scan.owned
  PROVE  /\ scan' \in Scans /\ scan'.last = b /\ UNCHANGED <<chainVars, txVars>>
         /\ scan'.pc = next.pc /\ scan'.found = next.found /\ scan'.total = next.total
         /\ scan'.remaining = next.remaining /\ scan'.ids = next.ids
         /\ scan'.scanned = next.scanned /\ scan'.owned = scan.owned
         /\ ~scan'.back => ~scan.back /\ scan.last.nonce <= b.nonce
         /\ ~scan'.opened => ~scan.opened /\ Len(b.sessions) = Len(scan.last.sessions)
         /\ ~scan'.moved => ~scan.moved /\ b.nonce = scan.last.nonce
         /\ ~scan'.empty => ~scan.empty /\ ~empty
<1> DEFINE back == scan.back \/ b.nonce < scan.last.nonce
           opened == scan.opened \/ Len(b.sessions) # Len(scan.last.sessions)
           moved == scan.moved \/ b.nonce # scan.last.nonce
           none == scan.empty \/ empty
<1>1. /\ back \in BOOLEAN /\ opened \in BOOLEAN /\ moved \in BOOLEAN /\ none \in BOOLEAN
  BY ScanFields
<1>2. /\ scan' = [next EXCEPT !.last = b, !.back = back, !.opened = opened, !.moved = moved,
                              !.empty = none]
      /\ UNCHANGED <<chainVars, txVars>>
  BY DEF Answered, Scans
<1>3. ~back => scan.last.nonce <= b.nonce
  BY ScanFields, BlockFields
<1>4. /\ ~back => ~scan.back
      /\ ~opened => ~scan.opened /\ Len(b.sessions) = Len(scan.last.sessions)
      /\ ~moved => ~scan.moved /\ b.nonce = scan.last.nonce
      /\ ~none => ~scan.empty /\ ~empty
  OBVIOUS
<1> HIDE DEF back, opened, moved, none
<1>5. /\ scan' \in Scans /\ scan'.last = b
      /\ scan'.pc = next.pc /\ scan'.found = next.found /\ scan'.total = next.total
      /\ scan'.remaining = next.remaining /\ scan'.ids = next.ids
      /\ scan'.scanned = next.scanned /\ scan'.owned = next.owned
      /\ scan'.back = back /\ scan'.opened = opened /\ scan'.moved = moved /\ scan'.empty = none
  BY <1>1, <1>2 DEF Scans
<1> QED
  BY <1>2, <1>3, <1>4, <1>5

LEMMA ReadBalanceInv ==
  ASSUME Inv, NEW e \in Urls, NEW empty \in BOOLEAN, ReadBalance(view[e], empty)
  PROVE  Inv'
<1> DEFINE b == view[e]
<1>1. b \in Seen /\ b \in Blocks
  BY CallFields DEF Seen
<1>2. /\ scan' = [NoScan EXCEPT !.pc = "hold", !.found = Decoded(empty, b.wallet),
                                !.owned = Owned(b), !.last = b, !.empty = empty]
      /\ UNCHANGED <<chainVars, txVars>>
  BY DEF ReadBalance
<1> HIDE DEF b
<1>3. Decoded(empty, b.wallet) \in Nat /\ Owned(b) \in Nat
  BY <1>1, BlockFields, OpenFinite DEF Decoded
<1>4. scan' \in Scans
  BY <1>1, <1>2, <1>3, NoScanType DEF Scans
<1>5. /\ scan'.pc = "hold" /\ scan'.found = Decoded(empty, b.wallet) /\ scan'.owned = Owned(b)
      /\ scan'.last = b /\ scan'.scanned = 0 /\ scan'.empty = empty
  BY <1>2 DEF NoScan
<1>6. OpenIn(b) \cap DOMAIN b.sessions = OpenIn(b)
  BY DEF OpenIn
<1>7. Held' = OnHold(b) /\ Left' = Cardinality(OpenIn(b))
  BY <1>5, <1>6 DEF Held, Left, Unread
<1>8. /\ scan'.found + Held' + Left' <= scan'.owned
      /\ ~empty => scan'.found + Held' + Left' = scan'.owned
  BY <1>1, <1>5, <1>7, BlockFields, OpenFinite DEF Owned, Decoded
<1>9. ScanInv' /\ ExactInv' /\ BatchInv'
  BY <1>5, <1>8 DEF ScanInv, ExactInv, Counted, Quiet, BatchInv
<1> QED
  BY <1>1, <1>2, <1>4, <1>5, <1>9, ScanStep DEF Inv

LEMMA ReadOnHoldInv ==
  ASSUME Inv, NEW e \in Urls, NEW empty \in BOOLEAN, ReadOnHold(view[e], empty)
  PROVE  Inv'
<1> DEFINE b == view[e]
           amount == Decoded(empty, OnHold(b))
           next == [scan EXCEPT !.pc = "count", !.found = scan.found + amount]
<1>1. b \in Seen /\ b \in Blocks
  BY CallFields DEF Seen
<1>2. scan.pc = "hold" /\ Answered(b, empty, next)
  BY ScanFields DEF ReadOnHold, Scans
<1> HIDE DEF b
<1>3. amount \in Nat /\ amount <= OnHold(b) /\ (~empty => amount = OnHold(b))
  BY <1>1, BlockFields DEF Decoded
<1> HIDE DEF amount
<1>4. /\ next \in Scans /\ next.pc = "count" /\ next.found = scan.found + amount
      /\ next.back = scan.back /\ next.opened = scan.opened /\ next.moved = scan.moved
      /\ next.empty = scan.empty /\ next.owned = scan.owned /\ next.scanned = scan.scanned
  <2>1. scan.found + amount \in Nat
    BY <1>3, ScanFields
  <2> QED
    BY <2>1, ScanFields DEF Scans
<1> HIDE DEF next
<1>5. /\ scan' \in Scans /\ scan'.last = b /\ UNCHANGED <<chainVars, txVars>>
      /\ scan'.pc = "count" /\ scan'.found = scan.found + amount /\ scan'.owned = scan.owned
      /\ scan'.scanned = scan.scanned
      /\ ~scan'.back => ~scan.back /\ scan.last.nonce <= b.nonce
      /\ ~scan'.opened => ~scan.opened /\ Len(b.sessions) = Len(scan.last.sessions)
      /\ ~scan'.moved => ~scan.moved /\ b.nonce = scan.last.nonce
      /\ ~scan'.empty => ~scan.empty /\ ~empty
  BY <1>1, <1>2, <1>4, AnsweredFields
<1>6. OpenIn(b) \cap DOMAIN b.sessions = OpenIn(b)
      /\ OpenIn(scan.last) \cap DOMAIN scan.last.sessions = OpenIn(scan.last)
  BY DEF OpenIn
<1>7. /\ Held = OnHold(scan.last) /\ Left = Cardinality(OpenIn(scan.last))
      /\ Held' = 0 /\ Left' = Cardinality(OpenIn(b))
  BY <1>2, <1>5, <1>6 DEF Held, Left, Unread
<1>8. /\ scan.found \in Nat /\ scan.owned \in Nat /\ OnHold(b) \in Nat /\ Cardinality(OpenIn(b)) \in Nat
      /\ OnHold(scan.last) \in Nat /\ Cardinality(OpenIn(scan.last)) \in Nat
  BY <1>1, ScanFields, BlockFields, OpenFinite
<1>9. ASSUME ~scan'.back, ~scan'.opened
      PROVE  scan'.found + Held' + Left' <= scan'.owned
  <2>1. scan.found + OnHold(scan.last) + Cardinality(OpenIn(scan.last)) <= scan.owned
    BY <1>2, <1>5, <1>7, <1>9 DEF Inv, ScanInv, Running, Scanning
  <2>2. OnHold(b) + Cardinality(OpenIn(b)) <= OnHold(scan.last) + Cardinality(OpenIn(scan.last))
    BY <1>1, <1>5, <1>9, NextBlock
  <2> QED
    BY <1>3, <1>5, <1>7, <1>8, <2>1, <2>2
<1>10. ASSUME ~scan'.moved, ~scan'.empty
       PROVE  scan'.found + Held' + Left' = scan'.owned
  <2>1. scan.found + OnHold(scan.last) + Cardinality(OpenIn(scan.last)) = scan.owned
    BY <1>2, <1>5, <1>7, <1>10 DEF Inv, ExactInv, Counted, Quiet, Running, Scanning
  <2>2. OnHold(b) = OnHold(scan.last) /\ OpenIn(b) = OpenIn(scan.last) /\ amount = OnHold(b)
    BY <1>1, <1>3, <1>5, <1>10, NextBlock
  <2> QED
    BY <1>5, <1>7, <1>8, <2>1, <2>2
<1>11. scan'.scanned = 0
  BY <1>2, <1>5 DEF Inv, ExactInv
<1>12. ScanInv' /\ ExactInv' /\ BatchInv'
  BY <1>5, <1>9, <1>10, <1>11 DEF ScanInv, ExactInv, Counted, Quiet, BatchInv
<1> QED
  BY <1>1, <1>5, <1>12, ScanStep DEF Inv

LEMMA ReadCountInv ==
  ASSUME Inv, NEW e \in Urls, NEW empty \in BOOLEAN, ReadCount(view[e], empty)
  PROVE  Inv'
<1> DEFINE b == view[e]
           total == Decoded(empty, Len(b.sessions))
           next == [scan EXCEPT !.pc = "batch", !.total = total, !.remaining = total]
<1>1. b \in Seen /\ b \in Blocks
  BY CallFields DEF Seen
<1>2. scan.pc = "count" /\ Answered(b, empty, next)
  BY DEF ReadCount
<1> HIDE DEF b
<1>3. total \in Nat /\ total <= Len(b.sessions) /\ (~empty => total = Len(b.sessions))
  BY <1>1, BlockFields DEF Decoded
<1> HIDE DEF total
<1>4. /\ next \in Scans /\ next.pc = "batch" /\ next.found = scan.found
      /\ next.total = total /\ next.remaining = total
      /\ next.back = scan.back /\ next.opened = scan.opened /\ next.moved = scan.moved
      /\ next.empty = scan.empty /\ next.owned = scan.owned /\ next.scanned = scan.scanned
  BY <1>3, ScanFields DEF Scans
<1> HIDE DEF next
<1>5. /\ scan' \in Scans /\ scan'.last = b /\ UNCHANGED <<chainVars, txVars>>
      /\ scan'.pc = "batch" /\ scan'.found = scan.found /\ scan'.owned = scan.owned
      /\ scan'.total = total /\ scan'.remaining = total /\ scan'.scanned = scan.scanned
      /\ ~scan'.back => ~scan.back /\ scan.last.nonce <= b.nonce
      /\ ~scan'.opened => ~scan.opened /\ Len(b.sessions) = Len(scan.last.sessions)
      /\ ~scan'.moved => ~scan.moved /\ b.nonce = scan.last.nonce
      /\ ~scan'.empty => ~scan.empty /\ ~empty
  BY <1>1, <1>2, <1>4, AnsweredFields
<1>6. OpenIn(scan.last) \cap DOMAIN scan.last.sessions = OpenIn(scan.last)
  BY DEF OpenIn
<1>7. /\ Held = 0 /\ Left = Cardinality(OpenIn(scan.last))
      /\ Held' = 0 /\ Left' = Cardinality(OpenIn(b) \cap 1..total)
  BY <1>2, <1>5, <1>6 DEF Held, Left, Unread
<1>8. /\ scan.found \in Nat /\ scan.owned \in Nat /\ Left' \in Nat
      /\ Left' <= Cardinality(OpenIn(b)) /\ Cardinality(OpenIn(b)) \in Nat
      /\ Cardinality(OpenIn(scan.last)) \in Nat
  BY <1>1, <1>7, ScanFields, OpenFinite
<1>9. ASSUME ~scan'.back, ~scan'.opened
      PROVE  scan'.found + Held' + Left' <= scan'.owned
  <2>1. scan.found + 0 + Cardinality(OpenIn(scan.last)) <= scan.owned
    BY <1>2, <1>5, <1>7, <1>9 DEF Inv, ScanInv, Running, Scanning
  <2>2. OpenIn(b) \subseteq OpenIn(scan.last)
    BY <1>1, <1>5, <1>9, NextBlock
  <2>3. Cardinality(OpenIn(b)) <= Cardinality(OpenIn(scan.last))
    BY <2>2, ScanFields, OpenFinite, FS_Subset
  <2> QED
    BY <1>5, <1>7, <1>8, <2>1, <2>3
<1>10. ASSUME ~scan'.moved, ~scan'.empty
       PROVE  scan'.found + Held' + Left' = scan'.owned /\ total = Len(b.sessions)
  <2>1. scan.found + 0 + Cardinality(OpenIn(scan.last)) = scan.owned
    BY <1>2, <1>5, <1>7, <1>10 DEF Inv, ExactInv, Counted, Quiet, Running, Scanning
  <2>2. OpenIn(b) = OpenIn(scan.last) /\ total = Len(b.sessions)
    BY <1>1, <1>3, <1>5, <1>10, NextBlock
  <2>3. OpenIn(b) \cap 1..total = OpenIn(b)
    BY <1>1, <2>2, OpenFinite
  <2> QED
    BY <1>5, <1>7, <2>1, <2>2, <2>3
<1>11. scan'.scanned = 0 /\ Ahead' = total /\ 0 + total = total
  BY <1>2, <1>3, <1>5 DEF Inv, ExactInv, Ahead
<1>12. ScanInv' /\ ExactInv' /\ BatchInv'
  BY <1>3, <1>5, <1>9, <1>10, <1>11 DEF ScanInv, ExactInv, Counted, Quiet, BatchInv
<1> QED
  BY <1>1, <1>5, <1>12, ScanStep DEF Inv

LEMMA ScanFailsInv == ASSUME Inv, ScanFails PROVE Inv'
<1>1. scan' = NoScan /\ UNCHANGED <<chainVars, txVars>> /\ scan'.last \in Seen
  BY DEF ScanFails, NoScan, Seen
<1>2. BatchInv' /\ ScanInv' /\ ExactInv'
  BY <1>1 DEF NoScan, BatchInv, ScanInv, ExactInv, Running, Scanning, Counted, Quiet
<1> QED
  BY <1>1, <1>2, NoScanType, ScanStep DEF Inv

(* The numbers of a batch: those of a range that the block has.            *)
LEMMA BatchNumbers ==
  ASSUME NEW b \in Blocks, NEW n \in Nat, BatchIds(b) = [i \in 1..n |-> Offset + i],
         Offset \in Nat
  PROVE  /\ BatchIds(b) \in Seq(Nat) /\ Len(BatchIds(b)) = n /\ DOMAIN BatchIds(b) = 1..n
         /\ \A i \in 1..n : BatchIds(b)[i] = Offset + i
         /\ BatchIds(b) = <<>> => n = 0
<1>1. \A i \in 1..n : Offset + i \in Nat
  OBVIOUS
<1>2. [i \in 1..n |-> Offset + i] \in Seq(Nat) /\ Len([i \in 1..n |-> Offset + i]) = n
  BY <1>1
<1>3. BatchIds(b) = <<>> => n = 0
  BY <1>2
<1> QED
  BY <1>2, <1>3

LEMMA ListedFinite ==
  ASSUME NEW b \in Blocks, Limit \in Nat, Offset \in Nat
  PROVE  /\ Cardinality(Listed(b)) \in 0..Limit
         /\ Offset + Limit <= Len(b.sessions) => Cardinality(Listed(b)) = Limit
<1>1. IsFiniteSet(1..Limit) /\ Cardinality(1..Limit) = Limit
  BY FS_Interval
<1>2. Listed(b) \subseteq 1..Limit
  BY DEF Listed
<1>3. Cardinality(Listed(b)) \in Nat /\ Cardinality(Listed(b)) <= Limit
  BY <1>1, <1>2, FS_Subset, FS_CardinalityType
<1>4. ASSUME Offset + Limit <= Len(b.sessions) PROVE Listed(b) = 1..Limit
  BY <1>4, BlockFields DEF Listed
<1> QED
  BY <1>1, <1>3, <1>4

LEMMA ReadBatchInv == ASSUME Inv, NEW e \in Urls, ReadBatch(view[e]) PROVE Inv'
<1> DEFINE b == view[e]
           n == Cardinality(Listed(b))
           next == [scan EXCEPT !.pc = AfterIds(BatchIds(b)), !.ids = BatchIds(b),
                                !.remaining = Offset]
<1>1. b \in Seen /\ b \in Blocks
  BY CallFields DEF Seen
<1>2. /\ BatchSize \in Nat \ {0} /\ scan.remaining \in Nat \ {0} /\ scan.scanned \in Nat
      /\ scan.total \in Nat
  BY ScannerAssumption, ScanFields DEF ReadBatch
<1>3. Limit \in 1..scan.remaining /\ Offset = scan.remaining - Limit /\ Offset \in Nat
  BY <1>2 DEF Limit, Offset
<1>4. scan.pc = "batch" /\ Answered(b, FALSE, next)
  BY DEF ReadBatch, Offset
<1> HIDE DEF b
<1>5. n \in 0..Limit /\ (scan.remaining <= Len(b.sessions) => n = Limit)
  <2>1. Offset + Limit = scan.remaining /\ Limit \in Nat
    BY <1>2, <1>3
  <2> QED
    BY <1>1, <1>3, <2>1, ListedFinite
<1>6. BatchIds(b) = [i \in 1..n |-> Offset + i]
  BY DEF BatchIds
<1> HIDE DEF n
<1>7. /\ BatchIds(b) \in Seq(Nat) /\ Len(BatchIds(b)) = n /\ DOMAIN BatchIds(b) = 1..n
      /\ \A i \in 1..n : BatchIds(b)[i] = Offset + i
      /\ BatchIds(b) = <<>> => n = 0
  <2>1. n \in Nat
    BY <1>2, <1>3, <1>5
  <2> QED
    BY <1>1, <1>3, <1>6, <2>1, BatchNumbers
<1>8. /\ next \in Scans /\ next.pc = AfterIds(BatchIds(b)) /\ next.found = scan.found
      /\ next.total = scan.total /\ next.remaining = Offset /\ next.ids = BatchIds(b)
      /\ next.back = scan.back /\ next.opened = scan.opened /\ next.moved = scan.moved
      /\ next.empty = scan.empty /\ next.owned = scan.owned /\ next.scanned = scan.scanned
  <2>1. AfterIds(BatchIds(b)) \in {"batch", "sessions"}
    BY DEF AfterIds
  <2> QED
    BY <1>3, <1>7, <2>1, ScanFields DEF Scans
<1> HIDE DEF next
<1>9. /\ scan' \in Scans /\ scan'.last = b /\ UNCHANGED <<chainVars, txVars>>
      /\ scan'.pc = AfterIds(BatchIds(b)) /\ scan'.found = scan.found
      /\ scan'.owned = scan.owned /\ scan'.total = scan.total /\ scan'.remaining = Offset
      /\ scan'.ids = BatchIds(b) /\ scan'.scanned = scan.scanned
      /\ ~scan'.back => ~scan.back /\ scan.last.nonce <= b.nonce
      /\ ~scan'.opened => ~scan.opened /\ Len(b.sessions) = Len(scan.last.sessions)
      /\ ~scan'.moved => ~scan.moved /\ b.nonce = scan.last.nonce
      /\ ~scan'.empty => ~scan.empty
  BY <1>1, <1>4, <1>8, AnsweredFields
<1>10. scan'.pc \in {"batch", "sessions"} /\ (scan'.pc = "batch" => n = 0)
  BY <1>7, <1>9 DEF AfterIds
<1>11. BatchInv'
  <2>1. ASSUME scan'.pc = "sessions" PROVE scan'.ids # <<>>
    BY <1>9, <2>1 DEF AfterIds
  <2>2. ASSUME NEW i \in 1..n PROVE scan'.ids[i] = Offset + i /\ i \in Nat \ {0}
    BY <1>3, <1>5, <1>7, <1>9
  <2>3. \A i, j \in 1..n : scan'.ids[i] = scan'.ids[j] => i = j
    BY <1>3, <2>2
  <2>4. \A i \in 1..n : scan'.ids[i] > scan'.remaining
    BY <1>3, <1>9, <2>2
  <2> QED
    BY <1>7, <1>9, <2>1, <2>3, <2>4 DEF BatchInv
<1>12. /\ Unread = 1..scan.remaining
       /\ Unread' = IF scan'.pc = "batch" THEN 1..Offset ELSE 1..Offset \cup IdSet'
  BY <1>4, <1>9, <1>10 DEF Unread
<1>13. IdSet' = {Offset + i : i \in 1..n}
  BY <1>7, <1>9 DEF IdSet
<1>14. Unread' \subseteq Unread
  BY <1>2, <1>3, <1>5, <1>12, <1>13
<1>15. ASSUME scan.remaining <= Len(b.sessions) PROVE Unread' = Unread
  <2>1. n = Limit /\ scan'.pc = "sessions"
    BY <1>2, <1>3, <1>5, <1>10, <1>15
  <2>2. ASSUME NEW m \in 1..scan.remaining PROVE m \in 1..Offset \cup IdSet'
    <3>1. CASE m <= Offset
      BY <1>2, <1>3, <2>2, <3>1
    <3>2. CASE ~(m <= Offset)
      <4>1. m - Offset \in 1..n /\ Offset + (m - Offset) = m
        BY <1>2, <1>3, <2>1, <2>2, <3>2
      <4> QED
        BY <1>13, <4>1
    <3> QED
      BY <3>1, <3>2
  <2> QED
    BY <1>12, <1>14, <2>1, <2>2
<1>16. Held = 0 /\ Held' = 0
  BY <1>4, <1>10 DEF Held
<1>17. ASSUME ~scan'.back, ~scan'.opened
       PROVE  scan'.found + Held' + Left' <= scan'.owned
  <2>1. scan.found + 0 + Left <= scan.owned
    BY <1>4, <1>9, <1>16, <1>17 DEF Inv, ScanInv, Running, Scanning
  <2>2. OpenIn(b) \cap Unread' \subseteq OpenIn(scan.last) \cap Unread
    BY <1>1, <1>9, <1>14, <1>17, NextBlock
  <2>3. Left' \in Nat /\ Left' <= Left
    BY <1>9, <2>2, ScanFields, Fewer DEF Left
  <2> QED
    BY <1>9, <1>16, <2>1, <2>3, ScanFields
<1>18. Ahead = scan.remaining /\ Ahead' = Offset + n
  <2>1. scan'.pc = "batch" => Ahead' = Offset /\ Offset + n = Offset
    BY <1>3, <1>9, <1>10 DEF Ahead
  <2>2. scan'.pc = "sessions" => Ahead' = Offset + n
    BY <1>7, <1>9 DEF Ahead
  <2> QED
    BY <1>4, <1>10, <2>1, <2>2 DEF Ahead
<1>19. scan.scanned + scan.remaining <= scan.total
  BY <1>4, <1>18 DEF Inv, ExactInv, Counted
<1>20. scan'.scanned + Ahead' <= scan'.total /\ Offset + n <= scan.remaining
  BY <1>2, <1>3, <1>5, <1>9, <1>18, <1>19
<1>21. ASSUME ~scan'.moved, ~scan'.empty
       PROVE  /\ scan'.total = Len(b.sessions)
              /\ scan'.scanned + Ahead' = scan'.total => scan'.found + Held' + Left' = scan'.owned
  <2>1. scan.total = Len(scan.last.sessions)
    BY <1>4, <1>9, <1>21 DEF Inv, ExactInv, Counted, Quiet, Running, Scanning
  <2>2. Len(b.sessions) = Len(scan.last.sessions) /\ OpenIn(b) = OpenIn(scan.last)
    BY <1>1, <1>9, <1>21, NextBlock
  <2>3. scan.remaining <= Len(b.sessions)
    BY <1>2, <1>19, <2>1, <2>2
  <2>4. Left' = Left
    BY <1>9, <1>15, <2>2, <2>3 DEF Left
  <2>5. ASSUME scan'.scanned + Ahead' = scan'.total
        PROVE  scan'.found + Held' + Left' = scan'.owned
    <3>1. scan.scanned + Ahead = scan.total
      BY <1>2, <1>3, <1>5, <1>9, <1>18, <1>19, <1>20, <2>5
    <3>2. scan.found + Held + Left = scan.owned
      BY <1>4, <1>9, <1>21, <3>1 DEF Inv, ExactInv, Quiet, Running, Scanning
    <3> QED
      BY <1>9, <1>16, <2>4, <3>2
  <2> QED
    BY <1>9, <2>1, <2>2, <2>5
<1>22. ScanInv' /\ ExactInv'
  BY <1>9, <1>10, <1>17, <1>20, <1>21 DEF ScanInv, ExactInv, Counted, Quiet
<1> QED
  BY <1>1, <1>9, <1>11, <1>22, ScanStep DEF Inv

LEMMA ScanDoneInv == ASSUME Inv, ScanDone PROVE Inv'
<1>1. /\ scan' = [scan EXCEPT !.pc = "done"] /\ UNCHANGED <<chainVars, txVars>>
      /\ scan.pc = "batch"
  BY DEF ScanDone
<1>2. scan' \in Scans
  BY <1>1, ScanFields DEF Scans
<1>3. /\ scan'.pc = "done" /\ scan'.found = scan.found /\ scan'.owned = scan.owned
      /\ scan'.last = scan.last /\ scan'.back = scan.back /\ scan'.opened = scan.opened
      /\ scan'.moved = scan.moved /\ scan'.empty = scan.empty
      /\ scan'.total = scan.total /\ scan'.scanned = scan.scanned
  BY <1>1, ScanFields DEF Scans
<1>4. Left' = 0 /\ Held = 0 /\ Held' = 0 /\ Ahead' = 0 /\ Ahead = scan.remaining
  <2>1. OpenIn(scan.last)' \cap Unread' = {}
    BY <1>3 DEF Unread
  <2> QED
    BY <1>1, <1>3, <2>1, FS_EmptySet DEF Held, Ahead, Left
<1>5. ScanInv'
  <2>1. ~scan.back /\ ~scan.opened => scan.found + Held + Left <= scan.owned
    BY <1>1 DEF Inv, ScanInv, Running, Scanning
  <2>2. ~scan.back /\ ~scan.opened => scan.found + 0 + 0 <= scan.owned
    BY <1>4, <2>1, ScanFields
  <2> QED
    BY <1>3, <1>4, <2>2 DEF ScanInv
<1>6. scan.scanned + scan.remaining <= scan.total
  BY <1>1, <1>4 DEF Inv, ExactInv, Counted
<1>7. ASSUME ~scan.moved, ~scan.empty, scan.scanned + 0 = scan.total
      PROVE  scan.found + 0 + 0 = scan.owned
  <2>1. scan.remaining = 0
    BY <1>6, <1>7, ScanFields
  <2>2. OpenIn(scan.last) \cap Unread = {} /\ Left = 0
    <3>1. Unread = {}
      BY <1>1, <2>1 DEF Unread
    <3> QED
      BY <3>1, FS_EmptySet DEF Left
  <2>3. scan.scanned + Ahead = scan.total
    BY <1>4, <1>7, <2>1
  <2>4. scan.found + Held + Left = scan.owned
    BY <1>1, <1>7, <2>3 DEF Inv, ExactInv, Quiet, Running, Scanning
  <2> QED
    BY <1>4, <2>2, <2>4
<1>8. ~scan.moved /\ ~scan.empty => scan.total = Len(scan.last.sessions)
  BY <1>1 DEF Inv, ExactInv, Counted, Quiet, Running, Scanning
<1>9. scan.scanned + 0 <= scan.total
  BY <1>6, ScanFields
<1>10. ExactInv' /\ BatchInv'
  BY <1>3, <1>4, <1>7, <1>8, <1>9 DEF ExactInv, Counted, Quiet, BatchInv
<1>11. scan'.last \in Seen
  BY <1>3 DEF Seen
<1> QED
  BY <1>1, <1>2, <1>5, <1>10, <1>11, ScanStep DEF Inv

(* A session of the batch leaves the unread ones.                          *)
LEMMA SessionLeaves ==
  ASSUME Inv, scan.pc = "sessions", scan'.pc = AfterIds(Tail(scan.ids)),
         scan'.ids = Tail(scan.ids), scan'.remaining = scan.remaining
  PROVE  /\ BatchInv' /\ scan'.pc \in {"batch", "sessions"}
         /\ Tail(scan.ids) \in Seq(Nat)
         /\ Head(scan.ids) \in Unread /\ Unread' = Unread \ {Head(scan.ids)}
         /\ Ahead' = Ahead - 1 /\ Ahead \in Nat
<1> DEFINE h == Head(scan.ids)
<1>1. scan.ids \in Seq(Nat) /\ scan.ids # <<>> /\ scan.remaining \in Nat
  BY ScanFields DEF Inv, BatchInv
<1>2. /\ Tail(scan.ids) \in Seq(Nat) /\ Len(Tail(scan.ids)) = Len(scan.ids) - 1
      /\ \A i \in 1..Len(Tail(scan.ids)) : Tail(scan.ids)[i] = scan.ids[i + 1]
      /\ Len(scan.ids) \in Nat /\ DOMAIN Tail(scan.ids) = 1..Len(Tail(scan.ids))
  BY <1>1
<1>3. scan'.pc = IF Tail(scan.ids) = <<>> THEN "batch" ELSE "sessions"
  BY DEF AfterIds
<1>4. /\ \A i, j \in DOMAIN scan.ids : scan.ids[i] = scan.ids[j] => i = j
      /\ \A i \in DOMAIN scan.ids : scan.ids[i] > scan.remaining
  BY DEF Inv, BatchInv
<1>5. ASSUME NEW i \in 1..Len(Tail(scan.ids))
      PROVE  i + 1 \in DOMAIN scan.ids /\ Tail(scan.ids)[i] = scan.ids[i + 1] /\ i + 1 # 1
  BY <1>1, <1>2
<1>6. BatchInv'
  <2>1. ASSUME NEW i \in 1..Len(Tail(scan.ids)), NEW j \in 1..Len(Tail(scan.ids)),
               Tail(scan.ids)[i] = Tail(scan.ids)[j]
        PROVE  i = j
    <3>1. i + 1 = j + 1
      BY <1>4, <1>5, <2>1
    <3> QED
      BY <3>1
  <2>2. \A i \in 1..Len(Tail(scan.ids)) : Tail(scan.ids)[i] > scan.remaining
    BY <1>4, <1>5
  <2> QED
    BY <1>2, <1>3, <2>1, <2>2 DEF BatchInv
<1>7. h \in Unread /\ Unread' = Unread \ {h}
  <2>1. 1 \in DOMAIN scan.ids /\ h = scan.ids[1] /\ h \in Nat
    BY <1>1
  <2>2. h \in IdSet /\ h \notin 1..scan.remaining
    BY <1>1, <1>4, <2>1 DEF IdSet
  <2>3. ASSUME NEW i \in 1..Len(Tail(scan.ids)) PROVE Tail(scan.ids)[i] \in IdSet \ {h}
    BY <1>4, <1>5, <2>1 DEF IdSet
  <2>4. ASSUME NEW i \in DOMAIN scan.ids, scan.ids[i] # h
        PROVE  \E j \in 1..Len(Tail(scan.ids)) : Tail(scan.ids)[j] = scan.ids[i]
    <3>1. i - 1 \in 1..Len(Tail(scan.ids)) /\ (i - 1) + 1 = i
      BY <1>1, <1>2, <2>1, <2>4
    <3> QED
      BY <1>2, <3>1
  <2>5. IdSet' = IdSet \ {h}
    <3>1. IdSet' = {Tail(scan.ids)[j] : j \in 1..Len(Tail(scan.ids))}
      BY <1>2 DEF IdSet
    <3>2. IdSet' \subseteq IdSet \ {h}
      BY <2>3, <3>1
    <3>3. ASSUME NEW x \in IdSet, x # h PROVE x \in IdSet'
      <4>1. PICK i \in DOMAIN scan.ids : x = scan.ids[i]
        BY <3>3 DEF IdSet
      <4> QED
        BY <2>4, <3>1, <3>3, <4>1
    <3> QED
      BY <3>2, <3>3
  <2>6. Tail(scan.ids) = <<>> => IdSet' = {}
    BY DEF IdSet
  <2> QED
    BY <1>3, <2>2, <2>5, <2>6 DEF Unread
<1>8. Ahead' = Ahead - 1 /\ Ahead \in Nat
  <2> DEFINE n == Len(scan.ids)
  <2>1. Ahead = scan.remaining + n /\ n \in Nat \ {0}
    BY <1>1, EmptySeq DEF Ahead
  <2>2. Ahead' = scan.remaining + (n - 1)
    <3>1. CASE Tail(scan.ids) = <<>>
      <4>1. n - 1 = 0
        BY <1>2, <3>1, EmptySeq
      <4>2. Ahead' = scan.remaining
        BY <1>3, <3>1 DEF Ahead
      <4>3. scan.remaining + 0 = scan.remaining
        BY <1>1
      <4> QED
        BY <4>1, <4>2, <4>3
    <3>2. CASE Tail(scan.ids) # <<>>
      BY <1>2, <1>3, <3>2 DEF Ahead
    <3> QED
      BY <3>1, <3>2
  <2> HIDE DEF n
  <2> QED
    BY <1>1, <2>1, <2>2
<1> QED
  BY <1>2, <1>3, <1>6, <1>7, <1>8

LEMMA ReadSessionInv == ASSUME Inv, NEW e \in Urls, ReadSession(view[e]) PROVE Inv'
<1> DEFINE b == view[e]
           h == Head(scan.ids)
           found == IF Counts(b, h) THEN scan.found + 1 ELSE scan.found
           next == [scan EXCEPT !.pc = AfterIds(Tail(scan.ids)), !.ids = Tail(scan.ids),
                                !.scanned = scan.scanned + 1, !.found = found]
<1>1. b \in Seen /\ b \in Blocks
  BY CallFields DEF Seen
<1>2. scan.pc = "sessions" /\ Answered(b, FALSE, next)
  BY ScanFields DEF ReadSession, Scans
<1> HIDE DEF b
<1>3. /\ scan.found \in Nat /\ scan.scanned \in Nat /\ scan.total \in Nat /\ scan.owned \in Nat
      /\ Left \in Nat
  BY ScanFields
<1>4. found \in Nat /\ found = (IF h \in OpenIn(b) THEN scan.found + 1 ELSE scan.found)
  BY <1>3 DEF Counts
<1> HIDE DEF found
<1>5. Tail(scan.ids) \in Seq(Nat) /\ AfterIds(Tail(scan.ids)) \in {"batch", "sessions"}
  <2>1. scan.ids \in Seq(Nat) /\ scan.ids # <<>>
    BY <1>2, ScanFields DEF Inv, BatchInv
  <2> QED
    BY <2>1 DEF AfterIds
<1>6. /\ next \in Scans /\ next.pc = AfterIds(Tail(scan.ids)) /\ next.found = found
      /\ next.total = scan.total /\ next.remaining = scan.remaining /\ next.ids = Tail(scan.ids)
      /\ next.back = scan.back /\ next.opened = scan.opened /\ next.moved = scan.moved
      /\ next.empty = scan.empty /\ next.owned = scan.owned /\ next.scanned = scan.scanned + 1
  <2>1. scan.scanned + 1 \in Nat
    BY <1>3
  <2> QED
    BY <1>4, <1>5, <2>1, ScanFields DEF Scans
<1> HIDE DEF next
<1>7. /\ scan' \in Scans /\ scan'.last = b /\ UNCHANGED <<chainVars, txVars>>
      /\ scan'.pc = AfterIds(Tail(scan.ids)) /\ scan'.found = found
      /\ scan'.owned = scan.owned /\ scan'.total = scan.total
      /\ scan'.remaining = scan.remaining /\ scan'.ids = Tail(scan.ids)
      /\ scan'.scanned = scan.scanned + 1
      /\ ~scan'.back => ~scan.back /\ scan.last.nonce <= b.nonce
      /\ ~scan'.opened => ~scan.opened /\ Len(b.sessions) = Len(scan.last.sessions)
      /\ ~scan'.moved => ~scan.moved /\ b.nonce = scan.last.nonce
      /\ ~scan'.empty => ~scan.empty
  BY <1>1, <1>2, <1>6, AnsweredFields
<1>8. /\ BatchInv' /\ scan'.pc \in {"batch", "sessions"}
      /\ h \in Unread /\ Unread' = Unread \ {h} /\ Ahead' = Ahead - 1 /\ Ahead \in Nat
  BY <1>2, <1>7, SessionLeaves
<1>9. Held = 0 /\ Held' = 0
  BY <1>2, <1>8 DEF Held
<1>10. Left' = Cardinality((OpenIn(b) \cap Unread) \ {h})
  <2>1. OpenIn(b) \cap Unread' = (OpenIn(b) \cap Unread) \ {h}
    BY <1>8
  <2> QED
    BY <1>7, <2>1 DEF Left
<1>11. /\ Cardinality(OpenIn(b) \cap Unread) \in Nat
       /\ Left' = IF h \in OpenIn(b) THEN Cardinality(OpenIn(b) \cap Unread) - 1
                                     ELSE Cardinality(OpenIn(b) \cap Unread)
  BY <1>1, <1>8, <1>10, OpenFinite, FS_RemoveElement
<1>12. scan'.found + Left' = scan.found + Cardinality(OpenIn(b) \cap Unread)
       /\ Left' \in Nat /\ scan'.found \in Nat
  <2>1. Left' \in Nat
    BY <1>1, <1>10, Fewer
  <2> QED
    BY <1>3, <1>4, <1>7, <1>11, <2>1
<1>13. ASSUME ~scan'.back, ~scan'.opened
       PROVE  scan'.found + Held' + Left' <= scan'.owned
  <2>1. scan.found + 0 + Left <= scan.owned
    BY <1>2, <1>7, <1>9, <1>13 DEF Inv, ScanInv, Running, Scanning
  <2>2. OpenIn(b) \cap Unread \subseteq OpenIn(scan.last) \cap Unread
    BY <1>1, <1>7, <1>13, NextBlock
  <2>3. Cardinality(OpenIn(b) \cap Unread) <= Left
    BY <2>2, ScanFields, Fewer DEF Left
  <2>4. scan.found + Left <= scan.owned
    BY <1>3, <2>1
  <2>5. scan.found + Cardinality(OpenIn(b) \cap Unread) <= scan.owned
    BY <1>3, <1>11, <2>3, <2>4
  <2>6. scan'.found + Left' <= scan.owned
    BY <1>12, <2>5
  <2>7. scan'.found + 0 + Left' <= scan.owned
    BY <1>12, <2>6
  <2> QED
    BY <1>7, <1>9, <2>7
<1>14. scan.scanned + Ahead <= scan.total
  BY <1>2 DEF Inv, ExactInv, Counted
<1>15. scan'.scanned + Ahead' = scan.scanned + Ahead
  <2>1. \A m, n \in Nat : (m + 1) + (n - 1) = m + n
    OBVIOUS
  <2> QED
    BY <1>3, <1>7, <1>8, <2>1
<1>16. ASSUME ~scan'.moved, ~scan'.empty
       PROVE  /\ scan'.total = Len(b.sessions)
              /\ scan'.scanned + Ahead' = scan'.total => scan'.found + Held' + Left' = scan'.owned
  <2>1. scan.total = Len(scan.last.sessions)
    BY <1>2, <1>7, <1>16 DEF Inv, ExactInv, Counted, Quiet, Running, Scanning
  <2>2. Len(b.sessions) = Len(scan.last.sessions) /\ OpenIn(b) = OpenIn(scan.last)
    BY <1>1, <1>7, <1>16, NextBlock
  <2>3. ASSUME scan.scanned + Ahead = scan.total
        PROVE  scan'.found + Held' + Left' = scan'.owned
    <3>1. scan.found + 0 + Left = scan.owned
      BY <1>2, <1>7, <1>9, <1>16, <2>3 DEF Inv, ExactInv, Quiet, Running, Scanning
    <3>2. scan'.found + Left' = scan.found + Left
      BY <1>12, <2>2 DEF Left
    <3> QED
      BY <1>3, <1>7, <1>9, <1>12, <3>1, <3>2
  <2> QED
    BY <1>7, <1>15, <2>1, <2>2, <2>3
<1>17. ScanInv' /\ ExactInv'
  BY <1>7, <1>8, <1>13, <1>14, <1>15, <1>16 DEF ScanInv, ExactInv, Counted, Quiet
<1> QED
  BY <1>1, <1>7, <1>8, <1>17, ScanStep DEF Inv

LEMMA SkipSessionInv == ASSUME Inv, SkipSession PROVE Inv'
<1> DEFINE h == Head(scan.ids)
<1>1. /\ scan.pc = "sessions" /\ UNCHANGED <<chainVars, txVars>>
      /\ scan' = [scan EXCEPT !.pc = AfterIds(Tail(scan.ids)), !.ids = Tail(scan.ids)]
  BY ScanFields DEF SkipSession, Scans
<1>2. /\ scan.found \in Nat /\ scan.scanned \in Nat /\ scan.total \in Nat /\ scan.owned \in Nat
      /\ Left \in Nat
  BY ScanFields
<1>3. Tail(scan.ids) \in Seq(Nat) /\ AfterIds(Tail(scan.ids)) \in {"batch", "sessions"}
  <2>1. scan.ids \in Seq(Nat) /\ scan.ids # <<>>
    BY <1>1, ScanFields DEF Inv, BatchInv
  <2> QED
    BY <2>1 DEF AfterIds
<1>4. /\ scan' \in Scans /\ scan'.pc = AfterIds(Tail(scan.ids)) /\ scan'.ids = Tail(scan.ids)
      /\ scan'.found = scan.found /\ scan'.owned = scan.owned /\ scan'.last = scan.last
      /\ scan'.back = scan.back /\ scan'.opened = scan.opened /\ scan'.moved = scan.moved
      /\ scan'.empty = scan.empty /\ scan'.total = scan.total
      /\ scan'.remaining = scan.remaining /\ scan'.scanned = scan.scanned
  BY <1>1, <1>3, ScanFields DEF Scans
<1>5. /\ BatchInv' /\ scan'.pc \in {"batch", "sessions"}
      /\ Unread' = Unread \ {h} /\ Ahead' = Ahead - 1 /\ Ahead \in Nat
  BY <1>1, <1>4, SessionLeaves
<1>6. Held = 0 /\ Held' = 0
  BY <1>1, <1>5 DEF Held
<1>7. Left' \in Nat /\ Left' <= Left
  <2>1. OpenIn(scan.last) \cap Unread' \subseteq OpenIn(scan.last) \cap Unread
    BY <1>5
  <2> QED
    BY <1>4, <2>1, ScanFields, Fewer DEF Left
<1>8. ScanInv'
  <2>1. ~scan.back /\ ~scan.opened => scan.found + 0 + Left <= scan.owned
    BY <1>1, <1>6 DEF Inv, ScanInv, Running, Scanning
  <2>2. ~scan.back /\ ~scan.opened => scan.found + 0 + Left' <= scan.owned
    BY <1>2, <1>7, <2>1
  <2> QED
    BY <1>4, <1>6, <2>2 DEF ScanInv
<1>9. scan.scanned + Ahead <= scan.total
  BY <1>1 DEF Inv, ExactInv, Counted
<1>10. scan'.scanned + Ahead' <= scan'.total /\ scan'.scanned + Ahead' # scan'.total
  BY <1>2, <1>4, <1>5, <1>9
<1>11. ~scan.moved /\ ~scan.empty => scan.total = Len(scan.last.sessions)
  BY <1>1 DEF Inv, ExactInv, Counted, Quiet, Running, Scanning
<1>12. ExactInv'
  BY <1>4, <1>5, <1>10, <1>11 DEF ExactInv, Counted, Quiet
<1>13. scan'.last \in Seen
  BY <1>4 DEF Seen
<1> QED
  BY <1>1, <1>4, <1>5, <1>8, <1>12, <1>13, ScanStep DEF Inv

LEMMA ScanStepInv == ASSUME Inv, Scan PROVE Inv'
  BY ReadBalanceInv, ReadOnHoldInv, ReadCountInv, ScanFailsInv, ReadBatchInv, ScanDoneInv,
     ReadSessionInv, SkipSessionInv DEF Scan
-----------------------------------------------------------------------------
(* The scan and the blocks are not touched by a withdrawal that is not     *)
(* mined.                                                                  *)
LEMMA SameBlocks ==
  ASSUME Inv, UNCHANGED <<chainVars, scan>>
  PROVE  BlocksInv' /\ BatchInv' /\ ScanInv' /\ ExactInv'
<1>1. Seen' = Seen /\ UNCHANGED <<chain, scan>>
  BY DEF Seen, chainVars
<1> QED
  BY <1>1, SeenAgain, SameScan

LEMMA ReadNonceInv == ASSUME Inv, NEW c \in Withdrawals, ReadNonce(c) PROVE Inv'
<1>1. call[c].pc = "idle" /\ UNCHANGED <<chainVars, scan, pool, mined>>
  BY DEF ReadNonce
<1>2. PICK n \in Nat : call' = [call EXCEPT ![c].pc = "nonce", ![c].nonce = n]
  <2>1. CASE WithNonce(c, 0)
    BY <2>1 DEF WithNonce
  <2>2. CASE \E e \in Urls : \E n \in 0..(view[e].nonce + Cardinality(pool[e])) :
               PendingNonce(e, n) /\ WithNonce(c, n)
    <3>0. PICK e \in Urls : \E n \in 0..(view[e].nonce + Cardinality(pool[e])) :
                 PendingNonce(e, n) /\ WithNonce(c, n)
      BY <2>2
    <3>1. PICK n \in 0..(view[e].nonce + Cardinality(pool[e])) : WithNonce(c, n)
      BY <3>0
    <3>2. view[e].nonce + Cardinality(pool[e]) \in Nat
      BY CallFields, BlockFields, FS_CardinalityType DEF Inv, PoolInv
    <3>3. n \in Nat
      BY <3>2
    <3> QED
      BY <3>1, <3>3 DEF WithNonce
  <2> QED
    BY <2>1, <2>2 DEF ReadNonce
<1>3. /\ call' \in [Withdrawals -> Calls] /\ call'[c].pc = "nonce"
      /\ call'[c].hash = call[c].hash
      /\ \A d \in Withdrawals : d # c => call'[d] = call[d]
  BY <1>2, CallFields DEF Calls
<1>4. TypeOK'
  BY <1>1, <1>3 DEF Inv, TypeOK, chainVars
<1>5. \A e \in Urls : \A tx \in pool[e] : tx.call \in Withdrawals /\ tx.call # c
  BY <1>1, CallFields DEF Inv, PoolInv
<1>6. PoolInv'
  BY <1>1, <1>3, <1>5 DEF Inv, PoolInv
<1>7. ~call[c].hash /\ mined[c] # 1
  BY <1>1 DEF Inv, MinedInv
<1>8. MinedInv'
  BY <1>1, <1>3, <1>7 DEF Inv, MinedInv, Taken, chainVars
<1> QED
  BY <1>1, <1>4, <1>6, <1>8, SameBlocks DEF Inv

(* A call goes on with the nonce it has.                                   *)
LEMMA SameNonce ==
  ASSUME Inv, NEW c \in Withdrawals, UNCHANGED <<chainVars, scan, mined>>,
         \A d \in Withdrawals : d # c => call'[d] = call[d],
         call'[c].nonce = call[c].nonce, call[c].pc \in {"nonce", "send"},
         call'[c].pc \in {"send", "ok", "error"},
         call'[c].pc = "send" => call'[c].tried \in Urls,
         call'[c].hash => call'[c].pc = "ok" /\ Taken(c)' # {},
         \A e \in Urls : pool[e] \subseteq pool'[e] /\ IsFiniteSet(pool'[e]),
         \A e \in Urls : \A tx \in pool'[e] \ pool[e] :
            tx.call = c /\ tx.nonce = call[c].nonce,
         TypeOK'
  PROVE  Inv'
<1>1. PoolInv'
  <2>1. ASSUME NEW e \in Urls, NEW tx \in pool'[e]
        PROVE  tx.nonce = call'[tx.call].nonce /\ call'[tx.call].pc \in {"send", "ok", "error"}
    <3>1. CASE tx \in pool[e]
      <4>1. tx.call \in Withdrawals
        BY <3>1, CallFields
      <4> QED
        BY <3>1, <4>1 DEF Inv, PoolInv
    <3>2. CASE tx \notin pool[e]
      BY <3>2
    <3> QED
      BY <3>1, <3>2
  <2> QED
    BY <2>1 DEF Inv, PoolInv
<1>2. MinedInv'
  <2>1. \A d \in Withdrawals : Taken(d) \subseteq Taken(d)'
    BY DEF Taken
  <2>2. chain' = chain
    BY DEF chainVars
  <2> QED
    BY <2>1, <2>2 DEF Inv, MinedInv
<1> QED
  BY <1>1, <1>2, SameBlocks DEF Inv

LEMMA PrepareInv ==
  ASSUME Inv, NEW c \in Withdrawals, Prepared(c) \/ PrepareFails(c)
  PROVE  Inv'
<1>1. 1 \in Urls /\ call[c].pc = "nonce" /\ UNCHANGED <<chainVars, scan, pool, mined>>
  BY ScannerAssumption DEF Urls, Prepared, PrepareFails
<1>2. /\ call' \in [Withdrawals -> Calls]
      /\ \A d \in Withdrawals : d # c => call'[d] = call[d]
      /\ call'[c].nonce = call[c].nonce /\ call'[c].hash = call[c].hash
      /\ call'[c].pc \in {"send", "error"} /\ (call'[c].pc = "send" => call'[c].tried \in Urls)
  BY <1>1, CallFields DEF Prepared, PrepareFails, Calls
<1>3. TypeOK'
  BY <1>1, <1>2 DEF Inv, TypeOK, chainVars
<1>4. ~call[c].hash /\ \A e \in Urls : IsFiniteSet(pool[e])
  BY <1>1 DEF Inv, PoolInv, MinedInv
<1> QED
  BY <1>1, <1>2, <1>3, <1>4, SameNonce

(* The next endpoint, or the call ends.                                    *)
LEMMA NextCall ==
  ASSUME Inv, NEW c \in Withdrawals, call[c].pc = "send", NEW new,
         new \in {NextUrl(c), Returns(c, "ok", TRUE), Returns(c, "ok", FALSE)}
  PROVE  /\ new \in Calls /\ new.nonce = call[c].nonce /\ new.pc \in {"send", "ok", "error"}
         /\ new.pc = "send" => new.tried \in Urls
         /\ new.hash => new = Returns(c, "ok", TRUE) /\ new.pc = "ok"
<1>1. call[c] \in Calls /\ call[c].tried \in Urls /\ ~call[c].hash
  BY CallFields DEF Inv, PoolInv, MinedInv
<1>2. ASSUME NEW pc \in {"ok", "error"}, NEW hash \in BOOLEAN
      PROVE  /\ Returns(c, pc, hash) \in Calls /\ Returns(c, pc, hash).nonce = call[c].nonce
             /\ Returns(c, pc, hash).pc = pc /\ Returns(c, pc, hash).hash = hash
  BY <1>1 DEF Returns, Calls
<1>3. CASE new = NextUrl(c) /\ call[c].tried # Endpoints
  <2>1. call[c].tried + 1 \in Urls /\ call[c].tried + 1 \in Nat
    BY <1>1, <1>3, ScannerAssumption DEF Urls
  <2>2. new = [call[c] EXCEPT !.tried = call[c].tried + 1]
    BY <1>1, <1>3 DEF NextUrl, Calls
  <2> QED
    BY <1>1, <2>1, <2>2 DEF Calls
<1>4. CASE new = NextUrl(c) /\ call[c].tried = Endpoints
  BY <1>2, <1>4 DEF NextUrl
<1>5. CASE new = Returns(c, "ok", TRUE) \/ new = Returns(c, "ok", FALSE)
  BY <1>2, <1>5
<1> QED
  BY <1>3, <1>4, <1>5

LEMMA BroadcastFailsInv ==
  ASSUME Inv, NEW c \in Withdrawals, NEW empty \in BOOLEAN, BroadcastFails(c, empty)
  PROVE  Inv'
<1> DEFINE new == IF empty THEN Returns(c, "ok", FALSE) ELSE NextUrl(c)
<1>1. call[c].pc = "send" /\ UNCHANGED <<chainVars, scan, pool, mined>>
      /\ call' = [call EXCEPT ![c] = new]
  BY DEF BroadcastFails
<1>2. new \in {NextUrl(c), Returns(c, "ok", TRUE), Returns(c, "ok", FALSE)}
  OBVIOUS
<1>3. /\ new \in Calls /\ new.nonce = call[c].nonce /\ new.pc \in {"send", "ok", "error"}
      /\ new.pc = "send" => new.tried \in Urls
      /\ ~new.hash
  <2>1. Returns(c, "ok", FALSE).hash = FALSE /\ ~call[c].hash /\ Returns(c, "error", FALSE).hash = FALSE
    BY <1>1, CallFields DEF Returns, Calls, Inv, MinedInv
  <2>2. ~new.hash
    BY <2>1, CallFields DEF NextUrl, Calls
  <2> HIDE DEF new
  <2> QED
    BY <1>1, <1>2, <2>2, NextCall
<1> HIDE DEF new
<1>4. /\ call' \in [Withdrawals -> Calls] /\ call'[c] = new
      /\ \A d \in Withdrawals : d # c => call'[d] = call[d]
  BY <1>1, <1>3, CallFields
<1>5. TypeOK' /\ \A e \in Urls : IsFiniteSet(pool[e])
  BY <1>1, <1>4 DEF Inv, TypeOK, chainVars, PoolInv
<1> QED
  BY <1>1, <1>3, <1>4, <1>5, SameNonce

LEMMA BroadcastInv ==
  ASSUME Inv, NEW c \in Withdrawals, NEW answered \in BOOLEAN, Broadcast(c, answered)
  PROVE  Inv'
<1> DEFINE e == call[c].tried
           tx == Signed(c, e)
           new == IF answered THEN Returns(c, "ok", TRUE) ELSE NextUrl(c)
<1>1. /\ call[c].pc = "send" /\ e \in Urls
      /\ pool' = [pool EXCEPT ![e] = @ \cup {tx}] /\ call' = [call EXCEPT ![c] = new]
      /\ UNCHANGED <<chainVars, scan, mined>>
  BY DEF Broadcast, Inv, PoolInv
<1>2. tx = [call |-> c, nonce |-> call[c].nonce] /\ tx \in Tx
  BY CallFields DEF Signed, Tx
<1> HIDE DEF tx
<1>3. new \in {NextUrl(c), Returns(c, "ok", TRUE), Returns(c, "ok", FALSE)}
  OBVIOUS
<1> HIDE DEF new
<1>4. /\ new \in Calls /\ new.nonce = call[c].nonce /\ new.pc \in {"send", "ok", "error"}
      /\ new.pc = "send" => new.tried \in Urls
      /\ new.hash => new.pc = "ok"
  BY <1>1, <1>3, NextCall
<1>5. /\ call' \in [Withdrawals -> Calls] /\ call'[c] = new
      /\ \A d \in Withdrawals : d # c => call'[d] = call[d]
  BY <1>1, <1>4, CallFields
<1>6. /\ pool' \in [Urls -> SUBSET Tx] /\ tx \in pool'[e]
      /\ \A u \in Urls : pool[u] \subseteq pool'[u] /\ IsFiniteSet(pool'[u])
      /\ \A u \in Urls : \A x \in pool'[u] \ pool[u] : x = tx
  <2> HIDE DEF e
  <2>1. pool \in [Urls -> SUBSET Tx] /\ IsFiniteSet(pool[e] \cup {tx})
    BY <1>1, CallFields, FS_AddElement DEF Inv, PoolInv
  <2> QED
    BY <1>1, <1>2, <2>1 DEF Inv, PoolInv
<1>7. Taken(c)' # {}
  BY <1>1, <1>2, <1>6 DEF Taken
<1>8. TypeOK'
  BY <1>1, <1>5, <1>6 DEF Inv, TypeOK, chainVars
<1>9. \A u \in Urls : \A x \in pool'[u] \ pool[u] : x.call = c /\ x.nonce = call[c].nonce
  BY <1>2, <1>6
<1> QED
  BY <1>1, <1>4, <1>5, <1>6, <1>7, <1>8, <1>9, SameNonce

LEMMA GossipInv == ASSUME Inv, NEW from \in Urls, NEW to \in Urls, Gossip(from, to) PROVE Inv'
<1>1. PICK tx \in pool[from] : pool' = [pool EXCEPT ![to] = @ \cup {tx}]
  BY DEF Gossip
<1>2. UNCHANGED <<chainVars, scan, call, mined>> /\ tx \in Tx
  BY <1>1, CallFields DEF Gossip
<1>3. /\ pool' \in [Urls -> SUBSET Tx]
      /\ \A u \in Urls : pool[u] \subseteq pool'[u] /\ IsFiniteSet(pool'[u])
      /\ \A u \in Urls : \A x \in pool'[u] : x \in pool[u] \/ x = tx
  BY <1>1, <1>2, CallFields, FS_AddElement DEF Inv, PoolInv
<1>4. TypeOK'
  BY <1>2, <1>3 DEF Inv, TypeOK, chainVars
<1>5. PoolInv'
  BY <1>1, <1>2, <1>3 DEF Inv, PoolInv
<1>6. \A c \in Withdrawals : Taken(c) \subseteq Taken(c)'
  BY <1>3 DEF Taken
<1>7. MinedInv'
  BY <1>2, <1>6 DEF Inv, MinedInv, chainVars
<1> QED
  BY <1>2, <1>4, <1>5, <1>7, SameBlocks DEF Inv
-----------------------------------------------------------------------------
(* The invariant is inductive.                                             *)
LEMMA InvHolds == Spec => []Inv
<1>1. Init => Inv
  BY InitInv
<1>2. Inv /\ [Next]_scannerVars => Inv'
  <2> SUFFICES ASSUME Inv, [Next]_scannerVars PROVE Inv'
    OBVIOUS
  <2>1. CASE UNCHANGED scannerVars
    <3>1. UNCHANGED <<chainVars, scan, txVars>> /\ chain' = chain /\ TypeOK'
      BY <2>1 DEF scannerVars, chainVars, txVars, Inv, TypeOK
    <3> QED
      BY <3>1, SameCalls, SameBlocks DEF Inv
  <2> QED
    BY <2>1, ScanStepInv, OpenSessionInv, CloseSessionInv, ReleaseHoldInv, ReadNonceInv,
       PrepareInv, BroadcastFailsInv, BroadcastInv, GossipInv, MineInv, SyncInv DEF Next
<1> QED
  BY <1>1, <1>2, PTL DEF Spec

(* Type correctness of the chain, the scan and the withdrawals.            *)
THEOREM ScannerTypeCorrect == Spec => []TypeOK
  BY InvHolds, PTL DEF Inv

(* However often its transaction is broadcast, by whichever endpoints it   *)
(* is passed on and however far they lag, a call of WithdrawUserStakes     *)
(* withdraws at most once.                                                 *)
THEOREM WithdrawsOnce == Spec => []WithdrawnOnce
<1>1. Inv => WithdrawnOnce
  <2> SUFFICES ASSUME Inv, NEW c \in Withdrawals
               PROVE  /\ mined[c] <= 1 /\ Cardinality(Taken(c)) <= 1
                      /\ call[c].hash => mined[c] = 1 \/ Taken(c) # {} \/ chain.nonce > call[c].nonce
    BY DEF WithdrawnOnce
  <2> DEFINE own == [call |-> c, nonce |-> call[c].nonce]
  <2>1. Taken(c) \subseteq {own}
    BY DEF Taken, Inv, TypeOK, PoolInv, Tx
  <2>2. IsFiniteSet({own}) /\ Cardinality({own}) = 1
    BY FS_Singleton
  <2>3. Cardinality(Taken(c)) <= 1
    BY <2>1, <2>2, FS_Subset
  <2> QED
    BY <2>3 DEF Inv, MinedInv
<1> QED
  BY <1>1, InvHolds, PTL

(* Money that moves during a scan is missed at worst, for every number of  *)
(* sessions and every batch size, as long as the answers do not go back to *)
(* an older block and no session is opened between them.                   *)
THEOREM ScanIsBounded == Spec => []ScanNeverOverstates
<1>1. Inv => ScanNeverOverstates
  <2> SUFFICES ASSUME Inv, scan.pc = "done", ~scan.back, ~scan.opened
               PROVE  scan.found <= scan.owned
    BY DEF ScanNeverOverstates
  <2>1. scan.found + Held + Left <= scan.owned
    BY DEF Inv, ScanInv, Running
  <2> QED
    BY <2>1, ScanFields
<1> QED
  BY <1>1, InvHolds, PTL

(* A scan that reports itself complete, between whose answers nothing      *)
(* moved and all of whose answers held a result finds every unit the       *)
(* wallet has, for every number of sessions, every batch size, every       *)
(* choice of endpoints and every failure it recovers from.                 *)
THEOREM QuietScan == Spec => []QuietScanIsExact
<1>1. Inv => QuietScanIsExact
  <2> SUFFICES ASSUME Inv, scan.pc = "done", ~Incomplete, ~scan.moved, ~scan.empty
               PROVE  scan.found = scan.owned
    BY DEF QuietScanIsExact
  <2>1. OpenIn(scan.last) \cap Unread = {} /\ Left = 0 /\ Held = 0 /\ Ahead = 0
    <3>1. Unread = {}
      BY DEF Unread
    <3> QED
      BY <3>1, FS_EmptySet DEF Left, Held, Ahead
  <2>2. scan.scanned + Ahead = scan.total
    BY <2>1, ScanFields DEF Inv, ExactInv, Counted, Incomplete
  <2>3. scan.found + 0 + 0 = scan.owned
    BY <2>1, <2>2 DEF Inv, ExactInv, Quiet, Running
  <2> QED
    BY <2>3, ScanFields
<1> QED
  BY <1>1, InvHolds, PTL
=============================================================================
