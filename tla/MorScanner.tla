----------------------------- MODULE MorScanner -----------------------------
(***************************************************************************)
(* Where the wallet's MOR is and how it is recovered: ScanWalletMOR        *)
(* and WithdrawUserStakes (mobile/mor_scanner.go).  Neither of them        *)
(* holds mu while it works: each is a series of calls to RPC endpoints,    *)
(* and the chain goes on between two calls.                                *)
(*                                                                         *)
(* Every stake is one unit.  The chain is external: MOR moves between the  *)
(* wallet, the stakes of open sessions and the two on-hold amounts of the  *)
(* inference contract, and the list of a user's sessions only grows.  An   *)
(* endpoint answers from the latest block it has, which may lag behind the *)
(* chain; each call starts at the first endpoint and falls back on its     *)
(* own, so two reads of a scan may be answered by different ones.  An      *)
(* answer may also hold neither a result nor an error: the code takes it   *)
(* for an empty result.                                                    *)
(***************************************************************************)
EXTENDS Integers, Sequences, FiniteSets

CONSTANTS Endpoints,    \* number of URLs in savedRPC, tried in this order
          BatchSize,    \* batchSize, 50 in the code
          MaxSessions,  \* bound on the sessions ever opened
          MaxLag,       \* bound on the transactions an endpoint is behind
          Funds,        \* MOR the wallet has at first
          Withdrawals   \* calls of WithdrawUserStakes

ASSUME ScannerAssumption ==
    /\ Endpoints \in Nat \ {0} /\ BatchSize \in Nat \ {0}
    /\ MaxSessions \in Nat /\ MaxLag \in Nat /\ Funds \in Nat

Urls == 1..Endpoints

VARIABLES chain,      \* the latest block
          view,       \* the latest block each endpoint has
          scan,       \* the scan that is running
          call,       \* each withdrawal: where it is, and its result
          pool,       \* the withdrawals each endpoint has accepted and not seen mined
          mined       \* how often a transaction of each was mined

chainVars == <<chain, view>>
txVars == <<call, pool, mined>>
scannerVars == <<chain, view, scan, call, pool, mined>>

(* Of the wallet, in a block: its MOR, what is on hold until tomorrow and  *)
(* what is available again, its sessions, oldest first (is the stake still *)
(* in it), and its transactions up to there.                               *)
Blocks == [wallet : Nat, locked : Nat, available : Nat, sessions : Seq(BOOLEAN), nonce : Nat]

Genesis == [wallet |-> Funds, locked |-> 0, available |-> 0, sessions |-> <<>>, nonce |-> 0]

OpenIn(b) == {i \in DOMAIN b.sessions : b.sessions[i]}
OnHold(b) == b.locked + b.available
Owned(b) == b.wallet + OnHold(b) + Cardinality(OpenIn(b))

(* The scan's record also keeps what the wallet had in the block of the    *)
(* first answer, the block of the last one, and what has happened between  *)
(* the blocks of two answers: the second was the older, a session was      *)
(* opened, the wallet had any transaction; and whether one was empty.      *)
NoScan == [pc |-> "idle", found |-> 0, total |-> 0, remaining |-> 0, ids |-> <<>>,
           scanned |-> 0, owned |-> 0, last |-> Genesis,
           back |-> FALSE, opened |-> FALSE, moved |-> FALSE, empty |-> FALSE]

Scans == [pc : {"idle", "hold", "count", "batch", "sessions", "done"},
          found : Nat, total : Nat, remaining : Nat, ids : Seq(Nat), scanned : Nat,
          owned : Nat, last : Blocks,
          back : BOOLEAN, opened : BOOLEAN, moved : BOOLEAN, empty : BOOLEAN]

NoCall == [pc |-> "idle", nonce |-> 0, tried |-> 0, hash |-> FALSE]
Calls == [pc : {"idle", "nonce", "send", "ok", "error"}, nonce : Nat, tried : Nat,
          hash : BOOLEAN]
Tx == [call : Withdrawals, nonce : Nat]

TypeOK ==
    /\ chain \in Blocks
    /\ view \in [Urls -> Blocks]
    /\ scan \in Scans
    /\ call \in [Withdrawals -> Calls]
    /\ pool \in [Urls -> SUBSET Tx]
    /\ mined \in [Withdrawals -> Nat]

Init ==
    /\ chain = Genesis
    /\ view = [e \in Urls |-> Genesis]
    /\ scan = NoScan
    /\ call = [c \in Withdrawals |-> NoCall]
    /\ pool = [e \in Urls |-> {}]
    /\ mined = [c \in Withdrawals |-> 0]
-----------------------------------------------------------------------------
(* The chain.  Sessions are opened and closed by the SDK's transactions,   *)
(* which take nonces of the same wallet.                                   *)
Mined(b) ==
    /\ \A e \in Urls : b.nonce - view[e].nonce <= MaxLag
    /\ chain' = b
    /\ UNCHANGED <<view, scan, call, pool>>

OpenSession ==
    /\ chain.wallet > 0 /\ Len(chain.sessions) < MaxSessions
    /\ Mined([chain EXCEPT !.wallet = @ - 1, !.sessions = Append(@, TRUE), !.nonce = @ + 1])
    /\ UNCHANGED mined

(* The stake comes back to the wallet, or is put on hold when the session  *)
(* is closed early.                                                        *)
CloseSession(i, early) ==
    /\ i \in OpenIn(chain)
    /\ LET closed == [chain EXCEPT !.sessions[i] = FALSE, !.nonce = @ + 1]
       IN  Mined(IF early THEN [closed EXCEPT !.locked = @ + 1]
                          ELSE [closed EXCEPT !.wallet = @ + 1])
    /\ UNCHANGED mined

ReleaseHold ==
    /\ chain.locked > 0
    /\ Mined([chain EXCEPT !.locked = 0, !.available = chain.available + chain.locked])
    /\ UNCHANGED mined

(* A withdrawal is mined: what is available goes to the wallet.            *)
MineWithdrawal(tx) ==
    /\ tx.nonce = chain.nonce
    /\ Mined([chain EXCEPT !.wallet = @ + chain.available, !.available = 0, !.nonce = @ + 1])
    /\ mined' = [mined EXCEPT ![tx.call] = @ + 1]

(* An endpoint catches up, and drops the withdrawals whose nonce is used.  *)
Sync(e) ==
    /\ view[e] # chain
    /\ view' = [view EXCEPT ![e] = chain]
    /\ pool' = [pool EXCEPT ![e] = {tx \in @ : tx.nonce >= chain.nonce}]
    /\ UNCHANGED <<chain, scan, call, mined>>
-----------------------------------------------------------------------------
(* ScanWalletMOR: the balance, the on-hold amounts, the number of sessions *)
(* and then the sessions, newest first, in batches.  Each is asked of one  *)
(* endpoint after the other until one answers, here from its block b.      *)
Scanning == scan.pc \notin {"idle", "done"}

Answered(b, empty, next) ==
    /\ scan' = [next EXCEPT !.last = b, !.back = @ \/ b.nonce < scan.last.nonce,
                    !.opened = @ \/ Len(b.sessions) # Len(scan.last.sessions),
                    !.moved = @ \/ b.nonce # scan.last.nonce, !.empty = @ \/ empty]
    /\ UNCHANGED <<chainVars, txVars>>

(* decodeBigInt, and the amounts of an answer that is too short, are 0.    *)
Decoded(empty, n) == IF empty THEN 0 ELSE n

ReadBalance(b, empty) ==
    /\ ~Scanning
    /\ scan' = [NoScan EXCEPT !.pc = "hold", !.found = Decoded(empty, b.wallet),
                              !.owned = Owned(b), !.last = b, !.empty = empty]
    /\ UNCHANGED <<chainVars, txVars>>

ReadOnHold(b, empty) ==
    /\ scan.pc = "hold"
    /\ Answered(b, empty, [scan EXCEPT !.pc = "count", !.found = @ + Decoded(empty, OnHold(b))])

ReadCount(b, empty) ==
    /\ scan.pc = "count"
    /\ LET total == Decoded(empty, Len(b.sessions))
       IN  Answered(b, empty, [scan EXCEPT !.pc = "batch", !.total = total, !.remaining = total])

(* No endpoint answers one of the first three: an error is all there is.   *)
ScanFails ==
    /\ scan.pc \in {"hold", "count"}
    /\ scan' = NoScan
    /\ UNCHANGED <<chainVars, txVars>>

\* Mutated forms: a last batch that is as long as the others.
LimitFixed == BatchSize
OffsetUnclipped == scan.remaining - BatchSize

Limit == IF scan.remaining > BatchSize THEN BatchSize ELSE scan.remaining
Offset == scan.remaining - Limit

(* getUserSessions(offset, limit): those of them the block has.            *)
Listed(b) == {i \in 1..Limit : Offset + i <= Len(b.sessions)}
BatchIds(b) == [i \in 1..Cardinality(Listed(b)) |-> Offset + i]

AfterIds(rest) == IF rest = <<>> THEN "batch" ELSE "sessions"

ReadBatch(b) ==
    /\ scan.pc = "batch" /\ scan.remaining > 0
    /\ Answered(b, FALSE, [scan EXCEPT !.pc = AfterIds(BatchIds(b)), !.ids = BatchIds(b),
                                       !.remaining = scan.remaining - Limit])

(* The loop ends, or breaks at a batch that no endpoint answers, or that   *)
(* is answered too short.                                                  *)
ScanDone ==
    /\ scan.pc = "batch"
    /\ scan' = [scan EXCEPT !.pc = "done"]
    /\ UNCHANGED <<chainVars, txVars>>

CountsAll(b, i) == i \in DOMAIN b.sessions  \* mutated: closedAt is not looked at

(* getSession: its stake counts while closedAt is zero.  A block that does *)
(* not have the session yet answers with a stake of zero.                  *)
Counts(b, i) == i \in OpenIn(b)

ReadSession(b) ==
    /\ scan.pc = "sessions"
    /\ Answered(b, FALSE, [scan EXCEPT !.pc = AfterIds(Tail(scan.ids)), !.ids = Tail(@),
                                       !.scanned = @ + 1,
                                       !.found = IF Counts(b, Head(scan.ids)) THEN @ + 1 ELSE @])

(* Not answered, or too short: the session is passed over.                 *)
SkipSession ==
    /\ scan.pc = "sessions"
    /\ scan' = [scan EXCEPT !.pc = AfterIds(Tail(scan.ids)), !.ids = Tail(@)]
    /\ UNCHANGED <<chainVars, txVars>>

Incomplete == scan.scanned < scan.total
-----------------------------------------------------------------------------
(* WithdrawUserStakes and sendTransaction.  The wallet screen waits for    *)
(* the call to return, so there is one at a time.  First the nonce from an *)
(* endpoint that answers, which counts the withdrawals that endpoint knows *)
(* of, or 0 when the answer is empty; then gas and base fee, which change  *)
(* nothing; then the signed transaction to one endpoint after the other    *)
(* until one confirms it.                                                  *)
PendingNonce(e, n) ==
    /\ n \in view[e].nonce..(view[e].nonce + Cardinality(pool[e]))
    /\ \A k \in view[e].nonce..(n - 1) : \E tx \in pool[e] : tx.nonce = k
    /\ \A tx \in pool[e] : tx.nonce # n

WithNonce(c, n) == call' = [call EXCEPT ![c].pc = "nonce", ![c].nonce = n]

ReadNonce(c) ==
    /\ call[c].pc = "idle"
    /\ \A other \in Withdrawals : call[other].pc \notin {"nonce", "send"}
    /\ \/ \E e \in Urls : \E n \in 0..(view[e].nonce + Cardinality(pool[e])) :
            PendingNonce(e, n) /\ WithNonce(c, n)
       \/ WithNonce(c, 0)
    /\ UNCHANGED <<chainVars, scan, pool, mined>>

Prepared(c) ==
    /\ call[c].pc = "nonce"
    /\ call' = [call EXCEPT ![c].pc = "send", ![c].tried = 1]
    /\ UNCHANGED <<chainVars, scan, pool, mined>>

PrepareFails(c) ==
    /\ call[c].pc = "nonce"
    /\ call' = [call EXCEPT ![c].pc = "error"]
    /\ UNCHANGED <<chainVars, scan, pool, mined>>

SignedAgain(c, e) == [call |-> c, nonce |-> view[e].nonce]  \* mutated

(* Signed once, before the first endpoint is tried.                        *)
Signed(c, e) == [call |-> c, nonce |-> call[c].nonce]

(* An endpoint takes a transaction whose nonce is not used up and that it  *)
(* does not have; another one with the nonce would be an underpriced       *)
(* replacement.                                                            *)
Takes(e, tx) == tx.nonce >= view[e].nonce /\ \A other \in pool[e] : other.nonce # tx.nonce

Returns(c, pc, hash) == [call[c] EXCEPT !.pc = pc, !.tried = 0, !.hash = hash]

NextUrl(c) == IF call[c].tried = Endpoints THEN Returns(c, "error", FALSE)
                                           ELSE [call[c] EXCEPT !.tried = @ + 1]

(* Taken, and the answer arrives or is lost: then the next one is tried.   *)
Broadcast(c, answered) ==
    LET e == call[c].tried
    IN  /\ call[c].pc = "send"
        /\ Takes(e, Signed(c, e))
        /\ pool' = [pool EXCEPT ![e] = @ \cup {Signed(c, e)}]
        /\ call' = [call EXCEPT ![c] = IF answered THEN Returns(c, "ok", TRUE) ELSE NextUrl(c)]
        /\ UNCHANGED <<chainVars, scan, mined>>

(* The endpoint cannot be reached, or it answers with an error, also when  *)
(* it knows the transaction already: the next one.  Or its answer is empty *)
(* and success is reported without a transaction hash.                     *)
BroadcastFails(c, empty) ==
    /\ call[c].pc = "send"
    /\ call' = [call EXCEPT ![c] = IF empty THEN Returns(c, "ok", FALSE) ELSE NextUrl(c)]
    /\ UNCHANGED <<chainVars, scan, pool, mined>>

(* Nodes pass transactions on.                                             *)
Gossip(from, to) ==
    /\ \E tx \in pool[from] :
         /\ Takes(to, tx)
         /\ pool' = [pool EXCEPT ![to] = @ \cup {tx}]
    /\ UNCHANGED <<chainVars, scan, call, mined>>
-----------------------------------------------------------------------------
Scan ==
    \/ \E e \in Urls, empty \in BOOLEAN :
         \/ ReadBalance(view[e], empty) \/ ReadOnHold(view[e], empty) \/ ReadCount(view[e], empty)
    \/ \E e \in Urls : ReadBatch(view[e]) \/ ReadSession(view[e])
    \/ ScanFails \/ ScanDone \/ SkipSession

Next ==
    \/ Scan
    \/ OpenSession
    \/ \E i \in DOMAIN chain.sessions, early \in BOOLEAN : CloseSession(i, early)
    \/ ReleaseHold
    \/ \E c \in Withdrawals :
         \/ ReadNonce(c) \/ Prepared(c) \/ PrepareFails(c)
         \/ \E answer \in BOOLEAN : Broadcast(c, answer) \/ BroadcastFails(c, answer)
    \/ \E from, to \in Urls : Gossip(from, to)
    \/ \E e \in Urls : Sync(e) \/ \E tx \in pool[e] : MineWithdrawal(tx)

Spec == Init /\ [][Next]_scannerVars
-----------------------------------------------------------------------------
(* Safety: a scan whose answers never go back to an older block, whichever *)
(* endpoints they come from, and under which no session is opened never    *)
(* finds more than the wallet had in its first block, complete or not: MOR *)
(* that comes back during the scan is missed at worst, never counted       *)
(* twice, because the scan reads against the direction in which it moves.  *)
ScanNeverOverstates ==
    scan.pc = "done" /\ ~scan.back /\ ~scan.opened => scan.found <= scan.owned

(* Safety: a scan that is not marked incomplete, whose answers all came    *)
(* from blocks between which the wallet had no transaction and held a      *)
(* result, finds every unit, however many batches the sessions take.       *)
QuietScanIsExact ==
    scan.pc = "done" /\ ~Incomplete /\ ~scan.moved /\ ~scan.empty => scan.found = scan.owned

(* Safety: however often its transaction is broadcast again after an       *)
(* answer that was lost, one call has one transaction and withdraws at     *)
(* most once; and one that reported the hash of its transaction has been   *)
(* mined, can still be, or lost its nonce to another transaction of the    *)
(* wallet.                                                                 *)
Taken(c) == {tx \in UNION {pool[e] : e \in Urls} : tx.call = c}

WithdrawnOnce ==
    \A c \in Withdrawals :
        /\ mined[c] <= 1 /\ Cardinality(Taken(c)) <= 1
        /\ call[c].hash => mined[c] = 1 \/ Taken(c) # {} \/ chain.nonce > call[c].nonce
=============================================================================
