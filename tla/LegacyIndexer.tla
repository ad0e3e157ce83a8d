---------------------------- MODULE LegacyIndexer ----------------------------
(***************************************************************************)
(* The first indexer (apps/indexer): on every tick it fetches one range of *)
(* blocks, sorts the events by kind and writes each kind in a transaction  *)
(* of its own, then stores the last block.  An error of a write is logged  *)
(* and the range goes on.                                                  *)
(*                                                                         *)
(* Several trades of one transaction share its hash: txs gives the         *)
(* transaction of each log, and the trades table is keyed by (hash, type). *)
(* watchNewBlocks only logs headers and changes no state.                  *)
(*                                                                         *)
(* A commit that lands after its process is gone is the same as one that   *)
(* landed before: the next process writes the same rows, so its statements *)
(* wait for it, and its checkpoint is not part of it.                      *)
(***************************************************************************)
EXTENDS Candles

CONSTANTS
    BlockBatchSize, \* Chain.BlockBatchSize
    MinBatch,       \* the floor of the batch size (10 in the code)
    RecoverAfter,   \* successes before the batch size grows again (10)
    RpcLimit,       \* most logs the node returns in one answer
    MaxFailures,    \* bound: errors that the code logs and ignores
    MaxExits        \* bound: times the process exits

ASSUME LegacyAssumption ==
    /\ BlockBatchSize \in Nat \ {0}
    /\ MinBatch \in Nat \ {0}
    /\ RecoverAfter \in Nat \ {0}
    /\ RpcLimit \in Nat
    /\ MaxFailures \in Nat
    /\ MaxExits \in Nat

VARIABLES
    txs,            \* the transaction of each log, named by its first log
    db,             \* the committed tables
    tx,             \* the image the open batch transaction would commit, as a set of at most one
    stage,          \* 0: down, 1: between ticks, 2 .. 5: writing StageKind
    next,           \* currentBlock
    end,            \* toBlock
    todo,           \* parsed events of the range not written yet
    batch,          \* currentBatchSize
    successes,      \* consecutiveSuccesses, up to RecoverAfter
    failures,       \* errors ignored so far
    exits           \* times the process has exited

memVars == <<stage, next, end, todo, batch, successes>>
vars == <<chain, head, txs, db, tx, memVars, failures, exits>>

RM == INSTANCE ReadModel WITH chain <- chain, head <- head, db <- db

-----------------------------------------------------------------------------
(* The tables.                                                             *)

TokenRow == [status : {RM!Absent, RM!Trading, RM!Graduated}, totals : Nat]

IsDatabase(d) ==
    /\ d = [events |-> d.events, trades |-> d.trades, tokens |-> d.tokens,
            klines |-> d.klines, ckpt |-> d.ckpt]
    /\ d.events \subseteq DOMAIN chain
    /\ d.trades \subseteq Nat \X TradeKinds
    /\ d.tokens \in [Tokens -> TokenRow]
    /\ IsKlineTable(d.klines)
    /\ d.ckpt \in Nat

-----------------------------------------------------------------------------
(* The statements of one event k on the image d.                           *)

\* syncBlockRange writes the kinds in this order.
StageKind == [s \in 2 .. 5 |->
    CASE s = 2 -> "TokenCreated"
      [] s = 3 -> "TokenBought"
      [] s = 4 -> "TokenSold"
      [] s = 5 -> "TokenGraduated"]

\* The key of a row in trades.
TradeRow(k) == <<txs[k], chain[k].kind>>

\* The events updateKlineData does not skip: it ignores a trade of no tokens.
Priced(S) == {k \in S : chain[k].price # 0}

\* Mutant: the upsert also writes the status.
StoreTokenCreated_Resets(d, k) ==
    LET t == chain[k].token
    IN [d EXCEPT
          !.events = @ \union {k},
          !.tokens = [@ EXCEPT ![t] = [status |-> RM!Trading, totals |-> d.tokens[t].totals]]]

\* An existing token keeps its status and its totals.
StoreTokenCreated(d, k) ==
    LET t == chain[k].token
    IN [d EXCEPT
          !.events = @ \union {k},
          !.tokens = IF d.tokens[t].status = RM!Absent
                     THEN [d.tokens EXCEPT ![t] = [status |-> RM!Trading, totals |-> 0]]
                     ELSE d.tokens]

UpdateToken(rows, t, row) ==
    IF rows[t].status = RM!Absent THEN rows ELSE [rows EXCEPT ![t] = row]

\* Mutant: only a new trades row updates the candles.
StoreTrade_NewRowsOnly(d, k, candlesWritten) ==
    LET t == chain[k].token
    IN [d EXCEPT
          !.events = @ \union {k},
          !.trades = @ \union {TradeRow(k)},
          !.tokens = UpdateToken(@, t, [status |-> d.tokens[t].status, totals |-> k]),
          !.klines = IF candlesWritten /\ chain[k].price # 0 /\ TradeRow(k) \notin d.trades
                     THEN UpsertKlines(@, k) ELSE @]

\* BatchInsertTokenBoughtEvents and BatchInsertTokenSoldEvents, one event: all
\* statements run for a row that was there already, too.  The candles are
\* written under a savepoint, whose failure is ignored.
StoreTrade(d, k, candlesWritten) ==
    LET t == chain[k].token
    IN [d EXCEPT
          !.events = @ \union {k},
          !.trades = @ \union {TradeRow(k)},
          !.tokens = UpdateToken(@, t, [status |-> d.tokens[t].status, totals |-> k]),
          !.klines = IF candlesWritten /\ chain[k].price # 0 THEN UpsertKlines(@, k) ELSE @]

StoreTokenGraduated(d, k) ==
    LET t == chain[k].token
    IN [d EXCEPT
          !.events = @ \union {k},
          !.tokens = UpdateToken(@, t, [status |-> RM!Graduated, totals |-> d.tokens[t].totals])]

-----------------------------------------------------------------------------

Init ==
    /\ ChainInit
    /\ txs = << >>
    /\ db = [events |-> {}, trades |-> {},
             tokens |-> [t \in Tokens |-> [status |-> RM!Absent, totals |-> 0]],
             klines |-> [c \in {} |-> 0],
             ckpt   |-> 0]
    /\ tx = {}
    /\ stage = 0
    /\ next = 0
    /\ end = 0
    /\ todo = {}
    /\ batch = 0
    /\ successes = 0
    /\ failures = 0
    /\ exits = 0

\* A new log starts a transaction or belongs to that of the log before it.
GrowChain ==
    /\ ChainNext
    /\ IF Len(chain') = Len(chain)
       THEN UNCHANGED txs
       ELSE \E first \in 1 .. Len(chain') :
              /\ \/ first = Len(chain')
                 \/ /\ Len(chain) > 0
                    /\ chain[Len(chain)].block = head + 1
                    /\ first = txs[Len(chain)]
              /\ txs' = Append(txs, first)
    /\ UNCHANGED <<db, tx, memVars, failures, exits>>

Fail ==
    /\ failures < MaxFailures
    /\ failures' = failures + 1

\* Start: a checkpoint that cannot be read counts as none.
Start ==
    /\ stage = 0
    /\ \/ /\ next' = IF db.ckpt > 0 THEN db.ckpt + 1 ELSE StartBlock
          /\ UNCHANGED failures
       \/ /\ next' = StartBlock
          /\ Fail
    /\ batch' = BlockBatchSize
    /\ stage' = 1
    /\ UNCHANGED <<chainVars, txs, db, tx, end, todo, successes, exits>>

ToBlock == LET b == next + batch - 1 IN IF b > head THEN head ELSE b

Fetched == LogsBetween(next, ToBlock)

\* Mutant: the batch size stays as it is.
PollLimited_KeepsBatch ==
    /\ stage = 1
    /\ next <= head
    /\ Cardinality(Fetched) > RpcLimit
    /\ successes' = 0
    /\ UNCHANGED <<chainVars, txs, db, tx, stage, next, end, todo, batch, failures, exits>>

\* "limit exceeded": the next tick asks for half as many blocks.
PollLimited ==
    /\ stage = 1
    /\ next <= head
    /\ Cardinality(Fetched) > RpcLimit
    /\ batch' = IF batch \div 2 < MinBatch THEN MinBatch ELSE batch \div 2
    /\ successes' = 0
    /\ UNCHANGED <<chainVars, txs, db, tx, stage, next, end, todo, failures, exits>>

\* FilterLogs answers.  A log whose block cannot be read is left out; other
\* topics are too.
Poll ==
    /\ stage = 1
    /\ next <= head
    /\ Cardinality(Fetched) <= RpcLimit
    /\ \E skipped \in SUBSET ProjectedAmong(Fetched) :
          /\ IF skipped = {} THEN UNCHANGED failures ELSE Fail
          /\ todo' = ProjectedAmong(Fetched) \ skipped
    /\ end' = ToBlock
    /\ stage' = 2
    /\ UNCHANGED <<chainVars, txs, db, tx, next, batch, successes, exits>>

\* A tick finds no new block, or BlockNumber or FilterLogs fails: the next tick
\* tries again.
PollInVain ==
    /\ stage = 1
    /\ UNCHANGED vars

Pending == {k \in todo : chain[k].kind = StageKind[stage]}

IsFirst(k) == k \in Pending /\ \A j \in Pending : k <= j

\* What the statements of the batch read.
Image == IF tx = {} THEN db ELSE CHOOSE d \in tx : TRUE

\* Mutant: the rows of events are inserted outside the transaction.
WriteEvent_Autocommit(k) ==
    /\ stage \in 2 .. 4
    /\ IsFirst(k)
    /\ db' = [db EXCEPT !.events = @ \union {k}]
    /\ tx' = {IF stage = 2 THEN StoreTokenCreated(Image, k) ELSE StoreTrade(Image, k, TRUE)}
    /\ todo' = todo \ {k}
    /\ UNCHANGED <<chainVars, txs, stage, next, end, batch, successes, failures, exits>>

\* The statements of the next event of the batch.
WriteEvent(k) ==
    /\ stage \in 2 .. 4
    /\ IsFirst(k)
    /\ \/ /\ tx' = {IF stage = 2 THEN StoreTokenCreated(Image, k) ELSE StoreTrade(Image, k, TRUE)}
          /\ UNCHANGED failures
       \/ /\ stage # 2
          /\ tx' = {StoreTrade(Image, k, FALSE)}
          /\ Fail
    /\ todo' = todo \ {k}
    /\ UNCHANGED <<chainVars, txs, db, stage, next, end, batch, successes, exits>>

CommitBatch ==
    /\ stage \in 2 .. 4
    /\ Pending = {}
    /\ db' = Image
    /\ tx' = {}
    /\ stage' = stage + 1
    /\ UNCHANGED <<chainVars, txs, next, end, todo, batch, successes, failures, exits>>

\* The transaction of the batch fails: its events are dropped.
BatchFails ==
    /\ stage \in 2 .. 4
    /\ Pending # {} \/ tx # {}
    /\ Fail
    /\ tx' = {}
    /\ todo' = todo \ Pending
    /\ stage' = stage + 1
    /\ UNCHANGED <<chainVars, txs, db, next, end, batch, successes, exits>>

\* Graduations are written one by one.
WriteGraduated(k) ==
    /\ stage = 5
    /\ IsFirst(k)
    /\ \/ /\ db' = StoreTokenGraduated(db, k)
          /\ UNCHANGED failures
       \/ /\ UNCHANGED db
          /\ Fail
    /\ todo' = todo \ {k}
    /\ UNCHANGED <<chainVars, txs, tx, stage, next, end, batch, successes, exits>>

RecoveredBatch == IF batch * 2 > BlockBatchSize THEN BlockBatchSize ELSE batch * 2

\* Mutant: the next range starts with the last block of this one.
Record_Overlaps ==
    /\ stage = 5
    /\ todo = {}
    /\ db' = [db EXCEPT !.ckpt = end]
    /\ next' = end
    /\ end' = 0
    /\ stage' = 1
    /\ UNCHANGED <<chainVars, txs, tx, todo, batch, successes, failures, exits>>

\* Mutant: the checkpoint is the newest block.
Record_Head ==
    /\ stage = 5
    /\ todo = {}
    /\ db' = [db EXCEPT !.ckpt = head]
    /\ next' = end + 1
    /\ end' = 0
    /\ stage' = 1
    /\ UNCHANGED <<chainVars, txs, tx, todo, batch, successes, failures, exits>>

\* The range is done: the batch size may grow, the checkpoint is stored, and
\* the process goes on behind the range even if storing it failed.
Record ==
    /\ stage = 5
    /\ todo = {}
    /\ IF successes + 1 >= RecoverAfter /\ batch < BlockBatchSize
       THEN batch' = RecoveredBatch /\ successes' = 0
       ELSE /\ UNCHANGED batch
            /\ successes' = IF successes + 1 > RecoverAfter THEN RecoverAfter ELSE successes + 1
    /\ \/ /\ db' = [db EXCEPT !.ckpt = end]
          /\ UNCHANGED failures
       \/ /\ UNCHANGED db
          /\ Fail
    /\ next' = end + 1
    /\ end' = 0
    /\ stage' = 1
    /\ UNCHANGED <<chainVars, txs, tx, todo, exits>>

\* Mutant: the transaction is left open.
Exit_NoRollback ==
    /\ stage # 0
    /\ exits < MaxExits
    /\ exits' = exits + 1
    /\ stage' = 0
    /\ next' = 0
    /\ end' = 0
    /\ todo' = {}
    /\ batch' = 0
    /\ successes' = 0
    /\ UNCHANGED <<chainVars, txs, db, tx, failures>>

\* Stop, a signal or a kill; the server rolls an open transaction back.
Exit ==
    /\ stage # 0
    /\ exits < MaxExits
    /\ exits' = exits + 1
    /\ tx' = {}
    /\ stage' = 0
    /\ next' = 0
    /\ end' = 0
    /\ todo' = {}
    /\ batch' = 0
    /\ successes' = 0
    /\ UNCHANGED <<chainVars, txs, db, failures>>

SyncStep ==
    \/ Start
    \/ PollLimited
    \/ Poll
    \/ PollInVain
    \/ \E k \in todo : WriteEvent(k)
    \/ CommitBatch
    \/ BatchFails
    \/ \E k \in todo : WriteGraduated(k)
    \/ Record

Next == GrowChain \/ SyncStep \/ Exit

Spec == Init /\ [][Next]_vars

\* The ticker fires for ever and an exited process is started again.
FairSpec == Spec /\ WF_vars(SyncStep)

-----------------------------------------------------------------------------
(* Properties.                                                             *)

\* Every variable has its type.
\* Code: the fields of Indexer and the variables of syncHistoricalBlocks.
TypeOK ==
    /\ ChainTypeOK
    /\ txs \in Seq(Nat) /\ Len(txs) = Len(chain)
    /\ \A d \in {db} \union tx : IsDatabase(d)
    /\ \A d, e \in tx : d = e
    /\ tx # {} => stage \in 2 .. 4
    /\ stage \in 0 .. 5 /\ next \in Nat /\ end \in Nat
    /\ todo \subseteq DOMAIN chain
    /\ batch \in Nat /\ successes \in 0 .. RecoverAfter
    /\ failures \in Nat /\ exits \in Nat

\* While no error was ignored, every event up to the checkpoint is stored,
\* whenever the process exited and however the batch size changed.
\* Code: UpdateLastSyncedBlock runs after all the batches of its range.
NothingLost ==
    failures = 0 => ProjectedAmong(LogsBetween(StartBlock, db.ckpt)) \subseteq db.events

\* An event and its trades row are stored together, also when statements fail.
\* Code: one transaction per batch, rolled back as a whole.
BatchAtomic == db.trades = {TradeRow(k) : k \in TradesAmong(db.events)}

\* While no error was ignored, a token has graduated exactly if its graduation
\* is stored, although the kinds of a range are written out of order and a
\* range may be written again.
\* Code: TokenCreated is written first, and its upsert leaves the status alone.
StatusExact ==
    failures = 0 =>
        \A t \in Tokens : db.tokens[t].status = RM!TokenImage(db.events, t).status

\* While no error was ignored, the high and the low of each candle are those
\* of all the stored trades of its interval that have a price, and each went
\* into the volume.
\* Code: GREATEST and LEAST do not depend on the order and on repetitions.
HighLowExact ==
    failures = 0 =>
        /\ DOMAIN db.klines = CandlesAmong(Priced(db.events))
        /\ \A c \in DOMAIN db.klines :
              LET image == RM!CandleImage(Priced(db.events), c)
              IN /\ db.klines[c].high = image.high
                 /\ db.klines[c].low = image.low
                 /\ db.klines[c].added = image.added

\* A trade is counted twice in a volume only after the process was restarted:
\* one process never writes a range it has written before.
\* Code: currentBlock = toBlock + 1 even if the checkpoint was not stored.
RepeatNeedsRestart ==
    \A c \in DOMAIN db.klines : db.klines[c].repeated # {} => exits > 0

\* A graduated token stays graduated and no stored event disappears, whatever
\* fails and whatever is written again.
\* Code: the upsert of TokenCreated does not set status.
GraduatedStays ==
    [][/\ db.events \subseteq db'.events
       /\ \A t \in Tokens :
             db.tokens[t].status = RM!Graduated => db'.tokens[t].status = RM!Graduated]_db

\* The node answers for MinBatch blocks.
SmallRangesFit ==
    \A b \in 0 .. MaxBlocks : Cardinality(LogsBetween(b, b + MinBatch - 1)) <= RpcLimit

\* Every event of a mined block is stored eventually, if the node answers for
\* the smallest batch and no error is ignored.
\* Code: the batch size is halved until FilterLogs answers.
EveryLogStored ==
    []SmallRangesFit =>
        \A k \in 1 .. MaxLogs :
            k \in ProjectedAmong(LogsBetween(StartBlock, head)) ~>
                (k \in db.events \/ failures > 0)

\* README.md:749-752: every event is handled in a transaction that inserts it
\* and updates the candles.
\* Code: updateKlineDataWithSavepoint's error is logged and the batch commits.
EventAndCandleTogether ==
    \A c \in CandlesAmong(Priced(db.events)) :
        c \in DOMAIN db.klines /\ InCandle(Priced(db.events), c) \subseteq db.klines[c].added

\* README.md:756-759: the candles are the OHLCV aggregates of the TokenBought
\* and TokenSold events.
\* Code: a range's sales are written after all its purchases.
CandlesAreOhlcv ==
    (failures = 0 /\ stage = 1) =>
        \A c \in DOMAIN db.klines : db.klines[c] = RM!CandleImage(Priced(db.events), c)

=============================================================================
