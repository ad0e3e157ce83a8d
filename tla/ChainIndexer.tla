----------------------------- MODULE ChainIndexer -----------------------------
(***************************************************************************)
(* The rebuilt indexer (app-rebuild/cmd/indexer, internal/chainindexer,    *)
(* internal/repository/chain_event.go): one process that copies MEMECore   *)
(* logs range by range into PostgreSQL and projects them into the tables   *)
(* the API reads.                                                          *)
(*                                                                         *)
(* Every remote call is a step of its own.  SaveBlockRange is one database *)
(* transaction: its statements build a private image tx, which Commit      *)
(* publishes.  The process may exit between any two steps: an error        *)
(* returned by Run ends it (log.Fatalf), so does a signal or a kill, and a *)
(* supervisor starts it again.  When the process is lost while Commit is   *)
(* on its way, the server still holds the transaction ("orphan") and will  *)
(* commit or abort it later, perhaps after the next process has read the   *)
(* checkpoint.                                                             *)
(*                                                                         *)
(* Reorganisations and RPC endpoints that answer from several nodes at     *)
(* different heights are not modelled: the code has no defence and makes   *)
(* no claim about them.                                                    *)
(***************************************************************************)
EXTENDS Candles

CONSTANTS
    BlockBatchSize, \* INDEXER_BLOCK_BATCH_SIZE
    MaxExits,       \* bound: times the process exits
    NoTx            \* "no transaction"

ASSUME IndexerAssumption ==
    /\ BlockBatchSize \in Nat \ {0}
    /\ MaxExits \in Nat

VARIABLES
    db,             \* the committed tables
    tx,             \* the image the open transaction would commit
    orphan,         \* a transaction whose process is gone with its Commit sent
    pc,             \* where Run stands
    next,           \* first block not saved, in the process's memory
    latest,         \* what BlockNumber answered
    end,            \* last block of the range being saved
    logs,           \* what FilterLogs answered
    todo,           \* projections of these logs not applied yet
    exits           \* times the process has exited

memVars == <<next, latest, end, logs, todo>>
vars == <<chain, head, db, tx, orphan, pc, next, latest, end, logs, todo, exits>>

\* The abstract state is the chain and the committed tables; an open or orphaned
\* transaction and the process's memory are hidden.
RM == INSTANCE ReadModel WITH chain <- chain, head <- head, db <- db

-----------------------------------------------------------------------------
(* The tables.                                                             *)

TokenRow == [status : {RM!Absent, RM!Trading, RM!Graduated}, totals : Nat]

IsDatabase(d) ==
    /\ d = [ledger |-> d.ledger, decoded |-> d.decoded, trades |-> d.trades,
            tokens |-> d.tokens, klines |-> d.klines, ckpt |-> d.ckpt]
    /\ d.ledger \subseteq Nat
    /\ d.decoded \subseteq Nat
    /\ d.trades \subseteq Nat
    /\ d.tokens \in [Tokens -> TokenRow]
    /\ IsKlineTable(d.klines)
    /\ d.ckpt \in Nat \union {RM!NoCheckpoint}

-----------------------------------------------------------------------------
(* The projections of one log k, as statements on the image d.             *)

\* UPDATE tokens ... WHERE token_contract_address = t.
UpdateToken(rows, t, row) ==
    IF rows[t].status = RM!Absent THEN rows ELSE [rows EXCEPT ![t] = row]

\* INSERT INTO tokens ... ON CONFLICT DO UPDATE: an existing row keeps its
\* status and its totals.
ApplyTokenCreated(d, k) ==
    LET t == chain[k].token
    IN [d EXCEPT
          !.decoded = @ \union {k},
          !.tokens = IF d.tokens[t].status = RM!Absent
                     THEN [d.tokens EXCEPT ![t] = [status |-> RM!Trading, totals |-> 0]]
                     ELSE d.tokens]

\* Mutant: the candles are updated although the trade row was there already.
ApplyTokenTrade_Unguarded(d, k) ==
    LET t == chain[k].token
    IN [d EXCEPT
          !.decoded = @ \union {k},
          !.trades = @ \union {k},
          !.tokens = UpdateToken(@, t, [status |-> d.tokens[t].status, totals |-> k]),
          !.klines = UpsertKlines(@, k)]

\* The totals are written whether or not the trade row is new; the candles
\* only if it is (RowsAffected).
ApplyTokenTrade(d, k) ==
    LET t == chain[k].token
    IN [d EXCEPT
          !.decoded = @ \union {k},
          !.trades = @ \union {k},
          !.tokens = UpdateToken(@, t, [status |-> d.tokens[t].status, totals |-> k]),
          !.klines = IF k \in d.trades THEN @ ELSE UpsertKlines(@, k)]

ApplyTokenGraduated(d, k) ==
    LET t == chain[k].token
    IN [d EXCEPT
          !.decoded = @ \union {k},
          !.tokens = UpdateToken(@, t, [status |-> RM!Graduated, totals |-> d.tokens[t].totals])]

ApplyProjection(d, k) ==
    CASE chain[k].kind = "TokenCreated"   -> ApplyTokenCreated(d, k)
      [] chain[k].kind \in TradeKinds     -> ApplyTokenTrade(d, k)
      [] chain[k].kind = "TokenGraduated" -> ApplyTokenGraduated(d, k)
      [] OTHER                            -> d

-----------------------------------------------------------------------------

ForgetMemory ==
    /\ next' = 0
    /\ latest' = 0
    /\ end' = 0
    /\ logs' = {}
    /\ todo' = {}

Init ==
    /\ ChainInit
    /\ db = RM!EmptyDatabase
    /\ tx = NoTx
    /\ orphan = NoTx
    /\ pc = "down"
    /\ next = 0
    /\ latest = 0
    /\ end = 0
    /\ logs = {}
    /\ todo = {}
    /\ exits = 0

\* Mutant: the process starts over at the configured block.
Resume_IgnoresCheckpoint ==
    /\ pc = "down"
    /\ next' = StartBlock
    /\ pc' = "poll"
    /\ UNCHANGED <<chainVars, db, tx, orphan, latest, end, logs, todo, exits>>

\* main and the head of Run: VerifyChain, then nextBlock.
Resume ==
    /\ pc = "down"
    /\ next' = IF db.ckpt = RM!NoCheckpoint THEN StartBlock ELSE db.ckpt + 1
    /\ pc' = "poll"
    /\ UNCHANGED <<chainVars, db, tx, orphan, latest, end, logs, todo, exits>>

\* syncAvailable reads the latest block once.
ReadHead ==
    /\ pc = "poll"
    /\ latest' = head
    /\ pc' = "range"
    /\ UNCHANGED <<chainVars, db, tx, orphan, next, end, logs, todo, exits>>

LastOfRange == LET e == next + BlockBatchSize - 1 IN IF e > latest THEN latest ELSE e

\* FilterLogs on the next range.
Fetch ==
    /\ pc = "range"
    /\ next <= latest
    /\ end' = LastOfRange
    /\ logs' = LogsBetween(next, LastOfRange)
    /\ pc' = "decode"
    /\ UNCHANGED <<chainVars, db, tx, orphan, next, latest, todo, exits>>

\* The loop of syncAvailable ends; Run waits for its ticker.
CaughtUp ==
    /\ pc = "range"
    /\ next > latest
    /\ pc' = "idle"
    /\ UNCHANGED <<chainVars, db, tx, orphan, memVars, exits>>

\* Mutant: the poll does not ask for the newest block again.
Tick_KeepsLatest ==
    /\ pc = "idle"
    /\ pc' = "range"
    /\ UNCHANGED <<chainVars, db, tx, orphan, memVars, exits>>

Tick ==
    /\ pc = "idle"
    /\ pc' = "poll"
    /\ UNCHANGED <<chainVars, db, tx, orphan, memVars, exits>>

\* Mutant: a refused log is skipped.
Decode_SkipsRefused ==
    /\ pc = "decode"
    /\ todo' = ProjectedAmong(logs)
    /\ pc' = "save"
    /\ UNCHANGED <<chainVars, db, tx, orphan, next, latest, end, logs, exits>>

\* decodeProjections succeeds on every log of the range.
Decode ==
    /\ pc = "decode"
    /\ OfKind(logs, "Rejected") = {}
    /\ todo' = ProjectedAmong(logs)
    /\ pc' = "save"
    /\ UNCHANGED <<chainVars, db, tx, orphan, next, latest, end, logs, exits>>

\* One refused log fails the whole range and ends the process, again each time
\* the range is read.
DecodeFails ==
    /\ pc = "decode"
    /\ OfKind(logs, "Rejected") # {}
    /\ pc' = "down"
    /\ ForgetMemory
    /\ UNCHANGED <<chainVars, db, tx, orphan, exits>>

\* Mutant: the raw logs are inserted outside the transaction.
InsertEvents_Outside ==
    /\ pc = "save"
    /\ orphan = NoTx
    /\ db' = [db EXCEPT !.ledger = @ \union logs]
    /\ tx' = db'
    /\ pc' = "project"
    /\ UNCHANGED <<chainVars, orphan, memVars, exits>>

\* SaveBlockRange opens its transaction and inserts the raw logs.  An orphan
\* holds the rows this range writes first (its own first log or, if it has
\* none, the checkpoint row), so the statements wait until it is settled.
InsertEvents ==
    /\ pc = "save"
    /\ orphan = NoTx
    /\ tx' = [db EXCEPT !.ledger = @ \union logs]
    /\ pc' = "project"
    /\ UNCHANGED <<chainVars, db, orphan, memVars, exits>>

\* Mutant: the projections are applied from the latest log to the earliest.
Project_Backwards ==
    /\ pc = "project"
    /\ \E k \in todo :
          /\ \A j \in todo : k >= j
          /\ tx' = ApplyProjection(tx, k)
          /\ todo' = todo \ {k}
    /\ UNCHANGED <<chainVars, db, orphan, pc, next, latest, end, logs, exits>>

\* applyProjection on the earliest projection left.
Project ==
    /\ pc = "project"
    /\ \E k \in todo :
          /\ \A j \in todo : k <= j
          /\ tx' = ApplyProjection(tx, k)
          /\ todo' = todo \ {k}
    /\ UNCHANGED <<chainVars, db, orphan, pc, next, latest, end, logs, exits>>

\* Mutant: the checkpoint is the newest block instead of the range's last.
SaveCheckpoint_Latest ==
    /\ pc = "project"
    /\ todo = {}
    /\ tx' = [tx EXCEPT !.ckpt = latest]
    /\ pc' = "commit"
    /\ UNCHANGED <<chainVars, db, orphan, memVars, exits>>

SaveCheckpoint ==
    /\ pc = "project"
    /\ todo = {}
    /\ tx' = [tx EXCEPT !.ckpt = end]
    /\ pc' = "commit"
    /\ UNCHANGED <<chainVars, db, orphan, memVars, exits>>

\* Mutant: the next range starts a whole batch later, also after a short one.
Commit_SkipsByBatch ==
    /\ pc = "commit"
    /\ db' = tx
    /\ tx' = NoTx
    /\ next' = next + BlockBatchSize
    /\ end' = 0
    /\ logs' = {}
    /\ pc' = "range"
    /\ UNCHANGED <<chainVars, orphan, latest, todo, exits>>

Commit ==
    /\ pc = "commit"
    /\ db' = tx
    /\ tx' = NoTx
    /\ next' = end + 1
    /\ end' = 0
    /\ logs' = {}
    /\ pc' = "range"
    /\ UNCHANGED <<chainVars, orphan, latest, todo, exits>>

\* Mutant: the transaction is left open.
Exit_NoRollback ==
    /\ pc # "down"
    /\ exits < MaxExits
    /\ exits' = exits + 1
    /\ pc' = "down"
    /\ ForgetMemory
    /\ UNCHANGED <<chainVars, db, tx, orphan>>

\* The process ends: a call fails, a signal, a kill.  The server rolls the
\* open transaction back.
Exit ==
    /\ pc # "down"
    /\ exits < MaxExits
    /\ exits' = exits + 1
    /\ pc' = "down"
    /\ tx' = NoTx
    /\ ForgetMemory
    /\ UNCHANGED <<chainVars, db, orphan>>

\* The process ends after sending Commit and before its answer.
ExitDuringCommit ==
    /\ pc = "commit"
    /\ exits < MaxExits
    /\ exits' = exits + 1
    /\ pc' = "down"
    /\ orphan' = tx
    /\ tx' = NoTx
    /\ ForgetMemory
    /\ UNCHANGED <<chainVars, db>>

OrphanCommits ==
    /\ orphan # NoTx
    /\ db' = orphan
    /\ orphan' = NoTx
    /\ UNCHANGED <<chainVars, tx, pc, memVars, exits>>

OrphanAborts ==
    /\ orphan # NoTx
    /\ orphan' = NoTx
    /\ UNCHANGED <<chainVars, db, tx, pc, memVars, exits>>

GrowChain ==
    /\ ChainNext
    /\ UNCHANGED <<db, tx, orphan, pc, memVars, exits>>

Run ==
    \/ Resume
    \/ ReadHead
    \/ Fetch
    \/ CaughtUp
    \/ Tick
    \/ Decode
    \/ DecodeFails
    \/ InsertEvents
    \/ Project
    \/ SaveCheckpoint
    \/ Commit

Next ==
    \/ GrowChain
    \/ Run
    \/ Exit
    \/ ExitDuringCommit
    \/ OrphanCommits
    \/ OrphanAborts

Spec == Init /\ [][Next]_vars

\* The process runs whenever it can and is restarted when it has exited, calls
\* stop failing eventually (MaxExits), and the server settles an orphan.
FairSpec ==
    /\ Spec
    /\ WF_vars(Run)
    /\ WF_vars(OrphanCommits \/ OrphanAborts)

-----------------------------------------------------------------------------
(* Properties.                                                             *)

\* Every variable has its type, and memory is empty where Run holds none.
\* Code: the variables of Run, syncAvailable and SaveBlockRange.
TypeOK ==
    /\ ChainTypeOK
    /\ IsDatabase(db)
    /\ orphan # NoTx => IsDatabase(orphan)
    /\ pc \in {"down", "poll", "range", "decode", "save", "project", "commit", "idle"}
    /\ IF pc \in {"project", "commit"} THEN IsDatabase(tx) ELSE tx = NoTx
    /\ next \in Nat /\ latest \in Nat /\ end \in Nat
    /\ logs \subseteq DOMAIN chain
    /\ todo \subseteq logs
    /\ exits \in Nat

\* The ledger holds every log of the blocks up to the checkpoint and no other,
\* whatever was re-read after an exit in the middle of a commit.
\* Code: SaveBlockRange inserts the logs and the checkpoint in one transaction.
LedgerExact == db.ledger = LogsBetween(StartBlock, RM!Synced(db))

\* Each token row shows what the logs of the ledger say: the totals of the
\* token's last trade, and graduated exactly if its graduation was indexed.
\* Code: the tokens statements run in log order inside one transaction.
TokensCurrent == \A t \in Tokens : db.tokens[t] = RM!TokenImage(db.ledger, t)

\* Each candle is the aggregate of exactly the indexed trades of its interval,
\* each counted once in the volume, also after a range was saved twice.
\* Code: upsertKlines runs only when the trades row is new (RowsAffected).
CandlesExact == db.klines = [c \in CandlesAmong(db.ledger) |-> RM!CandleImage(db.ledger, c)]

\* No block is left out: the range a running process is about to save starts
\* at most one block after the checkpoint, and reaches at least up to it, even
\* if an orphan of the previous process moved the checkpoint meanwhile.
\* Code: nextBlock reads the checkpoint once, when the process starts.
NoGap ==
    /\ pc # "down" => next <= RM!Synced(db) + 1
    /\ pc \in {"project", "commit"} => RM!Synced(db) <= end

\* A log that cannot be projected keeps the checkpoint before its block.
\* Code: a failed decode or statement fails the whole range.
RejectedHolds ==
    \A k \in OfKind(DOMAIN chain, "Rejected") :
        chain[k].block >= StartBlock => RM!Synced(db) < chain[k].block

\* The checkpoint never moves back and no committed row disappears.
\* Code: ON CONFLICT DO UPDATE SET last_synced_block has no condition of its own.
CheckpointForward ==
    [][/\ db'.ckpt >= db.ckpt
       /\ db.ledger \subseteq db'.ledger
       /\ \A t \in Tokens : db'.tokens[t].totals >= db.tokens[t].totals]_db

\* The indexer implements the atomic read model.
\* Code: README "Those writes happen in one PostgreSQL transaction".
ImplementsReadModel == RM!Spec

\* Every log of a mined block is indexed eventually, if calls stop failing and
\* no log is refused.
\* Code: Run polls for ever and resumes from the checkpoint.
EveryLogIndexed ==
    \A k \in 1 .. MaxLogs :
        (k \in LogsBetween(StartBlock, head) /\ ~WithRejected) ~> (k \in db.ledger)

=============================================================================
