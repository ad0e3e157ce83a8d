------------------------- MODULE OverlappingIndexers -------------------------
(***************************************************************************)
(* Several processes of the rebuilt indexer over the same tables, as while *)
(* one deployment replaces another (app-rebuild/cmd/indexer,               *)
(* internal/chainindexer, internal/repository/chain_event.go).  Nothing    *)
(* keeps a second process out.                                             *)
(*                                                                         *)
(* ChainIndexer has one process and whole images; here transactions run    *)
(* side by side, as READ COMMITTED has them: a statement sees the          *)
(* committed rows and those of its own transaction, and waits while        *)
(* another holds a row it writes.  The statements of one projection are    *)
(* one step: each reads a row after it has locked it, so that where the    *)
(* others come between them does not change what is written.               *)
(*                                                                         *)
(* A process ends at any time: an error, a refused log, a deadlock the     *)
(* server resolves, a signal, a kill.  One whose COMMIT is lost is one     *)
(* that commits late and ends.                                             *)
(***************************************************************************)
EXTENDS Candles, FiniteSetsExt

CONSTANTS
    Indexers,       \* the processes
    RangeSize       \* INDEXER_BLOCK_BATCH_SIZE

ASSUME OverlapAssumption == RangeSize \in Nat \ {0}

VARIABLES
    tables,         \* the committed rows
    indexers        \* each process and its transaction

overlapVars == <<chain, head, tables, indexers>>

Trading == 1        \* TokenStatusTrading
Graduated == 3      \* TokenStatusGraduated
NoCheckpoint == -1

\* Rows of the tables: all that are committed, or those a transaction wrote.
NoRows == [ledger |-> {}, trades |-> {}, tokens |-> << >>, klines |-> << >>,
           ckpt |-> NoCheckpoint]

\* Rows by their keys: the new ones, and those of the old ones they do not replace.
Over(new, old) ==
    [c \in DOMAIN new \union DOMAIN old |-> IF c \in DOMAIN new THEN new[c] ELSE old[c]]

Merge(rows, writes) ==
    [ledger |-> rows.ledger \union writes.ledger,
     trades |-> rows.trades \union writes.trades,
     tokens |-> Over(writes.tokens, rows.tokens),
     klines |-> Over(writes.klines, rows.klines),
     ckpt   |-> IF writes.ckpt = NoCheckpoint THEN rows.ckpt ELSE writes.ckpt]

\* Rows of tokens by their key, and rows of all the tables.
TokenRow == [status : {Trading, Graduated}, totals : Nat]

IsTokenTable(T) ==
    /\ DOMAIN T \subseteq Tokens
    /\ T = [t \in DOMAIN T |-> T[t]]
    /\ \A t \in DOMAIN T : T[t] \in TokenRow

AreRows(r) ==
    /\ r = [ledger |-> r.ledger, trades |-> r.trades, tokens |-> r.tokens,
            klines |-> r.klines, ckpt |-> r.ckpt]
    /\ r.ledger \subseteq Nat
    /\ r.trades \subseteq Nat
    /\ IsTokenTable(r.tokens)
    /\ IsKlineTable(r.klines)
    /\ r.ckpt \in Nat \union {NoCheckpoint}

IsProcess(r) ==
    /\ r = [at |-> r.at, next |-> r.next, latest |-> r.latest, end |-> r.end,
            raw |-> r.raw, todo |-> r.todo, writes |-> r.writes]
    /\ r.at \in {"down", "poll", "range", "save", "commit"}
    /\ r.next \in Nat /\ r.latest \in Nat /\ r.end \in Nat
    /\ r.raw \subseteq Nat /\ r.todo \subseteq Nat
    /\ AreRows(r.writes)

\* A process that is not running.
Down == [at |-> "down", next |-> 0, latest |-> 0, end |-> 0,
         raw |-> {}, todo |-> {}, writes |-> NoRows]

\* What the transaction of p sees, and what the others have written.
Seen(p) == Merge(tables, indexers[p].writes)
Others(p) == {indexers[q].writes : q \in Indexers \ {p}}

OverlapInit ==
    /\ ChainInit
    /\ tables = NoRows
    /\ indexers = [p \in Indexers |-> Down]

-----------------------------------------------------------------------------
(* Up to the transaction.                                                  *)

\* VerifyChain and nextBlock.
Starts(p) ==
    /\ indexers[p].at = "down"
    /\ indexers' = [indexers EXCEPT
          ![p].at = "poll",
          ![p].next = IF tables.ckpt = NoCheckpoint THEN StartBlock ELSE tables.ckpt + 1]
    /\ UNCHANGED <<chainVars, tables>>

\* syncAvailable reads the newest block.
ReadsHead(p) ==
    /\ indexers[p].at = "poll"
    /\ indexers' = [indexers EXCEPT ![p].at = "range", ![p].latest = head]
    /\ UNCHANGED <<chainVars, tables>>

\* FilterLogs and decodeProjections.
Fetches(p) ==
    LET from == indexers[p].next
        latest == indexers[p].latest
        to == Min({from + RangeSize - 1, latest})
        logs == LogsBetween(from, to)
    IN  /\ indexers[p].at = "range"
        /\ from <= latest
        /\ OfKind(logs, "Rejected") = {}
        /\ indexers' = [indexers EXCEPT ![p].at = "save", ![p].end = to, ![p].raw = logs,
                                        ![p].todo = ProjectedAmong(logs)]
        /\ UNCHANGED <<chainVars, tables>>

\* The loop has caught up; the ticker starts the next poll.
Ticks(p) ==
    /\ indexers[p].at = "range"
    /\ indexers[p].next > indexers[p].latest
    /\ indexers' = [indexers EXCEPT ![p].at = "poll", ![p].latest = 0]
    /\ UNCHANGED <<chainVars, tables>>

-----------------------------------------------------------------------------
(* SaveBlockRange.                                                         *)

\* INSERT INTO chain_events ... ON CONFLICT DO NOTHING, log by log.
InsertsEvent(p) ==
    /\ indexers[p].at = "save"
    /\ \E k \in indexers[p].raw :
          /\ \A j \in indexers[p].raw : k <= j
          /\ \A w \in Others(p) : k \notin w.ledger
          /\ indexers' = [indexers EXCEPT
                ![p].raw = @ \ {k},
                ![p].writes.ledger = @ \union ({k} \ tables.ledger)]
    /\ UNCHANGED <<chainVars, tables>>

CandleKeys(k) == {CandleOf(k, i) : i \in Intervals}

\* The rows applyProjection waits for.  An UPDATE does not see, and so does not
\* wait for, a token another transaction is inserting.
RowsAreFree(p, k) ==
    LET t == chain[k].token
    IN  \A w \in Others(p) :
          /\ k \notin w.trades
          /\ t \in DOMAIN w.tokens =>
                chain[k].kind # "TokenCreated" /\ t \notin DOMAIN Seen(p).tokens
          /\ IsTrade(k) /\ k \notin Seen(p).trades =>
                CandleKeys(k) \intersect DOMAIN w.klines = {}

UpdateSeen(p, t, row) ==
    IF t \in DOMAIN Seen(p).tokens
    THEN Over([u \in {t} |-> row], indexers[p].writes.tokens)
    ELSE indexers[p].writes.tokens

\* applyTokenCreated: a row that is there keeps its status and its totals.
WriteCreated(p, k) ==
    LET t == chain[k].token
        row == IF t \in DOMAIN Seen(p).tokens THEN Seen(p).tokens[t]
               ELSE [status |-> Trading, totals |-> 0]
    IN  [indexers[p].writes EXCEPT !.tokens = Over([u \in {t} |-> row], @)]

\* Mutant: the candles are updated although the trade row was there already.
WriteTrade_Unguarded(p, k) ==
    LET t == chain[k].token
        merged == UpsertKlines(Seen(p).klines, k)
    IN  [indexers[p].writes EXCEPT
           !.trades = @ \union {k},
           !.tokens = UpdateSeen(p, t, [status |-> Seen(p).tokens[t].status, totals |-> k]),
           !.klines = Over([c \in CandleKeys(k) |-> merged[c]], @)]

\* applyTokenTrade.
WriteTrade(p, k) ==
    LET t == chain[k].token
        merged == UpsertKlines(Seen(p).klines, k)
    IN  [indexers[p].writes EXCEPT
           !.trades = @ \union ({k} \ tables.trades),
           !.tokens = UpdateSeen(p, t, [status |-> Seen(p).tokens[t].status, totals |-> k]),
           !.klines = IF k \in Seen(p).trades THEN @
                      ELSE Over([c \in CandleKeys(k) |-> merged[c]], @)]

\* applyTokenGraduated.
WriteGraduated(p, k) ==
    LET t == chain[k].token
    IN  [indexers[p].writes EXCEPT
           !.tokens = UpdateSeen(p, t, [status |-> Graduated, totals |-> Seen(p).tokens[t].totals])]

\* applyProjection on the earliest projection left.
Projects(p) ==
    /\ indexers[p].at = "save"
    /\ indexers[p].raw = {}
    /\ \E k \in indexers[p].todo :
          /\ \A j \in indexers[p].todo : k <= j
          /\ RowsAreFree(p, k)
          /\ indexers' = [indexers EXCEPT
                ![p].todo = @ \ {k},
                ![p].writes = CASE chain[k].kind = "TokenCreated"   -> WriteCreated(p, k)
                                [] chain[k].kind \in TradeKinds     -> WriteTrade(p, k)
                                [] chain[k].kind = "TokenGraduated" -> WriteGraduated(p, k)]
    /\ UNCHANGED <<chainVars, tables>>

\* The checkpoint row, whatever it says.
SavesCheckpoint(p) ==
    /\ indexers[p].at = "save"
    /\ indexers[p].raw = {} /\ indexers[p].todo = {}
    /\ \A w \in Others(p) : w.ckpt = NoCheckpoint
    /\ indexers' = [indexers EXCEPT ![p].at = "commit", ![p].writes.ckpt = indexers[p].end]
    /\ UNCHANGED <<chainVars, tables>>

\* Mutant: the next range starts a whole batch later, also after a short one.
Commits_SkipsByBatch(p) ==
    /\ indexers[p].at = "commit"
    /\ tables' = Seen(p)
    /\ indexers' = [indexers EXCEPT
          ![p] = [Down EXCEPT !.at = "range", !.next = indexers[p].next + RangeSize,
                              !.latest = indexers[p].latest]]
    /\ UNCHANGED chainVars

Commits(p) ==
    /\ indexers[p].at = "commit"
    /\ tables' = Seen(p)
    /\ indexers' = [indexers EXCEPT
          ![p] = [Down EXCEPT !.at = "range", !.next = indexers[p].end + 1,
                              !.latest = indexers[p].latest]]
    /\ UNCHANGED chainVars

\* The process ends and its transaction is rolled back.
Exits(p) ==
    /\ indexers[p].at # "down"
    /\ indexers' = [indexers EXCEPT ![p] = Down]
    /\ UNCHANGED <<chainVars, tables>>

-----------------------------------------------------------------------------

OverlapNext ==
    \/ ChainNext /\ UNCHANGED <<tables, indexers>>
    \/ \E p \in Indexers :
          \/ Starts(p)
          \/ ReadsHead(p)
          \/ Fetches(p)
          \/ Ticks(p)
          \/ InsertsEvent(p)
          \/ Projects(p)
          \/ SavesCheckpoint(p)
          \/ Commits(p)
          \/ Exits(p)

OverlapSpec == OverlapInit /\ [][OverlapNext]_overlapVars

-----------------------------------------------------------------------------
(* Properties.                                                             *)

\* Every variable has its type.
\* Code: the tables SaveBlockRange writes, and the variables of Run and syncAvailable.
OverlapTypeOK ==
    /\ ChainTypeOK
    /\ AreRows(tables)
    /\ indexers = [p \in Indexers |-> indexers[p]]
    /\ \A p \in Indexers : IsProcess(indexers[p])

\* chain_events has no gap, however the processes replay each other's ranges and
\* move the checkpoint: once anything is saved it holds every log up to some block, not
\* before the checkpoint, and no later one.
\* Code: a process starts behind a checkpoint and goes on behind its own ranges.
LedgerHasNoGap ==
    \/ tables.ckpt = NoCheckpoint /\ tables.ledger = {}
    \/ \E b \in StartBlock .. head :
          /\ tables.ckpt <= b
          /\ tables.ledger = LogsBetween(StartBlock, b)

\* Every candle has each indexed trade of its interval once, opens with the first
\* and closes with the last, whichever process wrote them.
\* Code: two ranges with new logs share the first of these, so that the second
\* waits for the first and then finds the rows there.
CandlesOfLedger ==
    /\ DOMAIN tables.klines = CandlesAmong(tables.ledger)
    /\ \A c \in DOMAIN tables.klines :
          LET trades == InCandle(tables.ledger, c)
              prices == {chain[k].price : k \in trades}
          IN  tables.klines[c] =
                [open |-> chain[Min(trades)].price, close |-> chain[Max(trades)].price,
                 high |-> Max(prices), low |-> Min(prices),
                 added |-> trades, repeated |-> {}]

\* A token has its row exactly if its creation was indexed, and is graduated
\* exactly if its graduation was.
StatusesExact ==
    LET Indexed(kind, t) == OfKind(OfToken(tables.ledger, t), kind) # {}
    IN  /\ DOMAIN tables.tokens = {t \in Tokens : Indexed("TokenCreated", t)}
        /\ \A t \in DOMAIN tables.tokens :
              (tables.tokens[t].status = Graduated) <=> Indexed("TokenGraduated", t)

\* Whatever the processes replay and whoever wrote last, the candles and the
\* statuses are those of the logs in chain_events.  (The totals of a token are
\* not: who replays an old trade writes its totals over the newer ones.)
\* Code: SaveBlockRange guards the candles by RowsAffected; an existing row keeps
\* its status when its creation is replayed.
OverlapRowsExact == CandlesOfLedger /\ StatusesExact

=============================================================================
