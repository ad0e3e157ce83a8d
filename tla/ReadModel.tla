------------------------------ MODULE ReadModel ------------------------------
(***************************************************************************)
(* What the rebuilt indexer promises the API, in one action: the database  *)
(* is at every moment the exact image of the chain up to the checkpoint    *)
(* block, and it moves forward by whole block ranges (app-rebuild/README,  *)
(* Steps 7 and 8).  ChainIndexer implements this specification.            *)
(***************************************************************************)
EXTENDS MemeChain, FiniteSetsExt

VARIABLE db         \* the committed tables

readModelVars == <<chain, head, db>>

Absent == 0         \* no row in tokens
Trading == 1        \* TokenStatusTrading
Graduated == 3      \* TokenStatusGraduated

NoCheckpoint == -1  \* no row in chain_event_checkpoints

\* The last block the checkpoint vouches for.
Synced(d) == IF d.ckpt = NoCheckpoint THEN StartBlock - 1 ELSE d.ckpt

-----------------------------------------------------------------------------
(* The image of a set S of logs in each table.                             *)

\* tokens: the row exists when its TokenCreated is in S; bnb_current and
\* available_tokens are those of the token's last trade.
TokenImage(S, t) ==
    LET mine == OfToken(S, t)
        trades == TradesAmong(mine)
    IN IF OfKind(mine, "TokenCreated") = {}
       THEN [status |-> Absent, totals |-> 0]
       ELSE [status |-> IF OfKind(mine, "TokenGraduated") = {} THEN Trading ELSE Graduated,
             totals |-> IF trades = {} THEN 0 ELSE Max(trades)]

\* klines: one row, from the trades of its token and interval.  The volume is
\* the sum of the amounts of the trades in "added"; "repeated" holds those
\* that went into the sum more than once.
CandleImage(S, c) ==
    LET trades == InCandle(S, c)
        prices == {chain[k].price : k \in trades}
    IN [open     |-> chain[Min(trades)].price,
        close    |-> chain[Max(trades)].price,
        high     |-> Max(prices),
        low      |-> Min(prices),
        added    |-> trades,
        repeated |-> {}]

\* All the tables after exactly the blocks StartBlock .. b were indexed.
Image(b) ==
    LET S == LogsBetween(StartBlock, b)
    IN [ledger  |-> S,
        decoded |-> ProjectedAmong(S),
        trades  |-> TradesAmong(S),
        tokens  |-> [t \in Tokens |-> TokenImage(S, t)],
        klines  |-> [c \in CandlesAmong(S) |-> CandleImage(S, c)],
        ckpt    |-> b]

EmptyDatabase ==
    [ledger  |-> {},
     decoded |-> {},
     trades  |-> {},
     tokens  |-> [t \in Tokens |-> [status |-> Absent, totals |-> 0]],
     klines  |-> [c \in {} |-> 0],
     ckpt    |-> NoCheckpoint]

-----------------------------------------------------------------------------

Init ==
    /\ ChainInit
    /\ db = EmptyDatabase

Grow ==
    /\ ChainNext
    /\ UNCHANGED db

\* A whole range of blocks the node has becomes visible at once.
Publish ==
    /\ \E b \in Synced(db) + 1 .. head :
          /\ OfKind(LogsBetween(StartBlock, b), "Rejected") = {}
          /\ db' = Image(b)
    /\ UNCHANGED chainVars

Next == Grow \/ Publish

Spec == Init /\ [][Next]_readModelVars

=============================================================================
