------------------------------ MODULE MemeChain ------------------------------
(***************************************************************************)
(* The BSC chain as the indexers see it through one JSON-RPC node: a       *)
(* growing sequence of MEMECore logs, each in a block, and the number of   *)
(* the newest block.  The contract is not under src/; its event order is   *)
(* taken from what the indexers and the API rely on (a token is created    *)
(* once, traded after that, and graduates at most once, after which it     *)
(* does not trade on the curve).                                           *)
(*                                                                         *)
(* A log is identified by its position in the sequence, which stands for   *)
(* its (transaction_hash, log_index) key: both are unique, and positions   *)
(* are ordered as FilterLogs orders its answer.  Amounts are abstracted:   *)
(* a column filled from a log is modelled by the position of that log, a   *)
(* price by a small number.                                                *)
(***************************************************************************)
EXTENDS Integers, Sequences, FiniteSets

CONSTANTS
    Tokens,         \* token contract addresses
    Intervals,      \* the candle intervals ("1m" ... "1w" in the code)
    Width,          \* number of block-time units in each interval
    Prices,         \* prices a trade can have, besides 0 (no tokens traded)
    StartBlock,     \* INDEXER_START_BLOCK
    WithRejected,   \* TRUE: some logs cannot be decoded or projected
    MaxBlocks,      \* bound: blocks mined
    MaxLogs         \* bound: logs emitted

ASSUME ChainAssumption ==
    /\ Width \in [Intervals -> Nat \ {0}]
    /\ Prices \subseteq Nat
    /\ StartBlock \in Nat
    /\ WithRejected \in BOOLEAN
    /\ MaxBlocks \in Nat
    /\ MaxLogs \in Nat

VARIABLES
    chain,          \* the logs emitted so far, in chain order
    head            \* the newest block; logs of block head + 1 are pending

chainVars == <<chain, head>>

-----------------------------------------------------------------------------

TradeKinds == {"TokenBought", "TokenSold"}

\* "Other" is a log whose topic0 the ABI does not name; "Rejected" a log that
\* decodeProjection or a column constraint refuses every time it is read.
LogKinds == TradeKinds \union {"TokenCreated", "TokenGraduated", "Other", "Rejected"}

Log == [block : Nat, kind : LogKinds, token : Tokens, price : Nat]

ChainTypeOK ==
    /\ chain \in Seq(Log)
    /\ head \in Nat

ChainInit ==
    /\ chain = << >>
    /\ head = 0

Emitted(kind, t) ==
    \E k \in DOMAIN chain : chain[k].kind = kind /\ chain[k].token = t

\* What the contract lets a token emit next.
ContractAllows(kind, t) ==
    CASE kind = "TokenCreated" -> ~Emitted("TokenCreated", t)
      [] kind = "Other"        -> TRUE
      [] kind = "Rejected"     -> WithRejected
      [] OTHER                 -> /\ Emitted("TokenCreated", t)
                                  /\ ~Emitted("TokenGraduated", t)

\* MEMECore emits a log in the block being built.
Emit(kind, t, p) ==
    /\ head < MaxBlocks
    /\ Len(chain) < MaxLogs
    /\ ContractAllows(kind, t)
    /\ kind \notin TradeKinds => p = 0
    /\ chain' = Append(chain, [block |-> head + 1, kind |-> kind, token |-> t, price |-> p])
    /\ UNCHANGED head

\* The block being built becomes the node's newest block.
Mine ==
    /\ head < MaxBlocks
    /\ head' = head + 1
    /\ UNCHANGED chain

ChainNext ==
    \/ \E kind \in LogKinds, t \in Tokens, p \in Prices \union {0} : Emit(kind, t, p)
    \/ Mine

-----------------------------------------------------------------------------
(* Sets of logs.                                                           *)

\* eth_getLogs on an inclusive block range.
LogsBetween(from, to) ==
    {k \in DOMAIN chain : from <= chain[k].block /\ chain[k].block <= to}

IsTrade(k) == chain[k].kind \in TradeKinds

TradesAmong(S) == {k \in S : IsTrade(k)}

\* The logs decodeProjection turns into a projection.
ProjectedAmong(S) == {k \in S : chain[k].kind \notin {"Other", "Rejected"}}

OfToken(S, t) == {k \in S : chain[k].token = t}

OfKind(S, kind) == {k \in S : chain[k].kind = kind}

\* The primary key of the K-line row that trade k belongs to in interval i
\* (alignTime maps a block time to the start of its interval).
CandleOf(k, i) == <<chain[k].token, i, chain[k].block \div Width[i]>>

CandlesAmong(S) == {CandleOf(k, i) : k \in TradesAmong(S), i \in Intervals}

InCandle(S, c) == {k \in TradesAmong(S) : CandleOf(k, c[2]) = c}

=============================================================================
