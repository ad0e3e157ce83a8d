---------------------------- MODULE Chain_proofs ----------------------------
(***************************************************************************)
(* Lemmas about the chain and the K-line upsert, for both indexers: the    *)
(* types of logs and candles, and what a step of the chain leaves alone.   *)
(***************************************************************************)
EXTENDS Candles, TLAPS

-----------------------------------------------------------------------------
(* Types.                                                                  *)

\* alignTime maps a block time to an interval number.
LEMMA QuotientIsNat == \A a \in Nat, b \in Nat \ {0} : a \div b \in Nat
  BY SMT

\* The fields of a log.
LEMMA LogType ==
  ASSUME ChainTypeOK, NEW k \in DOMAIN chain
  PROVE  /\ k \in Nat
         /\ chain[k] \in Log
         /\ chain[k].block \in Nat
         /\ chain[k].kind \in LogKinds
         /\ chain[k].token \in Tokens
         /\ chain[k].price \in Nat
<1>1. Len(chain) \in Nat /\ DOMAIN chain = 1 .. Len(chain)
  BY DEF ChainTypeOK
<1>2. k \in Nat
  BY <1>1
<1>3. chain[k] \in Log
  BY <1>1 DEF ChainTypeOK
<1> QED
  BY <1>2, <1>3 DEF Log

\* The key of a candle is a row key of klines.
LEMMA CandleOfType ==
  ASSUME ChainTypeOK, NEW k \in DOMAIN chain, NEW i \in Intervals
  PROVE  CandleOf(k, i) \in Tokens \X Intervals \X Nat
<1>1. chain[k].block \in Nat /\ chain[k].token \in Tokens
  BY LogType
<1>2. Width[i] \in Nat \ {0}
  BY ChainAssumption DEF ChainAssumption
<1> QED
  BY <1>1, <1>2, QuotientIsNat DEF CandleOf

\* A row written for a new candle, or merged into an old one, is a klines row.
LEMMA CandleRowType ==
  ASSUME ChainTypeOK, NEW k \in DOMAIN chain, NEW row \in CandleRow
  PROVE  NewCandle(k) \in CandleRow /\ MergeCandle(row, k) \in CandleRow
<1>1. chain[k].price \in Nat /\ k \in Nat
  BY LogType
<1> QED
  BY <1>1 DEF NewCandle, MergeCandle, CandleRow

\* upsertKlines writes rows of the klines table and keeps the others.
LEMMA UpsertKlinesType ==
  ASSUME ChainTypeOK, NEW k \in DOMAIN chain, NEW K, IsKlineTable(K)
  PROVE  IsKlineTable(UpsertKlines(K, k))
<1> DEFINE keys == {CandleOf(k, i) : i \in Intervals}
<1> DEFINE U == UpsertKlines(K, k)
<1>1. keys \subseteq Tokens \X Intervals \X Nat
  BY CandleOfType
<1>2. /\ DOMAIN U = DOMAIN K \union keys
      /\ U = [c \in DOMAIN U |-> U[c]]
  BY DEF UpsertKlines
<1>3. ASSUME NEW c \in DOMAIN U
      PROVE  U[c] \in CandleRow
  <2>1. U[c] = IF c \notin keys THEN K[c]
               ELSE IF c \notin DOMAIN K THEN NewCandle(k) ELSE MergeCandle(K[c], k)
    BY <1>2 DEF UpsertKlines
  <2>2. CASE c \in DOMAIN K
    <3>1. K[c] \in CandleRow
      BY <2>2 DEF IsKlineTable
    <3> HIDE DEF keys, U
    <3> QED
      BY <2>1, <2>2, <3>1, CandleRowType
  <2>3. CASE c \notin DOMAIN K
    <3>1. c \in keys
      BY <1>2, <2>3
    <3>2. NewCandle(k) \in CandleRow
      <4>1. chain[k].price \in Nat /\ k \in Nat
        BY LogType
      <4> QED
        BY <4>1 DEF NewCandle, CandleRow
    <3> HIDE DEF keys, U
    <3> QED
      BY <2>1, <2>3, <3>1, <3>2
  <2> QED
    BY <2>2, <2>3
<1>4. DOMAIN U \subseteq Tokens \X Intervals \X Nat
  BY <1>1, <1>2 DEF IsKlineTable
<1> HIDE DEF U
<1>5. IsKlineTable(U)
  BY <1>2, <1>3, <1>4 DEF IsKlineTable
<1> QED
  BY <1>5 DEF U

-----------------------------------------------------------------------------
(* The chain only grows, and never below its newest block.                 *)

\* The blocks of the logs that were emitted are mined or being built.
ChainBounded == \A k \in DOMAIN chain : chain[k].block <= head + 1

\* Blocks do not go back from one log to the next, a token is created once, and
\* its other events come after that.
ChainOrdered ==
    /\ \A j, k \in DOMAIN chain : j <= k => chain[j].block <= chain[k].block
    /\ \A j, k \in DOMAIN chain :
          /\ chain[j].kind = "TokenCreated" /\ chain[k].kind = "TokenCreated"
          /\ chain[j].token = chain[k].token
          => j = k
    /\ \A k \in DOMAIN chain :
          chain[k].kind \in TradeKinds \union {"TokenGraduated"} =>
            \E j \in DOMAIN chain : /\ chain[j].kind = "TokenCreated"
                                   /\ chain[j].token = chain[k].token
                                   /\ j < k

\* A step of the chain appends at most one log, in a block the node does not
\* have yet, and the newest block never moves back.
LEMMA ChainGrows ==
  ASSUME ChainTypeOK, ChainBounded, ChainNext
  PROVE  /\ ChainTypeOK'
         /\ ChainBounded'
         /\ head' \in Nat /\ head <= head'
         /\ DOMAIN chain \subseteq DOMAIN chain'
         /\ \A k \in DOMAIN chain : chain'[k] = chain[k]
         /\ \A k \in DOMAIN chain' \ DOMAIN chain : chain'[k].block = head + 1
<1>1. CASE Mine
  <2>1. \A k \in DOMAIN chain : chain[k].block \in Nat
    BY LogType
  <2> QED
    BY <1>1, <2>1 DEF Mine, ChainTypeOK, ChainBounded
<1>2. ASSUME NEW kind \in LogKinds, NEW t \in Tokens, NEW p \in Prices \union {0},
             Emit(kind, t, p)
      PROVE  /\ ChainTypeOK'
             /\ ChainBounded'
             /\ head' \in Nat /\ head <= head'
             /\ DOMAIN chain \subseteq DOMAIN chain'
             /\ \A k \in DOMAIN chain : chain'[k] = chain[k]
             /\ \A k \in DOMAIN chain' \ DOMAIN chain : chain'[k].block = head + 1
  <2> DEFINE log == [block |-> head + 1, kind |-> kind, token |-> t, price |-> p]
  <2>1. chain' = Append(chain, log) /\ head' = head
    BY <1>2 DEF Emit
  <2>2. log \in Log /\ log.block = head + 1
    BY ChainAssumption DEF ChainAssumption, ChainTypeOK, Log
  <2> HIDE DEF log
  <2>3. /\ chain' \in Seq(Log)
        /\ DOMAIN chain = 1 .. Len(chain)
        /\ DOMAIN chain' = 1 .. Len(chain) + 1
        /\ Len(chain) \in Nat
        /\ \A k \in 1 .. Len(chain) : chain'[k] = chain[k]
        /\ chain'[Len(chain) + 1] = log
    BY <2>1, <2>2 DEF ChainTypeOK
  <2>4. \A k \in DOMAIN chain' \ DOMAIN chain : chain'[k].block = head + 1
    BY <2>2, <2>3
  <2>5. ChainBounded'
    BY <2>1, <2>2, <2>3, <2>4 DEF ChainBounded, ChainTypeOK
  <2> QED
    BY <2>1, <2>3, <2>4, <2>5 DEF ChainTypeOK
<1> QED
  BY <1>1, <1>2 DEF ChainNext

\* The logs of blocks the node has are fixed.
LEMMA LogsFixed ==
  ASSUME ChainTypeOK, ChainBounded, ChainNext,
         NEW from \in Int, NEW to \in Int, to <= head \/ to < from
  PROVE  LogsBetween(from, to)' = LogsBetween(from, to)
<1>1. \A k \in DOMAIN chain' : k \in DOMAIN chain \/ chain'[k].block = head + 1
  BY ChainGrows
<1>2. \A k \in DOMAIN chain : k \in DOMAIN chain' /\ chain'[k] = chain[k]
  BY ChainGrows
<1>3. ~(from <= head + 1 /\ head + 1 <= to)
  BY DEF ChainTypeOK
<1> QED
  BY <1>1, <1>2, <1>3 DEF LogsBetween

\* The logs up to s and those of a range that leaves no gap after s.
LEMMA LogsJoin ==
  ASSUME ChainTypeOK,
         NEW a \in Int, NEW s \in Int, NEW n \in Int, NEW e \in Int,
         a <= n, n <= s + 1, s <= e
  PROVE  LogsBetween(a, s) \union LogsBetween(n, e) = LogsBetween(a, e)
<1>1. \A k \in DOMAIN chain : chain[k].block \in Nat
  BY LogType
<1> QED
  BY <1>1 DEF LogsBetween

\* The contract's rules, and the order of blocks, survive each step.
LEMMA ChainStaysOrdered ==
  ASSUME ChainTypeOK, ChainBounded, ChainOrdered, ChainNext
  PROVE  ChainOrdered'
<1>1. CASE Mine
  BY <1>1 DEF Mine, ChainOrdered
<1>2. ASSUME NEW kind \in LogKinds, NEW t \in Tokens, NEW p \in Prices \union {0},
             Emit(kind, t, p)
      PROVE  ChainOrdered'
  <2> DEFINE log == [block |-> head + 1, kind |-> kind, token |-> t, price |-> p]
             new == Len(chain) + 1
  <2>1. chain' = Append(chain, log) /\ ContractAllows(kind, t)
    BY <1>2 DEF Emit
  <2>2. log \in Log
    BY ChainAssumption DEF ChainAssumption, ChainTypeOK, Log
  <2>3. log.block = head + 1 /\ log.kind = kind /\ log.token = t
    OBVIOUS
  <2> HIDE DEF log
  <2>4. /\ Len(chain) \in Nat
        /\ DOMAIN chain = 1 .. Len(chain)
        /\ DOMAIN chain' = DOMAIN chain \union {new}
        /\ \A k \in DOMAIN chain : chain'[k] = chain[k] /\ k < new
        /\ chain'[new] = log
    BY <2>1, <2>2 DEF ChainTypeOK
  <2>5. \A k \in DOMAIN chain : chain[k].block <= head + 1
    BY DEF ChainBounded
  <2>6. \A j, k \in DOMAIN chain' : j <= k => chain'[j].block <= chain'[k].block
    <3> SUFFICES ASSUME NEW j \in DOMAIN chain', NEW k \in DOMAIN chain', j <= k
                 PROVE  chain'[j].block <= chain'[k].block
      OBVIOUS
    <3>1. CASE k = new
      BY <2>3, <2>4, <2>5, <3>1 DEF ChainTypeOK
    <3>2. CASE k # new
      BY <2>4, <3>2 DEF ChainOrdered
    <3> QED
      BY <3>1, <3>2
  <2>7. kind = "TokenCreated" => ~Emitted("TokenCreated", t)
    BY <2>1 DEF ContractAllows
  <2>8. kind \in TradeKinds \union {"TokenGraduated"} => Emitted("TokenCreated", t)
    BY <2>1 DEF ContractAllows, TradeKinds
  <2>9. \A j, k \in DOMAIN chain' :
           /\ chain'[j].kind = "TokenCreated" /\ chain'[k].kind = "TokenCreated"
           /\ chain'[j].token = chain'[k].token
           => j = k
    BY <2>3, <2>4, <2>7 DEF ChainOrdered, Emitted
  <2>10. \A k \in DOMAIN chain' :
            chain'[k].kind \in TradeKinds \union {"TokenGraduated"} =>
              \E j \in DOMAIN chain' : /\ chain'[j].kind = "TokenCreated"
                                      /\ chain'[j].token = chain'[k].token
                                      /\ j < k
    BY <2>3, <2>4, <2>8 DEF ChainOrdered, Emitted
  <2> QED
    BY <2>6, <2>9, <2>10 DEF ChainOrdered
<1> QED
  BY <1>1, <1>2 DEF ChainNext

-----------------------------------------------------------------------------
(* The candles of a growing set of logs.                                   *)

\* The intervals of one trade have a candle each, and c is one of them exactly
\* if the trade falls into c.
LEMMA KeysOfTrade ==
  ASSUME NEW k, NEW c
  PROVE  /\ c \in {CandleOf(k, i) : i \in Intervals} => CandleOf(k, c[2]) = c
         /\ c[2] \in Intervals /\ CandleOf(k, c[2]) = c
              => c \in {CandleOf(k, i) : i \in Intervals}
BY DEF CandleOf

\* One more trade adds itself to the candles of its intervals and to no other.
LEMMA TradeAdded ==
  ASSUME NEW S, NEW k, IsTrade(k)
  PROVE  /\ CandlesAmong(S \union {k})
              = CandlesAmong(S) \union {CandleOf(k, i) : i \in Intervals}
         /\ \A c \in {CandleOf(k, i) : i \in Intervals} :
              InCandle(S \union {k}, c) = InCandle(S, c) \union {k}
         /\ \A c \in CandlesAmong(S) \ {CandleOf(k, i) : i \in Intervals} :
              InCandle(S \union {k}, c) = InCandle(S, c)
<1>1. TradesAmong(S \union {k}) = TradesAmong(S) \union {k}
  BY DEF TradesAmong
<1>2. CandlesAmong(S \union {k}) = CandlesAmong(S) \union {CandleOf(k, i) : i \in Intervals}
  BY <1>1 DEF CandlesAmong
<1>3. ASSUME NEW c \in {CandleOf(k, i) : i \in Intervals}
      PROVE  InCandle(S \union {k}, c) = InCandle(S, c) \union {k}
  BY <1>1, <1>3, KeysOfTrade DEF InCandle
<1>4. ASSUME NEW c \in CandlesAmong(S) \ {CandleOf(k, i) : i \in Intervals}
      PROVE  InCandle(S \union {k}, c) = InCandle(S, c)
  <2>1. c[2] \in Intervals
    BY DEF CandlesAmong, CandleOf
  <2> QED
    BY <1>1, <2>1, KeysOfTrade DEF InCandle
<1> QED
  BY <1>2, <1>3, <1>4

\* A log that is no trade adds to no candle.
LEMMA OtherAdded ==
  ASSUME NEW S, NEW k, ~IsTrade(k)
  PROVE  /\ CandlesAmong(S \union {k}) = CandlesAmong(S)
         /\ \A c : InCandle(S \union {k}, c) = InCandle(S, c)
<1>1. TradesAmong(S \union {k}) = TradesAmong(S)
  BY DEF TradesAmong
<1>2. CandlesAmong(S \union {k}) = CandlesAmong(S)
  BY <1>1 DEF CandlesAmong
<1>3. ASSUME NEW c PROVE InCandle(S \union {k}, c) = InCandle(S, c)
  BY <1>1 DEF InCandle
<1> QED
  BY <1>2, <1>3

\* A candle of the trade k that is not among those of S has no trade of S.
LEMMA NoTradeYet ==
  ASSUME NEW S, NEW k, NEW c \in {CandleOf(k, i) : i \in Intervals} \ CandlesAmong(S)
  PROVE  InCandle(S, c) = {}
<1> SUFFICES ASSUME NEW j \in InCandle(S, c) PROVE c \in CandlesAmong(S)
  OBVIOUS
<1>1. CandleOf(j, c[2]) = c /\ j \in TradesAmong(S)
  BY DEF InCandle
<1>2. c[2] \in Intervals
  BY DEF CandleOf
<1> QED
  BY <1>1, <1>2 DEF CandlesAmong

\* A candle's volume is of the trades in "all", its high and its low among
\* their prices and not below, or above, any of them.
RowOf(row, all) ==
    /\ row.added = all
    /\ \E k \in all : chain[k].price = row.high
    /\ \E k \in all : chain[k].price = row.low
    /\ \A k \in all : row.low <= chain[k].price /\ chain[k].price <= row.high

\* The row of a new candle, and the row merged with one more price, are those
\* of the trades they stand for.
LEMMA RowGrows ==
  ASSUME ChainTypeOK, NEW k \in DOMAIN chain
  PROVE  /\ RowOf(NewCandle(k), {k})
         /\ \A row \in CandleRow, all \in SUBSET DOMAIN chain :
              RowOf(row, all) => RowOf(MergeCandle(row, k), all \union {k})
<1>1. \A j \in DOMAIN chain : chain[j].price \in Nat
  BY LogType
<1>2. RowOf(NewCandle(k), {k})
  BY <1>1 DEF RowOf, NewCandle
<1>3. ASSUME NEW row \in CandleRow, NEW all \in SUBSET DOMAIN chain, RowOf(row, all)
      PROVE  RowOf(MergeCandle(row, k), all \union {k})
  <2> DEFINE new == MergeCandle(row, k)
             p == chain[k].price
  <2>1. row.high \in Nat /\ row.low \in Nat
    BY DEF CandleRow
  <2>2. /\ new.added = row.added \union {k}
        /\ new.high = IF p > row.high THEN p ELSE row.high
        /\ new.low = IF p < row.low THEN p ELSE row.low
    BY DEF MergeCandle
  <2> HIDE DEF new
  <2>3. new.added = all \union {k}
    BY <1>3, <2>2 DEF RowOf
  <2>4. \E j \in all \union {k} : chain[j].price = new.high
    BY <1>1, <1>3, <2>1, <2>2 DEF RowOf
  <2>5. \E j \in all \union {k} : chain[j].price = new.low
    BY <1>1, <1>3, <2>1, <2>2 DEF RowOf
  <2>6. \A j \in all \union {k} : new.low <= chain[j].price /\ chain[j].price <= new.high
    BY <1>1, <1>3, <2>1, <2>2 DEF RowOf
  <2>7. RowOf(new, all \union {k})
    BY <2>3, <2>4, <2>5, <2>6 DEF RowOf
  <2> QED
    BY <2>7 DEF new
<1> QED
  BY <1>2, <1>3

-----------------------------------------------------------------------------
(* What the images of tables are defined with.                             *)

\* A number among others that none of them exceeds is their maximum.
LEMMA MaxIs ==
  ASSUME NEW S \in SUBSET Nat, NEW m \in S, \A n \in S : n <= m
  PROVE  (CHOOSE x \in S : \A y \in S : x >= y) = m
<1>1. \A x \in S : (\A y \in S : x >= y) => x = m
  OBVIOUS
<1>2. \A y \in S : m >= y
  OBVIOUS
<1> DEFINE max == CHOOSE x \in S : \A y \in S : x >= y
<1>3. max \in S /\ \A y \in S : max >= y
  BY <1>2
<1> QED
  BY <1>1, <1>3

\* And one that exceeds none of them is their minimum.
LEMMA MinIs ==
  ASSUME NEW S \in SUBSET Nat, NEW m \in S, \A n \in S : m <= n
  PROVE  (CHOOSE x \in S : \A y \in S : x <= y) = m
<1>1. \A x \in S : (\A y \in S : x <= y) => x = m
  OBVIOUS
<1> DEFINE min == CHOOSE x \in S : \A y \in S : x <= y
<1>2. min \in S /\ \A y \in S : min <= y
  OBVIOUS
<1> QED
  BY <1>1, <1>2

-----------------------------------------------------------------------------
(* What has happened to a token, and candles of which all is exact.        *)

\* Token t has an event of this kind in S.
Happened(S, kind, t) == \E j \in S : chain[j].kind = kind /\ chain[j].token = t

\* The logs of S that trade token t.
TradesOf(S, t) == TradesAmong(OfToken(S, t))

\* n is the latest log of S.
IsLatest(n, S) == n \in S /\ \A j \in S : j <= n

\* The row of a candle whose trades are "all".
CandleRowOf(row, all) ==
    /\ RowOf(row, all)
    /\ row.repeated = {}
    /\ \E k \in all : row.open = chain[k].price /\ \A j \in all : k <= j
    /\ \E k \in all : row.close = chain[k].price /\ IsLatest(k, all)

\* A log that decodeProjection turns into a projection.
IsProjected(k) == chain[k].kind \in TradeKinds \union {"TokenCreated", "TokenGraduated"}

\* ProjectedAmong leaves out two kinds of logs, and keeps these.
LEMMA ProjectedKinds ==
  ASSUME ChainTypeOK, NEW k \in DOMAIN chain
  PROVE  IsProjected(k) <=> chain[k].kind \notin {"Other", "Rejected"}
BY LogType DEF IsProjected, LogKinds, TradeKinds

\* Logs without a projection are in no table but chain_events.
LEMMA ProjectedSuffice ==
  ASSUME ChainTypeOK, NEW S \in SUBSET DOMAIN chain
  PROVE  LET P == ProjectedAmong(S)
         IN  /\ TradesAmong(P) = TradesAmong(S)
             /\ CandlesAmong(P) = CandlesAmong(S)
             /\ \A c : InCandle(P, c) = InCandle(S, c)
             /\ \A t : TradesOf(P, t) = TradesAmong(OfToken(S, t))
             /\ \A t : \A kind \in {"TokenCreated", "TokenGraduated"} :
                  Happened(P, kind, t) <=> OfKind(OfToken(S, t), kind) # {}
<1> DEFINE P == ProjectedAmong(S)
<1>1. TradesAmong(P) = TradesAmong(S)
  BY DEF TradesAmong, ProjectedAmong, IsTrade, TradeKinds
<1>2. CandlesAmong(P) = CandlesAmong(S) /\ \A c : InCandle(P, c) = InCandle(S, c)
  BY <1>1 DEF CandlesAmong, InCandle
<1>3. \A t : TradesOf(P, t) = TradesAmong(OfToken(S, t))
  BY DEF TradesOf, TradesAmong, OfToken, ProjectedAmong, IsTrade, TradeKinds
<1>4. ASSUME NEW t, NEW kind \in {"TokenCreated", "TokenGraduated"}
      PROVE  Happened(P, kind, t) <=> OfKind(OfToken(S, t), kind) # {}
  BY DEF Happened, OfKind, OfToken, ProjectedAmong
<1> QED
  BY <1>1, <1>2, <1>3, <1>4

\* One more event: what has happened with it.
LEMMA HappenedNow ==
  ASSUME NEW S, NEW k, NEW kind, NEW u
  PROVE  Happened(S \union {k}, kind, u)
           <=> Happened(S, kind, u) \/ (chain[k].kind = kind /\ chain[k].token = u)
BY DEF Happened

\* A token created for the first time has no other event before that.
LEMMA CreationIsFirst ==
  ASSUME ChainTypeOK, ChainOrdered, NEW k \in DOMAIN chain, chain[k].kind = "TokenCreated",
         NEW S \in SUBSET DOMAIN chain, \A j \in S : j < k
  PROVE  LET t == chain[k].token
         IN  /\ ~Happened(S, "TokenCreated", t) /\ ~Happened(S, "TokenGraduated", t)
             /\ TradesOf(S, t) = {}
<1> DEFINE t == chain[k].token
<1>1. DOMAIN chain \subseteq Nat
  BY LogType
<1>2. \A j \in S : ~(chain[j].kind = "TokenCreated" /\ chain[j].token = t)
  BY <1>1 DEF ChainOrdered
<1>3. ASSUME NEW j \in S, chain[j].kind \in TradeKinds \union {"TokenGraduated"}, chain[j].token = t
      PROVE  FALSE
  <2>1. PICK i \in DOMAIN chain :
          /\ chain[i].kind = "TokenCreated" /\ chain[i].token = t /\ i < j
    BY <1>3 DEF ChainOrdered
  <2>2. i = k
    BY <2>1 DEF ChainOrdered
  <2> QED
    BY <1>1, <2>1, <2>2
<1> QED
  BY <1>2, <1>3 DEF Happened, TradesOf, TradesAmong, OfToken, IsTrade

\* The row of a new candle, and the row merged with a later trade.
LEMMA CandleRowGrows ==
  ASSUME ChainTypeOK, NEW k \in DOMAIN chain
  PROVE  /\ CandleRowOf(NewCandle(k), {k})
         /\ \A row \in CandleRow, all \in SUBSET DOMAIN chain :
              CandleRowOf(row, all) /\ (\A j \in all : j < k)
              => CandleRowOf(MergeCandle(row, k), all \union {k})
<1>1. DOMAIN chain \subseteq Nat
  BY LogType
<1>2. CandleRowOf(NewCandle(k), {k})
  <2>1. k \in Nat
    BY <1>1
  <2>2. RowOf(NewCandle(k), {k})
    BY RowGrows
  <2>3. /\ NewCandle(k).repeated = {}
        /\ NewCandle(k).open = chain[k].price /\ NewCandle(k).close = chain[k].price
    BY DEF NewCandle
  <2> QED
    BY <2>1, <2>2, <2>3 DEF CandleRowOf, IsLatest
<1>3. ASSUME NEW row \in CandleRow, NEW all \in SUBSET DOMAIN chain,
             CandleRowOf(row, all), \A j \in all : j < k
      PROVE  CandleRowOf(MergeCandle(row, k), all \union {k})
  <2> DEFINE new == MergeCandle(row, k)
  <2>1. RowOf(new, all \union {k})
    BY <1>3, RowGrows DEF CandleRowOf
  <2>2. /\ new.open = row.open /\ new.close = chain[k].price
        /\ new.repeated = row.repeated \union ({k} \intersect row.added)
    BY DEF MergeCandle
  <2> HIDE DEF new
  <2>3. row.added = all /\ row.repeated = {}
    BY <1>3 DEF CandleRowOf, RowOf
  <2>4. k \notin all
    BY <1>1, <1>3
  <2>5. new.repeated = {}
    BY <2>2, <2>3, <2>4
  <2>6. \E i \in all \union {k} : new.open = chain[i].price /\ \A j \in all \union {k} : i <= j
    BY <1>1, <1>3, <2>2 DEF CandleRowOf
  <2>7. \E i \in all \union {k} : new.close = chain[i].price /\ IsLatest(i, all \union {k})
    <3>1. IsLatest(k, all \union {k})
      BY <1>1, <1>3 DEF IsLatest
    <3> QED
      BY <2>2, <3>1
  <2>8. CandleRowOf(new, all \union {k})
    BY <2>1, <2>5, <2>6, <2>7 DEF CandleRowOf
  <2> QED
    BY <2>8 DEF new
<1> QED
  BY <1>2, <1>3

\* upsertKlines with a trade later than those in the table.
LEMMA CandlesUpserted ==
  ASSUME ChainTypeOK, NEW S \in SUBSET DOMAIN chain, NEW K, IsKlineTable(K),
         DOMAIN K = CandlesAmong(S), \A c \in DOMAIN K : CandleRowOf(K[c], InCandle(S, c)),
         NEW k \in DOMAIN chain, IsTrade(k), \A j \in S : j < k
  PROVE  LET U == UpsertKlines(K, k)
         IN  /\ DOMAIN U = CandlesAmong(S \union {k})
             /\ \A c \in DOMAIN U : CandleRowOf(U[c], InCandle(S \union {k}, c))
<1> DEFINE U == UpsertKlines(K, k)
           keys == {CandleOf(k, i) : i \in Intervals}
<1>1. /\ CandlesAmong(S \union {k}) = CandlesAmong(S) \union keys
      /\ \A c \in keys : InCandle(S \union {k}, c) = InCandle(S, c) \union {k}
      /\ \A c \in CandlesAmong(S) \ keys : InCandle(S \union {k}, c) = InCandle(S, c)
  BY TradeAdded
<1>2. /\ DOMAIN U = CandlesAmong(S) \union keys
      /\ \A c \in DOMAIN U : U[c] = IF c \notin keys THEN K[c]
              ELSE IF c \notin CandlesAmong(S) THEN NewCandle(k) ELSE MergeCandle(K[c], k)
  BY DEF UpsertKlines
<1>3. \A c \in CandlesAmong(S) : K[c] \in CandleRow /\ CandleRowOf(K[c], InCandle(S, c))
  BY DEF IsKlineTable
<1> HIDE DEF U
<1>4. ASSUME NEW c \in DOMAIN U
      PROVE  CandleRowOf(U[c], InCandle(S \union {k}, c))
  <2>1. CASE c \notin keys
    <3> HIDE DEF keys
    <3> QED
      BY <1>1, <1>2, <1>3, <2>1
  <2>2. CASE c \in keys /\ c \notin CandlesAmong(S)
    <3>1. InCandle(S, c) = {}
      BY <2>2, NoTradeYet
    <3> HIDE DEF keys
    <3>2. U[c] = NewCandle(k) /\ InCandle(S \union {k}, c) = {k}
      BY <1>1, <1>2, <2>2, <3>1
    <3> QED
      BY <3>2, CandleRowGrows
  <2>3. CASE c \in keys /\ c \in CandlesAmong(S)
    <3> HIDE DEF keys
    <3>1. InCandle(S, c) \in SUBSET DOMAIN chain /\ \A j \in InCandle(S, c) : j < k
      BY DEF InCandle, TradesAmong
    <3>2. U[c] = MergeCandle(K[c], k) /\ InCandle(S \union {k}, c) = InCandle(S, c) \union {k}
      BY <1>1, <1>2, <2>3
    <3> QED
      BY <1>3, <2>3, <3>1, <3>2, CandleRowGrows
  <2> QED
    BY <2>1, <2>2, <2>3
<1> QED
  BY <1>1, <1>2, <1>4 DEF U

\* What is said of logs that were emitted stays so while the chain grows.
LEMMA LogFactsStay ==
  ASSUME \A k \in DOMAIN chain : k \in DOMAIN chain' /\ chain'[k] = chain[k]
  PROVE  \A S \in SUBSET DOMAIN chain :
           /\ S \in SUBSET DOMAIN chain'
           /\ ProjectedAmong(S)' = ProjectedAmong(S)
           /\ TradesAmong(S)' = TradesAmong(S)
           /\ CandlesAmong(S)' = CandlesAmong(S)
           /\ \A c : InCandle(S, c)' = InCandle(S, c)
           /\ \A t : TradesOf(S, t)' = TradesOf(S, t)
           /\ \A kind, t : Happened(S, kind, t)' <=> Happened(S, kind, t)
           /\ \A row : CandleRowOf(row, S)' <=> CandleRowOf(row, S)
<1> SUFFICES ASSUME NEW S \in SUBSET DOMAIN chain
             PROVE  /\ S \in SUBSET DOMAIN chain'
                    /\ ProjectedAmong(S)' = ProjectedAmong(S)
                    /\ TradesAmong(S)' = TradesAmong(S)
                    /\ CandlesAmong(S)' = CandlesAmong(S)
                    /\ \A c : InCandle(S, c)' = InCandle(S, c)
                    /\ \A t : TradesOf(S, t)' = TradesOf(S, t)
                    /\ \A kind, t : Happened(S, kind, t)' <=> Happened(S, kind, t)
                    /\ \A row : CandleRowOf(row, S)' <=> CandleRowOf(row, S)
  OBVIOUS
<1>1. S \in SUBSET DOMAIN chain' /\ ProjectedAmong(S)' = ProjectedAmong(S)
  BY DEF ProjectedAmong
<1>2. TradesAmong(S)' = TradesAmong(S)
  BY DEF TradesAmong, IsTrade
<1>3. \A k \in S : \A i : CandleOf(k, i)' = CandleOf(k, i)
  BY DEF CandleOf
<1>4. TradesAmong(S) \subseteq S
  BY DEF TradesAmong
<1>5. CandlesAmong(S)' = CandlesAmong(S)
  BY <1>2, <1>3, <1>4 DEF CandlesAmong
<1>6. \A c : InCandle(S, c)' = InCandle(S, c)
  BY <1>2, <1>3, <1>4 DEF InCandle
<1>7. \A t : TradesOf(S, t)' = TradesOf(S, t)
  BY DEF TradesOf, TradesAmong, OfToken, IsTrade
<1>8. \A kind, t : Happened(S, kind, t)' <=> Happened(S, kind, t)
  BY DEF Happened
<1>9. \A row : CandleRowOf(row, S)' <=> CandleRowOf(row, S)
  <2>1. \A row : RowOf(row, S)' <=> RowOf(row, S)
    BY DEF RowOf
  <2> QED
    BY <2>1 DEF CandleRowOf, IsLatest
<1> QED
  BY <1>1, <1>2, <1>5, <1>6, <1>7, <1>8, <1>9

=============================================================================
