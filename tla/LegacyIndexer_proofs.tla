------------------------ MODULE LegacyIndexer_proofs ------------------------
(***************************************************************************)
(* What TLAPS proves of LegacyIndexer, for every chain, batch size, answer *)
(* limit, number of errors and exits and value of the other constants.     *)
(*                                                                         *)
(* The properties speak of the committed tables; the invariant says the    *)
(* same of the image an open transaction would commit, and adds what the   *)
(* process knows: which blocks are done and which events it still holds.   *)
(***************************************************************************)
EXTENDS LegacyIndexer, Chain_proofs

USE DEF RM!Absent, RM!Trading, RM!Graduated

-----------------------------------------------------------------------------
(* The inductive invariant.                                                *)

\* The committed tables and what an open transaction would make of them.
Images == {db} \union tx

\* Image e has every event and every graduation of image d.
Keeps(d, e) ==
    /\ d.events \subseteq e.events
    /\ \A t \in Tokens : d.tokens[t].status = RM!Graduated => e.tokens[t].status = RM!Graduated

\* Trades rows and events agree in image d.
TradesStored(d) == d.trades = {TradeRow(k) : k \in TradesAmong(d.events)}

\* An open transaction starts from the committed tables and leaves the
\* checkpoint alone.
OpenOK == \A d \in tx : Keeps(db, d) /\ d.ckpt = db.ckpt

\* Where the checkpoint, the process and its range are.
RangeOK ==
    /\ db.ckpt <= head
    /\ db.ckpt > 0 => StartBlock <= db.ckpt
    /\ stage # 0 => /\ batch > 0
                    /\ StartBlock <= next
                    /\ next = StartBlock \/ next <= head + 1
    /\ stage \in 2 .. 5 => /\ next <= end /\ end <= head
                           /\ todo \subseteq ProjectedAmong(LogsBetween(next, end))
    /\ stage \in 3 .. 5 => \A k \in todo : chain[k].kind # "TokenCreated"

\* All blocks up to b are stored.
StoredUpTo(b) == ProjectedAmong(LogsBetween(StartBlock, b)) \subseteq db.events

\* While no error was ignored, what is not stored yet is in memory or ahead.
NothingDropped ==
    failures = 0 =>
        /\ StoredUpTo(db.ckpt)
        /\ stage # 0 => StoredUpTo(next - 1)
        /\ stage \in 2 .. 5 => ProjectedAmong(LogsBetween(next, end)) \subseteq Image.events \union todo

\* No trade counts twice in image d.
NoRepeats(d) ==
    \A c \in DOMAIN d.klines : d.klines[c].repeated = {} /\ d.klines[c].added \subseteq d.events

\* The first process holds no event it has written, and no such event is ahead.
FirstPass ==
    exits = 0 =>
        /\ stage = 0 => db.events = {}
        /\ stage = 1 => \A k \in db.events : chain[k].block < next
        /\ stage \in 2 .. 5 => \A k \in Image.events : chain[k].block <= end /\ k \notin todo
        /\ \A d \in Images : NoRepeats(d)

\* In image d a token's status is what the stored events make it, and no stored
\* graduation is without its token's creation, if that is from StartBlock on.
StatusesOf(d) ==
    /\ \A t \in Tokens : d.tokens[t].status = RM!TokenImage(d.events, t).status
    /\ \A k \in d.events : StartBlock <= chain[k].block
    /\ \A g \in d.events, j \in DOMAIN chain :
          /\ chain[g].kind = "TokenGraduated" /\ chain[j].kind = "TokenCreated"
          /\ chain[j].token = chain[g].token
          /\ StartBlock <= chain[j].block
          => j \in d.events

\* Image d has exactly the candles of the trades it has stored.
CandlesOf(d) ==
    /\ DOMAIN d.klines = CandlesAmong(Priced(d.events))
    /\ \A c \in DOMAIN d.klines : RowOf(d.klines[c], InCandle(Priced(d.events), c))

\* While no error was ignored, the tables are what the stored events make them.
ProjectedExactly ==
    failures = 0 => \A d \in Images : StatusesOf(d) /\ CandlesOf(d)

\* What the invariant says of the tables.
TablesOK ==
    /\ \A d \in Images : TradesStored(d)
    /\ OpenOK
    /\ ProjectedExactly

LegacyInv ==
    /\ TypeOK
    /\ ChainBounded
    /\ ChainOrdered
    /\ TablesOK
    /\ RangeOK
    /\ NothingDropped
    /\ FirstPass

-----------------------------------------------------------------------------
(* The statements of one event.                                            *)

\* The image of an open transaction is the only one there is.
LEMMA ImageIs ==
  ASSUME TypeOK
  PROVE  /\ Image \in Images
         /\ tx = {} => Image = db
         /\ tx # {} => tx = {Image}
         /\ IsDatabase(Image)
<1>1. tx # {} => (CHOOSE d \in tx : TRUE) \in tx
  OBVIOUS
<1>2. \A d, e \in tx : d = e
  BY DEF TypeOK
<1>3. \A d \in Images : IsDatabase(d)
  BY DEF TypeOK, Images
<1>4. CASE tx = {}
  BY <1>3, <1>4 DEF Image, Images
<1>5. CASE tx # {}
  <2>1. Image \in tx
    BY <1>1, <1>5 DEF Image
  <2>2. tx = {Image}
    BY <1>2, <2>1
  <2> QED
    BY <1>3, <1>5, <2>1, <2>2 DEF Images
<1> QED
  BY <1>4, <1>5

\* A row of trades.
LEMMA TradeRowType ==
  ASSUME TypeOK, NEW k \in DOMAIN chain
  PROVE  /\ txs[k] \in Nat
         /\ IsTrade(k) => TradeRow(k) \in Nat \X TradeKinds
<1>1. k \in DOMAIN txs
  BY DEF TypeOK, ChainTypeOK
<1>2. txs[k] \in Nat
  BY <1>1 DEF TypeOK
<1> QED
  BY <1>2 DEF TradeRow, IsTrade

\* The fields of an image.
LEMMA Fields ==
  ASSUME NEW d, IsDatabase(d), NEW t \in Tokens
  PROVE  /\ d.tokens \in [Tokens -> TokenRow]
         /\ IsKlineTable(d.klines)
         /\ d.tokens[t].status \in {RM!Absent, RM!Trading, RM!Graduated}
         /\ d.tokens[t].totals \in Nat
<1>1. d.tokens[t] \in TokenRow
  BY DEF IsDatabase
<1> QED
  BY <1>1 DEF IsDatabase, TokenRow

\* UPDATE tokens with a row for t changes the row of t, if there is one.
LEMMA UpdateTokenRows ==
  ASSUME NEW rows \in [Tokens -> TokenRow], NEW t \in Tokens, NEW row \in TokenRow
  PROVE  /\ UpdateToken(rows, t, row) \in [Tokens -> TokenRow]
         /\ \A u \in Tokens : UpdateToken(rows, t, row)[u]
                = IF u = t /\ rows[t].status # RM!Absent THEN row ELSE rows[u]
BY DEF UpdateToken

\* What storing event k makes of image d, whichever statement it is.
StoredBy(d, k, e) ==
    /\ IsDatabase(e)
    /\ e.events = d.events \union {k}
    /\ e.ckpt = d.ckpt
    /\ Keeps(d, e)

\* BatchInsertTokenCreatedEvents on one event.
LEMMA CreatedStored ==
  ASSUME TypeOK, NEW d, IsDatabase(d), NEW k \in DOMAIN chain
  PROVE  LET e == StoreTokenCreated(d, k)
             t == chain[k].token
         IN  /\ StoredBy(d, k, e)
             /\ e.trades = d.trades
             /\ e.klines = d.klines
             /\ \A u \in Tokens : e.tokens[u].status
                    = IF u = t /\ d.tokens[t].status = RM!Absent THEN RM!Trading
                      ELSE d.tokens[u].status
<1> DEFINE e == StoreTokenCreated(d, k)
           t == chain[k].token
           T == IF d.tokens[t].status = RM!Absent
                THEN [d.tokens EXCEPT ![t] = [status |-> RM!Trading, totals |-> 0]]
                ELSE d.tokens
<1>1. t \in Tokens
  BY LogType DEF TypeOK
<1>2. d.tokens \in [Tokens -> TokenRow]
  BY DEF IsDatabase
<1>3. T \in [Tokens -> TokenRow]
  BY <1>1, <1>2 DEF TokenRow
<1>4. \A u \in Tokens : T[u].status = IF u = t /\ d.tokens[t].status = RM!Absent THEN RM!Trading
                                      ELSE d.tokens[u].status
  BY <1>1, <1>2
<1>5. e = [events |-> d.events \union {k}, trades |-> d.trades, tokens |-> T,
           klines |-> d.klines, ckpt |-> d.ckpt]
  <2>1. d = [events |-> d.events, trades |-> d.trades, tokens |-> d.tokens,
             klines |-> d.klines, ckpt |-> d.ckpt]
    BY DEF IsDatabase
  <2>2. e = StoreTokenCreated(d, k)
    OBVIOUS
  <2> HIDE DEF e
  <2> QED
    BY <1>2, <2>1, <2>2 DEF StoreTokenCreated
<1> HIDE DEF e, T
<1>6. IsDatabase(e)
  BY <1>3, <1>5 DEF IsDatabase
<1>7. Keeps(d, e)
  BY <1>4, <1>5 DEF Keeps
<1> QED
  BY <1>4, <1>5, <1>6, <1>7 DEF StoredBy, e

\* BatchInsertTokenBoughtEvents or BatchInsertTokenSoldEvents on one event.
LEMMA TradeStored ==
  ASSUME TypeOK, NEW d, IsDatabase(d), NEW k \in DOMAIN chain, IsTrade(k), NEW w \in BOOLEAN
  PROVE  LET e == StoreTrade(d, k, w)
         IN  /\ StoredBy(d, k, e)
             /\ e.trades = d.trades \union {TradeRow(k)}
             /\ e.klines = IF w /\ chain[k].price # 0 THEN UpsertKlines(d.klines, k) ELSE d.klines
             /\ \A u \in Tokens : e.tokens[u].status = d.tokens[u].status
<1> DEFINE e == StoreTrade(d, k, w)
           t == chain[k].token
           row == [status |-> d.tokens[t].status, totals |-> k]
           T == UpdateToken(d.tokens, t, row)
           K == IF w /\ chain[k].price # 0 THEN UpsertKlines(d.klines, k) ELSE d.klines
<1>1. t \in Tokens /\ k \in Nat /\ ChainTypeOK
  BY LogType DEF TypeOK
<1>2. /\ d.tokens \in [Tokens -> TokenRow] /\ IsKlineTable(d.klines)
      /\ d.tokens[t].status \in {RM!Absent, RM!Trading, RM!Graduated}
  BY <1>1, Fields
<1>3. row \in TokenRow /\ row.status = d.tokens[t].status
  BY <1>1, <1>2 DEF TokenRow
<1>4. T \in [Tokens -> TokenRow] /\ \A u \in Tokens : T[u].status = d.tokens[u].status
  <2> HIDE DEF row
  <2>1. /\ T \in [Tokens -> TokenRow]
        /\ \A u \in Tokens : T[u] = IF u = t /\ d.tokens[t].status # RM!Absent THEN row ELSE d.tokens[u]
    BY <1>1, <1>2, <1>3, UpdateTokenRows
  <2> HIDE DEF T
  <2> QED
    BY <1>3, <2>1
<1>5. IsKlineTable(K)
  BY <1>1, <1>2, UpsertKlinesType
<1>6. e = [events |-> d.events \union {k}, trades |-> d.trades \union {TradeRow(k)}, tokens |-> T,
           klines |-> K, ckpt |-> d.ckpt]
  <2>1. d = [events |-> d.events, trades |-> d.trades, tokens |-> d.tokens,
             klines |-> d.klines, ckpt |-> d.ckpt]
    BY DEF IsDatabase
  <2>2. e = StoreTrade(d, k, w)
    OBVIOUS
  <2> HIDE DEF e
  <2> QED
    BY <1>2, <2>1, <2>2 DEF StoreTrade
<1>7. TradeRow(k) \in Nat \X TradeKinds
  BY TradeRowType
<1> HIDE DEF e, T, K
<1>8. IsDatabase(e)
  BY <1>4, <1>5, <1>6, <1>7 DEF IsDatabase
<1>9. Keeps(d, e)
  BY <1>4, <1>6 DEF Keeps
<1> QED
  BY <1>4, <1>6, <1>8, <1>9 DEF StoredBy, e, K

\* InsertTokenGraduatedEvent.
LEMMA GraduatedStored ==
  ASSUME TypeOK, NEW d, IsDatabase(d), NEW k \in DOMAIN chain
  PROVE  LET e == StoreTokenGraduated(d, k)
             t == chain[k].token
         IN  /\ StoredBy(d, k, e)
             /\ e.trades = d.trades
             /\ e.klines = d.klines
             /\ \A u \in Tokens : e.tokens[u].status
                    = IF u = t /\ d.tokens[t].status # RM!Absent THEN RM!Graduated
                      ELSE d.tokens[u].status
<1> DEFINE e == StoreTokenGraduated(d, k)
           t == chain[k].token
           row == [status |-> RM!Graduated, totals |-> d.tokens[t].totals]
           T == UpdateToken(d.tokens, t, row)
<1>1. t \in Tokens
  BY LogType DEF TypeOK
<1>2. d.tokens \in [Tokens -> TokenRow] /\ d.tokens[t].totals \in Nat
  BY <1>1, Fields
<1>3. row \in TokenRow /\ row.status = RM!Graduated
  BY <1>2 DEF TokenRow
<1>4. /\ T \in [Tokens -> TokenRow]
      /\ \A u \in Tokens : T[u].status
            = IF u = t /\ d.tokens[t].status # RM!Absent THEN RM!Graduated ELSE d.tokens[u].status
  <2> HIDE DEF row
  <2>1. /\ T \in [Tokens -> TokenRow]
        /\ \A u \in Tokens : T[u] = IF u = t /\ d.tokens[t].status # RM!Absent THEN row ELSE d.tokens[u]
    BY <1>1, <1>2, <1>3, UpdateTokenRows
  <2> HIDE DEF T
  <2> QED
    BY <1>3, <2>1
<1>5. e = [events |-> d.events \union {k}, trades |-> d.trades, tokens |-> T,
           klines |-> d.klines, ckpt |-> d.ckpt]
  <2>1. d = [events |-> d.events, trades |-> d.trades, tokens |-> d.tokens,
             klines |-> d.klines, ckpt |-> d.ckpt]
    BY DEF IsDatabase
  <2>2. e = StoreTokenGraduated(d, k)
    OBVIOUS
  <2> HIDE DEF e
  <2> QED
    BY <1>2, <2>1, <2>2 DEF StoreTokenGraduated
<1> HIDE DEF e, T
<1>6. IsDatabase(e)
  BY <1>4, <1>5 DEF IsDatabase
<1>7. Keeps(d, e)
  BY <1>4, <1>5 DEF Keeps
<1> QED
  BY <1>4, <1>5, <1>6, <1>7 DEF StoredBy, e

-----------------------------------------------------------------------------
(* What storing an event makes of an image that is exact.                  *)

\* The status TokenImage gives a token.
LEMMA StatusIs ==
  ASSUME NEW S, NEW t
  PROVE  RM!TokenImage(S, t).status =
           IF ~Happened(S, "TokenCreated", t) THEN RM!Absent
           ELSE IF Happened(S, "TokenGraduated", t) THEN RM!Graduated ELSE RM!Trading
<1>1. ASSUME NEW kind
      PROVE  RM!OfKind(RM!OfToken(S, t), kind) = {} <=> ~Happened(S, kind, t)
  BY DEF RM!OfKind, RM!OfToken, Happened
<1> QED
  BY <1>1 DEF RM!TokenImage

\* The status of every token, without the image.
LEMMA StatusesAre ==
  ASSUME NEW d
  PROVE  (\A t \in Tokens : d.tokens[t].status = RM!TokenImage(d.events, t).status)
         <=> \A t \in Tokens : d.tokens[t].status =
               IF ~Happened(d.events, "TokenCreated", t) THEN RM!Absent
               ELSE IF Happened(d.events, "TokenGraduated", t) THEN RM!Graduated ELSE RM!Trading
BY StatusIs

\* Storing a creation: a token without a row has no stored creation, and so no
\* stored graduation; a token with a row was created by k.
LEMMA CreatedExact ==
  ASSUME TypeOK, NEW d, IsDatabase(d), StatusesOf(d),
         NEW k \in DOMAIN chain, chain[k].kind = "TokenCreated", StartBlock <= chain[k].block
  PROVE  StatusesOf(StoreTokenCreated(d, k))
<1> DEFINE e == StoreTokenCreated(d, k)
           t == chain[k].token
<1>1. /\ e.events = d.events \union {k}
      /\ \A u \in Tokens : e.tokens[u].status
            = IF u = t /\ d.tokens[t].status = RM!Absent THEN RM!Trading ELSE d.tokens[u].status
  BY CreatedStored DEF StoredBy
<1>2. t \in Tokens
  BY LogType DEF TypeOK
<1> HIDE DEF e
<1>3. ASSUME NEW u \in Tokens
      PROVE  /\ Happened(e.events, "TokenCreated", u) <=> u = t \/ Happened(d.events, "TokenCreated", u)
             /\ Happened(e.events, "TokenGraduated", u) <=> Happened(d.events, "TokenGraduated", u)
  BY <1>1 DEF Happened
<1>4. ~Happened(d.events, "TokenCreated", t) => ~Happened(d.events, "TokenGraduated", t)
  BY DEF Happened, StatusesOf
<1>5. \A u \in Tokens : d.tokens[u].status =
         IF ~Happened(d.events, "TokenCreated", u) THEN RM!Absent
         ELSE IF Happened(d.events, "TokenGraduated", u) THEN RM!Graduated ELSE RM!Trading
  BY StatusesAre DEF StatusesOf
<1>6. \A u \in Tokens : e.tokens[u].status =
         IF ~Happened(e.events, "TokenCreated", u) THEN RM!Absent
         ELSE IF Happened(e.events, "TokenGraduated", u) THEN RM!Graduated ELSE RM!Trading
  BY <1>1, <1>2, <1>3, <1>4, <1>5
<1>7. \A u \in Tokens : e.tokens[u].status = RM!TokenImage(e.events, u).status
  BY <1>6, StatusesAre
<1> QED
  BY <1>1, <1>7 DEF StatusesOf, e

\* Storing a trade changes no status.
LEMMA TradeKeepsStatuses ==
  ASSUME TypeOK, NEW d, IsDatabase(d), StatusesOf(d), NEW w \in BOOLEAN,
         NEW k \in DOMAIN chain, IsTrade(k), StartBlock <= chain[k].block
  PROVE  StatusesOf(StoreTrade(d, k, w))
<1> DEFINE e == StoreTrade(d, k, w)
<1>1. /\ e.events = d.events \union {k}
      /\ \A u \in Tokens : e.tokens[u].status = d.tokens[u].status
  BY TradeStored DEF StoredBy
<1> HIDE DEF e
<1>2. chain[k].kind # "TokenCreated" /\ chain[k].kind # "TokenGraduated"
  BY DEF IsTrade, TradeKinds
<1>3. \A u, kind : kind \in {"TokenCreated", "TokenGraduated"} =>
         (Happened(e.events, kind, u) <=> Happened(d.events, kind, u))
  BY <1>1, <1>2 DEF Happened
<1>4. \A u \in Tokens : e.tokens[u].status = RM!TokenImage(e.events, u).status
  BY ZenonT(30), <1>1, <1>3, StatusesAre DEF StatusesOf
<1> QED
  BY <1>1, <1>2, <1>4 DEF StatusesOf, e

\* Storing a graduation: its token's creation is stored, or is from before
\* StartBlock and never will be.
LEMMA GraduatedExact ==
  ASSUME TypeOK, ChainOrdered, NEW d, IsDatabase(d), StatusesOf(d),
         NEW k \in DOMAIN chain, chain[k].kind = "TokenGraduated", StartBlock <= chain[k].block,
         \A j \in DOMAIN chain :
            /\ chain[j].kind = "TokenCreated" /\ chain[j].token = chain[k].token
            /\ StartBlock <= chain[j].block
            => j \in d.events
  PROVE  StatusesOf(StoreTokenGraduated(d, k))
<1> DEFINE e == StoreTokenGraduated(d, k)
           t == chain[k].token
<1>1. /\ e.events = d.events \union {k}
      /\ \A u \in Tokens : e.tokens[u].status
            = IF u = t /\ d.tokens[t].status # RM!Absent THEN RM!Graduated ELSE d.tokens[u].status
  BY GraduatedStored DEF StoredBy
<1>2. t \in Tokens
  BY LogType DEF TypeOK
<1> HIDE DEF e
<1>3. ASSUME NEW u \in Tokens
      PROVE  /\ Happened(e.events, "TokenCreated", u) <=> Happened(d.events, "TokenCreated", u)
             /\ Happened(e.events, "TokenGraduated", u)
                  <=> u = t \/ Happened(d.events, "TokenGraduated", u)
  BY <1>1 DEF Happened
<1>4. \A u \in Tokens : d.tokens[u].status =
         IF ~Happened(d.events, "TokenCreated", u) THEN RM!Absent
         ELSE IF Happened(d.events, "TokenGraduated", u) THEN RM!Graduated ELSE RM!Trading
  BY StatusesAre DEF StatusesOf
<1>5. \A u \in Tokens : e.tokens[u].status =
         IF ~Happened(e.events, "TokenCreated", u) THEN RM!Absent
         ELSE IF Happened(e.events, "TokenGraduated", u) THEN RM!Graduated ELSE RM!Trading
  BY <1>1, <1>2, <1>3, <1>4
<1>6. \A u \in Tokens : e.tokens[u].status = RM!TokenImage(e.events, u).status
  BY <1>5, StatusesAre
<1>7. ASSUME NEW g \in e.events, NEW j \in DOMAIN chain,
             chain[g].kind = "TokenGraduated", chain[j].kind = "TokenCreated",
             chain[j].token = chain[g].token, StartBlock <= chain[j].block
      PROVE  j \in e.events
  BY <1>1, <1>7 DEF StatusesOf
<1>8. \A j \in e.events : StartBlock <= chain[j].block
  BY <1>1 DEF StatusesOf
<1> QED
  BY <1>6, <1>7, <1>8 DEF StatusesOf, e

\* An event that is no trade leaves the candles exact.
LEMMA OtherKeepsCandles ==
  ASSUME NEW d, NEW e, NEW k, ~IsTrade(k), CandlesOf(d),
         e.events = d.events \union {k}, e.klines = d.klines
  PROVE  CandlesOf(e)
<1>1. Priced(e.events) = Priced(d.events) \/ Priced(e.events) = Priced(d.events) \union {k}
  BY DEF Priced
<1>2. /\ CandlesAmong(Priced(e.events)) = CandlesAmong(Priced(d.events))
      /\ \A c : InCandle(Priced(e.events), c) = InCandle(Priced(d.events), c)
  BY <1>1, OtherAdded
<1> QED
  BY <1>2 DEF CandlesOf

\* Storing a trade with its candles keeps them exact, whether or not the trade
\* was stored before.
LEMMA TradeExact ==
  ASSUME TypeOK, NEW d, IsDatabase(d), CandlesOf(d), NEW k \in DOMAIN chain, IsTrade(k)
  PROVE  CandlesOf(StoreTrade(d, k, TRUE))
<1> DEFINE e == StoreTrade(d, k, TRUE)
           keys == {CandleOf(k, i) : i \in Intervals}
           S == Priced(d.events)
<1>1. /\ e.events = d.events \union {k}
      /\ e.klines = IF chain[k].price # 0 THEN UpsertKlines(d.klines, k) ELSE d.klines
  <2>1. TRUE \in BOOLEAN
    OBVIOUS
  <2>2. StoredBy(d, k, e) /\ e.klines = IF TRUE /\ chain[k].price # 0
                                       THEN UpsertKlines(d.klines, k) ELSE d.klines
    BY ZenonT(30), <2>1, TradeStored
  <2> HIDE DEF e
  <2> QED
    BY <2>2 DEF StoredBy
<1> HIDE DEF e
<1>2. CASE chain[k].price = 0
  <2>1. Priced(e.events) = S /\ e.klines = d.klines
    BY <1>1, <1>2 DEF Priced
  <2> QED
    BY <2>1 DEF CandlesOf, e
<1>3. CASE chain[k].price # 0
  <2>1. Priced(e.events) = S \union {k}
    BY <1>1, <1>3 DEF Priced
  <2>2. /\ CandlesAmong(S \union {k}) = CandlesAmong(S) \union keys
        /\ \A c \in keys : InCandle(S \union {k}, c) = InCandle(S, c) \union {k}
        /\ \A c \in CandlesAmong(S) \ keys : InCandle(S \union {k}, c) = InCandle(S, c)
    BY TradeAdded
  <2>3. DOMAIN d.klines = CandlesAmong(S)
    BY DEF CandlesOf
  <2>4. /\ DOMAIN e.klines = CandlesAmong(S) \union keys
        /\ \A c \in DOMAIN e.klines : e.klines[c] =
              IF c \notin keys THEN d.klines[c]
              ELSE IF c \notin CandlesAmong(S) THEN NewCandle(k) ELSE MergeCandle(d.klines[c], k)
    BY <1>1, <1>3, <2>3 DEF UpsertKlines
  <2>5. \A c \in CandlesAmong(S) : d.klines[c] \in CandleRow /\ RowOf(d.klines[c], InCandle(S, c))
    BY <2>3 DEF IsDatabase, IsKlineTable, CandlesOf
  <2>6. S \subseteq DOMAIN chain
    BY DEF IsDatabase, Priced
  <2> HIDE DEF keys
  <2>7. ASSUME NEW c \in DOMAIN e.klines
        PROVE  RowOf(e.klines[c], InCandle(S \union {k}, c))
    <3>1. CASE c \notin keys
      BY <2>2, <2>4, <2>5, <3>1
    <3>2. CASE c \in keys /\ c \notin CandlesAmong(S)
      <4>1. InCandle(S, c) = {}
        BY <3>2, NoTradeYet DEF keys
      <4>2. e.klines[c] = NewCandle(k)
        BY <2>4, <3>2
      <4>3. InCandle(S \union {k}, c) = {k}
        BY <2>2, <3>2, <4>1
      <4> QED
        BY <4>2, <4>3, RowGrows DEF TypeOK
    <3>3. CASE c \in keys /\ c \in CandlesAmong(S)
      <4>1. InCandle(S, c) \in SUBSET DOMAIN chain
        BY <2>6 DEF InCandle, TradesAmong
      <4>2. e.klines[c] = MergeCandle(d.klines[c], k)
        BY <2>4, <3>3
      <4>3. InCandle(S \union {k}, c) = InCandle(S, c) \union {k}
        BY <2>2, <3>3
      <4> QED
        BY <2>5, <3>3, <4>1, <4>2, <4>3, RowGrows DEF TypeOK
    <3> QED
      BY <3>1, <3>2, <3>3
  <2> QED
    BY <2>1, <2>2, <2>4, <2>7 DEF CandlesOf, e
<1> QED
  BY <1>2, <1>3

\* The trades rows and the events stay in step.
LEMMA TradesStayStored ==
  ASSUME NEW d, NEW e, NEW k, TradesStored(d), e.events = d.events \union {k},
         e.trades = IF IsTrade(k) THEN d.trades \union {TradeRow(k)} ELSE d.trades
  PROVE  TradesStored(e)
<1>1. TradesAmong(e.events) = IF IsTrade(k) THEN TradesAmong(d.events) \union {k}
                              ELSE TradesAmong(d.events)
  BY DEF TradesAmong
<1> QED
  BY <1>1 DEF TradesStored

\* A trade that was not stored before repeats in no candle.
LEMMA TradeNotRepeated ==
  ASSUME TypeOK, NEW d, IsDatabase(d), NoRepeats(d), NEW w \in BOOLEAN,
         NEW k \in DOMAIN chain, IsTrade(k), k \notin d.events
  PROVE  NoRepeats(StoreTrade(d, k, w))
<1> DEFINE e == StoreTrade(d, k, w)
           keys == {CandleOf(k, i) : i \in Intervals}
<1>1. /\ e.events = d.events \union {k}
      /\ e.klines = IF w /\ chain[k].price # 0 THEN UpsertKlines(d.klines, k) ELSE d.klines
  BY TradeStored DEF StoredBy
<1> HIDE DEF e
<1>2. CASE e.klines = d.klines
  BY <1>1, <1>2 DEF NoRepeats, e
<1>3. CASE e.klines = UpsertKlines(d.klines, k)
  <2>1. /\ DOMAIN e.klines = DOMAIN d.klines \union keys
        /\ \A c \in DOMAIN e.klines : e.klines[c] =
              IF c \notin keys THEN d.klines[c]
              ELSE IF c \notin DOMAIN d.klines THEN NewCandle(k) ELSE MergeCandle(d.klines[c], k)
    BY <1>3 DEF UpsertKlines
  <2>2. \A row : row.repeated = {} /\ row.added \subseteq d.events
           => /\ MergeCandle(row, k).repeated = {}
              /\ MergeCandle(row, k).added \subseteq e.events
    BY <1>1 DEF MergeCandle
  <2>3. NewCandle(k).repeated = {} /\ NewCandle(k).added \subseteq e.events
    BY <1>1 DEF NewCandle
  <2> HIDE DEF keys
  <2>4. ASSUME NEW c \in DOMAIN e.klines
        PROVE  e.klines[c].repeated = {} /\ e.klines[c].added \subseteq e.events
    <3>1. CASE c \in DOMAIN d.klines
      <4>1. d.klines[c].repeated = {} /\ d.klines[c].added \subseteq d.events
        BY <3>1 DEF NoRepeats
      <4>2. e.klines[c] = d.klines[c] \/ e.klines[c] = MergeCandle(d.klines[c], k)
        BY <2>1, <3>1
      <4> QED
        BY <1>1, <2>2, <4>1, <4>2
    <3>2. CASE c \notin DOMAIN d.klines
      <4>1. e.klines[c] = NewCandle(k)
        BY <2>1, <3>2
      <4> QED
        BY <2>3, <4>1
    <3> QED
      BY <3>1, <3>2
  <2> QED
    BY <2>4 DEF NoRepeats, e
<1> QED
  BY <1>1, <1>2, <1>3

-----------------------------------------------------------------------------
(* Init and every action preserve the invariant.                           *)

\* What the invariant says of an image depends on the chain only.
LEMMA ImageFacts ==
  ASSUME UNCHANGED <<chain, head, txs>>
  PROVE  \A d : /\ TradesStored(d)' <=> TradesStored(d)
                /\ StatusesOf(d)' <=> StatusesOf(d)
                /\ CandlesOf(d)' <=> CandlesOf(d)
                /\ IsDatabase(d)' <=> IsDatabase(d)
                /\ NoRepeats(d)' <=> NoRepeats(d)
<1> SUFFICES ASSUME NEW d
             PROVE  /\ TradesStored(d)' <=> TradesStored(d)
                    /\ StatusesOf(d)' <=> StatusesOf(d)
                    /\ CandlesOf(d)' <=> CandlesOf(d)
                    /\ IsDatabase(d)' <=> IsDatabase(d)
                    /\ NoRepeats(d)' <=> NoRepeats(d)
  OBVIOUS
<1>1. TradesStored(d)' <=> TradesStored(d)
  BY DEF TradesStored, TradeRow, TradesAmong, IsTrade
<1>2. StatusesOf(d)' <=> StatusesOf(d)
  <2>1. \A t : RM!TokenImage(d.events, t)' = RM!TokenImage(d.events, t)
    BY DEF RM!TokenImage, RM!OfToken, RM!OfKind, RM!TradesAmong, RM!IsTrade
  <2> QED
    BY <2>1 DEF StatusesOf
<1>3. CandlesOf(d)' <=> CandlesOf(d)
  <2>1. \A k, i : CandleOf(k, i)' = CandleOf(k, i)
    BY DEF CandleOf
  <2>2. \A S : TradesAmong(S)' = TradesAmong(S) /\ Priced(S)' = Priced(S)
    BY DEF TradesAmong, IsTrade, Priced
  <2>3. \A S : CandlesAmong(S)' = CandlesAmong(S)
    BY <2>1, <2>2 DEF CandlesAmong
  <2>4. \A S, c : InCandle(S, c)' = InCandle(S, c)
    BY <2>1, <2>2 DEF InCandle
  <2>5. \A row, all : RowOf(row, all)' <=> RowOf(row, all)
    BY DEF RowOf
  <2> QED
    BY <2>2, <2>3, <2>4, <2>5 DEF CandlesOf
<1>4. IsDatabase(d)' <=> IsDatabase(d)
  BY DEF IsDatabase, IsKlineTable
<1>5. NoRepeats(d)' <=> NoRepeats(d)
  BY DEF NoRepeats
<1> QED
  BY <1>1, <1>2, <1>3, <1>4, <1>5

\* Before the first start nothing is stored and nothing is in memory.
LEMMA InitLegacyInv == Init => LegacyInv
<1> SUFFICES ASSUME Init PROVE LegacyInv
  OBVIOUS
<1> USE ChainAssumption, LegacyAssumption DEF ChainAssumption, LegacyAssumption
<1>1. /\ chain = << >> /\ head = 0 /\ txs = << >> /\ tx = {} /\ stage = 0 /\ todo = {}
      /\ next = 0 /\ end = 0 /\ batch = 0 /\ successes = 0 /\ failures = 0 /\ exits = 0
      /\ db = [events |-> {}, trades |-> {},
               tokens |-> [t \in Tokens |-> [status |-> RM!Absent, totals |-> 0]],
               klines |-> [c \in {} |-> 0],
               ckpt   |-> 0]
  BY DEF Init, ChainInit
<1>2. DOMAIN chain = {} /\ Images = {db}
  BY <1>1 DEF Images
<1>3. IsDatabase(db)
  BY <1>1 DEF IsDatabase, IsKlineTable, TokenRow
<1>4. TypeOK
  BY <1>1, <1>2, <1>3 DEF TypeOK, ChainTypeOK
<1>5. ChainBounded /\ ChainOrdered
  BY <1>2 DEF ChainBounded, ChainOrdered
<1>6. OpenOK /\ RangeOK
  BY <1>1 DEF OpenOK, RangeOK
<1>7. NothingDropped
  BY <1>1, <1>2 DEF NothingDropped, StoredUpTo, ProjectedAmong, LogsBetween
<1>8. FirstPass
  BY <1>1, <1>2 DEF FirstPass, NoRepeats
<1>9. TradesStored(db)
  BY <1>1 DEF TradesStored, TradesAmong
<1>10. StatusesOf(db)
  <2>1. \A t : ~Happened(db.events, "TokenCreated", t)
    BY <1>1 DEF Happened
  <2>2. \A t \in Tokens : db.tokens[t].status = RM!TokenImage(db.events, t).status
    BY <1>1, <2>1, StatusesAre
  <2> QED
    BY <1>1, <2>2 DEF StatusesOf
<1>11. CandlesOf(db)
  BY <1>1 DEF CandlesOf, CandlesAmong, TradesAmong, Priced
<1> QED
  BY <1>2, <1>4, <1>5, <1>6, <1>7, <1>8, <1>9, <1>10, <1>11 DEF LegacyInv, TablesOK, ProjectedExactly

\* The logs of blocks the node has, and everything about them, stay as they are.
LEMMA LogsStay ==
  ASSUME TypeOK, ChainBounded, ChainOrdered, GrowChain
  PROVE  /\ TypeOK' /\ ChainBounded' /\ ChainOrdered'
         /\ UNCHANGED <<db, tx, stage, next, end, todo, batch, successes, failures, exits>>
         /\ head \in Nat /\ head' \in Nat /\ head <= head'
         /\ DOMAIN chain \subseteq DOMAIN chain'
         /\ \A k \in DOMAIN chain : chain'[k] = chain[k] /\ txs'[k] = txs[k]
<1>1. /\ ChainTypeOK /\ ChainNext
      /\ UNCHANGED <<db, tx, stage, next, end, todo, batch, successes, failures, exits>>
  BY DEF GrowChain, TypeOK, memVars
<1>2. /\ ChainTypeOK' /\ ChainBounded' /\ head \in Nat /\ head' \in Nat /\ head <= head'
      /\ DOMAIN chain \subseteq DOMAIN chain'
      /\ \A k \in DOMAIN chain : chain'[k] = chain[k]
  BY <1>1, ChainGrows DEF ChainTypeOK
<1>3. ChainOrdered'
  BY <1>1, ChainStaysOrdered
<1>4. Len(chain') = Len(chain) \/ Len(chain') = Len(chain) + 1
  <2>1. CASE Mine
    BY <2>1 DEF Mine
  <2>2. ASSUME NEW kind \in LogKinds, NEW t \in Tokens, NEW p \in Prices \union {0},
               Emit(kind, t, p)
        PROVE  Len(chain') = Len(chain) + 1
    <3>1. chain \in Seq(Log)
      BY <1>1 DEF ChainTypeOK
    <3>2. PICK log : chain' = Append(chain, log)
      BY <2>2 DEF Emit
    <3> QED
      BY <3>1, <3>2
  <2> QED
    BY <1>1, <2>1, <2>2 DEF ChainNext
<1>5. /\ txs' \in Seq(Nat) /\ Len(txs') = Len(chain')
      /\ \A k \in DOMAIN chain : txs'[k] = txs[k]
  <2>1. /\ txs \in Seq(Nat) /\ Len(txs) = Len(chain) /\ Len(chain) \in Nat /\ Len(chain') \in Nat
        /\ DOMAIN chain = 1 .. Len(chain)
    BY <1>1, <1>2 DEF TypeOK, ChainTypeOK
  <2>2. CASE Len(chain') = Len(chain)
    BY <2>1, <2>2 DEF GrowChain
  <2>3. CASE Len(chain') # Len(chain)
    <3>1. PICK first \in 1 .. Len(chain') : txs' = Append(txs, first)
      BY <2>3 DEF GrowChain
    <3>2. first \in Nat
      BY <2>1, <3>1
    <3> QED
      BY <1>4, <2>1, <2>3, <3>1, <3>2
  <2> QED
    BY <2>2, <2>3
<1>6. \A d \in {db} \union tx : IsDatabase(d)'
  BY <1>2 DEF TypeOK, IsDatabase, IsKlineTable
<1>7. TypeOK'
  BY <1>1, <1>2, <1>5, <1>6 DEF TypeOK
<1> QED
  BY <1>1, <1>2, <1>3, <1>5, <1>7

\* The tables say nothing of new logs.
LEMMA GrowChainTables ==
  ASSUME TypeOK, ChainBounded, ChainOrdered, TablesOK, GrowChain
  PROVE  TablesOK'
<1>1. /\ ChainOrdered'
      /\ UNCHANGED <<db, tx, failures>>
      /\ DOMAIN chain \subseteq DOMAIN chain'
      /\ \A k \in DOMAIN chain : chain'[k] = chain[k] /\ txs'[k] = txs[k]
  BY LogsStay
<1>2. Images' = Images
  BY <1>1 DEF Images
<1>3. \A S \in SUBSET DOMAIN chain :
         /\ TradesAmong(S)' = TradesAmong(S)
         /\ Priced(S)' = Priced(S)
  BY <1>1 DEF TradesAmong, IsTrade, Priced
<1>4. OpenOK'
  BY <1>1 DEF TablesOK, OpenOK, Keeps
<1>5. ASSUME NEW d \in Images
      PROVE  TradesStored(d)' /\ (failures = 0 => StatusesOf(d)' /\ CandlesOf(d)')
  <2>1. d.events \subseteq DOMAIN chain
    BY DEF TypeOK, Images, IsDatabase
  <2>2. TradesStored(d)'
    <3>1. TradesStored(d)
      BY DEF TablesOK
    <3>2. TradesAmong(d.events)' = TradesAmong(d.events) /\ TradesAmong(d.events) \subseteq DOMAIN chain
      BY <1>3, <2>1 DEF TradesAmong
    <3>3. \A k \in DOMAIN chain : TradeRow(k)' = TradeRow(k)
      BY <1>1 DEF TradeRow
    <3> QED
      BY <3>1, <3>2, <3>3 DEF TradesStored
  <2>3. ASSUME failures = 0 PROVE StatusesOf(d)'
    <3>0. StatusesOf(d)
      BY <2>3 DEF TablesOK, ProjectedExactly
    <3>1. \A t : RM!TokenImage(d.events, t)' = RM!TokenImage(d.events, t)
      <4> SUFFICES ASSUME NEW t PROVE RM!TokenImage(d.events, t)' = RM!TokenImage(d.events, t)
        OBVIOUS
      <4>1. RM!OfToken(d.events, t)' = RM!OfToken(d.events, t)
        BY <1>1, <2>1 DEF RM!OfToken
      <4>2. \A kind : RM!OfKind(RM!OfToken(d.events, t), kind)' = RM!OfKind(RM!OfToken(d.events, t), kind)
        BY <1>1, <2>1, <4>1 DEF RM!OfKind, RM!OfToken
      <4>3. RM!TradesAmong(RM!OfToken(d.events, t))' = RM!TradesAmong(RM!OfToken(d.events, t))
        BY <1>1, <2>1, <4>1 DEF RM!TradesAmong, RM!IsTrade, RM!OfToken
      <4> QED
        BY <4>1, <4>2, <4>3 DEF RM!TokenImage
    <3>2. ASSUME NEW g \in d.events, NEW j \in DOMAIN chain',
                 chain'[g].kind = "TokenGraduated", chain'[j].kind = "TokenCreated",
                 chain'[j].token = chain'[g].token, StartBlock <= chain'[j].block
          PROVE  j \in d.events
      <4>1. g \in DOMAIN chain /\ chain[g] = chain'[g]
        BY <1>1, <2>1
      <4>2. PICK i \in DOMAIN chain : /\ chain[i].kind = "TokenCreated"
                                      /\ chain[i].token = chain[g].token
        BY <3>2, <4>1 DEF ChainOrdered
      <4>3. i = j
        BY <1>1, <3>2, <4>1, <4>2 DEF ChainOrdered
      <4> QED
        BY <1>1, <3>0, <3>2, <4>1, <4>2, <4>3 DEF StatusesOf
    <3>3. \A k \in d.events : StartBlock <= chain'[k].block
      BY <1>1, <2>1, <3>0 DEF StatusesOf
    <3> QED
      BY <3>0, <3>1, <3>2, <3>3 DEF StatusesOf
  <2>4. ASSUME failures = 0 PROVE CandlesOf(d)'
    <3>0. CandlesOf(d)
      BY <2>4 DEF TablesOK, ProjectedExactly
    <3> DEFINE S == Priced(d.events)
    <3>1. S \subseteq DOMAIN chain /\ Priced(d.events)' = S
      BY <1>3, <2>1 DEF Priced
    <3>2. TradesAmong(S)' = TradesAmong(S) /\ TradesAmong(S) \subseteq DOMAIN chain
      BY <1>3, <3>1 DEF TradesAmong
    <3> HIDE DEF S
    <3>3. \A k \in DOMAIN chain : \A i : CandleOf(k, i)' = CandleOf(k, i)
      BY <1>1 DEF CandleOf
    <3>4. CandlesAmong(S)' = CandlesAmong(S)
      BY <3>2, <3>3 DEF CandlesAmong
    <3>5. \A c : InCandle(S, c)' = InCandle(S, c) /\ InCandle(S, c) \subseteq DOMAIN chain
      BY <3>2, <3>3 DEF InCandle
    <3>6. \A row : \A all \in SUBSET DOMAIN chain : RowOf(row, all) => RowOf(row, all)'
      BY <1>1 DEF RowOf
    <3> QED
      BY <3>0, <3>1, <3>4, <3>5, <3>6 DEF CandlesOf, S
  <2> QED
    BY <2>2, <2>3, <2>4
<1> QED
  BY <1>1, <1>2, <1>4, <1>5 DEF TablesOK, ProjectedExactly

\* New blocks change neither the tables nor the range being written.
LEMMA GrowChainInv == LegacyInv /\ GrowChain => LegacyInv'
<1> SUFFICES ASSUME LegacyInv, GrowChain PROVE LegacyInv'
  OBVIOUS
<1>. StartBlock \in Nat
  BY ChainAssumption DEF ChainAssumption
<1>0. /\ TypeOK /\ ChainBounded /\ ChainOrdered /\ TablesOK
      /\ RangeOK /\ NothingDropped /\ FirstPass
  BY DEF LegacyInv
<1>1. /\ TypeOK' /\ ChainBounded' /\ ChainOrdered'
      /\ UNCHANGED <<db, tx, stage, next, end, todo, batch, successes, failures, exits>>
      /\ head \in Nat /\ head' \in Nat /\ head <= head'
      /\ DOMAIN chain \subseteq DOMAIN chain'
      /\ \A k \in DOMAIN chain : chain'[k] = chain[k]
  BY <1>0, LogsStay
<1>2. TablesOK'
  BY <1>0, GrowChainTables
<1>3. \A from, to \in Int :
         to <= head \/ to < from =>
            ProjectedAmong(LogsBetween(from, to))' = ProjectedAmong(LogsBetween(from, to))
  <2> SUFFICES ASSUME NEW from \in Int, NEW to \in Int, to <= head \/ to < from
               PROVE  ProjectedAmong(LogsBetween(from, to))' = ProjectedAmong(LogsBetween(from, to))
    OBVIOUS
  <2>1. LogsBetween(from, to)' = LogsBetween(from, to)
    BY <1>0, LogsFixed DEF GrowChain, TypeOK
  <2>2. LogsBetween(from, to) \subseteq DOMAIN chain
    BY DEF LogsBetween
  <2> QED
    BY <1>1, <2>1, <2>2 DEF ProjectedAmong
<1>4. /\ db.ckpt \in Nat /\ next \in Nat /\ end \in Nat /\ todo \subseteq DOMAIN chain
      /\ db.events \subseteq DOMAIN chain /\ Image.events \subseteq DOMAIN chain
  BY <1>0, ImageIs DEF TypeOK, IsDatabase
<1>5. Image' = Image /\ Images' = Images
  BY <1>1 DEF Image, Images
<1>6. ASSUME stage \in 2 .. 5
      PROVE  ProjectedAmong(LogsBetween(next, end))' = ProjectedAmong(LogsBetween(next, end))
  <2>1. end <= head /\ next \in Int /\ end \in Int
    BY <1>0, <1>4, <1>6 DEF RangeOK
  <2> QED
    BY <1>1, <1>3, <2>1
<1>7. RangeOK'
  <2>1. stage \in 2 .. 5 => todo \subseteq ProjectedAmong(LogsBetween(next, end))'
    BY <1>0, <1>6 DEF RangeOK
  <2>2. stage \in 3 .. 5 => \A k \in todo : chain'[k].kind # "TokenCreated"
    BY <1>0, <1>1, <1>4 DEF RangeOK
  <2>3. /\ db.ckpt <= head'
        /\ stage # 0 => next = StartBlock \/ next <= head' + 1
        /\ stage \in 2 .. 5 => end <= head'
    <3>1. /\ db.ckpt <= head
          /\ stage # 0 => next = StartBlock \/ next <= head + 1
          /\ stage \in 2 .. 5 => end <= head
      BY <1>0 DEF RangeOK
    <3>2. /\ head \in Nat /\ head' \in Nat /\ head <= head'
          /\ db.ckpt \in Nat /\ next \in Nat /\ end \in Nat
      BY <1>1, <1>4
    <3>3. db.ckpt <= head'
      BY <3>1, <3>2
    <3>4. ASSUME stage # 0, next # StartBlock
          PROVE  next <= head' + 1
      <4>1. next <= head + 1
        BY <3>1, <3>4
      <4>2. \A a, b, c \in Int : a <= b + 1 /\ b <= c => a <= c + 1
        OBVIOUS
      <4>3. next \in Int /\ head \in Int /\ head' \in Int /\ head <= head'
        BY <3>2
      <4> QED
        BY <4>1, <4>2, <4>3
    <3>5. stage \in 2 .. 5 => end <= head'
      BY <3>1, <3>2
    <3> QED
      BY <3>3, <3>4, <3>5
  <2>4. /\ db.ckpt > 0 => StartBlock <= db.ckpt
        /\ stage # 0 => batch > 0 /\ StartBlock <= next
        /\ stage \in 2 .. 5 => next <= end
    BY <1>0 DEF RangeOK
  <2> QED
    BY <1>1, <2>1, <2>2, <2>3, <2>4 DEF RangeOK
<1>8. NothingDropped'
  <2> SUFFICES ASSUME failures = 0 PROVE NothingDropped'
    BY <1>1 DEF NothingDropped
  <2>1. StoredUpTo(db.ckpt)'
    BY <1>0, <1>1, <1>3, <1>4 DEF RangeOK, NothingDropped, StoredUpTo
  <2>2. ASSUME stage # 0 PROVE StoredUpTo(next - 1)'
    <3>1. next - 1 <= head \/ next - 1 < StartBlock
      BY <1>0, <1>1, <1>4, <2>2 DEF RangeOK
    <3> QED
      BY <1>0, <1>1, <1>3, <1>4, <2>2, <3>1 DEF NothingDropped, StoredUpTo
  <2>3. stage \in 2 .. 5 =>
          ProjectedAmong(LogsBetween(next, end))' \subseteq Image.events \union todo
    BY <1>0, <1>6 DEF NothingDropped
  <2> QED
    BY <1>1, <1>5, <2>1, <2>2, <2>3 DEF NothingDropped
<1>9. FirstPass'
  <2>1. \A d \in Images : NoRepeats(d) => NoRepeats(d)'
    BY DEF NoRepeats
  <2> QED
    BY <1>0, <1>1, <1>4, <1>5, <2>1 DEF FirstPass
<1> QED
  BY <1>1, <1>2, <1>7, <1>8, <1>9 DEF LegacyInv

\* An error that is ignored ends the claims made while there was none.
LEMMA FailureCounts ==
  ASSUME TypeOK, failures' = failures \/ Fail
  PROVE  failures' \in Nat /\ (failures' = 0 => failures = 0)
BY DEF TypeOK, Fail

\* A step that writes nothing leaves the tables as they are.
LEMMA TablesStay ==
  ASSUME TypeOK, TablesOK, UNCHANGED <<chain, head, txs, db, tx>>, failures' = failures \/ Fail
  PROVE  TablesOK'
<1>1. Images' = Images
  BY DEF Images
<1>2. OpenOK'
  BY DEF TablesOK, OpenOK, Keeps
<1>3. \A d \in Images : TradesStored(d)'
  BY ImageFacts DEF TablesOK
<1>4. ProjectedExactly'
  BY <1>1, ImageFacts, FailureCounts DEF TablesOK, ProjectedExactly
<1> QED
  BY <1>1, <1>2, <1>3, <1>4 DEF TablesOK

\* The steps that read: a start, a tick in vain and a range that is refused.
LEMMA ReadingInv == LegacyInv /\ (Start \/ PollLimited \/ PollInVain) => LegacyInv'
<1> SUFFICES ASSUME LegacyInv, Start \/ PollLimited \/ PollInVain PROVE LegacyInv'
  OBVIOUS
<1>0. /\ TypeOK /\ ChainBounded /\ ChainOrdered /\ TablesOK
      /\ RangeOK /\ NothingDropped /\ FirstPass
  BY DEF LegacyInv
<1>1. /\ UNCHANGED <<chain, head, txs, db, tx, exits>>
      /\ failures' = failures \/ Fail
  BY DEF Start, PollLimited, PollInVain, vars, memVars, chainVars
<1>2. /\ StartBlock \in Nat /\ BlockBatchSize \in Nat \ {0} /\ MinBatch \in Nat \ {0}
      /\ head \in Nat /\ db.ckpt \in Nat /\ batch \in Nat /\ next \in Nat /\ end \in Nat
      /\ RecoverAfter \in Nat
  BY <1>0, ChainAssumption, LegacyAssumption
     DEF ChainAssumption, LegacyAssumption, TypeOK, ChainTypeOK, IsDatabase
<1>3. TablesOK' /\ ChainBounded' /\ ChainOrdered'
  BY <1>0, <1>1, TablesStay DEF ChainBounded, ChainOrdered
<1>4. failures' \in Nat /\ (failures' = 0 => failures = 0)
  BY <1>0, <1>1, FailureCounts
<1>5. Image' = Image /\ Images' = Images
  BY <1>1 DEF Image, Images
<1>6. \A d \in {db} \union tx : IsDatabase(d)'
  BY <1>0, <1>1, ImageFacts DEF TypeOK
<1>7. \A d \in Images : NoRepeats(d)' <=> NoRepeats(d)
  BY <1>1, ImageFacts
<1>8. CASE Start
  <2>1. /\ stage = 0 /\ stage' = 1 /\ batch' = BlockBatchSize
        /\ UNCHANGED <<end, todo, successes, exits>>
        /\ next' = StartBlock \/ (db.ckpt > 0 /\ next' = db.ckpt + 1)
    BY <1>8 DEF Start
  <2>2. next' \in Nat
    BY <1>2, <2>1
  <2>3. tx = {}
    BY <1>0, <2>1 DEF TypeOK
  <2>4. TypeOK'
    BY <1>0, <1>1, <1>2, <1>4, <1>6, <2>1, <2>2, <2>3 DEF TypeOK, ChainTypeOK
  <2>5. RangeOK'
    BY <1>0, <1>1, <1>2, <2>1 DEF RangeOK
  <2>6. ASSUME failures = 0 PROVE StoredUpTo(next' - 1)
    <3>1. CASE db.ckpt > 0 /\ next' = db.ckpt + 1
      <4>1. next' - 1 = db.ckpt
        BY <1>2, <3>1
      <4> QED
        BY <1>0, <2>6, <4>1 DEF NothingDropped
    <3>2. CASE next' = StartBlock
      <4>1. \A k \in DOMAIN chain : chain[k].block \in Nat
        BY <1>0, LogType DEF TypeOK
      <4>2. LogsBetween(StartBlock, next' - 1) = {}
        BY <1>2, <3>2, <4>1 DEF LogsBetween
      <4> QED
        BY <4>2 DEF StoredUpTo, ProjectedAmong
    <3> QED
      BY <2>1, <3>1, <3>2
  <2>7. NothingDropped'
    BY <1>0, <1>1, <1>4, <2>1, <2>6 DEF NothingDropped, StoredUpTo, ProjectedAmong, LogsBetween
  <2>8. FirstPass'
    BY <1>0, <1>1, <1>5, <1>7, <2>1 DEF FirstPass
  <2> QED
    BY <1>3, <2>4, <2>5, <2>7, <2>8 DEF LegacyInv
<1>9. CASE PollLimited
  <2>1. /\ stage = 1 /\ successes' = 0
        /\ batch' = IF batch \div 2 < MinBatch THEN MinBatch ELSE batch \div 2
        /\ UNCHANGED <<stage, next, end, todo, failures>>
    BY <1>9 DEF PollLimited
  <2>2. batch' \in Nat /\ batch' > 0
    <3>1. batch \div 2 \in Nat
      BY <1>2, QuotientIsNat
    <3> QED
      BY <1>2, <2>1, <3>1
  <2>3. TypeOK'
    BY <1>0, <1>1, <1>2, <1>6, <2>1, <2>2 DEF TypeOK, ChainTypeOK
  <2>4. RangeOK' /\ NothingDropped'
    BY <1>0, <1>1, <2>1, <2>2 DEF RangeOK, NothingDropped, StoredUpTo, ProjectedAmong, LogsBetween
  <2>5. FirstPass'
    BY <1>0, <1>1, <1>5, <1>7, <2>1 DEF FirstPass
  <2> QED
    BY <1>3, <2>3, <2>4, <2>5 DEF LegacyInv
<1>10. CASE PollInVain
  <2>1. UNCHANGED <<stage, next, end, todo, batch, successes, failures>>
    BY <1>10 DEF PollInVain, vars, memVars
  <2>2. TypeOK'
    BY <1>0, <1>1, <1>6, <2>1 DEF TypeOK, ChainTypeOK
  <2>3. RangeOK' /\ NothingDropped'
    BY <1>0, <1>1, <1>5, <2>1 DEF RangeOK, NothingDropped, StoredUpTo, ProjectedAmong, LogsBetween
  <2>4. FirstPass'
    BY <1>0, <1>1, <1>5, <1>7, <2>1 DEF FirstPass
  <2> QED
    BY <1>3, <2>2, <2>3, <2>4 DEF LegacyInv
<1> QED
  BY <1>8, <1>9, <1>10

\* FilterLogs answers for the range after what is done.
LEMMA PollInv == LegacyInv /\ Poll => LegacyInv'
<1> SUFFICES ASSUME LegacyInv, Poll PROVE LegacyInv'
  OBVIOUS
<1>0. /\ TypeOK /\ ChainBounded /\ ChainOrdered /\ TablesOK
      /\ RangeOK /\ NothingDropped /\ FirstPass
  BY DEF LegacyInv
<1>1. /\ stage = 1 /\ stage' = 2 /\ next <= head /\ end' = ToBlock
      /\ UNCHANGED <<chain, head, txs, db, tx, next, batch, successes, exits>>
  BY DEF Poll, chainVars
<1>2. PICK skipped \in SUBSET ProjectedAmong(Fetched) :
         /\ IF skipped = {} THEN UNCHANGED failures ELSE Fail
         /\ todo' = ProjectedAmong(Fetched) \ skipped
  BY DEF Poll
<1>3. failures' \in Nat /\ (failures' = 0 => failures = 0 /\ skipped = {})
  BY <1>0, <1>2 DEF Fail, TypeOK
<1>4. TablesOK' /\ ChainBounded' /\ ChainOrdered'
  BY <1>0, <1>1, <1>2, TablesStay DEF ChainBounded, ChainOrdered
<1>5. /\ next \in Nat /\ batch \in Nat /\ batch > 0 /\ head \in Nat
      /\ StartBlock \in Nat /\ StartBlock <= next
  BY <1>0, <1>1, ChainAssumption DEF TypeOK, ChainTypeOK, RangeOK, ChainAssumption
<1>6. end' \in Nat /\ next <= end' /\ end' <= head
  BY <1>1, <1>5 DEF ToBlock
<1>7. /\ Fetched = LogsBetween(next, end')
      /\ ProjectedAmong(Fetched) \subseteq DOMAIN chain
  BY <1>1 DEF Fetched, ProjectedAmong, LogsBetween
<1>8. \A k \in ProjectedAmong(Fetched) : next <= chain[k].block /\ chain[k].block <= end'
  BY <1>7 DEF ProjectedAmong, LogsBetween
<1>9. tx = {} /\ Image = db /\ Image' = Image /\ Images' = Images
  BY <1>0, <1>1 DEF TypeOK, Image, Images
<1>10. \A d \in {db} \union tx : IsDatabase(d)'
  BY <1>0, <1>1, ImageFacts DEF TypeOK
<1>11. TypeOK'
  BY <1>0, <1>1, <1>2, <1>3, <1>6, <1>7, <1>9, <1>10 DEF TypeOK, ChainTypeOK
<1>12. LogsBetween(next, end)' = LogsBetween(next, end')
  BY <1>1 DEF LogsBetween
<1>13. \A S : ProjectedAmong(S)' = ProjectedAmong(S)
  BY <1>1 DEF ProjectedAmong
<1>14. RangeOK'
  <2>1. todo' \subseteq ProjectedAmong(LogsBetween(next, end))'
    BY <1>2, <1>7, <1>12, <1>13
  <2> QED
    BY <1>0, <1>1, <1>5, <1>6, <2>1 DEF RangeOK
<1>15. NothingDropped'
  <2> SUFFICES ASSUME failures' = 0 PROVE NothingDropped'
    BY DEF NothingDropped
  <2>1. StoredUpTo(db.ckpt) /\ StoredUpTo(next - 1)
    BY <1>0, <1>1, <1>3 DEF NothingDropped
  <2>2. StoredUpTo(db.ckpt)' /\ StoredUpTo(next - 1)'
    BY <1>1, <2>1 DEF StoredUpTo, ProjectedAmong, LogsBetween
  <2>3. ProjectedAmong(LogsBetween(next, end))' \subseteq todo'
    BY <1>2, <1>3, <1>7, <1>12, <1>13
  <2> QED
    BY <2>2, <2>3 DEF NothingDropped
<1>16. FirstPass'
  <2> SUFFICES ASSUME exits = 0 PROVE FirstPass'
    BY <1>1 DEF FirstPass
  <2>1. \A k \in db.events : chain[k].block < next /\ chain[k].block \in Nat
    <3>1. \A k \in db.events : k \in DOMAIN chain
      BY <1>0 DEF TypeOK, IsDatabase
    <3> QED
      BY <1>0, <1>1, <3>1, LogType DEF FirstPass, TypeOK
  <2>2. \A k \in db.events : chain[k].block <= end' /\ k \notin todo'
    BY <1>2, <1>5, <1>6, <1>8, <2>1
  <2>3. \A d \in Images : NoRepeats(d)'
    BY <1>0, <1>1, ImageFacts DEF FirstPass
  <2> QED
    BY <1>1, <1>9, <2>2, <2>3 DEF FirstPass
<1> QED
  BY <1>4, <1>11, <1>14, <1>15, <1>16 DEF LegacyInv

\* What an event of the range is, by the batch it is in.
LEMMA PendingIs ==
  ASSUME TypeOK, RangeOK, stage \in 2 .. 5, NEW k \in Pending
  PROVE  /\ k \in todo /\ k \in DOMAIN chain
         /\ chain[k].block \in Nat
         /\ StartBlock <= chain[k].block /\ next <= chain[k].block /\ chain[k].block <= end
         /\ stage = 2 => chain[k].kind = "TokenCreated"
         /\ stage \in 3 .. 4 => IsTrade(k)
         /\ stage = 5 => chain[k].kind = "TokenGraduated"
<1>1. k \in todo /\ k \in DOMAIN chain /\ chain[k].kind = StageKind[stage]
  BY DEF Pending, TypeOK
<1>2. k \in LogsBetween(next, end)
  BY <1>1 DEF RangeOK, ProjectedAmong
<1>3. chain[k].block \in Nat
  BY <1>1, LogType DEF TypeOK
<1>4. StartBlock \in Nat /\ next \in Nat /\ StartBlock <= next
  BY ChainAssumption DEF ChainAssumption, TypeOK, RangeOK
<1>5. next <= chain[k].block /\ chain[k].block <= end
  BY <1>2 DEF LogsBetween
<1>6. /\ stage = 2 => chain[k].kind = "TokenCreated"
      /\ stage = 3 => chain[k].kind = "TokenBought"
      /\ stage = 4 => chain[k].kind = "TokenSold"
      /\ stage = 5 => chain[k].kind = "TokenGraduated"
  BY <1>1 DEF StageKind
<1>7. stage \in 3 .. 4 => stage = 3 \/ stage = 4
  OBVIOUS
<1> QED
  BY <1>1, <1>3, <1>4, <1>5, <1>6, <1>7 DEF IsTrade, TradeKinds

\* The statements of one event leave an image of which the same holds.
LEMMA EventStored ==
  ASSUME LegacyInv, NEW k \in todo, WriteEvent(k)
  PROVE  \E e : /\ tx' = {e}
                /\ StoredBy(Image, k, e)
                /\ TradesStored(e)
                /\ failures' = 0 => StatusesOf(e) /\ CandlesOf(e)
                /\ k \notin Image.events /\ NoRepeats(Image) => NoRepeats(e)
<1>0. TypeOK /\ RangeOK /\ TablesOK
  BY DEF LegacyInv
<1>1. stage \in 2 .. 4 /\ k \in Pending
  BY DEF WriteEvent, IsFirst
<1>2. /\ k \in DOMAIN chain /\ StartBlock <= chain[k].block
      /\ stage = 2 => chain[k].kind = "TokenCreated"
      /\ stage \in 3 .. 4 => IsTrade(k)
  BY <1>0, <1>1, PendingIs
<1>3. Image \in Images /\ IsDatabase(Image)
  BY <1>0, ImageIs
<1>4. TradesStored(Image) /\ (failures = 0 => StatusesOf(Image) /\ CandlesOf(Image))
  BY <1>0, <1>3 DEF TablesOK, ProjectedExactly
<1>5. failures' = 0 => failures = 0
  BY <1>0, FailureCounts DEF WriteEvent
<1>6. CASE stage = 2
  <2> DEFINE e == StoreTokenCreated(Image, k)
  <2>1. tx' = {e}
    BY <1>6 DEF WriteEvent
  <2>2. StoredBy(Image, k, e) /\ e.trades = Image.trades /\ e.klines = Image.klines
    BY <1>0, <1>2, <1>3, CreatedStored
  <2>3. ~IsTrade(k)
    BY <1>2, <1>6 DEF IsTrade, TradeKinds
  <2>4. e.events = Image.events \union {k}
    BY <2>2 DEF StoredBy
  <2>5. TradesStored(e)
    <3> HIDE DEF e
    <3> QED
      BY <1>4, <2>2, <2>3, <2>4, TradesStayStored
  <2>6. ASSUME failures' = 0 PROVE StatusesOf(e) /\ CandlesOf(e)
    <3>1. StatusesOf(e)
      BY <1>0, <1>2, <1>3, <1>4, <1>5, <1>6, <2>6, CreatedExact
    <3>2. CandlesOf(e)
      <4> HIDE DEF e
      <4> QED
        BY <1>4, <1>5, <2>2, <2>3, <2>4, <2>6, OtherKeepsCandles
    <3> QED
      BY <3>1, <3>2
  <2>7. NoRepeats(Image) => NoRepeats(e)
    <3> HIDE DEF e
    <3> QED
      BY <2>2, <2>4 DEF NoRepeats
  <2> HIDE DEF e
  <2> QED
    BY <2>1, <2>2, <2>5, <2>6, <2>7
<1>7. CASE stage # 2
  <2>0. IsTrade(k)
    BY <1>1, <1>2, <1>7
  <2>1. PICK w \in BOOLEAN : tx' = {StoreTrade(Image, k, w)} /\ (w \/ Fail)
    BY <1>7 DEF WriteEvent
  <2> DEFINE e == StoreTrade(Image, k, w)
  <2>2. StoredBy(Image, k, e) /\ e.trades = Image.trades \union {TradeRow(k)}
    BY <1>0, <1>2, <1>3, <2>0, TradeStored
  <2>3. e.events = Image.events \union {k}
    BY <2>2 DEF StoredBy
  <2>4. TradesStored(e)
    <3> HIDE DEF e
    <3> QED
      BY <1>4, <2>0, <2>2, <2>3, TradesStayStored
  <2>5. ASSUME failures' = 0 PROVE StatusesOf(e) /\ CandlesOf(e)
    <3>1. w = TRUE
      BY <1>0, <2>1, <2>5 DEF Fail, TypeOK
    <3>2. StatusesOf(e)
      BY <1>0, <1>2, <1>3, <1>4, <1>5, <2>0, <2>5, TradeKeepsStatuses
    <3>3. CandlesOf(e)
      BY <1>0, <1>2, <1>3, <1>4, <1>5, <2>0, <2>5, <3>1, TradeExact
    <3> QED
      BY <3>2, <3>3
  <2>6. k \notin Image.events /\ NoRepeats(Image) => NoRepeats(e)
    BY <1>0, <1>2, <1>3, <2>0, TradeNotRepeated
  <2> HIDE DEF e
  <2>7. tx' = {e}
    BY <2>1 DEF e
  <2> QED
    BY <2>2, <2>4, <2>5, <2>6, <2>7
<1> QED
  BY <1>6, <1>7

\* An event moves from memory into the open transaction.
LEMMA WriteEventInv == LegacyInv /\ (\E k \in todo : WriteEvent(k)) => LegacyInv'
<1> SUFFICES ASSUME LegacyInv, NEW k \in todo, WriteEvent(k) PROVE LegacyInv'
  OBVIOUS
<1>0. /\ TypeOK /\ ChainBounded /\ ChainOrdered /\ TablesOK
      /\ RangeOK /\ NothingDropped /\ FirstPass
  BY DEF LegacyInv
<1>1. /\ stage \in 2 .. 4 /\ k \in Pending /\ todo' = todo \ {k}
      /\ UNCHANGED <<chain, head, txs, db, stage, next, end, batch, successes, exits>>
      /\ failures' = failures \/ Fail
  BY DEF WriteEvent, IsFirst, chainVars
<1>2. PICK e : /\ tx' = {e}
               /\ StoredBy(Image, k, e)
               /\ TradesStored(e)
               /\ failures' = 0 => StatusesOf(e) /\ CandlesOf(e)
               /\ k \notin Image.events /\ NoRepeats(Image) => NoRepeats(e)
  BY EventStored
<1>3. failures' \in Nat /\ (failures' = 0 => failures = 0)
  BY <1>0, <1>1, FailureCounts
<1>4. Image \in Images /\ (tx = {} => Image = db) /\ (tx # {} => Image \in tx)
  BY <1>0, ImageIs
<1>5. Image' = e /\ Images' = {db, e}
  BY <1>1, <1>2 DEF Image, Images
<1>6. /\ IsDatabase(e) /\ e.events = Image.events \union {k} /\ e.ckpt = Image.ckpt
      /\ Keeps(Image, e)
  BY <1>2 DEF StoredBy
<1>7. IsDatabase(db)' /\ IsDatabase(e)'
  BY <1>0, <1>1, <1>6, ImageFacts DEF TypeOK
<1>8. TypeOK'
  BY <1>0, <1>1, <1>2, <1>3, <1>7 DEF TypeOK, ChainTypeOK
<1>9. OpenOK'
  <2>1. Image.ckpt = db.ckpt /\ Keeps(db, Image)
    BY <1>0, <1>4 DEF TablesOK, OpenOK, Keeps
  <2>2. Keeps(db, e)
    BY <1>6, <2>1 DEF Keeps
  <2> QED
    BY <1>1, <1>2, <1>6, <2>1, <2>2 DEF OpenOK, Keeps
<1>10. TablesOK'
  <2>1. TradesStored(db)' /\ TradesStored(e)'
    BY <1>0, <1>1, <1>2, ImageFacts DEF TablesOK, Images
  <2>2. ProjectedExactly'
    <3> SUFFICES ASSUME failures' = 0 PROVE ProjectedExactly'
      BY DEF ProjectedExactly
    <3>1. /\ StatusesOf(db) /\ CandlesOf(db)
          /\ StatusesOf(e) /\ CandlesOf(e)
      BY <1>0, <1>2, <1>3 DEF TablesOK, ProjectedExactly, Images
    <3>2. /\ StatusesOf(db)' /\ CandlesOf(db)'
          /\ StatusesOf(e)' /\ CandlesOf(e)'
      BY <1>1, <3>1, ImageFacts
    <3> QED
      BY <1>1, <1>5, <3>2 DEF ProjectedExactly
  <2> QED
    BY <1>1, <1>5, <1>9, <2>1, <2>2 DEF TablesOK
<1>11. ChainBounded' /\ ChainOrdered'
  BY <1>0, <1>1 DEF ChainBounded, ChainOrdered
<1>12. RangeOK'
  <2>1. todo' \subseteq ProjectedAmong(LogsBetween(next, end))'
    BY <1>0, <1>1 DEF RangeOK, ProjectedAmong, LogsBetween
  <2> QED
    BY <1>0, <1>1, <2>1 DEF RangeOK
<1>13. NothingDropped'
  <2> SUFFICES ASSUME failures' = 0 PROVE NothingDropped'
    BY DEF NothingDropped
  <2>1. /\ StoredUpTo(db.ckpt) /\ StoredUpTo(next - 1)
        /\ ProjectedAmong(LogsBetween(next, end)) \subseteq Image.events \union todo
    BY <1>0, <1>1, <1>3 DEF NothingDropped
  <2>2. StoredUpTo(db.ckpt)' /\ StoredUpTo(next - 1)'
    BY <1>1, <2>1 DEF StoredUpTo, ProjectedAmong, LogsBetween
  <2>3. ProjectedAmong(LogsBetween(next, end))' \subseteq e.events \union todo'
    BY <1>1, <1>6, <2>1 DEF ProjectedAmong, LogsBetween
  <2> QED
    BY <1>5, <2>2, <2>3 DEF NothingDropped
<1>14. FirstPass'
  <2> SUFFICES ASSUME exits = 0 PROVE FirstPass'
    BY <1>1 DEF FirstPass
  <2>1. /\ \A j \in Image.events : chain[j].block <= end /\ j \notin todo
        /\ NoRepeats(db) /\ NoRepeats(Image)
    BY <1>0, <1>1, <1>4 DEF FirstPass, Images
  <2>2. chain[k].block <= end
    BY <1>0, <1>1, PendingIs
  <2>3. \A j \in e.events : chain[j].block <= end /\ j \notin todo'
    BY <1>1, <1>6, <2>1, <2>2
  <2>4. NoRepeats(db)' /\ NoRepeats(e)'
    BY <1>1, <1>2, <2>1, ImageFacts
  <2> QED
    BY <1>1, <1>5, <2>3, <2>4 DEF FirstPass
<1> QED
  BY <1>8, <1>10, <1>11, <1>12, <1>13, <1>14 DEF LegacyInv

\* The open image becomes the committed one, or is given up.
LEMMA BatchEndsInv == LegacyInv /\ (CommitBatch \/ BatchFails) => LegacyInv'
<1> SUFFICES ASSUME LegacyInv, CommitBatch \/ BatchFails PROVE LegacyInv'
  OBVIOUS
<1>0. /\ TypeOK /\ ChainBounded /\ ChainOrdered /\ TablesOK
      /\ RangeOK /\ NothingDropped /\ FirstPass
  BY DEF LegacyInv
<1>1. /\ stage \in 2 .. 4 /\ stage' = stage + 1 /\ tx' = {}
      /\ UNCHANGED <<chain, head, txs, next, end, batch, successes, exits>>
      /\ todo' = todo \ Pending
      /\ \/ db' = Image /\ failures' = failures
         \/ db' = db /\ Fail
  BY DEF CommitBatch, BatchFails, chainVars
<1>2. failures' \in Nat /\ (failures' = 0 => failures = 0 /\ db' = Image)
  BY <1>0, <1>1 DEF Fail, TypeOK
<1>3. /\ Image \in Images /\ (tx = {} => Image = db) /\ (tx # {} => Image \in tx)
      /\ IsDatabase(Image) /\ IsDatabase(db)
  BY <1>0, ImageIs DEF TypeOK
<1>4. Keeps(db, Image) /\ Image.ckpt = db.ckpt
  BY <1>0, <1>3 DEF TablesOK, OpenOK, Keeps
<1>5. PICK new \in Images :
         /\ db' = new /\ (failures' = 0 => new = Image)
         /\ IsDatabase(new) /\ new.ckpt = db.ckpt
         /\ db.events \subseteq new.events /\ new.events \subseteq Image.events
  <2>1. db \in Images
    BY DEF Images
  <2>2. CASE db' = Image
    BY <1>3, <1>4, <2>2 DEF Keeps
  <2>3. CASE db' = db /\ failures' # 0
    BY <1>3, <1>4, <2>1, <2>3 DEF Keeps
  <2> QED
    BY <1>0, <1>1, <2>2, <2>3 DEF Fail, TypeOK
<1>6. Image' = new /\ Images' = {new}
  BY <1>1, <1>5 DEF Image, Images
<1>7. IsDatabase(new)'
  BY <1>1, <1>5, ImageFacts
<1>8. TypeOK'
  BY <1>0, <1>1, <1>2, <1>5, <1>7 DEF TypeOK, ChainTypeOK
<1>9. TablesOK'
  <2>1. TradesStored(new)'
    BY <1>0, <1>1, ImageFacts DEF TablesOK
  <2>2. ASSUME failures' = 0 PROVE StatusesOf(new)' /\ CandlesOf(new)'
    <3>1. StatusesOf(new) /\ CandlesOf(new)
      BY <1>0, <1>2, <2>2 DEF TablesOK, ProjectedExactly
    <3> QED
      BY <1>1, <3>1, ImageFacts
  <2>3. OpenOK'
    BY <1>1 DEF OpenOK
  <2> QED
    BY <1>6, <2>1, <2>2, <2>3 DEF TablesOK, ProjectedExactly
<1>10. ChainBounded' /\ ChainOrdered'
  BY <1>0, <1>1 DEF ChainBounded, ChainOrdered
<1>11. RangeOK'
  <2>1. todo' \subseteq ProjectedAmong(LogsBetween(next, end))'
    BY <1>0, <1>1 DEF RangeOK, ProjectedAmong, LogsBetween
  <2>2. \A k \in todo' : chain[k].kind # "TokenCreated"
    <3>1. CASE stage = 2
      BY <1>1, <3>1 DEF Pending, StageKind
    <3>2. CASE stage \in 3 .. 5
      BY <1>0, <1>1, <3>2 DEF RangeOK
    <3> QED
      BY <1>1, <3>1, <3>2
  <2>3. db'.ckpt = db.ckpt
    BY <1>5
  <2> QED
    BY <1>0, <1>1, <2>1, <2>2, <2>3 DEF RangeOK
<1>12. NothingDropped'
  <2> SUFFICES ASSUME failures' = 0 PROVE NothingDropped'
    BY DEF NothingDropped
  <2>0. db' = Image /\ db'.ckpt = db.ckpt /\ db.events \subseteq db'.events
    BY <1>2, <1>5
  <2>1. /\ StoredUpTo(db.ckpt) /\ StoredUpTo(next - 1)
        /\ ProjectedAmong(LogsBetween(next, end)) \subseteq Image.events \union todo
    BY <1>0, <1>1, <1>2 DEF NothingDropped
  <2>2. StoredUpTo(db.ckpt)' /\ StoredUpTo(next - 1)'
    BY <1>1, <2>0, <2>1 DEF StoredUpTo, ProjectedAmong, LogsBetween
  <2>3. CASE failures' = failures /\ Pending = {}
    <3>1. todo' = todo
      BY <1>1, <2>3
    <3>2. ProjectedAmong(LogsBetween(next, end))' \subseteq new.events \union todo'
      BY <1>1, <1>2, <1>5, <2>1, <3>1 DEF ProjectedAmong, LogsBetween
    <3> QED
      BY <1>6, <2>2, <3>2 DEF NothingDropped
  <2>4. failures' = failures /\ Pending = {}
    BY <1>0 DEF CommitBatch, BatchFails, Fail, TypeOK
  <2> QED
    BY <2>3, <2>4
<1>13. FirstPass'
  <2> SUFFICES ASSUME exits = 0 PROVE FirstPass'
    BY <1>1 DEF FirstPass
  <2>1. /\ \A j \in Image.events : chain[j].block <= end /\ j \notin todo
        /\ NoRepeats(new)
    BY <1>0, <1>1 DEF FirstPass
  <2>2. \A j \in new.events : chain[j].block <= end /\ j \notin todo'
    BY <1>1, <1>5, <2>1
  <2>3. NoRepeats(new)'
    BY <1>1, <2>1, ImageFacts
  <2> QED
    BY <1>1, <1>6, <2>2, <2>3 DEF FirstPass
<1> QED
  BY <1>8, <1>9, <1>10, <1>11, <1>12, <1>13 DEF LegacyInv

\* A graduation is stored, or the error of its statements is ignored.
LEMMA WriteGraduatedInv == LegacyInv /\ (\E k \in todo : WriteGraduated(k)) => LegacyInv'
<1> SUFFICES ASSUME LegacyInv, NEW k \in todo, WriteGraduated(k) PROVE LegacyInv'
  OBVIOUS
<1>0. /\ TypeOK /\ ChainBounded /\ ChainOrdered /\ TablesOK
      /\ RangeOK /\ NothingDropped /\ FirstPass
  BY DEF LegacyInv
<1>1. /\ stage = 5 /\ k \in Pending /\ todo' = todo \ {k}
      /\ UNCHANGED <<chain, head, txs, tx, stage, next, end, batch, successes, exits>>
      /\ failures' = failures \/ Fail
      /\ \/ db' = StoreTokenGraduated(db, k) /\ failures' = failures
         \/ db' = db /\ Fail
  BY DEF WriteGraduated, IsFirst, chainVars
<1>2. failures' \in Nat /\ (failures' = 0 => failures = 0 /\ db' = StoreTokenGraduated(db, k))
  BY <1>0, <1>1 DEF Fail, TypeOK
<1>3. /\ tx = {} /\ Image = db /\ Images = {db} /\ IsDatabase(db)
  BY <1>0, <1>1 DEF TypeOK, Image, Images
<1>4. /\ k \in DOMAIN chain /\ chain[k].kind = "TokenGraduated" /\ ~IsTrade(k)
      /\ StartBlock <= chain[k].block /\ chain[k].block <= end /\ chain[k].block \in Nat
  BY <1>0, <1>1, PendingIs DEF IsTrade, TradeKinds
<1>5. failures = 0 => StatusesOf(StoreTokenGraduated(db, k))
  <2> SUFFICES ASSUME failures = 0,
                      NEW j \in DOMAIN chain,
                      chain[j].kind = "TokenCreated", chain[j].token = chain[k].token,
                      StartBlock <= chain[j].block
               PROVE  j \in db.events
    BY <1>0, <1>3, <1>4, GraduatedExact DEF TablesOK, ProjectedExactly
  <2>1. chain[j].block \in Nat /\ next \in Nat /\ end \in Nat /\ StartBlock \in Nat
    BY <1>0, LogType, ChainAssumption DEF TypeOK, ChainAssumption
  <2>2. chain[j].block <= chain[k].block
    <3>1. PICK i \in DOMAIN chain : /\ chain[i].kind = "TokenCreated"
                                    /\ chain[i].token = chain[k].token
                                    /\ i < k
      BY <1>0, <1>4 DEF ChainOrdered
    <3>2. i = j
      BY <1>0, <3>1 DEF ChainOrdered
    <3>3. j \in Nat /\ k \in Nat
      BY <1>0, <1>4, LogType DEF TypeOK
    <3>4. j <= k
      BY <3>1, <3>2, <3>3
    <3> QED
      BY <1>0, <1>4, <3>4 DEF ChainOrdered
  <2>3. chain[j].block <= end
    BY <1>4, <2>1, <2>2
  <2>4. CASE chain[j].block < next
    <3>1. j \in ProjectedAmong(LogsBetween(StartBlock, next - 1))
      BY <2>1, <2>4 DEF ProjectedAmong, LogsBetween
    <3> QED
      BY <1>0, <1>1, <3>1 DEF NothingDropped, StoredUpTo
  <2>5. CASE next <= chain[j].block
    <3>1. j \in ProjectedAmong(LogsBetween(next, end))
      BY <2>3, <2>5 DEF ProjectedAmong, LogsBetween
    <3>2. j \in db.events \/ j \in todo
      BY <1>0, <1>1, <1>3, <3>1 DEF NothingDropped
    <3>3. j \notin todo
      BY <1>0, <1>1 DEF RangeOK
    <3> QED
      BY <3>2, <3>3
  <2> QED
    BY <2>1, <2>4, <2>5
<1>6. PICK new :
         /\ db' = new /\ IsDatabase(new) /\ new.ckpt = db.ckpt /\ new.klines = db.klines
         /\ db.events \subseteq new.events /\ new.events \subseteq db.events \union {k}
         /\ TradesStored(new)
         /\ failures' = 0 => k \in new.events /\ StatusesOf(new) /\ CandlesOf(new)
  <2>1. TradesStored(db) /\ (failures = 0 => CandlesOf(db))
    BY <1>0, <1>3 DEF TablesOK, ProjectedExactly
  <2>2. CASE db' = StoreTokenGraduated(db, k) /\ failures' = failures
    <3> DEFINE e == StoreTokenGraduated(db, k)
    <3>1. StoredBy(db, k, e) /\ e.trades = db.trades /\ e.klines = db.klines
      BY <1>0, <1>3, <1>4, GraduatedStored
    <3>2. e.events = db.events \union {k} /\ IsDatabase(e) /\ e.ckpt = db.ckpt
      BY <3>1 DEF StoredBy
    <3>3. db' = e /\ (failures = 0 => StatusesOf(e))
      BY <1>5, <2>2
    <3> HIDE DEF e
    <3>4. TradesStored(e)
      BY <1>4, <2>1, <3>1, <3>2, TradesStayStored
    <3>5. failures = 0 => CandlesOf(e)
      BY <1>4, <2>1, <3>1, <3>2, OtherKeepsCandles
    <3> QED
      BY <2>2, <3>1, <3>2, <3>3, <3>4, <3>5
  <2>3. CASE db' = db /\ failures' # 0
    BY <1>3, <2>1, <2>3
  <2> QED
    BY <1>0, <1>1, <2>2, <2>3 DEF Fail, TypeOK
<1>7. Image' = new /\ Images' = {new}
  BY <1>1, <1>3, <1>6 DEF Image, Images
<1>8. IsDatabase(new)'
  BY <1>1, <1>6, ImageFacts
<1>9. TypeOK'
  BY <1>0, <1>1, <1>2, <1>3, <1>6, <1>8 DEF TypeOK, ChainTypeOK
<1>10. TablesOK'
  <2>1. TradesStored(new)' /\ (failures' = 0 => StatusesOf(new)' /\ CandlesOf(new)')
    BY <1>1, <1>6, ImageFacts
  <2>2. OpenOK'
    BY <1>1, <1>3 DEF OpenOK
  <2> QED
    BY <1>7, <2>1, <2>2 DEF TablesOK, ProjectedExactly
<1>11. ChainBounded' /\ ChainOrdered'
  BY <1>0, <1>1 DEF ChainBounded, ChainOrdered
<1>12. RangeOK'
  <2>1. todo' \subseteq ProjectedAmong(LogsBetween(next, end))'
    BY <1>0, <1>1 DEF RangeOK, ProjectedAmong, LogsBetween
  <2>2. db'.ckpt = db.ckpt
    BY <1>6
  <2> QED
    BY <1>0, <1>1, <2>1, <2>2 DEF RangeOK
<1>13. NothingDropped'
  <2> SUFFICES ASSUME failures' = 0 PROVE NothingDropped'
    BY DEF NothingDropped
  <2>0. db'.ckpt = db.ckpt /\ db.events \subseteq db'.events
    BY <1>6
  <2>1. /\ StoredUpTo(db.ckpt) /\ StoredUpTo(next - 1)
        /\ ProjectedAmong(LogsBetween(next, end)) \subseteq db.events \union todo
    BY <1>0, <1>1, <1>2, <1>3 DEF NothingDropped
  <2>2. StoredUpTo(db.ckpt)' /\ StoredUpTo(next - 1)'
    BY <1>1, <2>0, <2>1 DEF StoredUpTo, ProjectedAmong, LogsBetween
  <2>3. ProjectedAmong(LogsBetween(next, end))' \subseteq new.events \union todo'
    BY <1>1, <1>6, <2>1 DEF ProjectedAmong, LogsBetween
  <2> QED
    BY <1>7, <2>2, <2>3 DEF NothingDropped
<1>14. FirstPass'
  <2> SUFFICES ASSUME exits = 0 PROVE FirstPass'
    BY <1>1 DEF FirstPass
  <2>1. /\ \A j \in db.events : chain[j].block <= end /\ j \notin todo
        /\ NoRepeats(db)
    BY <1>0, <1>1, <1>3 DEF FirstPass
  <2>2. \A j \in new.events : chain[j].block <= end /\ j \notin todo'
    BY <1>1, <1>4, <1>6, <2>1
  <2>3. NoRepeats(new)
    BY <1>6, <2>1 DEF NoRepeats
  <2>4. NoRepeats(new)'
    BY <1>1, <2>3, ImageFacts
  <2> QED
    BY <1>1, <1>7, <2>2, <2>4 DEF FirstPass
<1> QED
  BY <1>9, <1>10, <1>11, <1>12, <1>13, <1>14 DEF LegacyInv

\* The range is done: its last block is the checkpoint, unless storing it
\* failed, and the process goes on behind it.
LEMMA RecordInv == LegacyInv /\ Record => LegacyInv'
<1> SUFFICES ASSUME LegacyInv, Record PROVE LegacyInv'
  OBVIOUS
<1>0. /\ TypeOK /\ ChainBounded /\ ChainOrdered /\ TablesOK
      /\ RangeOK /\ NothingDropped /\ FirstPass
  BY DEF LegacyInv
<1>1. /\ stage = 5 /\ stage' = 1 /\ todo = {} /\ todo' = {} /\ next' = end + 1 /\ end' = 0
      /\ UNCHANGED <<chain, head, txs, tx, exits>>
      /\ \/ db' = [db EXCEPT !.ckpt = end] /\ failures' = failures
         \/ db' = db /\ Fail
  BY DEF Record, chainVars
<1>2. failures' \in Nat /\ (failures' = 0 => failures = 0)
  BY <1>0, <1>1 DEF Fail, TypeOK
<1>3. /\ tx = {} /\ Image = db /\ Images = {db} /\ IsDatabase(db)
  BY <1>0, <1>1 DEF TypeOK, Image, Images
<1>4. /\ StartBlock \in Nat /\ BlockBatchSize \in Nat \ {0} /\ RecoverAfter \in Nat \ {0}
      /\ head \in Nat /\ next \in Nat /\ end \in Nat /\ batch \in Nat /\ successes \in 0 .. RecoverAfter
      /\ db.ckpt \in Nat
      /\ batch > 0 /\ StartBlock <= next /\ next <= end /\ end <= head
  BY <1>0, <1>1, <1>3, ChainAssumption, LegacyAssumption
     DEF ChainAssumption, LegacyAssumption, TypeOK, ChainTypeOK, RangeOK, IsDatabase
<1>5. batch' \in Nat /\ batch' > 0 /\ successes' \in 0 .. RecoverAfter
  BY <1>4 DEF Record, RecoveredBatch
<1>6. PICK new :
         /\ db' = new
         /\ new = [events |-> db.events, trades |-> db.trades, tokens |-> db.tokens,
                   klines |-> db.klines, ckpt |-> new.ckpt]
         /\ new.ckpt = end \/ new.ckpt = db.ckpt
  <2>1. db = [events |-> db.events, trades |-> db.trades, tokens |-> db.tokens,
              klines |-> db.klines, ckpt |-> db.ckpt]
    BY <1>3 DEF IsDatabase
  <2>2. CASE db' = [db EXCEPT !.ckpt = end]
    <3>1. db' = [events |-> db.events, trades |-> db.trades, tokens |-> db.tokens,
                 klines |-> db.klines, ckpt |-> end]
      BY <2>1, <2>2
    <3> QED
      BY <3>1
  <2>3. CASE db' = db
    BY <2>1, <2>3
  <2> QED
    BY <1>1, <2>2, <2>3
<1>7. /\ new.events = db.events /\ new.trades = db.trades /\ new.tokens = db.tokens
      /\ new.klines = db.klines /\ new.ckpt \in Nat
      /\ new.ckpt <= head /\ (new.ckpt > 0 => StartBlock <= new.ckpt)
  <2>1. new.events = db.events /\ new.trades = db.trades /\ new.tokens = db.tokens
        /\ new.klines = db.klines
    BY <1>6
  <2>2. CASE new.ckpt = end
    BY <1>4, <2>1, <2>2
  <2>3. CASE new.ckpt = db.ckpt
    BY <1>0, <1>4, <2>1, <2>3 DEF RangeOK
  <2> QED
    BY <1>6, <2>2, <2>3
<1>8. Image' = new /\ Images' = {new}
  BY <1>1, <1>3, <1>6 DEF Image, Images
<1>9. IsDatabase(new)'
  <2>1. IsDatabase(new)
    BY <1>3, <1>6, <1>7 DEF IsDatabase
  <2> QED
    BY <1>1, <2>1, ImageFacts
<1>10. TypeOK'
  BY SMTT(20), <1>0, <1>1, <1>2, <1>3, <1>4, <1>5, <1>6, <1>9 DEF TypeOK, ChainTypeOK
<1>11. TablesOK'
  <2>1. TradesStored(new)'
    <3>1. TradesStored(new)
      BY <1>0, <1>3, <1>7 DEF TablesOK, TradesStored
    <3> QED
      BY <1>1, <3>1, ImageFacts
  <2>2. ASSUME failures' = 0 PROVE StatusesOf(new)' /\ CandlesOf(new)'
    <3>1. StatusesOf(db) /\ CandlesOf(db)
      BY <1>0, <1>2, <1>3, <2>2 DEF TablesOK, ProjectedExactly
    <3>2. StatusesOf(new) /\ CandlesOf(new)
      BY <1>7, <3>1 DEF StatusesOf, CandlesOf
    <3> QED
      BY <1>1, <3>2, ImageFacts
  <2>3. OpenOK'
    BY <1>1, <1>3 DEF OpenOK
  <2> QED
    BY <1>8, <2>1, <2>2, <2>3 DEF TablesOK, ProjectedExactly
<1>12. ChainBounded' /\ ChainOrdered'
  BY <1>0, <1>1 DEF ChainBounded, ChainOrdered
<1>13. RangeOK'
  BY <1>1, <1>4, <1>5, <1>6, <1>7 DEF RangeOK
<1>14. NothingDropped'
  <2> SUFFICES ASSUME failures' = 0 PROVE NothingDropped'
    BY DEF NothingDropped
  <2>1. /\ StoredUpTo(next - 1)
        /\ ProjectedAmong(LogsBetween(next, end)) \subseteq db.events
        /\ StoredUpTo(db.ckpt)
    BY <1>0, <1>1, <1>2, <1>3 DEF NothingDropped
  <2>2. ProjectedAmong(LogsBetween(StartBlock, end)) \subseteq db.events
    <3> SUFFICES ASSUME NEW j \in ProjectedAmong(LogsBetween(StartBlock, end)) PROVE j \in db.events
      OBVIOUS
    <3>1. j \in DOMAIN chain
      BY DEF ProjectedAmong, LogsBetween
    <3>2. chain[j].block \in Nat
      BY <1>0, <3>1, LogType DEF TypeOK
    <3>3. CASE chain[j].block < next
      <4>1. j \in ProjectedAmong(LogsBetween(StartBlock, next - 1))
        BY <1>4, <3>2, <3>3 DEF ProjectedAmong, LogsBetween
      <4> QED
        BY <2>1, <4>1 DEF StoredUpTo
    <3>4. CASE next <= chain[j].block
      <4>1. j \in ProjectedAmong(LogsBetween(next, end))
        BY <1>4, <3>2, <3>4 DEF ProjectedAmong, LogsBetween
      <4> QED
        BY <2>1, <4>1
    <3> QED
      BY <1>4, <3>2, <3>3, <3>4
  <2>3. StoredUpTo(new.ckpt) /\ StoredUpTo(end)
    BY <1>6, <2>1, <2>2 DEF StoredUpTo
  <2>4. (end + 1) - 1 = end
    BY <1>4
  <2>5. \A b : StoredUpTo(b) => ProjectedAmong(LogsBetween(StartBlock, b))' \subseteq db'.events
    BY <1>1, <1>6, <1>7 DEF StoredUpTo, ProjectedAmong, LogsBetween
  <2>6. StoredUpTo(db.ckpt)' /\ StoredUpTo(next - 1)'
    BY <1>1, <1>6, <2>3, <2>4, <2>5 DEF StoredUpTo
  <2> QED
    BY <1>1, <2>6 DEF NothingDropped
<1>15. FirstPass'
  <2> SUFFICES ASSUME exits = 0 PROVE FirstPass'
    BY <1>1 DEF FirstPass
  <2>1. /\ \A j \in db.events : chain[j].block <= end
        /\ NoRepeats(db)
    BY <1>0, <1>1, <1>3 DEF FirstPass
  <2>2. \A j \in db.events : chain[j].block \in Nat
    BY <1>0, <1>3, LogType DEF TypeOK, IsDatabase
  <2>3. \A j \in new.events : chain[j].block < next'
    BY <1>1, <1>4, <1>7, <2>1, <2>2
  <2>4. NoRepeats(new)
    BY <1>7, <2>1 DEF NoRepeats
  <2>5. NoRepeats(new)'
    BY <1>1, <2>4, ImageFacts
  <2> QED
    BY <1>1, <1>6, <1>8, <2>3, <2>5 DEF FirstPass
<1> QED
  BY <1>10, <1>11, <1>12, <1>13, <1>14, <1>15 DEF LegacyInv

\* A lost process leaves the committed tables.
LEMMA ExitInv == LegacyInv /\ Exit => LegacyInv'
<1> SUFFICES ASSUME LegacyInv, Exit PROVE LegacyInv'
  OBVIOUS
<1>0. /\ TypeOK /\ ChainBounded /\ ChainOrdered /\ TablesOK
      /\ RangeOK /\ NothingDropped /\ FirstPass
  BY DEF LegacyInv
<1>1. /\ stage' = 0 /\ tx' = {} /\ todo' = {} /\ next' = 0 /\ end' = 0 /\ batch' = 0
      /\ successes' = 0 /\ exits' = exits + 1
      /\ UNCHANGED <<chain, head, txs, db, failures>>
  BY DEF Exit, chainVars
<1>2. Images' = {db} /\ db \in Images /\ exits' # 0
  BY <1>0, <1>1 DEF Images, TypeOK
<1>3. IsDatabase(db)'
  BY <1>0, <1>1, ImageFacts DEF TypeOK
<1>4. RecoverAfter \in Nat /\ exits' \in Nat
  BY <1>0, <1>1, LegacyAssumption DEF LegacyAssumption, TypeOK
<1>5. TypeOK'
  BY <1>0, <1>1, <1>3, <1>4 DEF TypeOK, ChainTypeOK
<1>6. TablesOK'
  <2>1. TradesStored(db)'
    BY <1>0, <1>1, <1>2, ImageFacts DEF TablesOK
  <2>2. ProjectedExactly'
    BY <1>0, <1>1, <1>2, ImageFacts DEF TablesOK, ProjectedExactly
  <2>3. OpenOK'
    BY <1>1 DEF OpenOK
  <2> QED
    BY <1>1, <1>2, <2>1, <2>2, <2>3 DEF TablesOK
<1>7. ChainBounded' /\ ChainOrdered'
  BY <1>0, <1>1 DEF ChainBounded, ChainOrdered
<1>8. RangeOK'
  BY <1>0, <1>1 DEF RangeOK
<1>9. NothingDropped'
  BY <1>0, <1>1 DEF NothingDropped, StoredUpTo, ProjectedAmong, LogsBetween
<1>10. FirstPass'
  BY <1>2 DEF FirstPass
<1> QED
  BY <1>5, <1>6, <1>7, <1>8, <1>9, <1>10 DEF LegacyInv

\* A step that changes nothing keeps the invariant.
LEMMA StutterInv == LegacyInv /\ UNCHANGED vars => LegacyInv'
<1> SUFFICES ASSUME LegacyInv, UNCHANGED vars PROVE LegacyInv'
  OBVIOUS
<1>1. UNCHANGED <<chain, head, txs, db, tx, stage, next, end, todo, batch, successes, failures, exits>>
  BY DEF vars, memVars
<1>2. \A d : /\ TradesStored(d)' <=> TradesStored(d)
             /\ StatusesOf(d)' <=> StatusesOf(d)
             /\ CandlesOf(d)' <=> CandlesOf(d)
             /\ IsDatabase(d)' <=> IsDatabase(d)
             /\ NoRepeats(d)' <=> NoRepeats(d)
  BY <1>1, ImageFacts
<1>3. Images' = Images /\ Image' = Image
  BY <1>1 DEF Images, Image
<1>4. /\ TypeOK /\ ChainBounded /\ ChainOrdered /\ TablesOK
      /\ RangeOK /\ NothingDropped /\ FirstPass
  BY DEF LegacyInv
<1>5. TypeOK'
  BY <1>1, <1>2, <1>4 DEF TypeOK, ChainTypeOK
<1>6. TablesOK'
  BY <1>1, <1>4, TablesStay
<1>7. ChainBounded' /\ ChainOrdered' /\ RangeOK'
  BY <1>1, <1>4 DEF ChainBounded, ChainOrdered, RangeOK, ProjectedAmong, LogsBetween
<1>8. NothingDropped'
  BY <1>1, <1>3, <1>4 DEF NothingDropped, StoredUpTo, ProjectedAmong, LogsBetween
<1>9. FirstPass'
  BY <1>1, <1>2, <1>3, <1>4 DEF FirstPass
<1> QED
  BY <1>5, <1>6, <1>7, <1>8, <1>9 DEF LegacyInv

\* Every behaviour of the legacy indexer satisfies the inductive invariant.
THEOREM LegacyInvariant == Spec => []LegacyInv
<1>1. LegacyInv /\ [Next]_vars => LegacyInv'
  <2> SUFFICES ASSUME LegacyInv, [Next]_vars PROVE LegacyInv'
    OBVIOUS
  <2>1. CASE GrowChain
    BY <2>1, GrowChainInv
  <2>2. CASE SyncStep
    BY <2>2, ReadingInv, PollInv, WriteEventInv, BatchEndsInv, WriteGraduatedInv, RecordInv
       DEF SyncStep
  <2>3. CASE Exit
    BY <2>3, ExitInv
  <2>4. CASE UNCHANGED vars
    BY <2>4, StutterInv
  <2> QED
    BY <2>1, <2>2, <2>3, <2>4 DEF Next
<1> QED
  BY InitLegacyInv, <1>1, PTL DEF Spec

-----------------------------------------------------------------------------
(* The properties.                                                         *)

\* The fields of Indexer, the tables and the image of an open transaction keep
\* their types.
THEOREM LegacyTypeCorrect == Spec => []TypeOK
BY LegacyInvariant, PTL DEF LegacyInv

\* Whatever the batch sizes and the answer limit, and however often the process
\* exits: without an ignored error every event up to the checkpoint is stored.
THEOREM NothingIsLost == Spec => []NothingLost
<1>1. LegacyInv => NothingLost
  BY DEF LegacyInv, NothingDropped, NothingLost, StoredUpTo
<1> QED
  BY LegacyInvariant, <1>1, PTL

\* Whichever statements and commits fail, the events and the trades rows agree.
THEOREM BatchesAreAtomic == Spec => []BatchAtomic
<1>1. LegacyInv => BatchAtomic
  BY DEF LegacyInv, TablesOK, TradesStored, BatchAtomic, Images
<1> QED
  BY LegacyInvariant, <1>1, PTL

\* Writing the kinds of a range out of order, and ranges again, spoils no
\* status, because a creation is stored before what depends on it and does not
\* reset a row.
THEOREM StatusesAreExact == Spec => []StatusExact
<1>1. LegacyInv => StatusExact
  BY DEF LegacyInv, TablesOK, ProjectedExactly, StatusesOf, StatusExact, Images
<1> QED
  BY LegacyInvariant, <1>1, PTL

\* The image of a candle is made of the trades that fall into it.
LEMMA CandleImageIs ==
  ASSUME NEW S, NEW c
  PROVE  /\ RM!CandleImage(S, c).high = RM!Max({chain[k].price : k \in InCandle(S, c)})
         /\ RM!CandleImage(S, c).low = RM!Min({chain[k].price : k \in InCandle(S, c)})
         /\ RM!CandleImage(S, c).added = InCandle(S, c)
<1>1. RM!TradesAmong(S) = TradesAmong(S)
  BY DEF RM!TradesAmong, RM!IsTrade, RM!TradeKinds, TradesAmong, IsTrade, TradeKinds
<1>2. \A k, i : RM!CandleOf(k, i) = CandleOf(k, i)
  BY DEF RM!CandleOf, CandleOf
<1>3. RM!InCandle(S, c) = InCandle(S, c)
  BY <1>1, <1>2 DEF RM!InCandle, InCandle
<1> QED
  BY <1>3 DEF RM!CandleImage

\* The high, the low and the trades of each candle are those of all the stored
\* trades of its interval, in whatever order they were written.
THEOREM HighsAndLowsAreExact == Spec => []HighLowExact
<1>1. LegacyInv => HighLowExact
  <2> SUFFICES ASSUME LegacyInv, failures = 0,
                      NEW c \in CandlesAmong(Priced(db.events))
               PROVE  LET image == RM!CandleImage(Priced(db.events), c)
                      IN /\ db.klines[c].high = image.high
                         /\ db.klines[c].low = image.low
                         /\ db.klines[c].added = image.added
    BY DEF LegacyInv, TablesOK, ProjectedExactly, CandlesOf, HighLowExact, Images
  <2> DEFINE all == InCandle(Priced(db.events), c)
             prices == {chain[k].price : k \in all}
             row == db.klines[c]
  <2>1. RowOf(row, all)
    BY DEF LegacyInv, TablesOK, ProjectedExactly, CandlesOf, Images
  <2>2. prices \in SUBSET Nat
    <3>1. all \subseteq DOMAIN chain
      BY DEF LegacyInv, TypeOK, IsDatabase, InCandle, TradesAmong, Priced
    <3> QED
      BY <3>1, LogType DEF LegacyInv, TypeOK
  <2>3. /\ row.high \in prices /\ \A p \in prices : p <= row.high
        /\ row.low \in prices /\ \A p \in prices : row.low <= p
    BY <2>1 DEF RowOf
  <2>4. RM!Max(prices) = row.high /\ RM!Min(prices) = row.low
    <3> HIDE DEF prices, row
    <3> QED
      BY <2>2, <2>3, MaxIs, MinIs DEF RM!Max, RM!Min
  <2>5. row.added = all
    BY <2>1 DEF RowOf
  <2> QED
    BY <2>4, <2>5, CandleImageIs
<1> QED
  BY LegacyInvariant, <1>1, PTL

\* As long as the process is the first, no trade counts twice in a volume.
THEOREM RepeatsNeedRestarts == Spec => []RepeatNeedsRestart
<1>1. LegacyInv => RepeatNeedsRestart
  <2> SUFFICES ASSUME LegacyInv, exits = 0, NEW c \in DOMAIN db.klines
               PROVE  db.klines[c].repeated = {}
    BY DEF RepeatNeedsRestart, LegacyInv, TypeOK
  <2> QED
    BY DEF LegacyInv, FirstPass, NoRepeats, Images
<1> QED
  BY LegacyInvariant, <1>1, PTL

\* No step of the process takes a stored event or a graduation back.
THEOREM GraduatedStaysSo == Spec => GraduatedStays
<1>1. LegacyInv /\ [Next]_vars =>
        [/\ db.events \subseteq db'.events
         /\ \A t \in Tokens :
               db.tokens[t].status = RM!Graduated => db'.tokens[t].status = RM!Graduated]_db
  <2> SUFFICES ASSUME LegacyInv, [Next]_vars PROVE db' = db \/ Keeps(db, db')
    BY DEF Keeps
  <2>1. TypeOK /\ RangeOK /\ TablesOK
    BY DEF LegacyInv
  <2>2. CASE CommitBatch
    <3>1. db' = Image
      BY <2>2 DEF CommitBatch
    <3>2. Image = db \/ Keeps(db, Image)
      BY <2>1, ImageIs DEF TablesOK, OpenOK
    <3> QED
      BY <3>1, <3>2
  <2>3. ASSUME NEW k \in todo, WriteGraduated(k)
        PROVE  db' = db \/ Keeps(db, db')
    <3>1. IsDatabase(db) /\ k \in DOMAIN chain
      BY <2>1 DEF TypeOK
    <3>2. Keeps(db, StoreTokenGraduated(db, k))
      BY <2>1, <3>1, GraduatedStored DEF StoredBy
    <3> QED
      BY <2>3, <3>2 DEF WriteGraduated
  <2>4. CASE Record
    <3>1. db = [events |-> db.events, trades |-> db.trades, tokens |-> db.tokens,
                klines |-> db.klines, ckpt |-> db.ckpt]
      BY <2>1 DEF TypeOK, IsDatabase
    <3>2. db' = db \/ db' = [db EXCEPT !.ckpt = end]
      BY <2>4 DEF Record
    <3>3. db'.events = db.events /\ db'.tokens = db.tokens
      BY <3>1, <3>2
    <3> QED
      BY <3>3 DEF Keeps
  <2>5. CASE GrowChain \/ Start \/ PollLimited \/ Poll \/ PollInVain \/ BatchFails \/ Exit
             \/ UNCHANGED vars
    BY <2>5 DEF GrowChain, Start, PollLimited, Poll, PollInVain, BatchFails, Exit, vars
  <2>6. ASSUME NEW k \in todo, WriteEvent(k)
        PROVE  db' = db
    BY <2>6 DEF WriteEvent
  <2> QED
    BY <2>2, <2>3, <2>4, <2>5, <2>6 DEF Next, SyncStep
<1> QED
  BY LegacyInvariant, <1>1, PTL DEF Spec, GraduatedStays

=============================================================================
