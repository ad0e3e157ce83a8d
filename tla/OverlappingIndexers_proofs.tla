---------------------- MODULE OverlappingIndexers_proofs ----------------------
(***************************************************************************)
(* Proofs about several processes of the rebuilt indexer over the same     *)
(* tables, for any number of them and any chain, range size and tokens.    *)
(*                                                                         *)
(* Of all open transactions at most one holds raw logs that are new: any   *)
(* other would have inserted the first of them too, and waits for it.  So  *)
(* a commit that adds logs finds every other transaction with logs that    *)
(* are in the tables already, of which only rows of tokens are written     *)
(* again; those are locked one by one.                                     *)
(*                                                                         *)
(* What is said of a process, and of the tables, is said of the record it  *)
(* is: a step then only has to be looked at where it replaces a record.    *)
(***************************************************************************)
EXTENDS OverlappingIndexers, Chain_proofs

-----------------------------------------------------------------------------
(* What a process has done.                                                *)

Saves(r) == r.at \in {"save", "commit"}

\* The logs of the range it saves, those inserted, and those projected.
RangeIn(r) == LogsBetween(r.next, r.end)
InsertedBy(r) == RangeIn(r) \ r.raw
DoneBy(r) == ProjectedAmong(RangeIn(r)) \ r.todo

\* The logs whose rows it sees, when L are those of the ledger.
VisibleTo(L, r) == L \union DoneBy(r)

-----------------------------------------------------------------------------
(* The inductive invariant.                                                *)

\* Where a process is in its range, which the node has.
Position(r) ==
    /\ r.at \in {"range", "save", "commit"} => r.latest <= head
    /\ r.at # "down" => StartBlock <= r.next
    /\ ~Saves(r) => r.writes = NoRows
    /\ Saves(r) =>
          /\ r.next <= r.end /\ r.end <= r.latest
          /\ r.raw \subseteq RangeIn(r)
          /\ r.todo \subseteq ProjectedAmong(RangeIn(r))
          /\ \A j \in InsertedBy(r), k \in r.raw : j < k
          /\ \A j \in DoneBy(r), k \in r.todo : j < k
          /\ r.raw # {} => DoneBy(r) = {}
    /\ r.at = "save" => r.writes.ckpt = NoCheckpoint
    /\ r.at = "commit" => r.raw = {} /\ r.todo = {} /\ r.writes.ckpt = r.end

\* What it has written of the ledger and of the trades: what is new.
NewRows(L, r) ==
    Saves(r) =>
        /\ r.writes.ledger = InsertedBy(r) \ L
        /\ r.writes.trades = TradesAmong(DoneBy(r) \ L)

\* The status of a row of token t is that of the logs S.
StatusOf(row, S, t) == (row.status = Graduated) <=> Happened(S, "TokenGraduated", t)

\* It has written the candles of its new trades, and the rows of the tokens of
\* the logs it projected, as they are with all the logs whose rows it sees.
Written(L, r) ==
    LET seen == VisibleTo(L, r)
    IN  Saves(r) =>
            /\ DOMAIN r.writes.klines = CandlesAmong(DoneBy(r) \ L)
            /\ \A c \in DOMAIN r.writes.klines : CandleRowOf(r.writes.klines[c], InCandle(seen, c))
            /\ DOMAIN r.writes.tokens =
                  {t \in Tokens : /\ Happened(seen, "TokenCreated", t)
                                  /\ \E k \in DoneBy(r) : chain[k].token = t}
            /\ \A t \in DOMAIN r.writes.tokens : StatusOf(r.writes.tokens[t], seen, t)

\* Only one of two processes has new logs, and they write no token both.
Disjoint(r, s) ==
    /\ r.writes.ledger = {} \/ s.writes.ledger = {}
    /\ DOMAIN r.writes.tokens \intersect DOMAIN s.writes.tokens = {}

\* The trades, candles and tokens of the tables T are those of the logs S.
Shows(T, S) ==
    /\ T.trades = TradesAmong(S)
    /\ DOMAIN T.klines = CandlesAmong(S)
    /\ \A c \in DOMAIN T.klines : CandleRowOf(T.klines[c], InCandle(S, c))
    /\ DOMAIN T.tokens = {t \in Tokens : Happened(S, "TokenCreated", t)}
    /\ \A t \in DOMAIN T.tokens : StatusOf(T.tokens[t], S, t)

\* The ledger ends with block b, and no process is more than one block ahead of it.
CoveredTo(T, R, b) ==
    /\ StartBlock - 1 <= b
    /\ b <= head \/ b = StartBlock - 1
    /\ T.ckpt <= b
    /\ T.ledger = LogsBetween(StartBlock, b)
    /\ \A p \in Indexers : R[p].at # "down" => R[p].next <= b + 1

\* The tables T and the processes R.
Sound(T, R) ==
    /\ AreRows(T)
    /\ R = [p \in Indexers |-> R[p]]
    /\ T.ckpt = NoCheckpoint \/ StartBlock <= T.ckpt
    /\ \E b \in Int : CoveredTo(T, R, b)
    /\ Shows(T, T.ledger)
    /\ \A p \in Indexers :
          IsProcess(R[p]) /\ Position(R[p]) /\ NewRows(T.ledger, R[p]) /\ Written(T.ledger, R[p])
    /\ \A p, q \in Indexers : p # q => Disjoint(R[p], R[q])

OverlapInv == ChainTypeOK /\ ChainBounded /\ ChainOrdered /\ Sound(tables, indexers)

-----------------------------------------------------------------------------
(* The chain grows.                                                        *)

\* The logs of blocks the node has had, in a chain that grew.
LEMMA RangeStays ==
  ASSUME head \in Nat,
         \A k \in DOMAIN chain : k \in DOMAIN chain' /\ chain'[k] = chain[k],
         \A k \in DOMAIN chain' \ DOMAIN chain : chain'[k].block = head + 1
  PROVE  \A from, to \in Int : to <= head \/ to < from =>
            LogsBetween(from, to)' = LogsBetween(from, to)
<1> SUFFICES ASSUME NEW from \in Int, NEW to \in Int, to <= head \/ to < from
             PROVE  LogsBetween(from, to)' = LogsBetween(from, to)
  OBVIOUS
<1>1. ~(from <= head + 1 /\ head + 1 <= to)
  OBVIOUS
<1> QED
  BY <1>1 DEF LogsBetween

\* A process is where it was.
LEMMA PositionStays ==
  ASSUME ChainTypeOK, head' \in Nat, head <= head',
         \A k \in DOMAIN chain : k \in DOMAIN chain' /\ chain'[k] = chain[k],
         \A k \in DOMAIN chain' \ DOMAIN chain : chain'[k].block = head + 1,
         NEW r, IsProcess(r), Position(r)
  PROVE  /\ Position(r)'
         /\ Saves(r) => /\ RangeIn(r) \subseteq DOMAIN chain
                        /\ DoneBy(r) \subseteq DOMAIN chain
                        /\ RangeIn(r)' = RangeIn(r) /\ InsertedBy(r)' = InsertedBy(r)
                        /\ DoneBy(r)' = DoneBy(r)
<1>1. r.next \in Nat /\ r.end \in Nat /\ r.latest \in Nat /\ head \in Nat
  BY DEF IsProcess, ChainTypeOK
<1>2. ASSUME Saves(r)
      PROVE  /\ RangeIn(r) \subseteq DOMAIN chain /\ DoneBy(r) \subseteq DOMAIN chain
             /\ RangeIn(r)' = RangeIn(r) /\ InsertedBy(r)' = InsertedBy(r)
             /\ DoneBy(r)' = DoneBy(r)
             /\ ProjectedAmong(RangeIn(r))' = ProjectedAmong(RangeIn(r))
  <2>1. r.end <= head
    BY <1>1, <1>2 DEF Position, Saves
  <2>2. LogsBetween(r.next, r.end)' = LogsBetween(r.next, r.end)
    BY <1>1, <2>1, RangeStays
  <2>3. RangeIn(r)' = RangeIn(r) /\ RangeIn(r) \subseteq DOMAIN chain
    BY <2>2 DEF RangeIn, LogsBetween
  <2>4. ProjectedAmong(RangeIn(r))' = ProjectedAmong(RangeIn(r))
    BY <2>3 DEF ProjectedAmong
  <2>5. DoneBy(r) \subseteq DOMAIN chain
    BY <2>3 DEF DoneBy, ProjectedAmong
  <2> QED
    BY <2>3, <2>4, <2>5 DEF InsertedBy, DoneBy
<1>3. Position(r)'
  BY <1>1, <1>2 DEF Position, Saves
<1> QED
  BY <1>2, <1>3

\* So is what it has written.
LEMMA WritesStay ==
  ASSUME ChainTypeOK, head' \in Nat, head <= head',
         \A k \in DOMAIN chain : k \in DOMAIN chain' /\ chain'[k] = chain[k],
         \A k \in DOMAIN chain' \ DOMAIN chain : chain'[k].block = head + 1,
         NEW r, IsProcess(r), Position(r),
         NEW L \in SUBSET DOMAIN chain, NewRows(L, r), Written(L, r)
  PROVE  NewRows(L, r)' /\ Written(L, r)'
<1> SUFFICES ASSUME Saves(r) PROVE NewRows(L, r)' /\ Written(L, r)'
  BY DEF NewRows, Written, Saves
<1>1. /\ DoneBy(r) \subseteq DOMAIN chain
      /\ InsertedBy(r)' = InsertedBy(r) /\ DoneBy(r)' = DoneBy(r)
  BY PositionStays
<1>2. VisibleTo(L, r)' = VisibleTo(L, r) /\ VisibleTo(L, r) \in SUBSET DOMAIN chain
  BY <1>1 DEF VisibleTo
<1>3. PICK D, V : D = DoneBy(r) /\ V = VisibleTo(L, r)
  OBVIOUS
<1>4. D \ L \in SUBSET DOMAIN chain /\ D \in SUBSET DOMAIN chain /\ V \in SUBSET DOMAIN chain
  BY <1>1, <1>2, <1>3
<1>5. D = DoneBy(r)' /\ V = VisibleTo(L, r)'
  BY <1>1, <1>2, <1>3
<1>6. TradesAmong(D \ L)' = TradesAmong(D \ L) /\ CandlesAmong(D \ L)' = CandlesAmong(D \ L)
  BY <1>4, LogFactsStay
<1>7. NewRows(L, r)'
  <2>1. r.writes.ledger = InsertedBy(r) \ L /\ r.writes.trades = TradesAmong(D \ L)
    BY <1>3 DEF NewRows
  <2>2. r.writes.trades = TradesAmong(DoneBy(r) \ L)'
    BY <1>5, <1>6, <2>1 DEF TradesAmong
  <2> QED
    BY <1>1, <2>1, <2>2 DEF NewRows
<1>8. \A c \in DOMAIN r.writes.klines : CandleRowOf(r.writes.klines[c], InCandle(V, c))'
  <2>1. \A c : InCandle(V, c) \in SUBSET DOMAIN chain
    BY <1>4 DEF InCandle, TradesAmong
  <2>2. \A c : InCandle(V, c)' = InCandle(V, c)
    BY <1>4, LogFactsStay
  <2>3. \A row : \A S \in SUBSET DOMAIN chain : CandleRowOf(row, S)' <=> CandleRowOf(row, S)
    BY LogFactsStay
  <2> QED
    BY <1>3, <2>1, <2>2, <2>3 DEF Written
<1>9. /\ \A kind, t : Happened(V, kind, t)' <=> Happened(V, kind, t)
      /\ \A t : (\E k \in D : chain'[k].token = t) <=> (\E k \in D : chain[k].token = t)
  BY <1>4, LogFactsStay
<1>10. Written(L, r)'
  <2>1. DOMAIN r.writes.klines = CandlesAmong(D \ L)'
    BY <1>3, <1>6 DEF Written
  <2>2. DOMAIN r.writes.klines = CandlesAmong(DoneBy(r) \ L)'
    BY <1>5, <2>1 DEF CandlesAmong, TradesAmong
  <2>3. /\ DOMAIN r.writes.tokens = {t \in Tokens : /\ Happened(V, "TokenCreated", t)'
                                                   /\ \E k \in D : chain'[k].token = t}
        /\ \A t \in DOMAIN r.writes.tokens :
              (r.writes.tokens[t].status = Graduated) <=> Happened(V, "TokenGraduated", t)'
    BY <1>3, <1>9 DEF Written, StatusOf
  <2> QED
    BY <1>5, <1>8, <2>2, <2>3 DEF Written, StatusOf
<1> QED
  BY <1>7, <1>10

\* The tables show what they showed.
LEMMA TablesStay ==
  ASSUME \A k \in DOMAIN chain : k \in DOMAIN chain' /\ chain'[k] = chain[k],
         NEW T, NEW S \in SUBSET DOMAIN chain, Shows(T, S)
  PROVE  Shows(T, S)'
<1>1. /\ TradesAmong(S)' = TradesAmong(S) /\ CandlesAmong(S)' = CandlesAmong(S)
      /\ \A c : InCandle(S, c)' = InCandle(S, c)
      /\ \A kind, t : Happened(S, kind, t)' <=> Happened(S, kind, t)
  BY LogFactsStay
<1>2. \A c : InCandle(S, c) \in SUBSET DOMAIN chain
  BY DEF InCandle, TradesAmong
<1>3. \A row : \A X \in SUBSET DOMAIN chain : CandleRowOf(row, X)' <=> CandleRowOf(row, X)
  BY LogFactsStay
<1>4. \A c \in DOMAIN T.klines : CandleRowOf(T.klines[c], InCandle(S, c))'
  BY <1>1, <1>2, <1>3 DEF Shows
<1> QED
  BY <1>1, <1>4 DEF Shows, StatusOf

\* Nothing changes for tables and processes while the chain grows.
LEMMA SoundStays ==
  ASSUME ChainTypeOK, head' \in Nat, head <= head',
         \A k \in DOMAIN chain : k \in DOMAIN chain' /\ chain'[k] = chain[k],
         \A k \in DOMAIN chain' \ DOMAIN chain : chain'[k].block = head + 1,
         NEW T, NEW R, Sound(T, R)
  PROVE  Sound(T, R)'
<1>1. PICK b \in Int : CoveredTo(T, R, b)
  BY DEF Sound
<1>2. head \in Nat /\ StartBlock \in Nat
  BY ChainAssumption DEF ChainTypeOK, ChainAssumption
<1>3. LogsBetween(StartBlock, b)' = LogsBetween(StartBlock, b)
  BY <1>1, <1>2, RangeStays DEF CoveredTo
<1>4. CoveredTo(T, R, b)'
  BY <1>1, <1>2, <1>3 DEF CoveredTo
<1>5. PICK L : L = T.ledger
  OBVIOUS
<1>6. L \in SUBSET DOMAIN chain
  BY <1>1, <1>5 DEF CoveredTo, LogsBetween
<1>7. Shows(T, L)'
  BY <1>5, <1>6, TablesStay DEF Sound
<1>8. ASSUME NEW p \in Indexers
      PROVE  Position(R[p])' /\ NewRows(L, R[p])' /\ Written(L, R[p])'
  <2>1. PICK r : r = R[p]
    OBVIOUS
  <2>2. IsProcess(r) /\ Position(r) /\ NewRows(L, r) /\ Written(L, r)
    BY <1>5, <2>1 DEF Sound
  <2>3. Position(r)' /\ NewRows(L, r)' /\ Written(L, r)'
    BY <1>6, <2>2, PositionStays, WritesStay
  <2> QED
    BY <2>1, <2>3
<1> QED
  BY <1>4, <1>5, <1>7, <1>8 DEF Sound, AreRows, IsProcess, Disjoint

-----------------------------------------------------------------------------
(* One process moves.                                                      *)

\* Process p becomes r, and the tables stay.
LEMMA OneMoves ==
  ASSUME NEW T, NEW R, Sound(T, R), NEW p \in Indexers, NEW r,
         IsProcess(r), Position(r), NewRows(T.ledger, r), Written(T.ledger, r),
         r.at # "down" => \A b \in Int : CoveredTo(T, R, b) => r.next <= b + 1,
         \A q \in Indexers \ {p} : Disjoint(r, R[q])
  PROVE  Sound(T, [R EXCEPT ![p] = r])
<1> DEFINE N == [R EXCEPT ![p] = r]
<1>1. /\ N = [q \in Indexers |-> N[q]] /\ N[p] = r
      /\ \A q \in Indexers \ {p} : N[q] = R[q]
  BY DEF Sound
<1>2. PICK b \in Int : CoveredTo(T, R, b)
  BY DEF Sound
<1> HIDE DEF N
<1>3. CoveredTo(T, N, b)
  BY <1>1, <1>2 DEF CoveredTo
<1>4. ASSUME NEW q1 \in Indexers, NEW q2 \in Indexers, q1 # q2
      PROVE  Disjoint(N[q1], N[q2])
  <2>1. CASE q1 = p
    BY <1>1, <1>4, <2>1
  <2>2. CASE q2 = p
    <3>1. Disjoint(r, R[q1]) => Disjoint(R[q1], r)
      BY DEF Disjoint
    <3> QED
      BY <1>1, <1>4, <2>2, <3>1
  <2>3. CASE q1 # p /\ q2 # p
    BY <1>1, <1>4, <2>3 DEF Sound
  <2> QED
    BY <2>1, <2>2, <2>3
<1>5. \A q \in Indexers :
         IsProcess(N[q]) /\ Position(N[q]) /\ NewRows(T.ledger, N[q]) /\ Written(T.ledger, N[q])
  BY <1>1 DEF Sound
<1>6. Sound(T, N)
  BY <1>1, <1>3, <1>4, <1>5 DEF Sound
<1> QED
  BY <1>6 DEF N

\* A step that leaves the chain alone only has to leave sound records.
LEMMA SoundNext ==
  ASSUME OverlapInv, UNCHANGED chainVars,
         NEW T, NEW R, tables' = T, indexers' = R, Sound(T, R)
  PROVE  OverlapInv'
<1>1. /\ ChainTypeOK /\ ChainBounded /\ ChainOrdered /\ chain' = chain /\ head' = head
      /\ head \in Nat
  BY DEF OverlapInv, chainVars, ChainTypeOK
<1>2. ChainTypeOK' /\ ChainBounded' /\ ChainOrdered'
  BY <1>1 DEF ChainTypeOK, ChainBounded, ChainOrdered
<1>3. Sound(T, R)'
  BY <1>1, SoundStays
<1> QED
  BY <1>2, <1>3 DEF OverlapInv

\* What is known of a process.
LEMMA ProcessFacts ==
  ASSUME NEW T, NEW R, Sound(T, R), NEW p \in Indexers
  PROVE  /\ R[p] = [at |-> R[p].at, next |-> R[p].next, latest |-> R[p].latest, end |-> R[p].end,
                    raw |-> R[p].raw, todo |-> R[p].todo, writes |-> R[p].writes]
         /\ IsProcess(R[p]) /\ Position(R[p])
         /\ NewRows(T.ledger, R[p]) /\ Written(T.ledger, R[p])
         /\ \A q \in Indexers \ {p} : Disjoint(R[p], R[q])
         /\ R[p].next \in Nat /\ R[p].latest \in Nat /\ R[p].end \in Nat
         /\ R[p].raw \subseteq Nat /\ R[p].todo \subseteq Nat /\ AreRows(R[p].writes)
BY DEF Sound, IsProcess

\* A process without a transaction has written nothing.
LEMMA IdleWrites ==
  ASSUME NEW r, ~Saves(r), r.writes = NoRows, NEW L
  PROVE  NewRows(L, r) /\ Written(L, r) /\ \A s : Disjoint(r, s)
<1>1. DOMAIN NoRows.tokens = {} /\ NoRows.ledger = {}
  BY DEF NoRows
<1> QED
  BY <1>1 DEF NewRows, Written, Disjoint

\* No rows are rows.
LEMMA NoRowsType == AreRows(NoRows)
<1>1. NoRows = [ledger |-> {}, trades |-> {}, tokens |-> << >>, klines |-> << >>,
                ckpt |-> NoCheckpoint]
  BY DEF NoRows
<1> DEFINE none == << >>
<1>2. DOMAIN none = {} /\ none = [x \in {} |-> none[x]]
  OBVIOUS
<1> HIDE DEF none
<1>3. IsTokenTable(none) /\ IsKlineTable(none)
  BY <1>2 DEF IsTokenTable, IsKlineTable
<1> QED
  BY <1>1, <1>3 DEF AreRows, none

\* A process that is not running has its type.
LEMMA DownType ==
  /\ IsProcess(Down) /\ Position(Down) /\ ~Saves(Down) /\ Down.at = "down"
  /\ Down.writes = NoRows
<1>1. Down = [at |-> "down", next |-> 0, latest |-> 0, end |-> 0, raw |-> {}, todo |-> {},
              writes |-> NoRows]
  BY DEF Down
<1> QED
  BY <1>1, NoRowsType DEF IsProcess, Position, Saves

\* No process runs at first, and there are no rows.
LEMMA OverlapInitial == OverlapInit => OverlapInv
<1> SUFFICES ASSUME OverlapInit PROVE OverlapInv
  OBVIOUS
<1>1. chain = << >> /\ head = 0 /\ tables = NoRows /\ indexers = [p \in Indexers |-> Down]
  BY DEF OverlapInit, ChainInit
<1>2. DOMAIN chain = {} /\ ChainTypeOK /\ ChainBounded /\ ChainOrdered
  BY <1>1 DEF ChainTypeOK, ChainBounded, ChainOrdered
<1>3. /\ tables.ckpt = NoCheckpoint /\ tables.ledger = {} /\ tables.trades = {}
      /\ DOMAIN tables.klines = {} /\ DOMAIN tables.tokens = {}
  BY <1>1 DEF NoRows
<1>4. StartBlock \in Nat /\ NoCheckpoint = -1
  BY ChainAssumption DEF ChainAssumption, NoCheckpoint
<1>5. CoveredTo(tables, indexers, StartBlock - 1)
  BY <1>1, <1>2, <1>3, <1>4, DownType DEF CoveredTo, LogsBetween
<1>6. Shows(tables, tables.ledger)
  BY <1>3 DEF Shows, TradesAmong, CandlesAmong, Happened
<1>7. \A p \in Indexers : indexers[p] = Down
  BY <1>1
<1>8. \A L, s : NewRows(L, Down) /\ Written(L, Down) /\ Disjoint(Down, s)
  BY DownType, IdleWrites
<1>9. \E b \in Int : CoveredTo(tables, indexers, b)
  BY <1>4, <1>5
<1>10. AreRows(tables)
  BY <1>1, NoRowsType
<1>11. Sound(tables, indexers)
  BY <1>1, <1>3, <1>6, <1>7, <1>8, <1>9, <1>10, DownType DEF Sound
<1> QED
  BY <1>2, <1>11 DEF OverlapInv

-----------------------------------------------------------------------------
(* The steps up to the transaction.                                        *)

\* A process starts behind the checkpoint, which is in the ledger.
LEMMA StartsStep ==
  ASSUME OverlapInv, NEW p \in Indexers, Starts(p)
  PROVE  OverlapInv'
<1>1. PICK T, R, r, from :
        /\ T = tables /\ R = indexers
        /\ from = IF T.ckpt = NoCheckpoint THEN StartBlock ELSE T.ckpt + 1
        /\ r = [R[p] EXCEPT !.at = "poll", !.next = from]
  OBVIOUS
<1>2. /\ R[p].at = "down" /\ indexers' = [R EXCEPT ![p] = r] /\ tables' = T
      /\ UNCHANGED chainVars
  BY <1>1 DEF Starts
<1>3. Sound(T, R)
  BY <1>1 DEF OverlapInv
<1>4. /\ T.ckpt = NoCheckpoint \/ (T.ckpt \in Nat /\ StartBlock <= T.ckpt)
      /\ StartBlock \in Nat /\ NoCheckpoint = -1
  BY <1>3, ChainAssumption DEF ChainAssumption, NoCheckpoint, Sound, AreRows
<1>5. from \in Nat /\ StartBlock <= from
  BY <1>1, <1>4
<1>6. \A b \in Int : CoveredTo(T, R, b) => from <= b + 1
  BY <1>1, <1>4 DEF CoveredTo
<1>7. IsProcess(R[p]) /\ Position(R[p])
  BY <1>3, ProcessFacts
<1>8. r.at = "poll" /\ r.next = from /\ r.writes = R[p].writes /\ IsProcess(r)
  BY <1>1, <1>5, <1>7 DEF IsProcess
<1>9. ~Saves(r) /\ r.writes = NoRows
  BY <1>2, <1>7, <1>8 DEF Saves, Position
<1>10. Position(r)
  BY <1>5, <1>8, <1>9 DEF Position
<1>11. Sound(T, [R EXCEPT ![p] = r])
  BY <1>3, <1>6, <1>8, <1>9, <1>10, IdleWrites, OneMoves
<1> QED
  BY <1>2, <1>11, SoundNext

\* A process that is, and stays, without a transaction in its range.
LEMMA IdleMoves ==
  ASSUME NEW T, NEW R, Sound(T, R), NEW p \in Indexers, R[p].at \in {"poll", "range"},
         NEW at \in {"poll", "range"}, NEW latest \in Nat, latest <= head \/ at = "poll"
  PROVE  Sound(T, [R EXCEPT ![p] = [R[p] EXCEPT !.at = at, !.latest = latest]])
<1>1. PICK r : r = [R[p] EXCEPT !.at = at, !.latest = latest]
  OBVIOUS
<1>2. IsProcess(R[p]) /\ Position(R[p])
  BY ProcessFacts
<1>3. /\ r.at = at /\ r.latest = latest /\ r.next = R[p].next /\ r.writes = R[p].writes
      /\ IsProcess(r)
  BY <1>1, <1>2 DEF IsProcess
<1>4. ~Saves(r) /\ r.writes = NoRows
  BY <1>2, <1>3 DEF Saves, Position
<1>5. Position(r)
  BY <1>2, <1>3, <1>4 DEF Position
<1>6. \A b \in Int : CoveredTo(T, R, b) => r.next <= b + 1
  BY <1>3 DEF CoveredTo
<1>7. Sound(T, [R EXCEPT ![p] = r])
  BY <1>3, <1>4, <1>5, <1>6, IdleWrites, OneMoves
<1> QED
  BY <1>1, <1>7

\* It reads the newest block.
LEMMA ReadsHeadStep ==
  ASSUME OverlapInv, NEW p \in Indexers, ReadsHead(p)
  PROVE  OverlapInv'
<1>1. PICK T, R : T = tables /\ R = indexers
  OBVIOUS
<1>2. PICK N : N = [R EXCEPT ![p] = [R[p] EXCEPT !.at = "range", !.latest = head]]
  OBVIOUS
<1>3. /\ R[p].at = "poll" /\ tables' = T /\ UNCHANGED chainVars
      /\ indexers' = N
  BY <1>1, <1>2 DEF ReadsHead
<1>4. Sound(T, R) /\ head \in Nat
  BY <1>1 DEF OverlapInv, ChainTypeOK
<1>5. PICK latest \in Nat : latest = head
  BY <1>4
<1>6. Sound(T, [R EXCEPT ![p] = [R[p] EXCEPT !.at = "range", !.latest = latest]])
  <2>1. R[p].at \in {"poll", "range"} /\ "range" \in {"poll", "range"} /\ latest <= head
    BY <1>3, <1>4, <1>5
  <2> QED
    BY <1>4, <2>1, IdleMoves
<1>7. Sound(T, N)
  BY <1>2, <1>5, <1>6
<1> QED
  BY <1>3, <1>7, SoundNext

\* It has caught up.
LEMMA TicksStep ==
  ASSUME OverlapInv, NEW p \in Indexers, Ticks(p)
  PROVE  OverlapInv'
<1>1. PICK T, R : T = tables /\ R = indexers
  OBVIOUS
<1>2. PICK N : N = [R EXCEPT ![p] = [R[p] EXCEPT !.at = "poll", !.latest = 0]]
  OBVIOUS
<1>3. /\ R[p].at = "range" /\ tables' = T /\ UNCHANGED chainVars
      /\ indexers' = N
  BY <1>1, <1>2 DEF Ticks
<1>4. Sound(T, R)
  BY <1>1 DEF OverlapInv
<1>5. Sound(T, N)
  BY <1>2, <1>3, <1>4, IdleMoves
<1> QED
  BY <1>3, <1>5, SoundNext

\* It ends, and its transaction is rolled back.
LEMMA ExitsStep ==
  ASSUME OverlapInv, NEW p \in Indexers, Exits(p)
  PROVE  OverlapInv'
<1>1. PICK T, R : T = tables /\ R = indexers
  OBVIOUS
<1>2. PICK N : N = [R EXCEPT ![p] = Down]
  OBVIOUS
<1>3. tables' = T /\ UNCHANGED chainVars /\ indexers' = N
  BY <1>1, <1>2 DEF Exits
<1>4. Sound(T, R)
  BY <1>1 DEF OverlapInv
<1>5. Sound(T, N)
  BY <1>2, <1>4, DownType, IdleWrites, OneMoves
<1> QED
  BY <1>3, <1>5, SoundNext

\* The smaller of two numbers.
LEMMA MinOfTwo ==
  ASSUME NEW m \in Nat, NEW n \in Nat
  PROVE  Min({m, n}) = IF m <= n THEN m ELSE n
<1> DEFINE S == {m, n}
           min == IF m <= n THEN m ELSE n
<1>1. S \in SUBSET Nat /\ min \in S /\ \A x \in S : min <= x
  OBVIOUS
<1>2. Min(S) = CHOOSE x \in S : \A y \in S : x <= y
  BY DEF Min
<1> HIDE DEF S, min
<1>3. Min(S) = min
  BY <1>1, <1>2, MinIs
<1> QED
  BY <1>3 DEF S, min

\* It fetches the logs of a range that starts where it is.
LEMMA FetchesStep ==
  ASSUME OverlapInv, NEW p \in Indexers, Fetches(p)
  PROVE  OverlapInv'
<1>1. PICK T, R : T = tables /\ R = indexers
  OBVIOUS
<1>2. Sound(T, R) /\ ChainTypeOK
  BY <1>1 DEF OverlapInv
<1>3. /\ R[p].next \in Nat /\ R[p].latest \in Nat
      /\ RangeSize \in Nat \ {0} /\ StartBlock \in Nat
  BY <1>2, ProcessFacts, OverlapAssumption, ChainAssumption
     DEF OverlapAssumption, ChainAssumption
<1>4. PICK from, latest, to, found :
        /\ from = R[p].next /\ latest = R[p].latest
        /\ to = Min({from + RangeSize - 1, latest})
        /\ found = LogsBetween(from, to)
  OBVIOUS
<1>5. PICK r : r = [R[p] EXCEPT !.at = "save", !.end = to, !.raw = found,
                                !.todo = ProjectedAmong(found)]
  OBVIOUS
<1>6. PICK N : N = [R EXCEPT ![p] = r]
  OBVIOUS
<1>7. /\ R[p].at = "range" /\ from <= latest /\ tables' = T /\ UNCHANGED chainVars
      /\ indexers' = N
  BY <1>1, <1>4, <1>5, <1>6 DEF Fetches
<1>8. to \in Nat /\ from <= to /\ to <= latest
  <2>1. from \in Nat /\ latest \in Nat
    BY <1>3, <1>4
  <2>2. PICK last \in Nat : last = from + RangeSize - 1 /\ from <= last
    BY <1>3, <2>1
  <2>3. to = Min({last, latest})
    BY <1>4, <2>2
  <2>4. to = IF last <= latest THEN last ELSE latest
    BY <2>1, <2>3, MinOfTwo
  <2> QED
    BY <1>7, <2>1, <2>2, <2>4
<1>9. found \subseteq Nat /\ ProjectedAmong(found) \subseteq found
  BY <1>2, <1>4, LogType DEF LogsBetween, ProjectedAmong
<1>10. IsProcess(R[p]) /\ Position(R[p])
  BY <1>2, ProcessFacts
<1>11. /\ r.at = "save" /\ r.end = to /\ r.raw = found /\ r.todo = ProjectedAmong(found)
       /\ r.next = from /\ r.latest = latest /\ r.writes = R[p].writes
       /\ IsProcess(r)
  BY <1>4, <1>5, <1>8, <1>9, <1>10 DEF IsProcess
<1>12. r.writes = NoRows /\ latest <= head /\ StartBlock <= from
  BY <1>4, <1>7, <1>10, <1>11 DEF Position, Saves
<1>13. RangeIn(r) = found /\ InsertedBy(r) = {} /\ DoneBy(r) = {}
  BY <1>4, <1>11 DEF RangeIn, InsertedBy, DoneBy
<1>14. /\ NoRows.ledger = {} /\ NoRows.trades = {} /\ NoRows.ckpt = NoCheckpoint
       /\ DOMAIN NoRows.klines = {} /\ DOMAIN NoRows.tokens = {}
  BY DEF NoRows
<1>15. Position(r)
  BY <1>8, <1>11, <1>12, <1>13, <1>14 DEF Position, Saves
<1>16. NewRows(T.ledger, r) /\ Written(T.ledger, r) /\ \A s : Disjoint(r, s)
  BY <1>12, <1>13, <1>14 DEF NewRows, Written, Disjoint, TradesAmong, CandlesAmong
<1>17. \A b \in Int : CoveredTo(T, R, b) => r.next <= b + 1
  BY <1>4, <1>7, <1>11 DEF CoveredTo
<1>18. Sound(T, N)
  BY <1>2, <1>6, <1>11, <1>15, <1>16, <1>17, OneMoves
<1> QED
  BY <1>7, <1>18, SoundNext

-----------------------------------------------------------------------------
(* A log is inserted: the steps that keep the new logs with one process.   *)

\* A log that is later than the start block and not in the ledger is of a later
\* block than the ledger, and than its logs.
LEMMA OutsideIsLater ==
  ASSUME ChainTypeOK, ChainOrdered, NEW T, NEW R, NEW b \in Int, CoveredTo(T, R, b),
         NEW k \in DOMAIN chain, StartBlock <= chain[k].block, k \notin T.ledger
  PROVE  /\ chain[k].block > b
         /\ \A j \in T.ledger : j \in DOMAIN chain /\ j < k
<1>1. chain[k].block \in Nat /\ k \in Nat
  BY LogType
<1>2. T.ledger = LogsBetween(StartBlock, b)
  BY DEF CoveredTo
<1>3. chain[k].block > b
  BY <1>1, <1>2 DEF LogsBetween
<1>4. ASSUME NEW j \in T.ledger
      PROVE  j \in DOMAIN chain /\ j < k
  <2>1. j \in DOMAIN chain /\ chain[j].block <= b
    BY <1>2 DEF LogsBetween
  <2>2. j \in Nat /\ chain[j].block \in Nat
    BY <2>1, LogType
  <2>3. k <= j => chain[k].block <= chain[j].block
    BY <2>1 DEF ChainOrdered
  <2> QED
    BY <1>1, <1>3, <2>1, <2>2, <2>3
<1> QED
  BY <1>3, <1>4

\* A log between the ledger and a later log of a process's range is in the range.
LEMMA RangeHasNoGap ==
  ASSUME ChainTypeOK, ChainOrdered, NEW T, NEW R, NEW b \in Int, CoveredTo(T, R, b),
         NEW p \in Indexers, IsProcess(R[p]), R[p].at # "down",
         NEW j \in DOMAIN chain, chain[j].block > b, NEW k \in RangeIn(R[p]), j <= k
  PROVE  j \in RangeIn(R[p])
<1>1. R[p].next \in Nat /\ R[p].end \in Nat
  BY DEF IsProcess
<1>2. k \in DOMAIN chain /\ chain[k].block <= R[p].end
  BY DEF RangeIn, LogsBetween
<1>3. chain[j].block \in Nat /\ chain[k].block \in Nat
  BY <1>2, LogType
<1>4. chain[j].block <= chain[k].block
  BY <1>2 DEF ChainOrdered
<1>5. R[p].next <= b + 1
  BY DEF CoveredTo
<1> QED
  BY <1>1, <1>2, <1>3, <1>4, <1>5 DEF RangeIn, LogsBetween

\* Logs of a range are not before the start block.
LEMMA RangeStarts ==
  ASSUME ChainTypeOK, NEW r, IsProcess(r), Position(r), Saves(r), NEW k \in RangeIn(r)
  PROVE  k \in DOMAIN chain /\ StartBlock <= chain[k].block
<1>1. k \in DOMAIN chain /\ r.next <= chain[k].block /\ StartBlock <= r.next
  BY DEF RangeIn, LogsBetween, Position, Saves
<1>2. chain[k].block \in Nat /\ r.next \in Nat /\ StartBlock \in Nat
  BY <1>1, LogType, ChainAssumption DEF ChainAssumption, IsProcess
<1> QED
  BY <1>1, <1>2

\* A process inserts a new log: no other has new logs.
LEMMA NewLogIsAlone ==
  ASSUME ChainTypeOK, ChainOrdered, NEW T, NEW R, Sound(T, R),
         NEW p \in Indexers, R[p].at = "save",
         NEW k \in R[p].raw, \A j \in R[p].raw : k <= j, k \notin T.ledger,
         NEW q \in Indexers \ {p}, k \notin R[q].writes.ledger
  PROVE  R[q].writes.ledger = {}
<1> SUFFICES ASSUME NEW m \in R[q].writes.ledger PROVE FALSE
  OBVIOUS
<1>1. PICK b \in Int : CoveredTo(T, R, b)
  BY DEF Sound
<1>2. /\ IsProcess(R[p]) /\ Position(R[p]) /\ NewRows(T.ledger, R[p]) /\ Saves(R[p])
      /\ IsProcess(R[q]) /\ Position(R[q]) /\ NewRows(T.ledger, R[q])
      /\ R[p].writes.ledger = {}
  BY DEF Sound, Disjoint, Saves
<1>3. Saves(R[q])
  BY <1>2 DEF Position, NoRows
<1>4. m \in InsertedBy(R[q]) /\ m \in RangeIn(R[q]) /\ m \notin T.ledger
  BY <1>2, <1>3 DEF NewRows, InsertedBy
<1>5. k \in RangeIn(R[p])
  BY <1>2 DEF Position
<1>6. /\ k \in DOMAIN chain /\ StartBlock <= chain[k].block
      /\ m \in DOMAIN chain /\ StartBlock <= chain[m].block
  BY <1>2, <1>3, <1>4, <1>5, RangeStarts
<1>7. k \in Nat /\ m \in Nat
  BY <1>6, LogType
<1>8. chain[k].block > b /\ chain[m].block > b
  BY <1>1, <1>4, <1>6, OutsideIsLater
<1>9. R[p].at # "down" /\ R[q].at # "down"
  BY <1>2, <1>3 DEF Saves
<1>10. CASE k <= m
  <2>1. k \in RangeIn(R[q])
    BY <1>1, <1>2, <1>4, <1>6, <1>8, <1>9, <1>10, RangeHasNoGap
  <2>2. k \notin R[q].raw
    BY <1>2, <1>3, <1>4, <1>7, <1>10 DEF Position
  <2> QED
    BY <1>2, <1>3, <2>1, <2>2 DEF NewRows, InsertedBy
<1>11. CASE m < k
  <2>1. m <= k
    BY <1>7, <1>11
  <2>2. m \in RangeIn(R[p])
    BY <1>1, <1>2, <1>5, <1>6, <1>8, <1>9, <2>1, RangeHasNoGap
  <2>3. m \notin R[p].raw
    BY <1>7, <1>11
  <2> QED
    BY <1>2, <1>4, <2>2, <2>3 DEF NewRows, InsertedBy
<1> QED
  BY <1>7, <1>10, <1>11

\* A log that is new is inserted by one process only.
LEMMA InsertsEventStep ==
  ASSUME OverlapInv, NEW p \in Indexers, InsertsEvent(p)
  PROVE  OverlapInv'
<1>1. PICK T, R : T = tables /\ R = indexers
  OBVIOUS
<1>2. PICK k \in R[p].raw :
        /\ \A j \in R[p].raw : k <= j
        /\ \A q \in Indexers \ {p} : k \notin R[q].writes.ledger
        /\ indexers' = [R EXCEPT
              ![p].raw = @ \ {k},
              ![p].writes.ledger = @ \union ({k} \ T.ledger)]
        /\ R[p].at = "save" /\ tables' = T /\ UNCHANGED chainVars
  BY <1>1 DEF InsertsEvent, Others
<1>3. Sound(T, R) /\ ChainTypeOK /\ ChainOrdered
  BY <1>1 DEF OverlapInv
<1>4. /\ IsProcess(R[p]) /\ Position(R[p]) /\ NewRows(T.ledger, R[p]) /\ Written(T.ledger, R[p])
      /\ \A q \in Indexers \ {p} : Disjoint(R[p], R[q])
  BY <1>3, ProcessFacts
<1>5. PICK old, writes : old = R[p] /\ writes = [old.writes EXCEPT
                                        !.ledger = old.writes.ledger \union ({k} \ T.ledger)]
  OBVIOUS
<1>6. PICK r : r = [old EXCEPT !.raw = old.raw \ {k}, !.writes = writes]
  OBVIOUS
<1>7. PICK N : N = [R EXCEPT ![p] = r]
  OBVIOUS
<1>8. indexers' = N
  <2>1. R = [q \in Indexers |-> R[q]] /\ IsProcess(R[p]) /\ AreRows(R[p].writes)
    BY <1>3, <1>4 DEF Sound, IsProcess
  <2>2. r = [R[p] EXCEPT !.raw = @ \ {k}, !.writes.ledger = @ \union ({k} \ T.ledger)]
    BY <1>5, <1>6
  <2> QED
    BY <1>2, <1>7, <2>1, <2>2 DEF IsProcess
<1>9. /\ AreRows(old.writes) /\ old.raw \subseteq Nat /\ k \in old.raw /\ k \in Nat
      /\ Saves(old) /\ old.raw \subseteq RangeIn(old)
  BY <1>2, <1>4, <1>5 DEF IsProcess, Position, Saves
<1>10. /\ writes.ledger = old.writes.ledger \union ({k} \ T.ledger)
       /\ writes.trades = old.writes.trades /\ writes.tokens = old.writes.tokens
       /\ writes.klines = old.writes.klines /\ writes.ckpt = old.writes.ckpt
       /\ AreRows(writes)
  BY <1>5, <1>9 DEF AreRows
<1>11. /\ r.at = "save" /\ r.next = old.next /\ r.end = old.end /\ r.latest = old.latest
       /\ r.raw = old.raw \ {k} /\ r.todo = old.todo /\ r.writes = writes
       /\ IsProcess(r)
  BY <1>2, <1>4, <1>5, <1>6, <1>9, <1>10 DEF IsProcess
<1>12. /\ RangeIn(r) = RangeIn(old) /\ DoneBy(r) = DoneBy(old)
       /\ VisibleTo(T.ledger, r) = VisibleTo(T.ledger, old)
       /\ InsertedBy(r) = InsertedBy(old) \union {k}
  BY <1>9, <1>11 DEF RangeIn, InsertedBy, DoneBy, VisibleTo
<1>13. Position(r)
  <2>1. \A j \in InsertedBy(r), i \in r.raw : j < i
    <3>1. \A i \in r.raw : i \in Nat /\ k <= i /\ i # k
      BY <1>2, <1>5, <1>9, <1>11
    <3>2. \A j \in InsertedBy(old), i \in old.raw : j < i
      BY <1>4, <1>5, <1>9 DEF Position
    <3> QED
      BY <1>9, <1>11, <1>12, <3>1, <3>2
  <2>2. r.raw # {} => DoneBy(r) = {}
    BY <1>4, <1>5, <1>9, <1>11, <1>12 DEF Position
  <2>3. Saves(r)
    BY <1>11 DEF Saves
  <2> QED
    BY <1>2, <1>4, <1>5, <1>9, <1>10, <1>11, <1>12, <2>1, <2>2, <2>3 DEF Position
<1>14. NewRows(T.ledger, r)
  <2>1. old.writes.ledger = InsertedBy(old) \ T.ledger
        /\ old.writes.trades = TradesAmong(DoneBy(old) \ T.ledger)
    BY <1>4, <1>5, <1>9 DEF NewRows
  <2> QED
    BY <1>10, <1>11, <1>12, <2>1 DEF NewRows
<1>15. Written(T.ledger, r)
  BY <1>4, <1>5, <1>9, <1>10, <1>11, <1>12 DEF Written
<1>16. ASSUME NEW q \in Indexers \ {p}
       PROVE  Disjoint(r, R[q])
  <2>1. Disjoint(old, R[q])
    BY <1>4, <1>5
  <2>2. CASE k \in T.ledger
    <3>1. writes.ledger = old.writes.ledger
      BY <1>10, <2>2
    <3> QED
      BY <1>10, <1>11, <2>1, <3>1 DEF Disjoint
  <2>3. CASE k \notin T.ledger
    <3>1. R[q].writes.ledger = {}
      BY <1>2, <1>3, <2>3, NewLogIsAlone
    <3> QED
      BY <1>10, <1>11, <2>1, <3>1 DEF Disjoint
  <2> QED
    BY <2>2, <2>3
<1>17. \A b \in Int : CoveredTo(T, R, b) => r.next <= b + 1
  BY <1>2, <1>5, <1>11 DEF CoveredTo
<1>18. Sound(T, N)
  BY <1>3, <1>7, <1>11, <1>13, <1>14, <1>15, <1>16, <1>17, OneMoves
<1> QED
  BY <1>2, <1>8, <1>18, SoundNext

\* The checkpoint is written when the range is inserted and projected.
LEMMA SavesCheckpointStep ==
  ASSUME OverlapInv, NEW p \in Indexers, SavesCheckpoint(p)
  PROVE  OverlapInv'
<1>1. PICK T, R, old : T = tables /\ R = indexers /\ old = R[p]
  OBVIOUS
<1>2. PICK writes : writes = [old.writes EXCEPT !.ckpt = old.end]
  OBVIOUS
<1>3. PICK r : r = [old EXCEPT !.at = "commit", !.writes = writes]
  OBVIOUS
<1>4. PICK N : N = [R EXCEPT ![p] = r]
  OBVIOUS
<1>5. /\ old.at = "save" /\ old.raw = {} /\ old.todo = {}
      /\ tables' = T /\ UNCHANGED chainVars /\ indexers' = N
  BY <1>1, <1>2, <1>3, <1>4 DEF SavesCheckpoint
<1>6. Sound(T, R)
  BY <1>1 DEF OverlapInv
<1>7. /\ IsProcess(old) /\ Position(old) /\ NewRows(T.ledger, old) /\ Written(T.ledger, old)
      /\ \A q \in Indexers \ {p} : Disjoint(old, R[q])
  BY <1>1, <1>6, ProcessFacts
<1>8. AreRows(old.writes) /\ Saves(old) /\ old.end \in Nat
  BY <1>5, <1>7 DEF IsProcess, Saves
<1>9. /\ writes.ledger = old.writes.ledger /\ writes.ckpt = old.end
      /\ writes.trades = old.writes.trades /\ writes.tokens = old.writes.tokens
      /\ writes.klines = old.writes.klines /\ AreRows(writes)
  BY <1>2, <1>8 DEF AreRows
<1>10. /\ r.at = "commit" /\ r.next = old.next /\ r.end = old.end /\ r.latest = old.latest
       /\ r.raw = old.raw /\ r.todo = old.todo /\ r.writes = writes
       /\ IsProcess(r)
  BY <1>3, <1>7, <1>9 DEF IsProcess
<1>11. /\ RangeIn(r) = RangeIn(old) /\ DoneBy(r) = DoneBy(old) /\ InsertedBy(r) = InsertedBy(old)
       /\ VisibleTo(T.ledger, r) = VisibleTo(T.ledger, old)
  BY <1>10 DEF RangeIn, InsertedBy, DoneBy, VisibleTo
<1>12. Position(r)
  BY <1>5, <1>7, <1>8, <1>9, <1>10, <1>11 DEF Position, Saves
<1>13. NewRows(T.ledger, r) /\ Written(T.ledger, r)
  BY <1>7, <1>8, <1>9, <1>10, <1>11 DEF NewRows, Written
<1>14. \A q \in Indexers \ {p} : Disjoint(r, R[q])
  BY <1>7, <1>9, <1>10 DEF Disjoint
<1>15. \A b \in Int : CoveredTo(T, R, b) => r.next <= b + 1
  BY <1>1, <1>5, <1>10 DEF CoveredTo
<1>16. Sound(T, N)
  BY <1>4, <1>6, <1>10, <1>12, <1>13, <1>14, <1>15, OneMoves
<1> QED
  BY <1>5, <1>16, SoundNext

-----------------------------------------------------------------------------
(* What a transaction sees.                                                *)

\* Rows over rows.
LEMMA OverRows ==
  ASSUME NEW new, NEW old
  PROVE  /\ DOMAIN Over(new, old) = DOMAIN new \union DOMAIN old
         /\ Over(new, old) = [c \in DOMAIN Over(new, old) |-> Over(new, old)[c]]
         /\ \A c \in DOMAIN new : Over(new, old)[c] = new[c]
         /\ \A c \in DOMAIN old \ DOMAIN new : Over(new, old)[c] = old[c]
BY DEF Over

\* The rows of a table with those a transaction wrote.
LEMMA MergeFields ==
  ASSUME NEW T, NEW W
  PROVE  /\ Merge(T, W).ledger = T.ledger \union W.ledger
         /\ Merge(T, W).trades = T.trades \union W.trades
         /\ Merge(T, W).tokens = Over(W.tokens, T.tokens)
         /\ Merge(T, W).klines = Over(W.klines, T.klines)
         /\ Merge(T, W).ckpt = IF W.ckpt = NoCheckpoint THEN T.ckpt ELSE W.ckpt
BY DEF Merge

\* Rows over rows of a table are rows of that table.
LEMMA OverTypes ==
  /\ \A new, old : IsTokenTable(new) /\ IsTokenTable(old) => IsTokenTable(Over(new, old))
  /\ \A new, old : IsKlineTable(new) /\ IsKlineTable(old) => IsKlineTable(Over(new, old))
<1>1. ASSUME NEW new, NEW old, IsTokenTable(new), IsTokenTable(old)
      PROVE  IsTokenTable(Over(new, old))
  BY <1>1 DEF IsTokenTable, Over
<1>2. ASSUME NEW new, NEW old, IsKlineTable(new), IsKlineTable(old)
      PROVE  IsKlineTable(Over(new, old))
  BY <1>2 DEF IsKlineTable, Over
<1> QED
  BY <1>1, <1>2

\* So are those of all the tables.
LEMMA MergeType ==
  ASSUME NEW T, AreRows(T), NEW W, AreRows(W)
  PROVE  AreRows(Merge(T, W))
<1>1. IsTokenTable(Over(W.tokens, T.tokens)) /\ IsKlineTable(Over(W.klines, T.klines))
  BY OverTypes DEF AreRows
<1>2. /\ T.ledger \subseteq Nat /\ T.trades \subseteq Nat /\ W.ledger \subseteq Nat
      /\ W.trades \subseteq Nat /\ T.ckpt \in Nat \union {NoCheckpoint}
      /\ W.ckpt \in Nat \union {NoCheckpoint}
  BY DEF AreRows
<1>3. Merge(T, W) = [ledger |-> Merge(T, W).ledger, trades |-> Merge(T, W).trades,
                     tokens |-> Merge(T, W).tokens, klines |-> Merge(T, W).klines,
                     ckpt |-> Merge(T, W).ckpt]
  BY DEF Merge
<1> QED
  BY <1>1, <1>2, <1>3, MergeFields DEF AreRows

\* More logs: their trades are those of each part, and a candle that no log of
\* one part falls into has the trades of the other.
LEMMA PartsOfLogs ==
  ASSUME NEW L, NEW D
  PROVE  /\ TradesAmong(L \union D) = TradesAmong(L) \union TradesAmong(D \ L)
         /\ CandlesAmong(L \union D) = CandlesAmong(L) \union CandlesAmong(D \ L)
         /\ \A c \in CandlesAmong(L) \ CandlesAmong(D \ L) :
               InCandle(L \union D, c) = InCandle(L, c)
         /\ \A kind, t : Happened(L \union D, kind, t)
                           <=> Happened(L, kind, t) \/ Happened(D, kind, t)
<1>1. TradesAmong(L \union D) = TradesAmong(L) \union TradesAmong(D \ L)
  BY DEF TradesAmong
<1>2. CandlesAmong(L \union D) = CandlesAmong(L) \union CandlesAmong(D \ L)
  BY <1>1 DEF CandlesAmong
<1>3. ASSUME NEW c \in CandlesAmong(L) \ CandlesAmong(D \ L)
      PROVE  InCandle(L \union D, c) = InCandle(L, c)
  <2>1. c[2] \in Intervals
    BY DEF CandlesAmong, CandleOf
  <2>2. \A j \in TradesAmong(D \ L) : CandleOf(j, c[2]) # c
    BY <1>3, <2>1 DEF CandlesAmong
  <2> QED
    BY <1>1, <2>2 DEF InCandle
<1>4. \A kind, t : Happened(L \union D, kind, t)
                     <=> Happened(L, kind, t) \/ Happened(D, kind, t)
  BY DEF Happened
<1> QED
  BY <1>1, <1>2, <1>3, <1>4

\* A transaction sees the rows of the ledger and of the logs it projected.
LEMMA SeesItsLogs ==
  ASSUME ChainTypeOK, NEW T, Shows(T, T.ledger),
         NEW r, Saves(r), NewRows(T.ledger, r), Written(T.ledger, r),
         DoneBy(r) \subseteq DOMAIN chain
  PROVE  Shows(Merge(T, r.writes), VisibleTo(T.ledger, r))
<1> DEFINE L == T.ledger
           D == DoneBy(r)
           V == VisibleTo(L, r)
           W == r.writes
           M == Merge(T, W)
<1>1. V = L \union D
  BY DEF VisibleTo
<1>2. /\ W.trades = TradesAmong(D \ L)
      /\ DOMAIN W.klines = CandlesAmong(D \ L)
      /\ \A c \in DOMAIN W.klines : CandleRowOf(W.klines[c], InCandle(V, c))
      /\ DOMAIN W.tokens = {t \in Tokens : /\ Happened(V, "TokenCreated", t)
                                          /\ \E k \in D : chain[k].token = t}
      /\ \A t \in DOMAIN W.tokens : StatusOf(W.tokens[t], V, t)
  BY DEF NewRows, Written
<1>3. /\ T.trades = TradesAmong(L)
      /\ DOMAIN T.klines = CandlesAmong(L)
      /\ \A c \in DOMAIN T.klines : CandleRowOf(T.klines[c], InCandle(L, c))
      /\ DOMAIN T.tokens = {t \in Tokens : Happened(L, "TokenCreated", t)}
      /\ \A t \in DOMAIN T.tokens : StatusOf(T.tokens[t], L, t)
  BY DEF Shows
<1>4. /\ M.trades = T.trades \union W.trades
      /\ M.tokens = Over(W.tokens, T.tokens) /\ M.klines = Over(W.klines, T.klines)
  BY MergeFields
<1>5. /\ DOMAIN M.klines = DOMAIN W.klines \union DOMAIN T.klines
      /\ \A c \in DOMAIN W.klines : M.klines[c] = W.klines[c]
      /\ \A c \in DOMAIN T.klines \ DOMAIN W.klines : M.klines[c] = T.klines[c]
      /\ DOMAIN M.tokens = DOMAIN W.tokens \union DOMAIN T.tokens
      /\ \A t \in DOMAIN W.tokens : M.tokens[t] = W.tokens[t]
      /\ \A t \in DOMAIN T.tokens \ DOMAIN W.tokens : M.tokens[t] = T.tokens[t]
  <2> HIDE DEF L, D, V, W, M
  <2>1. /\ DOMAIN M.klines = DOMAIN W.klines \union DOMAIN T.klines
        /\ \A c \in DOMAIN W.klines : M.klines[c] = W.klines[c]
        /\ \A c \in DOMAIN T.klines \ DOMAIN W.klines : M.klines[c] = T.klines[c]
    <3>1. PICK new, old, rows : new = W.klines /\ old = T.klines /\ rows = M.klines
      OBVIOUS
    <3>2. rows = Over(new, old)
      BY <1>4, <3>1
    <3>3. /\ DOMAIN Over(new, old) = DOMAIN new \union DOMAIN old
          /\ \A c \in DOMAIN new : Over(new, old)[c] = new[c]
          /\ \A c \in DOMAIN old \ DOMAIN new : Over(new, old)[c] = old[c]
      BY DEF Over
    <3> QED
      BY <3>1, <3>2, <3>3
  <2>2. /\ DOMAIN M.tokens = DOMAIN W.tokens \union DOMAIN T.tokens
        /\ \A t \in DOMAIN W.tokens : M.tokens[t] = W.tokens[t]
        /\ \A t \in DOMAIN T.tokens \ DOMAIN W.tokens : M.tokens[t] = T.tokens[t]
    <3>1. PICK new, old, rows : new = W.tokens /\ old = T.tokens /\ rows = M.tokens
      OBVIOUS
    <3>2. rows = Over(new, old)
      BY <1>4, <3>1
    <3>3. /\ DOMAIN Over(new, old) = DOMAIN new \union DOMAIN old
          /\ \A t \in DOMAIN new : Over(new, old)[t] = new[t]
          /\ \A t \in DOMAIN old \ DOMAIN new : Over(new, old)[t] = old[t]
      BY DEF Over
    <3> QED
      BY <3>1, <3>2, <3>3
  <2> QED
    BY <2>1, <2>2
<1> HIDE DEF L, D, V, W, M
<1>6. M.trades = TradesAmong(V) /\ DOMAIN M.klines = CandlesAmong(V)
  <2>1. /\ TradesAmong(V) = TradesAmong(L) \union TradesAmong(D \ L)
        /\ CandlesAmong(V) = CandlesAmong(L) \union CandlesAmong(D \ L)
    BY <1>1, PartsOfLogs
  <2>2. M.trades = TradesAmong(V)
    BY <1>2, <1>3, <1>4, <2>1
  <2>3. DOMAIN M.klines = CandlesAmong(V)
    BY <1>2, <1>3, <1>5, <2>1
  <2> QED
    BY <2>2, <2>3
<1>7. ASSUME NEW c \in DOMAIN M.klines
      PROVE  CandleRowOf(M.klines[c], InCandle(V, c))
  <2>1. CASE c \in DOMAIN W.klines
    BY <1>2, <1>5, <2>1
  <2>2. CASE c \notin DOMAIN W.klines
    <3>1. c \in CandlesAmong(L) \ CandlesAmong(D \ L)
      BY <1>2, <1>3, <1>5, <1>7, <2>2
    <3>2. InCandle(V, c) = InCandle(L, c)
      BY <1>1, <3>1, PartsOfLogs
    <3> QED
      BY <1>2, <1>3, <1>5, <3>1, <3>2
  <2> QED
    BY <2>1, <2>2
<1>8. \A kind, t : Happened(V, kind, t) <=> Happened(L, kind, t) \/ Happened(D, kind, t)
  BY <1>1, PartsOfLogs
<1>9. \A kind, t : Happened(D, kind, t) => \E k \in D : chain[k].token = t
  BY DEF Happened
<1>10. DOMAIN M.tokens = {t \in Tokens : Happened(V, "TokenCreated", t)}
  BY <1>2, <1>3, <1>5, <1>8, <1>9
<1>11. ASSUME NEW t \in DOMAIN M.tokens
       PROVE  StatusOf(M.tokens[t], V, t)
  <2>1. CASE t \in DOMAIN W.tokens
    BY <1>2, <1>5, <2>1
  <2>2. CASE t \notin DOMAIN W.tokens
    <3>1. t \in DOMAIN T.tokens /\ M.tokens[t] = T.tokens[t]
      BY <1>5, <1>11, <2>2
    <3>2. ~ \E k \in D : chain[k].token = t
      BY <1>2, <1>3, <1>8, <2>2, <3>1
    <3>3. Happened(V, "TokenGraduated", t) <=> Happened(L, "TokenGraduated", t)
      BY <1>8, <1>9, <3>2
    <3> QED
      BY <1>3, <3>1, <3>3 DEF StatusOf
  <2> QED
    BY <2>1, <2>2
<1>12. Shows(M, V)
  BY <1>6, <1>7, <1>10, <1>11 DEF Shows
<1> QED
  BY <1>12 DEF M, V, L, W

-----------------------------------------------------------------------------
(* A log is projected.                                                     *)

\* applyProjection writes the row of the token, or finds none to update.
WritesRow(M, k) == chain[k].kind = "TokenCreated" \/ chain[k].token \in DOMAIN M.tokens

\* The row it writes.
ProjectedRow(M, k) ==
    LET t == chain[k].token
    IN  IF chain[k].kind = "TokenCreated"
        THEN IF t \in DOMAIN M.tokens THEN M.tokens[t] ELSE [status |-> Trading, totals |-> 0]
        ELSE IF IsTrade(k) THEN [status |-> M.tokens[t].status, totals |-> k]
        ELSE [status |-> Graduated, totals |-> M.tokens[t].totals]

TokensWith(M, W, k) ==
    IF WritesRow(M, k) THEN Over([u \in {chain[k].token} |-> ProjectedRow(M, k)], W.tokens)
    ELSE W.tokens

KlinesWith(M, W, k) ==
    IF IsTrade(k) /\ k \notin M.trades
    THEN Over([c \in CandleKeys(k) |-> UpsertKlines(M.klines, k)[c]], W.klines)
    ELSE W.klines

\* What a transaction that wrote W has written when it has also projected k.
WritesWith(T, W, k) ==
    [ledger |-> W.ledger,
     trades |-> IF IsTrade(k) THEN W.trades \union ({k} \ T.trades) ELSE W.trades,
     tokens |-> TokensWith(Merge(T, W), W, k),
     klines |-> KlinesWith(Merge(T, W), W, k),
     ckpt   |-> W.ckpt]

\* That is what the three kinds of projections write.
LEMMA ProjectionWrites ==
  ASSUME NEW p \in Indexers, AreRows(indexers[p].writes), NEW k, IsProjected(k)
  PROVE  WritesWith(tables, indexers[p].writes, k) =
            CASE chain[k].kind = "TokenCreated"   -> WriteCreated(p, k)
              [] chain[k].kind \in TradeKinds     -> WriteTrade(p, k)
              [] chain[k].kind = "TokenGraduated" -> WriteGraduated(p, k)
<1>1. PICK T, W, M, t : /\ T = tables /\ W = indexers[p].writes /\ M = Merge(T, W)
                        /\ t = chain[k].token
  OBVIOUS
<1>2. Seen(p) = M
  BY <1>1 DEF Seen
<1>3. W = [ledger |-> W.ledger, trades |-> W.trades, tokens |-> W.tokens,
           klines |-> W.klines, ckpt |-> W.ckpt]
  BY <1>1 DEF AreRows
<1>4. CASE chain[k].kind = "TokenCreated"
  <2>1. ~IsTrade(k) /\ chain[k].kind # "TokenGraduated"
    BY <1>4 DEF IsTrade, TradeKinds
  <2>2. WriteCreated(p, k) =
          [W EXCEPT !.tokens = Over([u \in {t} |-> ProjectedRow(M, k)], W.tokens)]
    BY <1>1, <1>2, <1>4 DEF WriteCreated, ProjectedRow
  <2>3. WritesWith(T, W, k) = WriteCreated(p, k)
    BY <1>1, <1>3, <1>4, <2>1, <2>2 DEF WritesWith, TokensWith, KlinesWith, WritesRow
  <2> QED
    BY <1>1, <1>4, <2>1, <2>3 DEF IsTrade
<1>5. CASE IsTrade(k)
  <2>1. chain[k].kind # "TokenCreated" /\ chain[k].kind # "TokenGraduated"
    BY <1>5 DEF IsTrade, TradeKinds
  <2>2. UpdateSeen(p, t, [status |-> M.tokens[t].status, totals |-> k]) = TokensWith(M, W, k)
    BY <1>1, <1>2, <1>5, <2>1 DEF UpdateSeen, TokensWith, WritesRow, ProjectedRow
  <2>3. WriteTrade(p, k) = [W EXCEPT !.trades = W.trades \union ({k} \ T.trades),
                                     !.tokens = TokensWith(M, W, k),
                                     !.klines = KlinesWith(M, W, k)]
    BY <1>1, <1>2, <1>5, <2>2 DEF WriteTrade, KlinesWith
  <2>4. WritesWith(T, W, k) = WriteTrade(p, k)
    BY <1>1, <1>3, <1>5, <2>3 DEF WritesWith
  <2> QED
    BY <1>1, <1>5, <2>1, <2>4 DEF IsTrade
<1>6. CASE chain[k].kind = "TokenGraduated"
  <2>1. ~IsTrade(k) /\ chain[k].kind # "TokenCreated"
    BY <1>6 DEF IsTrade, TradeKinds
  <2>2. UpdateSeen(p, t, [status |-> Graduated, totals |-> M.tokens[t].totals])
          = TokensWith(M, W, k)
    BY <1>1, <1>2, <1>6, <2>1 DEF UpdateSeen, TokensWith, WritesRow, ProjectedRow
  <2>3. WriteGraduated(p, k) = [W EXCEPT !.tokens = TokensWith(M, W, k)]
    BY <1>1, <1>2, <2>2 DEF WriteGraduated
  <2>4. WritesWith(T, W, k) = WriteGraduated(p, k)
    BY <1>1, <1>3, <2>1, <2>3 DEF WritesWith, KlinesWith
  <2> QED
    BY <1>1, <1>6, <2>1, <2>4 DEF IsTrade
<1> QED
  BY <1>4, <1>5, <1>6 DEF IsProjected, IsTrade

\* They are rows.
LEMMA WritesWithType ==
  ASSUME ChainTypeOK, NEW T, AreRows(T), NEW W, AreRows(W), NEW k \in DOMAIN chain
  PROVE  AreRows(WritesWith(T, W, k))
<1>1. PICK M, t : M = Merge(T, W) /\ t = chain[k].token
  OBVIOUS
<1>2. AreRows(M) /\ t \in Tokens /\ k \in Nat
  BY <1>1, MergeType, LogType
<1>3. IsTokenTable(M.tokens) /\ IsKlineTable(M.klines) /\ IsTokenTable(W.tokens)
      /\ IsKlineTable(W.klines)
  BY <1>2 DEF AreRows
<1>4. IsTokenTable(TokensWith(M, W, k))
  <2>1. CASE WritesRow(M, k)
    <3>1. \A u \in DOMAIN M.tokens : /\ M.tokens[u] \in TokenRow
                                     /\ M.tokens[u].status \in {Trading, Graduated}
                                     /\ M.tokens[u].totals \in Nat
      BY <1>3 DEF IsTokenTable, TokenRow
    <3>2. ProjectedRow(M, k) \in TokenRow
      BY <1>1, <1>2, <2>1, <3>1 DEF ProjectedRow, WritesRow, TokenRow
    <3>3. PICK row \in TokenRow : row = ProjectedRow(M, k)
      BY <3>2
    <3>4. PICK new : new = [u \in {t} |-> row]
      OBVIOUS
    <3>5. IsTokenTable(new)
      BY <1>2, <3>4 DEF IsTokenTable
    <3>6. TokensWith(M, W, k) = Over(new, W.tokens)
      BY <1>1, <2>1, <3>3, <3>4 DEF TokensWith
    <3> QED
      BY <1>3, <3>5, <3>6, OverTypes
  <2>2. CASE ~WritesRow(M, k)
    BY <1>3, <2>2 DEF TokensWith
  <2> QED
    BY <2>1, <2>2
<1>5. IsKlineTable(KlinesWith(M, W, k))
  <2>1. CASE IsTrade(k) /\ k \notin M.trades
    <3>1. PICK U, keys, new : /\ U = UpsertKlines(M.klines, k) /\ keys = CandleKeys(k)
                              /\ new = [c \in keys |-> U[c]]
      OBVIOUS
    <3>2. IsKlineTable(U)
      BY <1>3, <3>1, UpsertKlinesType
    <3>3. keys \subseteq DOMAIN U
      BY <3>1 DEF UpsertKlines, CandleKeys
    <3>4. IsKlineTable(new)
      BY <3>1, <3>2, <3>3 DEF IsKlineTable
    <3>5. KlinesWith(M, W, k) = Over(new, W.klines)
      BY <2>1, <3>1 DEF KlinesWith
    <3> QED
      BY <1>3, <3>4, <3>5, OverTypes
  <2>2. CASE ~(IsTrade(k) /\ k \notin M.trades)
    BY <1>3, <2>2 DEF KlinesWith
  <2> QED
    BY <2>1, <2>2
<1> QED
  BY <1>1, <1>2, <1>4, <1>5 DEF AreRows, WritesWith

\* The rows of tokens are those of the logs with k.
LEMMA TokensProjected ==
  ASSUME ChainTypeOK, ChainOrdered, NEW M, NEW V \in SUBSET DOMAIN chain, Shows(M, V),
         NEW W, NEW D \in SUBSET V,
         DOMAIN W.tokens = {t \in Tokens : /\ Happened(V, "TokenCreated", t)
                                          /\ \E j \in D : chain[j].token = t},
         \A t \in DOMAIN W.tokens : StatusOf(W.tokens[t], V, t),
         NEW k \in DOMAIN chain, IsProjected(k), k \in V \/ (\A j \in V : j < k)
  PROVE  /\ DOMAIN TokensWith(M, W, k) =
               {t \in Tokens : /\ Happened(V \union {k}, "TokenCreated", t)
                               /\ \E j \in D \union {k} : chain[j].token = t}
         /\ \A t \in DOMAIN TokensWith(M, W, k) :
               StatusOf(TokensWith(M, W, k)[t], V \union {k}, t)
<1>1. PICK t \in Tokens : t = chain[k].token
  BY LogType
<1>2. PICK N : N = TokensWith(M, W, k)
  OBVIOUS
<1>3. \A kind, u : Happened(V \union {k}, kind, u)
                     <=> Happened(V, kind, u) \/ (chain[k].kind = kind /\ t = u)
  BY <1>1, HappenedNow
<1>4. /\ DOMAIN M.tokens = {u \in Tokens : Happened(V, "TokenCreated", u)}
      /\ \A u \in DOMAIN M.tokens : StatusOf(M.tokens[u], V, u)
  BY DEF Shows
<1>5. WritesRow(M, k) <=> Happened(V \union {k}, "TokenCreated", t)
  BY <1>1, <1>3, <1>4 DEF WritesRow
<1>6. \A u : (\E j \in D \union {k} : chain[j].token = u)
               <=> (\E j \in D : chain[j].token = u) \/ u = t
  BY <1>1
<1>7. CASE WritesRow(M, k)
  <2>1. PICK row, new : row = ProjectedRow(M, k) /\ new = [u \in {t} |-> row]
    OBVIOUS
  <2>2. DOMAIN new = {t} /\ new[t] = row
    BY <2>1
  <2>3. N = Over(new, W.tokens)
    BY <1>1, <1>2, <1>7, <2>1 DEF TokensWith
  <2>4. /\ DOMAIN N = {t} \union DOMAIN W.tokens /\ N[t] = row
        /\ \A u \in DOMAIN W.tokens \ {t} : N[u] = W.tokens[u]
    BY <2>2, <2>3 DEF Over
  <2>5. StatusOf(row, V \union {k}, t)
    <3>1. CASE chain[k].kind = "TokenCreated" /\ t \in DOMAIN M.tokens
      <4>1. row = M.tokens[t] /\ chain[k].kind # "TokenGraduated"
        BY <1>1, <2>1, <3>1 DEF ProjectedRow
      <4> QED
        BY <1>3, <1>4, <3>1, <4>1 DEF StatusOf
    <3>2. CASE chain[k].kind = "TokenCreated" /\ t \notin DOMAIN M.tokens
      <4>1. row = [status |-> Trading, totals |-> 0] /\ chain[k].kind # "TokenGraduated"
        BY <1>1, <2>1, <3>2 DEF ProjectedRow
      <4>2. ~Happened(V, "TokenCreated", t)
        BY <1>4, <3>2
      <4>3. k \notin V
        BY <1>1, <3>2, <4>2 DEF Happened
      <4>4. ~Happened(V, "TokenGraduated", t)
        BY <1>1, <3>2, <4>3, CreationIsFirst
      <4>5. row.status = Trading /\ Trading # Graduated
        BY <4>1 DEF Trading, Graduated
      <4> QED
        BY <1>3, <4>1, <4>4, <4>5 DEF StatusOf
    <3>3. CASE IsTrade(k)
      <4>1. chain[k].kind # "TokenCreated" /\ chain[k].kind # "TokenGraduated"
        BY <3>3 DEF IsTrade, TradeKinds
      <4>2. row.status = M.tokens[t].status /\ t \in DOMAIN M.tokens
        BY <1>1, <1>7, <2>1, <3>3, <4>1 DEF ProjectedRow, WritesRow
      <4> QED
        BY <1>3, <1>4, <4>1, <4>2 DEF StatusOf
    <3>4. CASE chain[k].kind = "TokenGraduated"
      <4>1. chain[k].kind # "TokenCreated" /\ ~IsTrade(k)
        BY <3>4 DEF IsTrade, TradeKinds
      <4>2. row.status = Graduated
        BY <1>1, <2>1, <4>1 DEF ProjectedRow
      <4> QED
        BY <1>3, <3>4, <4>2 DEF StatusOf
    <3> QED
      BY <3>1, <3>2, <3>3, <3>4 DEF IsProjected, IsTrade
  <2>6. ASSUME NEW u \in DOMAIN N
        PROVE  StatusOf(N[u], V \union {k}, u)
    <3>1. CASE u = t
      BY <2>4, <2>5, <3>1
    <3>2. CASE u # t
      <4>1. u \in DOMAIN W.tokens /\ N[u] = W.tokens[u]
        BY <2>4, <3>2
      <4> QED
        BY <1>3, <3>2, <4>1 DEF StatusOf
    <3> QED
      BY <3>1, <3>2
  <2>7. DOMAIN N = {u \in Tokens : /\ Happened(V \union {k}, "TokenCreated", u)
                                  /\ \E j \in D \union {k} : chain[j].token = u}
    <3>1. ASSUME NEW u \in Tokens
          PROVE  u \in DOMAIN N <=> /\ Happened(V \union {k}, "TokenCreated", u)
                                    /\ \E j \in D \union {k} : chain[j].token = u
      <4>1. CASE u = t
        BY <1>5, <1>6, <1>7, <2>4, <4>1
      <4>2. CASE u # t
        BY <1>3, <1>6, <2>4, <4>2
      <4> QED
        BY <4>1, <4>2
    <3>2. DOMAIN N \subseteq Tokens
      BY <2>4
    <3> QED
      BY <3>1, <3>2
  <2> QED
    BY <1>2, <2>6, <2>7
<1>8. CASE ~WritesRow(M, k)
  <2>1. N = W.tokens /\ ~Happened(V \union {k}, "TokenCreated", t)
        /\ chain[k].kind # "TokenCreated"
    BY <1>2, <1>5, <1>8 DEF TokensWith, WritesRow
  <2>2. t \notin DOMAIN W.tokens
    BY <1>3, <2>1
  <2>3. ASSUME NEW u \in DOMAIN N
        PROVE  StatusOf(N[u], V \union {k}, u)
    BY <1>3, <2>1, <2>2 DEF StatusOf
  <2>4. DOMAIN N = {u \in Tokens : /\ Happened(V \union {k}, "TokenCreated", u)
                                  /\ \E j \in D \union {k} : chain[j].token = u}
    BY <1>3, <1>6, <2>1
  <2> QED
    BY <1>2, <2>3, <2>4
<1> QED
  BY <1>7, <1>8

\* The trades and candles are those of the logs with k.
LEMMA CandlesProjected ==
  ASSUME ChainTypeOK, NEW T, NEW L \in SUBSET DOMAIN chain, T.trades = TradesAmong(L),
         NEW D \in SUBSET DOMAIN chain, NEW W,
         NEW M, M = Merge(T, W), IsKlineTable(M.klines), Shows(M, L \union D),
         W.trades = TradesAmong(D \ L), DOMAIN W.klines = CandlesAmong(D \ L),
         \A c \in DOMAIN W.klines : CandleRowOf(W.klines[c], InCandle(L \union D, c)),
         NEW k \in DOMAIN chain, k \notin D, k \in L \/ (\A j \in L \union D : j < k)
  PROVE  LET X == WritesWith(T, W, k)
         IN  /\ X.trades = TradesAmong((D \union {k}) \ L)
             /\ DOMAIN X.klines = CandlesAmong((D \union {k}) \ L)
             /\ \A c \in DOMAIN X.klines :
                   CandleRowOf(X.klines[c], InCandle((L \union D) \union {k}, c))
<1>1. PICK V, F, X, K : /\ V = L \union D /\ F = (D \union {k}) \ L /\ X = WritesWith(T, W, k)
                        /\ K = KlinesWith(M, W, k)
  OBVIOUS
<1>2. /\ X.trades = IF IsTrade(k) THEN W.trades \union ({k} \ T.trades) ELSE W.trades
      /\ X.klines = K
  BY <1>1 DEF WritesWith
<1>3. M.trades = TradesAmong(V) /\ k \in Nat
  BY <1>1, LogType DEF Shows
<1>4. CASE ~IsTrade(k)
  <2>1. TradesAmong(F) = TradesAmong(D \ L)
    BY <1>1, <1>4 DEF TradesAmong
  <2>2. CandlesAmong(F) = CandlesAmong(D \ L)
    BY <2>1 DEF CandlesAmong
  <2>3. \A c : InCandle(V \union {k}, c) = InCandle(V, c)
    BY <1>4, OtherAdded
  <2>4. X.trades = W.trades /\ K = W.klines
    BY <1>1, <1>2, <1>4 DEF KlinesWith
  <2> QED
    BY <1>1, <1>2, <2>1, <2>2, <2>3, <2>4
<1>5. CASE IsTrade(k) /\ k \in L
  <2>1. F = D \ L /\ V \union {k} = V
    BY <1>1, <1>5
  <2>2. k \in T.trades /\ k \in M.trades
    BY <1>1, <1>3, <1>5 DEF TradesAmong
  <2>3. X.trades = W.trades /\ K = W.klines
    BY <1>1, <1>2, <1>5, <2>2 DEF KlinesWith
  <2> QED
    BY <1>1, <1>2, <2>1, <2>3
<1>6. CASE IsTrade(k) /\ k \notin L
  <2>1. F = (D \ L) \union {k} /\ k \notin V /\ \A j \in V : j < k
    BY <1>1, <1>6
  <2>2. k \notin T.trades /\ k \notin M.trades
    BY <1>3, <1>6, <2>1 DEF TradesAmong
  <2>3. X.trades = TradesAmong(F)
    <3>1. TradesAmong((D \ L) \union {k}) = TradesAmong(D \ L) \union {k}
      BY <1>6 DEF TradesAmong
    <3> QED
      BY <1>2, <1>6, <2>1, <2>2, <3>1
  <2>4. PICK U, keys, new : /\ U = UpsertKlines(M.klines, k) /\ keys = CandleKeys(k)
                            /\ new = [c \in keys |-> U[c]]
    OBVIOUS
  <2>5. K = Over(new, W.klines)
    BY <1>1, <1>6, <2>2, <2>4 DEF KlinesWith
  <2>6. /\ DOMAIN K = keys \union DOMAIN W.klines
        /\ \A c \in keys : K[c] = U[c]
        /\ \A c \in DOMAIN W.klines \ keys : K[c] = W.klines[c]
    BY <2>4, <2>5 DEF Over
  <2>7. /\ DOMAIN M.klines = CandlesAmong(V)
        /\ \A c \in DOMAIN M.klines : CandleRowOf(M.klines[c], InCandle(V, c))
        /\ V \in SUBSET DOMAIN chain
    BY <1>1 DEF Shows
  <2>8. \A c \in DOMAIN U : CandleRowOf(U[c], InCandle(V \union {k}, c))
    BY <1>6, <2>1, <2>4, <2>7, CandlesUpserted
  <2>9. keys = {CandleOf(k, i) : i \in Intervals} /\ keys \subseteq DOMAIN U
    BY <2>4 DEF CandleKeys, UpsertKlines
  <2>10. /\ CandlesAmong((D \ L) \union {k}) = CandlesAmong(D \ L) \union keys
         /\ \A c \in CandlesAmong(V) \ keys : InCandle(V \union {k}, c) = InCandle(V, c)
    BY <1>6, <2>9, TradeAdded
  <2>11. CandlesAmong(D \ L) \subseteq CandlesAmong(V)
    BY <1>1 DEF CandlesAmong, TradesAmong
  <2>12. DOMAIN K = CandlesAmong(F)
    BY <2>1, <2>6, <2>10
  <2>13. ASSUME NEW c \in DOMAIN K
         PROVE  CandleRowOf(K[c], InCandle(V \union {k}, c))
    <3>1. CASE c \in keys
      BY <2>6, <2>8, <2>9, <3>1
    <3>2. CASE c \notin keys
      <4>1. c \in DOMAIN W.klines /\ K[c] = W.klines[c]
        BY <2>6, <3>2
      <4>2. InCandle(V \union {k}, c) = InCandle(V, c)
        BY <2>10, <2>11, <3>2, <4>1
      <4> QED
        BY <1>1, <4>1, <4>2
    <3> QED
      BY <3>1, <3>2
  <2> QED
    BY <1>1, <1>2, <2>3, <2>12, <2>13
<1> QED
  BY <1>4, <1>5, <1>6

\* The first projection left of a process: an old log, or later than all it sees.
LEMMA NextProjection ==
  ASSUME ChainTypeOK, ChainOrdered, NEW T, NEW R, Sound(T, R),
         NEW p \in Indexers, Saves(R[p]), NEW k \in R[p].todo, \A j \in R[p].todo : k <= j
  PROVE  LET V == VisibleTo(T.ledger, R[p])
         IN  /\ k \in DOMAIN chain /\ IsProjected(k) /\ k \notin DoneBy(R[p])
             /\ T.ledger \in SUBSET DOMAIN chain /\ DoneBy(R[p]) \in SUBSET DOMAIN chain
             /\ k \in T.ledger \/ (\A j \in V : j < k)
<1>1. PICK b \in Int : CoveredTo(T, R, b)
  BY DEF Sound
<1>2. IsProcess(R[p]) /\ Position(R[p])
  BY ProcessFacts
<1>3. /\ R[p].todo \subseteq ProjectedAmong(RangeIn(R[p]))
      /\ \A j \in DoneBy(R[p]), i \in R[p].todo : j < i
  BY <1>2 DEF Position
<1>4. /\ k \in RangeIn(R[p]) /\ k \in DOMAIN chain
      /\ chain[k].kind \notin {"Other", "Rejected"} /\ k \notin DoneBy(R[p])
  BY <1>3 DEF ProjectedAmong, RangeIn, LogsBetween, DoneBy
<1>5. IsProjected(k)
  BY <1>4, ProjectedKinds
<1>6. T.ledger \in SUBSET DOMAIN chain /\ DoneBy(R[p]) \in SUBSET DOMAIN chain
  BY <1>1 DEF CoveredTo, LogsBetween, DoneBy, ProjectedAmong, RangeIn
<1>7. k \notin T.ledger => \A j \in T.ledger : j < k
  BY <1>1, <1>2, <1>4, RangeStarts, OutsideIsLater
<1> QED
  BY <1>3, <1>4, <1>5, <1>6, <1>7 DEF VisibleTo

\* applyProjection on the first projection left.
LEMMA ProjectsStep ==
  ASSUME OverlapInv, NEW p \in Indexers, Projects(p)
  PROVE  OverlapInv'
<1>1. PICK T, R, old : T = tables /\ R = indexers /\ old = R[p]
  OBVIOUS
<1>2. Sound(T, R) /\ ChainTypeOK /\ ChainOrdered
  BY <1>1 DEF OverlapInv
<1>3. /\ IsProcess(old) /\ Position(old) /\ NewRows(T.ledger, old) /\ Written(T.ledger, old)
      /\ \A q \in Indexers \ {p} : Disjoint(old, R[q])
  BY <1>1, <1>2, ProcessFacts
<1>4. PICK k \in old.todo :
        /\ \A j \in old.todo : k <= j
        /\ RowsAreFree(p, k)
        /\ old.at = "save" /\ old.raw = {} /\ tables' = T /\ UNCHANGED chainVars
        /\ indexers' = [R EXCEPT
              ![p].todo = @ \ {k},
              ![p].writes = CASE chain[k].kind = "TokenCreated"   -> WriteCreated(p, k)
                              [] chain[k].kind \in TradeKinds     -> WriteTrade(p, k)
                              [] chain[k].kind = "TokenGraduated" -> WriteGraduated(p, k)]
  BY <1>1 DEF Projects
<1>5. PICK L, D, W : L = T.ledger /\ D = DoneBy(old) /\ W = old.writes
  OBVIOUS
<1>6. PICK V, M, writes : V = L \union D /\ M = Merge(T, W) /\ writes = WritesWith(T, W, k)
  OBVIOUS
<1>7. Saves(old) /\ AreRows(W) /\ AreRows(T)
  BY <1>2, <1>3, <1>4, <1>5 DEF Saves, IsProcess, Sound
<1>8. /\ k \in DOMAIN chain /\ IsProjected(k) /\ k \notin D
      /\ L \in SUBSET DOMAIN chain /\ D \in SUBSET DOMAIN chain
      /\ k \in L \/ (\A j \in V : j < k)
  <2>1. \A j \in R[p].todo : k <= j
    BY <1>1, <1>4
  <2>2. /\ k \in DOMAIN chain /\ IsProjected(k) /\ k \notin DoneBy(R[p])
        /\ T.ledger \in SUBSET DOMAIN chain /\ DoneBy(R[p]) \in SUBSET DOMAIN chain
        /\ k \in T.ledger \/ (\A j \in VisibleTo(T.ledger, R[p]) : j < k)
    BY <1>1, <1>2, <1>7, <1>4, <2>1, NextProjection
  <2> QED
    BY <1>1, <1>5, <1>6, <2>2 DEF VisibleTo
<1>9. Shows(M, V) /\ AreRows(M)
  <2>1. Shows(T, T.ledger)
    BY <1>2 DEF Sound
  <2>2. Shows(Merge(T, old.writes), VisibleTo(T.ledger, old))
    BY <1>2, <1>3, <1>5, <1>7, <1>8, <2>1, SeesItsLogs
  <2> QED
    BY <1>5, <1>6, <1>7, <2>2, MergeType DEF VisibleTo
<1>10. AreRows(writes)
  BY <1>2, <1>6, <1>7, <1>8, WritesWithType
<1>11. PICK r : r = [old EXCEPT !.todo = old.todo \ {k}, !.writes = writes]
  OBVIOUS
<1>12. PICK N : N = [R EXCEPT ![p] = r]
  OBVIOUS
<1>13. indexers' = N
  <2>1. AreRows(indexers[p].writes)
    BY <1>1, <1>5, <1>7
  <2>2. writes = CASE chain[k].kind = "TokenCreated"   -> WriteCreated(p, k)
                   [] chain[k].kind \in TradeKinds     -> WriteTrade(p, k)
                   [] chain[k].kind = "TokenGraduated" -> WriteGraduated(p, k)
    <3>1. writes = WritesWith(tables, indexers[p].writes, k)
      BY <1>1, <1>5, <1>6
    <3> QED
      BY <1>8, <2>1, <3>1, ProjectionWrites
  <2>3. indexers' = [R EXCEPT ![p].todo = @ \ {k}, ![p].writes = writes]
    BY <1>4, <2>2
  <2>4. R = [q \in Indexers |-> R[q]]
    BY <1>2 DEF Sound
  <2> QED
    BY <1>1, <1>3, <1>11, <1>12, <2>3, <2>4 DEF IsProcess
<1>14. /\ r.at = "save" /\ r.next = old.next /\ r.end = old.end /\ r.latest = old.latest
       /\ r.raw = {} /\ r.todo = old.todo \ {k} /\ r.writes = writes
       /\ IsProcess(r)
  BY <1>3, <1>4, <1>10, <1>11 DEF IsProcess
<1>15. /\ RangeIn(r) = RangeIn(old) /\ InsertedBy(r) = InsertedBy(old)
       /\ old.todo \subseteq ProjectedAmong(RangeIn(old))
  BY <1>3, <1>4, <1>7, <1>14 DEF RangeIn, InsertedBy, Position
<1>16. DoneBy(r) = D \union {k}
  BY <1>5, <1>14, <1>15 DEF DoneBy
<1>17. /\ writes.ledger = W.ledger /\ writes.ckpt = W.ckpt
       /\ writes.tokens = TokensWith(M, W, k)
  BY <1>6 DEF WritesWith
<1>18. Position(r)
  <2>1. /\ \A j \in D, i \in old.todo : j < i
        /\ k \in Nat /\ old.todo \subseteq Nat
    BY <1>3, <1>5, <1>7 DEF Position, IsProcess
  <2>2. \A j \in D \union {k}, i \in old.todo \ {k} : j < i
    <3>1. \A i \in old.todo \ {k} : i \in Nat /\ k <= i /\ i # k
      BY <1>4, <2>1
    <3> QED
      BY <2>1, <3>1
  <2> QED
    BY <1>3, <1>4, <1>5, <1>7, <1>14, <1>15, <1>16, <1>17, <2>2 DEF Position, Saves
<1>19. /\ W.ledger = InsertedBy(old) \ L /\ W.trades = TradesAmong(D \ L)
       /\ DOMAIN W.klines = CandlesAmong(D \ L)
       /\ \A c \in DOMAIN W.klines : CandleRowOf(W.klines[c], InCandle(V, c))
       /\ DOMAIN W.tokens = {t \in Tokens : /\ Happened(V, "TokenCreated", t)
                                           /\ \E j \in D : chain[j].token = t}
       /\ \A t \in DOMAIN W.tokens : StatusOf(W.tokens[t], V, t)
  BY <1>3, <1>5, <1>6, <1>7 DEF NewRows, Written, VisibleTo
<1>20. /\ writes.trades = TradesAmong((D \union {k}) \ L)
       /\ DOMAIN writes.klines = CandlesAmong((D \union {k}) \ L)
       /\ \A c \in DOMAIN writes.klines : CandleRowOf(writes.klines[c], InCandle(V \union {k}, c))
  <2>1. T.trades = TradesAmong(L) /\ IsKlineTable(M.klines)
    BY <1>2, <1>5, <1>9 DEF Sound, Shows, AreRows
  <2>2. Shows(M, L \union D) /\ (k \in L \/ (\A j \in L \union D : j < k))
        /\ (\A c \in DOMAIN W.klines : CandleRowOf(W.klines[c], InCandle(L \union D, c)))
    BY <1>6, <1>8, <1>9, <1>19
  <2>3. /\ WritesWith(T, W, k).trades = TradesAmong((D \union {k}) \ L)
        /\ DOMAIN WritesWith(T, W, k).klines = CandlesAmong((D \union {k}) \ L)
        /\ \A c \in DOMAIN WritesWith(T, W, k).klines :
              CandleRowOf(WritesWith(T, W, k).klines[c], InCandle((L \union D) \union {k}, c))
    BY <1>2, <1>6, <1>8, <1>19, <2>1, <2>2, CandlesProjected
  <2> QED
    BY <1>6, <2>3
<1>21. /\ DOMAIN writes.tokens =
             {t \in Tokens : /\ Happened(V \union {k}, "TokenCreated", t)
                             /\ \E j \in D \union {k} : chain[j].token = t}
       /\ \A t \in DOMAIN writes.tokens : StatusOf(writes.tokens[t], V \union {k}, t)
  <2>1. /\ V \in SUBSET DOMAIN chain /\ D \in SUBSET V
        /\ k \in V \/ (\A j \in V : j < k)
    BY <1>6, <1>8
  <2>2. /\ DOMAIN TokensWith(M, W, k) =
              {t \in Tokens : /\ Happened(V \union {k}, "TokenCreated", t)
                              /\ \E j \in D \union {k} : chain[j].token = t}
        /\ \A t \in DOMAIN TokensWith(M, W, k) :
              StatusOf(TokensWith(M, W, k)[t], V \union {k}, t)
    BY <1>2, <1>8, <1>9, <1>19, <2>1, TokensProjected
  <2> QED
    BY <1>17, <2>2
<1>22. NewRows(L, r)
  BY <1>14, <1>15, <1>16, <1>17, <1>19, <1>20 DEF NewRows
<1>23. Written(L, r)
  <2>1. VisibleTo(L, r) = V \union {k}
    BY <1>6, <1>16 DEF VisibleTo
  <2> QED
    BY <1>14, <1>16, <1>20, <1>21, <2>1 DEF Written
<1>24. ASSUME NEW q \in Indexers \ {p}
       PROVE  Disjoint(r, R[q])
  <2>1. Disjoint(old, R[q])
    BY <1>3
  <2>2. R[q].writes \in Others(p) /\ Seen(p) = M
    BY <1>1, <1>5, <1>6 DEF Others, Seen
  <2>3. WritesRow(M, k) => chain[k].token \notin DOMAIN R[q].writes.tokens
    BY <1>4, <2>2 DEF RowsAreFree, WritesRow
  <2>4. DOMAIN writes.tokens \subseteq DOMAIN W.tokens
          \union (IF WritesRow(M, k) THEN {chain[k].token} ELSE {})
    BY <1>17 DEF TokensWith, Over
  <2> QED
    BY <1>5, <1>14, <1>17, <2>1, <2>3, <2>4 DEF Disjoint
<1>25. \A b \in Int : CoveredTo(T, R, b) => r.next <= b + 1
  BY <1>1, <1>4, <1>14 DEF CoveredTo
<1>26. Sound(T, N)
  BY <1>2, <1>5, <1>12, <1>14, <1>18, <1>22, <1>23, <1>24, <1>25, OneMoves
<1> QED
  BY <1>4, <1>13, <1>26, SoundNext

-----------------------------------------------------------------------------
(* A transaction commits.                                                  *)

\* The tables show of some logs what they show of those that are projected.
LEMMA OnlyProjectedShow ==
  ASSUME NEW T, NEW S, Shows(T, S), NEW Z, ProjectedAmong(Z) = ProjectedAmong(S)
  PROVE  Shows(T, Z)
<1>1. \A X : TradesAmong(X) = TradesAmong(ProjectedAmong(X))
  BY DEF TradesAmong, ProjectedAmong, IsTrade, TradeKinds
<1>2. TradesAmong(Z) = TradesAmong(S)
  BY <1>1
<1>3. CandlesAmong(Z) = CandlesAmong(S) /\ \A c : InCandle(Z, c) = InCandle(S, c)
  BY <1>2 DEF CandlesAmong, InCandle
<1>4. \A X, t : /\ Happened(X, "TokenCreated", t)
                     <=> Happened(ProjectedAmong(X), "TokenCreated", t)
                /\ Happened(X, "TokenGraduated", t)
                     <=> Happened(ProjectedAmong(X), "TokenGraduated", t)
  BY DEF Happened, ProjectedAmong
<1>5. \A t : /\ Happened(Z, "TokenCreated", t) <=> Happened(S, "TokenCreated", t)
             /\ Happened(Z, "TokenGraduated", t) <=> Happened(S, "TokenGraduated", t)
  BY <1>4
<1> QED
  BY <1>2, <1>3, <1>5 DEF Shows, StatusOf

\* At its commit a process has inserted and projected its range.
LEMMA DoneAtCommit ==
  ASSUME NEW r, Position(r), r.at = "commit"
  PROVE  /\ Saves(r) /\ InsertedBy(r) = RangeIn(r)
         /\ DoneBy(r) = ProjectedAmong(RangeIn(r))
         /\ r.next <= r.end /\ r.end <= r.latest /\ r.latest <= head
         /\ StartBlock <= r.next /\ r.writes.ckpt = r.end
BY DEF Position, Saves, InsertedBy, DoneBy

\* Without new logs, a process projected logs of the ledger.
LEMMA OldLogsDone ==
  ASSUME NEW L, NEW r, Position(r), NewRows(L, r), Saves(r), r.writes.ledger = {}
  PROVE  InsertedBy(r) \subseteq L /\ DoneBy(r) \subseteq L
<1>1. InsertedBy(r) \subseteq L
  BY DEF NewRows
<1>2. CASE r.raw = {}
  <2>1. InsertedBy(r) = RangeIn(r) /\ DoneBy(r) \subseteq RangeIn(r)
    BY <1>2 DEF InsertedBy, DoneBy, ProjectedAmong
  <2> QED
    BY <1>1, <2>1
<1>3. CASE r.raw # {}
  BY <1>1, <1>3 DEF Position
<1> QED
  BY <1>2, <1>3

\* What another process wrote is as it was when p commits its new logs.
LEMMA OthersAtCommit ==
  ASSUME ChainTypeOK, ChainOrdered, NEW T, NEW R, Sound(T, R),
         NEW p \in Indexers, R[p].at = "commit", NEW q \in Indexers \ {p}
  PROVE  LET L == T.ledger \union R[p].writes.ledger
         IN  NewRows(L, R[q]) /\ Written(L, R[q])
<1>1. PICK A, W, N, s : /\ A = T.ledger /\ W = R[p].writes /\ N = A \union W.ledger
                        /\ s = R[q]
  OBVIOUS
<1>2. PICK b \in Int : CoveredTo(T, R, b)
  BY DEF Sound
<1>3. /\ IsProcess(R[p]) /\ Position(R[p]) /\ NewRows(A, R[p]) /\ Written(A, R[p])
      /\ IsProcess(s) /\ Position(s) /\ NewRows(A, s) /\ Written(A, s)
      /\ Disjoint(R[p], s)
  <2>1. q \in Indexers /\ p # q
    OBVIOUS
  <2>2. /\ IsProcess(R[p]) /\ Position(R[p]) /\ NewRows(A, R[p]) /\ Written(A, R[p])
        /\ Disjoint(R[p], R[q])
    BY <1>1, ProcessFacts
  <2>3. IsProcess(R[q]) /\ Position(R[q]) /\ NewRows(A, R[q]) /\ Written(A, R[q])
    BY <1>1, <2>1, ProcessFacts
  <2> QED
    BY <1>1, <2>2, <2>3
<1>4. CASE W.ledger = {}
  <2>1. N = A
    BY <1>1, <1>4
  <2> QED
    BY <1>1, <1>3, <2>1
<1>5. CASE W.ledger # {}
  <2>1. s.writes.ledger = {}
    BY <1>1, <1>3, <1>5 DEF Disjoint
  <2> SUFFICES ASSUME Saves(s) PROVE NewRows(N, s) /\ Written(N, s)
    BY <1>1 DEF NewRows, Written
  <2>2. InsertedBy(s) \subseteq A /\ DoneBy(s) \subseteq A
    BY <1>3, <2>1, OldLogsDone
  <2>3. PICK D : D = DoneBy(s)
    OBVIOUS
  <2>4. /\ D \ N = {} /\ D \ A = {} /\ InsertedBy(s) \ N = {}
        /\ VisibleTo(A, s) = A /\ VisibleTo(N, s) = N
    BY <1>1, <2>2, <2>3 DEF VisibleTo
  <2>5. /\ s.writes.trades = TradesAmong({})
        /\ DOMAIN s.writes.klines = CandlesAmong({})
        /\ DOMAIN s.writes.tokens = {t \in Tokens : /\ Happened(A, "TokenCreated", t)
                                                   /\ \E k \in D : chain[k].token = t}
        /\ \A t \in DOMAIN s.writes.tokens : StatusOf(s.writes.tokens[t], A, t)
    BY <1>3, <2>3, <2>4 DEF NewRows, Written
  <2>6. CandlesAmong({}) = {}
    BY DEF CandlesAmong, TradesAmong
  <2>7. /\ Saves(R[p]) /\ W.ledger = RangeIn(R[p]) \ A
        /\ DoneBy(R[p]) = ProjectedAmong(RangeIn(R[p]))
    BY <1>1, <1>3, DoneAtCommit DEF NewRows
  <2>8. A \subseteq DOMAIN chain /\ DOMAIN chain \subseteq Nat
    BY <1>1, <1>2, LogType DEF CoveredTo, LogsBetween
  <2>9. \A k \in W.ledger : /\ k \in DOMAIN chain /\ k \notin A
                            /\ \A j \in A : j < k
    <3> SUFFICES ASSUME NEW k \in W.ledger
                 PROVE  k \in DOMAIN chain /\ k \notin A /\ \A j \in A : j < k
      OBVIOUS
    <3>1. k \in RangeIn(R[p]) /\ k \notin A
      BY <2>7
    <3>2. k \in DOMAIN chain /\ StartBlock <= chain[k].block
      BY <1>3, <2>7, <3>1, RangeStarts
    <3>3. \A j \in T.ledger : j \in DOMAIN chain /\ j < k
      BY <1>1, <1>2, <3>1, <3>2, OutsideIsLater
    <3> QED
      BY <1>1, <3>1, <3>2, <3>3
  <2>10. \A kind, t : Happened(N, kind, t) <=> Happened(A, kind, t) \/ Happened(W.ledger, kind, t)
    BY <1>1 DEF Happened
  <2>11. ASSUME NEW t \in Tokens, NEW k \in D, chain[k].token = t
         PROVE  ~Happened(W.ledger, "TokenCreated", t)
    <3> SUFFICES ASSUME NEW m \in W.ledger, chain[m].kind = "TokenCreated", chain[m].token = t
                 PROVE  FALSE
      BY DEF Happened
    <3>1. /\ k \in A /\ k \in DOMAIN chain /\ m \in DOMAIN chain /\ k \in Nat /\ m \in Nat
          /\ k < m
      BY <2>2, <2>3, <2>8, <2>9
    <3>2. chain[k].kind \in TradeKinds \union {"TokenCreated", "TokenGraduated"}
      <4>1. chain[k].kind \notin {"Other", "Rejected"}
        BY <2>3 DEF DoneBy, ProjectedAmong
      <4> QED
        BY <3>1, <4>1, ProjectedKinds DEF IsProjected
    <3>3. CASE chain[k].kind = "TokenCreated"
      <4>1. k = m
        BY <2>11, <3>1, <3>3 DEF ChainOrdered
      <4> QED
        BY <3>1, <4>1
    <3>4. CASE chain[k].kind \in TradeKinds \union {"TokenGraduated"}
      <4>1. PICK i \in DOMAIN chain :
              chain[i].kind = "TokenCreated" /\ chain[i].token = t /\ i < k
        BY <2>11, <3>1, <3>4 DEF ChainOrdered
      <4>2. i = m
        BY <3>1, <4>1 DEF ChainOrdered
      <4> QED
        BY <3>1, <4>1, <4>2
    <3> QED
      BY <3>2, <3>3, <3>4
  <2>12. ASSUME NEW t \in DOMAIN s.writes.tokens
         PROVE  ~Happened(W.ledger, "TokenGraduated", t)
    <3> SUFFICES ASSUME NEW m \in W.ledger, chain[m].kind = "TokenGraduated", chain[m].token = t
                 PROVE  FALSE
      BY DEF Happened
    <3>1. t \in Tokens /\ Happened(A, "TokenCreated", t)
      BY <2>5
    <3>2. m \in DoneBy(R[p])
      BY <2>7 DEF ProjectedAmong
    <3>3. Happened(VisibleTo(A, R[p]), "TokenCreated", t)
      BY <3>1 DEF Happened, VisibleTo
    <3>4. t \in DOMAIN W.tokens
      BY <1>1, <1>3, <2>7, <3>1, <3>2, <3>3 DEF Written
    <3> QED
      BY <1>1, <1>3, <3>4 DEF Disjoint
  <2>13. NewRows(N, s)
    BY <2>1, <2>3, <2>4, <2>5 DEF NewRows
  <2>14. DOMAIN s.writes.tokens = {t \in Tokens : /\ Happened(N, "TokenCreated", t)
                                                 /\ \E k \in D : chain[k].token = t}
    BY <2>5, <2>10, <2>11
  <2>15. \A t \in DOMAIN s.writes.tokens : StatusOf(s.writes.tokens[t], N, t)
    BY <2>5, <2>10, <2>12 DEF StatusOf
  <2>16. Written(N, s)
    BY <2>3, <2>4, <2>5, <2>6, <2>14, <2>15 DEF Written
  <2> QED
    BY <2>13, <2>16
<1> QED
  BY <1>4, <1>5

\* The ledger with the range of a process that commits.
LEMMA CoveredAtCommit ==
  ASSUME ChainTypeOK, NEW T, NEW R, Sound(T, R), NEW p \in Indexers, R[p].at = "commit",
         NEW Q, Q.ledger = T.ledger \union RangeIn(R[p]), Q.ckpt = R[p].end,
         NEW N, N[p].next = R[p].end + 1, \A q \in Indexers \ {p} : N[q] = R[q]
  PROVE  \E e \in Int : CoveredTo(Q, N, e)
<1>1. PICK from, end : from = R[p].next /\ end = R[p].end
  OBVIOUS
<1>2. PICK b \in Int : CoveredTo(T, R, b)
  BY DEF Sound
<1>3. /\ IsProcess(R[p]) /\ Position(R[p])
      /\ \A q \in Indexers : R[q].next \in Nat
  BY ProcessFacts
<1>4. /\ from \in Nat /\ end \in Nat /\ StartBlock \in Nat /\ head \in Nat
      /\ StartBlock <= from /\ from <= end /\ end <= head
  <2>1. from \in Nat /\ end \in Nat /\ R[p].latest \in Nat /\ StartBlock \in Nat /\ head \in Nat
    BY <1>1, <1>3, ChainAssumption DEF ChainAssumption, ChainTypeOK, IsProcess
  <2>2. StartBlock <= from /\ from <= end /\ end <= R[p].latest /\ R[p].latest <= head
    BY <1>1, <1>3, DoneAtCommit
  <2> QED
    BY <2>1, <2>2
<1>5. T.ledger = LogsBetween(StartBlock, b) /\ RangeIn(R[p]) = LogsBetween(from, end)
  BY <1>1, <1>2 DEF CoveredTo, RangeIn
<1>6. /\ StartBlock - 1 <= b /\ (b <= head \/ b = StartBlock - 1) /\ from <= b + 1
      /\ \A q \in Indexers : R[q].at # "down" => R[q].next <= b + 1
  BY <1>1, <1>2 DEF CoveredTo
<1>7. PICK e \in Int : e = IF b <= end THEN end ELSE b
  BY <1>4
<1>8. b <= e /\ end <= e /\ StartBlock - 1 <= e /\ (e <= head \/ e = StartBlock - 1)
  BY <1>4, <1>6, <1>7
<1>9. Q.ledger = LogsBetween(StartBlock, e)
  <2>1. CASE b <= end
    <3>1. /\ StartBlock \in Int /\ from \in Int /\ end \in Int
          /\ StartBlock <= from /\ from <= b + 1 /\ b <= end
      BY <1>4, <1>6, <2>1
    <3>2. LogsBetween(StartBlock, b) \union LogsBetween(from, end) = LogsBetween(StartBlock, end)
      BY <3>1, LogsJoin
    <3> QED
      BY <1>5, <1>7, <2>1, <3>2
  <2>2. CASE ~(b <= end)
    <3>1. \A k \in DOMAIN chain : chain[k].block \in Nat
      BY LogType
    <3>2. LogsBetween(from, end) \subseteq LogsBetween(StartBlock, b)
      BY <1>4, <2>2, <3>1 DEF LogsBetween
    <3> QED
      BY <1>5, <1>7, <2>2, <3>2
  <2> QED
    BY <2>1, <2>2
<1>10. ASSUME NEW q \in Indexers, N[q].at # "down"
       PROVE  N[q].next <= e + 1
  <2>1. CASE q = p
    BY <1>1, <1>4, <1>8, <2>1
  <2>2. CASE q # p
    <3>1. N[q] = R[q] /\ R[q].next \in Nat /\ R[q].next <= b + 1
      BY <1>3, <1>6, <1>10, <2>2
    <3> QED
      BY <1>8, <3>1
  <2> QED
    BY <2>1, <2>2
<1>11. CoveredTo(Q, N, e)
  BY <1>1, <1>2, <1>8, <1>9, <1>10 DEF CoveredTo
<1> QED
  BY <1>11

\* What a transaction wrote becomes the tables, and the others keep what they wrote.
LEMMA CommitsStep ==
  ASSUME OverlapInv, NEW p \in Indexers, Commits(p)
  PROVE  OverlapInv'
<1>1. PICK T, R, old : T = tables /\ R = indexers /\ old = R[p]
  OBVIOUS
<1>2. Sound(T, R) /\ ChainTypeOK /\ ChainOrdered
  BY <1>1 DEF OverlapInv
<1>3. PICK L, W, Q : L = T.ledger /\ W = old.writes /\ Q = Merge(T, W)
  OBVIOUS
<1>4. PICK r : r = [Down EXCEPT !.at = "range", !.next = old.end + 1, !.latest = old.latest]
  OBVIOUS
<1>5. PICK N : N = [R EXCEPT ![p] = r]
  OBVIOUS
<1>6. old.at = "commit" /\ tables' = Q /\ indexers' = N /\ UNCHANGED chainVars
  BY <1>1, <1>3, <1>4, <1>5 DEF Commits, Seen
<1>7. /\ IsProcess(old) /\ Position(old) /\ NewRows(L, old) /\ Written(L, old)
      /\ old.end \in Nat /\ old.latest \in Nat /\ AreRows(W)
  BY <1>1, <1>2, <1>3, ProcessFacts
<1>8. /\ Saves(old) /\ InsertedBy(old) = RangeIn(old) /\ old.latest <= head
      /\ DoneBy(old) = ProjectedAmong(RangeIn(old)) /\ W.ckpt = old.end
      /\ StartBlock <= old.next /\ old.next <= old.end
  BY <1>3, <1>6, <1>7, DoneAtCommit
<1>9. StartBlock <= old.end /\ old.end # NoCheckpoint /\ NoCheckpoint = -1
  BY <1>7, <1>8, ChainAssumption DEF ChainAssumption, IsProcess, NoCheckpoint
<1>10. /\ r.at = "range" /\ r.next = old.end + 1 /\ r.latest = old.latest
       /\ r.writes = NoRows /\ IsProcess(r) /\ Position(r) /\ ~Saves(r)
  <2>1. Down = [at |-> "down", next |-> 0, latest |-> 0, end |-> 0, raw |-> {}, todo |-> {},
                writes |-> NoRows]
    BY DEF Down
  <2>2. r = [at |-> "range", next |-> old.end + 1, latest |-> old.latest, end |-> 0,
             raw |-> {}, todo |-> {}, writes |-> NoRows]
    BY <1>4, <2>1
  <2>3. IsProcess(r)
    BY <1>7, <2>2, NoRowsType DEF IsProcess
  <2>4. StartBlock <= old.end + 1
    BY <1>7, <1>9, ChainAssumption DEF ChainAssumption
  <2>5. Position(r) /\ ~Saves(r)
    BY <1>8, <2>2, <2>4 DEF Position, Saves
  <2> QED
    BY <2>2, <2>3, <2>5
<1>11. /\ N = [q \in Indexers |-> N[q]] /\ N[p] = r
       /\ \A q \in Indexers \ {p} : N[q] = R[q]
  BY <1>2, <1>5 DEF Sound
<1>12. Q.ledger = L \union W.ledger /\ Q.ckpt = old.end /\ AreRows(Q)
  <2>1. AreRows(T)
    BY <1>2 DEF Sound
  <2>2. AreRows(Q)
    BY <1>3, <1>7, <2>1, MergeType
  <2> QED
    BY <1>3, <1>8, <1>9, <2>2, MergeFields
<1>13. Q.ledger = L \union RangeIn(old)
  BY <1>3, <1>7, <1>8, <1>12 DEF NewRows
<1>14. \E e \in Int : CoveredTo(Q, N, e)
  <2>1. /\ R[p].at = "commit" /\ Q.ledger = T.ledger \union RangeIn(R[p])
        /\ Q.ckpt = R[p].end /\ N[p].next = R[p].end + 1
    BY <1>1, <1>3, <1>6, <1>10, <1>11, <1>12, <1>13
  <2> QED
    BY <1>2, <1>11, <2>1, CoveredAtCommit
<1>15. Shows(Q, Q.ledger)
  <2>1. Shows(T, T.ledger) /\ DoneBy(old) \subseteq DOMAIN chain
    BY <1>2, <1>8 DEF Sound, RangeIn, LogsBetween, ProjectedAmong
  <2>2. Shows(Merge(T, old.writes), VisibleTo(T.ledger, old))
    BY <1>2, <1>3, <1>7, <1>8, <2>1, SeesItsLogs
  <2>3. Shows(Q, L \union DoneBy(old))
    BY <1>3, <2>2 DEF VisibleTo
  <2>4. ProjectedAmong(Q.ledger) = ProjectedAmong(L \union DoneBy(old))
    BY <1>8, <1>13 DEF ProjectedAmong
  <2> QED
    BY <2>3, <2>4, OnlyProjectedShow
<1>16. ASSUME NEW q \in Indexers
       PROVE  /\ IsProcess(N[q]) /\ Position(N[q])
              /\ NewRows(Q.ledger, N[q]) /\ Written(Q.ledger, N[q])
  <2>1. CASE q = p
    <3>1. NewRows(Q.ledger, r) /\ Written(Q.ledger, r)
      BY <1>10, IdleWrites
    <3> QED
      BY <1>10, <1>11, <2>1, <3>1
  <2>2. CASE q # p
    <3>1. IsProcess(R[q]) /\ Position(R[q])
      BY <1>2, ProcessFacts
    <3>2. q \in Indexers \ {p} /\ R[p].at = "commit"
      BY <1>1, <1>6, <2>2
    <3>3. LET Z == T.ledger \union R[p].writes.ledger
          IN  NewRows(Z, R[q]) /\ Written(Z, R[q])
      BY <1>2, <3>2, OthersAtCommit
    <3>4. Q.ledger = T.ledger \union R[p].writes.ledger
      BY <1>1, <1>3, <1>12
    <3> QED
      BY <1>11, <3>1, <3>2, <3>3, <3>4
  <2> QED
    BY <2>1, <2>2
<1>17. ASSUME NEW q1 \in Indexers, NEW q2 \in Indexers, q1 # q2
       PROVE  Disjoint(N[q1], N[q2])
  <2>1. \A s : Disjoint(r, s) /\ Disjoint(s, r)
    <3>1. \A s : Disjoint(r, s)
      BY <1>10, IdleWrites
    <3>2. \A s : Disjoint(r, s) => Disjoint(s, r)
      BY DEF Disjoint
    <3> QED
      BY <3>1, <3>2
  <2>2. CASE q1 = p \/ q2 = p
    BY <1>11, <2>1, <2>2
  <2>3. CASE q1 # p /\ q2 # p
    BY <1>2, <1>11, <1>17, <2>3 DEF Sound
  <2> QED
    BY <2>2, <2>3
<1>18. Sound(Q, N)
  BY <1>9, <1>11, <1>12, <1>14, <1>15, <1>16, <1>17 DEF Sound
<1> QED
  BY <1>6, <1>18, SoundNext

-----------------------------------------------------------------------------
(* The invariant.                                                          *)

\* The chain grows while the processes stand still.
LEMMA ChainStep ==
  ASSUME OverlapInv, ChainNext, UNCHANGED <<tables, indexers>>
  PROVE  OverlapInv'
<1>1. PICK T, R : T = tables /\ R = indexers
  OBVIOUS
<1>2. T = tables' /\ R = indexers'
  BY <1>1
<1>3. ChainTypeOK /\ ChainBounded /\ ChainOrdered /\ Sound(T, R)
  BY <1>1 DEF OverlapInv
<1>4. /\ ChainTypeOK' /\ ChainBounded' /\ head' \in Nat /\ head <= head'
      /\ \A k \in DOMAIN chain : k \in DOMAIN chain' /\ chain'[k] = chain[k]
      /\ \A k \in DOMAIN chain' \ DOMAIN chain : chain'[k].block = head + 1
  BY <1>3, ChainGrows
<1>5. ChainOrdered'
  BY <1>3, ChainStaysOrdered
<1>6. Sound(T, R)'
  BY <1>3, <1>4, SoundStays
<1> QED
  BY <1>2, <1>4, <1>5, <1>6 DEF OverlapInv

\* Every step keeps the invariant.
LEMMA OverlapStep ==
  ASSUME OverlapInv, [OverlapNext]_overlapVars
  PROVE  OverlapInv'
<1>1. CASE ChainNext /\ UNCHANGED <<tables, indexers>>
  BY <1>1, ChainStep
<1>2. ASSUME NEW p \in Indexers,
             \/ Starts(p) \/ ReadsHead(p) \/ Fetches(p) \/ Ticks(p) \/ InsertsEvent(p)
             \/ Projects(p) \/ SavesCheckpoint(p) \/ Commits(p) \/ Exits(p)
      PROVE  OverlapInv'
  BY <1>2, StartsStep, ReadsHeadStep, FetchesStep, TicksStep, InsertsEventStep, ProjectsStep,
     SavesCheckpointStep, CommitsStep, ExitsStep
<1>3. CASE UNCHANGED overlapVars
  <2>1. PICK T, R : T = tables /\ R = indexers
    OBVIOUS
  <2>2. tables' = T /\ indexers' = R /\ UNCHANGED chainVars
    BY <1>3, <2>1 DEF overlapVars, chainVars
  <2>3. Sound(T, R)
    BY <2>1 DEF OverlapInv
  <2> QED
    BY <2>2, <2>3, SoundNext
<1> QED
  BY <1>1, <1>2, <1>3 DEF OverlapNext

\* However many processes run over the same tables, whatever they replay and wherever
\* they end, the ledger has no gap and the rows are those of its logs; what a
\* transaction wrote is what is new of its range, and only one has new logs.
\* Code: SaveBlockRange in repository/chain_event.go, and Run and syncAvailable.
THEOREM OverlapInvariant == OverlapSpec => []OverlapInv
<1>1. OverlapInit => OverlapInv
  BY OverlapInitial
<1>2. OverlapInv /\ [OverlapNext]_overlapVars => OverlapInv'
  BY OverlapStep
<1> QED
  BY <1>1, <1>2, PTL DEF OverlapSpec

\* Every variable keeps its type, each committed and each uncommitted row included.
\* Code: the tables SaveBlockRange writes, and the variables of Run and syncAvailable.
THEOREM OverlapTypeCorrect == OverlapSpec => []OverlapTypeOK
<1>1. OverlapInv => OverlapTypeOK
  BY DEF OverlapInv, OverlapTypeOK, Sound
<1> QED
  BY <1>1, OverlapInvariant, PTL

\* chain_events holds every log up to some block, and none after it, however the
\* processes replay each other's ranges and move the checkpoint.
\* Code: a process starts behind a checkpoint and goes on behind its own ranges.
THEOREM LedgerNeverHasAGap == OverlapSpec => []LedgerHasNoGap
<1>1. ASSUME OverlapInv PROVE LedgerHasNoGap
  <2>1. PICK b \in Int : CoveredTo(tables, indexers, b)
    BY <1>1 DEF OverlapInv, Sound
  <2>2. /\ StartBlock \in Nat /\ NoCheckpoint = -1 /\ head \in Nat
        /\ tables.ckpt = NoCheckpoint \/ (tables.ckpt \in Nat /\ StartBlock <= tables.ckpt)
    BY <1>1, ChainAssumption
       DEF ChainAssumption, NoCheckpoint, OverlapInv, ChainTypeOK, Sound, AreRows
  <2>3. CASE b = StartBlock - 1
    <3>1. tables.ckpt = NoCheckpoint
      BY <2>1, <2>2, <2>3 DEF CoveredTo
    <3>2. \A k \in DOMAIN chain : chain[k].block \in Nat
      BY <1>1, LogType DEF OverlapInv
    <3>3. tables.ledger = {}
      BY <2>1, <2>2, <2>3, <3>2 DEF CoveredTo, LogsBetween
    <3> QED
      BY <3>1, <3>3 DEF LedgerHasNoGap
  <2>4. CASE b # StartBlock - 1
    <3>1. b \in StartBlock .. head
      BY <2>1, <2>2, <2>4 DEF CoveredTo
    <3> QED
      BY <2>1, <3>1 DEF CoveredTo, LedgerHasNoGap
  <2> QED
    BY <2>3, <2>4
<1> QED
  BY <1>1, OverlapInvariant, PTL

\* The row of a candle, as the property has it.
LEMMA CandleOfItsTrades ==
  ASSUME ChainTypeOK, NEW S \in SUBSET DOMAIN chain, NEW c,
         NEW row \in CandleRow, CandleRowOf(row, InCandle(S, c))
  PROVE  LET trades == InCandle(S, c)
             prices == {chain[k].price : k \in trades}
         IN  row = [open |-> chain[Min(trades)].price, close |-> chain[Max(trades)].price,
                    high |-> Max(prices), low |-> Min(prices), added |-> trades, repeated |-> {}]
<1> DEFINE all == InCandle(S, c)
           prices == {chain[k].price : k \in all}
<1>1. row = [open |-> row.open, close |-> row.close, high |-> row.high, low |-> row.low,
             added |-> row.added, repeated |-> row.repeated]
  BY DEF CandleRow
<1>2. all \in SUBSET Nat /\ prices \in SUBSET Nat
  BY LogType DEF InCandle, TradesAmong
<1>3. /\ row.added = all /\ row.repeated = {}
      /\ row.high \in prices /\ \A x \in prices : x <= row.high
      /\ row.low \in prices /\ \A x \in prices : row.low <= x
  BY DEF CandleRowOf, RowOf
<1>4. PICK k \in all : row.open = chain[k].price /\ \A j \in all : k <= j
  BY DEF CandleRowOf
<1>5. PICK n \in all : row.close = chain[n].price /\ \A j \in all : j <= n
  BY DEF CandleRowOf, IsLatest
<1> HIDE DEF all
<1>6. Min(all) = k /\ Max(all) = n
  <2>1. Min(all) = CHOOSE x \in all : \A y \in all : x <= y
    BY DEF Min
  <2>2. Max(all) = CHOOSE x \in all : \A y \in all : x >= y
    BY DEF Max
  <2> QED
    BY <1>2, <1>4, <1>5, <2>1, <2>2, MinIs, MaxIs
<1> HIDE DEF prices
<1>7. Max(prices) = row.high /\ Min(prices) = row.low
  <2>1. Min(prices) = CHOOSE x \in prices : \A y \in prices : x <= y
    BY DEF Min
  <2>2. Max(prices) = CHOOSE x \in prices : \A y \in prices : x >= y
    BY DEF Max
  <2> QED
    BY <1>2, <1>3, <2>1, <2>2, MinIs, MaxIs
<1>8. row = [open |-> chain[Min(all)].price, close |-> chain[Max(all)].price,
             high |-> Max(prices), low |-> Min(prices), added |-> all, repeated |-> {}]
  BY <1>1, <1>3, <1>4, <1>5, <1>6, <1>7
<1> QED
  BY <1>8 DEF all, prices

\* Every candle has each indexed trade of its interval once and opens and closes with
\* the first and the last, and every token has its row and its status, whichever
\* process wrote them and however often a range was replayed.
\* Code: SaveBlockRange guards the candles by RowsAffected; applyTokenCreated keeps the
\* status of a row that is there.
THEOREM OverlapRowsStayExact == OverlapSpec => []OverlapRowsExact
<1>1. ASSUME OverlapInv PROVE CandlesOfLedger
  <2>1. PICK T, L : T = tables /\ L = T.ledger
    OBVIOUS
  <2>2. Sound(T, indexers) /\ ChainTypeOK
    BY <1>1, <2>1 DEF OverlapInv
  <2>3. L \in SUBSET DOMAIN chain
    BY <2>1, <2>2 DEF Sound, CoveredTo, LogsBetween
  <2>4. /\ DOMAIN T.klines = CandlesAmong(L)
        /\ \A c \in DOMAIN T.klines :
              T.klines[c] \in CandleRow /\ CandleRowOf(T.klines[c], InCandle(L, c))
    BY <2>1, <2>2 DEF Sound, Shows, AreRows, IsKlineTable
  <2>5. ASSUME NEW c \in DOMAIN T.klines
        PROVE  LET trades == InCandle(L, c)
                   prices == {chain[k].price : k \in trades}
               IN  T.klines[c] =
                     [open |-> chain[Min(trades)].price, close |-> chain[Max(trades)].price,
                      high |-> Max(prices), low |-> Min(prices),
                      added |-> trades, repeated |-> {}]
    BY <2>2, <2>3, <2>4, CandleOfItsTrades
  <2> QED
    BY <2>1, <2>4, <2>5 DEF CandlesOfLedger
<1>2. ASSUME OverlapInv PROVE StatusesExact
  <2>1. Shows(tables, tables.ledger)
    BY <1>2 DEF OverlapInv, Sound
  <2>2. \A kind, t : OfKind(OfToken(tables.ledger, t), kind) # {}
                       <=> Happened(tables.ledger, kind, t)
    BY DEF OfKind, OfToken, Happened
  <2> QED
    BY <2>1, <2>2 DEF StatusesExact, Shows, StatusOf
<1>3. OverlapInv => OverlapRowsExact
  BY <1>1, <1>2 DEF OverlapRowsExact
<1> QED
  BY <1>3, OverlapInvariant, PTL

\* No commit takes a log, a trade, a graduation or a trade of a candle back.
NothingTakenBack ==
    /\ tables.ledger \subseteq tables'.ledger
    /\ tables.trades \subseteq tables'.trades
    /\ \A t \in DOMAIN tables.tokens :
          /\ t \in DOMAIN tables'.tokens
          /\ tables.tokens[t].status = Graduated => tables'.tokens[t].status = Graduated
    /\ \A c \in DOMAIN tables.klines :
          /\ c \in DOMAIN tables'.klines
          /\ tables.klines[c].added \subseteq tables'.klines[c].added

\* Although the rows of tokens and candles that a transaction writes replace those that
\* others committed since it began, and the checkpoint may move back, no graduation and
\* no trade is lost.
\* Code: the UPDATEs of SaveBlockRange read a row after they have locked it, and a
\* process that replays a range finds its raw logs and its trades there.
THEOREM NothingIsTakenBack == OverlapSpec => [][NothingTakenBack]_tables
<1>1. ASSUME OverlapInv, OverlapInv', [OverlapNext]_overlapVars, tables' # tables
      PROVE  NothingTakenBack
  <2>1. PICK p \in Indexers : Commits(p)
    BY <1>1 DEF OverlapNext, overlapVars, Starts, ReadsHead, Fetches, Ticks, InsertsEvent,
                Projects, SavesCheckpoint, Exits
  <2>2. PICK T, Q, W : /\ T = tables /\ Q = tables' /\ W = indexers[p].writes
                       /\ Q = Merge(T, W)
    BY <2>1 DEF Commits, Seen
  <2>3. chain' = chain
    BY <2>1 DEF Commits, chainVars
  <2>4. T.ledger \subseteq Q.ledger /\ T.trades \subseteq Q.trades
    BY <2>2, MergeFields
  <2>5. Shows(T, T.ledger)
    BY <1>1, <2>2 DEF OverlapInv, Sound
  <2>6. Shows(Q, Q.ledger)
    <3>1. Shows(Q, Q.ledger)'
      BY <1>1, <2>2 DEF OverlapInv, Sound
    <3> QED
      BY <2>3, <3>1 DEF Shows, TradesAmong, IsTrade, CandlesAmong, CandleOf, InCandle,
                        CandleRowOf, RowOf, IsLatest, StatusOf, Happened
  <2>7. \A kind, t : Happened(T.ledger, kind, t) => Happened(Q.ledger, kind, t)
    BY <2>4 DEF Happened
  <2>8. \A t \in DOMAIN T.tokens :
           /\ t \in DOMAIN Q.tokens
           /\ T.tokens[t].status = Graduated => Q.tokens[t].status = Graduated
    BY <2>5, <2>6, <2>7 DEF Shows, StatusOf
  <2>9. ASSUME NEW c \in DOMAIN T.klines
        PROVE  c \in DOMAIN Q.klines /\ T.klines[c].added \subseteq Q.klines[c].added
    <3>1. TradesAmong(T.ledger) \subseteq TradesAmong(Q.ledger)
      BY <2>4 DEF TradesAmong
    <3>2. /\ CandlesAmong(T.ledger) \subseteq CandlesAmong(Q.ledger)
          /\ InCandle(T.ledger, c) \subseteq InCandle(Q.ledger, c)
      BY <3>1 DEF CandlesAmong, InCandle
    <3>3. c \in DOMAIN Q.klines
      BY <2>5, <2>6, <2>9, <3>2 DEF Shows
    <3>4. \A row, all : CandleRowOf(row, all) => row.added = all
      BY DEF CandleRowOf, RowOf
    <3> QED
      BY <2>5, <2>6, <2>9, <3>2, <3>3, <3>4 DEF Shows
  <2> QED
    BY <2>2, <2>4, <2>8, <2>9 DEF NothingTakenBack
<1>2. OverlapInv /\ OverlapInv' /\ [OverlapNext]_overlapVars => [NothingTakenBack]_tables
  BY <1>1
<1> QED
  BY <1>2, OverlapInvariant, PTL DEF OverlapSpec

=============================================================================
