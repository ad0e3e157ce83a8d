------------------------- MODULE ChainIndexer_proofs -------------------------
(***************************************************************************)
(* What TLAPS proves of ChainIndexer, for every chain, batch size, number  *)
(* of exits and value of the other constants.                              *)
(***************************************************************************)
EXTENDS ChainIndexer, Chain_proofs

USE DEF RM!Absent, RM!Trading, RM!Graduated, RM!NoCheckpoint

-----------------------------------------------------------------------------
(* Types.                                                                  *)

\* Each projection maps a database image to a database image and touches
\* neither the raw logs nor the checkpoint.
LEMMA ApplyProjectionType ==
  ASSUME ChainTypeOK, NEW k \in DOMAIN chain, NEW d, IsDatabase(d)
  PROVE  /\ IsDatabase(ApplyProjection(d, k))
         /\ ApplyProjection(d, k).ledger = d.ledger
         /\ ApplyProjection(d, k).ckpt = d.ckpt
<1> DEFINE t == chain[k].token
<1>1. k \in Nat /\ t \in Tokens
  BY LogType
<1>2. /\ d = [ledger |-> d.ledger, decoded |-> d.decoded, trades |-> d.trades,
              tokens |-> d.tokens, klines |-> d.klines, ckpt |-> d.ckpt]
      /\ d.tokens \in [Tokens -> TokenRow]
      /\ IsKlineTable(d.klines)
  BY DEF IsDatabase
<1>3. d.tokens[t] = [status |-> d.tokens[t].status, totals |-> d.tokens[t].totals]
      /\ d.tokens[t].status \in {RM!Absent, RM!Trading, RM!Graduated}
      /\ d.tokens[t].totals \in Nat
  BY <1>1, <1>2 DEF TokenRow
<1>4. CASE chain[k].kind = "TokenCreated"
  <2> DEFINE T == IF d.tokens[t].status = RM!Absent
                  THEN [d.tokens EXCEPT ![t] = [status |-> RM!Trading, totals |-> 0]]
                  ELSE d.tokens
  <2>0. ApplyProjection(d, k) = ApplyTokenCreated(d, k)
    BY <1>4 DEF ApplyProjection, TradeKinds
  <2>1. ApplyProjection(d, k) =
          [ledger |-> d.ledger, decoded |-> d.decoded \union {k}, trades |-> d.trades,
           tokens |-> T, klines |-> d.klines, ckpt |-> d.ckpt]
    BY <1>2, <2>0 DEF ApplyTokenCreated
  <2>2. T \in [Tokens -> TokenRow]
    BY <1>1, <1>2 DEF TokenRow
  <2> HIDE DEF T
  <2> QED
    BY <1>1, <1>2, <2>1, <2>2 DEF IsDatabase
<1>5. CASE chain[k].kind \in TradeKinds
  <2> DEFINE T == UpdateToken(d.tokens, t, [status |-> d.tokens[t].status, totals |-> k])
             K == IF k \in d.trades THEN d.klines ELSE UpsertKlines(d.klines, k)
  <2>1. ApplyProjection(d, k) =
          [ledger |-> d.ledger, decoded |-> d.decoded \union {k}, trades |-> d.trades \union {k},
           tokens |-> T, klines |-> K, ckpt |-> d.ckpt]
    BY <1>2, <1>5 DEF ApplyProjection, ApplyTokenTrade, TradeKinds
  <2>2. T \in [Tokens -> TokenRow]
    BY <1>1, <1>2, <1>3 DEF TokenRow, UpdateToken
  <2>3. IsKlineTable(K)
    BY <1>2, UpsertKlinesType
  <2> HIDE DEF T, K
  <2> QED
    BY <1>1, <1>2, <2>1, <2>2, <2>3 DEF IsDatabase
<1>6. CASE chain[k].kind = "TokenGraduated"
  <2> DEFINE T == UpdateToken(d.tokens, t, [status |-> RM!Graduated, totals |-> d.tokens[t].totals])
  <2>1. ApplyProjection(d, k) =
          [ledger |-> d.ledger, decoded |-> d.decoded \union {k}, trades |-> d.trades,
           tokens |-> T, klines |-> d.klines, ckpt |-> d.ckpt]
    BY <1>2, <1>6 DEF ApplyProjection, ApplyTokenGraduated, TradeKinds
  <2>2. T \in [Tokens -> TokenRow]
    BY <1>1, <1>2, <1>3 DEF TokenRow, UpdateToken
  <2> HIDE DEF T
  <2> QED
    BY <1>1, <1>2, <2>1, <2>2 DEF IsDatabase
<1>7. CASE chain[k].kind \notin TradeKinds \union {"TokenCreated", "TokenGraduated"}
  <2>1. ApplyProjection(d, k) = d
    BY <1>7 DEF ApplyProjection, TradeKinds
  <2> QED
    BY <2>1
<1> QED
  BY <1>4, <1>5, <1>6, <1>7

-----------------------------------------------------------------------------
(* The inductive invariant.                                                *)

\* The committed tables end at a block the node has, and hold no refused log.
CommittedOK ==
    /\ db.ckpt # RM!NoCheckpoint => db.ckpt \in StartBlock .. head
    /\ LedgerExact
    /\ OfKind(db.ledger, "Rejected") = {}

\* An orphan saves the range right after the checkpoint, or saves the last one
\* again.
OrphanOK ==
    orphan # NoTx =>
        /\ orphan.ckpt \in StartBlock .. head
        /\ RM!Synced(db) <= orphan.ckpt
        /\ orphan.ckpt <= RM!Synced(db) + BlockBatchSize
        /\ orphan.ledger = LogsBetween(StartBlock, orphan.ckpt)
        /\ OfKind(orphan.ledger, "Rejected") = {}

\* The process's first unsaved block is the one after the checkpoint it read;
\* only the orphan of its predecessor can have moved the checkpoint since, by
\* at most one range.
NextOK ==
    pc # "down" =>
        /\ StartBlock <= next
        /\ next <= RM!Synced(db) + 1
        /\ RM!Synced(db) < next + BlockBatchSize
        /\ orphan # NoTx => next = RM!Synced(db) + 1

\* What the node answered covers the checkpoint and the orphan's range.
LatestOK ==
    pc \in {"range", "decode", "save", "project", "commit"} =>
        /\ latest <= head
        /\ db.ckpt <= latest
        /\ orphan # NoTx => orphan.ckpt <= latest

\* The logs in memory are those of the range that is being saved.
RangeOK ==
    pc \in {"decode", "save", "project", "commit"} =>
        /\ next <= latest
        /\ end = LastOfRange
        /\ logs = LogsBetween(next, end)

\* Projections wait only between the decoding and the checkpoint.
TodoOK == pc \notin {"save", "project"} => todo = {}

\* The open transaction holds the raw logs up to the range's last block.
SavingOK ==
    /\ pc \in {"save", "project", "commit"} => OfKind(logs, "Rejected") = {}
    /\ pc \in {"project", "commit"} =>
          /\ orphan = NoTx
          /\ tx.ledger = LogsBetween(StartBlock, end)
    /\ pc = "commit" => tx.ckpt = end

IInv ==
    /\ TypeOK
    /\ ChainBounded
    /\ CommittedOK
    /\ OrphanOK
    /\ NextOK
    /\ LatestOK
    /\ RangeOK
    /\ TodoOK
    /\ SavingOK

-----------------------------------------------------------------------------
(* Init and every action preserve the invariant.                           *)

\* The block the checkpoint row vouches for is a number, also before the first
\* SaveBlockRange.
LEMMA SyncedType ==
  ASSUME NEW d, d.ckpt \in Nat \union {RM!NoCheckpoint}
  PROVE  RM!Synced(d) \in Int
BY ChainAssumption DEF ChainAssumption, RM!Synced

\* Before the first start nothing is stored and nothing is in memory.
LEMMA InitIInv == Init => IInv
<1> SUFFICES ASSUME Init PROVE IInv
  OBVIOUS
<1>1. chain = << >> /\ head = 0 /\ db = RM!EmptyDatabase /\ pc = "down"
  BY DEF Init, ChainInit
<1>2. DOMAIN chain = {}
  BY <1>1
<1>3. IsDatabase(db)
  BY <1>1 DEF RM!EmptyDatabase, IsDatabase, IsKlineTable, TokenRow
<1>4. TypeOK
  BY <1>1, <1>2, <1>3 DEF Init, TypeOK, ChainTypeOK
<1>5. CommittedOK
  BY <1>1, <1>2 DEF RM!EmptyDatabase, CommittedOK, LedgerExact, LogsBetween, OfKind
<1> QED
  BY <1>1, <1>2, <1>4, <1>5
     DEF Init, IInv, ChainBounded, OrphanOK, NextOK, LatestOK, RangeOK, TodoOK, SavingOK

\* New blocks change neither the tables nor the range being saved: FilterLogs
\* was asked for blocks the node had.
LEMMA GrowChainIInv == IInv /\ GrowChain => IInv'
<1> SUFFICES ASSUME IInv, GrowChain PROVE IInv'
  OBVIOUS
<1>0. /\ TypeOK /\ ChainBounded /\ CommittedOK /\ OrphanOK
      /\ NextOK /\ LatestOK /\ RangeOK /\ TodoOK /\ SavingOK
  BY DEF IInv
<1>1. /\ ChainTypeOK /\ ChainNext
      /\ UNCHANGED <<db, tx, orphan, pc, next, latest, end, logs, todo, exits>>
  BY <1>0 DEF GrowChain, TypeOK, memVars
<1>2. /\ ChainTypeOK' /\ ChainBounded' /\ head' \in Nat /\ head <= head'
      /\ DOMAIN chain \subseteq DOMAIN chain'
      /\ \A k \in DOMAIN chain : chain'[k] = chain[k]
  BY <1>0, <1>1, ChainGrows
<1>3. \A from, to \in Int :
         to <= head \/ to < from => LogsBetween(from, to)' = LogsBetween(from, to)
  BY <1>0, <1>1, LogsFixed
<1>4. \A from, to \in Int : LogsBetween(from, to) \subseteq DOMAIN chain
  BY DEF LogsBetween
<1>5. \A S \in SUBSET DOMAIN chain : OfKind(S, "Rejected")' = OfKind(S, "Rejected")
  BY <1>2 DEF OfKind
<1>6. TypeOK'
  BY <1>0, <1>1, <1>2 DEF TypeOK
<1>7. CommittedOK'
  <2>1. RM!Synced(db) \in Int /\ StartBlock \in Int
    BY <1>0, SyncedType, ChainAssumption DEF TypeOK, IsDatabase, ChainAssumption
  <2>2. RM!Synced(db) <= head \/ RM!Synced(db) < StartBlock
    BY <1>0, <2>1 DEF CommittedOK, RM!Synced
  <2>3. LogsBetween(StartBlock, RM!Synced(db))' = LogsBetween(StartBlock, RM!Synced(db))
    BY <1>1, <1>3, <2>1, <2>2 DEF RM!Synced
  <2>4. db.ledger \subseteq DOMAIN chain
    BY <1>0, <1>4, <2>1 DEF CommittedOK, LedgerExact
  <2>5. LedgerExact'
    BY <1>0, <1>1, <2>3 DEF CommittedOK, LedgerExact
  <2>6. OfKind(db.ledger, "Rejected")' = {}
    BY <1>0, <1>1, <1>5, <2>4 DEF CommittedOK
  <2>7. db'.ckpt # RM!NoCheckpoint => db'.ckpt \in StartBlock .. head'
    BY <1>0, <1>1, <1>2, <2>1 DEF CommittedOK, TypeOK, ChainTypeOK
  <2> QED
    BY <2>5, <2>6, <2>7 DEF CommittedOK
<1>8. OrphanOK'
  <2> SUFFICES ASSUME orphan # NoTx PROVE OrphanOK'
    BY <1>1 DEF OrphanOK
  <2>1. StartBlock \in Int /\ orphan.ckpt \in Int /\ orphan.ckpt <= head
    BY <1>0, ChainAssumption DEF TypeOK, ChainTypeOK, OrphanOK, ChainAssumption
  <2>2. LogsBetween(StartBlock, orphan.ckpt)' = LogsBetween(StartBlock, orphan.ckpt)
    BY <1>1, <1>3, <2>1
  <2>3. orphan.ledger \subseteq DOMAIN chain
    BY <1>0, <1>4, <2>1 DEF OrphanOK
  <2>4. OfKind(orphan.ledger, "Rejected")' = {}
    BY <1>0, <1>1, <1>5, <2>3 DEF OrphanOK
  <2>5. orphan.ckpt \in StartBlock .. head'
    BY <1>0, <1>2, <2>1 DEF OrphanOK, TypeOK, ChainTypeOK
  <2> QED
    BY <1>0, <1>1, <2>2, <2>4, <2>5 DEF OrphanOK, RM!Synced
<1>9. NextOK' /\ LatestOK'
  <2>1. NextOK'
    BY <1>0, <1>1 DEF NextOK, RM!Synced
  <2>2. LatestOK'
    BY <1>0, <1>1, <1>2 DEF LatestOK, TypeOK, ChainTypeOK
  <2> QED
    BY <2>1, <2>2
<1>10. RangeOK' /\ SavingOK'
  <2> SUFFICES ASSUME pc \in {"decode", "save", "project", "commit"}
               PROVE  RangeOK' /\ SavingOK'
    BY <1>1 DEF RangeOK, SavingOK
  <2>1. next \in Int /\ end \in Int /\ StartBlock \in Int /\ end <= head
    BY <1>0, ChainAssumption, IndexerAssumption
       DEF TypeOK, ChainTypeOK, RangeOK, LatestOK, LastOfRange, ChainAssumption, IndexerAssumption
  <2>2. /\ LogsBetween(next, end)' = LogsBetween(next, end)
        /\ LogsBetween(StartBlock, end)' = LogsBetween(StartBlock, end)
    BY <1>1, <1>3, <2>1
  <2>3. RangeOK'
    BY <1>0, <1>1, <2>2 DEF RangeOK, LastOfRange
  <2>4. OfKind(logs, "Rejected")' = OfKind(logs, "Rejected")
    BY <1>0, <1>1, <1>5 DEF TypeOK
  <2>5. SavingOK'
    BY <1>0, <1>1, <2>2, <2>4 DEF SavingOK
  <2> QED
    BY <2>3, <2>5
<1>11. TodoOK'
  BY <1>0, <1>1 DEF TodoOK
<1> QED
  BY <1>2, <1>6, <1>7, <1>8, <1>9, <1>10, <1>11 DEF IInv

\* The steps that read: they change neither the tables nor the transaction.
LEMMA ReadingIInv ==
  ASSUME IInv, Resume \/ ReadHead \/ Fetch \/ CaughtUp \/ Tick \/ Decode \/ DecodeFails
  PROVE  IInv'
<1> USE ChainAssumption, IndexerAssumption DEF ChainAssumption, IndexerAssumption
<1>0. /\ TypeOK /\ ChainBounded /\ CommittedOK /\ OrphanOK
      /\ NextOK /\ LatestOK /\ RangeOK /\ TodoOK /\ SavingOK
  BY DEF IInv
<1>1. UNCHANGED <<chain, head, db, tx, orphan, exits>>
  BY DEF Resume, ReadHead, Fetch, CaughtUp, Tick, Decode, DecodeFails, chainVars
<1>2. ChainBounded' /\ CommittedOK' /\ OrphanOK'
  BY <1>0, <1>1 DEF ChainBounded, CommittedOK, LedgerExact, OrphanOK, OfKind, LogsBetween, RM!Synced
<1>3. db.ckpt \in Nat \union {RM!NoCheckpoint}
  BY <1>0 DEF TypeOK, IsDatabase
<1>4. CASE Resume
  <2>0. TodoOK'
    BY <1>0, <1>4 DEF Resume, TodoOK
  <2>1. TypeOK'
    BY <1>0, <1>1, <1>3, <1>4 DEF Resume, TypeOK, ChainTypeOK
  <2>2. NextOK'
    BY <1>0, <1>1, <1>3, <1>4 DEF Resume, NextOK, CommittedOK, OrphanOK, RM!Synced
  <2> QED
    BY <1>2, <1>4, <2>0, <2>1, <2>2 DEF Resume, IInv, LatestOK, RangeOK, SavingOK
<1>5. CASE ReadHead
  <2>0. TodoOK'
    BY <1>0, <1>5 DEF ReadHead, TodoOK
  <2>1. TypeOK' /\ NextOK'
    BY <1>0, <1>1, <1>5 DEF ReadHead, TypeOK, ChainTypeOK, NextOK, RM!Synced
  <2>2. LatestOK'
    BY <1>0, <1>1, <1>3, <1>5 DEF ReadHead, LatestOK, CommittedOK, OrphanOK, TypeOK, ChainTypeOK
  <2> QED
    BY <1>2, <1>5, <2>0, <2>1, <2>2 DEF ReadHead, IInv, RangeOK, SavingOK
<1>6. CASE Fetch
  <2>1. LastOfRange \in Nat /\ next <= LastOfRange
    BY <1>0, <1>6 DEF Fetch, LastOfRange, TypeOK
  <2>2. TodoOK' /\ NextOK'
    BY <1>0, <1>1, <1>6 DEF Fetch, TodoOK, NextOK, RM!Synced
  <2>3. TypeOK'
    BY <1>0, <1>1, <1>6, <2>1 DEF Fetch, TypeOK, TodoOK, ChainTypeOK, LogsBetween
  <2>4. LatestOK' /\ RangeOK'
    BY <1>0, <1>1, <1>6 DEF Fetch, LatestOK, RangeOK, LastOfRange, LogsBetween
  <2> QED
    BY <1>2, <1>6, <2>2, <2>3, <2>4 DEF Fetch, IInv, SavingOK
<1>7. CASE CaughtUp \/ Tick
  <2>1. /\ pc \in {"range", "idle"} /\ pc' \in {"idle", "poll"}
        /\ UNCHANGED <<next, latest, end, logs, todo>>
    BY <1>7 DEF CaughtUp, Tick, memVars
  <2>2. TypeOK'
    BY <1>0, <1>1, <2>1 DEF TypeOK, ChainTypeOK
  <2>3. NextOK' /\ TodoOK'
    BY <1>0, <1>1, <2>1 DEF NextOK, TodoOK, RM!Synced
  <2> QED
    BY <1>2, <2>1, <2>2, <2>3 DEF IInv, LatestOK, RangeOK, SavingOK
<1>8. CASE Decode
  <2>1. TypeOK' /\ NextOK'
    BY <1>0, <1>1, <1>8 DEF Decode, ProjectedAmong, TypeOK, ChainTypeOK, NextOK, RM!Synced
  <2>2. LatestOK' /\ RangeOK' /\ TodoOK' /\ SavingOK'
    BY <1>0, <1>1, <1>8 DEF Decode, TodoOK, LatestOK, RangeOK, SavingOK, LastOfRange, LogsBetween, OfKind
  <2> QED
    BY <1>2, <2>1, <2>2 DEF IInv
<1>9. CASE DecodeFails
  <2>1. TypeOK'
    BY <1>0, <1>1, <1>9 DEF DecodeFails, ForgetMemory, TypeOK, ChainTypeOK
  <2> QED
    BY <1>2, <1>9, <2>1 DEF DecodeFails, ForgetMemory, IInv, NextOK, LatestOK, RangeOK, TodoOK,
                            SavingOK
<1> QED
  BY <1>4, <1>5, <1>6, <1>7, <1>8, <1>9

\* The transaction SaveBlockRange opens sees the committed tables and adds the
\* logs of the range.
LEMMA InsertEventsIInv == IInv /\ InsertEvents => IInv'
<1> SUFFICES ASSUME IInv, InsertEvents PROVE IInv'
  OBVIOUS
<1> USE ChainAssumption, IndexerAssumption DEF ChainAssumption, IndexerAssumption
<1>0. /\ TypeOK /\ ChainBounded /\ CommittedOK /\ OrphanOK
      /\ NextOK /\ LatestOK /\ RangeOK /\ TodoOK /\ SavingOK
  BY DEF IInv
<1>1. /\ pc = "save" /\ pc' = "project" /\ orphan = NoTx
      /\ tx' = [db EXCEPT !.ledger = db.ledger \union logs]
      /\ UNCHANGED <<chain, head, db, orphan, next, latest, end, logs, todo, exits>>
  BY DEF InsertEvents, chainVars, memVars
<1>2. /\ ChainBounded' /\ CommittedOK' /\ OrphanOK'
      /\ NextOK' /\ LatestOK' /\ RangeOK' /\ TodoOK'
  BY <1>0, <1>1 DEF ChainBounded, CommittedOK, LedgerExact, OrphanOK, NextOK, LatestOK, RangeOK,
                    TodoOK, LastOfRange, OfKind, LogsBetween, RM!Synced
<1>3. IsDatabase(db) /\ logs \subseteq Nat
  BY <1>0, LogType DEF TypeOK
<1>4. tx' = [ledger |-> db.ledger \union logs, decoded |-> db.decoded, trades |-> db.trades,
             tokens |-> db.tokens, klines |-> db.klines, ckpt |-> db.ckpt]
  BY <1>1, <1>3 DEF IsDatabase
<1>5. IsDatabase(tx')
  BY <1>3, <1>4 DEF IsDatabase
<1>6. TypeOK'
  BY <1>0, <1>1, <1>5 DEF TypeOK, ChainTypeOK
<1>7. tx'.ledger = LogsBetween(StartBlock, end)
  <2>1. /\ StartBlock \in Int /\ next \in Int /\ end \in Int /\ RM!Synced(db) \in Int
        /\ StartBlock <= next /\ next <= RM!Synced(db) + 1
    BY <1>0, <1>1, <1>3, SyncedType DEF TypeOK, NextOK, IsDatabase
  <2>2. RM!Synced(db) <= end
    BY <1>0, <1>1, <1>3 DEF TypeOK, NextOK, LatestOK, RangeOK, LastOfRange, IsDatabase, RM!Synced
  <2>3. db.ledger \union logs = LogsBetween(StartBlock, end)
    BY <1>0, <1>1, <2>1, <2>2, LogsJoin DEF TypeOK, CommittedOK, LedgerExact, RangeOK
  <2> QED
    BY <1>4, <2>3
<1>8. SavingOK'
  BY <1>0, <1>1, <1>7 DEF SavingOK, OfKind, LogsBetween
<1> QED
  BY <1>2, <1>6, <1>8 DEF IInv

\* applyProjection changes the transaction only, and neither its raw logs nor
\* its checkpoint.
LEMMA ProjectIInv == IInv /\ Project => IInv'
<1> SUFFICES ASSUME IInv, NEW k \in todo,
                    pc = "project",
                    tx' = ApplyProjection(tx, k),
                    todo' = todo \ {k},
                    UNCHANGED <<chain, head, db, orphan, pc, next, latest, end, logs, exits>>
             PROVE  IInv'
  BY DEF Project, chainVars
<1>0. /\ TypeOK /\ ChainBounded /\ CommittedOK /\ OrphanOK
      /\ NextOK /\ LatestOK /\ RangeOK /\ TodoOK /\ SavingOK
  BY DEF IInv
<1>1. /\ ChainBounded' /\ CommittedOK' /\ OrphanOK'
      /\ NextOK' /\ LatestOK' /\ RangeOK' /\ TodoOK'
  BY <1>0 DEF ChainBounded, CommittedOK, LedgerExact, OrphanOK, NextOK, LatestOK, RangeOK,
              TodoOK, LastOfRange, OfKind, LogsBetween, RM!Synced
<1>2. IsDatabase(tx') /\ tx'.ledger = tx.ledger
  BY <1>0, ApplyProjectionType DEF TypeOK
<1>3. TypeOK'
  BY <1>0, <1>2 DEF TypeOK, ChainTypeOK
<1>4. SavingOK'
  BY <1>0, <1>2 DEF SavingOK, OfKind, LogsBetween
<1> QED
  BY <1>1, <1>3, <1>4 DEF IInv

\* With the checkpoint written, the transaction holds the logs up to it.
LEMMA SaveCheckpointIInv == IInv /\ SaveCheckpoint => IInv'
<1> SUFFICES ASSUME IInv, SaveCheckpoint PROVE IInv'
  OBVIOUS
<1>0. /\ TypeOK /\ ChainBounded /\ CommittedOK /\ OrphanOK
      /\ NextOK /\ LatestOK /\ RangeOK /\ TodoOK /\ SavingOK
  BY DEF IInv
<1>1. /\ pc = "project" /\ pc' = "commit" /\ todo = {}
      /\ tx' = [tx EXCEPT !.ckpt = end]
      /\ UNCHANGED <<chain, head, db, orphan, next, latest, end, logs, todo, exits>>
  BY DEF SaveCheckpoint, chainVars, memVars
<1>2. /\ ChainBounded' /\ CommittedOK' /\ OrphanOK'
      /\ NextOK' /\ LatestOK' /\ RangeOK' /\ TodoOK'
  BY <1>0, <1>1 DEF ChainBounded, CommittedOK, LedgerExact, OrphanOK, NextOK, LatestOK, RangeOK,
                    TodoOK, LastOfRange, OfKind, LogsBetween, RM!Synced
<1>3. IsDatabase(tx) /\ end \in Nat
  BY <1>0, <1>1 DEF TypeOK
<1>4. tx' = [ledger |-> tx.ledger, decoded |-> tx.decoded, trades |-> tx.trades,
             tokens |-> tx.tokens, klines |-> tx.klines, ckpt |-> end]
  BY <1>1, <1>3 DEF IsDatabase
<1>5. IsDatabase(tx')
  BY <1>3, <1>4 DEF IsDatabase
<1>6. TypeOK'
  BY <1>0, <1>1, <1>5 DEF TypeOK, ChainTypeOK
<1>7. SavingOK'
  BY <1>0, <1>1, <1>4 DEF SavingOK, OfKind, LogsBetween
<1> QED
  BY <1>2, <1>6, <1>7 DEF IInv

\* What the transaction holds when its Commit is sent.
LEMMA ReadyToCommit ==
  ASSUME IInv, pc = "commit"
  PROVE  /\ IsDatabase(db) /\ IsDatabase(tx) /\ orphan = NoTx
         /\ end \in StartBlock .. head /\ end <= latest /\ end \in Nat
         /\ tx.ckpt = end
         /\ RM!Synced(db) \in Int /\ RM!Synced(db) <= end
         /\ end <= RM!Synced(db) + BlockBatchSize
         /\ tx.ledger = LogsBetween(StartBlock, end)
         /\ db.ledger \subseteq tx.ledger
         /\ OfKind(tx.ledger, "Rejected") = {}
<1> USE ChainAssumption, IndexerAssumption DEF ChainAssumption, IndexerAssumption
<1>0. /\ TypeOK /\ CommittedOK /\ NextOK /\ LatestOK /\ RangeOK /\ SavingOK
  BY DEF IInv
<1>1. /\ IsDatabase(db) /\ IsDatabase(tx) /\ orphan = NoTx
      /\ tx.ckpt = end /\ tx.ledger = LogsBetween(StartBlock, end)
      /\ db.ckpt \in Nat \union {RM!NoCheckpoint}
  BY <1>0 DEF TypeOK, SavingOK, IsDatabase
<1>2. RM!Synced(db) \in Int
  BY <1>1, SyncedType
<1>3. /\ head \in Nat /\ latest \in Nat /\ end \in Nat /\ next \in Nat
      /\ StartBlock <= next /\ next <= RM!Synced(db) + 1
      /\ RM!Synced(db) < next + BlockBatchSize
      /\ latest <= head /\ db.ckpt <= latest /\ next <= latest
      /\ end = LastOfRange /\ logs = LogsBetween(next, end)
  BY <1>0 DEF TypeOK, ChainTypeOK, NextOK, LatestOK, RangeOK
<1>4. /\ end \in StartBlock .. head /\ end <= latest
      /\ end <= RM!Synced(db) + BlockBatchSize
  BY <1>2, <1>3 DEF LastOfRange
<1>5. RM!Synced(db) <= end
  BY <1>1, <1>2, <1>3 DEF LastOfRange, RM!Synced
<1>6. db.ledger \union logs = tx.ledger
  BY <1>0, <1>1, <1>2, <1>3, <1>5, LogsJoin DEF TypeOK, CommittedOK, LedgerExact
<1>7. OfKind(tx.ledger, "Rejected") = {}
  BY <1>0, <1>6 DEF CommittedOK, SavingOK, OfKind
<1> QED
  BY <1>1, <1>2, <1>3, <1>4, <1>5, <1>6, <1>7

\* The commit of SaveBlockRange moves tables, checkpoint and next together.
LEMMA CommitIInv == IInv /\ Commit => IInv'
<1> SUFFICES ASSUME IInv, Commit PROVE IInv'
  OBVIOUS
<1> USE ChainAssumption, IndexerAssumption DEF ChainAssumption, IndexerAssumption
<1>0. TypeOK /\ ChainBounded /\ LatestOK /\ TodoOK
  BY DEF IInv
<1>1. /\ pc = "commit" /\ pc' = "range"
      /\ db' = tx /\ tx' = NoTx /\ next' = end + 1 /\ end' = 0 /\ logs' = {} /\ todo' = todo
      /\ UNCHANGED <<chain, head, orphan, latest, exits>>
  BY DEF Commit, chainVars
<1>2. /\ IsDatabase(tx) /\ orphan = NoTx
      /\ end \in StartBlock .. head /\ end <= latest /\ end \in Nat
      /\ tx.ckpt = end
      /\ tx.ledger = LogsBetween(StartBlock, end)
      /\ OfKind(tx.ledger, "Rejected") = {}
  BY <1>1, ReadyToCommit
<1>3. RM!Synced(db)' = end
  BY <1>1, <1>2 DEF RM!Synced
<1>4. TypeOK'
  BY <1>0, <1>1, <1>2 DEF TypeOK, ChainTypeOK, TodoOK
<1>5. CommittedOK'
  BY <1>1, <1>2, <1>3 DEF CommittedOK, LedgerExact, OfKind, LogsBetween
<1>6. NextOK' /\ LatestOK'
  BY <1>0, <1>1, <1>2, <1>3 DEF NextOK, LatestOK, TypeOK
<1> QED
  BY <1>0, <1>1, <1>2, <1>4, <1>5, <1>6
     DEF IInv, ChainBounded, OrphanOK, RangeOK, TodoOK, SavingOK

\* A lost process leaves the committed tables, and at most one transaction
\* whose commit was sent.
LEMMA ExitIInv == IInv /\ (Exit \/ ExitDuringCommit) => IInv'
<1> SUFFICES ASSUME IInv, Exit \/ ExitDuringCommit PROVE IInv'
  OBVIOUS
<1>0. /\ TypeOK /\ ChainBounded /\ CommittedOK /\ OrphanOK
      /\ NextOK /\ LatestOK /\ RangeOK /\ TodoOK /\ SavingOK
  BY DEF IInv
<1>1. /\ pc' = "down" /\ tx' = NoTx /\ exits' = exits + 1
      /\ next' = 0 /\ latest' = 0 /\ end' = 0 /\ logs' = {} /\ todo' = {}
      /\ UNCHANGED <<chain, head, db>>
  BY DEF Exit, ExitDuringCommit, ForgetMemory, chainVars
<1>2. orphan' = orphan \/ (pc = "commit" /\ orphan' = tx)
  BY DEF Exit, ExitDuringCommit
<1>3. TypeOK'
  BY <1>0, <1>1, <1>2 DEF TypeOK, ChainTypeOK
<1>4. /\ ChainBounded' /\ CommittedOK' /\ NextOK' /\ LatestOK' /\ RangeOK'
      /\ TodoOK' /\ SavingOK'
  BY <1>0, <1>1 DEF ChainBounded, CommittedOK, LedgerExact, NextOK, LatestOK, RangeOK,
                    TodoOK, SavingOK, OfKind, LogsBetween, RM!Synced
<1>5. CASE orphan' = orphan
  <2>1. OrphanOK'
    BY <1>0, <1>1, <1>5 DEF OrphanOK, OfKind, LogsBetween, RM!Synced
  <2> QED
    BY <1>3, <1>4, <2>1 DEF IInv
<1>6. CASE pc = "commit" /\ orphan' = tx
  <2>1. OrphanOK'
    BY <1>1, <1>6, ReadyToCommit DEF OrphanOK, OfKind, LogsBetween, RM!Synced
  <2> QED
    BY <1>3, <1>4, <2>1 DEF IInv
<1> QED
  BY <1>2, <1>5, <1>6

\* A commit that lands after its process is gone leaves no gap before the range
\* the next process is reading.
LEMMA OrphanIInv == IInv /\ (OrphanCommits \/ OrphanAborts) => IInv'
<1> SUFFICES ASSUME IInv, OrphanCommits \/ OrphanAborts PROVE IInv'
  OBVIOUS
<1> USE ChainAssumption, IndexerAssumption DEF ChainAssumption, IndexerAssumption
<1>0. /\ TypeOK /\ ChainBounded /\ CommittedOK /\ OrphanOK
      /\ NextOK /\ LatestOK /\ RangeOK /\ TodoOK /\ SavingOK
  BY DEF IInv
<1>1. /\ orphan # NoTx /\ orphan' = NoTx
      /\ db' = db \/ db' = orphan
      /\ UNCHANGED <<chain, head, tx, pc, next, latest, end, logs, todo, exits>>
  BY DEF OrphanCommits, OrphanAborts, chainVars, memVars
<1>2. pc \notin {"project", "commit"}
  BY <1>0, <1>1 DEF SavingOK
<1>3. /\ TypeOK' /\ ChainBounded' /\ OrphanOK' /\ RangeOK' /\ TodoOK' /\ SavingOK'
  BY <1>0, <1>1, <1>2 DEF TypeOK, ChainTypeOK, ChainBounded, OrphanOK, RangeOK, TodoOK, SavingOK,
                          LastOfRange, OfKind, LogsBetween
<1>4. CASE db' = db
  <2>1. CommittedOK' /\ NextOK' /\ LatestOK'
    BY <1>0, <1>1, <1>4 DEF CommittedOK, LedgerExact, NextOK, LatestOK, OfKind, LogsBetween,
                            RM!Synced
  <2> QED
    BY <1>3, <2>1 DEF IInv
<1>5. CASE db' = orphan
  <2>1. /\ orphan.ckpt \in StartBlock .. head /\ head \in Nat /\ orphan.ckpt \in Nat
        /\ db.ckpt \in Nat \union {RM!NoCheckpoint}
        /\ RM!Synced(db) \in Int
        /\ RM!Synced(db)' = orphan.ckpt
    <3>1. orphan.ckpt \in StartBlock .. head /\ head \in Nat /\ orphan.ckpt \in Nat
      BY <1>0, <1>1 DEF TypeOK, ChainTypeOK, OrphanOK, IsDatabase
    <3>2. db.ckpt \in Nat \union {RM!NoCheckpoint} /\ RM!Synced(db) \in Int
      BY <1>0, SyncedType DEF TypeOK, IsDatabase
    <3>3. RM!Synced(db)' = orphan.ckpt
      BY <1>5, <3>1 DEF RM!Synced, RM!NoCheckpoint
    <3> QED
      BY <3>1, <3>2, <3>3
  <2>2. CommittedOK'
    BY <1>0, <1>1, <1>5, <2>1 DEF CommittedOK, OrphanOK, LedgerExact, OfKind, LogsBetween
  <2>3. NextOK'
    BY <1>0, <1>1, <2>1 DEF NextOK, OrphanOK, TypeOK
  <2>4. LatestOK'
    BY <1>0, <1>1, <1>5 DEF LatestOK
  <2> QED
    BY <1>3, <2>2, <2>3, <2>4 DEF IInv
<1> QED
  BY <1>1, <1>4, <1>5

\* Every behaviour of the indexer satisfies the inductive invariant.
THEOREM IndexerInvariant == Spec => []IInv
<1>1. IInv /\ [Next]_vars => IInv'
  <2> SUFFICES ASSUME IInv, [Next]_vars PROVE IInv'
    OBVIOUS
  <2>1. CASE GrowChain
    BY <2>1, GrowChainIInv
  <2>2. CASE Run
    BY <2>2, ReadingIInv, InsertEventsIInv, ProjectIInv, SaveCheckpointIInv, CommitIInv DEF Run
  <2>3. CASE Exit \/ ExitDuringCommit
    BY <2>3, ExitIInv
  <2>4. CASE OrphanCommits \/ OrphanAborts
    BY <2>4, OrphanIInv
  <2>5. CASE UNCHANGED vars
    BY <2>5 DEF vars, IInv, TypeOK, ChainTypeOK, ChainBounded, CommittedOK, LedgerExact, OrphanOK,
                NextOK, LatestOK, RangeOK, TodoOK, SavingOK, LastOfRange, OfKind, LogsBetween,
                RM!Synced
  <2> QED
    BY <2>1, <2>2, <2>3, <2>4, <2>5 DEF Next
<1> QED
  BY InitIInv, <1>1, PTL DEF Spec

-----------------------------------------------------------------------------
(* The properties.                                                         *)

\* The variables of Run, syncAvailable and SaveBlockRange keep their types.
THEOREM TypeCorrect == Spec => []TypeOK
BY IndexerInvariant, PTL DEF IInv

\* However often the process exits, and whenever the server settles a lost
\* commit, chain_events holds exactly the logs up to the checkpoint.
THEOREM LedgerIsExact == Spec => []LedgerExact
<1>1. IInv => LedgerExact
  BY DEF IInv, CommittedOK
<1> QED
  BY IndexerInvariant, <1>1, PTL

\* nextBlock reads the checkpoint once; no range leaves a block out for it.
THEOREM NoBlockIsSkipped == Spec => []NoGap
<1>1. IInv => NoGap
  <2> SUFFICES ASSUME IInv PROVE NoGap
    OBVIOUS
  <2>0. TypeOK /\ NextOK /\ LatestOK /\ RangeOK
    BY DEF IInv
  <2>1. ASSUME pc \in {"project", "commit"}
        PROVE  RM!Synced(db) <= end
    <3>1. /\ db.ckpt \in Nat \union {RM!NoCheckpoint} /\ RM!Synced(db) \in Int
          /\ next \in Nat /\ latest \in Nat
      BY <2>0, SyncedType DEF TypeOK, IsDatabase
    <3>2. /\ StartBlock <= next /\ next <= latest /\ end = LastOfRange
          /\ RM!Synced(db) < next + BlockBatchSize /\ db.ckpt <= latest
      BY <2>0, <2>1 DEF NextOK, LatestOK, RangeOK
    <3> QED
      BY <3>1, <3>2, ChainAssumption, IndexerAssumption
         DEF LastOfRange, RM!Synced, ChainAssumption, IndexerAssumption
  <2> QED
    BY <2>0, <2>1 DEF NoGap, NextOK
<1> QED
  BY IndexerInvariant, <1>1, PTL

\* One log that decodeProjection or a column refuses keeps the checkpoint
\* before its block for ever.
THEOREM RefusedLogHolds == Spec => []RejectedHolds
<1>1. IInv => RejectedHolds
  <2> SUFFICES ASSUME IInv,
                      NEW k \in OfKind(DOMAIN chain, "Rejected"),
                      chain[k].block >= StartBlock
               PROVE  RM!Synced(db) < chain[k].block
    BY DEF RejectedHolds
  <2>1. RM!Synced(db) \in Int /\ StartBlock \in Nat
    BY SyncedType, ChainAssumption DEF IInv, TypeOK, IsDatabase, ChainAssumption
  <2>2. k \in DOMAIN chain /\ chain[k].kind = "Rejected" /\ chain[k].block \in Nat
    BY LogType DEF IInv, TypeOK, OfKind
  <2>3. k \notin LogsBetween(StartBlock, RM!Synced(db))
    BY <2>2 DEF IInv, CommittedOK, LedgerExact, OfKind
  <2> QED
    BY <2>1, <2>2, <2>3 DEF LogsBetween
<1> QED
  BY IndexerInvariant, <1>1, PTL

-----------------------------------------------------------------------------
(* The second invariant, on top of IInv: what the tables other than the    *)
(* ledger hold, of the committed image and of those that may replace it.   *)

\* Statuses, trades and candles of image d are those of the logs it decoded.
Projected(d) ==
    /\ d.trades = TradesAmong(d.decoded)
    /\ \A t \in Tokens : d.tokens[t].status =
          IF ~Happened(d.decoded, "TokenCreated", t) THEN RM!Absent
          ELSE IF Happened(d.decoded, "TokenGraduated", t) THEN RM!Graduated ELSE RM!Trading
    /\ DOMAIN d.klines = CandlesAmong(d.decoded)
    /\ \A c \in DOMAIN d.klines : CandleRowOf(d.klines[c], InCandle(d.decoded, c))

\* The totals of each row are those of the token's latest trade in S, and
\* before it what they were in the rows "old".
TotalsOf(d, S, old) ==
    \A t \in Tokens :
       /\ d.tokens[t].status = RM!Absent => d.tokens[t].totals = 0
       /\ d.tokens[t].status # RM!Absent =>
             IF TradesOf(S, t) = {} THEN d.tokens[t].totals = old[t]
             ELSE IsLatest(d.tokens[t].totals, TradesOf(S, t))

\* Image d is complete: every log of its ledger that has a projection got it.
Settled(d) ==
    /\ d.ledger \subseteq DOMAIN chain
    /\ d.decoded = ProjectedAmong(d.ledger)
    /\ Projected(d)
    /\ TotalsOf(d, d.decoded, [t \in Tokens |-> 0])

\* The images that are, or may become, the committed one without the process.
Landed == {db} \union {d \in {orphan} : d # NoTx}

\* The image of the open transaction.
Open == {d \in {tx} : pc \in {"project", "commit"}}

\* The projections of the range that are applied.
Done == ProjectedAmong(logs) \ todo

\* The open image d is the committed one with some projections of the range
\* applied, in log order.
Applied(d) ==
    /\ todo \subseteq ProjectedAmong(logs)
    /\ \A j \in Done, k \in todo : j < k
    /\ d.decoded = db.decoded \union Done
    /\ Projected(d)
    /\ TotalsOf(d, Done, [t \in Tokens |-> db.tokens[t].totals])

ImageInv ==
    /\ ChainOrdered
    /\ \A d \in Landed : Settled(d)
    /\ pc = "save" => todo = ProjectedAmong(logs)
    /\ \A d \in Open : Applied(d)

-----------------------------------------------------------------------------
(* What applying one projection does to such an image.                     *)

\* applyTokenCreated.
LEMMA CreatedApplied ==
  ASSUME ChainTypeOK, NEW k \in DOMAIN chain, chain[k].kind = "TokenCreated", NEW d, IsDatabase(d)
  PROVE  LET e == ApplyProjection(d, k)
             t == chain[k].token
         IN  /\ e.decoded = d.decoded \union {k} /\ e.trades = d.trades /\ e.klines = d.klines
             /\ \A u \in Tokens :
                  IF u = t /\ d.tokens[t].status = RM!Absent
                  THEN e.tokens[u].status = RM!Trading /\ e.tokens[u].totals = 0
                  ELSE e.tokens[u] = d.tokens[u]
<1> DEFINE e == ApplyProjection(d, k)
           t == chain[k].token
           T == IF d.tokens[t].status = RM!Absent
                THEN [d.tokens EXCEPT ![t] = [status |-> RM!Trading, totals |-> 0]]
                ELSE d.tokens
<1>1. t \in Tokens /\ d.tokens \in [Tokens -> TokenRow]
  BY LogType DEF IsDatabase
<1>2. e = ApplyTokenCreated(d, k)
  BY DEF ApplyProjection, TradeKinds
<1>3. d = [ledger |-> d.ledger, decoded |-> d.decoded, trades |-> d.trades,
           tokens |-> d.tokens, klines |-> d.klines, ckpt |-> d.ckpt]
  BY DEF IsDatabase
<1>4. \A u \in Tokens : IF u = t /\ d.tokens[t].status = RM!Absent
                        THEN T[u].status = RM!Trading /\ T[u].totals = 0
                        ELSE T[u] = d.tokens[u]
  BY <1>1
<1> HIDE DEF e
<1>5. e.decoded = d.decoded \union {k} /\ e.trades = d.trades /\ e.klines = d.klines /\ e.tokens = T
  BY <1>2, <1>3 DEF ApplyTokenCreated
<1> HIDE DEF T
<1> QED
  BY <1>4, <1>5 DEF e

\* applyTokenTrade.
LEMMA TradeApplied ==
  ASSUME ChainTypeOK, NEW k \in DOMAIN chain, IsTrade(k), NEW d, IsDatabase(d)
  PROVE  LET e == ApplyProjection(d, k)
             t == chain[k].token
         IN  /\ e.decoded = d.decoded \union {k}
             /\ e.trades = d.trades \union {k}
             /\ e.klines = IF k \in d.trades THEN d.klines ELSE UpsertKlines(d.klines, k)
             /\ \A u \in Tokens :
                  /\ e.tokens[u].status = d.tokens[u].status
                  /\ e.tokens[u].totals = IF u = t /\ d.tokens[t].status # RM!Absent
                                          THEN k ELSE d.tokens[u].totals
<1> DEFINE e == ApplyProjection(d, k)
           t == chain[k].token
           row == [status |-> d.tokens[t].status, totals |-> k]
           T == UpdateToken(d.tokens, t, row)
<1>1. t \in Tokens /\ d.tokens \in [Tokens -> TokenRow]
  BY LogType DEF IsDatabase
<1>2. e = ApplyTokenTrade(d, k)
  BY DEF ApplyProjection, IsTrade, TradeKinds
<1>3. d = [ledger |-> d.ledger, decoded |-> d.decoded, trades |-> d.trades,
           tokens |-> d.tokens, klines |-> d.klines, ckpt |-> d.ckpt]
  BY DEF IsDatabase
<1>4. row.status = d.tokens[t].status /\ row.totals = k
  OBVIOUS
<1>5. \A u \in Tokens : T[u] = IF u = t /\ d.tokens[t].status # RM!Absent THEN row ELSE d.tokens[u]
  <2> HIDE DEF row
  <2> QED
    BY <1>1 DEF UpdateToken
<1> HIDE DEF e
<1>6. /\ e.decoded = d.decoded \union {k} /\ e.trades = d.trades \union {k} /\ e.tokens = T
      /\ e.klines = IF k \in d.trades THEN d.klines ELSE UpsertKlines(d.klines, k)
  BY <1>2, <1>3 DEF ApplyTokenTrade
<1> HIDE DEF T, row
<1> QED
  BY <1>4, <1>5, <1>6 DEF e

\* applyTokenGraduated.
LEMMA GraduatedApplied ==
  ASSUME ChainTypeOK, NEW k \in DOMAIN chain, chain[k].kind = "TokenGraduated", NEW d, IsDatabase(d)
  PROVE  LET e == ApplyProjection(d, k)
             t == chain[k].token
         IN  /\ e.decoded = d.decoded \union {k} /\ e.trades = d.trades /\ e.klines = d.klines
             /\ \A u \in Tokens :
                  /\ e.tokens[u].status = IF u = t /\ d.tokens[t].status # RM!Absent
                                          THEN RM!Graduated ELSE d.tokens[u].status
                  /\ e.tokens[u].totals = d.tokens[u].totals
<1> DEFINE e == ApplyProjection(d, k)
           t == chain[k].token
           row == [status |-> RM!Graduated, totals |-> d.tokens[t].totals]
           T == UpdateToken(d.tokens, t, row)
<1>1. t \in Tokens /\ d.tokens \in [Tokens -> TokenRow]
  BY LogType DEF IsDatabase
<1>2. e = ApplyTokenGraduated(d, k)
  BY DEF ApplyProjection, TradeKinds
<1>3. d = [ledger |-> d.ledger, decoded |-> d.decoded, trades |-> d.trades,
           tokens |-> d.tokens, klines |-> d.klines, ckpt |-> d.ckpt]
  BY DEF IsDatabase
<1>4. row.status = RM!Graduated /\ row.totals = d.tokens[t].totals
  OBVIOUS
<1>5. \A u \in Tokens : T[u] = IF u = t /\ d.tokens[t].status # RM!Absent THEN row ELSE d.tokens[u]
  <2> HIDE DEF row
  <2> QED
    BY <1>1 DEF UpdateToken
<1> HIDE DEF e
<1>6. e.decoded = d.decoded \union {k} /\ e.trades = d.trades /\ e.klines = d.klines /\ e.tokens = T
  BY <1>2, <1>3 DEF ApplyTokenGraduated
<1> HIDE DEF T, row
<1> QED
  BY <1>4, <1>5, <1>6 DEF e

-----------------------------------------------------------------------------
(* Projections applied in log order keep the tables exact; applied again   *)
(* they change nothing but the totals.                                     *)

\* The statuses after one more projection.
LEMMA StatusApplied ==
  ASSUME ChainTypeOK, ChainOrdered, NEW k \in DOMAIN chain, IsProjected(k),
         NEW d, IsDatabase(d), d.decoded \subseteq DOMAIN chain, Projected(d),
         k \in d.decoded \/ \A j \in d.decoded : j < k
  PROVE  LET e == ApplyProjection(d, k)
         IN  \A u \in Tokens : e.tokens[u].status =
               IF ~Happened(e.decoded, "TokenCreated", u) THEN RM!Absent
               ELSE IF Happened(e.decoded, "TokenGraduated", u) THEN RM!Graduated ELSE RM!Trading
<1> DEFINE e == ApplyProjection(d, k)
           t == chain[k].token
           S == d.decoded
<1>0. t \in Tokens
  BY LogType
<1>1. \A u \in Tokens : d.tokens[u].status =
               IF ~Happened(S, "TokenCreated", u) THEN RM!Absent
               ELSE IF Happened(S, "TokenGraduated", u) THEN RM!Graduated ELSE RM!Trading
  BY DEF Projected
<1>2. k \in S => S \union {k} = S
  OBVIOUS
<1>3. CASE chain[k].kind = "TokenCreated"
  <2>1. /\ e.decoded = S \union {k}
        /\ \A u \in Tokens : IF u = t /\ d.tokens[t].status = RM!Absent
                             THEN e.tokens[u].status = RM!Trading ELSE e.tokens[u] = d.tokens[u]
    BY <1>3, CreatedApplied
  <2> HIDE DEF e
  <2>2. \A u : /\ Happened(e.decoded, "TokenCreated", u) <=> Happened(S, "TokenCreated", u) \/ u = t
               /\ Happened(e.decoded, "TokenGraduated", u) <=> Happened(S, "TokenGraduated", u)
    BY <1>3, <2>1, HappenedNow
  <2>3. CASE k \in S
    <3>1. Happened(S, "TokenCreated", t)
      BY <1>3, <2>3 DEF Happened
    <3>2. d.tokens[t].status # RM!Absent
      BY <1>0, <1>1, <3>1
    <3> QED
      BY <1>1, <2>1, <2>2, <3>1, <3>2 DEF e
  <2>4. CASE k \notin S
    <3>1. ~Happened(S, "TokenCreated", t) /\ ~Happened(S, "TokenGraduated", t)
      BY <1>3, <2>4, CreationIsFirst
    <3>2. d.tokens[t].status = RM!Absent
      BY <1>0, <1>1, <3>1
    <3> QED
      BY <1>1, <2>1, <2>2, <3>1, <3>2 DEF e
  <2> QED
    BY <2>3, <2>4
<1>4. CASE chain[k].kind \in TradeKinds
  <2>1. /\ e.decoded = S \union {k}
        /\ \A u \in Tokens : e.tokens[u].status = d.tokens[u].status
    BY <1>4, TradeApplied DEF IsTrade
  <2> HIDE DEF e
  <2>2. \A u : /\ Happened(e.decoded, "TokenCreated", u) <=> Happened(S, "TokenCreated", u)
               /\ Happened(e.decoded, "TokenGraduated", u) <=> Happened(S, "TokenGraduated", u)
    BY <1>4, <2>1, HappenedNow DEF TradeKinds
  <2> QED
    BY <1>1, <2>1, <2>2 DEF e
<1>5. CASE chain[k].kind = "TokenGraduated"
  <2>1. /\ e.decoded = S \union {k}
        /\ \A u \in Tokens : e.tokens[u].status = IF u = t /\ d.tokens[t].status # RM!Absent
                                                  THEN RM!Graduated ELSE d.tokens[u].status
    BY <1>5, GraduatedApplied
  <2> HIDE DEF e
  <2>2. \A u : /\ Happened(e.decoded, "TokenCreated", u) <=> Happened(S, "TokenCreated", u)
               /\ Happened(e.decoded, "TokenGraduated", u) <=> Happened(S, "TokenGraduated", u) \/ u = t
    BY <1>5, <2>1, HappenedNow
  <2> QED
    BY <1>0, <1>1, <2>1, <2>2 DEF e
<1> QED
  BY <1>3, <1>4, <1>5 DEF IsProjected

\* Trades, statuses and candles stay exact.
LEMMA ProjectedApplied ==
  ASSUME ChainTypeOK, ChainOrdered, NEW k \in DOMAIN chain, IsProjected(k),
         NEW d, IsDatabase(d), d.decoded \subseteq DOMAIN chain, Projected(d),
         k \in d.decoded \/ \A j \in d.decoded : j < k
  PROVE  LET e == ApplyProjection(d, k)
         IN  e.decoded = d.decoded \union {k} /\ Projected(e)
<1> DEFINE e == ApplyProjection(d, k)
           S == d.decoded
<1>0. \A u \in Tokens : e.tokens[u].status =
               IF ~Happened(e.decoded, "TokenCreated", u) THEN RM!Absent
               ELSE IF Happened(e.decoded, "TokenGraduated", u) THEN RM!Graduated ELSE RM!Trading
  BY StatusApplied
<1>1. /\ d.trades = TradesAmong(S) /\ IsKlineTable(d.klines) /\ DOMAIN d.klines = CandlesAmong(S)
      /\ \A c \in DOMAIN d.klines : CandleRowOf(d.klines[c], InCandle(S, c))
  BY DEF Projected, IsDatabase
<1>2. CASE IsTrade(k)
  <2>1. /\ e.decoded = S \union {k} /\ e.trades = d.trades \union {k}
        /\ e.klines = IF k \in d.trades THEN d.klines ELSE UpsertKlines(d.klines, k)
    BY <1>2, TradeApplied
  <2>2. TradesAmong(S \union {k}) = TradesAmong(S) \union {k} /\ (k \in d.trades <=> k \in S)
    BY <1>1, <1>2 DEF TradesAmong
  <2> HIDE DEF e
  <2>3. CASE k \in S
    <3>1. S \union {k} = S
      BY <2>3
    <3> QED
      BY <1>0, <1>1, <2>1, <2>2, <2>3, <3>1 DEF Projected, e
  <2>4. CASE k \notin S
    <3>1. e.klines = UpsertKlines(d.klines, k)
      BY <2>1, <2>2, <2>4
    <3>2. /\ DOMAIN e.klines = CandlesAmong(S \union {k})
          /\ \A c \in DOMAIN e.klines : CandleRowOf(e.klines[c], InCandle(S \union {k}, c))
      BY <1>1, <1>2, <2>4, <3>1, CandlesUpserted
    <3> QED
      BY <1>0, <1>1, <2>1, <2>2, <3>2 DEF Projected, e
  <2> QED
    BY <2>3, <2>4
<1>3. CASE ~IsTrade(k)
  <2>1. e.decoded = S \union {k} /\ e.trades = d.trades /\ e.klines = d.klines
    BY <1>3, CreatedApplied, GraduatedApplied DEF IsProjected, IsTrade
  <2>2. /\ CandlesAmong(S \union {k}) = CandlesAmong(S)
        /\ \A c : InCandle(S \union {k}, c) = InCandle(S, c)
    BY <1>3, OtherAdded
  <2>3. TradesAmong(S \union {k}) = TradesAmong(S)
    BY <1>3 DEF TradesAmong
  <2> HIDE DEF e
  <2> QED
    BY <1>0, <1>1, <2>1, <2>2, <2>3 DEF Projected, e
<1> QED
  BY <1>2, <1>3

\* The totals move to the latest trade that was applied.
LEMMA TotalsApplied ==
  ASSUME ChainTypeOK, ChainOrdered, NEW k \in DOMAIN chain, IsProjected(k),
         NEW d, IsDatabase(d), NEW S \in SUBSET DOMAIN chain, \A j \in S : j < k,
         NEW old \in [Tokens -> Nat], TotalsOf(d, S, old),
         LET t == chain[k].token IN d.tokens[t].status = RM!Absent => old[t] = 0
  PROVE  TotalsOf(ApplyProjection(d, k), S \union {k}, old)
<1> DEFINE e == ApplyProjection(d, k)
           t == chain[k].token
<1>0. t \in Tokens /\ DOMAIN chain \subseteq Nat /\ (d.tokens[t].status = RM!Absent => old[t] = 0)
  BY LogType
<1>1. \A u \in Tokens :
        /\ d.tokens[u].status = RM!Absent => d.tokens[u].totals = 0
        /\ d.tokens[u].status # RM!Absent =>
             IF TradesOf(S, u) = {} THEN d.tokens[u].totals = old[u]
             ELSE IsLatest(d.tokens[u].totals, TradesOf(S, u))
  BY DEF TotalsOf
<1>2. \A u \in Tokens : TradesOf(S \union {k}, u)
        = IF u = t /\ IsTrade(k) THEN TradesOf(S, u) \union {k} ELSE TradesOf(S, u)
  BY DEF TradesOf, TradesAmong, OfToken
<1>3. CASE IsTrade(k)
  <2>1. \A u \in Tokens :
           /\ e.tokens[u].status = d.tokens[u].status
           /\ e.tokens[u].totals = IF u = t /\ d.tokens[t].status # RM!Absent
                                   THEN k ELSE d.tokens[u].totals
    BY <1>3, TradeApplied
  <2>2. IsLatest(k, TradesOf(S, t) \union {k})
    BY <1>0 DEF IsLatest, TradesOf, TradesAmong, OfToken
  <2> HIDE DEF e
  <2> QED
    BY <1>1, <1>2, <1>3, <2>1, <2>2 DEF TotalsOf, e
<1>4. CASE chain[k].kind = "TokenCreated"
  <2>1. \A u \in Tokens : IF u = t /\ d.tokens[t].status = RM!Absent
                          THEN e.tokens[u].status = RM!Trading /\ e.tokens[u].totals = 0
                          ELSE e.tokens[u] = d.tokens[u]
    BY <1>4, CreatedApplied
  <2>2. TradesOf(S, t) = {} /\ ~IsTrade(k)
    BY <1>4, CreationIsFirst DEF IsTrade, TradeKinds
  <2> HIDE DEF e
  <2> QED
    BY <1>0, <1>1, <1>2, <2>1, <2>2 DEF TotalsOf, e
<1>5. CASE chain[k].kind = "TokenGraduated"
  <2>1. \A u \in Tokens :
           /\ e.tokens[u].status = IF u = t /\ d.tokens[t].status # RM!Absent
                                   THEN RM!Graduated ELSE d.tokens[u].status
           /\ e.tokens[u].totals = d.tokens[u].totals
    BY <1>5, GraduatedApplied
  <2>2. ~IsTrade(k)
    BY <1>5 DEF IsTrade, TradeKinds
  <2> HIDE DEF e
  <2>3. \A u \in Tokens : e.tokens[u].status = RM!Absent <=> d.tokens[u].status = RM!Absent
    BY <2>1
  <2> QED
    BY <1>1, <1>2, <2>1, <2>2, <2>3 DEF TotalsOf, e
<1> QED
  BY <1>3, <1>4, <1>5 DEF IsProjected, IsTrade

-----------------------------------------------------------------------------
(* Init and every action preserve the second invariant.                    *)

\* An image that is exact stays so while the chain grows.
LEMMA ImagesStay ==
  ASSUME \A k \in DOMAIN chain : k \in DOMAIN chain' /\ chain'[k] = chain[k]
  PROVE  /\ \A d : d.decoded \in SUBSET DOMAIN chain /\ Projected(d) => Projected(d)'
         /\ \A d, old : \A S \in SUBSET DOMAIN chain : TotalsOf(d, S, old) => TotalsOf(d, S, old)'
         /\ \A d : Settled(d) => Settled(d)'
<1>0. \A S \in SUBSET DOMAIN chain :
           /\ S \in SUBSET DOMAIN chain'
           /\ ProjectedAmong(S)' = ProjectedAmong(S)
           /\ TradesAmong(S)' = TradesAmong(S)
           /\ CandlesAmong(S)' = CandlesAmong(S)
           /\ \A c : InCandle(S, c)' = InCandle(S, c)
           /\ \A t : TradesOf(S, t)' = TradesOf(S, t)
           /\ \A kind, t : Happened(S, kind, t)' <=> Happened(S, kind, t)
           /\ \A row : CandleRowOf(row, S)' <=> CandleRowOf(row, S)
  BY LogFactsStay
<1>1. ASSUME NEW d, d.decoded \in SUBSET DOMAIN chain, Projected(d)
      PROVE  Projected(d)'
  <2>1. \A c : InCandle(d.decoded, c) \in SUBSET DOMAIN chain
    BY <1>1 DEF InCandle, TradesAmong
  <2>2. \A c \in DOMAIN d.klines : CandleRowOf(d.klines[c], InCandle(d.decoded, c))'
    BY <1>0, <1>1, <2>1 DEF Projected
  <2>3. d.trades = TradesAmong(d.decoded)' /\ DOMAIN d.klines = CandlesAmong(d.decoded)'
    BY <1>0, <1>1 DEF Projected
  <2>4. \A t \in Tokens : d.tokens[t].status =
          IF ~Happened(d.decoded, "TokenCreated", t)' THEN RM!Absent
          ELSE IF Happened(d.decoded, "TokenGraduated", t)' THEN RM!Graduated ELSE RM!Trading
    BY <1>0, <1>1 DEF Projected
  <2> QED
    BY <2>2, <2>3, <2>4 DEF Projected
<1>2. ASSUME NEW d, NEW old, NEW S \in SUBSET DOMAIN chain, TotalsOf(d, S, old)
      PROVE  TotalsOf(d, S, old)'
  BY <1>0, <1>2 DEF TotalsOf, IsLatest
<1>3. ASSUME NEW d, Settled(d)
      PROVE  Settled(d)'
  <2>1. d.ledger \in SUBSET DOMAIN chain /\ d.decoded = ProjectedAmong(d.ledger)
    BY <1>3 DEF Settled
  <2>2. d.decoded \in SUBSET DOMAIN chain
    BY <2>1 DEF ProjectedAmong
  <2>3. Projected(d)' /\ TotalsOf(d, d.decoded, [t \in Tokens |-> 0])'
    BY <1>1, <1>2, <1>3, <2>2 DEF Settled
  <2> QED
    BY <1>0, <2>1, <2>3 DEF Settled
<1> QED
  BY <1>1, <1>2, <1>3

\* What IInv and ImageInv say of the logs that were decoded.
LEMMA DecodedLogs ==
  ASSUME IInv, ImageInv
  PROVE  /\ ChainTypeOK /\ ChainBounded /\ ChainOrdered
         /\ Settled(db) /\ IsDatabase(db)
         /\ logs \in SUBSET DOMAIN chain
         /\ db.decoded \in SUBSET DOMAIN chain
         /\ Done \in SUBSET DOMAIN chain
         /\ \A d \in Open : d.decoded \in SUBSET DOMAIN chain
<1>1. /\ ChainTypeOK /\ ChainBounded /\ ChainOrdered /\ Settled(db) /\ IsDatabase(db)
      /\ logs \in SUBSET DOMAIN chain
  BY DEF IInv, ImageInv, TypeOK, Landed
<1>2. db.decoded \in SUBSET DOMAIN chain /\ Done \in SUBSET DOMAIN chain
  BY <1>1 DEF Settled, ProjectedAmong, Done
<1>3. \A d \in Open : d.decoded \in SUBSET DOMAIN chain
  BY <1>2 DEF ImageInv, Applied
<1> QED
  BY <1>1, <1>2, <1>3

\* Before the first start the tables are empty, like the chain.
LEMMA InitImageInv == Init => ImageInv
<1> SUFFICES ASSUME Init PROVE ImageInv
  OBVIOUS
<1>1. chain = << >> /\ db = RM!EmptyDatabase /\ tx = NoTx /\ orphan = NoTx /\ pc = "down"
  BY DEF Init, ChainInit
<1>2. DOMAIN chain = {}
  BY <1>1
<1>3. ChainOrdered
  BY <1>2 DEF ChainOrdered
<1>4. Landed = {db} /\ Open = {}
  BY <1>1 DEF Landed, Open
<1>5. /\ db.ledger = {} /\ db.decoded = {} /\ db.trades = {}
      /\ \A t \in Tokens : db.tokens[t].status = RM!Absent /\ db.tokens[t].totals = 0
      /\ DOMAIN db.klines = {}
  BY <1>1 DEF RM!EmptyDatabase
<1>6. Settled(db)
  <2>1. ProjectedAmong({}) = {} /\ TradesAmong({}) = {} /\ CandlesAmong({}) = {}
    BY DEF ProjectedAmong, TradesAmong, CandlesAmong
  <2>2. Projected(db)
    BY <1>5, <2>1 DEF Projected, Happened
  <2>3. TotalsOf(db, db.decoded, [t \in Tokens |-> 0])
    BY <1>5 DEF TotalsOf
  <2> QED
    BY <1>5, <2>1, <2>2, <2>3 DEF Settled
<1> QED
  BY <1>1, <1>3, <1>4, <1>6 DEF ImageInv

\* A step that leaves the tables, the transaction and the range alone.
LEMMA QuietImageInv ==
  ASSUME IInv, ImageInv, ChainOrdered',
         \A k \in DOMAIN chain : k \in DOMAIN chain' /\ chain'[k] = chain[k],
         UNCHANGED <<db, tx, orphan, pc, logs, todo>>
  PROVE  ImageInv'
<1>1. /\ logs \in SUBSET DOMAIN chain /\ Done \in SUBSET DOMAIN chain
      /\ \A d \in Open : d.decoded \in SUBSET DOMAIN chain
  BY DecodedLogs
<1>2. ProjectedAmong(logs)' = ProjectedAmong(logs) /\ Done' = Done
  <2>1. \A S \in SUBSET DOMAIN chain : ProjectedAmong(S)' = ProjectedAmong(S)
    BY LogFactsStay
  <2>2. PICK S : S = logs
    OBVIOUS
  <2>3. ProjectedAmong(logs)' = ProjectedAmong(S)'
    BY <2>2 DEF ProjectedAmong
  <2> QED
    BY <1>1, <2>1, <2>2, <2>3 DEF Done
<1>3. Landed' = Landed /\ Open' = Open
  BY DEF Landed, Open
<1>4. \A d \in Landed' : Settled(d)'
  BY <1>3, ImagesStay DEF ImageInv
<1>5. ASSUME NEW d \in Open
      PROVE  Applied(d)'
  <2>1. Applied(d)
    BY DEF ImageInv
  <2>2. PICK S, old : S = Done /\ old = [t \in Tokens |-> db.tokens[t].totals]
    OBVIOUS
  <2>3. Projected(d)' /\ TotalsOf(d, S, old)'
    BY <1>1, <2>1, <2>2, ImagesStay DEF Applied
  <2>4. S = Done' /\ old = [t \in Tokens |-> db.tokens[t].totals]'
    BY <1>2, <2>2
  <2>5. TotalsOf(d, Done, [t \in Tokens |-> db.tokens[t].totals])'
    BY <2>3, <2>4 DEF TotalsOf
  <2>6. todo' \subseteq ProjectedAmong(logs)' /\ d.decoded = db'.decoded \union Done'
        /\ \A j \in Done', k \in todo' : j < k
    BY <1>2, <2>1 DEF Applied
  <2> QED
    BY <2>3, <2>5, <2>6 DEF Applied
<1>6. pc' = "save" => todo' = ProjectedAmong(logs)'
  BY <1>2 DEF ImageInv
<1> QED
  BY <1>3, <1>4, <1>5, <1>6 DEF ImageInv

\* New logs change none of the images: they were not decoded yet.
LEMMA GrowChainImageInv == IInv /\ ImageInv /\ GrowChain => ImageInv'
<1> SUFFICES ASSUME IInv, ImageInv, GrowChain PROVE ImageInv'
  OBVIOUS
<1>1. ChainTypeOK /\ ChainBounded /\ ChainOrdered /\ ChainNext
  BY DecodedLogs DEF GrowChain
<1>2. \A k \in DOMAIN chain : k \in DOMAIN chain' /\ chain'[k] = chain[k]
  BY <1>1, ChainGrows
<1>3. ChainOrdered'
  BY <1>1, ChainStaysOrdered
<1>4. UNCHANGED <<db, tx, orphan, pc, logs, todo>>
  BY DEF GrowChain, memVars
<1> QED
  BY <1>2, <1>3, <1>4, QuietImageInv

\* A step after which no transaction is open, and whose committed and orphaned
\* images are settled already.
LEMMA ClosedImageInv ==
  ASSUME IInv, ImageInv, UNCHANGED chain,
         \A d \in Landed' : Settled(d),
         pc' \notin {"project", "commit"},
         pc' = "save" => todo' = ProjectedAmong(logs')
  PROVE  ImageInv'
<1>1. ChainOrdered'
  BY DEF ImageInv, ChainOrdered
<1>2. \A d \in Landed' : Settled(d)'
  BY ImagesStay
<1>3. Open' = {}
  BY DEF Open
<1>4. ProjectedAmong(logs)' = ProjectedAmong(logs')
  BY DEF ProjectedAmong
<1> QED
  BY <1>1, <1>2, <1>3, <1>4 DEF ImageInv

\* The steps that read.
LEMMA ReadingImageInv ==
  ASSUME IInv, ImageInv,
         Resume \/ ReadHead \/ Fetch \/ CaughtUp \/ Tick \/ Decode \/ DecodeFails
  PROVE  ImageInv'
<1>1. UNCHANGED <<chain, db, orphan>> /\ pc' \notin {"project", "commit"}
  BY DEF Resume, ReadHead, Fetch, CaughtUp, Tick, Decode, DecodeFails, chainVars
<1>2. pc' = "save" => todo' = ProjectedAmong(logs')
  BY DEF Resume, ReadHead, Fetch, CaughtUp, Tick, Decode, DecodeFails
<1>3. \A d \in Landed' : Settled(d)
  BY <1>1 DEF Landed, ImageInv
<1> QED
  BY <1>1, <1>2, <1>3, ClosedImageInv

\* A new transaction starts from the committed tables.
LEMMA InsertEventsImageInv == IInv /\ ImageInv /\ InsertEvents => ImageInv'
<1> SUFFICES ASSUME IInv, ImageInv, InsertEvents PROVE ImageInv'
  OBVIOUS
<1>1. /\ pc = "save" /\ pc' = "project" /\ tx' = [db EXCEPT !.ledger = db.ledger \union logs]
      /\ UNCHANGED <<chain, db, orphan, logs, todo>>
  BY DEF InsertEvents, chainVars, memVars
<1>2. PICK new : new = tx'
  OBVIOUS
<1>3. Settled(db) /\ IsDatabase(db) /\ todo = ProjectedAmong(logs)
  BY <1>1, DecodedLogs DEF ImageInv
<1>4. /\ new.decoded = db.decoded /\ new.trades = db.trades
      /\ new.tokens = db.tokens /\ new.klines = db.klines
  <2>1. db = [ledger |-> db.ledger, decoded |-> db.decoded, trades |-> db.trades,
              tokens |-> db.tokens, klines |-> db.klines, ckpt |-> db.ckpt]
    BY <1>3 DEF IsDatabase
  <2>2. new = [db EXCEPT !.ledger = db.ledger \union logs]
    BY <1>1, <1>2
  <2> QED
    BY <2>1, <2>2
<1>5. Done = {} /\ Done' = {}
  BY <1>1, <1>3 DEF Done, ProjectedAmong
<1>6. Projected(new)
  BY <1>3, <1>4 DEF Settled, Projected
<1>7. TotalsOf(new, {}, [t \in Tokens |-> db.tokens[t].totals])
  <2>1. \A t : TradesOf({}, t) = {}
    BY DEF TradesOf, TradesAmong, OfToken
  <2>2. \A t \in Tokens : db.tokens[t].status = RM!Absent => db.tokens[t].totals = 0
    BY <1>3 DEF Settled, TotalsOf
  <2> QED
    BY <1>4, <2>1, <2>2 DEF TotalsOf
<1>8. Landed' = Landed /\ Open' = {new}
  BY <1>1, <1>2 DEF Landed, Open
<1>9. \A d \in Landed' : Settled(d)'
  BY <1>1, <1>8, ImagesStay DEF ImageInv
<1>10. Applied(new)'
  <2>1. new.decoded \in SUBSET DOMAIN chain
    BY <1>4, DecodedLogs
  <2>2. Projected(new)'
    BY <1>1, <1>6, <2>1, ImagesStay
  <2>3. PICK old : old = [t \in Tokens |-> db.tokens[t].totals]
    OBVIOUS
  <2>4. TotalsOf(new, {}, old)'
    <3>1. {} \in SUBSET DOMAIN chain
      OBVIOUS
    <3> QED
      BY <1>1, <1>7, <2>3, <3>1, ImagesStay
  <2>5. TotalsOf(new, Done, [t \in Tokens |-> db.tokens[t].totals])'
    BY <1>1, <1>5, <2>3, <2>4 DEF TotalsOf
  <2>6. /\ todo' \subseteq ProjectedAmong(logs)'
        /\ new.decoded = db'.decoded \union Done'
        /\ \A j \in Done', k \in todo' : j < k
    BY <1>1, <1>3, <1>4, <1>5 DEF ProjectedAmong
  <2> QED
    BY <2>2, <2>5, <2>6 DEF Applied
<1>11. ChainOrdered'
  BY <1>1 DEF ImageInv, ChainOrdered
<1> QED
  BY <1>1, <1>8, <1>9, <1>10, <1>11 DEF ImageInv

\* A projection of the range is either in the committed tables or later than
\* everything in the transaction.
LEMMA OnceOrLast ==
  ASSUME IInv, ImageInv, pc = "project", NEW k \in todo, k \notin db.decoded
  PROVE  \A j \in db.decoded : j < k
<1>0. TypeOK /\ CommittedOK /\ NextOK /\ RangeOK
  BY DEF IInv
<1>1. ChainTypeOK /\ ChainOrdered /\ Settled(db)
  BY DecodedLogs
<1>2. tx \in Open /\ todo \subseteq ProjectedAmong(logs)
  BY DEF Open, ImageInv, Applied
<1>3. k \in LogsBetween(next, end) /\ chain[k].kind \notin {"Other", "Rejected"}
  BY <1>0, <1>2 DEF RangeOK, ProjectedAmong
<1>4. /\ StartBlock \in Nat /\ next \in Nat /\ StartBlock <= next
      /\ RM!Synced(db) \in Int
  BY <1>0, SyncedType, ChainAssumption DEF TypeOK, NextOK, IsDatabase, ChainAssumption
<1>5. db.decoded = ProjectedAmong(LogsBetween(StartBlock, RM!Synced(db)))
  BY <1>0, <1>1 DEF Settled, CommittedOK, LedgerExact
<1>6. k \in DOMAIN chain /\ chain[k].block \in Nat /\ next <= chain[k].block
  BY <1>1, <1>3, LogType DEF LogsBetween
<1>7. RM!Synced(db) < chain[k].block
  BY <1>3, <1>4, <1>5, <1>6 DEF ProjectedAmong, LogsBetween
<1>8. ASSUME NEW j \in db.decoded
      PROVE  j < k
  <2>1. j \in DOMAIN chain /\ chain[j].block \in Nat /\ chain[j].block <= RM!Synced(db)
    BY <1>1, <1>5, LogType DEF ProjectedAmong, LogsBetween
  <2>2. ~(k <= j)
    BY <1>1, <1>4, <1>6, <1>7, <2>1 DEF ChainOrdered
  <2> QED
    BY <1>1, <1>6, <2>1, <2>2, LogType
<1> QED
  BY <1>8

\* applyProjection on the earliest projection left.
LEMMA ProjectImageInv == IInv /\ ImageInv /\ Project => ImageInv'
<1> SUFFICES ASSUME IInv, ImageInv, NEW k \in todo, \A j \in todo : k <= j,
                    pc = "project",
                    tx' = ApplyProjection(tx, k),
                    todo' = todo \ {k},
                    UNCHANGED <<chain, head, db, orphan, pc, next, latest, end, logs, exits>>
             PROVE  ImageInv'
  BY DEF Project, chainVars
<1> DEFINE old == [t \in Tokens |-> db.tokens[t].totals]
<1>0. /\ ChainTypeOK /\ ChainOrdered /\ Settled(db) /\ IsDatabase(db)
      /\ logs \in SUBSET DOMAIN chain /\ db.decoded \in SUBSET DOMAIN chain
      /\ Done \in SUBSET DOMAIN chain
  BY DecodedLogs
<1>1. tx \in Open /\ Applied(tx) /\ IsDatabase(tx)
  BY DEF Open, ImageInv, IInv, TypeOK
<1>2. /\ todo \subseteq ProjectedAmong(logs) /\ \A i \in Done, j \in todo : i < j
      /\ tx.decoded = db.decoded \union Done
      /\ Projected(tx) /\ TotalsOf(tx, Done, old)
  BY <1>1 DEF Applied
<1>3. k \in DOMAIN chain /\ IsProjected(k) /\ DOMAIN chain \subseteq Nat
  BY <1>0, <1>2, ProjectedKinds, LogType DEF ProjectedAmong
<1>4. tx.decoded \subseteq DOMAIN chain
  BY <1>0, <1>2
<1>5. \A j \in Done : j < k
  BY <1>2
<1>6. k \in tx.decoded \/ \A j \in tx.decoded : j < k
  BY <1>2, <1>5, OnceOrLast
<1> DEFINE e == ApplyProjection(tx, k)
<1>7. e.decoded = tx.decoded \union {k} /\ Projected(e)
  BY <1>0, <1>1, <1>2, <1>3, <1>4, <1>6, ProjectedApplied
<1>8. TotalsOf(e, Done \union {k}, old)
  <2>1. old \in [Tokens -> Nat]
    BY <1>0 DEF IsDatabase, TokenRow
  <2>2. \A t \in Tokens : tx.tokens[t].status = RM!Absent => db.tokens[t].status = RM!Absent
    <3>1. ASSUME NEW t \in Tokens, tx.tokens[t].status = RM!Absent
          PROVE  ~Happened(tx.decoded, "TokenCreated", t)
      <4>1. tx.tokens[t].status =
              IF ~Happened(tx.decoded, "TokenCreated", t) THEN RM!Absent
              ELSE IF Happened(tx.decoded, "TokenGraduated", t) THEN RM!Graduated ELSE RM!Trading
        BY <1>2 DEF Projected
      <4> HIDE DEF old
      <4> QED
        BY <3>1, <4>1
    <3>2. \A t \in Tokens : ~Happened(db.decoded, "TokenCreated", t) => db.tokens[t].status = RM!Absent
      BY <1>0 DEF Settled, Projected
    <3> QED
      BY <1>2, <3>1, <3>2 DEF Happened
  <2>3. \A t \in Tokens : db.tokens[t].status = RM!Absent => db.tokens[t].totals = 0
    BY <1>0 DEF Settled, TotalsOf
  <2>4. chain[k].token \in Tokens
    BY <1>0, <1>3, LogType
  <2>5. tx.tokens[chain[k].token].status = RM!Absent => old[chain[k].token] = 0
    BY <2>2, <2>3, <2>4
  <2> HIDE DEF old
  <2> QED
    BY <1>0, <1>1, <1>2, <1>3, <1>5, <2>1, <2>5, TotalsApplied
<1>9. PICK new : new = tx' /\ new = e
  OBVIOUS
<1> HIDE DEF e
<1>10. ProjectedAmong(logs)' = ProjectedAmong(logs) /\ Done' = Done \union {k}
  <2>1. ProjectedAmong(logs)' = ProjectedAmong(logs)
    BY DEF ProjectedAmong
  <2> QED
    BY <1>2, <2>1 DEF Done
<1>11. Landed' = Landed /\ Open' = {new}
  BY <1>9 DEF Landed, Open
<1>12. \A d \in Landed' : Settled(d)'
  BY <1>11, ImagesStay DEF ImageInv
<1>13. Applied(new)'
  <2>1. new.decoded \in SUBSET DOMAIN chain
    BY <1>3, <1>4, <1>7, <1>9
  <2>2. Projected(new)'
    BY <1>7, <1>9, <2>1, ImagesStay
  <2>3. PICK S, before : S = Done \union {k} /\ before = old
    OBVIOUS
  <2>4. TotalsOf(new, S, before)'
    <3>1. S \in SUBSET DOMAIN chain /\ TotalsOf(new, S, before)
      BY <1>0, <1>3, <1>8, <1>9, <2>3
    <3> QED
      BY <3>1, ImagesStay
  <2>5. TotalsOf(new, Done, [t \in Tokens |-> db.tokens[t].totals])'
    BY <1>10, <2>3, <2>4 DEF TotalsOf
  <2>6. todo' \subseteq ProjectedAmong(logs)' /\ new.decoded = db'.decoded \union Done'
    BY <1>2, <1>7, <1>9, <1>10
  <2>7. \A i \in Done', j \in todo' : i < j
    <3>1. todo \subseteq Nat
      BY <1>0, <1>2, <1>3 DEF ProjectedAmong
    <3> QED
      BY <1>2, <1>10, <3>1
  <2> QED
    BY <2>2, <2>5, <2>6, <2>7 DEF Applied
<1>14. ChainOrdered'
  BY <1>0 DEF ChainOrdered
<1> QED
  BY <1>11, <1>12, <1>13, <1>14 DEF ImageInv

\* The checkpoint row is none of the tables the images are about.
LEMMA SaveCheckpointImageInv == IInv /\ ImageInv /\ SaveCheckpoint => ImageInv'
<1> SUFFICES ASSUME IInv, ImageInv, SaveCheckpoint PROVE ImageInv'
  OBVIOUS
<1>1. /\ pc = "project" /\ pc' = "commit" /\ tx' = [tx EXCEPT !.ckpt = end]
      /\ UNCHANGED <<chain, db, orphan, logs, todo>>
  BY DEF SaveCheckpoint, chainVars, memVars
<1>2. PICK new : new = tx'
  OBVIOUS
<1>3. tx \in Open /\ Applied(tx) /\ IsDatabase(tx)
  BY <1>1 DEF Open, ImageInv, IInv, TypeOK
<1>4. /\ new.decoded = tx.decoded /\ new.trades = tx.trades
      /\ new.tokens = tx.tokens /\ new.klines = tx.klines
  <2>1. tx = [ledger |-> tx.ledger, decoded |-> tx.decoded, trades |-> tx.trades,
              tokens |-> tx.tokens, klines |-> tx.klines, ckpt |-> tx.ckpt]
    BY <1>3 DEF IsDatabase
  <2>2. new = [tx EXCEPT !.ckpt = end]
    BY <1>1, <1>2
  <2> QED
    BY <2>1, <2>2
<1>5. Applied(new)
  BY <1>3, <1>4 DEF Applied, Projected, TotalsOf
<1>6. Landed' = Landed /\ Open' = {new}
  BY <1>1, <1>2 DEF Landed, Open
<1>7. \A d \in Landed' : Settled(d)'
  BY <1>1, <1>6, ImagesStay DEF ImageInv
<1>8. ProjectedAmong(logs)' = ProjectedAmong(logs) /\ Done' = Done
  BY <1>1 DEF ProjectedAmong, Done
<1>9. Applied(new)'
  <2>1. new.decoded \in SUBSET DOMAIN chain /\ Done \in SUBSET DOMAIN chain
    BY <1>3, <1>4, DecodedLogs
  <2>2. Projected(new)'
    BY <1>1, <1>5, <2>1, ImagesStay DEF Applied
  <2>3. PICK S, old : S = Done /\ old = [t \in Tokens |-> db.tokens[t].totals]
    OBVIOUS
  <2>4. TotalsOf(new, S, old)'
    BY <1>1, <1>5, <2>1, <2>3, ImagesStay DEF Applied
  <2>5. TotalsOf(new, Done, [t \in Tokens |-> db.tokens[t].totals])'
    BY <1>1, <1>8, <2>3, <2>4 DEF TotalsOf
  <2>6. /\ todo' \subseteq ProjectedAmong(logs)'
        /\ new.decoded = db'.decoded \union Done'
        /\ \A i \in Done', j \in todo' : i < j
    BY <1>1, <1>5, <1>8 DEF Applied
  <2> QED
    BY <2>2, <2>5, <2>6 DEF Applied
<1>10. ChainOrdered'
  BY <1>1 DEF ImageInv, ChainOrdered
<1> QED
  BY <1>1, <1>6, <1>7, <1>9, <1>10 DEF ImageInv

\* What Commit publishes is complete: the range covers what the committed
\* tables do not have, and its latest trades are the latest of all.
LEMMA CommitSettles ==
  ASSUME IInv, ImageInv, pc = "commit"
  PROVE  Settled(tx)
<1>0. /\ ChainTypeOK /\ ChainOrdered /\ Settled(db)
      /\ TypeOK /\ CommittedOK /\ NextOK /\ RangeOK /\ TodoOK
  BY DecodedLogs DEF IInv
<1>1. tx \in Open /\ Applied(tx) /\ todo = {}
  BY <1>0 DEF Open, ImageInv, TodoOK
<1>2. Done = ProjectedAmong(logs)
  BY <1>1 DEF Done
<1>3. /\ tx.decoded = db.decoded \union ProjectedAmong(logs) /\ Projected(tx)
      /\ TotalsOf(tx, ProjectedAmong(logs), [t \in Tokens |-> db.tokens[t].totals])
  BY <1>1, <1>2 DEF Applied
<1>4. /\ RM!Synced(db) \in Int /\ RM!Synced(db) <= end
      /\ tx.ledger = LogsBetween(StartBlock, end)
      /\ StartBlock \in Nat /\ next \in Nat /\ end \in Nat
      /\ StartBlock <= next /\ next <= RM!Synced(db) + 1
      /\ logs = LogsBetween(next, end)
      /\ db.ledger = LogsBetween(StartBlock, RM!Synced(db))
  BY <1>0, ReadyToCommit, ChainAssumption
     DEF TypeOK, NextOK, RangeOK, CommittedOK, LedgerExact, ChainAssumption
<1>5. tx.ledger = db.ledger \union logs /\ tx.ledger \subseteq DOMAIN chain
  <2>1. LogsBetween(StartBlock, RM!Synced(db)) \union LogsBetween(next, end)
          = LogsBetween(StartBlock, end)
    BY <1>0, <1>4, LogsJoin
  <2> QED
    BY <1>4, <2>1 DEF LogsBetween
<1>6. tx.decoded = ProjectedAmong(tx.ledger)
  BY <1>0, <1>3, <1>5 DEF Settled, ProjectedAmong
<1>7. ASSUME NEW j \in db.decoded \ ProjectedAmong(logs), NEW k \in logs
      PROVE  j < k
  <2>1. /\ j \in DOMAIN chain /\ k \in DOMAIN chain
        /\ chain[j].block \in Nat /\ chain[k].block \in Nat
        /\ chain[j].block < next /\ next <= chain[k].block
    BY <1>0, <1>4, <1>7, LogType DEF Settled, ProjectedAmong, LogsBetween
  <2>2. ~(k <= j)
    BY <1>0, <1>4, <2>1 DEF ChainOrdered
  <2> QED
    BY <1>0, <2>1, <2>2, LogType
<1>8. ASSUME NEW t \in Tokens
      PROVE  /\ tx.tokens[t].status = RM!Absent => tx.tokens[t].totals = 0
             /\ tx.tokens[t].status # RM!Absent =>
                  IF TradesOf(tx.decoded, t) = {} THEN tx.tokens[t].totals = 0
                  ELSE IsLatest(tx.tokens[t].totals, TradesOf(tx.decoded, t))
  <2> DEFINE now == ProjectedAmong(logs)
             n == tx.tokens[t].totals
             m == db.tokens[t].totals
  <2>1. /\ tx.tokens[t].status = RM!Absent => n = 0
        /\ tx.tokens[t].status # RM!Absent =>
             IF TradesOf(now, t) = {} THEN n = m ELSE IsLatest(n, TradesOf(now, t))
    BY <1>3 DEF TotalsOf
  <2>2. /\ db.tokens[t].status = RM!Absent => m = 0
        /\ db.tokens[t].status # RM!Absent =>
             IF TradesOf(db.decoded, t) = {} THEN m = 0 ELSE IsLatest(m, TradesOf(db.decoded, t))
    BY <1>0 DEF Settled, TotalsOf
  <2>3. TradesOf(tx.decoded, t) = TradesOf(db.decoded, t) \union TradesOf(now, t)
    BY <1>3 DEF TradesOf, TradesAmong, OfToken
  <2>4. DOMAIN chain \subseteq Nat /\ now \subseteq logs
    BY <1>0, LogType DEF ProjectedAmong
  <2>5. CASE TradesOf(now, t) # {}
    <3> SUFFICES ASSUME IsLatest(n, TradesOf(now, t))
                 PROVE  IsLatest(n, TradesOf(tx.decoded, t))
      BY <2>1, <2>3, <2>5
    <3>1. n \in TradesOf(tx.decoded, t) /\ n \in logs
      BY <2>3, <2>4 DEF IsLatest, TradesOf, TradesAmong, OfToken
    <3>2. ASSUME NEW j \in TradesOf(tx.decoded, t)
          PROVE  j <= n
      <4>1. CASE j \in TradesOf(now, t)
        BY <4>1 DEF IsLatest
      <4>2. CASE j \notin TradesOf(now, t)
        <5>1. j \in db.decoded \ now /\ j \in DOMAIN chain /\ n \in DOMAIN chain
          BY <1>0, <1>5, <2>3, <3>1, <4>2
             DEF TradesOf, TradesAmong, OfToken, Settled, ProjectedAmong
        <5>2. j < n
          BY <1>7, <3>1, <5>1
        <5> HIDE DEF n
        <5> QED
          BY <2>4, <5>1, <5>2
      <4> QED
        BY <4>1, <4>2
    <3> QED
      BY <3>1, <3>2 DEF IsLatest
  <2>6. CASE TradesOf(now, t) = {}
    <3>1. TradesOf(tx.decoded, t) = TradesOf(db.decoded, t)
      BY <2>3, <2>6
    <3>2. ASSUME tx.tokens[t].status # RM!Absent, NEW j \in TradesOf(db.decoded, t)
          PROVE  db.tokens[t].status # RM!Absent
      <4>1. j \in db.decoded /\ j \in DOMAIN chain /\ IsTrade(j) /\ chain[j].token = t
        BY <1>0 DEF TradesOf, TradesAmong, OfToken, Settled, ProjectedAmong
      <4>2. PICK i \in DOMAIN chain : chain[i].kind = "TokenCreated" /\ chain[i].token = t /\ i < j
        BY <1>0, <4>1 DEF ChainOrdered, IsTrade
      <4>3. i \in tx.decoded
        <5>1. Happened(tx.decoded, "TokenCreated", t)
          BY <1>3, <3>2 DEF Projected
        <5>2. PICK c \in tx.decoded : chain[c].kind = "TokenCreated" /\ chain[c].token = t
          BY <5>1 DEF Happened
        <5>3. c \in DOMAIN chain
          BY <1>5, <1>6 DEF ProjectedAmong
        <5> QED
          BY <1>0, <4>2, <5>2, <5>3 DEF ChainOrdered
      <4>4. i \in db.decoded
        <5>1. i \in LogsBetween(StartBlock, end) /\ i \in Nat /\ j \in Nat
          BY <1>4, <1>6, <2>4, <4>1, <4>2, <4>3 DEF ProjectedAmong
        <5>2. /\ chain[i].block <= chain[j].block
              /\ chain[j].block <= RM!Synced(db)
              /\ StartBlock <= chain[i].block
          BY <1>0, <1>4, <4>1, <4>2, <5>1 DEF ChainOrdered, Settled, ProjectedAmong, LogsBetween
        <5>3. chain[i].block \in Nat /\ chain[j].block \in Nat
          BY <1>0, <4>1, <4>2, LogType
        <5>4. i \in LogsBetween(StartBlock, RM!Synced(db))
          BY <1>4, <4>2, <5>2, <5>3 DEF LogsBetween
        <5> QED
          BY <1>0, <1>4, <4>2, <5>4 DEF Settled, ProjectedAmong
      <4>5. Happened(db.decoded, "TokenCreated", t)
        BY <4>2, <4>4 DEF Happened
      <4> QED
        BY <1>0, <4>5 DEF Settled, Projected
    <3> QED
      BY <2>1, <2>2, <2>6, <3>1, <3>2
  <2> QED
    BY <2>1, <2>5, <2>6
<1>9. TotalsOf(tx, tx.decoded, [t \in Tokens |-> 0])
  BY <1>8 DEF TotalsOf
<1> QED
  BY <1>3, <1>5, <1>6, <1>9 DEF Settled

\* Commit publishes the open image, now complete.
LEMMA CommitImageInv == IInv /\ ImageInv /\ Commit => ImageInv'
<1> SUFFICES ASSUME IInv, ImageInv, Commit PROVE ImageInv'
  OBVIOUS
<1>1. pc = "commit" /\ pc' = "range" /\ db' = tx /\ UNCHANGED <<chain, orphan>>
  BY DEF Commit, chainVars
<1>2. Settled(tx) /\ orphan = NoTx
  BY <1>1, CommitSettles, ReadyToCommit
<1>3. \A d \in Landed' : Settled(d)
  BY <1>1, <1>2 DEF Landed
<1> QED
  BY <1>1, <1>3, ClosedImageInv

\* A lost process leaves an orphan that is complete too.
LEMMA ExitImageInv == IInv /\ ImageInv /\ (Exit \/ ExitDuringCommit) => ImageInv'
<1> SUFFICES ASSUME IInv, ImageInv, Exit \/ ExitDuringCommit PROVE ImageInv'
  OBVIOUS
<1>1. /\ pc' = "down" /\ UNCHANGED <<chain, db>>
      /\ orphan' = orphan \/ (pc = "commit" /\ orphan' = tx)
  BY DEF Exit, ExitDuringCommit, chainVars
<1>2. \A d \in Landed' : d \in Landed \/ (pc = "commit" /\ d = tx)
  BY <1>1 DEF Landed
<1>3. \A d \in Landed' : Settled(d)
  BY <1>2, CommitSettles DEF ImageInv
<1> QED
  BY <1>1, <1>3, ClosedImageInv

\* The server settles the orphan.
LEMMA OrphanImageInv == IInv /\ ImageInv /\ (OrphanCommits \/ OrphanAborts) => ImageInv'
<1> SUFFICES ASSUME IInv, ImageInv, OrphanCommits \/ OrphanAborts PROVE ImageInv'
  OBVIOUS
<1>1. /\ orphan # NoTx /\ orphan' = NoTx
      /\ db' = db \/ db' = orphan
      /\ UNCHANGED <<chain, pc, logs, todo>>
  BY DEF OrphanCommits, OrphanAborts, chainVars, memVars
<1>2. pc' \notin {"project", "commit"}
  BY <1>1 DEF IInv, SavingOK
<1>3. \A d \in Landed' : Settled(d)
  BY <1>1 DEF Landed, ImageInv
<1>4. pc' = "save" => todo' = ProjectedAmong(logs')
  BY <1>1 DEF ImageInv
<1> QED
  BY <1>1, <1>2, <1>3, <1>4, ClosedImageInv

\* Every behaviour of the indexer satisfies both invariants.
THEOREM ImageInvariant == Spec => [](IInv /\ ImageInv)
<1>1. IInv /\ ImageInv /\ [Next]_vars => ImageInv'
  <2> SUFFICES ASSUME IInv, ImageInv, [Next]_vars PROVE ImageInv'
    OBVIOUS
  <2>1. CASE GrowChain
    BY <2>1, GrowChainImageInv
  <2>2. CASE Run
    BY <2>2, ReadingImageInv, InsertEventsImageInv, ProjectImageInv, SaveCheckpointImageInv,
       CommitImageInv DEF Run
  <2>3. CASE Exit \/ ExitDuringCommit
    BY <2>3, ExitImageInv
  <2>4. CASE OrphanCommits \/ OrphanAborts
    BY <2>4, OrphanImageInv
  <2>5. CASE UNCHANGED vars
    <3>1. UNCHANGED <<chain, db, tx, orphan, pc, logs, todo>>
      BY <2>5 DEF vars
    <3>2. ChainOrdered'
      BY <3>1 DEF ImageInv, ChainOrdered
    <3> QED
      BY <3>1, <3>2, QuietImageInv
  <2> QED
    BY <2>1, <2>2, <2>3, <2>4, <2>5 DEF Next
<1> QED
  BY InitImageInv, IndexerInvariant, <1>1, PTL DEF Spec

-----------------------------------------------------------------------------
(* A settled image is the one the read model defines.                      *)

\* The read model reads the same chain with the same operators.
LEMMA SameOperators ==
  /\ RM!ChainInit <=> ChainInit
  /\ \A from, to : RM!LogsBetween(from, to) = LogsBetween(from, to)
  /\ \A S : /\ RM!ProjectedAmong(S) = ProjectedAmong(S)
            /\ RM!TradesAmong(S) = TradesAmong(S)
            /\ RM!CandlesAmong(S) = CandlesAmong(S)
            /\ \A t : RM!OfToken(S, t) = OfToken(S, t)
            /\ \A kind : RM!OfKind(S, kind) = OfKind(S, kind)
            /\ \A c : RM!InCandle(S, c) = InCandle(S, c)
<1>1. RM!ChainInit <=> ChainInit
  BY DEF RM!ChainInit, ChainInit
<1>2. \A from, to : RM!LogsBetween(from, to) = LogsBetween(from, to)
  BY DEF RM!LogsBetween, LogsBetween
<1>3. \A S : RM!ProjectedAmong(S) = ProjectedAmong(S)
  BY DEF RM!ProjectedAmong, ProjectedAmong
<1>4. \A S : RM!TradesAmong(S) = TradesAmong(S)
  BY DEF RM!TradesAmong, TradesAmong, RM!IsTrade, IsTrade, RM!TradeKinds, TradeKinds
<1>5. \A k, i : RM!CandleOf(k, i) = CandleOf(k, i)
  BY DEF RM!CandleOf, CandleOf
<1>6. \A S : RM!CandlesAmong(S) = CandlesAmong(S)
  BY <1>4, <1>5 DEF RM!CandlesAmong, CandlesAmong
<1>7. \A S, t : RM!OfToken(S, t) = OfToken(S, t)
  BY DEF RM!OfToken, OfToken
<1>8. \A S, kind : RM!OfKind(S, kind) = OfKind(S, kind)
  BY DEF RM!OfKind, OfKind
<1>9. \A S, c : RM!InCandle(S, c) = InCandle(S, c)
  BY <1>4, <1>5 DEF RM!InCandle, InCandle
<1> QED
  BY <1>1, <1>2, <1>3, <1>4, <1>6, <1>7, <1>8, <1>9

\* And it takes the same steps.
LEMMA SameChainSteps == ChainNext => RM!ChainNext
<1>1. \A kind, t : RM!ContractAllows(kind, t) <=> ContractAllows(kind, t)
  BY DEF RM!ContractAllows, ContractAllows, RM!Emitted, Emitted
<1>2. \A kind, t, p : Emit(kind, t, p) => RM!Emit(kind, t, p)
  BY <1>1 DEF RM!Emit, Emit, RM!TradeKinds, TradeKinds
<1>3. Mine => RM!Mine
  BY DEF RM!Mine, Mine
<1> QED
  BY <1>2, <1>3 DEF RM!ChainNext, ChainNext, RM!LogKinds, LogKinds, RM!TradeKinds, TradeKinds

\* The row of a token.
LEMMA TokenImageOf ==
  ASSUME ChainTypeOK, NEW d, IsDatabase(d), Settled(d), NEW t \in Tokens
  PROVE  d.tokens[t] = RM!TokenImage(d.ledger, t)
<1> DEFINE S == d.ledger
           row == d.tokens[t]
           trades == TradesAmong(OfToken(S, t))
           max == CHOOSE x \in trades : \A y \in trades : x >= y
<1>1. /\ row = [status |-> row.status, totals |-> row.totals]
      /\ DOMAIN chain \subseteq Nat
  BY LogType DEF IsDatabase, TokenRow
<1>2. /\ S \in SUBSET DOMAIN chain /\ d.decoded = ProjectedAmong(S)
      /\ row.status = IF ~Happened(d.decoded, "TokenCreated", t) THEN RM!Absent
                      ELSE IF Happened(d.decoded, "TokenGraduated", t) THEN RM!Graduated ELSE RM!Trading
      /\ row.status = RM!Absent => row.totals = 0
      /\ row.status # RM!Absent =>
           IF TradesOf(d.decoded, t) = {} THEN row.totals = 0
           ELSE IsLatest(row.totals, TradesOf(d.decoded, t))
  BY DEF Settled, Projected, TotalsOf
<1> HIDE DEF row
<1>3. /\ TradesOf(d.decoded, t) = trades
      /\ Happened(d.decoded, "TokenCreated", t) <=> OfKind(OfToken(S, t), "TokenCreated") # {}
      /\ Happened(d.decoded, "TokenGraduated", t) <=> OfKind(OfToken(S, t), "TokenGraduated") # {}
  BY <1>2, ProjectedSuffice
<1>4. IsLatest(row.totals, trades) => max = row.totals
  <2>1. trades \in SUBSET Nat
    BY <1>1, <1>2 DEF TradesAmong, OfToken
  <2> HIDE DEF trades
  <2> QED
    BY <2>1, MaxIs DEF IsLatest
<1>5. RM!TokenImage(S, t) =
        IF OfKind(OfToken(S, t), "TokenCreated") = {}
        THEN [status |-> RM!Absent, totals |-> 0]
        ELSE [status |-> IF OfKind(OfToken(S, t), "TokenGraduated") = {}
                         THEN RM!Trading ELSE RM!Graduated,
              totals |-> IF trades = {} THEN 0 ELSE max]
  BY SameOperators DEF RM!TokenImage, RM!Max
<1> HIDE DEF trades, max
<1>6. row = RM!TokenImage(S, t)
  BY <1>1, <1>2, <1>3, <1>4, <1>5
<1> QED
  BY <1>6 DEF row

\* The row of a candle.
LEMMA CandleImageOf ==
  ASSUME ChainTypeOK, NEW S \in SUBSET DOMAIN chain, NEW c,
         NEW row \in CandleRow, CandleRowOf(row, InCandle(S, c))
  PROVE  row = RM!CandleImage(S, c)
<1> DEFINE all == InCandle(S, c)
           prices == {chain[k].price : k \in all}
           first == CHOOSE x \in all : \A y \in all : x <= y
           last == CHOOSE x \in all : \A y \in all : x >= y
           high == CHOOSE x \in prices : \A y \in prices : x >= y
           low == CHOOSE x \in prices : \A y \in prices : x <= y
<1>1. row = [open |-> row.open, close |-> row.close, high |-> row.high, low |-> row.low,
             added |-> row.added, repeated |-> row.repeated]
  BY DEF CandleRow
<1>2. all \in SUBSET Nat /\ prices \in SUBSET Nat
  BY LogType DEF InCandle, TradesAmong
<1>3. RM!CandleImage(S, c) =
        [open |-> chain[first].price, close |-> chain[last].price, high |-> high, low |-> low,
         added |-> all, repeated |-> {}]
  BY SameOperators DEF RM!CandleImage, RM!Max, RM!Min
<1>4. /\ row.added = all /\ row.repeated = {}
      /\ row.high \in prices /\ \A p \in prices : p <= row.high
      /\ row.low \in prices /\ \A p \in prices : row.low <= p
  BY DEF CandleRowOf, RowOf
<1>5. PICK k \in all : row.open = chain[k].price /\ \A j \in all : k <= j
  BY DEF CandleRowOf
<1>6. PICK n \in all : row.close = chain[n].price /\ \A j \in all : j <= n
  BY DEF CandleRowOf, IsLatest
<1> HIDE DEF all
<1>7. first = k /\ last = n
  BY <1>2, <1>5, <1>6, MinIs, MaxIs
<1> HIDE DEF prices
<1>8. high = row.high /\ low = row.low
  BY <1>2, <1>4, MinIs, MaxIs
<1> HIDE DEF first, last, high, low
<1> QED
  BY <1>1, <1>3, <1>4, <1>5, <1>6, <1>7, <1>8

\* The tables of a settled image show what its ledger says.
LEMMA SettledShows ==
  ASSUME ChainTypeOK, NEW d, IsDatabase(d), Settled(d)
  PROVE  /\ d.decoded = RM!ProjectedAmong(d.ledger)
         /\ d.trades = RM!TradesAmong(d.ledger)
         /\ d.tokens = [t \in Tokens |-> RM!TokenImage(d.ledger, t)]
         /\ d.klines = [c \in CandlesAmong(d.ledger) |-> RM!CandleImage(d.ledger, c)]
<1> DEFINE S == d.ledger
<1>1. /\ S \in SUBSET DOMAIN chain /\ d.decoded = ProjectedAmong(S)
      /\ d.trades = TradesAmong(d.decoded)
      /\ DOMAIN d.klines = CandlesAmong(d.decoded)
      /\ \A c \in DOMAIN d.klines : CandleRowOf(d.klines[c], InCandle(d.decoded, c))
  BY DEF Settled, Projected
<1>2. /\ d.trades = TradesAmong(S)
      /\ DOMAIN d.klines = CandlesAmong(S)
      /\ \A c \in DOMAIN d.klines : CandleRowOf(d.klines[c], InCandle(S, c))
  BY <1>1, ProjectedSuffice
<1>3. /\ d.klines = [c \in DOMAIN d.klines |-> d.klines[c]]
      /\ \A c \in DOMAIN d.klines : d.klines[c] \in CandleRow
  BY DEF IsDatabase, IsKlineTable
<1>4. \A c \in DOMAIN d.klines : d.klines[c] = RM!CandleImage(S, c)
  BY <1>1, <1>2, <1>3, CandleImageOf
<1>5. d.klines = [c \in CandlesAmong(S) |-> RM!CandleImage(S, c)]
  BY <1>2, <1>3, <1>4
<1>6. d.tokens = [t \in Tokens |-> RM!TokenImage(S, t)]
  BY TokenImageOf DEF IsDatabase
<1> QED
  BY <1>1, <1>2, <1>5, <1>6, SameOperators

\* A settled image whose ledger ends at block b is the read model's.
LEMMA ImageAt ==
  ASSUME ChainTypeOK, NEW d, IsDatabase(d), Settled(d), d.ledger = LogsBetween(StartBlock, d.ckpt)
  PROVE  d = RM!Image(d.ckpt)
<1>1. d = [ledger |-> d.ledger, decoded |-> d.decoded, trades |-> d.trades,
           tokens |-> d.tokens, klines |-> d.klines, ckpt |-> d.ckpt]
  BY DEF IsDatabase
<1>2. /\ d.decoded = RM!ProjectedAmong(d.ledger)
      /\ d.trades = RM!TradesAmong(d.ledger)
      /\ d.tokens = [t \in Tokens |-> RM!TokenImage(d.ledger, t)]
      /\ d.klines = [c \in CandlesAmong(d.ledger) |-> RM!CandleImage(d.ledger, c)]
  BY SettledShows
<1>3. d.ledger = RM!LogsBetween(StartBlock, d.ckpt)
      /\ CandlesAmong(d.ledger) = RM!CandlesAmong(d.ledger)
  BY SameOperators
<1> QED
  BY <1>1, <1>2, <1>3 DEF RM!Image

-----------------------------------------------------------------------------
(* The steps that change the committed tables.                             *)

\* Image d may become the committed one in the next step.
Publishable(d) ==
    \/ pc = "commit" /\ d = tx
    \/ orphan # NoTx /\ d = orphan

\* It is the image of a block not before the checkpoint.
LEMMA PublishableImage ==
  ASSUME IInv, ImageInv, NEW d, Publishable(d)
  PROVE  /\ IsDatabase(d) /\ Settled(d)
         /\ d.ckpt \in StartBlock .. head /\ d.ckpt \in Nat
         /\ RM!Synced(db) \in Int /\ RM!Synced(db) <= d.ckpt
         /\ d.ledger = LogsBetween(StartBlock, d.ckpt)
         /\ OfKind(d.ledger, "Rejected") = {}
         /\ db.ledger \subseteq d.ledger
<1>0. TypeOK /\ CommittedOK /\ OrphanOK
  BY DEF IInv
<1>1. CASE pc = "commit" /\ d = tx
  BY <1>1, ReadyToCommit, CommitSettles
<1>2. CASE orphan # NoTx /\ d = orphan
  <2>1. /\ IsDatabase(d) /\ d.ckpt \in StartBlock .. head
        /\ RM!Synced(db) <= d.ckpt
        /\ d.ledger = LogsBetween(StartBlock, d.ckpt)
        /\ OfKind(d.ledger, "Rejected") = {}
    BY <1>0, <1>2 DEF TypeOK, OrphanOK
  <2>2. Settled(d)
    BY <1>2 DEF ImageInv, Landed
  <2>3. RM!Synced(db) \in Int /\ StartBlock \in Nat /\ d.ckpt \in Nat
    BY <1>0, <2>1, SyncedType, ChainAssumption DEF TypeOK, IsDatabase, ChainAssumption
  <2>4. \A k \in DOMAIN chain : chain[k].block \in Nat
    BY <1>0, LogType DEF TypeOK
  <2>5. LogsBetween(StartBlock, RM!Synced(db)) \subseteq LogsBetween(StartBlock, d.ckpt)
    BY <2>1, <2>3, <2>4 DEF LogsBetween
  <2>6. db.ledger \subseteq d.ledger
    BY <1>0, <2>1, <2>5 DEF CommittedOK, LedgerExact
  <2> QED
    BY <2>1, <2>2, <2>3, <2>6
<1> QED
  BY <1>1, <1>2 DEF Publishable

\* The committed tables change only to such an image, and the chain stays.
LEMMA Publishing ==
  ASSUME IInv, [Next]_vars, db' # db
  PROVE  Publishable(db') /\ UNCHANGED <<chain, head>>
<1>1. ~UNCHANGED vars
  BY DEF vars
<1>2. ~GrowChain
  BY DEF GrowChain
<1>3. CASE Run
  <2>1. Commit
    BY <1>3 DEF Run, Resume, ReadHead, Fetch, CaughtUp, Tick, Decode, DecodeFails,
                InsertEvents, Project, SaveCheckpoint
  <2> QED
    BY <2>1 DEF Commit, Publishable, chainVars
<1>4. ~(Exit \/ ExitDuringCommit \/ OrphanAborts)
  BY DEF Exit, ExitDuringCommit, OrphanAborts
<1>5. CASE OrphanCommits
  BY <1>5 DEF OrphanCommits, Publishable, chainVars
<1> QED
  BY <1>1, <1>2, <1>3, <1>4, <1>5 DEF Next

\* A larger settled image shows a later trade, or the same.
LEMMA TotalsGrow ==
  ASSUME ChainTypeOK,
         NEW d, IsDatabase(d), Settled(d),
         NEW e, IsDatabase(e), Settled(e),
         d.ledger \subseteq e.ledger, NEW t \in Tokens
  PROVE  e.tokens[t].totals >= d.tokens[t].totals
<1>1. /\ d.decoded \subseteq e.decoded /\ e.decoded \subseteq DOMAIN chain
      /\ DOMAIN chain \subseteq Nat
  BY LogType DEF Settled, ProjectedAmong
<1>2. d.tokens[t].totals \in Nat /\ e.tokens[t].totals \in Nat
  BY DEF IsDatabase, TokenRow
<1>3. /\ d.tokens[t].status = RM!Absent => d.tokens[t].totals = 0
      /\ d.tokens[t].status # RM!Absent =>
           IF TradesOf(d.decoded, t) = {} THEN d.tokens[t].totals = 0
           ELSE IsLatest(d.tokens[t].totals, TradesOf(d.decoded, t))
      /\ e.tokens[t].status # RM!Absent =>
           IF TradesOf(e.decoded, t) = {} THEN e.tokens[t].totals = 0
           ELSE IsLatest(e.tokens[t].totals, TradesOf(e.decoded, t))
  BY DEF Settled, TotalsOf
<1>4. d.tokens[t].status # RM!Absent => e.tokens[t].status # RM!Absent
  <2>1. d.tokens[t].status # RM!Absent => Happened(d.decoded, "TokenCreated", t)
    BY DEF Settled, Projected
  <2>2. Happened(d.decoded, "TokenCreated", t) => Happened(e.decoded, "TokenCreated", t)
    BY <1>1 DEF Happened
  <2>3. e.tokens[t].status =
          IF ~Happened(e.decoded, "TokenCreated", t) THEN RM!Absent
          ELSE IF Happened(e.decoded, "TokenGraduated", t) THEN RM!Graduated ELSE RM!Trading
    BY DEF Settled, Projected
  <2> QED
    BY <2>1, <2>2, <2>3
<1>5. TradesOf(d.decoded, t) \subseteq TradesOf(e.decoded, t)
  BY <1>1 DEF TradesOf, TradesAmong, OfToken
<1>6. CASE d.tokens[t].status # RM!Absent /\ TradesOf(d.decoded, t) # {}
  <2>1. d.tokens[t].totals \in TradesOf(e.decoded, t)
    BY <1>3, <1>5, <1>6 DEF IsLatest
  <2>2. d.tokens[t].totals <= e.tokens[t].totals
    BY <1>3, <1>4, <1>6, <2>1 DEF IsLatest
  <2> QED
    BY <1>2, <2>2
<1>7. CASE ~(d.tokens[t].status # RM!Absent /\ TradesOf(d.decoded, t) # {})
  <2>1. d.tokens[t].totals = 0
    BY <1>3, <1>7
  <2> QED
    BY <1>2, <2>1
<1> QED
  BY <1>6, <1>7

-----------------------------------------------------------------------------
(* What the API reads.                                                     *)

\* Each token row shows its last indexed trade and its graduation, although a
\* range saved again replays older trades over the row first.
THEOREM TokensAreCurrent == Spec => []TokensCurrent
<1>1. IInv /\ ImageInv => TokensCurrent
  BY DecodedLogs, TokenImageOf DEF TokensCurrent
<1> QED
  BY ImageInvariant, <1>1, PTL

\* Each candle aggregates the indexed trades of its interval, each once,
\* although a range may be saved twice.
THEOREM CandlesAreExact == Spec => []CandlesExact
<1>1. IInv /\ ImageInv => CandlesExact
  BY DecodedLogs, SettledShows DEF CandlesExact
<1> QED
  BY ImageInvariant, <1>1, PTL

\* No commit, not even one that outlives its process, moves the checkpoint
\* back, removes a raw log or shows an older trade.
THEOREM CheckpointMovesForward == Spec => CheckpointForward
<1> DEFINE Forward == /\ db'.ckpt >= db.ckpt
                      /\ db.ledger \subseteq db'.ledger
                      /\ \A t \in Tokens : db'.tokens[t].totals >= db.tokens[t].totals
<1>1. IInv /\ ImageInv /\ [Next]_vars => [Forward]_db
  <2> SUFFICES ASSUME IInv, ImageInv, [Next]_vars, db' # db PROVE Forward
    OBVIOUS
  <2>1. PICK d : d = db' /\ Publishable(d)
    BY Publishing
  <2>2. /\ ChainTypeOK /\ IsDatabase(db) /\ Settled(db)
        /\ IsDatabase(d) /\ Settled(d) /\ db.ledger \subseteq d.ledger
    BY <2>1, DecodedLogs, PublishableImage
  <2>3. d.ckpt >= db.ckpt
    <3>1. d.ckpt \in Nat /\ RM!Synced(db) \in Int /\ RM!Synced(db) <= d.ckpt
      BY <2>1, PublishableImage
    <3>2. db.ckpt \in Nat \union {RM!NoCheckpoint}
      BY <2>2 DEF IsDatabase
    <3> QED
      BY <3>1, <3>2 DEF RM!Synced
  <2>4. \A t \in Tokens : d.tokens[t].totals >= db.tokens[t].totals
    BY <2>2, TotalsGrow
  <2> QED
    BY <2>1, <2>2, <2>3, <2>4
<1> QED
  BY ImageInvariant, <1>1, PTL DEF Spec, CheckpointForward

\* The indexer, with its remote calls, exits, retries and lost commits,
\* implements the read model that publishes whole ranges at once.
THEOREM RefinesReadModel == Spec => ImplementsReadModel
<1>1. Init => RM!Init
  BY SameOperators DEF Init, RM!Init
<1>2. IInv /\ ImageInv /\ [Next]_vars => [RM!Next]_(RM!readModelVars)
  <2> SUFFICES ASSUME IInv, ImageInv, [Next]_vars
               PROVE  [RM!Next]_(RM!readModelVars)
    OBVIOUS
  <2>1. CASE db' = db /\ GrowChain
    <3>1. RM!Grow
      BY <2>1, SameChainSteps DEF GrowChain, RM!Grow
    <3> QED
      BY <3>1 DEF RM!Next
  <2>2. CASE db' = db /\ ~GrowChain
    <3>1. UNCHANGED <<chain, head>>
      BY <2>2 DEF Next, Run, Resume, ReadHead, Fetch, CaughtUp, Tick, Decode, DecodeFails,
                  InsertEvents, Project, SaveCheckpoint, Commit, Exit, ExitDuringCommit,
                  OrphanCommits, OrphanAborts, vars, chainVars
    <3> QED
      BY <2>2, <3>1 DEF RM!readModelVars
  <2>3. CASE db' # db
    <3>1. PICK d : d = db' /\ Publishable(d)
      BY <2>3, Publishing
    <3>2. UNCHANGED <<chain, head>>
      BY <2>3, Publishing
    <3>3. /\ ChainTypeOK /\ IsDatabase(d) /\ Settled(d)
          /\ d.ckpt \in StartBlock .. head /\ d.ckpt \in Nat
          /\ RM!Synced(db) \in Int /\ RM!Synced(db) <= d.ckpt
          /\ d.ledger = LogsBetween(StartBlock, d.ckpt)
          /\ OfKind(d.ledger, "Rejected") = {}
      BY <3>1, DecodedLogs, PublishableImage
    <3>4. d = RM!Image(d.ckpt)
      BY <3>3, ImageAt
    <3>5. d.ckpt # RM!Synced(db)
      <4> SUFFICES ASSUME d.ckpt = RM!Synced(db) PROVE FALSE
        OBVIOUS
      <4>1. StartBlock \in Nat
        BY ChainAssumption DEF ChainAssumption
      <4>2. db.ckpt = d.ckpt
        BY <3>3, <4>1 DEF RM!Synced
      <4>3. IsDatabase(db) /\ Settled(db) /\ db.ledger = LogsBetween(StartBlock, db.ckpt)
        BY <4>2, DecodedLogs DEF IInv, CommittedOK, LedgerExact
      <4>4. db = RM!Image(db.ckpt)
        BY <3>3, <4>3, ImageAt
      <4> QED
        BY <2>3, <3>1, <3>4, <4>2, <4>4
    <3>6. d.ckpt \in RM!Synced(db) + 1 .. head
      BY <3>3, <3>5 DEF ChainTypeOK
    <3>7. RM!OfKind(RM!LogsBetween(StartBlock, d.ckpt), "Rejected") = {}
      BY <3>3, SameOperators
    <3>8. RM!Publish
      BY <3>1, <3>2, <3>4, <3>6, <3>7 DEF RM!Publish, RM!chainVars
    <3> QED
      BY <3>8 DEF RM!Next
  <2> QED
    BY <2>1, <2>2, <2>3
<1> QED
  BY ImageInvariant, <1>1, <1>2, PTL DEF Spec, ImplementsReadModel, RM!Spec

=============================================================================
