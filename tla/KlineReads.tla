----------------------------- MODULE KlineReads -----------------------------
(***************************************************************************)
(* Reading candles through the legacy API (logic/kline, model/kline.go)    *)
(* while the indexer writes them: a client that walks back through the     *)
(* history cursor by cursor, and the query of a range.                     *)
(*                                                                         *)
(* The candles are those of one token and interval, named by the second    *)
(* they open, which is unique.  Their column keeps no time zone: pgx       *)
(* writes what a clock on the wall of the writing process shows, and reads *)
(* it as UTC.  A zone is the offset of that clock, the same all year.      *)
(***************************************************************************)
EXTENDS Integers, FiniteSets

CONSTANTS
    Opens,          \* seconds at which candles may open
    Zones,          \* zones that processes may run in
    Limits,         \* values of limit that clients ask for
    DefaultLimit,   \* 300
    MaxLimit        \* 1000

ASSUME KlineAssumption ==
    /\ Opens \subseteq Nat \ {0}
    /\ Zones \subseteq Int
    /\ Limits \subseteq Int
    /\ DefaultLimit \in Nat \ {0} /\ MaxLimit \in Nat \ {0}
    /\ DefaultLimit <= MaxLimit

VARIABLES
    candles,        \* the candles there are
    writerZone,     \* the zone of the indexer
    readerZone,     \* the zone of the API
    history         \* a client that asks for page after page

klineVars == <<candles, writerZone, readerZone, history>>

\* cursor is the one of the last page, as a set of at most one.  The other
\* fields are history: the candles there were at first, those answered,
\* whether one was answered twice, whether a cursor was damaged and whether a
\* query failed before its first row.
History == [state : {"off", "on", "done"}, limit : Nat, cursor : SUBSET Int,
            old : SUBSET Opens, seen : SUBSET Opens,
            twice : BOOLEAN, damaged : BOOLEAN, failed : BOOLEAN]

NoHistory == [state |-> "off", limit |-> DefaultLimit, cursor |-> {}, old |-> {}, seen |-> {},
              twice |-> FALSE, damaged |-> FALSE, failed |-> FALSE]

-----------------------------------------------------------------------------

\* What the column holds, and what a reader takes for seconds since the epoch.
RowTime(open) == open + writerZone

\* GetKlineHistoryWithCursor and FindByTokenAndInterval.
EffectiveLimit(limit) ==
    IF limit <= 0 THEN DefaultLimit ELSE IF limit > MaxLimit THEN MaxLimit ELSE limit

\* Mutant: the cursor keeps its own row.
Before_Inclusive(cursor) == {o \in candles : \A time \in cursor : RowTime(o) <= time}

\* Rows the WHERE clause lets through.  The cursor is the text of a time in
\* UTC, of whole seconds as all rows are.
Before(cursor) == {o \in candles : \A time \in cursor : RowTime(o) < time}

\* The first rows of ORDER BY open_time DESC.
Latest(items, rows) == items \subseteq rows /\ \A o \in items, p \in rows \ items : o > p

\* The cursor of the next page is that of its earliest candle.
NextCursor(items) == {RowTime(o) : o \in {p \in items : \A q \in items : p <= q}}

KlineInit ==
    /\ candles = {}
    /\ writerZone \in Zones
    /\ readerZone \in Zones
    /\ history = NoHistory

\* The indexer inserts a candle; a replay may insert an early one late.
CandleOpens(open) ==
    /\ open \notin candles
    /\ candles' = candles \union {open}
    /\ UNCHANGED <<writerZone, readerZone, history>>

HistoryStarts(limit) ==
    /\ history.state # "on"
    /\ history' = [NoHistory EXCEPT !.state = "on", !.old = candles,
                                    !.limit = EffectiveLimit(limit)]
    /\ UNCHANGED <<candles, writerZone, readerZone>>

\* A cursor that cannot be decoded or parsed is ignored: the newest page.
CursorDamaged ==
    /\ history.state = "on"
    /\ history.cursor # {}
    /\ history' = [history EXCEPT !.cursor = {}, !.damaged = TRUE]
    /\ UNCHANGED <<candles, writerZone, readerZone>>

\* A page with a cursor for the next one.  rows.Err is not asked for: a query
\* that fails between two rows answers those it has.
HistoryPage ==
    /\ history.state = "on"
    /\ \E items \in SUBSET Before(history.cursor) :
          /\ items # {}
          /\ Latest(items, Before(history.cursor))
          /\ Cardinality(items) <= history.limit
          /\ history' = [history EXCEPT !.cursor = NextCursor(items),
                                        !.seen = @ \union items,
                                        !.twice = @ \/ items \intersect history.seen # {}]
    /\ UNCHANGED <<candles, writerZone, readerZone>>

\* A page without rows has no cursor: the client takes it for the end, also
\* when a query failed before its first row.
HistoryEnds ==
    /\ history.state = "on"
    /\ history' = [history EXCEPT !.state = "done",
                                  !.failed = Before(history.cursor) # {}]
    /\ UNCHANGED <<candles, writerZone, readerZone>>

KlineNext ==
    \/ \E open \in Opens : CandleOpens(open)
    \/ \E limit \in Limits : HistoryStarts(limit)
    \/ CursorDamaged
    \/ HistoryPage
    \/ HistoryEnds

KlineSpec == KlineInit /\ [][KlineNext]_klineVars

-----------------------------------------------------------------------------
\* The query of a range, which changes nothing: GetKlineHistory and
\* FindByTokenAndIntervalRange.

RangeIsValid(from, to) == from > 0 /\ to > 0 /\ from <= to

\* Mutant: the bounds are taken in UTC.
RowsInRange_InUtc(from, to) == {o \in candles : from <= RowTime(o) /\ RowTime(o) <= to}

\* The bounds are written as the API's own clock shows them.
RowsInRange(from, to) ==
    {o \in candles : from + readerZone <= RowTime(o) /\ RowTime(o) <= to + readerZone}

-----------------------------------------------------------------------------

KlineTypeOK ==
    /\ candles \subseteq Opens
    /\ writerZone \in Zones /\ readerZone \in Zones
    /\ history \in History

\* A client that walks to the end has seen every candle there was when it
\* began, unless a query failed, and none twice, unless a cursor was damaged.
\* Code: the cursor is the earliest row answered, whatever was inserted, cut
\* off or limited.
KlineWalkExact ==
    /\ history.state = "done" /\ ~history.failed => history.old \subseteq history.seen
    /\ history.twice => history.damaged

\* A range has the candles that open in it, if the indexer that wrote them and
\* the API run in the same zone.
\* Code: both Dockerfiles set TZ, and nothing else makes the two agree.
KlineRangeExact ==
    writerZone = readerZone =>
        \A from, to \in Opens :
            RangeIsValid(from, to) => RowsInRange(from, to) = {o \in candles : from <= o /\ o <= to}

=============================================================================
