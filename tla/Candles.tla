------------------------------- MODULE Candles -------------------------------
(***************************************************************************)
(* The K-line upsert: INSERT INTO klines ... ON CONFLICT DO UPDATE.  Both  *)
(* indexers run the same statement, once per trade and interval; what      *)
(* differs is when they run it.                                            *)
(***************************************************************************)
EXTENDS MemeChain

\* The volume of a row is the sum of the amounts of the trades in "added";
\* "repeated" holds those that went into the sum more than once.
CandleRow == [open : Nat, close : Nat, high : Nat, low : Nat,
              added : SUBSET Nat, repeated : SUBSET Nat]

\* klines is a table keyed by (token, interval, open time).
IsKlineTable(K) ==
    /\ DOMAIN K \subseteq Tokens \X Intervals \X Nat
    /\ K = [c \in DOMAIN K |-> K[c]]
    /\ \A c \in DOMAIN K : K[c] \in CandleRow

\* The row trade k inserts.
NewCandle(k) ==
    [open |-> chain[k].price, close |-> chain[k].price,
     high |-> chain[k].price, low |-> chain[k].price,
     added |-> {k}, repeated |-> {}]

\* The row trade k updates.
MergeCandle(row, k) ==
    [open     |-> row.open,
     close    |-> chain[k].price,
     high     |-> IF chain[k].price > row.high THEN chain[k].price ELSE row.high,
     low      |-> IF chain[k].price < row.low THEN chain[k].price ELSE row.low,
     added    |-> row.added \union {k},
     repeated |-> row.repeated \union ({k} \intersect row.added)]

UpsertKlines(K, k) ==
    LET keys == {CandleOf(k, i) : i \in Intervals}
    IN [c \in DOMAIN K \union keys |->
          IF c \notin keys THEN K[c]
          ELSE IF c \notin DOMAIN K THEN NewCandle(k) ELSE MergeCandle(K[c], k)]

=============================================================================
