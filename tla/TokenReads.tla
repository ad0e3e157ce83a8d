----------------------------- MODULE TokenReads -----------------------------
(***************************************************************************)
(* Listing tokens through the rebuilt API: tokenList of httpapi, the gRPC  *)
(* reader and handler between the two processes, and the statement of      *)
(* repository/token.go.  tokenDetail reads one row and has no state.       *)
(*                                                                         *)
(* A client walks the list page by page while the indexer adds tokens.     *)
(* The page travels as (page, size), offset, (page, size) and offset       *)
(* again, in integers of two widths.                                       *)
(*                                                                         *)
(* A token is its position in the order the indexer inserted them, and     *)
(* created[t] is its created_at, the time of its block, which never        *)
(* decreases along the chain but is the same for tokens of one second.     *)
(***************************************************************************)
EXTENDS Integers, Sequences, FiniteSets

CONSTANTS
    MaxInt,         \* the largest int (2^63 - 1)
    MaxInt32,       \* the largest int32
    MaxPageSize,    \* 100
    MaxTokens,      \* bound: tokens created
    MaxCreated      \* bound: times of blocks

ASSUME TokenReadsAssumption ==
    /\ MaxInt \in Nat /\ MaxInt32 \in Nat /\ MaxPageSize \in Nat \ {0}
    /\ MaxTokens \in Nat /\ MaxCreated \in Nat
    /\ MaxTokens <= MaxInt

VARIABLES
    created,        \* the rows of tokens
    walk            \* a client that asks for page after page

readVars == <<created, walk>>

Rows == 1 .. Len(created)
PageSizes == 1 .. MaxPageSize
States == {"off", "on", "done"}

Walk == [state : States, size : PageSizes, page : Nat, old : SUBSET Nat, seen : SUBSET Nat]

Off == [state |-> "off", size |-> 1, page |-> 1, old |-> {}, seen |-> {}]

-----------------------------------------------------------------------------
\* The way of a page.

\* Go's int arithmetic wraps around.
AsInt(x) == ((x + MaxInt + 1) % (2 * (MaxInt + 1))) - (MaxInt + 1)

\* tokenList: pagination has checked page >= 1 and the size.
Offset(page, size) == AsInt((page - 1) * size)

\* TokenReader.List: the page an offset starts, if it is the start of one and
\* fits int32; an error otherwise.
ReaderPages(offset, size) == {q \in 1 .. MaxInt32 : (q - 1) * size = offset}

\* Mutant: the statement without its ORDER BY.
IsPage_Unordered(before, items, offset, limit) ==
    /\ before \subseteq Rows /\ items \subseteq Rows \ before
    /\ Cardinality(before) = IF offset <= Len(created) THEN offset ELSE Len(created)
    /\ \/ Cardinality(items) = limit
       \/ Cardinality(items) < limit /\ Rows = before \union items

\* The statement of TokenRepository.List may answer with items, after having
\* skipped before: it orders by created_at alone, and rows of the same time in
\* any order, which need not be that of the next statement.
IsPage(before, items, offset, limit) ==
    /\ before \subseteq Rows /\ items \subseteq Rows \ before
    /\ Cardinality(before) = IF offset <= Len(created) THEN offset ELSE Len(created)
    /\ \/ Cardinality(items) = limit
       \/ Cardinality(items) < limit /\ Rows = before \union items
    /\ \A x \in before, y \in Rows \ before : created[x] >= created[y]
    /\ \A x \in items, y \in Rows \ (before \union items) : created[x] >= created[y]

-----------------------------------------------------------------------------

ReadInit ==
    /\ created = << >>
    /\ walk = Off

\* The indexer commits the token of a later log.
Insert(time) ==
    /\ Len(created) < MaxTokens
    /\ created # << >> => time >= created[Len(created)]
    /\ created' = Append(created, time)
    /\ UNCHANGED walk

WalkStarts(size) ==
    /\ walk.state # "on"
    /\ walk' = [Off EXCEPT !.state = "on", !.size = size, !.old = Rows]
    /\ UNCHANGED created

\* A page with all its items; the client asks for the next one.
FullPage ==
    /\ walk.state = "on"
    /\ \E page \in ReaderPages(Offset(walk.page, walk.size), walk.size),
          before, items \in SUBSET Rows :
          /\ IsPage(before, items, (page - 1) * walk.size, walk.size)
          /\ Cardinality(items) = walk.size
          /\ walk' = [walk EXCEPT !.page = @ + 1, !.seen = @ \union items]
    /\ UNCHANGED created

\* A page that is not full: the client has come to the end.
LastPage ==
    /\ walk.state = "on"
    /\ \E page \in ReaderPages(Offset(walk.page, walk.size), walk.size),
          before, items \in SUBSET Rows :
          /\ IsPage(before, items, (page - 1) * walk.size, walk.size)
          /\ Cardinality(items) < walk.size
          /\ walk' = [walk EXCEPT !.state = "done", !.seen = @ \union items]
    /\ UNCHANGED created

ReadNext ==
    \/ \E time \in 0 .. MaxCreated : Insert(time)
    \/ \E size \in PageSizes : WalkStarts(size)
    \/ FullPage
    \/ LastPage

ReadSpec == ReadInit /\ [][ReadNext]_readVars

-----------------------------------------------------------------------------

ReadTypeOK ==
    /\ created \in Seq(Nat)
    /\ walk \in Walk

Tied(t) == \E u \in Rows \ {t} : created[u] = created[t]

\* A client that walks to a page that is not full has seen every token there
\* was when it began, except perhaps one created in the same second as another.
\* Code: ORDER BY created_at DESC; what is added meanwhile moves rows to later
\* pages, which repeats them but hides none.
MissNeedsTie ==
    walk.state = "done" => \A t \in walk.old \ walk.seen : Tied(t)

=============================================================================
