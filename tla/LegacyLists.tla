----------------------------- MODULE LegacyLists -----------------------------
(***************************************************************************)
(* The lists of the legacy API: tokens, trending tokens, holders, trades,  *)
(* comments and invitees (logic/token, model, handler/routes.go), the      *)
(* routes that answer an empty page, and NewPageResponse.                  *)
(*                                                                         *)
(* A list counts its rows in one statement and reads a page in the next,   *)
(* while other processes add and remove rows.  Only how many rows match is *)
(* modelled.  One request is followed: requests change nothing.            *)
(***************************************************************************)
EXTENDS Integers, LegacyRoutes

CONSTANTS
    PageNumbers,    \* values of pn or page
    PageLengths,    \* values of ps or size
    DefaultLength,  \* 10
    MaxMatching     \* bound: rows that match

ASSUME ListsAssumption ==
    /\ PageNumbers \subseteq Int
    /\ PageLengths \subseteq Int
    /\ DefaultLength \in Nat
    /\ MaxMatching \in Nat

\* The lists whose model replaces a bad page, and those that pass it on.
DefaultingLists == {"/token/token-list", "/token/trending-token", "/trade/list"}
PlainLists == {"/token/holders", "/comment/list", "/back/user-invites"}
Lists == DefaultingLists \union PlainLists

\* The routes that answer a page without rows: of the page and size that were
\* asked for, or of page 1 and the default size.
MyLists ==
    {"/token/my-ido-list", "/token/my-created-token-list", "/token/my-owned-token-list"}
Rankings ==
    {"/token/ranking-token-list", "/token/advanced-token-list", "/token/trade-rankings-list"}
LaunchLists ==
    {"/trade/upcoming-token", "/trade/almost-full-token", "/trade/today-launching-token"}
ProfileLists ==
    {"/user/following-list", "/user/followers-list", "/act/user-participated",
     "/act/user-created"}
EmptyPages == MyLists \union Rankings
EmptyFirstPages == LaunchLists \union ProfileLists \union {"/back/agent-descendant-stats"}

\* The routes that answer with NewPageResponse.
PagedRoutes == DefaultingLists \union EmptyPages \union EmptyFirstPages

VARIABLES
    matching,       \* rows that match the list being read
    request,        \* the request being served, as a set of at most one
    reply           \* its answer, as a set of at most one

listVars == <<matching, request, reply>>

\* before: the rows a startTime leaves may be fewer.  order: the orderBy of a
\* trade list.  moved is history: rows came or went between the statements.
Request == [list : Routes, at : {"count", "list"}, page : Int, size : Int,
            before : BOOLEAN, order : {"none", "known", "unknown"}, descending : BOOLEAN,
            total : Nat, moved : BOOLEAN]

\* cut says that a query failed between two rows.
Reply == [request : Request, code : {200, 401, 500}, size : Nat, hasMore : BOOLEAN, pages : Int,
          cut : BOOLEAN]

-----------------------------------------------------------------------------

\* Division of Go truncates.
Quotient(a, b) == IF b < 0 THEN -(a \div (-b)) ELSE a \div b

\* NewPageResponse.
TotalPages(total, size) ==
    LET quotient == Quotient(total, size)
    IN  IF total - quotient * size > 0 THEN quotient + 1 ELSE quotient

PageOf(r) == IF r.list \in DefaultingLists /\ r.page <= 0 THEN 1 ELSE r.page
LengthOf(r) == IF r.list \in DefaultingLists /\ r.size <= 0 THEN DefaultLength ELSE r.size
OffsetOf(r) == (PageOf(r) - 1) * LengthOf(r)

\* Mutant: the statement asks for no row more than the page.
LimitOf_Exact(r) == LengthOf(r)

\* A list of comments asks for one row more, to know whether there are more.
LimitOf(r) == IF r.list = "/comment/list" THEN LengthOf(r) + 1 ELSE LengthOf(r)

\* PostgreSQL refuses a negative LIMIT or OFFSET, and the "DESC DESC" that an
\* unknown orderBy of trades leads to.
StatementIsValid(r) ==
    /\ LimitOf(r) >= 0 /\ OffsetOf(r) >= 0
    /\ ~(r.list = "/trade/list" /\ r.order = "unknown" /\ r.descending)

\* LIMIT and OFFSET.
Taken(rows, limit, offset) ==
    IF rows <= offset THEN 0 ELSE IF rows - offset <= limit THEN rows - offset ELSE limit

ListInit ==
    /\ matching \in 0 .. MaxMatching
    /\ request = {}
    /\ reply = {}

\* The indexer or another request adds or removes a row.
RowsMove(rows) ==
    /\ rows \in {matching - 1, matching + 1}
    /\ matching' = rows
    /\ request' = {[r EXCEPT !.moved = @ \/ r.at = "list"] : r \in request}
    /\ UNCHANGED reply

\* A request before its first statement.
Asked(list, page, size) ==
    [list |-> list, at |-> "count", page |-> page, size |-> size, before |-> FALSE,
     order |-> "none", descending |-> FALSE, total |-> 0, moved |-> FALSE]

ListAsked(list, page, size, before, order, descending) ==
    /\ request = {} /\ reply = {}
    /\ before => list = "/comment/list"
    /\ order # "none" \/ descending => list = "/trade/list"
    /\ request' = {[Asked(list, page, size) EXCEPT !.before = before, !.order = order,
                                                   !.descending = descending]}
    /\ UNCHANGED <<matching, reply>>

Counted ==
    \E r \in request :
        /\ r.at = "count"
        /\ request' = {[r EXCEPT !.at = "list", !.total = matching]}
        /\ UNCHANGED <<matching, reply>>

\* Two panics are answered 500 as well: NewPageResponse divides by the size that
\* was asked for, and a list of comments is cut to a negative length.
Answers(r, code, rows, cut) ==
    LET more == code = 200 /\ r.list = "/comment/list" /\ rows > LengthOf(r)
        divides == code = 200 /\ r.list \in PagedRoutes
        panics == (divides /\ r.size = 0) \/ (more /\ LengthOf(r) < 0)
    IN  reply' = {[request |-> r, code |-> IF panics THEN 500 ELSE code, cut |-> cut,
                   size |-> IF panics THEN 0 ELSE IF more THEN LengthOf(r) ELSE rows,
                   hasMore |-> more /\ ~panics,
                   pages |-> IF divides /\ ~panics THEN TotalPages(r.total, r.size) ELSE 0]}

\* The statement of the list; left is what the startTime leaves.
Listed ==
    \E r \in request, left \in 0 .. matching :
        /\ r.at = "list"
        /\ StatementIsValid(r)
        /\ ~r.before => left = matching
        /\ Answers(r, 200, Taken(left, LimitOf(r), OffsetOf(r)), FALSE)
        /\ request' = {}
        /\ UNCHANGED matching

\* rows.Err is not asked for: a query that fails later answers the rows it has.
ListedCutOff ==
    \E r \in request, rows \in 0 .. matching :
        /\ r.at = "list"
        /\ StatementIsValid(r)
        /\ rows < Taken(matching, LimitOf(r), OffsetOf(r))
        /\ Answers(r, 200, rows, TRUE)
        /\ request' = {}
        /\ UNCHANGED matching

\* A statement that PostgreSQL refuses or that fails, and a row that cannot be
\* scanned, such as an invitee without a user name.
ListFails ==
    \E r \in request :
        /\ Answers(r, 500, 0, FALSE)
        /\ request' = {}
        /\ UNCHANGED matching

\* A route that asks no database.
EmptyAnswered(route, page, size, verified) ==
    /\ request = {} /\ reply = {}
    /\ route \in EmptyFirstPages => page = 1 /\ size = DefaultLength
    /\ Answers(Asked(route, page, size), IF Reaches(route, verified) THEN 200 ELSE 401, 0, FALSE)
    /\ UNCHANGED <<matching, request>>

\* GetMyFavoriteTokens looks for the user under another key than the middleware
\* stores it: no user is found, whatever the token.
MyFavoriteTokens ==
    /\ request = {} /\ reply = {}
    /\ Answers(Asked("/token/my-favorite-tokens", 1, DefaultLength), 401, 0, FALSE)
    /\ UNCHANGED <<matching, request>>

\* The answer is sent.
ReplySent ==
    /\ reply # {}
    /\ reply' = {}
    /\ UNCHANGED <<matching, request>>

ListNext ==
    \/ \E rows \in 0 .. MaxMatching : RowsMove(rows)
    \/ \E list \in Lists, page \in PageNumbers, size \in PageLengths, before \in BOOLEAN,
          order \in {"none", "known", "unknown"}, descending \in BOOLEAN :
          ListAsked(list, page, size, before, order, descending)
    \/ Counted
    \/ Listed
    \/ ListedCutOff
    \/ ListFails
    \/ \E route \in EmptyPages \union EmptyFirstPages, verified \in BOOLEAN,
          page \in PageNumbers \union {1}, size \in PageLengths \union {DefaultLength} :
          EmptyAnswered(route, page, size, verified)
    \/ MyFavoriteTokens
    \/ ReplySent

ListSpec == ListInit /\ [][ListNext]_listVars

-----------------------------------------------------------------------------

ListTypeOK ==
    /\ matching \in Nat
    /\ request \subseteq Request
    /\ reply \subseteq Reply

\* A page that is answered with success fits its total: it has the rows that are
\* left behind its offset, hasMore tells whether others follow, and with a size
\* above 0 the page before the last is not the end.  Only rows that moved
\* between the statements, a cut-off query or a startTime may break that.
\* Code: count and list are two statements without a transaction, and the
\* defaults of the model differ from the numbers NewPageResponse divides by.
PageFitsTotal ==
    \A answer \in reply :
        LET r == answer.request
        IN  answer.code = 200 /\ ~answer.cut /\ ~r.moved /\ ~r.before =>
                /\ r.list \in Lists => answer.size = Taken(r.total, LengthOf(r), OffsetOf(r))
                /\ r.list = "/comment/list" =>
                       answer.hasMore = (r.total > OffsetOf(r) + answer.size)
                /\ r.list \in PagedRoutes /\ r.size > 0 =>
                       /\ answer.pages * r.size >= r.total
                       /\ (answer.pages - 1) * r.size < r.total

=============================================================================
