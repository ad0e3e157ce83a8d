----------------------------- MODULE LegacyLogin -----------------------------
(***************************************************************************)
(* Login of the legacy API: GetSignMsg, WalletLogin, RefreshToken, the     *)
(* users table, the tokens the middleware accepts, and the favourites a    *)
(* token lets its holder change (logic/user, model/user.go, middleware,    *)
(* logic/token and model/token.go).                                        *)
(*                                                                         *)
(* Logins run side by side, and every command to Redis and PostgreSQL is   *)
(* a step of its own.  Redis keeps one nonce an address.  A nonce is the   *)
(* number of the message it was drawn for: the 16 random bytes never       *)
(* repeat.  users.nonce and the profile columns are never read back, so    *)
(* that the row of an address is its id.                                   *)
(***************************************************************************)
EXTENDS Naturals, LegacyRoutes

CONSTANTS
    Addresses,      \* wallets, in lower case
    FavoriteTokens, \* rows of tokens
    LoginCalls,     \* requests being served
    NonceLifetime,  \* five minutes
    AccessExpire,   \* lifetimes of the two kinds of token
    RefreshExpire,
    MaxLoginTime,   \* bound: clock ticks
    MaxNonces,      \* bound: messages asked for
    MaxUsers        \* bound: ids drawn

ASSUME LegacyLoginAssumption ==
    /\ Addresses # {}
    /\ NonceLifetime \in Nat \ {0}
    /\ AccessExpire \in Nat /\ RefreshExpire \in Nat
    /\ MaxLoginTime \in Nat /\ MaxNonces \in Nat /\ MaxUsers \in Nat

VARIABLES
    loginTime,      \* the clock
    made,           \* nonces drawn
    held,           \* the nonce Redis holds for an address, as a set of at most one
    gone,           \* history: nonces of logins that deleted them
    userRow,        \* the id in the row of an address, as such a set
    lastUser,       \* users_id_seq
    jwts,           \* the tokens issued that have not expired
    logins,         \* WalletLogin: where each request stands
    favourites      \* user_favorites

loginVars == <<loginTime, made, held, gone, userRow, lastUser, jwts, logins, favourites>>

Held == [nonce : Nat, until : Nat]
Jwt == [refresh : BOOLEAN, user : Nat, address : Addresses, expires : Nat]
LoginCall == [at : {"idle", "delete", "find", "create", "issue"}, address : Addresses,
              nonce : Nat, user : Nat]

\* No request: the other fields mean nothing.
NoLogin == [at |-> "idle", address |-> CHOOSE a \in Addresses : TRUE, nonce |-> 0, user |-> 0]

At(c, place) == logins[c].at = place
Goes(c, place) == logins' = [logins EXCEPT ![c].at = place]
Ends(c) == logins' = [logins EXCEPT ![c] = NoLogin]

-----------------------------------------------------------------------------

LoginInit ==
    /\ loginTime = 0
    /\ made = 0
    /\ held = [a \in Addresses |-> {}]
    /\ gone = {}
    /\ userRow = [a \in Addresses |-> {}]
    /\ lastUser = 0
    /\ jwts = {}
    /\ logins = [c \in LoginCalls |-> NoLogin]
    /\ favourites = {}

\* Redis forgets nonces, and tokens expire.
LoginTick ==
    /\ loginTime < MaxLoginTime
    /\ loginTime' = loginTime + 1
    /\ held' = [a \in Addresses |-> {h \in held[a] : loginTime + 1 < h.until}]
    /\ jwts' = {j \in jwts : loginTime + 1 < j.expires}
    /\ UNCHANGED <<made, gone, userRow, lastUser, logins, favourites>>

\* GetSignMsg: the error of Set is ignored, and the message answered anyway.
GetSignMsg(a, stored) ==
    /\ made < MaxNonces
    /\ made' = made + 1
    /\ held' = IF stored
               THEN [held EXCEPT ![a] = {[nonce |-> made + 1, until |-> loginTime + NonceLifetime]}]
               ELSE held
    /\ UNCHANGED <<loginTime, gone, userRow, lastUser, jwts, logins, favourites>>

-----------------------------------------------------------------------------
\* WalletLogin, with a signature that signer made of the message with nonce.

\* Get and verifySignature.
LoginReads(c, a, signer, nonce) ==
    /\ At(c, "idle")
    /\ \E h \in held[a] : h.nonce = nonce
    /\ signer = a
    /\ logins' = [logins EXCEPT ![c] = [at |-> "delete", address |-> a, nonce |-> nonce, user |-> 0]]
    /\ UNCHANGED <<loginTime, made, held, gone, userRow, lastUser, jwts, favourites>>

\* Nothing held, another nonce, or another signer: 400.
LoginRefused(c, a, signer, nonce) ==
    /\ At(c, "idle")
    /\ signer # a \/ \A h \in held[a] : h.nonce # nonce
    /\ UNCHANGED loginVars

\* Mutant: the key of Del is not the one of Get.
LoginDeletes_Miskeyed(c) ==
    /\ At(c, "delete")
    /\ gone' = gone \union {logins[c].nonce}
    /\ Goes(c, "find")
    /\ UNCHANGED <<loginTime, made, held, userRow, lastUser, jwts, favourites>>

\* Del, which may hit a nonce that was stored since.
LoginDeletes(c) ==
    /\ At(c, "delete")
    /\ held' = [held EXCEPT ![logins[c].address] = {}]
    /\ gone' = gone \union {logins[c].nonce}
    /\ Goes(c, "find")
    /\ UNCHANGED <<loginTime, made, userRow, lastUser, jwts, favourites>>

\* The error of Del is ignored.
LoginDeleteFails(c) ==
    /\ At(c, "delete")
    /\ Goes(c, "find")
    /\ UNCHANGED <<loginTime, made, held, gone, userRow, lastUser, jwts, favourites>>

\* FindByAddress finds the row; the error of UpdateNonce is only logged.
LoginFinds(c) ==
    /\ At(c, "find")
    /\ \E u \in userRow[logins[c].address] :
          logins' = [logins EXCEPT ![c].at = "issue", ![c].user = u]
    /\ UNCHANGED <<loginTime, made, held, gone, userRow, lastUser, jwts, favourites>>

LoginFindsNone(c) ==
    /\ At(c, "find")
    /\ userRow[logins[c].address] = {}
    /\ Goes(c, "create")
    /\ UNCHANGED <<loginTime, made, held, gone, userRow, lastUser, jwts, favourites>>

\* Create; the answer may be lost, and the request then fails.
LoginCreates(c, answered) ==
    /\ At(c, "create")
    /\ lastUser < MaxUsers
    /\ userRow[logins[c].address] = {}
    /\ lastUser' = lastUser + 1
    /\ userRow' = [userRow EXCEPT ![logins[c].address] = {lastUser + 1}]
    /\ logins' = IF answered
                 THEN [logins EXCEPT ![c].at = "issue", ![c].user = lastUser + 1]
                 ELSE [logins EXCEPT ![c] = NoLogin]
    /\ UNCHANGED <<loginTime, made, held, gone, jwts, favourites>>

\* Another login has created the row since: users_address_key.  The id that was
\* drawn is lost.
LoginCreatesTwice(c) ==
    /\ At(c, "create")
    /\ lastUser < MaxUsers
    /\ userRow[logins[c].address] # {}
    /\ lastUser' = lastUser + 1
    /\ Ends(c)
    /\ UNCHANGED <<loginTime, made, held, gone, userRow, jwts, favourites>>

\* Any other error of PostgreSQL: 500.
LoginFails(c) ==
    /\ At(c, "find") \/ At(c, "create")
    /\ Ends(c)
    /\ UNCHANGED <<loginTime, made, held, gone, userRow, lastUser, jwts, favourites>>

\* generateAccessToken and generateRefreshToken, of both callers.
Issued(user, address) ==
    {j \in {[refresh |-> FALSE, user |-> user, address |-> address,
             expires |-> loginTime + AccessExpire],
            [refresh |-> TRUE, user |-> user, address |-> address,
             expires |-> loginTime + RefreshExpire]} : loginTime < j.expires}

LoginIssues(c) ==
    /\ At(c, "issue")
    /\ jwts' = jwts \union Issued(logins[c].user, logins[c].address)
    /\ Ends(c)
    /\ UNCHANGED <<loginTime, made, held, gone, userRow, lastUser, favourites>>

-----------------------------------------------------------------------------

\* RefreshToken: no row is looked up and no token is taken back.
RefreshToken(jwt) ==
    /\ jwt \in jwts
    /\ jwt.refresh
    /\ jwts' = jwts \union Issued(jwt.user, jwt.address)
    /\ UNCHANGED <<loginTime, made, held, gone, userRow, lastUser, logins, favourites>>

\* FavoriteToken and AddFavorite, of the user the middleware takes from the
\* token; it does not tell the kinds of token apart.
FavoriteToken(jwt, token) ==
    /\ Reaches("/token/favorite", jwt \in jwts)
    /\ jwt.user # 0
    /\ favourites' = favourites \union {<<jwt.user, token>>}
    /\ UNCHANGED <<loginTime, made, held, gone, userRow, lastUser, jwts, logins>>

UnfavoriteToken(jwt, token) ==
    /\ Reaches("/token/unfavorite", jwt \in jwts)
    /\ jwt.user # 0
    /\ favourites' = favourites \ {<<jwt.user, token>>}
    /\ UNCHANGED <<loginTime, made, held, gone, userRow, lastUser, jwts, logins>>

LoginStep(c) ==
    \/ \E a, signer \in Addresses, nonce \in 1 .. made :
          LoginReads(c, a, signer, nonce) \/ LoginRefused(c, a, signer, nonce)
    \/ LoginDeletes(c)
    \/ LoginDeleteFails(c)
    \/ LoginFinds(c)
    \/ LoginFindsNone(c)
    \/ \E answered \in BOOLEAN : LoginCreates(c, answered)
    \/ LoginCreatesTwice(c)
    \/ LoginFails(c)
    \/ LoginIssues(c)

LoginNext ==
    \/ LoginTick
    \/ \E a \in Addresses, stored \in BOOLEAN : GetSignMsg(a, stored)
    \/ \E c \in LoginCalls : LoginStep(c)
    \/ \E jwt \in jwts :
          \/ RefreshToken(jwt)
          \/ \E t \in FavoriteTokens : FavoriteToken(jwt, t) \/ UnfavoriteToken(jwt, t)

LoginSpec == LoginInit /\ [][LoginNext]_loginVars

-----------------------------------------------------------------------------

LoginTypeOK ==
    /\ loginTime \in Nat
    /\ made \in Nat
    /\ held \in [Addresses -> SUBSET Held]
    /\ gone \subseteq Nat
    /\ userRow \in [Addresses -> SUBSET Nat]
    /\ lastUser \in Nat
    /\ jwts \subseteq Jwt
    /\ logins \in [LoginCalls -> LoginCall]
    /\ favourites \subseteq Nat \X FavoriteTokens

\* Once a login has deleted its nonce, no login is verified with it again:
\* only one that had read it before may still be under way.
\* Code: WalletLogin, between Get and Del; other nonces are stored, expire and
\* are deleted in between.
UsedNonceIsGone ==
    [][\A c \in LoginCalls :
          At(c, "idle") /\ logins'[c].at = "delete" => logins'[c].nonce \notin gone]_loginVars

\* Every token that is accepted names the row of its address, and every
\* favourite belongs to a row.
\* Code: two first logins of one address race to Create; refreshed tokens copy
\* the id of the old ones.
JwtsNameUsers ==
    /\ \A j \in jwts : j.user \in userRow[j.address]
    /\ \A f \in favourites : \E a \in Addresses : f[1] \in userRow[a]

=============================================================================
