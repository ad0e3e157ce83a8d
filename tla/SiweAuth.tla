------------------------------- MODULE SiweAuth -------------------------------
(***************************************************************************)
(* Sign-In with Ethereum of the rebuilt API (app-rebuild/internal/auth and *)
(* repository/user.go): a client requests a message, signs it with its     *)
(* wallet and logs in.                                                     *)
(*                                                                         *)
(* Calls run concurrently and share the challenge store, which is a map    *)
(* under a mutex in the process's memory or a Redis key per address, and   *)
(* the users table.  Each store or database call is a step of its own; it  *)
(* may fail, and a remote one may fail after it took effect.  The local    *)
(* checks between two of them are one step.                                *)
(*                                                                         *)
(* A nonce is 16 random bytes and is taken to be fresh: a challenge is     *)
(* named by its position in "made".  A signature is named by the challenge *)
(* whose text its address's wallet signed, any other signature by 0.       *)
(***************************************************************************)
EXTENDS Naturals, Sequences

CONSTANTS
    Addresses,      \* wallet addresses
    Calls,          \* slots for requests being served at the same time
    NoAddress,      \* the address of a slot not in use
    Lifetime,       \* how long a challenge is valid (five minutes)
    MaxTime,        \* bound: clock ticks
    MaxChallenges,  \* bound: messages requested
    MaxFailures     \* bound: calls that fail

ASSUME SiweAssumption ==
    /\ NoAddress \notin Addresses
    /\ Lifetime \in Nat \ {0}
    /\ MaxTime \in Nat
    /\ MaxChallenges \in Nat
    /\ MaxFailures \in Nat

VARIABLES
    store,          \* "memory" or "redis", chosen at startup
    now,            \* time.Now, the same in all processes
    made,           \* the challenges generated so far
    messages,       \* those returned to a client, which may sign them
    stored,         \* the challenge stored for each address, 0 if there is none
    users,          \* the id of each address's users row, 0 if there is none
    lastId,         \* the sequence behind users.id
    tokens,         \* the JWTs issued
    calls,          \* the requests being served
    saves,          \* history: successful writes of a challenge, per address
    logins,         \* history: challenges consumed by a login, per address
    spent,          \* history: challenges consumed, replaced or dropped
    failures        \* calls that failed

storeVars == <<stored, saves, logins, spent>>
userVars == <<users, lastId, tokens>>
clockVars == <<store, now, made, messages>>
vars == <<store, now, made, messages, stored, users, lastId, tokens, calls,
          saves, logins, spent, failures>>

Challenge == [address : Addresses, issued : Nat]

Steps == {"idle", "save", "get", "verify", "delete", "find", "create", "issue"}

Call == [at : Steps, address : Addresses \union {NoAddress}, signed : Nat, entry : Nat,
         user : Nat, old : SUBSET Nat]

Idle == [at |-> "idle", address |-> NoAddress, signed |-> 0, entry |-> 0, user |-> 0, old |-> {}]

ExpirationTime(n) == made[n].issued + Lifetime

\* The stored challenge of address a, as a set.
Held(a) == {stored[a]} \ {0}

-----------------------------------------------------------------------------

Init ==
    /\ store \in {"memory", "redis"}
    /\ now = 0
    /\ made = << >>
    /\ messages = {}
    /\ stored = [a \in Addresses |-> 0]
    /\ users = [a \in Addresses |-> 0]
    /\ lastId = 0
    /\ tokens = {}
    /\ calls = [c \in Calls |-> Idle]
    /\ saves = [a \in Addresses |-> 0]
    /\ logins = [a \in Addresses |-> 0]
    /\ spent = {}
    /\ failures = 0

Goes(c, step) == calls' = [calls EXCEPT ![c].at = step]

\* The call returns, with a result or an error.
Returns(c) == calls' = [calls EXCEPT ![c] = Idle]

Fails ==
    /\ failures < MaxFailures
    /\ failures' = failures + 1

\* The clock moves on.
Tick ==
    /\ now < MaxTime
    /\ now' = now + 1
    /\ UNCHANGED <<store, made, messages, storeVars, userVars, calls, failures>>

\* RequestMessage up to its Save.
Request(c, a) ==
    /\ calls[c].at = "idle"
    /\ Len(made) < MaxChallenges
    /\ made' = Append(made, [address |-> a, issued |-> now])
    /\ calls' = [calls EXCEPT ![c] = [Idle EXCEPT !.at = "save", !.address = a,
                                                  !.entry = Len(made) + 1]]
    /\ UNCHANGED <<store, now, messages, storeVars, userVars, failures>>

\* The map entry or the Redis key of the address is overwritten.
StoreChallenge(a, n) ==
    /\ stored' = [stored EXCEPT ![a] = n]
    /\ saves' = [saves EXCEPT ![a] = @ + 1]
    /\ spent' = spent \union Held(a)
    /\ UNCHANGED logins

Save(c) ==
    /\ calls[c].at = "save"
    /\ StoreChallenge(calls[c].address, calls[c].entry)
    /\ messages' = messages \union {calls[c].entry}
    /\ Returns(c)
    /\ UNCHANGED <<store, now, made, userVars, failures>>

\* Login is called with the signature of message m, or with some other one.
Login(c, a, m) ==
    /\ calls[c].at = "idle"
    /\ calls' = [calls EXCEPT ![c] = [Idle EXCEPT !.at = "get", !.address = a,
                                                  !.signed = m, !.old = spent]]
    /\ UNCHANGED <<clockVars, storeVars, userVars, failures>>

Present(a) == stored[a] # 0 /\ now <= ExpirationTime(stored[a])

\* getChallenge finds a challenge that has not expired.
Get(c) ==
    /\ calls[c].at = "get"
    /\ Present(calls[c].address)
    /\ calls' = [calls EXCEPT ![c].at = "verify", ![c].entry = stored[calls[c].address]]
    /\ UNCHANGED <<clockVars, storeVars, userVars, failures>>

GetRefuses(c) ==
    /\ calls[c].at = "get"
    /\ ~Present(calls[c].address)
    /\ Returns(c)
    /\ UNCHANGED <<clockVars, storeVars, userVars, failures>>

\* validateChallenge, with the clock read again, and verifySignature on the
\* text of the challenge that was read.
Genuine(c) ==
    /\ made[calls[c].entry].address = calls[c].address
    /\ now < ExpirationTime(calls[c].entry)
    /\ calls[c].signed = calls[c].entry

Verify(c) ==
    /\ calls[c].at = "verify"
    /\ IF Genuine(c) THEN Goes(c, "delete") ELSE Returns(c)
    /\ UNCHANGED <<clockVars, storeVars, userVars, failures>>

\* Delete of the store: by address, whichever challenge is there by now.  The
\* map looks at its expiry, Redis only at the key.
Deletable(a) ==
    /\ stored[a] # 0
    /\ store = "memory" => now <= ExpirationTime(stored[a])

\* Mutant: the number of deleted keys is ignored.
Delete_IgnoresResult(c) ==
    LET a == calls[c].address
    IN /\ calls[c].at = "delete"
       /\ stored' = [stored EXCEPT ![a] = 0]
       /\ logins' = [logins EXCEPT ![a] = @ + 1]
       /\ spent' = spent \union Held(a) \union {calls[c].entry}
       /\ Goes(c, "find")
       /\ UNCHANGED <<clockVars, saves, userVars, failures>>

\* Mutant: the challenge stays in the store.
Delete_Keeps(c) ==
    LET a == calls[c].address
    IN /\ calls[c].at = "delete"
       /\ Deletable(a)
       /\ logins' = [logins EXCEPT ![a] = @ + 1]
       /\ spent' = spent \union Held(a)
       /\ Goes(c, "find")
       /\ UNCHANGED <<clockVars, stored, saves, userVars, failures>>

\* consumeNonce: the login is accepted when a challenge was deleted.
Delete(c) ==
    LET a == calls[c].address
    IN /\ calls[c].at = "delete"
       /\ Deletable(a)
       /\ stored' = [stored EXCEPT ![a] = 0]
       /\ logins' = [logins EXCEPT ![a] = @ + 1]
       /\ spent' = spent \union Held(a)
       /\ Goes(c, "find")
       /\ UNCHANGED <<clockVars, saves, userVars, failures>>

DeleteRefuses(c) ==
    /\ calls[c].at = "delete"
    /\ ~Deletable(calls[c].address)
    /\ Returns(c)
    /\ UNCHANGED <<clockVars, storeVars, userVars, failures>>

\* Mutant: no row is an error like any other.
Find_NeedsRow(c) ==
    /\ calls[c].at = "find"
    /\ IF users[calls[c].address] = 0 THEN Returns(c)
       ELSE calls' = [calls EXCEPT ![c].at = "issue", ![c].user = users[calls[c].address]]
    /\ UNCHANGED <<clockVars, storeVars, userVars, failures>>

\* FindByAddress: ErrNoRows leads to Create.
Find(c) ==
    /\ calls[c].at = "find"
    /\ IF users[calls[c].address] = 0 THEN Goes(c, "create")
       ELSE calls' = [calls EXCEPT ![c].at = "issue", ![c].user = users[calls[c].address]]
    /\ UNCHANGED <<clockVars, storeVars, userVars, failures>>

\* Mutant: the insert replaces the row of another first login.
Create_Replaces(c) ==
    /\ calls[c].at = "create"
    /\ lastId' = lastId + 1
    /\ users' = [users EXCEPT ![calls[c].address] = lastId + 1]
    /\ calls' = [calls EXCEPT ![c].at = "issue", ![c].user = lastId + 1]
    /\ UNCHANGED <<clockVars, storeVars, tokens, failures>>

\* INSERT INTO users: the unique address refuses the second of two first
\* logins, which takes a number of the sequence all the same.
Create(c) ==
    /\ calls[c].at = "create"
    /\ lastId' = lastId + 1
    /\ IF users[calls[c].address] = 0
       THEN /\ users' = [users EXCEPT ![calls[c].address] = lastId + 1]
            /\ calls' = [calls EXCEPT ![c].at = "issue", ![c].user = lastId + 1]
       ELSE /\ Returns(c)
            /\ UNCHANGED users
    /\ UNCHANGED <<clockVars, storeVars, tokens, failures>>

\* issueToken signs the row that was found or created.
Issue(c) ==
    /\ calls[c].at = "issue"
    /\ tokens' = tokens \union {[user |-> calls[c].user, address |-> calls[c].address]}
    /\ Returns(c)
    /\ UNCHANGED <<clockVars, storeVars, users, lastId, failures>>

\* A store or database call fails without effect, or the request is dropped
\* with its connection or its process.
Abort(c) ==
    /\ calls[c].at # "idle"
    /\ Fails
    /\ Returns(c)
    /\ UNCHANGED <<clockVars, storeVars, userVars>>

\* Redis stores the challenge, the answer is lost: the client has no message.
SaveUnanswered(c) ==
    /\ store = "redis"
    /\ calls[c].at = "save"
    /\ Fails
    /\ StoreChallenge(calls[c].address, calls[c].entry)
    /\ Returns(c)
    /\ UNCHANGED <<clockVars, userVars>>

\* The challenge of an address is gone without a login.
DropChallenge(a) ==
    /\ stored' = [stored EXCEPT ![a] = 0]
    /\ spent' = spent \union Held(a)
    /\ UNCHANGED <<saves, logins>>

\* Redis deletes the challenge, the answer is lost: the login is refused.
DeleteUnanswered(c) ==
    /\ store = "redis"
    /\ calls[c].at = "delete"
    /\ Fails
    /\ DropChallenge(calls[c].address)
    /\ Returns(c)
    /\ UNCHANGED <<clockVars, userVars>>

\* The row is inserted, the answer is lost.
CreateUnanswered(c) ==
    /\ calls[c].at = "create"
    /\ users[calls[c].address] = 0
    /\ Fails
    /\ lastId' = lastId + 1
    /\ users' = [users EXCEPT ![calls[c].address] = lastId + 1]
    /\ Returns(c)
    /\ UNCHANGED <<clockVars, storeVars, tokens>>

\* Redis drops an expired key.
Expire(a) ==
    /\ store = "redis"
    /\ stored[a] # 0
    /\ now >= ExpirationTime(stored[a])
    /\ DropChallenge(a)
    /\ UNCHANGED <<clockVars, userVars, calls, failures>>

\* The process with the map is started again, without its calls.
Restart ==
    /\ store = "memory"
    /\ Fails
    /\ stored' = [a \in Addresses |-> 0]
    /\ spent' = spent \union UNION {Held(a) : a \in Addresses}
    /\ calls' = [c \in Calls |-> Idle]
    /\ UNCHANGED <<clockVars, saves, logins, userVars>>

ServeCall(c) ==
    \/ \E a \in Addresses : Request(c, a)
    \/ Save(c)
    \/ \E a \in Addresses, m \in messages \union {0} : Login(c, a, m)
    \/ Get(c)
    \/ GetRefuses(c)
    \/ Verify(c)
    \/ Delete(c)
    \/ DeleteRefuses(c)
    \/ Find(c)
    \/ Create(c)
    \/ Issue(c)

BreakCall(c) ==
    \/ Abort(c)
    \/ SaveUnanswered(c)
    \/ DeleteUnanswered(c)
    \/ CreateUnanswered(c)

Next ==
    \/ Tick
    \/ \E c \in Calls : ServeCall(c) \/ BreakCall(c)
    \/ \E a \in Addresses : Expire(a)
    \/ Restart

Spec == Init /\ [][Next]_vars

-----------------------------------------------------------------------------
(* Properties.                                                             *)

\* Every variable has its type, and a call past a step holds what it read.
\* Code: the arguments and variables of RequestMessage and Login.
TypeOK ==
    /\ store \in {"memory", "redis"}
    /\ now \in Nat
    /\ made \in Seq(Challenge)
    /\ messages \subseteq DOMAIN made
    /\ stored \in [Addresses -> Nat]
    /\ users \in [Addresses -> Nat]
    /\ lastId \in Nat
    /\ tokens \subseteq [user : Nat, address : Addresses]
    /\ calls \in [Calls -> Call]
    /\ \A c \in Calls :
          /\ calls[c].at # "idle" => calls[c].address \in Addresses
          /\ calls[c].at \notin {"idle", "get"} => calls[c].entry \in DOMAIN made
    /\ \A a \in Addresses : stored[a] # 0 => stored[a] \in DOMAIN made
    /\ saves \in [Addresses -> Nat]
    /\ logins \in [Addresses -> Nat]
    /\ spent \subseteq DOMAIN made
    /\ failures \in Nat

\* An address is never logged in more often than challenges were stored for
\* it, however many calls read the same challenge at the same time.
\* Code: Login goes on only if Delete removed an entry.
ConsumedOnce ==
    \A a \in Addresses : logins[a] + (IF stored[a] = 0 THEN 0 ELSE 1) <= saves[a]

\* A login that began after its challenge was consumed, replaced or dropped is
\* not accepted.
\* Code: the signature is verified against the challenge the store holds.
SpentIsRefused ==
    \A c \in Calls :
        calls[c].at \in {"find", "create", "issue"} => calls[c].signed \notin calls[c].old

\* Every token names the users row of its address, two addresses never share
\* an id, and no number is given twice, also when first logins race.
\* Code: users.address is unique and the row is never replaced.
TokensNameTheirUser ==
    /\ \A t \in tokens : t.user # 0 /\ users[t.address] = t.user
    /\ \A a, b \in Addresses : users[a] = users[b] /\ users[a] # 0 => a = b
    /\ \A a \in Addresses : users[a] <= lastId

\* An accepted login that ends without a token either met a failure or left
\* its address with a users row, so that the next login finds one.
\* Code: Create fails on the unique address only if another call created it.
LostLoginHasAccount ==
    [][\A c \in Calls :
          (/\ calls[c].at \in {"find", "create"}
           /\ calls'[c].at = "idle"
           /\ failures' = failures)
          => users[calls[c].address] # 0]_vars

=============================================================================
