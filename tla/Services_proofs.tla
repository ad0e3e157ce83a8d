---------------------------- MODULE Services_proofs ----------------------------
(***************************************************************************)
(* Proofs about the components that share no state with the rest.          *)
(*                                                                         *)
(* Who gets in: the servers of the rebuilt services, for any services,     *)
(* addresses, identities and environments, and the legacy login, for any   *)
(* number of wallets, requests and messages.  Presigned uploads, for any   *)
(* chain ids, media types and times.                                       *)
(*                                                                         *)
(* Clients that read a list page by page while rows are added: the candles *)
(* of the legacy API by cursor, for any candles, zones and limits, and the *)
(* tokens of the rebuilt API by page number, for any tokens and sizes.     *)
(* The cursor splits the candles: what a walk has not seen yet of those    *)
(* there were at first lies before it, and what it has seen does not.  A   *)
(* page number splits no rows; an unseen token without a tie has at least  *)
(* as many newer tokens as the pages passed have rows.  The pages of the   *)
(* legacy lists, for any pages and lengths.                                *)
(***************************************************************************)
EXTENDS GrpcSecurity, LegacyLogin, Uploads, KlineReads, TokenReads, LegacyLists,
        FiniteSetTheorems, TLAPS

-----------------------------------------------------------------------------
(* gRPC access: the inductive invariant.                                   *)

\* A server without TLS listens on loopback.
PlaintextIsLoopback ==
    \A p \in Ports : \A server \in listening[p] : server.tls \/ server.loopback

\* A connection fits what listens at its port, unless a server was started
\* there since or none is there.
ConnectionFits ==
    \A s \in Services : \A c \in dialled[s] :
        s \in restarted \/ listening[c.port] = {} \/ OutcomeOf(s, c) = "handled"

GrpcInv ==
    /\ GrpcTypeOK
    /\ PlaintextIsLoopback
    /\ ConnectionFits
    /\ HandledIsAuthorized
    /\ DenialNeedsRestart

-----------------------------------------------------------------------------
(* The pieces.                                                             *)

\* What an environment makes of a process has its type.
LEMMA ConfiguredTypes ==
  ASSUME NEW s \in Services, NEW env \in Environments
  PROVE  /\ env.port \in Ports /\ env.loopback \in BOOLEAN
         /\ ServerOf(s, env) \in Server
         /\ ServerOf(s, env).loopback = env.loopback
         /\ ServerOf(s, env).tls = ServerEnabled(env)
         /\ ConnectionOf(env) \in Connection
         /\ ConnectionOf(env).port = env.port
<1>1. env \in Environment
  BY GrpcAssumption
<1>2. /\ env.port \in Ports /\ env.loopback \in BOOLEAN /\ env.identities \in SUBSET Identities
      /\ env.identity \in Identities /\ env.trusted \in BOOLEAN
  BY <1>1 DEF Environment
<1>3. ServerEnabled(env) \in BOOLEAN /\ ClientEnabled(env) \in BOOLEAN
  BY DEF ServerEnabled, ClientEnabled
<1>4. ServerOf(s, env) \in Server
  BY <1>2, <1>3 DEF ServerOf, Server
<1>5. (ClientEnabled(env) /\ env.trusted) \in BOOLEAN
  BY <1>2, <1>3
<1>6. ConnectionOf(env) \in Connection
  BY <1>2, <1>3, <1>5 DEF ConnectionOf, Connection
<1> QED
  BY <1>2, <1>4, <1>6 DEF ServerOf, ConnectionOf

\* A call that is handled met a server that fits it and allows it.
LEMMA HandledMeetsServer ==
  ASSUME NEW s, NEW client, OutcomeOf(s, client) = "handled",
         AtMostOne(listening[client.port])
  PROVE  \E server \in listening[client.port] :
            HandshakeFits(server, client) /\ Authorized(server, client)
<1>1. PICK x \in listening[client.port] : HandshakeFits(x, client)
  BY DEF OutcomeOf
<1>2. PICK y \in listening[client.port] : Authorized(y, client)
  BY DEF OutcomeOf
<1>3. x = y
  BY DEF AtMostOne
<1> QED
  BY <1>1, <1>2, <1>3

\* An outcome depends on the port of the client only.
LEMMA OutcomeStays ==
  ASSUME NEW s, NEW client, listening'[client.port] = listening[client.port]
  PROVE  OutcomeOf(s, client)' = OutcomeOf(s, client)
BY DEF OutcomeOf, HandshakeFits, Authorized

\* An outcome is one of four.
LEMMA OutcomeType == ASSUME NEW s, NEW client PROVE OutcomeOf(s, client) \in Outcomes
BY DEF OutcomeOf, Outcomes

\* The answer of a call has its type.
LEMMA AnswerType ==
  ASSUME NEW s \in Services, NEW client \in Connection, NEW remote \in BOOLEAN,
         NEW api \in BOOLEAN, Answered(s, client, remote, api)
  PROVE  answer' \subseteq Answer /\ AtMostOne(answer')
<1>1. OutcomeOf(s, client) \in Outcomes
  BY OutcomeType
<1>2. /\ client.port \in Ports /\ client.tls \in BOOLEAN /\ client.trusted \in BOOLEAN
      /\ client.identity \in Identities \union {NoIdentity}
  BY DEF Connection
<1>3. [port |-> client.port, service |-> s, remote |-> remote, api |-> api, tls |-> client.tls,
       identity |-> client.identity, trusted |-> client.trusted,
       outcome |-> OutcomeOf(s, client)] \in Answer
  BY <1>1, <1>2 DEF Answer
<1> QED
  BY <1>3 DEF Answered, AtMostOne

\* A call over loopback, or over the network to what is no loopback listener,
\* is authorized if it is handled.
LEMMA CallIsAuthorized ==
  ASSUME GrpcInv, NEW s \in Services, NEW client \in Connection, NEW remote \in BOOLEAN,
         NEW api \in BOOLEAN, Answered(s, client, remote, api),
         \A server \in listening[client.port] : remote => ~server.loopback,
         UNCHANGED listening
  PROVE  HandledIsAuthorized'
<1> SUFFICES ASSUME NEW c \in answer', c.outcome = "handled"
             PROVE  \/ ~c.remote /\ ~c.tls
                    \/ /\ c.tls /\ c.trusted
                       /\ \E server \in listening[c.port] : c.identity \in server.allowed
  BY DEF HandledIsAuthorized
<1>1. /\ c.port = client.port /\ c.remote = remote /\ c.tls = client.tls
      /\ c.identity = client.identity /\ c.trusted = client.trusted
      /\ OutcomeOf(s, client) = "handled"
  BY DEF Answered
<1>2. client.port \in Ports /\ client.tls \in BOOLEAN
  BY DEF Connection
<1>3. AtMostOne(listening[client.port])
  BY <1>2 DEF GrpcInv, GrpcTypeOK
<1>4. PICK server \in listening[client.port] :
          HandshakeFits(server, client) /\ Authorized(server, client)
  BY <1>1, <1>3, HandledMeetsServer
<1>5. server.tls \/ server.loopback
  BY <1>2, <1>4 DEF GrpcInv, PlaintextIsLoopback
<1>6. CASE client.tls
  BY <1>1, <1>4, <1>6 DEF HandshakeFits, Authorized
<1>7. CASE ~client.tls
  <2>1. ~server.tls
    BY <1>4, <1>7 DEF HandshakeFits
  <2>2. ~remote
    BY <1>4, <1>5, <2>1
  <2> QED
    BY <1>1, <1>7, <2>2
<1> QED
  BY <1>2, <1>6, <1>7

\* Where nothing is answered, nothing is answered wrongly.
LEMMA NothingAnswered ==
  ASSUME answer' = {} PROVE HandledIsAuthorized' /\ DenialNeedsRestart'
BY DEF HandledIsAuthorized, DenialNeedsRestart

-----------------------------------------------------------------------------
(* The steps.                                                              *)

\* Nothing listens, is dialled or answered at first.
LEMMA GrpcInitHolds == GrpcInit => GrpcInv
<1> SUFFICES ASSUME GrpcInit PROVE GrpcInv
  OBVIOUS
<1>1. GrpcTypeOK
  BY DEF GrpcInit, GrpcTypeOK, AtMostOne
<1>2. PlaintextIsLoopback /\ ConnectionFits
  BY DEF GrpcInit, PlaintextIsLoopback, ConnectionFits
<1>3. HandledIsAuthorized /\ DenialNeedsRestart
  BY DEF GrpcInit, HandledIsAuthorized, DenialNeedsRestart
<1> QED
  BY <1>1, <1>2, <1>3 DEF GrpcInv

LEMMA ServerStartsHolds ==
  ASSUME GrpcInv, NEW s \in Services, NEW env \in Environments, ServerStarts(s, env)
  PROVE  GrpcInv'
<1> DEFINE p == env.port
           server == ServerOf(s, env)
<1>1. /\ p \in Ports /\ server \in Server
      /\ server.loopback = env.loopback /\ server.tls = ServerEnabled(env)
  BY ConfiguredTypes
<1>2. /\ listening[p] = {} /\ listening' = [listening EXCEPT ![p] = {server}]
      /\ restarted' = restarted \union {x \in Services : \E c \in dialled[x] : c.port = p}
      /\ serverStarts' = serverStarts + 1 /\ answer' = {}
      /\ dialled' = dialled /\ apiUp' = apiUp
      /\ ServerEnabled(env) \/ env.loopback
  BY DEF ServerStarts, Listens
<1> HIDE DEF p, server
<1>3. GrpcTypeOK
  BY DEF GrpcInv
<1>4. /\ listening' \in [Ports -> SUBSET Server] /\ listening'[p] = {server}
      /\ \A q \in Ports : q # p => listening'[q] = listening[q]
  BY <1>1, <1>2, <1>3 DEF GrpcTypeOK
<1>5. GrpcTypeOK'
  <2>1. \A q \in Ports : AtMostOne(listening'[q])
    BY <1>3, <1>4 DEF GrpcTypeOK, AtMostOne
  <2> QED
    BY <1>2, <1>3, <1>4, <2>1 DEF GrpcTypeOK, AtMostOne
<1>6. PlaintextIsLoopback'
  BY <1>1, <1>2, <1>4 DEF GrpcInv, PlaintextIsLoopback
<1>7. ConnectionFits'
  <2> SUFFICES ASSUME NEW x \in Services, NEW c \in dialled[x], x \notin restarted'
               PROVE  listening'[c.port] = {} \/ OutcomeOf(x, c)' = "handled"
    BY <1>2 DEF ConnectionFits
  <2>1. c.port # p /\ x \notin restarted
    BY <1>2
  <2>2. c.port \in Ports
    BY <1>3 DEF GrpcTypeOK, Connection
  <2>3. listening'[c.port] = listening[c.port]
    BY <1>4, <2>1, <2>2
  <2>4. listening[c.port] = {} \/ OutcomeOf(x, c) = "handled"
    BY <2>1 DEF GrpcInv, ConnectionFits
  <2> QED
    BY <2>3, <2>4, OutcomeStays
<1> QED
  BY <1>2, <1>5, <1>6, <1>7, NothingAnswered DEF GrpcInv

LEMMA ServerStopsHolds ==
  ASSUME GrpcInv, NEW p \in Ports, ServerStops(p)
  PROVE  GrpcInv'
<1>1. /\ listening' = [listening EXCEPT ![p] = {}] /\ answer' = {}
      /\ dialled' = dialled /\ apiUp' = apiUp /\ restarted' = restarted
      /\ serverStarts' = serverStarts
  BY DEF ServerStops
<1>2. GrpcTypeOK
  BY DEF GrpcInv
<1>3. /\ listening' \in [Ports -> SUBSET Server] /\ listening'[p] = {}
      /\ \A q \in Ports : q # p => listening'[q] = listening[q]
  BY <1>1, <1>2 DEF GrpcTypeOK
<1>4. GrpcTypeOK'
  <2>1. \A q \in Ports : AtMostOne(listening'[q])
    BY <1>2, <1>3 DEF GrpcTypeOK, AtMostOne
  <2> QED
    BY <1>1, <1>2, <1>3, <2>1 DEF GrpcTypeOK, AtMostOne
<1>5. PlaintextIsLoopback'
  BY <1>3 DEF GrpcInv, PlaintextIsLoopback
<1>6. ConnectionFits'
  <2> SUFFICES ASSUME NEW x \in Services, NEW c \in dialled[x], x \notin restarted
               PROVE  listening'[c.port] = {} \/ OutcomeOf(x, c)' = "handled"
    BY <1>1 DEF ConnectionFits
  <2>1. c.port \in Ports
    BY <1>2 DEF GrpcTypeOK, Connection
  <2>2. c.port = p \/ listening'[c.port] = listening[c.port]
    BY <1>3, <2>1
  <2>3. listening[c.port] = {} \/ OutcomeOf(x, c) = "handled"
    BY DEF GrpcInv, ConnectionFits
  <2> QED
    BY <1>3, <2>2, <2>3, OutcomeStays
<1> QED
  BY <1>1, <1>4, <1>5, <1>6, NothingAnswered DEF GrpcInv

LEMMA DialHolds ==
  ASSUME GrpcInv, NEW s \in Services, NEW env \in Environments, Dial(s, env)
  PROVE  GrpcInv'
<1> DEFINE new == ConnectionOf(env)
<1>1. new \in Connection
  BY ConfiguredTypes
<1>2. /\ dialled' = [dialled EXCEPT ![s] = {new}] /\ restarted' = restarted \ {s}
      /\ OutcomeOf(s, new) = "handled" /\ answer' = {}
      /\ listening' = listening /\ apiUp' = apiUp /\ serverStarts' = serverStarts
  BY DEF Dial
<1> HIDE DEF new
<1>3. GrpcTypeOK
  BY DEF GrpcInv
<1>4. /\ dialled' \in [Services -> SUBSET Connection] /\ dialled'[s] = {new}
      /\ \A x \in Services : x # s => dialled'[x] = dialled[x]
  BY <1>1, <1>2, <1>3 DEF GrpcTypeOK
<1>5. GrpcTypeOK'
  <2>1. \A x \in Services : AtMostOne(dialled'[x])
    BY <1>3, <1>4 DEF GrpcTypeOK, AtMostOne
  <2> QED
    BY <1>2, <1>3, <1>4, <2>1 DEF GrpcTypeOK, AtMostOne
<1>6. PlaintextIsLoopback'
  BY <1>2 DEF GrpcInv, PlaintextIsLoopback
<1>7. ConnectionFits'
  <2> SUFFICES ASSUME NEW x \in Services, NEW c \in dialled'[x], x \notin restarted'
               PROVE  listening'[c.port] = {} \/ OutcomeOf(x, c)' = "handled"
    BY DEF ConnectionFits
  <2>1. OutcomeOf(x, c)' = OutcomeOf(x, c)
    BY <1>2, OutcomeStays
  <2>2. CASE x = s
    BY <1>2, <1>4, <2>1, <2>2
  <2>3. CASE x # s
    BY <1>2, <1>4, <2>1, <2>3 DEF GrpcInv, ConnectionFits
  <2> QED
    BY <2>2, <2>3
<1> QED
  BY <1>2, <1>5, <1>6, <1>7, NothingAnswered DEF GrpcInv

LEMMA ApiLifeHolds ==
  ASSUME GrpcInv, ApiServes \/ ApiEnds
  PROVE  GrpcInv'
<1>1. /\ listening' = listening /\ restarted' = restarted /\ serverStarts' = serverStarts
      /\ answer' = {} /\ apiUp' \in BOOLEAN
      /\ dialled' = dialled \/ dialled' = [s \in Services |-> {}]
  BY DEF ApiServes, ApiEnds
<1>2. GrpcTypeOK
  BY DEF GrpcInv
<1>3. /\ dialled' \in [Services -> SUBSET Connection]
      /\ \A s \in Services : dialled'[s] = dialled[s] \/ dialled'[s] = {}
  BY <1>1, <1>2 DEF GrpcTypeOK
<1>4. GrpcTypeOK'
  <2>1. \A s \in Services : AtMostOne(dialled'[s])
    BY <1>2, <1>3 DEF GrpcTypeOK, AtMostOne
  <2> QED
    BY <1>1, <1>2, <1>3, <2>1 DEF GrpcTypeOK, AtMostOne
<1>5. PlaintextIsLoopback'
  BY <1>1 DEF GrpcInv, PlaintextIsLoopback
<1>6. ConnectionFits'
  <2> SUFFICES ASSUME NEW x \in Services, NEW c \in dialled'[x], x \notin restarted'
               PROVE  listening'[c.port] = {} \/ OutcomeOf(x, c)' = "handled"
    BY DEF ConnectionFits
  <2>1. OutcomeOf(x, c)' = OutcomeOf(x, c)
    BY <1>1, OutcomeStays
  <2> QED
    BY <1>1, <1>3, <2>1 DEF GrpcInv, ConnectionFits
<1> QED
  BY <1>1, <1>4, <1>5, <1>6, NothingAnswered DEF GrpcInv

\* A call changes the answer only.
LEMMA CallHolds ==
  ASSUME GrpcInv, NEW s \in Services, NEW client \in Connection, NEW remote \in BOOLEAN,
         NEW api \in BOOLEAN, Answered(s, client, remote, api),
         \A server \in listening[client.port] : remote => ~server.loopback,
         api => client \in dialled[s],
         UNCHANGED <<listening, dialled, apiUp, restarted, serverStarts>>
  PROVE  GrpcInv'
<1>1. /\ listening' = listening /\ dialled' = dialled /\ apiUp' = apiUp
      /\ restarted' = restarted /\ serverStarts' = serverStarts
  OBVIOUS
<1>2. GrpcTypeOK'
  BY <1>1, AnswerType DEF GrpcInv, GrpcTypeOK
<1>3. PlaintextIsLoopback'
  BY <1>1 DEF GrpcInv, PlaintextIsLoopback
<1>4. ConnectionFits'
  BY <1>1, OutcomeStays DEF GrpcInv, ConnectionFits
<1>5. HandledIsAuthorized'
  BY CallIsAuthorized
<1>6. DenialNeedsRestart'
  <2> SUFFICES ASSUME NEW c \in answer', c.api, c.outcome # "handled"
               PROVE  c.service \in restarted \/ listening[c.port] = {}
    BY <1>1 DEF DenialNeedsRestart
  <2> DEFINE o == OutcomeOf(s, client)
  <2>0. c = [port |-> client.port, service |-> s, remote |-> remote, api |-> api,
             tls |-> client.tls, identity |-> client.identity, trusted |-> client.trusted,
             outcome |-> o]
    BY Zenon DEF Answered
  <2> HIDE DEF o
  <2>1. c.service = s /\ c.port = client.port /\ c.outcome = o /\ c.api = api
    BY <2>0
  <2>2. c.service = s /\ c.port = client.port /\ c.outcome = OutcomeOf(s, client) /\ c.api = api
    BY <2>1 DEF o
  <2> QED
    BY <2>2 DEF GrpcInv, ConnectionFits
<1> QED
  BY <1>2, <1>3, <1>4, <1>5, <1>6 DEF GrpcInv

\* Every step preserves the inductive invariant.
LEMMA GrpcNextHolds == GrpcInv /\ [GrpcNext]_grpcVars => GrpcInv'
<1> SUFFICES ASSUME GrpcInv, [GrpcNext]_grpcVars PROVE GrpcInv'
  OBVIOUS
<1>1. ASSUME NEW s \in Services, NEW env \in Environments, ServerStarts(s, env) \/ Dial(s, env)
      PROVE  GrpcInv'
  BY <1>1, ServerStartsHolds, DialHolds
<1>2. ASSUME NEW p \in Ports, ServerStops(p) PROVE GrpcInv'
  BY <1>2, ServerStopsHolds
<1>3. CASE ApiServes \/ ApiEnds
  BY <1>3, ApiLifeHolds
<1>4. ASSUME NEW s \in Services, ApiCalls(s) PROVE GrpcInv'
  <2>1. PICK connection \in dialled[s] : Answered(s, connection, FALSE, TRUE)
    BY <1>4 DEF ApiCalls
  <2>2. connection \in Connection
    BY DEF GrpcInv, GrpcTypeOK
  <2> QED
    BY <1>4, <2>1, <2>2, CallHolds DEF ApiCalls
<1>5. ASSUME NEW s \in Services, NEW client \in Connection, NEW remote \in BOOLEAN,
             OtherCalls(s, client, remote)
      PROVE  GrpcInv'
  BY <1>5, CallHolds DEF OtherCalls
<1>6. CASE UNCHANGED grpcVars
  <2>1. /\ listening' = listening /\ dialled' = dialled /\ apiUp' = apiUp
        /\ restarted' = restarted /\ serverStarts' = serverStarts /\ answer' = answer
    BY <1>6 DEF grpcVars
  <2>2. GrpcTypeOK' /\ PlaintextIsLoopback'
    BY <2>1 DEF GrpcInv, GrpcTypeOK, PlaintextIsLoopback
  <2>3. ConnectionFits'
    BY <2>1, OutcomeStays DEF GrpcInv, ConnectionFits
  <2>4. HandledIsAuthorized' /\ DenialNeedsRestart'
    BY <2>1 DEF GrpcInv, HandledIsAuthorized, DenialNeedsRestart
  <2> QED
    BY <2>2, <2>3, <2>4 DEF GrpcInv
<1> QED
  BY <1>1, <1>2, <1>3, <1>4, <1>5, <1>6 DEF GrpcNext

-----------------------------------------------------------------------------
(* The theorems.                                                           *)

\* The inductive invariant holds of every run of the services and their peers.
THEOREM GrpcInvariant == GrpcSpec => []GrpcInv
BY GrpcInitHolds, GrpcNextHolds, PTL DEF GrpcSpec

\* The variables keep their types, and a port has at most one listener.
THEOREM GrpcTypeCorrect == GrpcSpec => []GrpcTypeOK
<1>1. GrpcInv => GrpcTypeOK
  BY DEF GrpcInv
<1> QED
  BY GrpcInvariant, <1>1, PTL

\* Whatever is configured, a handler runs for a local plaintext caller or an
\* allowed and verified certificate only.
THEOREM HandlersAreAuthorized == GrpcSpec => []HandledIsAuthorized
<1>1. GrpcInv => HandledIsAuthorized
  BY DEF GrpcInv
<1> QED
  BY GrpcInvariant, <1>1, PTL

\* An API that serves is turned away only after a service was started again,
\* or while none is there.
THEOREM DenialsNeedRestarts == GrpcSpec => []DenialNeedsRestart
<1>1. GrpcInv => DenialNeedsRestart
  BY DEF GrpcInv
<1> QED
  BY GrpcInvariant, <1>1, PTL

-----------------------------------------------------------------------------
(* Legacy login: the inductive invariant.                                  *)
(*                                                                         *)
(* A nonce that is held was drawn, is not gone and is held for one address *)
(* only, and a request about to delete its nonce is the only reason why    *)
(* that nonce could still be held: at its own address, where Del clears it.*)

\* Nonces that are held or gone have been drawn; those held are not gone.
HeldIsLive ==
    /\ gone \subseteq 1 .. made
    /\ \A a \in Addresses : \A h \in held[a] : h.nonce \in 1 .. made /\ h.nonce \notin gone

\* No nonce is held for two addresses.
HeldByOne ==
    \A a, b \in Addresses : \A h \in held[a], k \in held[b] : h.nonce = k.nonce => a = b

\* A request that is about to delete its nonce has it from its own address.
DeletesOwn ==
    \A c \in LoginCalls :
        At(c, "delete") =>
            /\ logins[c].nonce \in 1 .. made
            /\ \A b \in Addresses : \A h \in held[b] :
                  h.nonce = logins[c].nonce => b = logins[c].address

\* A request that is about to issue tokens found or made its row.
IssueHasRow ==
    \A c \in LoginCalls : At(c, "issue") => logins[c].user \in userRow[logins[c].address]

NonceInv == HeldIsLive /\ HeldByOne /\ DeletesOwn
UserInv == IssueHasRow /\ JwtsNameUsers
LoginInv == LoginTypeOK /\ NonceInv /\ UserInv

-----------------------------------------------------------------------------

LEMMA NoLoginType == NoLogin \in LoginCall /\ NoLogin.at = "idle"
<1>1. PICK b \in Addresses : TRUE
  BY LegacyLoginAssumption
<1>2. (CHOOSE a \in Addresses : TRUE) \in Addresses
  BY <1>1
<1> QED
  BY <1>2 DEF NoLogin, LoginCall

\* What a request's record is after a step of that request.
LEMMA Moved ==
  ASSUME LoginTypeOK, NEW c \in LoginCalls,
         NEW place \in {"idle", "delete", "find", "create", "issue"}, NEW u \in Nat,
         \/ logins' = [logins EXCEPT ![c].at = place] /\ u = logins[c].user
         \/ logins' = [logins EXCEPT ![c].at = place, ![c].user = u]
  PROVE  /\ logins' \in [LoginCalls -> LoginCall]
         /\ logins'[c].at = place /\ logins'[c].user = u
         /\ logins'[c].address = logins[c].address /\ logins'[c].nonce = logins[c].nonce
         /\ \A d \in LoginCalls \ {c} : logins'[d] = logins[d]
<1>1. logins \in [LoginCalls -> LoginCall] /\ logins[c] \in LoginCall
  BY DEF LoginTypeOK
<1>2. PICK r \in LoginCall : r = logins[c]
  BY <1>1
<1>3. logins' = [logins EXCEPT ![c] = [r EXCEPT !.at = place, !.user = u]]
  BY <1>1, <1>2 DEF LoginCall
<1>4. /\ [r EXCEPT !.at = place, !.user = u] \in LoginCall
      /\ [r EXCEPT !.at = place, !.user = u].at = place
      /\ [r EXCEPT !.at = place, !.user = u].user = u
      /\ [r EXCEPT !.at = place, !.user = u].address = r.address
      /\ [r EXCEPT !.at = place, !.user = u].nonce = r.nonce
  BY DEF LoginCall
<1> DEFINE s == [r EXCEPT !.at = place, !.user = u]
<1>5. s \in LoginCall /\ logins' = [logins EXCEPT ![c] = s]
  BY <1>3, <1>4
<1>6. s.at = place /\ s.user = u /\ s.address = r.address /\ s.nonce = r.nonce
  BY <1>4
<1> HIDE DEF s
<1>7. logins'[c] = s /\ \A d \in LoginCalls \ {c} : logins'[d] = logins[d]
  BY <1>1, <1>5
<1>8. logins' \in [LoginCalls -> LoginCall]
  BY <1>1, <1>5
<1> QED
  BY <1>2, <1>6, <1>7, <1>8

LEMMA Ended ==
  ASSUME LoginTypeOK, NEW c \in LoginCalls, logins' = [logins EXCEPT ![c] = NoLogin]
  PROVE  /\ logins' \in [LoginCalls -> LoginCall]
         /\ logins'[c].at = "idle"
         /\ \A d \in LoginCalls \ {c} : logins'[d] = logins[d]
<1>1. logins \in [LoginCalls -> LoginCall]
  BY DEF LoginTypeOK
<1>2. logins'[c] = NoLogin /\ \A d \in LoginCalls \ {c} : logins'[d] = logins[d]
  BY <1>1
<1> QED
  BY <1>1, <1>2, NoLoginType

LEMMA IssuedType ==
  ASSUME loginTime \in Nat, NEW user \in Nat, NEW address \in Addresses
  PROVE  /\ Issued(user, address) \subseteq Jwt
         /\ \A j \in Issued(user, address) : j.user = user /\ j.address = address
<1> DEFINE access == [refresh |-> FALSE, user |-> user, address |-> address,
                      expires |-> loginTime + AccessExpire]
           renewal == [refresh |-> TRUE, user |-> user, address |-> address,
                       expires |-> loginTime + RefreshExpire]
<1>1. loginTime + AccessExpire \in Nat /\ loginTime + RefreshExpire \in Nat
  BY LegacyLoginAssumption
<1>2. access \in Jwt /\ renewal \in Jwt
  BY <1>1, Zenon DEF Jwt
<1>3. /\ access.user = user /\ access.address = address
      /\ renewal.user = user /\ renewal.address = address
  OBVIOUS
<1>4. Issued(user, address) \subseteq {access, renewal}
  BY Zenon DEF Issued
<1> HIDE DEF access, renewal
<1> QED
  BY <1>2, <1>3, <1>4

-----------------------------------------------------------------------------
\* A step that leaves the nonces, or the users, alone.

LEMMA NonceFrame ==
  ASSUME NonceInv, held' = held, gone' = gone, made' = made,
         \A d \in LoginCalls : logins'[d].at = "delete" => logins'[d] = logins[d]
  PROVE  NonceInv'
BY DEF NonceInv, HeldIsLive, HeldByOne, DeletesOwn, At

LEMMA UserFrame ==
  ASSUME UserInv, userRow' = userRow, jwts' \subseteq jwts, favourites' \subseteq favourites,
         \A d \in LoginCalls : logins'[d].at = "issue" => logins'[d] = logins[d]
  PROVE  UserInv'
BY DEF UserInv, IssueHasRow, JwtsNameUsers, At

-----------------------------------------------------------------------------

LEMMA TickHolds == ASSUME LoginInv, LoginTick PROVE LoginInv'
<1>1. /\ loginTime \in Nat /\ loginTime' = loginTime + 1 /\ made' = made /\ gone' = gone
      /\ userRow' = userRow /\ lastUser' = lastUser /\ logins' = logins
      /\ favourites' = favourites /\ jwts' \subseteq jwts
  BY DEF LoginInv, LoginTypeOK, LoginTick
<1>2. held' \in [Addresses -> SUBSET Held] /\ \A a \in Addresses : held'[a] \subseteq held[a]
  BY DEF LoginInv, LoginTypeOK, LoginTick
<1>3. LoginTypeOK'
  BY <1>1, <1>2 DEF LoginInv, LoginTypeOK
<1>4. HeldIsLive' /\ HeldByOne'
  BY <1>1, <1>2 DEF LoginInv, NonceInv, HeldIsLive, HeldByOne
<1>5. DeletesOwn'
  BY <1>1, <1>2 DEF LoginInv, NonceInv, DeletesOwn, At
<1>6. UserInv'
  BY <1>1, UserFrame DEF LoginInv
<1> QED
  BY <1>3, <1>4, <1>5, <1>6 DEF LoginInv, NonceInv

\* A new message's nonce was never drawn before, so that it is not gone and no
\* request has read it.
LEMMA GetSignMsgHolds ==
  ASSUME LoginInv, NEW a \in Addresses, NEW stored \in BOOLEAN, GetSignMsg(a, stored)
  PROVE  LoginInv'
<1>1. /\ loginTime \in Nat /\ made \in Nat /\ made' = made + 1 /\ gone' = gone
      /\ held \in [Addresses -> SUBSET Held] /\ NonceLifetime \in Nat
      /\ loginTime' = loginTime /\ userRow' = userRow /\ lastUser' = lastUser
      /\ logins' = logins /\ favourites' = favourites /\ jwts' = jwts
  BY LegacyLoginAssumption DEF LoginInv, LoginTypeOK, GetSignMsg
<1> DEFINE new == [nonce |-> made + 1, until |-> loginTime + NonceLifetime]
<1>2. new \in Held /\ new.nonce = made + 1
  BY <1>1 DEF Held
<1>3. held' = held \/ held' = [held EXCEPT ![a] = {new}]
  BY DEF GetSignMsg
<1> HIDE DEF new
<1>4. held' \in [Addresses -> SUBSET Held]
  BY <1>1, <1>2, <1>3
<1>5. \A b \in Addresses : held'[b] = held[b] \/ (b = a /\ held'[b] = {new})
  BY <1>1, <1>3
<1>6. LoginTypeOK'
  BY <1>1, <1>4 DEF LoginInv, LoginTypeOK
<1>7. HeldIsLive' /\ HeldByOne'
  BY <1>1, <1>2, <1>5 DEF LoginInv, NonceInv, HeldIsLive, HeldByOne
<1>8. DeletesOwn'
  BY <1>1, <1>2, <1>5 DEF LoginInv, NonceInv, DeletesOwn, At
<1>9. UserInv'
  BY <1>1, UserFrame DEF LoginInv
<1> QED
  BY <1>6, <1>7, <1>8, <1>9 DEF LoginInv, NonceInv

LEMMA ReadsHolds ==
  ASSUME LoginInv, NEW c \in LoginCalls, NEW a \in Addresses, NEW nonce \in 1 .. made,
         LoginReads(c, a, a, nonce)
  PROVE  LoginInv'
<1> DEFINE r == [at |-> "delete", address |-> a, nonce |-> nonce, user |-> 0]
<1>1. /\ logins \in [LoginCalls -> LoginCall] /\ logins' = [logins EXCEPT ![c] = r]
      /\ loginTime' = loginTime /\ made' = made /\ held' = held /\ gone' = gone
      /\ userRow' = userRow /\ lastUser' = lastUser /\ jwts' = jwts /\ favourites' = favourites
  BY DEF LoginInv, LoginTypeOK, LoginReads
<1>2. nonce \in Nat
  BY DEF LoginInv, LoginTypeOK
<1>3. r \in LoginCall /\ r.at = "delete" /\ r.address = a /\ r.nonce = nonce
  BY <1>2 DEF LoginCall
<1> HIDE DEF r
<1>4. logins' \in [LoginCalls -> LoginCall] /\ logins'[c] = r
      /\ \A d \in LoginCalls \ {c} : logins'[d] = logins[d]
  BY <1>1, <1>3
<1>5. LoginTypeOK'
  BY <1>1, <1>4 DEF LoginInv, LoginTypeOK
<1>6. HeldIsLive' /\ HeldByOne'
  BY <1>1 DEF LoginInv, NonceInv, HeldIsLive, HeldByOne
<1>7. PICK h \in held[a] : h.nonce = nonce
  BY DEF LoginReads
<1>8. DeletesOwn'
  <2> SUFFICES ASSUME NEW d \in LoginCalls, At(d, "delete")'
               PROVE  /\ logins'[d].nonce \in 1 .. made
                      /\ \A b \in Addresses : \A k \in held[b] :
                            k.nonce = logins'[d].nonce => b = logins'[d].address
    BY <1>1 DEF DeletesOwn
  <2>1. CASE d = c
    BY <2>1, <1>3, <1>4, <1>7 DEF LoginInv, NonceInv, HeldByOne
  <2>2. CASE d # c
    BY <2>2, <1>4 DEF LoginInv, NonceInv, DeletesOwn, At
  <2> QED
    BY <2>1, <2>2
<1>9. UserInv'
  <2>1. \A d \in LoginCalls : logins'[d].at = "issue" => logins'[d] = logins[d]
    BY <1>3, <1>4
  <2> QED
    BY <1>1, <2>1, UserFrame DEF LoginInv
<1> QED
  BY <1>5, <1>6, <1>8, <1>9 DEF LoginInv, NonceInv

\* Del clears the address of the request, and nobody else holds the nonce.
LEMMA DeletesHolds ==
  ASSUME LoginInv, NEW c \in LoginCalls, LoginDeletes(c) \/ LoginDeleteFails(c)
  PROVE  LoginInv'
<1>1. /\ logins \in [LoginCalls -> LoginCall] /\ held \in [Addresses -> SUBSET Held]
      /\ logins[c].at = "delete" /\ logins' = [logins EXCEPT ![c].at = "find"]
      /\ loginTime' = loginTime /\ made' = made /\ jwts' = jwts /\ favourites' = favourites
      /\ userRow' = userRow /\ lastUser' = lastUser
  BY DEF LoginInv, LoginTypeOK, LoginDeletes, LoginDeleteFails, At, Goes
<1>2. logins[c] \in LoginCall /\ logins[c].user \in Nat /\ logins[c].address \in Addresses
      /\ logins[c].nonce \in 1 .. made
  BY <1>1 DEF LoginInv, NonceInv, DeletesOwn, At, LoginCall
<1>3. /\ logins' \in [LoginCalls -> LoginCall] /\ logins'[c].at = "find"
      /\ \A d \in LoginCalls \ {c} : logins'[d] = logins[d]
  BY <1>1, <1>2, Moved DEF LoginInv
<1>4. \/ held' = held /\ gone' = gone
      \/ /\ held' = [held EXCEPT ![logins[c].address] = {}]
         /\ gone' = gone \union {logins[c].nonce}
  BY DEF LoginDeletes, LoginDeleteFails
<1>5. held' \in [Addresses -> SUBSET Held] /\ \A b \in Addresses : held'[b] \subseteq held[b]
  BY <1>1, <1>2, <1>4
<1>6. \/ gone' = gone
      \/ gone' = gone \union {logins[c].nonce} /\ held'[logins[c].address] = {}
  BY <1>1, <1>2, <1>4
<1>7. LoginTypeOK'
  BY <1>1, <1>2, <1>3, <1>5, <1>6 DEF LoginInv, LoginTypeOK
<1>8. HeldIsLive'
  <2>1. gone' \subseteq 1 .. made
    BY <1>2, <1>6 DEF LoginInv, NonceInv, HeldIsLive
  <2>2. ASSUME NEW b \in Addresses, NEW h \in held'[b]
        PROVE  h.nonce \in 1 .. made /\ h.nonce \notin gone'
    <3>1. h \in held[b]
      BY <1>5
    <3>2. h.nonce \in 1 .. made /\ h.nonce \notin gone
      BY <3>1 DEF LoginInv, NonceInv, HeldIsLive
    <3>3. h.nonce = logins[c].nonce => b = logins[c].address
      BY <1>1, <3>1 DEF LoginInv, NonceInv, DeletesOwn, At
    <3> QED
      BY <1>6, <3>2, <3>3
  <2> QED
    BY <1>1, <2>1, <2>2 DEF HeldIsLive
<1>9. HeldByOne'
  BY <1>5 DEF LoginInv, NonceInv, HeldByOne
<1>10. DeletesOwn'
  BY <1>1, <1>3, <1>5 DEF LoginInv, NonceInv, DeletesOwn, At
<1>11. UserInv'
  <2>1. \A d \in LoginCalls : logins'[d].at = "issue" => logins'[d] = logins[d]
    BY <1>3
  <2> QED
    BY <1>1, <2>1, UserFrame DEF LoginInv
<1> QED
  BY <1>7, <1>8, <1>9, <1>10, <1>11 DEF LoginInv, NonceInv

-----------------------------------------------------------------------------

LEMMA FindsHolds ==
  ASSUME LoginInv, NEW c \in LoginCalls, LoginFinds(c) \/ LoginFindsNone(c)
  PROVE  LoginInv'
<1>1. /\ loginTime' = loginTime /\ made' = made /\ held' = held /\ gone' = gone
      /\ userRow' = userRow /\ lastUser' = lastUser /\ jwts' = jwts /\ favourites' = favourites
  BY DEF LoginFinds, LoginFindsNone
<1>2. /\ logins[c] \in LoginCall /\ logins[c].user \in Nat /\ logins[c].address \in Addresses
      /\ userRow \in [Addresses -> SUBSET Nat]
  BY DEF LoginInv, LoginTypeOK, LoginCall
<1>3. \/ logins' = [logins EXCEPT ![c].at = "create"]
      \/ \E u \in userRow[logins[c].address] :
            logins' = [logins EXCEPT ![c].at = "issue", ![c].user = u]
  BY DEF LoginFinds, LoginFindsNone, Goes
<1>4. /\ logins' \in [LoginCalls -> LoginCall]
      /\ logins'[c].at \in {"create", "issue"} /\ logins'[c].address = logins[c].address
      /\ logins'[c].at = "issue" => logins'[c].user \in userRow[logins[c].address]
      /\ \A d \in LoginCalls \ {c} : logins'[d] = logins[d]
  <2>1. CASE logins' = [logins EXCEPT ![c].at = "create"]
    BY <2>1, <1>2, Moved DEF LoginInv
  <2>2. ASSUME NEW u \in userRow[logins[c].address],
               logins' = [logins EXCEPT ![c].at = "issue", ![c].user = u]
        PROVE  /\ logins' \in [LoginCalls -> LoginCall]
               /\ logins'[c].at = "issue" /\ logins'[c].user = u
               /\ logins'[c].address = logins[c].address
               /\ \A d \in LoginCalls \ {c} : logins'[d] = logins[d]
    <3>1. u \in Nat
      BY <1>2
    <3> QED
      BY <2>2, <3>1, Moved DEF LoginInv
  <2> QED
    BY <1>3, <2>1, <2>2
<1>5. LoginTypeOK'
  BY <1>1, <1>4 DEF LoginInv, LoginTypeOK
<1>6. NonceInv'
  <2>1. \A d \in LoginCalls : logins'[d].at = "delete" => logins'[d] = logins[d]
    BY <1>4
  <2> QED
    BY <1>1, <2>1, NonceFrame DEF LoginInv
<1>7. IssueHasRow'
  BY <1>1, <1>4 DEF LoginInv, UserInv, IssueHasRow, At
<1>8. JwtsNameUsers'
  BY <1>1 DEF LoginInv, UserInv, JwtsNameUsers
<1> QED
  BY <1>5, <1>6, <1>7, <1>8 DEF LoginInv, UserInv

\* The row is new: no token and no favourite named its address before.
LEMMA CreatesHolds ==
  ASSUME LoginInv, NEW c \in LoginCalls, NEW answered \in BOOLEAN, LoginCreates(c, answered)
  PROVE  LoginInv'
<1> DEFINE a == logins[c].address
<1>1. /\ loginTime' = loginTime /\ made' = made /\ held' = held /\ gone' = gone
      /\ jwts' = jwts /\ favourites' = favourites
      /\ lastUser \in Nat /\ lastUser' = lastUser + 1
      /\ userRow \in [Addresses -> SUBSET Nat] /\ userRow[a] = {}
      /\ userRow' = [userRow EXCEPT ![a] = {lastUser + 1}]
  BY DEF LoginInv, LoginTypeOK, LoginCreates
<1>2. logins[c] \in LoginCall /\ a \in Addresses
  BY DEF LoginInv, LoginTypeOK, LoginCall
<1>3. \/ logins' = [logins EXCEPT ![c].at = "issue", ![c].user = lastUser + 1]
      \/ logins' = [logins EXCEPT ![c] = NoLogin]
  BY DEF LoginCreates
<1>4. /\ logins' \in [LoginCalls -> LoginCall]
      /\ \A d \in LoginCalls \ {c} : logins'[d] = logins[d]
      /\ \/ logins'[c].at = "idle"
         \/ /\ logins'[c].at = "issue" /\ logins'[c].address = a
            /\ logins'[c].user = lastUser + 1
  <2>1. lastUser + 1 \in Nat
    BY <1>1
  <2>2. CASE logins' = [logins EXCEPT ![c].at = "issue", ![c].user = lastUser + 1]
    BY ZenonT(30), <2>1, <2>2, Moved DEF LoginInv
  <2>3. CASE logins' = [logins EXCEPT ![c] = NoLogin]
    BY <2>3, Ended DEF LoginInv
  <2> QED
    BY <1>3, <2>2, <2>3
<1> HIDE DEF a
<1>5. /\ userRow' \in [Addresses -> SUBSET Nat] /\ userRow'[a] = {lastUser + 1}
      /\ \A b \in Addresses : userRow[b] \subseteq userRow'[b]
  BY <1>1, <1>2
<1>6. LoginTypeOK'
  BY <1>1, <1>4, <1>5 DEF LoginInv, LoginTypeOK
<1>7. NonceInv'
  <2>1. \A d \in LoginCalls : logins'[d].at = "delete" => logins'[d] = logins[d]
    BY <1>4
  <2> QED
    BY <1>1, <2>1, NonceFrame DEF LoginInv
<1>8. IssueHasRow'
  <2> SUFFICES ASSUME NEW d \in LoginCalls, logins'[d].at = "issue"
               PROVE  logins'[d].user \in userRow'[logins'[d].address]
    BY DEF IssueHasRow, At
  <2>1. CASE d = c
    BY <2>1, <1>4, <1>5
  <2>2. CASE d # c
    <3>1. logins[d].at = "issue" /\ logins[d].address \in Addresses /\ logins'[d] = logins[d]
      BY <2>2, <1>4 DEF LoginInv, LoginTypeOK, LoginCall
    <3>2. logins[d].user \in userRow[logins[d].address]
      BY <3>1 DEF LoginInv, UserInv, IssueHasRow, At
    <3> QED
      BY <1>5, <3>1, <3>2
  <2> QED
    BY <2>1, <2>2
<1>9. JwtsNameUsers'
  <2>1. \A j \in jwts : j.address \in Addresses
    BY DEF LoginInv, LoginTypeOK, Jwt
  <2> QED
    BY <1>1, <1>5, <2>1 DEF LoginInv, UserInv, JwtsNameUsers
<1> QED
  BY <1>6, <1>7, <1>8, <1>9 DEF LoginInv, UserInv

LEMMA EndsHolds ==
  ASSUME LoginInv, NEW c \in LoginCalls, LoginCreatesTwice(c) \/ LoginFails(c)
  PROVE  LoginInv'
<1>1. /\ loginTime' = loginTime /\ made' = made /\ held' = held /\ gone' = gone
      /\ userRow' = userRow /\ lastUser \in Nat /\ lastUser' \in {lastUser, lastUser + 1}
      /\ jwts' = jwts /\ favourites' = favourites /\ logins' = [logins EXCEPT ![c] = NoLogin]
  BY DEF LoginInv, LoginTypeOK, LoginCreatesTwice, LoginFails, Ends
<1>2. /\ logins' \in [LoginCalls -> LoginCall] /\ logins'[c].at = "idle"
      /\ \A d \in LoginCalls \ {c} : logins'[d] = logins[d]
  BY <1>1, Ended DEF LoginInv
<1>3. LoginTypeOK'
  BY <1>1, <1>2 DEF LoginInv, LoginTypeOK
<1>4. /\ \A d \in LoginCalls : logins'[d].at = "delete" => logins'[d] = logins[d]
      /\ \A d \in LoginCalls : logins'[d].at = "issue" => logins'[d] = logins[d]
  BY <1>2
<1>5. NonceInv'
  BY <1>1, <1>4, NonceFrame DEF LoginInv
<1>6. UserInv'
  BY <1>1, <1>4, UserFrame DEF LoginInv
<1> QED
  BY <1>3, <1>5, <1>6 DEF LoginInv

LEMMA IssuesHolds ==
  ASSUME LoginInv, NEW c \in LoginCalls, LoginIssues(c) PROVE LoginInv'
<1>1. /\ loginTime' = loginTime /\ made' = made /\ held' = held /\ gone' = gone
      /\ userRow' = userRow /\ lastUser' = lastUser /\ favourites' = favourites
      /\ jwts' = jwts \union Issued(logins[c].user, logins[c].address)
      /\ logins' = [logins EXCEPT ![c] = NoLogin] /\ logins[c].at = "issue"
  BY DEF LoginIssues, At, Ends
<1>2. /\ logins[c].user \in Nat /\ logins[c].address \in Addresses
      /\ logins[c].user \in userRow[logins[c].address] /\ loginTime \in Nat
  BY <1>1 DEF LoginInv, LoginTypeOK, UserInv, IssueHasRow, At, LoginCall
<1>3. /\ logins' \in [LoginCalls -> LoginCall] /\ logins'[c].at = "idle"
      /\ \A d \in LoginCalls \ {c} : logins'[d] = logins[d]
  BY <1>1, Ended DEF LoginInv
<1>4. /\ \A j \in jwts' \ jwts : j.user = logins[c].user /\ j.address = logins[c].address
      /\ jwts' \subseteq Jwt
  BY <1>1, <1>2, IssuedType DEF LoginInv, LoginTypeOK
<1>5. LoginTypeOK'
  BY <1>1, <1>3, <1>4 DEF LoginInv, LoginTypeOK
<1>6. /\ \A d \in LoginCalls : logins'[d].at = "delete" => logins'[d] = logins[d]
      /\ \A d \in LoginCalls : logins'[d].at = "issue" => logins'[d] = logins[d]
  BY <1>3
<1>7. NonceInv'
  BY <1>1, <1>6, NonceFrame DEF LoginInv
<1>8. IssueHasRow'
  BY <1>1, <1>6 DEF LoginInv, UserInv, IssueHasRow, At
<1>9. JwtsNameUsers'
  BY <1>1, <1>2, <1>4 DEF LoginInv, UserInv, JwtsNameUsers
<1> QED
  BY <1>5, <1>7, <1>8, <1>9 DEF LoginInv, UserInv

\* Refreshed tokens and favourites take their user from a token.
LEMMA RefreshHolds == ASSUME LoginInv, NEW jwt \in jwts, RefreshToken(jwt) PROVE LoginInv'
<1>1. /\ loginTime' = loginTime /\ made' = made /\ held' = held /\ gone' = gone
      /\ userRow' = userRow /\ lastUser' = lastUser /\ logins' = logins
      /\ favourites' = favourites /\ jwts' = jwts \union Issued(jwt.user, jwt.address)
  BY DEF RefreshToken
<1>2. /\ jwt.user \in Nat /\ jwt.address \in Addresses /\ jwt.user \in userRow[jwt.address]
      /\ loginTime \in Nat
  BY DEF LoginInv, LoginTypeOK, UserInv, JwtsNameUsers, Jwt
<1>3. /\ \A j \in jwts' \ jwts : j.user = jwt.user /\ j.address = jwt.address
      /\ jwts' \subseteq Jwt
  BY <1>1, <1>2, IssuedType DEF LoginInv, LoginTypeOK
<1>4. LoginTypeOK'
  BY <1>1, <1>3 DEF LoginInv, LoginTypeOK
<1>5. NonceInv'
  BY <1>1, NonceFrame DEF LoginInv
<1>6. UserInv'
  BY <1>1, <1>2, <1>3 DEF LoginInv, UserInv, IssueHasRow, JwtsNameUsers, At
<1> QED
  BY <1>4, <1>5, <1>6 DEF LoginInv

LEMMA FavouriteHolds ==
  ASSUME LoginInv, NEW jwt \in jwts, NEW t \in FavoriteTokens,
         FavoriteToken(jwt, t) \/ UnfavoriteToken(jwt, t)
  PROVE  LoginInv'
<1>1. /\ loginTime' = loginTime /\ made' = made /\ held' = held /\ gone' = gone
      /\ userRow' = userRow /\ lastUser' = lastUser /\ logins' = logins /\ jwts' = jwts
      /\ favourites' \subseteq favourites \union {<<jwt.user, t>>}
  BY DEF FavoriteToken, UnfavoriteToken
<1>2. jwt.user \in Nat /\ jwt.address \in Addresses /\ jwt.user \in userRow[jwt.address]
  BY DEF LoginInv, LoginTypeOK, UserInv, JwtsNameUsers, Jwt
<1>3. favourites' \subseteq Nat \X FavoriteTokens
  BY <1>1, <1>2 DEF LoginInv, LoginTypeOK
<1>4. LoginTypeOK'
  BY <1>1, <1>3 DEF LoginInv, LoginTypeOK
<1>5. NonceInv'
  BY <1>1, NonceFrame DEF LoginInv
<1>6. UserInv'
  BY <1>1, <1>2 DEF LoginInv, UserInv, IssueHasRow, JwtsNameUsers, At
<1> QED
  BY <1>4, <1>5, <1>6 DEF LoginInv

-----------------------------------------------------------------------------

LEMMA LoginInitHolds == LoginInit => LoginInv
<1> SUFFICES ASSUME LoginInit PROVE LoginInv
  OBVIOUS
<1>1. /\ loginTime = 0 /\ made = 0 /\ gone = {} /\ lastUser = 0 /\ jwts = {} /\ favourites = {}
      /\ held = [a \in Addresses |-> {}] /\ userRow = [a \in Addresses |-> {}]
      /\ \A c \in LoginCalls : logins[c] = NoLogin
      /\ logins \in [LoginCalls -> LoginCall]
  BY NoLoginType DEF LoginInit
<1>2. LoginTypeOK
  BY <1>1 DEF LoginTypeOK
<1>3. NonceInv
  BY <1>1, NoLoginType DEF NonceInv, HeldIsLive, HeldByOne, DeletesOwn, At
<1>4. UserInv
  BY <1>1, NoLoginType DEF UserInv, IssueHasRow, JwtsNameUsers, At
<1> QED
  BY <1>2, <1>3, <1>4 DEF LoginInv

LEMMA StutterHolds == ASSUME LoginInv, UNCHANGED loginVars PROVE LoginInv'
<1>1. /\ loginTime' = loginTime /\ made' = made /\ held' = held /\ gone' = gone
      /\ userRow' = userRow /\ lastUser' = lastUser /\ jwts' = jwts /\ logins' = logins
      /\ favourites' = favourites
  BY DEF loginVars
<1>2. LoginTypeOK'
  BY <1>1 DEF LoginInv, LoginTypeOK
<1>3. NonceInv'
  BY <1>1, NonceFrame DEF LoginInv
<1>4. UserInv'
  BY <1>1, UserFrame DEF LoginInv
<1> QED
  BY <1>2, <1>3, <1>4 DEF LoginInv

LEMMA StepHolds == ASSUME LoginInv, NEW c \in LoginCalls, LoginStep(c) PROVE LoginInv'
<1>1. ASSUME NEW a \in Addresses, NEW signer \in Addresses, NEW nonce \in 1 .. made,
             LoginReads(c, a, signer, nonce)
      PROVE  LoginInv'
  <2>1. LoginReads(c, a, a, nonce)
    BY <1>1 DEF LoginReads
  <2> QED
    BY <2>1, ReadsHolds
<1>2. ASSUME NEW a \in Addresses, NEW signer \in Addresses, NEW nonce \in 1 .. made,
             LoginRefused(c, a, signer, nonce)
      PROVE  LoginInv'
  BY <1>2, StutterHolds DEF LoginRefused
<1>3. CASE LoginDeletes(c) \/ LoginDeleteFails(c)
  BY <1>3, DeletesHolds
<1>4. CASE LoginFinds(c) \/ LoginFindsNone(c)
  BY <1>4, FindsHolds
<1>5. ASSUME NEW answered \in BOOLEAN, LoginCreates(c, answered) PROVE LoginInv'
  BY <1>5, CreatesHolds
<1>6. CASE LoginCreatesTwice(c) \/ LoginFails(c)
  BY <1>6, EndsHolds
<1>7. CASE LoginIssues(c)
  BY <1>7, IssuesHolds
<1> QED
  BY <1>1, <1>2, <1>3, <1>4, <1>5, <1>6, <1>7 DEF LoginStep

LEMMA LoginNextHolds == LoginInv /\ [LoginNext]_loginVars => LoginInv'
<1> SUFFICES ASSUME LoginInv, [LoginNext]_loginVars PROVE LoginInv'
  OBVIOUS
<1>1. CASE LoginTick
  BY <1>1, TickHolds
<1>2. ASSUME NEW a \in Addresses, NEW stored \in BOOLEAN, GetSignMsg(a, stored) PROVE LoginInv'
  BY <1>2, GetSignMsgHolds
<1>3. ASSUME NEW c \in LoginCalls, LoginStep(c) PROVE LoginInv'
  BY <1>3, StepHolds
<1>4. ASSUME NEW jwt \in jwts, RefreshToken(jwt) PROVE LoginInv'
  BY <1>4, RefreshHolds
<1>5. ASSUME NEW jwt \in jwts, NEW t \in FavoriteTokens,
             FavoriteToken(jwt, t) \/ UnfavoriteToken(jwt, t)
      PROVE  LoginInv'
  BY <1>5, FavouriteHolds
<1>6. CASE UNCHANGED loginVars
  BY <1>6, StutterHolds
<1> QED
  BY <1>1, <1>2, <1>3, <1>4, <1>5, <1>6 DEF LoginNext

\* A request that was idle and is about to delete has just read its nonce.
LEMMA OnlyReads ==
  ASSUME LoginInv, [LoginNext]_loginVars, NEW c \in LoginCalls,
         At(c, "idle"), logins'[c].at = "delete"
  PROVE  \E a \in Addresses, nonce \in 1 .. made : LoginReads(c, a, a, nonce)
<1>1. logins[c].at = "idle" /\ logins \in [LoginCalls -> LoginCall] /\ logins'[c] # logins[c]
  BY DEF LoginInv, LoginTypeOK, At
<1>2. logins' # logins
  BY <1>1
<1>3. PICK d \in LoginCalls : LoginStep(d)
  BY <1>2 DEF LoginNext, LoginTick, GetSignMsg, RefreshToken, FavoriteToken, UnfavoriteToken,
              loginVars
<1>4. PICK a \in Addresses, signer \in Addresses, nonce \in 1 .. made :
          LoginReads(d, a, signer, nonce)
  <2>1. \/ \E a, signer \in Addresses, nonce \in 1 .. made : LoginReads(d, a, signer, nonce)
        \/ logins' = logins
        \/ ~At(d, "idle") /\ \A e \in LoginCalls \ {d} : logins'[e] = logins[e]
    <3>1. CASE LoginDeletes(d) \/ LoginDeleteFails(d) \/ LoginFindsNone(d)
      BY <1>1, <3>1 DEF LoginDeletes, LoginDeleteFails, LoginFindsNone, At, Goes
    <3>2. CASE LoginFinds(d) \/ \E answered \in BOOLEAN : LoginCreates(d, answered)
      BY <1>1, <3>2 DEF LoginFinds, LoginCreates, At
    <3>3. CASE LoginCreatesTwice(d) \/ LoginFails(d) \/ LoginIssues(d)
      BY <1>1, <3>3 DEF LoginCreatesTwice, LoginFails, LoginIssues, At, Ends
    <3>4. CASE \E a, signer \in Addresses, nonce \in 1 .. made : LoginRefused(d, a, signer, nonce)
      BY <3>4 DEF LoginRefused, loginVars
    <3> QED
      BY <1>3, <3>1, <3>2, <3>3, <3>4 DEF LoginStep
  <2>2. ~(~At(d, "idle") /\ \A e \in LoginCalls \ {d} : logins'[e] = logins[e])
    BY <1>1 DEF At
  <2> QED
    BY <1>2, <2>1, <2>2
<1>5. /\ LoginReads(d, a, a, nonce)
      /\ \A e \in LoginCalls \ {d} : logins'[e] = logins[e]
  BY <1>1, <1>4 DEF LoginReads
<1> QED
  BY <1>1, <1>5

-----------------------------------------------------------------------------

\* The inductive invariant holds in every reachable state.
THEOREM LoginInvariant == LoginSpec => []LoginInv
<1> QED
  BY LoginInitHolds, LoginNextHolds, PTL DEF LoginSpec

\* The variables of the login always have their types.
THEOREM LoginTypeCorrect == LoginSpec => []LoginTypeOK
<1>1. LoginInv => LoginTypeOK
  BY DEF LoginInv
<1> QED
  BY <1>1, LoginInvariant, PTL

\* A nonce a login has deleted verifies no later login, whatever was stored,
\* expired and deleted meanwhile.
THEOREM UsedNoncesStayGone == LoginSpec => UsedNonceIsGone
<1>1. ASSUME LoginInv, [LoginNext]_loginVars
      PROVE  [\A c \in LoginCalls :
                At(c, "idle") /\ logins'[c].at = "delete" => logins'[c].nonce \notin gone]_loginVars
  <2> SUFFICES ASSUME NEW c \in LoginCalls, At(c, "idle"), logins'[c].at = "delete"
               PROVE  logins'[c].nonce \notin gone
    OBVIOUS
  <2>1. PICK a \in Addresses, nonce \in 1 .. made : LoginReads(c, a, a, nonce)
    BY <1>1, OnlyReads
  <2>2. nonce \notin gone
    BY <1>1, <2>1 DEF LoginReads, LoginInv, NonceInv, HeldIsLive
  <2>3. logins'[c] = [at |-> "delete", address |-> a, nonce |-> nonce, user |-> 0]
    BY <1>1, <2>1 DEF LoginReads, LoginInv, LoginTypeOK
  <2> QED
    BY <2>2, <2>3
<1> QED
  BY <1>1, LoginInvariant, PTL DEF LoginSpec, UsedNonceIsGone

\* Every token that is accepted names the row of its address, and every
\* favourite belongs to a row, however first logins race to Create.
THEOREM JwtsAlwaysNameUsers == LoginSpec => []JwtsNameUsers
<1>1. LoginInv => JwtsNameUsers
  BY DEF LoginInv, UserInv
<1> QED
  BY <1>1, LoginInvariant, PTL

-----------------------------------------------------------------------------
(* Presigned uploads: the inductive invariant and its steps.               *)

\* A request on its way has passed the API: its token is the issuer's, its kind
\* is that of its folder, and its chain is an int32 and the one asked for.
SentIsVerified ==
    \A r \in upload :
        r.at = "sent" =>
            /\ r.kind = ImageKind(r.folder)
            /\ r.token.algorithm = "EdDSA" /\ r.token.ours
            /\ r.chain \in 1 .. MaxChain
            /\ r.wanted.given = "number" => r.chain = r.wanted.value

UploadInv == UploadTypeOK /\ (upload = {} => url = {}) /\ SentIsVerified /\ SignedIsAllowed

\* An image kind on the wire stands for one folder.
LEMMA KindsAreFolders ==
  \A folder \in Folders : ImageKind(folder) \in Kinds /\ ImageFolder(ImageKind(folder)) = folder
BY DEF Folders, Kinds, ImageKind, ImageFolder

\* The fields of a request.
LEMMA UploadFields ==
  ASSUME NEW r \in Upload
  PROVE  /\ r.at \in {"sent", "signed"} /\ r.folder \in Folders /\ r.kind \in Kinds
         /\ r.chain \in Int /\ r.token \in Token /\ r.wanted \in WantedChain
BY DEF Upload

\* The URL signed for a request whose token is in order.
LEMMA PresignedIsAllowed ==
  ASSUME UploadTypeOK, NEW r \in Upload, NEW folder \in Folders
  PROVE  LET u == [folder |-> folder, chain |-> r.chain, extension |-> Extension(r.media),
                   signed |-> uploadTime, ends |-> uploadTime + UrlLifetime]
         IN  Presigned(folder, r) = {u} /\ u \in Url
<1>1. Extension(r.media) \in {".jpg", ".gif", ".webp", ".svg", ".png"}
  BY DEF Extension
<1>2. r.chain \in Int /\ uploadTime \in Nat /\ uploadTime + UrlLifetime \in Nat
  BY UploadsAssumption DEF UploadsAssumption, Upload, UploadTypeOK
<1> QED
  BY <1>1, <1>2 DEF Presigned, Url

\* There is no request and no URL at first.
LEMMA UploadInitial == UploadInit => UploadInv
BY DEF UploadInit, UploadInv, UploadTypeOK, SentIsVerified, SignedIsAllowed

\* The API verifies the token and sends the request on.
LEMMA ApiSendsStep ==
  ASSUME UploadInv, NEW folder \in Folders, NEW media \in MediaTypes, NEW wanted \in WantedChain,
         NEW token \in Token, ApiSends(folder, media, wanted, token)
  PROVE  UploadInv'
<1> DEFINE r == [at |-> "sent", folder |-> folder, kind |-> ImageKind(folder), media |-> media,
                 wanted |-> wanted, chain |-> ChainOf(wanted), token |-> token]
<1>1. /\ Verified(token) /\ ChainOf(wanted) \in 1 .. MaxChain
      /\ upload' = {r} /\ url' = {} /\ uploadTime' = uploadTime
  BY DEF ApiSends, UploadInv
<1>2. ImageKind(folder) \in Kinds
  BY KindsAreFolders
<1>3. ChainOf(wanted) \in Int
  BY <1>1
<1>4. r \in Upload
  BY <1>2, <1>3 DEF Upload
<1>5. UploadTypeOK'
  BY <1>1, <1>4 DEF UploadInv, UploadTypeOK
<1>6. wanted.given = "number" => ChainOf(wanted) = wanted.value
  BY DEF ChainOf
<1>7. SentIsVerified'
  BY <1>1, <1>6 DEF SentIsVerified, Verified
<1> QED
  BY <1>1, <1>5, <1>7 DEF UploadInv, SignedIsAllowed

\* The upload service verifies the token again and signs.
LEMMA ServiceSignsStep ==
  ASSUME UploadInv, ServiceSigns
  PROVE  UploadInv'
<1>1. PICK r \in upload :
        /\ r.at = "sent" /\ Verified(r.token)
        /\ upload' = {[r EXCEPT !.at = "signed"]}
        /\ url' = Presigned(ImageFolder(r.kind), r)
        /\ uploadTime' = uploadTime
  BY DEF ServiceSigns
<1> DEFINE s == [r EXCEPT !.at = "signed"]
           u == [folder |-> ImageFolder(r.kind), chain |-> r.chain,
                 extension |-> Extension(r.media), signed |-> uploadTime,
                 ends |-> uploadTime + UrlLifetime]
<1>2. r \in Upload
  BY DEF UploadInv, UploadTypeOK
<1>3. /\ s \in Upload /\ s.at = "signed" /\ s.folder = r.folder
      /\ s.wanted = r.wanted /\ s.token = r.token
  BY <1>2 DEF Upload
<1>4. /\ r.kind = ImageKind(r.folder) /\ r.token.ours
      /\ r.chain \in 1 .. MaxChain
      /\ r.wanted.given = "number" => r.chain = r.wanted.value
  BY <1>1 DEF UploadInv, SentIsVerified
<1>5. ImageFolder(r.kind) = r.folder /\ r.folder \in Folders
  BY <1>2, <1>4, KindsAreFolders, UploadFields
<1>6. url' = {u} /\ u \in Url
  BY <1>1, <1>2, <1>5, PresignedIsAllowed DEF UploadInv
<1>7. /\ u.folder = r.folder /\ u.chain = r.chain /\ u.signed = uploadTime
      /\ u.ends = u.signed + UrlLifetime
  BY <1>5
<1>8. r.token.expires # 0 => uploadTime < r.token.expires
  BY <1>1 DEF Verified, Unexpired
<1> HIDE DEF s, u
<1>9. upload' = {s} /\ s \in Upload
  BY <1>1, <1>3 DEF s
<1>10. UploadTypeOK' /\ SentIsVerified'
  BY <1>1, <1>3, <1>6, <1>9 DEF UploadInv, UploadTypeOK, SentIsVerified
<1>11. SignedIsAllowed'
  BY <1>3, <1>4, <1>6, <1>7, <1>8, <1>9 DEF SignedIsAllowed
<1> QED
  BY <1>9, <1>10, <1>11 DEF UploadInv

\* The legacy API signs by itself.
LEMMA LegacySignsStep ==
  ASSUME UploadInv, NEW folder \in Folders, NEW media \in MediaTypes, NEW wanted \in WantedChain,
         NEW token \in Token, LegacySigns(folder, media, wanted, token)
  PROVE  UploadInv'
<1> DEFINE r == [at |-> "signed", folder |-> folder, kind |-> ImageKind(folder), media |-> media,
                 wanted |-> wanted, chain |-> LegacyChainOf(wanted), token |-> token]
           u == [folder |-> folder, chain |-> r.chain, extension |-> Extension(r.media),
                 signed |-> uploadTime, ends |-> uploadTime + UrlLifetime]
<1>1. /\ LegacyAdmits(token)
      /\ upload' = {r} /\ url' = Presigned(folder, r) /\ uploadTime' = uploadTime
  BY DEF LegacySigns
<1>2. LegacyChainOf(wanted) \in Int
  <2>1. wanted.value \in Chains
    BY DEF WantedChain
  <2>2. DefaultChain \in Int
    BY UploadsAssumption DEF UploadsAssumption
  <2>3. wanted.value \in Int
    BY <2>1, UploadsAssumption DEF UploadsAssumption
  <2> QED
    BY <2>2, <2>3 DEF LegacyChainOf
<1>3. r \in Upload
  BY <1>2, KindsAreFolders DEF Upload
<1>4. /\ r.at = "signed" /\ r.folder = folder /\ r.wanted = wanted /\ r.token = token
      /\ wanted.given = "number" => r.chain = wanted.value
  BY DEF LegacyChainOf
<1>5. /\ token.algorithm = "HS256" /\ token.ours
      /\ token.expires # 0 => uploadTime < token.expires
  BY <1>1 DEF LegacyAdmits, Unexpired
<1> HIDE DEF r
<1>6. url' = {u} /\ u \in Url
  BY <1>1, <1>3, PresignedIsAllowed DEF UploadInv
<1>7. /\ u.folder = folder /\ u.chain = r.chain /\ u.signed = uploadTime
      /\ u.ends = u.signed + UrlLifetime
  OBVIOUS
<1> HIDE DEF u
<1>8. UploadTypeOK' /\ SentIsVerified'
  BY <1>1, <1>3, <1>4, <1>6 DEF UploadInv, UploadTypeOK, SentIsVerified
<1>9. SignedIsAllowed'
  BY <1>1, <1>4, <1>5, <1>6, <1>7 DEF SignedIsAllowed
<1> QED
  BY <1>1, <1>8, <1>9 DEF UploadInv

\* Every step keeps the invariant.
LEMMA UploadStep ==
  ASSUME UploadInv, [UploadNext]_uploadVars
  PROVE  UploadInv'
<1>1. CASE UploadTick
  BY <1>1 DEF UploadTick, UploadInv, UploadTypeOK, SentIsVerified, SignedIsAllowed
<1>2. ASSUME NEW folder \in Folders, NEW media \in MediaTypes, NEW wanted \in WantedChain,
             NEW token \in Token, ApiSends(folder, media, wanted, token)
      PROVE  UploadInv'
  BY <1>2, ApiSendsStep
<1>3. ASSUME NEW folder \in Folders, NEW media \in MediaTypes, NEW wanted \in WantedChain,
             NEW token \in Token, LegacySigns(folder, media, wanted, token)
      PROVE  UploadInv'
  BY <1>3, LegacySignsStep
<1>4. CASE ServiceSigns
  BY <1>4, ServiceSignsStep
<1>5. CASE RequestEnds
  BY <1>5 DEF RequestEnds, UploadInv, UploadTypeOK, SentIsVerified, SignedIsAllowed
<1>6. CASE UNCHANGED uploadVars
  BY <1>6 DEF uploadVars, UploadInv, UploadTypeOK, SentIsVerified, SignedIsAllowed
<1> QED
  BY <1>1, <1>2, <1>3, <1>4, <1>5, <1>6 DEF UploadNext

\* A request that is with the upload service was verified by the API and names what was
\* asked for, and a URL is signed for what its request asked for.
\* Code: presignImage of the API, PresignImage of the upload service, and the presign
\* handlers of the legacy API.
THEOREM UploadInvariant == UploadSpec => []UploadInv
<1>1. UploadInv /\ [UploadNext]_uploadVars => UploadInv'
  BY UploadStep
<1> QED
  BY <1>1, UploadInitial, PTL DEF UploadSpec

\* The request, the URL and the clock keep their types.
\* Code: PresignRequest, and PresignImageRequest on the wire.
THEOREM UploadTypeCorrect == UploadSpec => []UploadTypeOK
<1>1. UploadInv => UploadTypeOK
  BY DEF UploadInv
<1> QED
  BY <1>1, UploadInvariant, PTL

\* A URL is signed below the folder and the chain that were asked for, with a token of
\* the issuer that was valid then, and ends a fixed time later; the rebuilt services
\* sign for int32 chains only.
\* Code: PresignImage, which verifies the token a second time and maps the image kind
\* back to a folder, and the presign handlers of the legacy API, which sign themselves.
THEOREM SignedUrlsAreAllowed == UploadSpec => []SignedIsAllowed
<1>1. UploadInv => SignedIsAllowed
  BY DEF UploadInv
<1> QED
  BY <1>1, UploadInvariant, PTL

-----------------------------------------------------------------------------
(* History of candles.                                                     *)

\* A walk that is on: candles it still owes are before the cursor, those it
\* has answered are not.
CursorSplits ==
    history.state = "on" =>
        /\ history.old \subseteq candles /\ history.seen \subseteq candles
        /\ history.old \ history.seen \subseteq Before(history.cursor)
        /\ history.damaged \/ history.seen \intersect Before(history.cursor) = {}

KlineInv == KlineTypeOK /\ CursorSplits /\ KlineWalkExact

-----------------------------------------------------------------------------

LEMMA LimitType == \A limit \in Int : EffectiveLimit(limit) \in Nat
BY KlineAssumption DEF EffectiveLimit

LEMMA NoHistoryType == NoHistory \in History
BY KlineAssumption DEF NoHistory, History

\* Rows have the order of the candles.
LEMMA RowsOrdered ==
  ASSUME KlineTypeOK
  PROVE  /\ writerZone \in Int
         /\ \A o \in Opens : o \in Nat /\ RowTime(o) \in Int
         /\ \A o, p \in Opens : o < p <=> RowTime(o) < RowTime(p)
BY KlineAssumption DEF KlineTypeOK, RowTime

LEMMA EarliestExists ==
  ASSUME NEW items \in SUBSET Opens, items # {}
  PROVE  \E p \in items : \A q \in items : p <= q
<1>1. items \subseteq Nat
  BY KlineAssumption
<1> DEFINE less == OpToRel(<, Nat)
<1>2. \A x, y \in Nat : x < y => <<x, y>> \in less
  BY DEF OpToRel
<1>3. IsWellFoundedOn(less, Nat)
  BY NatLessThanWellFounded
<1> HIDE DEF less
<1>4. PICK p \in items : \A q \in items : <<q, p>> \notin less
  BY <1>1, <1>3, WFMin
<1>5. ASSUME NEW q \in items PROVE p <= q
  <2>1. p \in Nat /\ q \in Nat
    BY <1>1
  <2>2. ~(q < p)
    BY <1>2, <1>4, <2>1, Zenon
  <2> QED
    BY <2>1, <2>2
<1> QED
  BY <1>5

LEMMA CursorType ==
  ASSUME KlineTypeOK, NEW items \in SUBSET Opens PROVE NextCursor(items) \subseteq Int
BY RowsOrdered DEF NextCursor

\* The next cursor comes after the rows that were not answered, and not after
\* those that were.
LEMMA CursorMoves ==
  ASSUME KlineTypeOK, NEW cursor \in SUBSET Int, NEW items \in SUBSET Before(cursor),
         items # {}, Latest(items, Before(cursor))
  PROVE  /\ Before(cursor) \ items \subseteq Before(NextCursor(items))
         /\ Before(NextCursor(items)) \subseteq Before(cursor)
         /\ items \intersect Before(NextCursor(items)) = {}
<1>1. Before(cursor) \subseteq candles /\ candles \subseteq Opens
  BY DEF Before, KlineTypeOK
<1>2. PICK p \in items : \A q \in items : p <= q
  BY <1>1, EarliestExists
<1>3. p \in Opens /\ \A q \in items : q \in Opens
  BY <1>1
<1>4. NextCursor(items) = {RowTime(p)}
  BY <1>2, <1>3, RowsOrdered DEF NextCursor
<1>5. Before(NextCursor(items)) = {o \in candles : o < p}
  BY <1>1, <1>3, <1>4, RowsOrdered DEF Before
<1>6. Before(cursor) \ items \subseteq Before(NextCursor(items))
  BY <1>1, <1>2, <1>5 DEF Latest
<1>7. items \intersect Before(NextCursor(items)) = {}
  BY <1>2, <1>3, <1>5, RowsOrdered
<1>8. Before(NextCursor(items)) \subseteq Before(cursor)
  <2> SUFFICES ASSUME NEW o \in candles, o < p, NEW time \in cursor PROVE RowTime(o) < time
    BY <1>5 DEF Before
  <2>1. RowTime(p) < time
    BY DEF Before
  <2>2. RowTime(o) < RowTime(p)
    BY <1>1, <1>3, RowsOrdered
  <2>3. RowTime(o) \in Int /\ RowTime(p) \in Int /\ time \in Int
    BY <1>1, <1>3, RowsOrdered
  <2> QED
    BY <2>1, <2>2, <2>3
<1> QED
  BY <1>6, <1>7, <1>8

-----------------------------------------------------------------------------

LEMMA CandleOpensHolds ==
  ASSUME KlineInv, NEW open \in Opens, CandleOpens(open) PROVE KlineInv'
<1>1. /\ candles' = candles \union {open} /\ open \notin candles
      /\ writerZone' = writerZone /\ readerZone' = readerZone /\ history' = history
  BY DEF CandleOpens
<1>2. KlineTypeOK'
  BY <1>1 DEF KlineInv, KlineTypeOK
<1>3. /\ Before(history.cursor) \subseteq Before(history.cursor)'
      /\ Before(history.cursor)' \subseteq Before(history.cursor) \union {open}
  BY <1>1 DEF Before, RowTime
<1>4. CursorSplits'
  BY <1>1, <1>3 DEF KlineInv, CursorSplits
<1>5. KlineWalkExact'
  BY <1>1 DEF KlineInv, KlineWalkExact
<1> QED
  BY <1>2, <1>4, <1>5 DEF KlineInv

LEMMA HistoryStartsHolds ==
  ASSUME KlineInv, NEW limit \in Limits, HistoryStarts(limit) PROVE KlineInv'
<1> DEFINE n == EffectiveLimit(limit)
           h == [NoHistory EXCEPT !.state = "on", !.old = candles, !.limit = n]
<1>1. /\ candles' = candles /\ candles \subseteq Opens
      /\ writerZone' = writerZone /\ readerZone' = readerZone /\ history' = h
  BY DEF KlineInv, KlineTypeOK, HistoryStarts
<1>2. n \in Nat
  BY LimitType, KlineAssumption
<1> HIDE DEF n
<1>3. /\ h \in History /\ h.state = "on" /\ h.old = candles /\ h.seen = {} /\ h.cursor = {}
      /\ h.twice = FALSE
  BY <1>1, <1>2, NoHistoryType DEF NoHistory, History
<1> HIDE DEF h
<1>4. KlineTypeOK'
  BY <1>1, <1>3 DEF KlineInv, KlineTypeOK
<1>5. Before(history.cursor)' = candles
  BY <1>1, <1>3 DEF Before
<1>6. CursorSplits'
  BY <1>1, <1>3, <1>5 DEF CursorSplits
<1>7. KlineWalkExact'
  BY <1>1, <1>3 DEF KlineWalkExact
<1> QED
  BY <1>4, <1>6, <1>7 DEF KlineInv

LEMMA CursorDamagedHolds == ASSUME KlineInv, CursorDamaged PROVE KlineInv'
<1> DEFINE h == [history EXCEPT !.cursor = {}, !.damaged = TRUE]
<1>1. /\ candles' = candles /\ writerZone' = writerZone /\ readerZone' = readerZone
      /\ history' = h /\ history.state = "on" /\ history \in History
  BY DEF KlineInv, KlineTypeOK, CursorDamaged
<1>2. /\ h \in History /\ h.state = "on" /\ h.old = history.old /\ h.seen = history.seen
      /\ h.cursor = {} /\ h.damaged = TRUE
  BY <1>1 DEF History
<1> HIDE DEF h
<1>3. KlineTypeOK'
  BY <1>1, <1>2 DEF KlineInv, KlineTypeOK
<1>4. Before(history.cursor)' = candles
  BY <1>1, <1>2 DEF Before
<1>5. CursorSplits'
  BY <1>1, <1>2, <1>4 DEF KlineInv, CursorSplits
<1>6. KlineWalkExact'
  BY <1>1, <1>2 DEF KlineWalkExact
<1> QED
  BY <1>3, <1>5, <1>6 DEF KlineInv

LEMMA HistoryPageHolds == ASSUME KlineInv, HistoryPage PROVE KlineInv'
<1>1. /\ candles' = candles /\ candles \subseteq Opens
      /\ writerZone' = writerZone /\ readerZone' = readerZone
      /\ history.state = "on" /\ history \in History
  BY DEF KlineInv, KlineTypeOK, HistoryPage
<1>2. PICK items \in SUBSET Before(history.cursor) :
          /\ items # {} /\ Latest(items, Before(history.cursor))
          /\ history' = [history EXCEPT !.cursor = NextCursor(items),
                                        !.seen = @ \union items,
                                        !.twice = @ \/ items \intersect history.seen # {}]
  BY DEF HistoryPage
<1> DEFINE next == NextCursor(items)
           again == history.twice \/ items \intersect history.seen # {}
           h == [history EXCEPT !.cursor = next, !.seen = history.seen \union items,
                                !.twice = again]
<1>3. history' = h
  BY <1>2
<1>4. items \in SUBSET Opens /\ items \subseteq candles /\ history.cursor \in SUBSET Int
  BY <1>1 DEF Before, History
<1>5. next \subseteq Int
  BY <1>4, CursorType DEF KlineInv
<1>6. /\ Before(history.cursor) \ items \subseteq Before(next)
      /\ Before(next) \subseteq Before(history.cursor)
      /\ items \intersect Before(next) = {}
  BY <1>2, <1>4, CursorMoves DEF KlineInv
<1>7. again \in BOOLEAN
  BY <1>1, Zenon DEF History
<1> HIDE DEF next, again
<1>8. /\ h \in History /\ h.state = "on" /\ h.old = history.old /\ h.cursor = next
      /\ h.seen = history.seen \union items /\ h.damaged = history.damaged /\ h.twice = again
  BY <1>1, <1>4, <1>5, <1>7 DEF History
<1> HIDE DEF h
<1>9. KlineTypeOK'
  BY <1>1, <1>3, <1>8 DEF KlineInv, KlineTypeOK
<1>10. Before(history.cursor)' = Before(next)
  BY <1>1, <1>3, <1>8 DEF Before, RowTime
<1>11. CursorSplits'
  BY <1>1, <1>3, <1>4, <1>6, <1>8, <1>10 DEF KlineInv, CursorSplits
<1>12. again => history.damaged
  BY <1>1, <1>2 DEF KlineInv, CursorSplits, KlineWalkExact, again
<1>13. KlineWalkExact'
  BY <1>3, <1>8, <1>12 DEF KlineWalkExact
<1> QED
  BY <1>9, <1>11, <1>13 DEF KlineInv

LEMMA HistoryEndsHolds == ASSUME KlineInv, HistoryEnds PROVE KlineInv'
<1> DEFINE left == Before(history.cursor) # {}
           h == [history EXCEPT !.state = "done", !.failed = left]
<1>1. /\ candles' = candles /\ writerZone' = writerZone /\ readerZone' = readerZone
      /\ history' = h /\ history.state = "on" /\ history \in History
  BY DEF KlineInv, KlineTypeOK, HistoryEnds
<1>2. left \in BOOLEAN
  OBVIOUS
<1>3. ~left => history.old \subseteq history.seen
  BY <1>1 DEF KlineInv, CursorSplits
<1> HIDE DEF left
<1>4. /\ h \in History /\ h.state = "done" /\ h.old = history.old /\ h.seen = history.seen
      /\ h.failed = left /\ h.twice = history.twice /\ h.damaged = history.damaged
  BY <1>1, <1>2 DEF History
<1> HIDE DEF h
<1>5. KlineTypeOK'
  BY <1>1, <1>4 DEF KlineInv, KlineTypeOK
<1>6. CursorSplits'
  BY <1>1, <1>4 DEF CursorSplits
<1>7. KlineWalkExact'
  BY <1>1, <1>3, <1>4 DEF KlineInv, KlineWalkExact
<1> QED
  BY <1>5, <1>6, <1>7 DEF KlineInv

-----------------------------------------------------------------------------

LEMMA KlineInitHolds == KlineInit => KlineInv
<1> SUFFICES ASSUME KlineInit PROVE KlineInv
  OBVIOUS
<1>1. /\ candles = {} /\ writerZone \in Zones /\ readerZone \in Zones /\ history = NoHistory
      /\ NoHistory.state = "off" /\ NoHistory.twice = FALSE
  BY DEF KlineInit, NoHistory
<1> QED
  BY <1>1, NoHistoryType DEF KlineInv, KlineTypeOK, CursorSplits, KlineWalkExact

LEMMA KlineNextHolds == KlineInv /\ [KlineNext]_klineVars => KlineInv'
<1> SUFFICES ASSUME KlineInv, [KlineNext]_klineVars PROVE KlineInv'
  OBVIOUS
<1>1. ASSUME NEW open \in Opens, CandleOpens(open) PROVE KlineInv'
  BY <1>1, CandleOpensHolds
<1>2. ASSUME NEW limit \in Limits, HistoryStarts(limit) PROVE KlineInv'
  BY <1>2, HistoryStartsHolds
<1>3. CASE CursorDamaged
  BY <1>3, CursorDamagedHolds
<1>4. CASE HistoryPage
  BY <1>4, HistoryPageHolds
<1>5. CASE HistoryEnds
  BY <1>5, HistoryEndsHolds
<1>6. CASE UNCHANGED klineVars
  <2>1. /\ candles' = candles /\ writerZone' = writerZone /\ readerZone' = readerZone
        /\ history' = history
    BY <1>6 DEF klineVars
  <2> QED
    BY <2>1 DEF KlineInv, KlineTypeOK, CursorSplits, KlineWalkExact, Before, RowTime
<1> QED
  BY <1>1, <1>2, <1>3, <1>4, <1>5, <1>6 DEF KlineNext

LEMMA RangeFollows == KlineTypeOK => KlineRangeExact
<1> SUFFICES ASSUME KlineTypeOK, writerZone = readerZone,
                    NEW from \in Opens, NEW to \in Opens, NEW o \in candles
             PROVE  /\ from + readerZone <= RowTime(o) <=> from <= o
                    /\ RowTime(o) <= to + readerZone <=> o <= to
  BY DEF KlineRangeExact, RowsInRange
<1> QED
  BY KlineAssumption DEF KlineTypeOK, RowTime

-----------------------------------------------------------------------------

\* The inductive invariant holds in every reachable state.
THEOREM KlineInvariant == KlineSpec => []KlineInv
<1> QED
  BY KlineInitHolds, KlineNextHolds, PTL DEF KlineSpec

\* The candles, zones and walks always have their types.
THEOREM KlineTypeCorrect == KlineSpec => []KlineTypeOK
<1>1. KlineInv => KlineTypeOK
  BY DEF KlineInv
<1> QED
  BY <1>1, KlineInvariant, PTL

\* A client that walks to the end has seen every candle there was when it
\* began, unless a query failed, and none twice, unless a cursor was damaged.
THEOREM WalksAreExact == KlineSpec => []KlineWalkExact
<1>1. KlineInv => KlineWalkExact
  BY DEF KlineInv
<1> QED
  BY <1>1, KlineInvariant, PTL

\* A range has the candles that open in it, if both processes run in one zone.
THEOREM RangesAreExact == KlineSpec => []KlineRangeExact
<1> QED
  BY RangeFollows, KlineTypeCorrect, PTL

-----------------------------------------------------------------------------
(* List of tokens.                                                         *)

\* Tokens that are listed before t, whatever the order of ties.
Newer(t) == {u \in Rows : created[u] > created[t]}

\* An unseen token without a tie has at least the pages passed before it.
OwedIsAhead ==
    walk.state = "on" =>
        \A t \in walk.old \ walk.seen :
            Tied(t) \/ Cardinality(Newer(t)) >= (walk.page - 1) * walk.size

ReadInv ==
    /\ ReadTypeOK /\ Len(created) <= MaxTokens
    /\ walk.old \subseteq Rows /\ walk.page >= 1
    /\ OwedIsAhead /\ MissNeedsTie

-----------------------------------------------------------------------------

LEMMA SmallModulus == ASSUME NEW a \in Nat, NEW b \in Nat, a < b PROVE a % b = a
OBVIOUS

LEMMA NoWrap == ASSUME NEW x \in 0 .. MaxInt PROVE AsInt(x) = x
<1> DEFINE a == x + MaxInt + 1
           b == 2 * (MaxInt + 1)
<1>1. a \in Nat /\ b \in Nat /\ a < b /\ a - (MaxInt + 1) = x
  BY TokenReadsAssumption
<1>2. AsInt(x) = (a % b) - (MaxInt + 1)
  BY DEF AsInt
<1> HIDE DEF a, b
<1>3. a % b = a
  BY <1>1, SmallModulus
<1> QED
  BY <1>1, <1>2, <1>3

LEMMA RowsFinite ==
  ASSUME created \in Seq(Nat)
  PROVE  IsFiniteSet(Rows) /\ Cardinality(Rows) = Len(created) /\ Len(created) \in Nat
<1>1. PICK n \in Nat : n = Len(created)
  OBVIOUS
<1>2. IsFiniteSet(1 .. n)
  BY FS_Interval
<1>3. Cardinality(1 .. n) = IF 1 > n THEN 0 ELSE n - 1 + 1
  BY FS_Interval
<1>4. Cardinality(1 .. n) = n
  BY <1>3
<1> QED
  BY <1>1, <1>2, <1>4 DEF Rows

LEMMA OfRows ==
  ASSUME created \in Seq(Nat), NEW S \in SUBSET Rows
  PROVE  IsFiniteSet(S) /\ Cardinality(S) \in Nat /\ Cardinality(S) <= Len(created)
         /\ (Cardinality(S) = Len(created) => S = Rows)
BY RowsFinite, FS_Subset, FS_CardinalityType

\* The page of an untied token that was not answered: the rows skipped and
\* answered are all newer, and there are as many as asked for.
LEMMA PageIsNewer ==
  ASSUME created \in Seq(Nat), Len(created) <= MaxTokens,
         NEW size \in Nat \ {0}, NEW x \in Nat, NEW before \in SUBSET Rows,
         NEW items \in SUBSET Rows, NEW offset \in Nat, offset = AsInt(x),
         IsPage(before, items, offset, size),
         NEW t \in Rows, t \notin items, ~Tied(t), Cardinality(Newer(t)) >= x
  PROVE  Cardinality(items) = size /\ Cardinality(Newer(t)) >= x + size
<1>1. Newer(t) \in SUBSET Rows
  BY DEF Newer
<1>2. x \in 0 .. MaxInt
  <2>1. Cardinality(Newer(t)) \in Nat /\ Cardinality(Newer(t)) <= Len(created)
    BY <1>1, OfRows
  <2> QED
    BY <2>1, RowsFinite, TokenReadsAssumption
<1>3. offset = x
  BY <1>2, NoWrap
<1>4. \A u \in Rows : created[u] \in Nat
  BY SMTT(20) DEF Rows
<1>5. Cardinality(before) = IF x <= Len(created) THEN x ELSE Len(created)
  BY <1>3 DEF IsPage
<1>6. t \notin before
  <2> SUFFICES ASSUME t \in before PROVE FALSE
    OBVIOUS
  <2>1. Newer(t) \subseteq before
    BY <1>4 DEF Newer, IsPage
  <2>2. t \notin Newer(t)
    BY <1>4 DEF Newer
  <2>3. Cardinality(Newer(t) \union {t}) = Cardinality(Newer(t)) + 1
    BY <1>1, <2>2, OfRows, FS_AddElement
  <2>4. Cardinality(Newer(t) \union {t}) <= Cardinality(before)
    BY <2>1, OfRows, FS_Subset
  <2>5. Cardinality(Newer(t)) \in Nat /\ Cardinality(before) \in Nat /\ Len(created) \in Nat
    BY <1>1, OfRows, RowsFinite
  <2>6. Cardinality(before) <= x
    BY <1>5, <2>5
  <2> QED
    BY <2>3, <2>4, <2>5, <2>6
<1>7. before # Rows
  BY <1>6
<1>8. Cardinality(before) = x
  BY <1>5, <1>7, OfRows
<1>9. before \union items \subseteq Newer(t)
  <2>1. \A u \in before \union items : created[u] >= created[t]
    BY <1>6 DEF IsPage
  <2>2. \A u \in before \union items : u # t /\ u \in Rows
    BY <1>6
  <2> QED
    BY <1>4, <2>1, <2>2 DEF Newer, Tied
<1>10. Cardinality(items) = size
  BY <1>6 DEF IsPage
<1>11. Cardinality(before \union items) = x + size
  <2>1. before \intersect items = {}
    BY DEF IsPage
  <2>2. Cardinality(before \intersect items) = 0
    BY <2>1, FS_EmptySet
  <2>3. IsFiniteSet(before) /\ IsFiniteSet(items)
    BY OfRows
  <2>4. Cardinality(before \union items)
          = Cardinality(before) + Cardinality(items) - Cardinality(before \intersect items)
    BY <2>3, FS_Union
  <2> QED
    BY <1>8, <1>10, <2>2, <2>4
<1>12. Cardinality(before \union items) <= Cardinality(Newer(t))
  BY <1>1, <1>9, OfRows, FS_Subset
<1> QED
  BY <1>10, <1>11, <1>12

-----------------------------------------------------------------------------

LEMMA WalkTypes ==
  ASSUME ReadTypeOK
  PROVE  /\ created \in Seq(Nat) /\ walk \in Walk
         /\ walk.size \in Nat \ {0} /\ walk.page \in Nat /\ walk.state \in States
         /\ \A t \in Rows : created[t] \in Nat
BY TokenReadsAssumption DEF ReadTypeOK, Walk, PageSizes, Rows

LEMMA OffType == Off \in Walk
BY TokenReadsAssumption DEF Off, Walk, States, PageSizes

\* Whatever is inserted, ties stay and no token gets fewer newer ones.
LEMMA ReadInsertHolds ==
  ASSUME ReadInv, NEW time \in 0 .. MaxCreated, Insert(time) PROVE ReadInv'
<1>1. /\ created \in Seq(Nat) /\ walk' = walk /\ walk \in Walk
      /\ created' = Append(created, time) /\ time \in Nat /\ Len(created) < MaxTokens
  BY TokenReadsAssumption DEF ReadInv, ReadTypeOK, Insert
<1>2. /\ created' \in Seq(Nat) /\ Len(created') = Len(created) + 1 /\ Len(created) \in Nat
      /\ \A t \in 1 .. Len(created) : created'[t] = created[t]
  BY <1>1
<1>3. Rows \subseteq Rows' /\ \A t \in Rows : created'[t] = created[t]
  BY <1>2 DEF Rows
<1>4. ReadTypeOK' /\ Len(created)' <= MaxTokens
  BY <1>1, <1>2, TokenReadsAssumption DEF ReadTypeOK
<1>5. \A t \in Rows : Tied(t) => Tied(t)'
  BY <1>3 DEF Tied
<1>6. IsFiniteSet(Rows')
  <2>1. PICK n \in Nat : n = Len(created')
    BY <1>2
  <2>2. Rows' = 1 .. n
    BY <2>1 DEF Rows
  <2> QED
    BY <2>2, FS_Interval
<1>7. \A t \in Rows : Cardinality(Newer(t)) <= Cardinality(Newer(t)')
  <2> SUFFICES ASSUME NEW t \in Rows PROVE Cardinality(Newer(t)) <= Cardinality(Newer(t)')
    OBVIOUS
  <2>1. Newer(t) \subseteq Newer(t)' /\ Newer(t)' \subseteq Rows'
    BY <1>3 DEF Newer
  <2>2. IsFiniteSet(Newer(t)')
    BY <1>6, <2>1, FS_Subset
  <2> QED
    BY <2>1, <2>2, FS_Subset
<1>8. OwedIsAhead'
  <2> SUFFICES ASSUME walk.state = "on", NEW t \in walk.old \ walk.seen, ~Tied(t)'
               PROVE  Cardinality(Newer(t)') >= (walk.page - 1) * walk.size
    BY <1>1 DEF OwedIsAhead
  <2>1. t \in Rows
    BY DEF ReadInv
  <2>2. Cardinality(Newer(t)) >= (walk.page - 1) * walk.size
    BY <1>5, <2>1 DEF ReadInv, OwedIsAhead
  <2>3. Cardinality(Newer(t)) \in Nat /\ Newer(t)' \in SUBSET Rows'
    BY <1>1, OfRows DEF Newer
  <2>4. Cardinality(Newer(t)') \in Nat
    BY <1>6, <2>3, FS_Subset, FS_CardinalityType
  <2>5. walk.page \in Nat /\ walk.size \in Nat
    BY WalkTypes DEF ReadInv
  <2>6. (walk.page - 1) * walk.size \in Int
    BY <2>5
  <2> QED
    BY <1>7, <2>1, <2>2, <2>3, <2>4, <2>6
<1>9. MissNeedsTie'
  BY <1>1, <1>5 DEF ReadInv, MissNeedsTie
<1>10. walk'.old \subseteq Rows' /\ walk'.page >= 1
  BY <1>1, <1>3 DEF ReadInv
<1> QED
  BY <1>4, <1>8, <1>9, <1>10 DEF ReadInv

LEMMA WalkStartsHolds == ASSUME ReadInv, NEW size \in PageSizes, WalkStarts(size) PROVE ReadInv'
<1> DEFINE w == [Off EXCEPT !.state = "on", !.size = size, !.old = Rows]
<1>1. created' = created /\ walk' = w
  BY DEF WalkStarts
<1>2. Rows \subseteq Nat /\ size \in PageSizes /\ PageSizes \subseteq Nat
  BY TokenReadsAssumption DEF Rows, PageSizes
<1>3. Off.page = 1 /\ Off.seen = {} /\ Off \in Walk
  BY OffType DEF Off
<1>4. /\ w \in Walk /\ w.state = "on" /\ w.page = 1 /\ w.old = Rows /\ w.size \in Nat
  BY <1>2, <1>3 DEF Walk, States
<1> HIDE DEF w
<1>5. ReadTypeOK' /\ Rows' = Rows
  BY <1>1, <1>4 DEF ReadInv, ReadTypeOK, Rows
<1>6. OwedIsAhead'
  <2> SUFFICES ASSUME NEW t \in Rows PROVE Cardinality(Newer(t)') >= (w.page - 1) * w.size
    BY <1>1, <1>4 DEF OwedIsAhead
  <2>1. Newer(t)' = Newer(t) /\ Newer(t) \in SUBSET Rows
    BY <1>1, <1>5 DEF Newer
  <2>2. Cardinality(Newer(t)) \in Nat
    BY <2>1, WalkTypes, OfRows DEF ReadInv
  <2>3. (w.page - 1) * w.size = 0
    BY <1>4
  <2> QED
    BY <2>1, <2>2, <2>3
<1>7. MissNeedsTie'
  BY <1>1, <1>4 DEF MissNeedsTie
<1> QED
  BY <1>1, <1>4, <1>5, <1>6, <1>7 DEF ReadInv

\* What a page that may be answered to the walk's next request is.
LEMMA PageAnswered ==
  ASSUME ReadInv, walk.state = "on",
         NEW page \in ReaderPages(Offset(walk.page, walk.size), walk.size),
         NEW before \in SUBSET Rows, NEW items \in SUBSET Rows,
         IsPage(before, items, (page - 1) * walk.size, walk.size),
         NEW t \in walk.old \ (walk.seen \union items), ~Tied(t)
  PROVE  /\ Cardinality(items) = walk.size
         /\ Cardinality(Newer(t)) >= walk.page * walk.size
<1> DEFINE x == (walk.page - 1) * walk.size
           offset == (page - 1) * walk.size
<1>1. walk.size \in Nat \ {0} /\ walk.page \in Nat \ {0} /\ t \in Rows /\ t \notin items
  BY WalkTypes DEF ReadInv
<1>2. x \in Nat /\ x + walk.size = walk.page * walk.size
  BY <1>1
<1>3. page \in Nat \ {0} /\ offset = AsInt(x)
  BY TokenReadsAssumption DEF ReaderPages, Offset
<1>4. offset \in Nat
  BY <1>1, <1>3
<1>5. Cardinality(Newer(t)) >= x
  BY DEF ReadInv, OwedIsAhead
<1>6. created \in Seq(Nat) /\ Len(created) <= MaxTokens
  BY DEF ReadInv, ReadTypeOK
<1> HIDE DEF x
<1>7. IsPage(before, items, offset, walk.size)
  OBVIOUS
<1> HIDE DEF offset
<1>8. Cardinality(items) = walk.size /\ Cardinality(Newer(t)) >= x + walk.size
  BY <1>1, <1>2, <1>3, <1>4, <1>5, <1>6, <1>7, PageIsNewer
<1> QED
  BY <1>2, <1>8

LEMMA WalkPageHolds == ASSUME ReadInv, FullPage \/ LastPage PROVE ReadInv'
<1>1. created' = created /\ walk.state = "on"
  BY DEF FullPage, LastPage
<1>2. PICK page \in ReaderPages(Offset(walk.page, walk.size), walk.size),
           before \in SUBSET Rows, items \in SUBSET Rows :
          /\ IsPage(before, items, (page - 1) * walk.size, walk.size)
          /\ \/ walk' = [walk EXCEPT !.page = @ + 1, !.seen = @ \union items]
             \/ /\ Cardinality(items) < walk.size
                /\ walk' = [walk EXCEPT !.state = "done", !.seen = @ \union items]
  BY DEF FullPage, LastPage
<1>3. /\ walk \in Walk /\ walk.size \in Nat \ {0} /\ walk.page \in Nat /\ walk.page >= 1
      /\ items \subseteq Nat
  BY WalkTypes DEF ReadInv, Rows
<1>4. /\ walk' \in Walk /\ walk'.old = walk.old /\ walk'.seen = walk.seen \union items
      /\ walk'.size = walk.size
      /\ \/ walk'.state = "on" /\ walk'.page = walk.page + 1
         \/ walk'.state = "done" /\ walk'.page = walk.page /\ Cardinality(items) < walk.size
  <2> DEFINE on == [walk EXCEPT !.page = walk.page + 1, !.seen = walk.seen \union items]
             done == [walk EXCEPT !.state = "done", !.seen = walk.seen \union items]
  <2>0. walk.page + 1 \in Nat
    BY <1>3
  <2>1. /\ on \in Walk /\ on.old = walk.old /\ on.seen = walk.seen \union items
        /\ on.size = walk.size /\ on.state = walk.state /\ on.page = walk.page + 1
    BY <1>3, <2>0 DEF Walk
  <2>2. /\ done \in Walk /\ done.old = walk.old /\ done.seen = walk.seen \union items
        /\ done.size = walk.size /\ done.state = "done" /\ done.page = walk.page
    BY <1>3 DEF Walk, States
  <2>3. walk' = on \/ (Cardinality(items) < walk.size /\ walk' = done)
    BY <1>2
  <2> HIDE DEF on, done
  <2> QED
    BY <1>1, <2>1, <2>2, <2>3
<1>5. Rows' = Rows /\ \A t \in Rows : (Tied(t) <=> Tied(t)') /\ Newer(t)' = Newer(t)
  BY <1>1 DEF Rows, Tied, Newer
<1>6. ReadTypeOK' /\ Len(created)' <= MaxTokens
  BY <1>1, <1>4 DEF ReadInv, ReadTypeOK
<1>7. ASSUME NEW t \in walk.old \ (walk.seen \union items), ~Tied(t)
      PROVE  /\ Cardinality(items) = walk.size
             /\ Cardinality(Newer(t)) >= walk.page * walk.size
  BY <1>1, <1>2, <1>7, PageAnswered
<1>8. OwedIsAhead'
  <2> SUFFICES ASSUME walk'.state = "on", NEW t \in walk'.old \ walk'.seen, ~Tied(t)'
               PROVE  Cardinality(Newer(t)') >= (walk'.page - 1) * walk'.size
    BY DEF OwedIsAhead
  <2>1. t \in Rows /\ ~Tied(t) /\ Newer(t)' = Newer(t)
    BY <1>4, <1>5 DEF ReadInv
  <2>2. Cardinality(Newer(t)) >= walk.page * walk.size
    BY <1>4, <1>7, <2>1
  <2>3. walk'.page - 1 = walk.page
    BY <1>3, <1>4
  <2> QED
    BY <1>4, <2>1, <2>2, <2>3
<1>9. MissNeedsTie'
  <2> SUFFICES ASSUME walk'.state = "done", NEW t \in walk'.old \ walk'.seen, ~Tied(t)'
               PROVE  FALSE
    BY DEF MissNeedsTie
  <2>1. t \in Rows /\ ~Tied(t) /\ Cardinality(items) < walk.size
    BY <1>4, <1>5 DEF ReadInv
  <2>2. Cardinality(items) = walk.size
    BY <1>4, <1>7, <2>1
  <2> QED
    BY <1>3, <2>1, <2>2
<1>10. walk'.old \subseteq Rows' /\ walk'.page >= 1
  BY <1>3, <1>4, <1>5 DEF ReadInv
<1> QED
  BY <1>6, <1>8, <1>9, <1>10 DEF ReadInv

-----------------------------------------------------------------------------

LEMMA ReadInitHolds == ReadInit => ReadInv
<1> SUFFICES ASSUME ReadInit PROVE ReadInv
  OBVIOUS
<1>1. /\ created = << >> /\ walk = Off /\ Off.state = "off" /\ Off.old = {} /\ Off.page = 1
  BY DEF ReadInit, Off
<1>2. ReadTypeOK
  BY <1>1, OffType DEF ReadTypeOK
<1> QED
  BY <1>1, <1>2, TokenReadsAssumption DEF ReadInv, OwedIsAhead, MissNeedsTie

LEMMA ReadNextHolds == ReadInv /\ [ReadNext]_readVars => ReadInv'
<1> SUFFICES ASSUME ReadInv, [ReadNext]_readVars PROVE ReadInv'
  OBVIOUS
<1>1. ASSUME NEW time \in 0 .. MaxCreated, Insert(time) PROVE ReadInv'
  BY <1>1, ReadInsertHolds
<1>2. ASSUME NEW size \in PageSizes, WalkStarts(size) PROVE ReadInv'
  BY <1>2, WalkStartsHolds
<1>3. CASE FullPage \/ LastPage
  BY <1>3, WalkPageHolds
<1>4. CASE UNCHANGED readVars
  <2>1. created' = created /\ walk' = walk
    BY <1>4 DEF readVars
  <2> QED
    BY <2>1 DEF ReadInv, ReadTypeOK, OwedIsAhead, MissNeedsTie, Tied, Newer, Rows
<1> QED
  BY <1>1, <1>2, <1>3, <1>4 DEF ReadNext

-----------------------------------------------------------------------------

\* The inductive invariant holds in every reachable state.
THEOREM ReadInvariant == ReadSpec => []ReadInv
<1> QED
  BY ReadInitHolds, ReadNextHolds, PTL DEF ReadSpec

\* The rows and the walk always have their types.
THEOREM ReadTypeCorrect == ReadSpec => []ReadTypeOK
<1>1. ReadInv => ReadTypeOK
  BY DEF ReadInv
<1> QED
  BY <1>1, ReadInvariant, PTL

\* A client that walks the list to its end misses only tokens created in the
\* same second as another.
THEOREM MissesNeedTies == ReadSpec => []MissNeedsTie
<1>1. ReadInv => MissNeedsTie
  BY DEF ReadInv
<1> QED
  BY <1>1, ReadInvariant, PTL

-----------------------------------------------------------------------------
(* The pages of the legacy lists: the inductive invariant and its steps.   *)

\* A request reads one of the lists; its total is the number of rows that match
\* unless rows moved since it was counted.
CountFits ==
    \A r \in request :
        /\ r.list \in Lists
        /\ r.at = "list" /\ ~r.moved => r.total = matching

ListInv == ListTypeOK /\ CountFits /\ PageFitsTotal

\* The lists and the routes without rows are routes, and no route is both.
LEMMA ListsAreRoutes ==
  /\ Lists \subseteq Routes
  /\ EmptyPages \union EmptyFirstPages \subseteq Routes
  /\ Lists \intersect (EmptyPages \union EmptyFirstPages) = {}
  /\ "/comment/list" \notin EmptyPages \union EmptyFirstPages
<1>1. /\ DefaultingLists \subseteq PublicRoutes
      /\ PlainLists \subseteq PublicRoutes
  BY DEF DefaultingLists, PlainLists, PublicRoutes
<1>2. Lists \subseteq Routes
  BY <1>1 DEF Lists, Routes
<1>3. /\ MyLists \subseteq Routes /\ Rankings \subseteq Routes /\ LaunchLists \subseteq Routes
      /\ ProfileLists \subseteq Routes /\ "/back/agent-descendant-stats" \in Routes
  BY DEF MyLists, Rankings, LaunchLists, ProfileLists, Routes, PublicRoutes, WalletRoutes,
         ActivityRoutes
<1>4. EmptyPages \union EmptyFirstPages \subseteq Routes
  BY <1>3 DEF EmptyPages, EmptyFirstPages
<1>5. \A route \in EmptyPages \union EmptyFirstPages :
         route \notin DefaultingLists /\ route \notin PlainLists
  BY DEF EmptyPages, EmptyFirstPages, MyLists, Rankings, LaunchLists, ProfileLists,
         DefaultingLists, PlainLists
<1>6. "/comment/list" \in PlainLists
  BY DEF PlainLists
<1> QED
  BY <1>2, <1>4, <1>5, <1>6 DEF Lists

\* NewPageResponse rounds up: the pages hold all rows, and one page less does not.
LEMMA PagesHoldTotal ==
  ASSUME NEW total \in Nat, NEW size \in Int, size # 0
  PROVE  /\ TotalPages(total, size) \in Int
         /\ size > 0 => /\ TotalPages(total, size) * size >= total
                        /\ (TotalPages(total, size) - 1) * size < total
<1> DEFINE q == Quotient(total, size)
<1>1. q \in Int
  BY SMT DEF Quotient
<1>2. size > 0 => q * size <= total /\ total < (q + 1) * size
  BY SMT DEF Quotient
<1>3. TotalPages(total, size) = IF total - q * size > 0 THEN q + 1 ELSE q
  BY DEF TotalPages
<1> HIDE DEF q
<1>4. TotalPages(total, size) \in Int
  BY <1>1, <1>3
<1>5. ASSUME size > 0
      PROVE  /\ TotalPages(total, size) * size >= total
             /\ (TotalPages(total, size) - 1) * size < total
  <2>1. q * size \in Int /\ (q + 1) * size = q * size + size /\ (q - 1) * size = q * size - size
    BY <1>1
  <2>2. CASE total - q * size > 0
    <3>1. TotalPages(total, size) = q + 1 /\ (q + 1) - 1 = q
      BY <1>1, <1>3, <2>2
    <3> QED
      BY <1>1, <1>2, <1>5, <2>1, <2>2, <3>1
  <2>3. CASE ~(total - q * size > 0)
    <3>1. TotalPages(total, size) = q
      BY <1>3, <2>3
    <3> QED
      BY <1>1, <1>2, <1>5, <2>1, <2>3, <3>1
  <2> QED
    BY <2>2, <2>3
<1> QED
  BY <1>4, <1>5

\* The fields of a request, and the page it is taken for.
LEMMA PageTypes ==
  ASSUME NEW r \in Request
  PROVE  /\ r.list \in Routes /\ r.size \in Int /\ r.total \in Nat
         /\ LengthOf(r) \in Int /\ LimitOf(r) \in Int /\ OffsetOf(r) \in Int
<1>1. r.list \in Routes /\ r.size \in Int /\ r.page \in Int /\ r.total \in Nat
  BY DEF Request
<1>2. PageOf(r) \in Int
  BY <1>1 DEF PageOf
<1>3. LengthOf(r) \in Int
  BY <1>1, ListsAssumption DEF ListsAssumption, LengthOf
<1>4. OffsetOf(r) \in Int
  BY <1>2, <1>3 DEF OffsetOf
<1>5. LimitOf(r) \in Int
  BY <1>3 DEF LimitOf
<1> QED
  BY <1>1, <1>3, <1>4, <1>5

\* LIMIT and OFFSET take a number of rows.
LEMMA TakenType ==
  ASSUME NEW rows \in Nat, NEW limit \in Nat, NEW offset \in Nat
  PROVE  Taken(rows, limit, offset) \in Nat
BY DEF Taken

\* A list of comments that asks for one row more than the page has the page and
\* knows whether there are more.
LEMMA OneMoreTells ==
  ASSUME NEW rows \in Nat, NEW length \in Nat, NEW offset \in Nat
  PROVE  LET asked == Taken(rows, length + 1, offset)
             page == Taken(rows, length, offset)
         IN  /\ page = IF asked > length THEN length ELSE asked
             /\ asked > length <=> rows > offset + page
BY DEF Taken

\* An answer has its type.
LEMMA AnswersType ==
  ASSUME NEW r \in Request, NEW code \in {200, 401, 500}, NEW rows \in Nat, NEW cut \in BOOLEAN,
         Answers(r, code, rows, cut)
  PROVE  /\ reply' \subseteq Reply
         /\ \A result \in reply' : result.request = r /\ result.cut = cut
         /\ \A result \in reply' : result.code = 200 => code = 200
<1> DEFINE more == code = 200 /\ r.list = "/comment/list" /\ rows > LengthOf(r)
           divides == code = 200 /\ r.list \in PagedRoutes
           panics == (divides /\ r.size = 0) \/ (more /\ LengthOf(r) < 0)
           size == IF panics THEN 0 ELSE IF more THEN LengthOf(r) ELSE rows
           pages == IF divides /\ ~panics THEN TotalPages(r.total, r.size) ELSE 0
           result == [request |-> r, code |-> IF panics THEN 500 ELSE code, cut |-> cut,
                      size |-> size, hasMore |-> more /\ ~panics, pages |-> pages]
<1>1. reply' = {result}
  BY DEF Answers
<1>2. size \in Nat
  BY PageTypes
<1>3. pages \in Int
  BY PageTypes, PagesHoldTotal
<1>4. (more /\ ~panics) \in BOOLEAN
  OBVIOUS
<1> HIDE DEF more, size, pages
<1>5. result \in Reply
  BY <1>2, <1>3, <1>4 DEF Reply
<1>6. result.request = r /\ result.cut = cut /\ (result.code = 200 => code = 200)
  OBVIOUS
<1> HIDE DEF result
<1> QED
  BY <1>1, <1>5, <1>6

\* A page of a list whose rows did not move.
LEMMA ListedFits ==
  ASSUME ListInv, NEW r \in request, r.at = "list", StatementIsValid(r),
         NEW left \in 0 .. matching, ~r.before => left = matching,
         Answers(r, 200, Taken(left, LimitOf(r), OffsetOf(r)), FALSE)
  PROVE  PageFitsTotal'
<1> DEFINE length == LengthOf(r)
           offset == OffsetOf(r)
           rows == Taken(left, LimitOf(r), offset)
           more == r.list = "/comment/list" /\ rows > length
           divides == r.list \in PagedRoutes
           panics == (divides /\ r.size = 0) \/ (more /\ length < 0)
           size == IF panics THEN 0 ELSE IF more THEN length ELSE rows
           pages == IF divides /\ ~panics THEN TotalPages(r.total, r.size) ELSE 0
           result == [request |-> r, code |-> IF panics THEN 500 ELSE 200, cut |-> FALSE,
                      size |-> size, hasMore |-> more /\ ~panics, pages |-> pages]
<1>1. reply' = {result}
  BY DEF Answers
<1>2. r \in Request /\ matching \in Nat
  BY DEF ListInv, ListTypeOK
<1>3. /\ r.size \in Int /\ r.total \in Nat /\ length \in Int /\ offset \in Nat
      /\ LimitOf(r) \in Nat /\ left \in Nat
  BY <1>2, PageTypes DEF StatementIsValid
<1>4. LimitOf(r) = IF r.list = "/comment/list" THEN length + 1 ELSE length
  BY DEF LimitOf
<1>5. rows \in Nat
  BY <1>3, TakenType
<1>6. ASSUME result.code = 200, ~r.moved, ~r.before
      PROVE  /\ result.size = Taken(r.total, length, offset)
             /\ r.list = "/comment/list" => result.hasMore = (r.total > offset + result.size)
             /\ divides /\ r.size > 0 => /\ result.pages * r.size >= r.total
                                         /\ (result.pages - 1) * r.size < r.total
  <2>1. left = r.total
    BY <1>6 DEF ListInv, CountFits
  <2>2. ~panics
    BY <1>6
  <2>3. result.size = (IF more THEN length ELSE rows) /\ result.hasMore = more
    BY <2>2
  <2>4. result.pages = IF divides THEN TotalPages(r.total, r.size) ELSE 0
    BY <2>2
  <2> HIDE DEF result
  <2>5. CASE r.list = "/comment/list"
    <3>1. length \in Nat
      <4>1. length >= -1
        BY <1>3, <1>4, <2>5
      <4>2. more <=> rows > length
        BY <2>5
      <4> HIDE DEF more, rows
      <4> QED
        BY <1>3, <1>5, <2>2, <4>1, <4>2
    <3>2. /\ Taken(left, length, offset) = IF rows > length THEN length ELSE rows
          /\ rows > length <=> left > offset + Taken(left, length, offset)
      BY <1>3, <1>4, <2>5, <3>1, OneMoreTells
    <3>3. more <=> rows > length
      BY <2>5
    <3> HIDE DEF rows, length, offset
    <3>4. result.size = Taken(r.total, length, offset)
      BY <2>1, <2>3, <3>2, <3>3
    <3>5. result.hasMore = (r.total > offset + result.size)
      <4>1. rows > length <=> r.total > offset + result.size
        BY <2>1, <3>2, <3>4
      <4>2. result.hasMore = (rows > length)
        BY <2>3, <3>3
      <4> QED
        BY <4>1, <4>2
    <3>6. ~divides
      BY <2>5 DEF PagedRoutes, DefaultingLists, EmptyPages, EmptyFirstPages, MyLists, Rankings,
                  LaunchLists, ProfileLists
    <3> QED
      BY <3>4, <3>5, <3>6
  <2>6. CASE r.list # "/comment/list"
    <3>1. result.size = Taken(r.total, length, offset)
      BY <1>4, <2>1, <2>3, <2>6
    <3>2. divides /\ r.size > 0 => /\ result.pages * r.size >= r.total
                                   /\ (result.pages - 1) * r.size < r.total
      BY <1>3, <2>4, PagesHoldTotal
    <3> QED
      BY <2>6, <3>1, <3>2
  <2> QED
    BY <2>5, <2>6
<1>7. result.request = r
  OBVIOUS
<1> HIDE DEF result
<1> QED
  BY <1>1, <1>6, <1>7 DEF PageFitsTotal

\* Other answers of lists: a query that was cut off, and an error.
LEMMA CutOffFits ==
  ASSUME NEW r \in Request, NEW rows \in Nat, Answers(r, 200, rows, TRUE)
  PROVE  reply' \subseteq Reply /\ PageFitsTotal'
<1> DEFINE yes == TRUE
<1>1. yes \in BOOLEAN /\ Answers(r, 200, rows, yes)
  OBVIOUS
<1> HIDE DEF yes
<1>2. reply' \subseteq Reply /\ \A result \in reply' : result.request = r /\ result.cut = yes
  BY <1>1, AnswersType
<1> QED
  BY <1>2 DEF PageFitsTotal, yes

\* An error has no page.
LEMMA ErrorFits ==
  ASSUME NEW r \in Request, NEW code \in {401, 500}, NEW cut \in BOOLEAN,
         Answers(r, code, 0, cut)
  PROVE  reply' \subseteq Reply /\ PageFitsTotal'
<1>1. reply' \subseteq Reply /\ \A result \in reply' : result.code = 200 => code = 200
  BY AnswersType
<1> QED
  BY <1>1 DEF PageFitsTotal

\* A request before its first statement.
LEMMA AskedType ==
  ASSUME NEW route \in Routes, NEW page \in Int, NEW size \in Int
  PROVE  Asked(route, page, size) \in Request
BY DEF Asked, Request

\* A route without rows has no page, whatever the size.
LEMMA EmptyAnsweredFits ==
  ASSUME NEW route \in EmptyPages \union EmptyFirstPages, NEW page \in Int, NEW size \in Int,
         NEW code \in {200, 401}, NEW r, r = Asked(route, page, size),
         NEW cut \in BOOLEAN, Answers(r, code, 0, cut)
  PROVE  PageFitsTotal'
<1> DEFINE divides == code = 200 /\ r.list \in PagedRoutes
           panics == divides /\ r.size = 0
           pages == IF divides /\ ~panics THEN TotalPages(r.total, r.size) ELSE 0
           result == [request |-> r, code |-> IF panics THEN 500 ELSE code, cut |-> cut,
                      size |-> 0, hasMore |-> FALSE, pages |-> pages]
<1>1. r.list = route /\ r.size = size /\ r.total = 0
  BY DEF Asked
<1>2. r.list \notin Lists /\ r.list # "/comment/list"
  BY <1>1, ListsAreRoutes
<1>3. reply' = {result}
  BY <1>2 DEF Answers
<1>4. result.code = 200 /\ r.list \in PagedRoutes /\ r.size > 0 =>
         result.pages * r.size >= r.total /\ (result.pages - 1) * r.size < r.total
  <2> SUFFICES ASSUME result.code = 200, r.list \in PagedRoutes, r.size > 0
               PROVE  result.pages * r.size >= r.total /\ (result.pages - 1) * r.size < r.total
    OBVIOUS
  <2>1. code = 200 /\ ~panics
    OBVIOUS
  <2>2. result.pages = TotalPages(r.total, r.size)
    BY <2>1
  <2> HIDE DEF result
  <2> QED
    BY <1>1, <2>2, PagesHoldTotal
<1>5. result.request = r
  OBVIOUS
<1> HIDE DEF result
<1> QED
  BY <1>2, <1>3, <1>4, <1>5 DEF PageFitsTotal

\* There is no request and no answer at first.
LEMMA ListInitial == ListInit => ListInv
BY DEF ListInit, ListInv, ListTypeOK, CountFits, PageFitsTotal

\* What the invariant says of types.
LEMMA ListTypes ==
  ListInv => request \subseteq Request /\ reply \subseteq Reply /\ matching \in Nat
BY DEF ListInv, ListTypeOK

\* A row comes or goes.
LEMMA RowsMoveStep ==
  ASSUME ListInv, NEW rows \in 0 .. MaxMatching, RowsMove(rows)
  PROVE  ListInv'
<1>1. /\ matching' \in Nat /\ reply' = reply
      /\ request' = {[r EXCEPT !.moved = @ \/ r.at = "list"] : r \in request}
  BY ListsAssumption DEF ListsAssumption, RowsMove
<1>2. ASSUME NEW s \in request'
      PROVE  s \in Request /\ s.list \in Lists /\ (s.at = "list" => s.moved)
  <2>1. PICK r \in request : s = [r EXCEPT !.moved = @ \/ r.at = "list"]
    BY <1>1
  <2>2. r \in Request /\ r.list \in Lists
    BY ListTypes DEF ListInv, CountFits
  <2> QED
    BY <2>1, <2>2 DEF Request
<1> QED
  BY <1>1, <1>2 DEF ListInv, ListTypeOK, CountFits, PageFitsTotal

\* A list is asked for.
LEMMA ListAskedStep ==
  ASSUME ListInv, NEW list \in Lists, NEW page \in PageNumbers, NEW size \in PageLengths,
         NEW before \in BOOLEAN, NEW order \in {"none", "known", "unknown"},
         NEW descending \in BOOLEAN, ListAsked(list, page, size, before, order, descending)
  PROVE  ListInv'
<1> DEFINE r == [Asked(list, page, size) EXCEPT !.before = before, !.order = order,
                                                !.descending = descending]
<1>1. request' = {r} /\ reply' = {} /\ matching' = matching
  BY DEF ListAsked
<1>2. page \in Int /\ size \in Int /\ list \in Routes
  BY ListsAssumption, ListsAreRoutes DEF ListsAssumption
<1>3. r \in Request /\ r.list = list /\ r.at = "count"
  BY <1>2 DEF Asked, Request
<1> HIDE DEF r
<1> QED
  BY ListTypes, <1>1, <1>3 DEF ListInv, ListTypeOK, CountFits, PageFitsTotal

\* Its rows are counted.
LEMMA CountedStep ==
  ASSUME ListInv, Counted
  PROVE  ListInv'
<1>1. PICK r \in request : /\ request' = {[r EXCEPT !.at = "list", !.total = matching]}
                           /\ matching' = matching /\ reply' = reply
  BY DEF Counted
<1> DEFINE s == [r EXCEPT !.at = "list", !.total = matching]
<1>2. s \in Request /\ s.list = r.list /\ s.total = matching
  BY ListTypes DEF Request
<1> HIDE DEF s
<1>3. request' = {s}
  BY <1>1 DEF s
<1> QED
  BY ListTypes, <1>1, <1>2, <1>3 DEF ListInv, ListTypeOK, CountFits, PageFitsTotal

\* An answer that fits ends the request.
LEMMA ListAnswered ==
  ASSUME ListInv, reply' \subseteq Reply, PageFitsTotal', request' = {}, matching' = matching
  PROVE  ListInv'
BY DEF ListInv, ListTypeOK, CountFits

\* The page is read.
LEMMA ListedStep ==
  ASSUME ListInv, Listed
  PROVE  ListInv'
<1>1. PICK r \in request, left \in 0 .. matching :
        /\ r.at = "list" /\ StatementIsValid(r)
        /\ ~r.before => left = matching
        /\ Answers(r, 200, Taken(left, LimitOf(r), OffsetOf(r)), FALSE)
        /\ request' = {} /\ matching' = matching
  BY DEF Listed
<1>2. PageFitsTotal'
  BY <1>1, ListedFits
<1>3. LimitOf(r) \in Nat /\ OffsetOf(r) \in Nat /\ left \in Nat
  BY ListTypes, <1>1, PageTypes DEF StatementIsValid
<1>4. Taken(left, LimitOf(r), OffsetOf(r)) \in Nat
  BY <1>3, TakenType
<1> DEFINE no == FALSE
<1>5. no \in BOOLEAN /\ Answers(r, 200, Taken(left, LimitOf(r), OffsetOf(r)), no)
  BY <1>1
<1> HIDE DEF no
<1>6. reply' \subseteq Reply
  BY ListTypes, <1>4, <1>5, AnswersType
<1> QED
  BY ListAnswered, <1>1, <1>2, <1>6

\* The page is cut off.
LEMMA ListedCutOffStep ==
  ASSUME ListInv, ListedCutOff
  PROVE  ListInv'
<1>1. PICK r \in request, rows \in 0 .. matching :
        Answers(r, 200, rows, TRUE) /\ request' = {} /\ matching' = matching
  BY DEF ListedCutOff
<1>2. rows \in Nat /\ r \in Request
  BY ListTypes
<1> QED
  BY ListAnswered, <1>1, <1>2, CutOffFits

\* A statement fails.
LEMMA ListFailsStep ==
  ASSUME ListInv, ListFails
  PROVE  ListInv'
<1> DEFINE no == FALSE
<1>1. PICK r \in request : Answers(r, 500, 0, no) /\ request' = {} /\ matching' = matching
  BY DEF ListFails
<1>2. r \in Request /\ 500 \in {401, 500} /\ no \in BOOLEAN
  BY ListTypes
<1> HIDE DEF no
<1>3. reply' \subseteq Reply /\ PageFitsTotal'
  BY <1>1, <1>2, ErrorFits
<1> QED
  BY ListAnswered, <1>1, <1>3

\* A route without rows.
LEMMA EmptyAnsweredStep ==
  ASSUME ListInv, NEW route \in EmptyPages \union EmptyFirstPages, NEW verified \in BOOLEAN,
         NEW page \in PageNumbers \union {1}, NEW size \in PageLengths \union {DefaultLength},
         EmptyAnswered(route, page, size, verified)
  PROVE  ListInv'
<1> DEFINE code == IF Reaches(route, verified) THEN 200 ELSE 401
<1>1. /\ Answers(Asked(route, page, size), code, 0, FALSE)
      /\ request' = request /\ matching' = matching
  BY DEF EmptyAnswered
<1>2. code \in {200, 401} /\ page \in Int /\ size \in Int /\ route \in Routes
  BY ListsAssumption, ListsAreRoutes DEF ListsAssumption
<1> HIDE DEF code
<1> DEFINE r == Asked(route, page, size)
           no == FALSE
<1>3. r \in Request
  BY <1>2, AskedType
<1>4. no \in BOOLEAN /\ Answers(r, code, 0, no)
  BY <1>1
<1>5. r = Asked(route, page, size)
  OBVIOUS
<1> HIDE DEF r, no
<1>6. reply' \subseteq Reply
  BY <1>2, <1>3, <1>4, AnswersType
<1>7. PageFitsTotal'
  BY <1>2, <1>4, <1>5, EmptyAnsweredFits
<1> QED
  BY ListTypes, <1>1, <1>6, <1>7 DEF ListInv, ListTypeOK, CountFits

\* Or without a user.
LEMMA MyFavoriteTokensStep ==
  ASSUME ListInv, MyFavoriteTokens
  PROVE  ListInv'
<1> DEFINE r == Asked("/token/my-favorite-tokens", 1, DefaultLength)
           no == FALSE
<1>1. Answers(r, 401, 0, no) /\ no \in BOOLEAN /\ request' = request /\ matching' = matching
  BY DEF MyFavoriteTokens
<1>2. r \in Request
  <2>1. "/token/my-favorite-tokens" \in Routes
    BY DEF Routes, WalletRoutes
  <2> QED
    BY <2>1, AskedType, ListsAssumption DEF ListsAssumption
<1> HIDE DEF r, no
<1> QED
  BY ListTypes, <1>1, <1>2, ErrorFits DEF ListInv, ListTypeOK, CountFits

\* Every step keeps the invariant.
LEMMA ListStep ==
  ASSUME ListInv, [ListNext]_listVars
  PROVE  ListInv'
<1>1. CASE ReplySent
  BY <1>1 DEF ReplySent, ListInv, ListTypeOK, CountFits, PageFitsTotal
<1>2. CASE UNCHANGED listVars
  BY <1>2 DEF listVars, ListInv, ListTypeOK, CountFits, PageFitsTotal
<1> QED
  BY <1>1, <1>2, RowsMoveStep, ListAskedStep, CountedStep, ListedStep, ListedCutOffStep,
     ListFailsStep, EmptyAnsweredStep, MyFavoriteTokensStep DEF ListNext

\* Between its two statements a request keeps the number of rows that it counted, and
\* answers that number with a page that fits unless rows moved in between.
\* Code: the COUNT and the SELECT of the list handlers, and NewPageResponse.
THEOREM ListInvariant == ListSpec => []ListInv
<1>1. ListInv /\ [ListNext]_listVars => ListInv'
  BY ListStep
<1> QED
  BY <1>1, ListInitial, PTL DEF ListSpec

\* The request, the answer and the rows keep their types.
\* Code: the list handlers of the legacy API, and NewPageResponse.
THEOREM ListTypeCorrect == ListSpec => []ListTypeOK
<1>1. ListInv => ListTypeOK
  BY DEF ListInv
<1> QED
  BY <1>1, ListInvariant, PTL

\* A page has the rows of its total that are left behind its offset, hasMore tells
\* whether others follow, and with a size above 0 the page before the last is not the
\* end, for any page numbers, lengths and numbers of rows.
\* Code: the COUNT and the SELECT of the list handlers, and NewPageResponse.
THEOREM PagesFitTheirTotals == ListSpec => []PageFitsTotal
<1>1. ListInv => PageFitsTotal
  BY DEF ListInv
<1> QED
  BY <1>1, ListInvariant, PTL

=============================================================================
