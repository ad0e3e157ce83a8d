---------------------------- MODULE TokenCreation ----------------------------
(***************************************************************************)
(* Creating a token with the rebuilt services: the REST API (cmd/api)      *)
(* calls token-creation-service over gRPC, which signs an intent and       *)
(* stores it.  Both processes start, drain, stop and get killed meanwhile. *)
(*                                                                         *)
(* The API opens its database pool and dials three services under one      *)
(* deadline of five seconds, closes what it opened when a step fails, and  *)
(* on a signal waits at most five seconds for requests before it closes.   *)
(* The service stops gracefully, or cuts its handlers off after five       *)
(* seconds.  The deadlines are timers that may fire at any moment.         *)
(*                                                                         *)
(* Only the API's connection to token-creation-service is used; the other  *)
(* two services are up or down as seen by the dial.  Logins are the        *)
(* requests that use the API's pool.                                       *)
(***************************************************************************)
EXTENDS Integers

CONSTANTS
    Attempts,       \* requests for POST /api/v1/token/create, retries included
    MaxFailures     \* bound: processes killed, connections broken, answers lost

ASSUME TokenCreationAssumption == MaxFailures \in Nat

VARIABLES
    api,            \* where the API process is
    open,           \* what the API process has open
    query,          \* a login is querying the database through the API's pool
    service,        \* where token-creation-service is
    attempts,       \* the requests
    hurt,           \* history: requests something went wrong with
    failures        \* failures so far

vars == <<api, open, query, service, attempts, hurt, failures>>
apiVars == <<api, open, query>>

\* In the order in which New opens them.  The Redis client connects when it is
\* first used and is closed with the pool.
Resources == {"pool", "tokens", "creation", "uploads"}
Following == [pool |-> "tokens", tokens |-> "creation", creation |-> "uploads", uploads |-> "serving"]

ApiSteps == Resources \union {"down", "serving", "draining", "closing", "closing pool", "exiting"}
ServiceSteps == {"down", "pool", "listen", "serving", "draining", "closing"}

Attempt == [
    client    : {"none", "waiting", "ok", "error", "gone", "lost"},    \* what the client knows
    api       : {"none", "request", "rpc", "over"},                    \* the handler of httpapi
    rpc       : {"none", "sent", "served", "ok", "error"},             \* the call between the two
    handler   : {"none", "create", "insert", "over"},                  \* the handler of grpcapi
    statement : {"none", "running", "stored", "refused"}]              \* the INSERT

InApi == {a \in Attempts : attempts[a].api \in {"request", "rpc"}}
InService == {a \in Attempts : attempts[a].handler \in {"create", "insert"}}
RpcOpen(a) == attempts[a].rpc \in {"sent", "served"}
Stored(a) == attempts[a].statement = "stored"

Init ==
    /\ api = "down"
    /\ open = {}
    /\ query = FALSE
    /\ service = "down"
    /\ attempts = [a \in Attempts |-> [client |-> "none", api |-> "none", rpc |-> "none",
                                       handler |-> "none", statement |-> "none"]]
    /\ hurt = {}
    /\ failures = 0

Fails ==
    /\ failures < MaxFailures
    /\ failures' = failures + 1

\* An open call ends with an error; its handler, if any, is cancelled.
Broken(t) == IF t.rpc \in {"sent", "served"} THEN [t EXCEPT !.rpc = "error"] ELSE t

Break(S) == attempts' = [a \in Attempts |-> IF a \in S THEN Broken(attempts[a]) ELSE attempts[a]]

-----------------------------------------------------------------------------
(* The API process.                                                        *)

\* Mutant: the connection added last is not closed.
Closes_NotUploads == {"pool", "tokens", "creation"}

\* What Application.Close closes.
Closes == {"tokens", "creation", "uploads", "pool"}

ApiMoves(from, to) == api = from /\ api' = to

ApiStarts ==
    /\ ApiMoves("down", "pool")
    /\ UNCHANGED <<open, query, service, attempts, hurt, failures>>

\* Mutant: the API serves without its third connection.
ApiOpens_Early ==
    /\ api \in Resources
    /\ api = "creation" => service = "serving"
    /\ open' = open \union {api}
    /\ api' = IF api = "creation" THEN "serving" ELSE Following[api]
    /\ UNCHANGED <<query, service, attempts, hurt, failures>>

\* The pool answers a ping, or a service accepts the dial and is healthy.
ApiOpens ==
    /\ api \in Resources
    /\ api = "creation" => service = "serving"
    /\ open' = open \union {api}
    /\ api' = Following[api]
    /\ UNCHANGED <<query, service, attempts, hurt, failures>>

\* An error or the deadline ends New.  (A signal ends the process: ApiKilled.)
ApiStartFails ==
    /\ api \in Resources
    /\ open' = open \ Closes
    /\ api' = "exiting"
    /\ UNCHANGED <<query, service, attempts, hurt, failures>>

\* A signal, or an error of ListenAndServe.
ApiSignal ==
    /\ ApiMoves("serving", "draining")
    /\ UNCHANGED <<open, query, service, attempts, hurt, failures>>

\* server.Shutdown returns: no request is left.
ApiDrained ==
    /\ ApiMoves("draining", "closing")
    /\ InApi = {} /\ ~query
    /\ UNCHANGED <<open, query, service, attempts, hurt, failures>>

\* Mutant: Shutdown gets a context without a deadline.
ApiTimer_Never ==
    /\ InApi = {} /\ ~query
    /\ ApiMoves("draining", "closing")
    /\ UNCHANGED <<open, query, service, attempts, hurt, failures>>

\* server.Shutdown gives up; the requests go on.
ApiTimer ==
    /\ ApiMoves("draining", "closing")
    /\ hurt' = hurt \union InApi
    /\ UNCHANGED <<open, query, service, attempts, failures>>

\* Close, first half: the connections, with the calls on them.
ApiClosesConnections ==
    /\ ApiMoves("closing", "closing pool")
    /\ open' = open \ (Closes \ {"pool"})
    /\ Break({a \in Attempts : RpcOpen(a)})
    /\ UNCHANGED <<query, service, hurt, failures>>

\* Close, second half: the pool, which waits for the queries that use it.
ApiClosesPool ==
    /\ ApiMoves("closing pool", "exiting")
    /\ ~query
    /\ open' = open \ Closes
    /\ UNCHANGED <<query, service, attempts, hurt, failures>>

\* The process ends, with its requests, connections and calls.
ApiEnds ==
    /\ api' = "down"
    /\ open' = {}
    /\ query' = FALSE
    /\ attempts' = [a \in Attempts |->
         IF a \in InApi
         THEN [Broken(attempts[a]) EXCEPT !.api = "over",
                                          !.client = IF @ = "waiting" THEN "lost" ELSE @]
         ELSE attempts[a]]

ApiExits ==
    /\ api = "exiting"
    /\ ApiEnds
    /\ UNCHANGED <<service, hurt, failures>>

ApiKilled ==
    /\ api # "down"
    /\ Fails
    /\ ApiEnds
    /\ hurt' = hurt \union InApi
    /\ UNCHANGED service

\* A login reads or writes users; Shutdown does not cancel it.
QueryBegins ==
    /\ api = "serving" /\ ~query
    /\ query' = TRUE
    /\ UNCHANGED <<api, open, service, attempts, hurt, failures>>

QueryEnds ==
    /\ query
    /\ query' = FALSE
    /\ UNCHANGED <<api, open, service, attempts, hurt, failures>>

-----------------------------------------------------------------------------
(* The process of token-creation-service.                                  *)

ServiceMoves(from, to) == service = from /\ service' = to

ServiceStarts ==
    /\ \/ ServiceMoves("down", "pool")
       \/ ServiceMoves("pool", "listen")
       \/ ServiceMoves("listen", "serving")
    /\ UNCHANGED <<apiVars, attempts, hurt, failures>>

\* log.Fatalf in main.
ServiceStartFails ==
    /\ ServiceMoves("pool", "down") \/ ServiceMoves("listen", "down")
    /\ UNCHANGED <<apiVars, attempts, hurt, failures>>

\* A signal, or an error of Serve.
ServiceSignal ==
    /\ ServiceMoves("serving", "draining")
    /\ UNCHANGED <<apiVars, attempts, hurt, failures>>

\* Mutant: main calls Stop.
ServiceDrained_AtOnce ==
    /\ ServiceMoves("draining", "closing")
    /\ Break(InService)
    /\ UNCHANGED <<apiVars, hurt, failures>>

\* GracefulStop returns: no handler is left.
ServiceDrained ==
    /\ ServiceMoves("draining", "closing")
    /\ InService = {}
    /\ UNCHANGED <<apiVars, attempts, hurt, failures>>

\* The timer of gracefulStop: Stop breaks the calls and cancels their handlers.
ServiceTimer ==
    /\ ServiceMoves("draining", "closing")
    /\ Break(InService)
    /\ hurt' = hurt \union InService
    /\ UNCHANGED <<apiVars, failures>>

\* The process ends, with its handlers; the server goes on with their statements.
ServiceEnds ==
    /\ service' = "down"
    /\ attempts' = [a \in Attempts |->
         IF a \in InService THEN [Broken(attempts[a]) EXCEPT !.handler = "over"] ELSE attempts[a]]

\* The deferred pool.Close waits for the statements in use, then main returns.
ServiceExits ==
    /\ service = "closing"
    /\ \A a \in Attempts : attempts[a].handler # "insert"
    /\ ServiceEnds
    /\ UNCHANGED <<apiVars, hurt, failures>>

ServiceKilled ==
    /\ service # "down"
    /\ Fails
    /\ ServiceEnds
    /\ hurt' = hurt \union InService
    /\ UNCHANGED apiVars

-----------------------------------------------------------------------------
(* A request.                                                              *)

Updates(a, t) == attempts' = [attempts EXCEPT ![a] = t]

Send(a) ==
    /\ api = "serving"
    /\ attempts[a].client = "none"
    /\ Updates(a, [attempts[a] EXCEPT !.client = "waiting", !.api = "request"])
    /\ UNCHANGED <<apiVars, service, hurt, failures>>

\* What the client is told; a client that left is told nothing.
Told(t, answer) == [t EXCEPT !.api = "over", !.client = IF @ = "waiting" THEN answer ELSE @]

\* createToken of httpapi refuses the method, the bearer token or the body.
Refuse(a) ==
    /\ attempts[a].api = "request"
    /\ Updates(a, Told(attempts[a], "error"))
    /\ UNCHANGED <<apiVars, service, hurt, failures>>

\* The API calls the service.
Call(a) ==
    /\ attempts[a].api = "request"
    /\ Updates(a, [attempts[a] EXCEPT !.api = "rpc",
                                       !.rpc = IF "creation" \in open THEN "sent" ELSE "error"])
    /\ UNCHANGED <<apiVars, service, hurt, failures>>

Accept(a) ==
    /\ attempts[a].rpc = "sent"
    /\ service = "serving"
    /\ Updates(a, [attempts[a] EXCEPT !.rpc = "served", !.handler = "create"])
    /\ UNCHANGED <<apiVars, service, hurt, failures>>

\* No connection, or one that is being drained; grpc does not call again.
Unavailable(a) ==
    /\ attempts[a].rpc = "sent"
    /\ service # "serving"
    /\ Updates(a, Broken(attempts[a]))
    /\ UNCHANGED <<apiVars, service, hurt, failures>>

\* The connection breaks.
Disconnect(a) ==
    /\ RpcOpen(a)
    /\ Fails
    /\ Break({a})
    /\ hurt' = hurt \union {a}
    /\ UNCHANGED <<apiVars, service>>

\* The handler of the service returns.
Returned(t, answer) == [t EXCEPT !.handler = "over", !.rpc = IF @ = "served" THEN answer ELSE @]

\* The bearer token or the request is refused, or signing fails.
Reject(a) ==
    /\ attempts[a].handler = "create"
    /\ Updates(a, Returned(attempts[a], "error"))
    /\ UNCHANGED <<apiVars, service, hurt, failures>>

\* The signed intent is on its way to the database.  A handler may not have
\* noticed that its call is over; but a closed pool gives it no connection.
Insert(a) ==
    /\ attempts[a].handler = "create"
    /\ service # "closing"
    /\ Updates(a, [attempts[a] EXCEPT !.handler = "insert", !.statement = "running"])
    /\ UNCHANGED <<apiVars, service, hurt, failures>>

Settle(a) ==
    /\ attempts[a].statement = "running"
    /\ \E outcome \in {"stored", "refused"} :
          Updates(a, [attempts[a] EXCEPT !.statement = outcome])
    /\ UNCHANGED <<apiVars, service, hurt, failures>>

\* Mutant: the error of the INSERT is ignored.
Answer_IgnoresError(a) ==
    /\ attempts[a].handler = "insert"
    /\ attempts[a].statement \in {"stored", "refused"}
    /\ Updates(a, Returned(attempts[a], "ok"))
    /\ UNCHANGED <<apiVars, service, hurt, failures>>

\* Exec returns and the service answers.
Answer(a) ==
    /\ attempts[a].handler = "insert"
    /\ attempts[a].statement \in {"stored", "refused"}
    /\ Updates(a, Returned(attempts[a], IF Stored(a) THEN "ok" ELSE "error"))
    /\ UNCHANGED <<apiVars, service, hurt, failures>>

\* The database's answer is lost: the intent may be stored all the same.
AnswerLost(a) ==
    /\ attempts[a].handler = "insert"
    /\ Fails
    /\ Updates(a, Returned(attempts[a], "error"))
    /\ hurt' = hurt \union {a}
    /\ UNCHANGED <<apiVars, service>>

\* Mutant: Exec gets a context of its own.
GiveUp_NotInExec(a) ==
    /\ attempts[a].handler = "create"
    /\ attempts[a].rpc = "error"
    /\ Updates(a, Returned(attempts[a], "error"))
    /\ UNCHANGED <<apiVars, service, hurt, failures>>

\* A cancelled handler returns, also from Exec.
GiveUp(a) ==
    /\ a \in InService
    /\ attempts[a].rpc = "error"
    /\ Updates(a, Returned(attempts[a], "error"))
    /\ UNCHANGED <<apiVars, service, hurt, failures>>

\* The API answers its client.
Reply(a) ==
    /\ attempts[a].api = "rpc"
    /\ attempts[a].rpc \in {"ok", "error"}
    /\ Updates(a, Told(attempts[a], attempts[a].rpc))
    /\ UNCHANGED <<apiVars, service, hurt, failures>>

\* The client disconnects.
Leave(a) ==
    /\ attempts[a].client = "waiting"
    /\ Updates(a, [attempts[a] EXCEPT !.client = "gone"])
    /\ hurt' = hurt \union {a}
    /\ UNCHANGED <<apiVars, service, failures>>

\* The server of the API notices: the request's context ends the call.
Cancel(a) ==
    /\ attempts[a].client = "gone"
    /\ RpcOpen(a)
    /\ Updates(a, Broken(attempts[a]))
    /\ UNCHANGED <<apiVars, service, hurt, failures>>

ApiProcess ==
    \/ ApiStarts \/ ApiOpens \/ ApiStartFails
    \/ ApiSignal \/ ApiDrained \/ ApiTimer
    \/ ApiClosesConnections \/ ApiClosesPool \/ ApiExits \/ ApiKilled
    \/ QueryBegins \/ QueryEnds

ServiceProcess ==
    \/ ServiceStarts \/ ServiceStartFails
    \/ ServiceSignal \/ ServiceDrained \/ ServiceTimer \/ ServiceExits \/ ServiceKilled

Request(a) ==
    \/ Send(a) \/ Refuse(a) \/ Call(a) \/ Accept(a) \/ Unavailable(a) \/ Disconnect(a)
    \/ Reject(a) \/ Insert(a) \/ Settle(a) \/ Answer(a) \/ AnswerLost(a) \/ GiveUp(a)
    \/ Reply(a) \/ Leave(a) \/ Cancel(a)

Next == ApiProcess \/ ServiceProcess \/ \E a \in Attempts : Request(a)

\* The processes run, their timers fire, and the users table answers a login.
\* Nothing is assumed of the database of the service.
Fairness ==
    /\ WF_vars(ApiTimer) /\ WF_vars(ApiClosesConnections)
    /\ WF_vars(ApiClosesPool) /\ WF_vars(ApiExits) /\ WF_vars(QueryEnds)
    /\ WF_vars(ServiceTimer) /\ WF_vars(ServiceExits)
    /\ \A a \in Attempts : WF_vars(GiveUp(a))

Spec == Init /\ [][Next]_vars

FairSpec == Spec /\ Fairness

-----------------------------------------------------------------------------
(* Properties.                                                             *)

\* Every variable has its type, a process that serves has what it needs, and
\* one that is down has nothing.
\* Code: New, Application.Close and the mains.
TypeOK ==
    /\ api \in ApiSteps
    /\ open \subseteq Resources
    /\ query \in BOOLEAN
    /\ service \in ServiceSteps
    /\ attempts \in [Attempts -> Attempt]
    /\ hurt \subseteq Attempts
    /\ failures \in 0..MaxFailures
    /\ api \in {"serving", "draining"} => open = Resources
    /\ api = "down" => open = {} /\ InApi = {} /\ ~query
    /\ service = "down" => InService = {}

\* A client that was given a signed intent finds it stored, whichever process
\* is stopped or killed on the way.
\* Code: Create returns the response only after store.Create did.
AnsweredIsStored == \A a \in Attempts : attempts[a].client = "ok" => Stored(a)

\* A client is told of an error, or of nothing, while its intent is stored only
\* if something hit its own request: it left, a process was killed, a
\* connection broke, or a drain ran out of time.  A drain in time never does it.
\* Code: gracefulStop, server.Shutdown and the order of the statements in main.
StoredErrorNeedsCause ==
    \A a \in Attempts :
        attempts[a].client \in {"error", "lost"} /\ Stored(a) => a \in hurt

\* When New gave up or main is about to return, nothing is left open.
\* Code: Application.Close, called on every error path of New and deferred.
ClosedBeforeExit == api = "exiting" => open = {}

\* A signalled service ends, even if its database never answers again.
\* Code: Stop cancels the handlers, and their context reaches Exec.
ServiceShutdownEnds == service = "draining" ~> service = "down"

\* A signalled API ends, even if the service never answers, provided the
\* queries of logins return.
\* Code: the deadline of Shutdown, and Close of the connections before the pool.
ApiShutdownEnds == api = "draining" ~> api = "down"

=============================================================================
