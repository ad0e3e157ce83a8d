------------------------- MODULE TokenCreation_proofs -------------------------
(***************************************************************************)
(* What TokenCreation promises a client, and what its processes leave      *)
(* open, for any number of requests and failures.                          *)
(***************************************************************************)
EXTENDS TokenCreation, TLAPS

InHandler(t) == t.api \in {"request", "rpc"}
Served(t) == t.handler \in {"create", "insert"}

\* An intent may be, or become, stored.
Pending(t) == Served(t) \/ t.statement \in {"running", "stored"}

\* How far the parts of a request can be apart.
PartsAgree(t) ==
    /\ t.client = "none" => t.api = "none"
    /\ t.client \in {"ok", "error", "lost"} => t.api = "over"
    /\ t.api \in {"none", "request"} => t.rpc = "none"
    /\ t.rpc \in {"sent", "served"} => t.api = "rpc"
    /\ t.rpc \in {"none", "sent"} => t.handler = "none"
    /\ t.rpc = "served" => Served(t)
    /\ t.handler \in {"none", "create"} => t.statement = "none"

\* A call that succeeded left its intent stored.
OkIsStored(t) == t.rpc = "ok" \/ t.client = "ok" => t.statement = "stored"

\* A call failed while its intent may be stored, or its client left.
NeedsCause(t) ==
    \/ t.client = "gone"
    \/ Pending(t) /\ (t.rpc = "error" \/ t.client \in {"error", "lost"})

RequestOK(a, t, H) ==
    /\ t \in Attempt
    /\ PartsAgree(t)
    /\ OkIsStored(t)
    /\ NeedsCause(t) => a \in H

RequestsOK == \A a \in Attempts : RequestOK(a, attempts[a], hurt)

\* Who is left after a drain was hurt by its timer.
DrainsHurt ==
    /\ api \in {"closing", "closing pool", "exiting"} => InApi \subseteq hurt
    /\ service = "closing" => InService \subseteq hurt

\* What is open at each step of the API, and who is served at each step.
OpenAtStep ==
    /\ api \in {"down", "pool", "exiting"} => open = {}
    /\ api = "tokens" => open = {"pool"}
    /\ api = "creation" => open = {"pool", "tokens"}
    /\ api = "uploads" => open = {"pool", "tokens", "creation"}
    /\ api = "closing" => open = Resources
    /\ api = "closing pool" => open = {"pool"}
    /\ api \in Resources => InApi = {} /\ ~query
    /\ service \in {"pool", "listen"} => InService = {}

IInv ==
    /\ TypeOK
    /\ RequestsOK
    /\ DrainsHurt
    /\ OpenAtStep

-----------------------------------------------------------------------------

\* The invariant holds before anything is started.
LEMMA InitInv == Init => IInv
<1> SUFFICES ASSUME Init PROVE IInv
    OBVIOUS
<1>1. attempts \in [Attempts -> Attempt]
    BY DEF Init, Attempt
<1>2. InApi = {} /\ InService = {}
    BY DEF Init, InApi, InService
<1>3. /\ api = "down" /\ open = {} /\ service = "down" /\ hurt = {}
      /\ query \in BOOLEAN /\ ~query
  <2>1. query \in BOOLEAN
      BY Zenon DEF Init
  <2> QED
      BY <2>1 DEF Init
<1>7. failures \in 0..MaxFailures
    BY TokenCreationAssumption DEF Init
<1>4. TypeOK
    BY <1>1, <1>2, <1>3, <1>7 DEF TypeOK, ApiSteps, ServiceSteps, Resources
<1>5. RequestsOK
    BY <1>1 DEF Init, RequestsOK, RequestOK, PartsAgree, OkIsStored, NeedsCause, Pending, Served
<1>6. DrainsHurt /\ OpenAtStep
    BY <1>2, <1>3 DEF DrainsHurt, OpenAtStep, Resources
<1> QED
    BY <1>4, <1>5, <1>6 DEF IInv

\* What a step of one request may do to the processes: nothing, but count a
\* failure, and it enters a handler only where the process serves.
LEMMA RequestFrame ==
    ASSUME NEW a \in Attempts, NEW t, IInv,
           Updates(a, t),
           RequestOK(a, t, hurt'),
           UNCHANGED <<apiVars, service>>,
           hurt' \in {hurt, hurt \union {a}},
           UNCHANGED failures \/ Fails,
           InHandler(t) => InHandler(attempts[a]) \/ api = "serving",
           Served(t) => Served(attempts[a]) \/ service = "serving"
    PROVE  IInv'
<1> USE DEF IInv, TypeOK
<1>1. attempts' \in [Attempts -> Attempt]
    BY DEF Updates, RequestOK
<1>2. hurt \subseteq hurt' /\ hurt' \subseteq Attempts
    OBVIOUS
<1>3. failures' \in 0..MaxFailures
    BY TokenCreationAssumption DEF Fails
<1>4. api # "serving" => InApi' \subseteq InApi
    BY <1>1 DEF InApi, InHandler, Updates
<1>5. service # "serving" => InService' \subseteq InService
    BY <1>1 DEF InService, Served, Updates
<1>6. TypeOK'
    BY <1>1, <1>2, <1>3, <1>4, <1>5 DEF apiVars
<1>7. RequestsOK'
  <2> SUFFICES ASSUME NEW b \in Attempts PROVE RequestOK(b, attempts'[b], hurt')
      BY DEF RequestsOK
  <2>1. CASE b = a
      BY <2>1 DEF Updates
  <2>2. CASE b # a
    <3>1. attempts'[b] = attempts[b]
        BY <2>2 DEF Updates
    <3>2. RequestOK(b, attempts[b], hurt)
        BY DEF RequestsOK
    <3> QED
        BY <3>1, <3>2, <1>2 DEF RequestOK
  <2> QED
      BY <2>1, <2>2
<1>8. DrainsHurt' /\ OpenAtStep'
    BY <1>2, <1>4, <1>5 DEF DrainsHurt, OpenAtStep, apiVars, Resources
<1> QED
    BY <1>6, <1>7, <1>8

\* A step of a request preserves the invariant.
\* Code: createToken, the two adapters and Service.Create.
LEMMA RequestInv ==
    ASSUME NEW a \in Attempts, IInv, Request(a)
    PROVE  IInv'
<1> DEFINE u == attempts[a]
<1>u. u \in Attempt /\ RequestOK(a, u, hurt) /\ hurt \subseteq Attempts
    BY DEF IInv, TypeOK, RequestsOK
<1>f. attempts \in [Attempts -> Attempt]
    BY DEF IInv, TypeOK
<1> USE DEF Attempt, RequestOK, PartsAgree, OkIsStored, NeedsCause, Pending, Served, InHandler
<1>1. CASE Send(a)
  <2> DEFINE t == [u EXCEPT !.client = "waiting", !.api = "request"]
  <2>1. Updates(a, t)
      BY <1>1 DEF Send
  <2>2. RequestOK(a, t, hurt') /\ (InHandler(t) => InHandler(u) \/ api = "serving")
             /\ (Served(t) => Served(u) \/ service = "serving")
      BY <1>u, <1>1 DEF Send
  <2> HIDE DEF t, Attempt, RequestOK, PartsAgree, OkIsStored, NeedsCause, Pending, Served, InHandler
  <2> QED
      BY <1>1, <2>1, <2>2, RequestFrame DEF Send
<1>2. CASE Refuse(a)
  <2> DEFINE t == Told(u, "error")
  <2>1. Updates(a, t)
      BY <1>2 DEF Refuse
  <2>2. RequestOK(a, t, hurt') /\ (InHandler(t) => InHandler(u) \/ api = "serving")
             /\ (Served(t) => Served(u) \/ service = "serving")
      BY <1>u, <1>2 DEF Refuse, Told
  <2> HIDE DEF t, Attempt, RequestOK, PartsAgree, OkIsStored, NeedsCause, Pending, Served, InHandler
  <2> QED
      BY <1>2, <2>1, <2>2, RequestFrame DEF Refuse
<1>3. CASE Call(a)
  <2> DEFINE t == [u EXCEPT !.api = "rpc", !.rpc = IF "creation" \in open THEN "sent" ELSE "error"]
  <2>1. Updates(a, t)
      BY <1>3 DEF Call
  <2>2. RequestOK(a, t, hurt') /\ (InHandler(t) => InHandler(u) \/ api = "serving")
             /\ (Served(t) => Served(u) \/ service = "serving")
      BY <1>u, <1>3 DEF Call
  <2> HIDE DEF t, Attempt, RequestOK, PartsAgree, OkIsStored, NeedsCause, Pending, Served, InHandler
  <2> QED
      BY <1>3, <2>1, <2>2, RequestFrame DEF Call
<1>4. CASE Accept(a)
  <2> DEFINE t == [u EXCEPT !.rpc = "served", !.handler = "create"]
  <2>1. Updates(a, t)
      BY <1>4 DEF Accept
  <2>2. RequestOK(a, t, hurt') /\ (InHandler(t) => InHandler(u) \/ api = "serving")
             /\ (Served(t) => Served(u) \/ service = "serving")
      BY <1>u, <1>4 DEF Accept
  <2> HIDE DEF t, Attempt, RequestOK, PartsAgree, OkIsStored, NeedsCause, Pending, Served, InHandler
  <2> QED
      BY <1>4, <2>1, <2>2, RequestFrame DEF Accept
<1>5. CASE Unavailable(a)
  <2> DEFINE t == Broken(u)
  <2>1. Updates(a, t)
      BY <1>5 DEF Unavailable
  <2>2. RequestOK(a, t, hurt') /\ (InHandler(t) => InHandler(u) \/ api = "serving")
             /\ (Served(t) => Served(u) \/ service = "serving")
      BY <1>u, <1>5 DEF Unavailable, Broken
  <2> HIDE DEF t, Attempt, RequestOK, PartsAgree, OkIsStored, NeedsCause, Pending, Served, InHandler
  <2> QED
      BY <1>5, <2>1, <2>2, RequestFrame DEF Unavailable
<1>6. CASE Disconnect(a)
  <2> DEFINE t == Broken(u)
  <2>1. Updates(a, t)
      BY <1>6, <1>f DEF Disconnect, Break, Updates
  <2>2. RequestOK(a, t, hurt') /\ (InHandler(t) => InHandler(u) \/ api = "serving")
             /\ (Served(t) => Served(u) \/ service = "serving")
      BY <1>u, <1>6 DEF Disconnect, Broken, Fails, RpcOpen
  <2> HIDE DEF t, Attempt, RequestOK, PartsAgree, OkIsStored, NeedsCause, Pending, Served, InHandler
  <2> QED
      BY <1>6, <2>1, <2>2, RequestFrame DEF Disconnect
<1>7. CASE Reject(a)
  <2> DEFINE t == Returned(u, "error")
  <2>1. Updates(a, t)
      BY <1>7 DEF Reject
  <2>2. RequestOK(a, t, hurt') /\ (InHandler(t) => InHandler(u) \/ api = "serving")
             /\ (Served(t) => Served(u) \/ service = "serving")
      BY <1>u, <1>7 DEF Reject, Returned
  <2> HIDE DEF t, Attempt, RequestOK, PartsAgree, OkIsStored, NeedsCause, Pending, Served, InHandler
  <2> QED
      BY <1>7, <2>1, <2>2, RequestFrame DEF Reject
<1>8. CASE Insert(a)
  <2> DEFINE t == [u EXCEPT !.handler = "insert", !.statement = "running"]
  <2>1. Updates(a, t)
      BY <1>8 DEF Insert
  <2>2. RequestOK(a, t, hurt') /\ (InHandler(t) => InHandler(u) \/ api = "serving")
             /\ (Served(t) => Served(u) \/ service = "serving")
      BY <1>u, <1>8 DEF Insert
  <2> HIDE DEF t, Attempt, RequestOK, PartsAgree, OkIsStored, NeedsCause, Pending, Served, InHandler
  <2> QED
      BY <1>8, <2>1, <2>2, RequestFrame DEF Insert
<1>9. CASE Settle(a)
  <2>1. PICK outcome \in {"stored", "refused"} :
             Updates(a, [u EXCEPT !.statement = outcome])
      BY <1>9 DEF Settle
  <2> DEFINE t == [u EXCEPT !.statement = outcome]
  <2>2. RequestOK(a, t, hurt') /\ (InHandler(t) => InHandler(u)) /\ (Served(t) => Served(u))
      BY <1>u, <1>9 DEF Settle
  <2>3. Updates(a, t) /\ UNCHANGED <<apiVars, service, hurt, failures>>
      BY <1>9, <2>1 DEF Settle
  <2> HIDE DEF t, Attempt, RequestOK, PartsAgree, OkIsStored, NeedsCause, Pending, Served, InHandler
  <2> QED
      BY <2>2, <2>3, RequestFrame
<1>10. CASE Answer(a)
  <2> DEFINE t == Returned(u, IF Stored(a) THEN "ok" ELSE "error")
  <2>1. Updates(a, t)
      BY <1>10 DEF Answer
  <2>2. RequestOK(a, t, hurt') /\ (InHandler(t) => InHandler(u) \/ api = "serving")
             /\ (Served(t) => Served(u) \/ service = "serving")
      BY <1>u, <1>10 DEF Answer, Returned, Stored
  <2> HIDE DEF t, Attempt, RequestOK, PartsAgree, OkIsStored, NeedsCause, Pending, Served, InHandler
  <2> QED
      BY <1>10, <2>1, <2>2, RequestFrame DEF Answer
<1>11. CASE AnswerLost(a)
  <2> DEFINE t == Returned(u, "error")
  <2>1. Updates(a, t)
      BY <1>11 DEF AnswerLost
  <2>2. RequestOK(a, t, hurt') /\ (InHandler(t) => InHandler(u) \/ api = "serving")
             /\ (Served(t) => Served(u) \/ service = "serving")
      BY ZenonT(30), <1>u, <1>11 DEF AnswerLost, Returned, Fails
  <2> HIDE DEF t, Attempt, RequestOK, PartsAgree, OkIsStored, NeedsCause, Pending, Served, InHandler
  <2> QED
      BY <1>11, <2>1, <2>2, RequestFrame DEF AnswerLost
<1>12. CASE GiveUp(a)
  <2> DEFINE t == Returned(u, "error")
  <2>1. Updates(a, t)
      BY <1>12 DEF GiveUp
  <2>2. RequestOK(a, t, hurt') /\ (InHandler(t) => InHandler(u) \/ api = "serving")
             /\ (Served(t) => Served(u) \/ service = "serving")
      BY <1>u, <1>12 DEF GiveUp, Returned, InService
  <2> HIDE DEF t, Attempt, RequestOK, PartsAgree, OkIsStored, NeedsCause, Pending, Served, InHandler
  <2> QED
      BY <1>12, <2>1, <2>2, RequestFrame DEF GiveUp
<1>13. CASE Reply(a)
  <2> DEFINE t == Told(u, u.rpc)
  <2>1. Updates(a, t)
      BY <1>13 DEF Reply
  <2>2. RequestOK(a, t, hurt') /\ (InHandler(t) => InHandler(u) \/ api = "serving")
             /\ (Served(t) => Served(u) \/ service = "serving")
      BY <1>u, <1>13 DEF Reply, Told
  <2> HIDE DEF t, Attempt, RequestOK, PartsAgree, OkIsStored, NeedsCause, Pending, Served, InHandler
  <2> QED
      BY <1>13, <2>1, <2>2, RequestFrame DEF Reply
<1>14. CASE Leave(a)
  <2> DEFINE t == [u EXCEPT !.client = "gone"]
  <2>1. Updates(a, t)
      BY <1>14 DEF Leave
  <2>2. RequestOK(a, t, hurt') /\ (InHandler(t) => InHandler(u) \/ api = "serving")
             /\ (Served(t) => Served(u) \/ service = "serving")
      BY <1>u, <1>14 DEF Leave
  <2> HIDE DEF t, Attempt, RequestOK, PartsAgree, OkIsStored, NeedsCause, Pending, Served, InHandler
  <2> QED
      BY <1>14, <2>1, <2>2, RequestFrame DEF Leave
<1>15. CASE Cancel(a)
  <2> DEFINE t == Broken(u)
  <2>1. Updates(a, t)
      BY <1>15 DEF Cancel
  <2>2. RequestOK(a, t, hurt') /\ (InHandler(t) => InHandler(u) \/ api = "serving")
             /\ (Served(t) => Served(u) \/ service = "serving")
      BY <1>u, <1>15 DEF Cancel, Broken, RpcOpen
  <2> HIDE DEF t, Attempt, RequestOK, PartsAgree, OkIsStored, NeedsCause, Pending, Served, InHandler
  <2> QED
      BY <1>15, <2>1, <2>2, RequestFrame DEF Cancel
<1> QED
    BY <1>1, <1>2, <1>3, <1>4, <1>5, <1>6, <1>7, <1>8, <1>9, <1>10, <1>11, <1>12, <1>13, <1>14, <1>15 DEF Request

-----------------------------------------------------------------------------

\* A step of a process that leaves the requests alone: what remains to be shown
\* is about the processes.
LEMMA ProcessFrame ==
    ASSUME IInv,
           UNCHANGED <<attempts, failures>>,
           hurt \subseteq hurt', hurt' \subseteq Attempts
    PROVE  /\ attempts' \in [Attempts -> Attempt]
           /\ failures' \in 0..MaxFailures
           /\ RequestsOK'
           /\ InApi' = InApi /\ InService' = InService
BY DEF IInv, TypeOK, RequestsOK, RequestOK, InApi, InService

\* A step of the API that ends no call preserves the invariant.
\* Code: main of cmd/api, New, the second half of Application.Close.
LEMMA ApiInv ==
    ASSUME IInv,
           \/ ApiStarts \/ ApiOpens \/ ApiStartFails \/ ApiSignal \/ ApiDrained
           \/ ApiTimer \/ ApiClosesPool \/ QueryBegins \/ QueryEnds
    PROVE  IInv'
<1>1. InApi \subseteq Attempts /\ hurt \subseteq Attempts
    BY DEF IInv, TypeOK, InApi
<1>2. /\ UNCHANGED <<attempts, failures, service>>
      /\ hurt \subseteq hurt' /\ hurt' \subseteq Attempts
    BY <1>1 DEF ApiStarts, ApiOpens, ApiStartFails, ApiSignal, ApiDrained, ApiTimer,
                ApiClosesPool, QueryBegins, QueryEnds
<1>3. /\ attempts' \in [Attempts -> Attempt]
      /\ failures' \in 0..MaxFailures
      /\ RequestsOK'
      /\ InApi' = InApi /\ InService' = InService
    BY <1>2, ProcessFrame
<1> USE <1>2, <1>3 DEF IInv, TypeOK, DrainsHurt, OpenAtStep, ApiSteps, Resources, ApiMoves
<1>4. CASE ApiStarts
    BY <1>4 DEF ApiStarts
<1>5. CASE ApiOpens
  <2>1. CASE api = "pool" /\ api' = "tokens" /\ open' = {"pool"}
      BY <1>5, <2>1 DEF ApiOpens
  <2>2. CASE api = "tokens" /\ api' = "creation" /\ open' = {"pool", "tokens"}
      BY <1>5, <2>2 DEF ApiOpens
  <2>3. CASE api = "creation" /\ api' = "uploads" /\ open' = {"pool", "tokens", "creation"}
      BY <1>5, <2>3 DEF ApiOpens
  <2>4. CASE api = "uploads" /\ api' = "serving" /\ open' = Resources
      BY <1>5, <2>4 DEF ApiOpens
  <2> QED
    <3>1. open' = open \union {api} /\ api' = Following[api] /\ api \in Resources
        BY <1>5 DEF ApiOpens
    <3>2. api = "pool" => api' = "tokens" /\ open' = {"pool"}
      <4>1. api = "pool" => open' = {} \union {"pool"}
          BY <3>1
      <4>2. api = "pool" => api' = "tokens"
          BY <3>1 DEF Following
      <4> QED
          BY <4>1, <4>2, Zenon
    <3>3. api = "tokens" => api' = "creation" /\ open' = {"pool", "tokens"}
        BY <3>1 DEF Following
    <3>4. api = "creation" => api' = "uploads" /\ open' = {"pool", "tokens", "creation"}
        BY <3>1 DEF Following
    <3>5. api = "uploads" => api' = "serving" /\ open' = Resources
        BY <3>1 DEF Following
    <3> QED
        BY <2>1, <2>2, <2>3, <2>4, <3>1, <3>2, <3>3, <3>4, <3>5
<1>6. CASE ApiStartFails
    BY <1>6 DEF ApiStartFails, Closes
<1>7. CASE ApiSignal
    BY <1>7 DEF ApiSignal
<1>8. CASE ApiDrained
    BY <1>8 DEF ApiDrained
<1>9. CASE ApiTimer
    BY <1>9 DEF ApiTimer
<1>10. CASE ApiClosesPool
    BY <1>10 DEF ApiClosesPool, Closes
<1>11. CASE QueryBegins
    BY <1>11 DEF QueryBegins
<1>12. CASE QueryEnds
    BY <1>12 DEF QueryEnds
<1> QED
    BY <1>4, <1>5, <1>6, <1>7, <1>8, <1>9, <1>10, <1>11, <1>12

\* A step of the service that ends no call preserves the invariant.
\* Code: main of cmd/token-creation-service, gracefulStop.
LEMMA ServiceInv ==
    ASSUME IInv,
           ServiceStarts \/ ServiceStartFails \/ ServiceSignal \/ ServiceDrained
    PROVE  IInv'
<1>1. UNCHANGED <<attempts, failures, hurt, api, open, query>> /\ hurt \subseteq Attempts
    BY DEF apiVars, IInv, TypeOK, ServiceStarts, ServiceStartFails, ServiceSignal, ServiceDrained
<1>2. /\ attempts' \in [Attempts -> Attempt]
      /\ failures' \in 0..MaxFailures
      /\ RequestsOK'
      /\ InApi' = InApi /\ InService' = InService
    BY <1>1, ProcessFrame
<1> USE <1>1, <1>2 DEF IInv, TypeOK, DrainsHurt, OpenAtStep, ApiSteps, ServiceSteps,
                       Resources, ServiceMoves
<1>3. CASE ServiceStarts
    BY <1>3 DEF ServiceStarts
<1>4. CASE ServiceStartFails
    BY <1>4 DEF ServiceStartFails
<1>5. CASE ServiceSignal
    BY <1>5 DEF ServiceSignal
<1>6. CASE ServiceDrained
    BY <1>6 DEF ServiceDrained
<1> QED
    BY <1>3, <1>4, <1>5, <1>6

-----------------------------------------------------------------------------

\* A request that was hurt may be cut off anywhere.
LEMMA CutOff ==
    ASSUME NEW a, NEW u, NEW H, NEW G, RequestOK(a, u, H), a \in G
    PROVE  /\ RequestOK(a, Broken(u), G)
           /\ Served(u) => RequestOK(a, [Broken(u) EXCEPT !.handler = "over"], G)
           /\ InHandler(u) =>
                RequestOK(a, [Broken(u) EXCEPT !.api = "over",
                                               !.client = IF @ = "waiting" THEN "lost" ELSE @], G)
<1> DEFINE w == Broken(u)
<1>1. u \in Attempt /\ PartsAgree(u) /\ OkIsStored(u)
    BY DEF RequestOK
<1>2. /\ w \in Attempt
      /\ w.client = u.client /\ w.api = u.api /\ w.handler = u.handler /\ w.statement = u.statement
      /\ w.rpc = IF u.rpc \in {"sent", "served"} THEN "error" ELSE u.rpc
    BY <1>1 DEF Broken, Attempt
<1> HIDE DEF w
<1>3. RequestOK(a, w, G)
    BY <1>1, <1>2 DEF RequestOK, PartsAgree, OkIsStored, Served
<1>4. ASSUME Served(u) PROVE RequestOK(a, [w EXCEPT !.handler = "over"], G)
  <2> DEFINE v == [w EXCEPT !.handler = "over"]
  <2>1. /\ v \in Attempt /\ v.handler = "over"
        /\ v.client = w.client /\ v.api = w.api /\ v.rpc = w.rpc /\ v.statement = w.statement
      BY <1>2 DEF Attempt
  <2> HIDE DEF v
  <2>2. PartsAgree(v) /\ OkIsStored(v)
      BY <1>1, <1>2, <1>4, <2>1 DEF PartsAgree, OkIsStored, Served
  <2>3. RequestOK(a, v, G)
      BY <2>1, <2>2 DEF RequestOK
  <2> QED
      BY <2>3 DEF v
<1>5. ASSUME InHandler(u)
      PROVE  RequestOK(a, [w EXCEPT !.api = "over",
                                    !.client = IF @ = "waiting" THEN "lost" ELSE @], G)
  <2> DEFINE v == [w EXCEPT !.api = "over", !.client = IF @ = "waiting" THEN "lost" ELSE @]
  <2>1. /\ v \in Attempt /\ v.api = "over"
        /\ v.client = IF w.client = "waiting" THEN "lost" ELSE w.client
        /\ v.rpc = w.rpc /\ v.handler = w.handler /\ v.statement = w.statement
      BY <1>2 DEF Attempt
  <2> HIDE DEF v
  <2>2. PartsAgree(v) /\ OkIsStored(v)
      BY <1>1, <1>2, <1>5, <2>1 DEF PartsAgree, OkIsStored, InHandler, Served
  <2>3. RequestOK(a, v, G)
      BY <2>1, <2>2 DEF RequestOK
  <2> QED
      BY <2>3 DEF v
<1> QED
    BY <1>3, <1>4, <1>5 DEF w

\* A step that cuts requests off leaves them as they were or cuts each off after
\* it was hurt.
LEMMA CutFrame ==
    ASSUME IInv,
           hurt \subseteq hurt', hurt' \subseteq Attempts,
           UNCHANGED failures \/ Fails,
           attempts' = [a \in Attempts |-> attempts'[a]],
           \A a \in Attempts :
               attempts'[a] = attempts[a] \/ RequestOK(a, attempts'[a], hurt')
    PROVE  /\ attempts' \in [Attempts -> Attempt]
           /\ failures' \in 0..MaxFailures
           /\ RequestsOK'
<1>1. \A a \in Attempts : RequestOK(a, attempts'[a], hurt')
    BY DEF IInv, RequestsOK, RequestOK
<1>2. attempts' \in [Attempts -> Attempt] /\ RequestsOK'
    BY <1>1 DEF RequestsOK, RequestOK
<1>3. failures' \in 0..MaxFailures
    BY TokenCreationAssumption DEF IInv, TypeOK, Fails
<1> QED
    BY <1>2, <1>3

\* Breaking the calls of a set of hurt requests.
LEMMA BreakInv ==
    ASSUME IInv, NEW S \in SUBSET hurt', Break(S),
           hurt \subseteq hurt', hurt' \subseteq Attempts,
           UNCHANGED failures
    PROVE  /\ attempts' \in [Attempts -> Attempt]
           /\ failures' \in 0..MaxFailures
           /\ RequestsOK'
           /\ InApi' = InApi /\ InService' = InService
<1>1. \A a \in Attempts :
         attempts'[a] = IF a \in S THEN Broken(attempts[a]) ELSE attempts[a]
    BY DEF Break
<1>2. \A a \in Attempts : RequestOK(a, attempts[a], hurt)
    BY DEF IInv, RequestsOK
<1>3. \A a \in Attempts :
         attempts'[a] = attempts[a] \/ RequestOK(a, attempts'[a], hurt')
  <2> TAKE a \in Attempts
  <2>1. CASE a \in S
    <3>1. RequestOK(a, Broken(attempts[a]), hurt')
        BY <2>1, <1>2, CutOff
    <3> QED
        BY <1>1, <2>1, <3>1
  <2>2. CASE a \notin S
      BY <1>1, <2>2
  <2> QED
      BY <2>1, <2>2
<1>4. attempts' = [a \in Attempts |-> attempts'[a]]
    BY DEF Break
<1>5. /\ attempts' \in [Attempts -> Attempt]
      /\ failures' \in 0..MaxFailures
      /\ RequestsOK'
    BY <1>3, <1>4, CutFrame
<1>6. \A a \in Attempts : /\ attempts'[a].api = attempts[a].api
                          /\ attempts'[a].handler = attempts[a].handler
    BY <1>1, <1>2 DEF Broken, RequestOK, Attempt
<1>7. InApi' = InApi /\ InService' = InService
    BY <1>6 DEF InApi, InService
<1> QED
    BY <1>5, <1>7

\* A step that ends calls on purpose preserves the invariant.
\* Code: the first half of Application.Close, server.Stop.
LEMMA BreakingInv ==
    ASSUME IInv, ApiClosesConnections \/ ServiceTimer
    PROVE  IInv'
<1>1. hurt \subseteq Attempts /\ InService \subseteq Attempts
    BY DEF IInv, TypeOK, InService
<1>2. CASE ApiClosesConnections
  <2>1. {a \in Attempts : RpcOpen(a)} \subseteq hurt
    <3>1. {a \in Attempts : RpcOpen(a)} \subseteq InApi
        BY DEF IInv, RequestsOK, RequestOK, PartsAgree, RpcOpen, InApi
    <3> QED
        BY <1>2, <3>1 DEF ApiClosesConnections, ApiMoves, IInv, DrainsHurt
  <2>2. /\ attempts' \in [Attempts -> Attempt]
        /\ failures' \in 0..MaxFailures
        /\ RequestsOK'
        /\ InApi' = InApi /\ InService' = InService
      BY <1>1, <1>2, <2>1, BreakInv DEF ApiClosesConnections
  <2> QED
      BY <1>1, <1>2, <2>2 DEF ApiClosesConnections, ApiMoves, IInv, TypeOK, DrainsHurt,
             OpenAtStep, ApiSteps, ServiceSteps, Resources, Closes
<1>3. CASE ServiceTimer
  <2>1. /\ attempts' \in [Attempts -> Attempt]
        /\ failures' \in 0..MaxFailures
        /\ RequestsOK'
        /\ InApi' = InApi /\ InService' = InService
      BY <1>1, <1>3, BreakInv DEF ServiceTimer
  <2>2. UNCHANGED <<api, open, query>>
      BY <1>3 DEF ServiceTimer, apiVars
  <2> QED
      BY <1>1, <1>3, <2>1, <2>2 DEF ServiceTimer, ServiceMoves, IInv, TypeOK, DrainsHurt,
             OpenAtStep, ApiSteps, ServiceSteps, Resources
<1> QED
    BY <1>2, <1>3

\* The end of the API preserves the invariant: its requests were hurt.
\* Code: the end of main of cmd/api, or of its process.
LEMMA ApiEndsInv ==
    ASSUME IInv, ApiExits \/ ApiKilled
    PROVE  IInv'
<1>1. ApiEnds /\ UNCHANGED service
    BY DEF ApiExits, ApiKilled
<1>2. /\ InApi \subseteq hurt'
      /\ hurt \subseteq hurt' /\ hurt' \subseteq Attempts
      /\ UNCHANGED failures \/ Fails
    BY DEF ApiExits, ApiKilled, IInv, DrainsHurt, TypeOK, InApi
<1>3. \A a \in Attempts : RequestOK(a, attempts[a], hurt)
    BY DEF IInv, RequestsOK
<1>4. \A a \in Attempts :
         attempts'[a] = attempts[a] \/ RequestOK(a, attempts'[a], hurt')
  <2> TAKE a \in Attempts
  <2>1. CASE a \in InApi
    <3> DEFINE t == [Broken(attempts[a]) EXCEPT !.api = "over",
                         !.client = IF @ = "waiting" THEN "lost" ELSE @]
    <3>1. InHandler(attempts[a])
        BY <2>1 DEF InApi, InHandler
    <3>2. RequestOK(a, t, hurt')
        BY <1>2, <1>3, <2>1, <3>1, CutOff
    <3>3. attempts'[a] = t
        BY <1>1, <2>1 DEF ApiEnds
    <3> QED
        BY <3>2, <3>3
  <2>2. CASE a \notin InApi
      BY <1>1, <2>2 DEF ApiEnds
  <2> QED
      BY <2>1, <2>2
<1>5. attempts' = [a \in Attempts |-> attempts'[a]]
    BY <1>1 DEF ApiEnds
<1>6. /\ attempts' \in [Attempts -> Attempt]
      /\ failures' \in 0..MaxFailures
      /\ RequestsOK'
    BY <1>2, <1>4, <1>5, CutFrame
<1>7. \A a \in Attempts : /\ ~InHandler(attempts'[a])
                          /\ attempts'[a].handler = attempts[a].handler
    BY <1>1, <1>3 DEF ApiEnds, Broken, RequestOK, Attempt, InApi, InHandler
<1>8. InApi' = {} /\ InService' = InService
    BY <1>7 DEF InApi, InService, InHandler
<1>9. api' = "down" /\ open' = {} /\ query' \in BOOLEAN /\ ~query'
  <2>1. query' \in BOOLEAN
      BY <1>1, Zenon DEF ApiEnds
  <2> QED
      BY <1>1, <2>1 DEF ApiEnds
<1> QED
    BY <1>1, <1>2, <1>6, <1>8, <1>9 DEF IInv, TypeOK, DrainsHurt, OpenAtStep,
        ApiSteps, ServiceSteps, Resources

\* The end of the service preserves the invariant: its calls were hurt.
\* Code: the end of main of cmd/token-creation-service, or of its process.
LEMMA ServiceEndsInv ==
    ASSUME IInv, ServiceExits \/ ServiceKilled
    PROVE  IInv'
<1>1. ServiceEnds /\ UNCHANGED <<api, open, query>>
    BY DEF ServiceExits, ServiceKilled, apiVars
<1>2. /\ InService \subseteq hurt'
      /\ hurt \subseteq hurt' /\ hurt' \subseteq Attempts
      /\ UNCHANGED failures \/ Fails
    BY DEF ServiceExits, ServiceKilled, IInv, DrainsHurt, TypeOK, InService
<1>3. \A a \in Attempts : RequestOK(a, attempts[a], hurt)
    BY DEF IInv, RequestsOK
<1>4. \A a \in Attempts :
         attempts'[a] = attempts[a] \/ RequestOK(a, attempts'[a], hurt')
  <2> TAKE a \in Attempts
  <2>1. CASE a \in InService
    <3> DEFINE t == [Broken(attempts[a]) EXCEPT !.handler = "over"]
    <3>1. Served(attempts[a])
        BY <2>1 DEF InService, Served
    <3>2. RequestOK(a, t, hurt')
        BY <1>2, <1>3, <2>1, <3>1, CutOff
    <3>3. attempts'[a] = t
        BY <1>1, <2>1 DEF ServiceEnds
    <3> QED
        BY <3>2, <3>3
  <2>2. CASE a \notin InService
      BY <1>1, <2>2 DEF ServiceEnds
  <2> QED
      BY <2>1, <2>2
<1>5. attempts' = [a \in Attempts |-> attempts'[a]]
    BY <1>1 DEF ServiceEnds
<1>6. /\ attempts' \in [Attempts -> Attempt]
      /\ failures' \in 0..MaxFailures
      /\ RequestsOK'
    BY <1>2, <1>4, <1>5, CutFrame
<1>7. \A a \in Attempts : /\ ~Served(attempts'[a])
                          /\ attempts'[a].api = attempts[a].api
    BY <1>1, <1>3 DEF ServiceEnds, Broken, RequestOK, Attempt, InService, Served
<1>8. InService' = {} /\ InApi' = InApi
    BY <1>7 DEF InApi, InService, Served
<1>9. service' = "down"
    BY <1>1 DEF ServiceEnds
<1> QED
    BY <1>1, <1>2, <1>6, <1>8, <1>9 DEF IInv, TypeOK, DrainsHurt, OpenAtStep,
        ApiSteps, ServiceSteps, Resources

-----------------------------------------------------------------------------

\* The inductive invariant: the client, the API, the service and the database
\* agree on a request as far as its causes of failure allow.
\* Code: cmd/api, cmd/token-creation-service and everything between them.
THEOREM CreationInvariant == Spec => []IInv
<1>1. IInv /\ [Next]_vars => IInv'
  <2> SUFFICES ASSUME IInv, [Next]_vars PROVE IInv'
      OBVIOUS
  <2>1. CASE ApiProcess
      BY <2>1, ApiInv, BreakingInv, ApiEndsInv DEF ApiProcess
  <2>2. CASE ServiceProcess
      BY <2>2, ServiceInv, BreakingInv, ServiceEndsInv DEF ServiceProcess
  <2>3. CASE \E a \in Attempts : Request(a)
      BY <2>3, RequestInv
  <2>4. CASE UNCHANGED vars
    <3>1. UNCHANGED <<api, open, query, service, attempts, hurt, failures>>
        BY <2>4 DEF vars
    <3>2. InApi' = InApi /\ InService' = InService
        BY <3>1 DEF InApi, InService
    <3>3. RequestsOK'
        BY <3>1 DEF IInv, RequestsOK, RequestOK
    <3>4. DrainsHurt' /\ OpenAtStep'
        BY <3>1, <3>2 DEF IInv, DrainsHurt, OpenAtStep
    <3>5. TypeOK'
        BY <3>1, <3>2 DEF IInv, TypeOK
    <3> QED
        BY <3>3, <3>4, <3>5 DEF IInv
  <2> QED
      BY <2>1, <2>2, <2>3, <2>4 DEF Next
<1> QED
    BY <1>1, InitInv, PTL DEF Spec

\* Every variable keeps its type, a process that serves has what it needs, and
\* one that is down has nothing.
\* Code: New, Application.Close and the mains.
THEOREM TypeCorrect == Spec => []TypeOK
<1>1. IInv => TypeOK
    BY DEF IInv
<1> QED
    BY <1>1, CreationInvariant, PTL

\* A client that was given an intent finds it stored, for any number of requests
\* and failures.
\* Code: Create returns the response only after store.Create did.
THEOREM AnswersAreStored == Spec => []AnsweredIsStored
<1>1. IInv => AnsweredIsStored
    BY DEF IInv, RequestsOK, RequestOK, OkIsStored, AnsweredIsStored, Stored
<1> QED
    BY <1>1, CreationInvariant, PTL

\* Unless something hit its own request, a client that was told of an error, or
\* of nothing, has no stored intent.
\* Code: gracefulStop, server.Shutdown and the order of the statements in main.
THEOREM StoredErrorsHaveACause == Spec => []StoredErrorNeedsCause
<1>1. IInv => StoredErrorNeedsCause
    BY DEF IInv, RequestsOK, RequestOK, NeedsCause, Pending, StoredErrorNeedsCause, Stored
<1> QED
    BY <1>1, CreationInvariant, PTL

\* A process that gave up starting, or drained, closed everything it opened.
\* Code: Application.Close, called on every error path of New and deferred.
THEOREM EverythingIsClosed == Spec => []ClosedBeforeExit
<1>1. IInv => ClosedBeforeExit
    BY DEF IInv, OpenAtStep, ClosedBeforeExit
<1> QED
    BY <1>1, CreationInvariant, PTL

=============================================================================
