---------------------------- MODULE GrpcSecurity ----------------------------
(***************************************************************************)
(* Who gets through to the internal services of the rebuild (config,       *)
(* grpcsecurity, cmd/token-service, cmd/upload-service and the dials of    *)
(* internal/app).                                                          *)
(*                                                                         *)
(* A process reads its environment, refuses a bad one, and then serves or  *)
(* dials.  Servers stop and start again with other environments while the  *)
(* API keeps the connections it verified when it started: gRPC reconnects  *)
(* by itself, with the old credentials, to whatever listens at the port.   *)
(*                                                                         *)
(* An environment says which variables of a group are set, not what their  *)
(* values are; certificates are named by the identity they carry.          *)
(***************************************************************************)
EXTENDS Naturals

CONSTANTS
    Services,       \* the internal services
    UploadService,  \* the one that needs the object store's settings
    Ports,          \* addresses that servers listen at
    Identities,     \* names that client certificates carry
    NoIdentity,     \* a client without a certificate
    Environments,   \* what processes may be started with
    MaxServerStarts \* bound: starts of servers

ServerTlsSettings == {"cert", "key", "client_ca", "allowed"}
ClientTlsSettings == {"ca", "cert", "key", "server_name"}
CosRequired == {"secret_id", "secret_key", "bucket", "region"}
CosSettings == CosRequired \union {"domain"}

\* What one process reads: the host and port of a service, the identities
\* after "allowed", the identity of its client certificate, whether a CA the
\* peers trust issued it and the files can be loaded, and whether all other
\* values parse and are in range.
Environment == [loopback : BOOLEAN, port : Ports, server : SUBSET ServerTlsSettings,
                identities : SUBSET Identities, client : SUBSET ClientTlsSettings,
                identity : Identities, files : BOOLEAN, trusted : BOOLEAN,
                cos : SUBSET CosSettings, values : BOOLEAN]

ASSUME GrpcAssumption ==
    /\ UploadService \in Services
    /\ NoIdentity \notin Identities
    /\ Environments \subseteq Environment
    /\ MaxServerStarts \in Nat

VARIABLES
    listening,      \* the server at each port, as the set of at most one
    dialled,        \* the API's connection to each service, as such a set
    apiUp,          \* New returned and the API serves
    restarted,      \* history: services at whose port a server started since the dial
    answer,         \* the call the last step made of a server, as such a set
    serverStarts    \* starts of servers

grpcVars == <<listening, dialled, apiUp, restarted, answer, serverStarts>>

Server == [service : Services, loopback : BOOLEAN, tls : BOOLEAN, allowed : SUBSET Identities]
Connection == [port : Ports, tls : BOOLEAN, identity : Identities \union {NoIdentity},
               trusted : BOOLEAN]
Outcomes == {"handled", "denied", "unimplemented", "unreachable"}
Answer == [port : Ports, service : Services, remote : BOOLEAN, api : BOOLEAN, tls : BOOLEAN,
          identity : Identities \union {NoIdentity}, trusted : BOOLEAN, outcome : Outcomes]

AtMostOne(S) == \A x, y \in S : x = y

-----------------------------------------------------------------------------
\* Load: groups of variables must be set together.

AllOrNone(set, group) == set = {} \/ group \subseteq set

\* An "allowed" list of blanks and commas counts as not set.
ServerSettings(env) ==
    env.server \ (IF env.identities = {} THEN {"allowed"} ELSE {})

\* Config.Load, with the Validate of each group.
Loads(env) ==
    /\ env.values
    /\ AllOrNone(ServerSettings(env), ServerTlsSettings)
    /\ AllOrNone(env.client, ClientTlsSettings)
    /\ AllOrNone(env.cos, CosRequired)

\* GRPCTLSConfig.Enabled and GRPCClientTLSConfig.Enabled.
ServerEnabled(env) == "cert" \in env.server
ClientEnabled(env) == env.client # {}

-----------------------------------------------------------------------------

GrpcInit ==
    /\ listening = [p \in Ports |-> {}]
    /\ dialled = [s \in Services |-> {}]
    /\ apiUp = FALSE
    /\ restarted = {}
    /\ answer = {}
    /\ serverStarts = 0

\* main without the loopback check.
Configured(s, env) ==
    /\ Loads(env)
    /\ s = UploadService => CosRequired \subseteq env.cos
    /\ ServerEnabled(env) => env.files

ServerOf(s, env) ==
    [service |-> s, loopback |-> env.loopback, tls |-> ServerEnabled(env),
     allowed |-> IF ServerEnabled(env) THEN env.identities ELSE {}]

Listens(s, env) ==
    /\ listening[env.port] = {}
    /\ serverStarts < MaxServerStarts
    /\ serverStarts' = serverStarts + 1
    /\ listening' = [listening EXCEPT ![env.port] = {ServerOf(s, env)}]
    /\ restarted' = restarted \union
                      {x \in Services : \E c \in dialled[x] : c.port = env.port}
    /\ answer' = {}
    /\ UNCHANGED <<dialled, apiUp>>

\* Mutant: main listens in plaintext wherever it is told to.
ServerStarts_Anywhere(s, env) ==
    /\ Configured(s, env)
    /\ Listens(s, env)

\* main: without TLS it listens on loopback only.
ServerStarts(s, env) ==
    /\ Configured(s, env)
    /\ ServerEnabled(env) \/ env.loopback
    /\ Listens(s, env)

\* A signal, a failure or a kill.
ServerStops(p) ==
    /\ listening[p] # {}
    /\ listening' = [listening EXCEPT ![p] = {}]
    /\ answer' = {}
    /\ UNCHANGED <<dialled, apiUp, restarted, serverStarts>>

-----------------------------------------------------------------------------
\* A call: the handshake, the interceptor, the handler.

\* A plaintext client meets a plaintext server; a TLS client verifies the
\* server and the server requires and verifies its certificate.
HandshakeFits(server, client) ==
    /\ server.tls = client.tls
    /\ server.tls => client.trusted /\ client.identity # NoIdentity

\* authorizeClient; there is no interceptor without TLS.
Authorized(server, client) == server.tls => client.identity \in server.allowed

\* What the server at the client's port does with a call of service s.
OutcomeOf(s, client) ==
    IF \A server \in listening[client.port] : ~HandshakeFits(server, client)
    THEN "unreachable"
    ELSE IF \A server \in listening[client.port] : ~Authorized(server, client)
    THEN "denied"
    ELSE IF \A server \in listening[client.port] : server.service # s
    THEN "unimplemented"
    ELSE "handled"

Answered(s, client, remote, api) ==
    answer' = {[port |-> client.port, service |-> s, remote |-> remote, api |-> api,
                tls |-> client.tls, identity |-> client.identity, trusted |-> client.trusted,
                outcome |-> OutcomeOf(s, client)]}

ConnectionOf(env) ==
    [port |-> env.port, tls |-> ClientEnabled(env),
     identity |-> IF ClientEnabled(env) THEN env.identity ELSE NoIdentity,
     trusted |-> ClientEnabled(env) /\ env.trusted]

\* Mutant: the dial is taken for an answer, and no health is asked.
Dial_Unchecked(s, env) ==
    /\ ~apiUp
    /\ dialled[s] = {}
    /\ Loads(env)
    /\ ClientEnabled(env) \/ env.loopback
    /\ ClientEnabled(env) => env.files
    /\ OutcomeOf(s, ConnectionOf(env)) \in {"handled", "denied", "unimplemented"}
    /\ dialled' = [dialled EXCEPT ![s] = {ConnectionOf(env)}]
    /\ restarted' = restarted \ {s}
    /\ answer' = {}
    /\ UNCHANGED <<listening, apiUp, serverStarts>>

\* connectTokenService, connectTokenCreationService or connectUploadService:
\* WithBlock waits for the handshake, CheckHealth asks for the service by
\* name, and the interceptor sees that call too.
Dial(s, env) ==
    /\ ~apiUp
    /\ dialled[s] = {}
    /\ Loads(env)
    /\ ClientEnabled(env) \/ env.loopback
    /\ ClientEnabled(env) => env.files
    /\ OutcomeOf(s, ConnectionOf(env)) = "handled"
    /\ dialled' = [dialled EXCEPT ![s] = {ConnectionOf(env)}]
    /\ restarted' = restarted \ {s}
    /\ answer' = {}
    /\ UNCHANGED <<listening, apiUp, serverStarts>>

ApiServes ==
    /\ ~apiUp
    /\ \A s \in Services : dialled[s] # {}
    /\ apiUp' = TRUE
    /\ answer' = {}
    /\ UNCHANGED <<listening, dialled, restarted, serverStarts>>

\* New fails and closes what it opened, or the process ends.
ApiEnds ==
    /\ \E s \in Services : dialled[s] # {}
    /\ dialled' = [s \in Services |-> {}]
    /\ apiUp' = FALSE
    /\ answer' = {}
    /\ UNCHANGED <<listening, restarted, serverStarts>>

\* A request of the API, over the connection it keeps.
ApiCalls(s) ==
    /\ apiUp
    /\ \E connection \in dialled[s] : Answered(s, connection, FALSE, TRUE)
    /\ UNCHANGED <<listening, dialled, apiUp, restarted, serverStarts>>

\* Somebody else connects, from this host or over the network, where a
\* loopback listener cannot be reached.  A client without TLS has no identity.
OtherCalls(s, client, remote) ==
    /\ \A server \in listening[client.port] : remote => ~server.loopback
    /\ ~client.tls => client.identity = NoIdentity /\ ~client.trusted
    /\ Answered(s, client, remote, FALSE)
    /\ UNCHANGED <<listening, dialled, apiUp, restarted, serverStarts>>

GrpcNext ==
    \/ \E s \in Services, env \in Environments : ServerStarts(s, env) \/ Dial(s, env)
    \/ \E p \in Ports : ServerStops(p)
    \/ ApiServes
    \/ ApiEnds
    \/ \E s \in Services : ApiCalls(s)
    \/ \E s \in Services, client \in Connection, remote \in BOOLEAN : OtherCalls(s, client, remote)

GrpcSpec == GrpcInit /\ [][GrpcNext]_grpcVars

-----------------------------------------------------------------------------

GrpcTypeOK ==
    /\ listening \in [Ports -> SUBSET Server] /\ \A p \in Ports : AtMostOne(listening[p])
    /\ dialled \in [Services -> SUBSET Connection] /\ \A s \in Services : AtMostOne(dialled[s])
    /\ apiUp \in BOOLEAN
    /\ restarted \subseteq Services
    /\ answer \subseteq Answer /\ AtMostOne(answer)
    /\ serverStarts \in Nat

\* A handler runs only for a caller on the same host of a plaintext server,
\* or for a verified certificate whose identity that server allows.
\* Code: the groups of Load, the loopback check of main and the interceptor
\* together decide it; each alone leaves a gap.
HandledIsAuthorized ==
    \A c \in answer :
        c.outcome = "handled" =>
            \/ ~c.remote /\ ~c.tls
            \/ /\ c.tls /\ c.trusted
               /\ \E server \in listening[c.port] : c.identity \in server.allowed

\* An API that serves is not turned away by a service it dialled, unless a
\* server was started there with another environment or none is there.
\* Code: CheckHealth goes through the handshake and the interceptor, and
\* names the service, before New returns.
DenialNeedsRestart ==
    \A c \in answer :
        c.api /\ c.outcome # "handled" =>
            c.service \in restarted \/ listening[c.port] = {}

=============================================================================
