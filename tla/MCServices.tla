----------------------------- MODULE MCServices -----------------------------
(***************************************************************************)
(* Instances of the components that share no state with the rest of the    *)
(* system or with each other: GrpcSecurity, TokenReads, Uploads,           *)
(* LegacyLogin, KlineReads, LegacyLists, and OverlappingIndexers over a    *)
(* chain and tables of its own.                                            *)
(*                                                                         *)
(* One component takes steps in a behaviour, chosen at its start, and the  *)
(* others keep their first state.  Without shared state an interleaving of *)
(* two components reaches no state of either that it does not reach alone. *)
(***************************************************************************)
EXTENDS GrpcSecurity, TokenReads, Uploads, LegacyLogin, KlineReads, LegacyLists,
        OverlappingIndexers, TLC

VARIABLE part       \* the component that takes steps

Parts == {"grpc", "reads", "uploads", "login", "kline", "lists", "overlap"}

\* Environments: without TLS or with it, and with one thing wrong.
Plain == [loopback |-> TRUE, port |-> "p1", server |-> {}, identities |-> {}, client |-> {},
          identity |-> "api", files |-> TRUE, trusted |-> TRUE, cos |-> CosRequired,
          values |-> TRUE]
Tls == [Plain EXCEPT !.loopback = FALSE, !.server = ServerTlsSettings,
                     !.identities = {"api"}, !.client = ClientTlsSettings]
MCEnvironments ==
    LET atFirstPort == {Plain, Tls,
                        [Plain EXCEPT !.loopback = FALSE],
                        [Plain EXCEPT !.cos = {"domain"}],
                        [Tls EXCEPT !.identities = {}],
                        [Tls EXCEPT !.identities = {"other"}],
                        [Tls EXCEPT !.identity = "other"],
                        [Tls EXCEPT !.trusted = FALSE],
                        [Tls EXCEPT !.files = FALSE],
                        [Tls EXCEPT !.server = {"cert", "key"}],
                        [Tls EXCEPT !.client = {"ca"}]}
    IN  atFirstPort \union {[e EXCEPT !.port = "p2"] : e \in atFirstPort}

MCChains == {-1, 1, 3}
MCZones == {0, 2}
MCLimits == {-1, 1, 4}
MCPageNumbers == {-1, 0, 1, 2, 3}
MCPageLengths == {-2, -1, 0, 1, 2}
MCWidth == [i \in Intervals |-> 2]

\* The processes are alike.
IndexerSymmetry == Permutations(Indexers)

\* The components that take no step begin with no candle zone or row to choose.
ServicesInit ==
    /\ part \in Parts
    /\ GrpcInit /\ ReadInit /\ UploadInit /\ LoginInit /\ KlineInit /\ ListInit /\ OverlapInit
    /\ part # "kline" => writerZone = 0 /\ readerZone = 0
    /\ part # "lists" => matching = 0

Rest(p) ==
    /\ part = p
    /\ UNCHANGED part
    /\ p # "grpc" => UNCHANGED grpcVars
    /\ p # "reads" => UNCHANGED readVars
    /\ p # "uploads" => UNCHANGED uploadVars
    /\ p # "login" => UNCHANGED loginVars
    /\ p # "kline" => UNCHANGED klineVars
    /\ p # "lists" => UNCHANGED listVars
    /\ p # "overlap" => UNCHANGED overlapVars

ServicesNext ==
    \/ Rest("grpc") /\ GrpcNext
    \/ Rest("reads") /\ ReadNext
    \/ Rest("uploads") /\ UploadNext
    \/ Rest("login") /\ LoginNext
    \/ Rest("kline") /\ KlineNext
    \/ Rest("lists") /\ ListNext
    \/ Rest("overlap") /\ OverlapNext

ServicesSpec ==
    ServicesInit
    /\ [][ServicesNext]_<<part, grpcVars, readVars, uploadVars, loginVars, klineVars, listVars,
                          overlapVars>>

=============================================================================
