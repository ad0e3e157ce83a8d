------------------------- MODULE LegacyTokenCreation -------------------------
(***************************************************************************)
(* Creating a token with the first API (apps/api/internal/service/token):  *)
(* CreateToken takes a nonce from a sequence in PostgreSQL, predicts the   *)
(* CREATE2 address, signs the parameters and saves the request.            *)
(* CalculateAddress only predicts.                                         *)
(*                                                                         *)
(* Calls run concurrently.  They share the sequence, the requests, and the *)
(* Create2Calculator: CalculateAddress appends the constructor arguments   *)
(* of its call to c.tokenBytecode, a slice whose spare capacity (half of   *)
(* what hex.DecodeString allocated) is the same memory for all calls.      *)
(* What a call hashes is therefore any mixture of its own arguments with   *)
(* those of calls that are in the calculator at the same time.             *)
(*                                                                         *)
(* A salt, a request id and a signature are functions of what they hash    *)
(* and are named by it.                                                    *)
(***************************************************************************)
EXTENDS Integers

CONSTANTS
    Calls,          \* slots for requests being served at the same time
    Creators,       \* wallet addresses
    NoCreator,      \* a call that only predicts has no creator
    NoCreation,     \* what a slot not in use works on
    Names,          \* what the constructor arguments are made of (name, symbol)
    VanityNonces,   \* nonces at which a vanity search can end
    MaxTime,        \* bound: seconds
    MaxStarted,     \* bound: calls of CreateToken
    MaxFailures     \* bound: statements and signatures that fail

ASSUME CreationAssumption ==
    /\ NoCreator \notin Creators
    /\ VanityNonces \subseteq Nat
    /\ MaxTime \in Nat
    /\ MaxStarted \in Nat
    /\ MaxFailures \in Nat

VARIABLES
    now,            \* time.Now in seconds
    sequence,       \* current_nonce of the chain's row in nonce_sequence
    calls,          \* the requests being served
    requests,       \* token_creation_requests
    answers,        \* what clients of CreateToken were answered
    given,          \* history: what getNextNonce returned to which call
    started,        \* calls of CreateToken so far; numbers them
    failures        \* statements and signatures that failed

vars == <<now, sequence, calls, requests, answers, given, started, failures>>

NoRow == -1         \* the chain has no row in nonce_sequence

Steps == {"idle", "nonce", "insert", "read", "stamp", "search", "hash", "save"}

Creation == [number : Nat, creator : Creators \union {NoCreator}, name : Names, vanity : BOOLEAN,
             nonce : Nat, time : Nat, hashed : SUBSET Names]

Call == [at : Steps, of : Creation \union {NoCreation}, mixed : SUBSET Names]

Idle == [at |-> "idle", of |-> NoCreation, mixed |-> {}]

At(c, step) == calls[c].at = step

-----------------------------------------------------------------------------

Init ==
    /\ now = 0
    /\ sequence \in {NoRow, 0}
    /\ calls = [c \in Calls |-> Idle]
    /\ requests = {}
    /\ answers = {}
    /\ given = {}
    /\ started = 0
    /\ failures = 0

Goes(c, step, creation) ==
    calls' = [calls EXCEPT ![c].at = step, ![c].of = creation]

Returns(c) == calls' = [calls EXCEPT ![c] = Idle]

Fails ==
    /\ failures < MaxFailures
    /\ failures' = failures + 1

Tick ==
    /\ now < MaxTime
    /\ now' = now + 1
    /\ UNCHANGED <<sequence, calls, requests, answers, given, started, failures>>

Enters(c, step, number, creator, name, vanity) ==
    /\ At(c, "idle")
    /\ Goes(c, step, [number |-> number, creator |-> creator, name |-> name,
                      vanity |-> vanity, nonce |-> 0, time |-> 0, hashed |-> {}])

\* CreateToken is called, with or without Digits.
BeginCreate(c, creator, name, vanity) ==
    /\ started < MaxStarted
    /\ started' = started + 1
    /\ Enters(c, "nonce", started + 1, creator, name, vanity)
    /\ UNCHANGED <<now, sequence, requests, answers, given, failures>>

\* CalculateAddress is called: it takes no nonce.
BeginCalculate(c, name, vanity) ==
    /\ Enters(c, "stamp", 0, NoCreator, name, vanity)
    /\ UNCHANGED <<now, sequence, requests, answers, given, started, failures>>

GetsNonce(c, n) ==
    /\ given' = given \union {<<calls[c].of.number, n>>}
    /\ Goes(c, "stamp", [calls[c].of EXCEPT !.nonce = n])

\* Mutant: the row is read and not updated.
Allocate_ReadsOnly(c) ==
    /\ At(c, "nonce")
    /\ sequence # NoRow
    /\ GetsNonce(c, sequence + 1)
    /\ UNCHANGED <<now, sequence, requests, answers, started, failures>>

\* UPDATE nonce_sequence ... RETURNING current_nonce.
Allocate(c) ==
    /\ At(c, "nonce")
    /\ sequence # NoRow
    /\ sequence' = sequence + 1
    /\ GetsNonce(c, sequence + 1)
    /\ UNCHANGED <<now, requests, answers, started, failures>>

\* The UPDATE finds no row, or fails with or without effect.
AllocateFails(c) ==
    /\ At(c, "nonce")
    /\ \/ /\ sequence = NoRow
          /\ UNCHANGED <<sequence, failures>>
       \/ /\ Fails
          /\ \/ UNCHANGED sequence
             \/ sequence # NoRow /\ sequence' = sequence + 1
    /\ Goes(c, "insert", calls[c].of)
    /\ UNCHANGED <<now, requests, answers, given, started>>

\* INSERT INTO nonce_sequence (..., created_at, ...): the table has no such
\* column, so the statement is refused, and its error ignored.
InsertRow(c) ==
    /\ At(c, "insert")
    /\ Goes(c, "read", calls[c].of)
    /\ UNCHANGED <<now, sequence, requests, answers, given, started, failures>>

\* SELECT current_nonce.
ReadNonce(c) ==
    /\ At(c, "read")
    /\ sequence # NoRow
    /\ GetsNonce(c, sequence)
    /\ UNCHANGED <<now, sequence, requests, answers, started, failures>>

ReadNonceFails(c) ==
    /\ At(c, "read")
    /\ IF sequence = NoRow THEN UNCHANGED failures ELSE Fails
    /\ Returns(c)
    /\ UNCHANGED <<now, sequence, requests, answers, given, started>>

-----------------------------------------------------------------------------
(* The calculator.                                                         *)

Calculating == {c \in Calls : At(c, "search") \/ At(c, "hash")}

\* Call c begins to append its arguments: from now on they may show up in what
\* the others hash, and theirs in what c hashes.
Appends(c, step, creation) ==
    calls' = [d \in Calls |->
        IF d = c
        THEN [at    |-> step,
              of    |-> creation,
              mixed |-> {creation.name} \union {calls[e].of.name : e \in Calculating \ {c}}]
        ELSE IF d \in Calculating
             THEN [calls[d] EXCEPT !.mixed = @ \union {creation.name}]
             ELSE calls[d]]

\* The timestamp is read, then the calculator is entered.
Stamp(c) ==
    /\ At(c, "stamp")
    /\ Appends(c, IF calls[c].of.vanity THEN "search" ELSE "hash", [calls[c].of EXCEPT !.time = now])
    /\ UNCHANGED <<now, sequence, requests, answers, given, started, failures>>

\* FindVanityAddress: a nonce it finds replaces the one of the sequence.  The
\* append that follows is PredictAddress's, or the last one of a search that is
\* not followed by it (CalculateAddress after a find).
Search(c) ==
    /\ At(c, "search")
    /\ \E n \in VanityNonces \union {calls[c].of.nonce} :
          Appends(c, "hash", [calls[c].of EXCEPT !.nonce = n])
    /\ UNCHANGED <<now, sequence, requests, answers, given, started, failures>>

\* Keccak256(initcode) in CalculateAddress.  CreateToken goes on to sign and
\* to save, the other call returns what it predicted.
Hash(c) ==
    /\ At(c, "hash")
    /\ IF calls[c].of.creator = NoCreator
       THEN Returns(c)
       ELSE \E hashed \in SUBSET calls[c].mixed \ {{}} :
               Goes(c, "save", [calls[c].of EXCEPT !.hashed = hashed])
    /\ UNCHANGED <<now, sequence, requests, answers, given, started, failures>>

-----------------------------------------------------------------------------
(* Saving the request.                                                     *)

\* Mutant: the nonce is not part of the hash.
RequestID_NoNonce(r) == <<r.creator, r.time, 0>>

\* GenerateRequestID.
RequestID(r) == <<r.creator, r.time, r.nonce>>

Taken(id) == \E r \in requests : RequestID(r) = id

\* Mutant: ON CONFLICT DO NOTHING.
Save_IgnoresConflict(c) ==
    /\ At(c, "save")
    /\ requests' = IF Taken(RequestID(calls[c].of)) THEN requests ELSE requests \union {calls[c].of}
    /\ answers' = answers \union {calls[c].of}
    /\ Returns(c)
    /\ UNCHANGED <<now, sequence, given, started, failures>>

\* INSERT INTO token_creation_requests: request_id is unique.
Save(c) ==
    /\ At(c, "save")
    /\ IF Taken(RequestID(calls[c].of))
       THEN UNCHANGED <<requests, answers>>
       ELSE /\ requests' = requests \union {calls[c].of}
            /\ answers' = answers \union {calls[c].of}
    /\ Returns(c)
    /\ UNCHANGED <<now, sequence, given, started, failures>>

\* Signing or the INSERT fails, or the request is saved and its answer lost.
SaveFails(c) ==
    /\ At(c, "save")
    /\ Fails
    /\ \/ UNCHANGED requests
       \/ /\ ~Taken(RequestID(calls[c].of))
          /\ requests' = requests \union {calls[c].of}
    /\ Returns(c)
    /\ UNCHANGED <<now, sequence, answers, given, started>>

Serve(c) ==
    \/ \E creator \in Creators, name \in Names, vanity \in BOOLEAN :
          BeginCreate(c, creator, name, vanity)
    \/ \E name \in Names, vanity \in BOOLEAN : BeginCalculate(c, name, vanity)
    \/ Allocate(c)
    \/ AllocateFails(c)
    \/ InsertRow(c)
    \/ ReadNonce(c)
    \/ ReadNonceFails(c)
    \/ Stamp(c)
    \/ Search(c)
    \/ Hash(c)
    \/ Save(c)
    \/ SaveFails(c)

Next == Tick \/ \E c \in Calls : Serve(c)

Spec == Init /\ [][Next]_vars

-----------------------------------------------------------------------------
(* Properties.                                                             *)

\* Every variable has its type.
\* Code: the variables of CreateToken and CalculateAddress, and the tables.
TypeOK ==
    /\ now \in Nat
    /\ sequence \in Nat \union {NoRow}
    /\ calls \in [Calls -> Call]
    /\ \A c \in Calls : calls[c].at # "idle" => calls[c].of \in Creation
    /\ requests \subseteq Creation
    /\ answers \subseteq Creation
    /\ given \subseteq Nat \X Nat
    /\ started \in Nat
    /\ failures \in Nat

\* Every answered creation is the saved request of its request id: no client
\* is answered with an id that stands for somebody else's request, also when
\* two calls were given the same nonce.
\* Code: request_id is unique and saveCreationRequest's error is returned.
AnswersAreSaved ==
    /\ answers \subseteq requests
    /\ \A r, s \in requests : RequestID(r) = RequestID(s) => r = s

\* While no statement has failed, no nonce is given twice.
\* Code: UPDATE ... RETURNING takes and returns a nonce in one statement.
NonceRepeatNeedsFailure ==
    failures = 0 => \A g, h \in given : g[2] = h[2] => g = h

\* A request is refused for its id only if a statement failed before or a
\* vanity search chose the nonce of one of the two.
\* Code: the request id is a hash of the creator, the second and the nonce.
RefusalNeedsCause ==
    \A c \in Calls : \A r \in requests :
        (At(c, "save") /\ RequestID(r) = RequestID(calls[c].of))
        => failures > 0 \/ calls[c].of.vanity \/ r.vanity

\* create2.go:68-69: the address is the hash over the bytecode and the
\* constructor arguments of the call.
\* Code: append writes the arguments into memory all calls share.
AddressIsOfItsArguments == \A a \in answers : a.hashed = {a.name}

\* service.go:323: getNextNonce gets the next nonce, one that nobody has.
\* Code: after a failed UPDATE the current nonce is read, not taken.
NonceIsNext == \A g, h \in given : g[2] = h[2] => g = h

=============================================================================
