----------------------- MODULE LegacyTokenCreation_proofs -----------------------
(***************************************************************************)
(* What LegacyTokenCreation guarantees for any number of calls, creators,  *)
(* seconds and failures: its type invariant, and the three safety          *)
(* properties of the safety run, from one inductive invariant.             *)
(***************************************************************************)
EXTENDS LegacyTokenCreation, TLAPS

Busy(c) == calls[c].at # "idle"

\* The steps only CreateToken has.
Creating == {"nonce", "insert", "read", "save"}

\* The steps of a call that has its nonce.
Numbered == {"stamp", "search", "hash", "save"}

\* Only CreateToken takes nonces and saves, and only vanity calls search.
StepsFit ==
    \A c \in Calls :
        /\ calls[c].at \in Creating => calls[c].of.creator # NoCreator
        /\ At(c, "search") => calls[c].of.vanity

\* Calls of CreateToken have numbers of their own.
NumbersDiffer ==
    /\ \A c \in Calls : Busy(c) => calls[c].of.number <= started
    /\ \A r \in requests : r.number <= started
    /\ \A c, d \in Calls :
          (/\ Busy(c) /\ calls[c].of.creator # NoCreator
           /\ Busy(d) /\ calls[d].of.creator # NoCreator
           /\ calls[c].of.number = calls[d].of.number) => c = d
    /\ \A c \in Calls : \A r \in requests :
          (Busy(c) /\ calls[c].of.creator # NoCreator) => r.number # calls[c].of.number

\* A nonce that no search found was given to the call that uses it.
NoncesAreGiven ==
    /\ \A c \in Calls :
          (/\ calls[c].at \in Numbered
           /\ calls[c].of.creator # NoCreator
           /\ ~calls[c].of.vanity) => <<calls[c].of.number, calls[c].of.nonce>> \in given
    /\ \A r \in requests : ~r.vanity => <<r.number, r.nonce>> \in given

\* Without a failure the sequence is ahead of what was given, and the fallback
\* is only reached where there is no sequence.
SequenceAhead ==
    failures = 0 =>
        /\ \A g \in given : g[2] <= sequence
        /\ \A c \in Calls : calls[c].at \in {"insert", "read"} => sequence = NoRow

IInv ==
    /\ TypeOK
    /\ StepsFit
    /\ NumbersDiffer
    /\ NoncesAreGiven
    /\ SequenceAhead
    /\ NonceRepeatNeedsFailure
    /\ AnswersAreSaved

-----------------------------------------------------------------------------

\* The invariant holds where the service starts.
\* Code: empty tables, no request yet.
LEMMA InitInvariant == Init => IInv
<1> SUFFICES ASSUME Init PROVE IInv
  OBVIOUS
<1>1. TypeOK
  BY DEF Init, TypeOK, NoRow, Idle, Call, Steps
<1>2. StepsFit /\ NumbersDiffer /\ NoncesAreGiven
  BY DEF Init, StepsFit, NumbersDiffer, NoncesAreGiven, Busy, At, Idle, Creating, Numbered
<1>3. SequenceAhead /\ NonceRepeatNeedsFailure /\ AnswersAreSaved
  BY DEF Init, SequenceAhead, NonceRepeatNeedsFailure, AnswersAreSaved, Idle
<1> QED
  BY <1>1, <1>2, <1>3 DEF IInv

\* A call that moves on keeps the types, whatever step it goes to.
\* Code: the local variables of CreateToken and CalculateAddress.
LEMMA GoesTyped ==
    ASSUME calls \in [Calls -> Call], NEW c \in Calls, NEW step \in Steps,
           NEW creation \in Creation, Goes(c, step, creation),
           \A d \in Calls : calls[d].at # "idle" => calls[d].of \in Creation
    PROVE  /\ calls' \in [Calls -> Call]
           /\ \A d \in Calls : calls'[d].at # "idle" => calls'[d].of \in Creation
<1>1. calls' = [calls EXCEPT ![c] = [calls[c] EXCEPT !.at = step, !.of = creation]]
  BY DEF Goes, Call
<1>2. [calls[c] EXCEPT !.at = step, !.of = creation] \in Call
  BY DEF Call
<1>3. [calls[c] EXCEPT !.at = step, !.of = creation].of = creation
  BY DEF Call
<1> QED
  BY <1>1, <1>2, <1>3

\* So does a call that returns.
\* Code: the end of the handler.
LEMMA ReturnsTyped ==
    ASSUME calls \in [Calls -> Call], NEW c \in Calls, Returns(c),
           \A d \in Calls : calls[d].at # "idle" => calls[d].of \in Creation
    PROVE  /\ calls' \in [Calls -> Call]
           /\ \A d \in Calls : calls'[d].at # "idle" => calls'[d].of \in Creation
<1>1. Idle \in Call /\ Idle.at = "idle"
  BY DEF Idle, Call, Steps
<1> QED
  BY <1>1 DEF Returns

\* So does a call that appends to the shared bytecode, for itself and for the
\* calls in the calculator.
\* Code: append in Create2Calculator.CalculateAddress.
LEMMA AppendsTyped ==
    ASSUME calls \in [Calls -> Call], NEW c \in Calls, NEW step \in Steps,
           NEW creation \in Creation, Appends(c, step, creation),
           \A d \in Calls : calls[d].at # "idle" => calls[d].of \in Creation
    PROVE  /\ calls' \in [Calls -> Call]
           /\ \A d \in Calls : calls'[d].at # "idle" => calls'[d].of \in Creation
<1>1. \A d \in Calls : calls'[d] \in Call
  <2>1. \A e \in Calculating : calls[e].of \in Creation
    BY DEF Calculating, At
  <2>2. creation.name \in Names /\ \A e \in Calculating : calls[e].of.name \in Names
    BY <2>1 DEF Creation
  <2>3. {creation.name} \union {calls[e].of.name : e \in Calculating \ {c}} \in SUBSET Names
    BY <2>2
  <2>4. calls'[c] \in Call
    BY <2>3 DEF Appends, Call
  <2>5. ASSUME NEW d \in Calls, d # c PROVE calls'[d] \in Call
    BY <2>2, <2>5 DEF Appends, Call
  <2> QED
    BY <2>4, <2>5
<1>2. \A d \in Calls : calls'[d].at # "idle" => calls'[d].of \in Creation
  BY DEF Appends, Call
<1>3. calls' = [d \in Calls |-> calls'[d]]
  BY DEF Appends
<1> QED
  BY <1>1, <1>2, <1>3

\* What a step does to the calls, without the memory they share.
Moves(c, step, creation) ==
    /\ calls'[c].at = step
    /\ calls'[c].of = creation
    /\ \A d \in Calls \ {c} : calls'[d].at = calls[d].at /\ calls'[d].of = calls[d].of

\* Both ways to move on are such moves.
\* Code: a step of one call leaves the parameters of the others alone.
LEMMA GoesMoves ==
    ASSUME calls \in [Calls -> Call], NEW c \in Calls, NEW step, NEW creation,
           Goes(c, step, creation) \/ Appends(c, step, creation)
    PROVE  Moves(c, step, creation)
<1>1. CASE Goes(c, step, creation)
  <2>1. calls' = [calls EXCEPT ![c] = [calls[c] EXCEPT !.at = step, !.of = creation]]
    BY <1>1 DEF Goes, Call
  <2>2. /\ [calls[c] EXCEPT !.at = step, !.of = creation].of = creation
        /\ [calls[c] EXCEPT !.at = step, !.of = creation].at = step
    BY DEF Call
  <2> QED
    BY <2>1, <2>2 DEF Moves
<1>2. CASE Appends(c, step, creation)
  BY <1>2 DEF Appends, Moves, Call
<1> QED
  BY <1>1, <1>2

\* Every step keeps the types.
\* Code: every statement of CreateToken and CalculateAddress.
LEMMA TypeStep ==
    ASSUME TypeOK, [Next]_vars
    PROVE  TypeOK'
<1> USE CreationAssumption DEF TypeOK
<1>1. CASE Tick
  BY <1>1 DEF Tick
<1>2. ASSUME NEW c \in Calls, NEW creator \in Creators, NEW name \in Names, NEW vanity \in BOOLEAN,
             BeginCreate(c, creator, name, vanity)
      PROVE  TypeOK'
  <2> DEFINE new == [number |-> started + 1, creator |-> creator, name |-> name,
                     vanity |-> vanity, nonce |-> 0, time |-> 0, hashed |-> {}]
  <2>1. new \in Creation /\ Goes(c, "nonce", new)
    BY <1>2 DEF BeginCreate, Enters, Creation
  <2> HIDE DEF new
  <2>2. "nonce" \in Steps
    BY DEF Steps
  <2> QED
    BY <1>2, <2>1, <2>2, GoesTyped DEF BeginCreate
<1>3. ASSUME NEW c \in Calls, NEW name \in Names, NEW vanity \in BOOLEAN,
             BeginCalculate(c, name, vanity)
      PROVE  TypeOK'
  <2> DEFINE new == [number |-> 0, creator |-> NoCreator, name |-> name,
                     vanity |-> vanity, nonce |-> 0, time |-> 0, hashed |-> {}]
  <2>1. new \in Creation /\ Goes(c, "stamp", new)
    BY <1>3 DEF BeginCalculate, Enters, Creation
  <2> HIDE DEF new
  <2>2. "stamp" \in Steps
    BY DEF Steps
  <2> QED
    BY <1>3, <2>1, <2>2, GoesTyped DEF BeginCalculate
<1>4. ASSUME NEW c \in Calls, NEW n \in Nat, GetsNonce(c, n), calls[c].at # "idle"
      PROVE  /\ calls' \in [Calls -> Call]
             /\ \A d \in Calls : calls'[d].at # "idle" => calls'[d].of \in Creation
             /\ given' \subseteq Nat \X Nat
  <2> DEFINE new == [calls[c].of EXCEPT !.nonce = n]
  <2>1. new \in Creation /\ Goes(c, "stamp", new) /\ calls[c].of.number \in Nat
    BY <1>4 DEF GetsNonce, Creation
  <2> HIDE DEF new
  <2>2. "stamp" \in Steps
    BY DEF Steps
  <2>3. given' \subseteq Nat \X Nat
    BY <1>4, <2>1 DEF GetsNonce
  <2> QED
    BY <2>1, <2>2, <2>3, GoesTyped
<1>5. ASSUME NEW c \in Calls, Allocate(c) PROVE TypeOK'
  <2>1. sequence + 1 \in Nat
    BY <1>5 DEF Allocate, NoRow
  <2> QED
    BY <1>5, <2>1, <1>4 DEF Allocate, At
<1>6. ASSUME NEW c \in Calls, AllocateFails(c) PROVE TypeOK'
  <2>1. "insert" \in Steps /\ calls[c].of \in Creation
    BY <1>6 DEF AllocateFails, At, Steps
  <2>2. sequence' \in Nat \union {NoRow} /\ failures' \in Nat
    BY <1>6 DEF AllocateFails, NoRow, Fails
  <2> QED
    BY <1>6, <2>1, <2>2, GoesTyped DEF AllocateFails
<1>7. ASSUME NEW c \in Calls, InsertRow(c) PROVE TypeOK'
  <2>1. "read" \in Steps /\ calls[c].of \in Creation
    BY <1>7 DEF InsertRow, At, Steps
  <2> QED
    BY <1>7, <2>1, GoesTyped DEF InsertRow
<1>8. ASSUME NEW c \in Calls, ReadNonce(c) PROVE TypeOK'
  BY <1>8, <1>4 DEF ReadNonce, At
<1>9. ASSUME NEW c \in Calls, ReadNonceFails(c) PROVE TypeOK'
  <2>1. failures' \in Nat
    BY <1>9 DEF ReadNonceFails, Fails
  <2> QED
    BY <1>9, <2>1, ReturnsTyped DEF ReadNonceFails
<1>10. ASSUME NEW c \in Calls, Stamp(c) PROVE TypeOK'
  <2> DEFINE new == [calls[c].of EXCEPT !.time = now]
             step == IF calls[c].of.vanity THEN "search" ELSE "hash"
  <2>1. new \in Creation /\ step \in Steps /\ Appends(c, step, new)
    BY <1>10 DEF Stamp, At, Steps, Creation
  <2> HIDE DEF new, step
  <2> QED
    BY <1>10, <2>1, AppendsTyped DEF Stamp
<1>11. ASSUME NEW c \in Calls, Search(c) PROVE TypeOK'
  <2>1. PICK n \in VanityNonces \union {calls[c].of.nonce} :
               Appends(c, "hash", [calls[c].of EXCEPT !.nonce = n])
    BY <1>11 DEF Search
  <2> DEFINE new == [calls[c].of EXCEPT !.nonce = n]
  <2>2. calls[c].of \in Creation
    BY <1>11 DEF Search, At
  <2>3. n \in Nat
    BY <2>2 DEF Creation
  <2>4. new \in Creation /\ "hash" \in Steps /\ Appends(c, "hash", new)
    BY <2>1, <2>2, <2>3 DEF Steps, Creation
  <2> HIDE DEF new
  <2> QED
    BY <1>11, <2>4, AppendsTyped DEF Search
<1>12. ASSUME NEW c \in Calls, Hash(c) PROVE TypeOK'
  <2>1. CASE calls[c].of.creator = NoCreator
    BY <1>12, <2>1, ReturnsTyped DEF Hash
  <2>2. CASE calls[c].of.creator # NoCreator
    <3>1. PICK hashed \in SUBSET calls[c].mixed \ {{}} :
                 Goes(c, "save", [calls[c].of EXCEPT !.hashed = hashed])
      BY <1>12, <2>2 DEF Hash
    <3> DEFINE new == [calls[c].of EXCEPT !.hashed = hashed]
    <3>2. hashed \in SUBSET Names
      BY DEF Call
    <3>3. new \in Creation /\ "save" \in Steps /\ Goes(c, "save", new)
      BY <1>12, <3>1, <3>2 DEF Hash, At, Steps, Creation
    <3> HIDE DEF new
    <3> QED
      BY <1>12, <3>3, GoesTyped DEF Hash
  <2> QED
    BY <2>1, <2>2
<1>13. ASSUME NEW c \in Calls, Save(c) PROVE TypeOK'
  <2>1. calls[c].of \in Creation
    BY <1>13 DEF Save, At
  <2> QED
    BY <1>13, <2>1, ReturnsTyped DEF Save
<1>14. ASSUME NEW c \in Calls, SaveFails(c) PROVE TypeOK'
  <2>1. calls[c].of \in Creation
    BY <1>14 DEF SaveFails, At
  <2> QED
    BY <1>14, <2>1, ReturnsTyped DEF SaveFails, Fails
<1>15. CASE UNCHANGED vars
  BY <1>15 DEF vars
<1> QED
  BY <1>1, <1>2, <1>3, <1>5, <1>6, <1>7, <1>8, <1>9, <1>10, <1>11, <1>12, <1>13, <1>14, <1>15
     DEF Next, Serve

-----------------------------------------------------------------------------

\* A call goes on to a step with the number, creator and kind it has.
Continues(c, step) ==
    /\ Busy(c)
    /\ calls'[c].at = step
    /\ calls'[c].of.number = calls[c].of.number
    /\ calls'[c].of.creator = calls[c].of.creator
    /\ calls'[c].of.vanity = calls[c].of.vanity
    /\ \A d \in Calls \ {c} : calls'[d].at = calls[d].at /\ calls'[d].of = calls[d].of

\* The three ways in which a creation changes on the way.
\* Code: nonce, timestamp and predicted address are set, the rest is kept.
LEMMA MovesContinues ==
    ASSUME TypeOK, NEW c \in Calls, Busy(c), NEW step, NEW n, NEW t, NEW h,
           \/ Moves(c, step, calls[c].of)
           \/ Moves(c, step, [calls[c].of EXCEPT !.nonce = n])
           \/ Moves(c, step, [calls[c].of EXCEPT !.time = t])
           \/ Moves(c, step, [calls[c].of EXCEPT !.hashed = h])
    PROVE  Continues(c, step)
<1>1. calls[c].of \in Creation
  BY DEF TypeOK, Busy
<1> QED
  BY <1>1 DEF Continues, Moves, Creation

\* What a call that goes on cannot disturb.
\* Code: the steps between the nonce and the insert of CreateToken.
LEMMA Continuing ==
    ASSUME StepsFit, NumbersDiffer, NoncesAreGiven, NEW c \in Calls, NEW step, Continues(c, step),
           requests' = requests, started' = started, given \subseteq given', step # "idle",
           step \in Creating => calls[c].of.creator # NoCreator,
           step = "search" => calls[c].of.vanity,
           (step \in Numbered /\ calls[c].of.creator # NoCreator /\ ~calls[c].of.vanity)
           => <<calls[c].of.number, calls'[c].of.nonce>> \in given'
    PROVE  StepsFit' /\ NumbersDiffer' /\ NoncesAreGiven'
<1>1. StepsFit'
  BY DEF StepsFit, Continues, At
<1>2. NumbersDiffer'
  BY SMTT(20) DEF NumbersDiffer, Continues, Busy
<1>3. NoncesAreGiven'
  BY DEF NoncesAreGiven, Continues
<1> QED
  BY <1>1, <1>2, <1>3

\* What a call that returns cannot disturb, having saved its request or not.
\* Code: the end of CreateToken and CalculateAddress.
LEMMA Returning ==
    ASSUME TypeOK, StepsFit, NumbersDiffer, NoncesAreGiven, NEW c \in Calls, Busy(c), Returns(c),
           started' = started, given' = given,
           \/ requests' = requests
           \/ /\ requests' = requests \union {calls[c].of}
              /\ At(c, "save")
    PROVE  StepsFit' /\ NumbersDiffer' /\ NoncesAreGiven'
<1>1. calls'[c].at = "idle" /\ \A d \in Calls \ {c} : calls'[d] = calls[d]
  BY DEF Returns, Idle, TypeOK
<1>2. StepsFit'
  BY <1>1 DEF StepsFit, At, Creating
<1>3. At(c, "save") => calls[c].of.creator # NoCreator
  BY DEF StepsFit, Creating, At
<1>4. NumbersDiffer'
  BY <1>1, <1>3 DEF NumbersDiffer, Busy
<1>5. NoncesAreGiven'
  BY <1>1, <1>3 DEF NoncesAreGiven, At, Numbered
<1> QED
  BY <1>2, <1>4, <1>5

\* A new call has a number nobody has.
\* Code: the handlers for create-token and calculate-address.
LEMMA Beginning ==
    ASSUME TypeOK, StepsFit, NumbersDiffer, NoncesAreGiven, NEW c \in Calls, NEW creator, NEW name, NEW vanity,
           \/ /\ BeginCreate(c, creator, name, vanity)
              /\ creator \in Creators
           \/ BeginCalculate(c, name, vanity)
    PROVE  StepsFit' /\ NumbersDiffer' /\ NoncesAreGiven'
<1>1. PICK step \in {"nonce", "stamp"} :
         /\ calls'[c].at = step
         /\ \A d \in Calls \ {c} : calls'[d].at = calls[d].at /\ calls'[d].of = calls[d].of
         /\ \/ /\ step = "nonce"
               /\ calls'[c].of.creator # NoCreator
               /\ calls'[c].of.number = started + 1
               /\ started' = started + 1
            \/ /\ step = "stamp"
               /\ calls'[c].of.creator = NoCreator
               /\ calls'[c].of.number = 0
               /\ started' = started
  <2>1. CASE BeginCreate(c, creator, name, vanity) /\ creator \in Creators
    <3> DEFINE new == [number |-> started + 1, creator |-> creator, name |-> name,
                       vanity |-> vanity, nonce |-> 0, time |-> 0, hashed |-> {}]
    <3>1. new.number = started + 1 /\ new.creator # NoCreator /\ started' = started + 1
      BY <2>1, CreationAssumption DEF BeginCreate
    <3>2. Goes(c, "nonce", new)
      BY <2>1 DEF BeginCreate, Enters
    <3> HIDE DEF new
    <3>3. Moves(c, "nonce", new)
      BY <3>2, GoesMoves DEF TypeOK
    <3> QED
      BY <3>1, <3>3 DEF Moves
  <2>2. CASE BeginCalculate(c, name, vanity)
    <3> DEFINE new == [number |-> 0, creator |-> NoCreator, name |-> name,
                       vanity |-> vanity, nonce |-> 0, time |-> 0, hashed |-> {}]
    <3>1. new.number = 0 /\ new.creator = NoCreator /\ started' = started
      BY <2>2 DEF BeginCalculate
    <3>2. Goes(c, "stamp", new)
      BY <2>2 DEF BeginCalculate, Enters
    <3> HIDE DEF new
    <3>3. Moves(c, "stamp", new)
      BY <3>2, GoesMoves DEF TypeOK
    <3> QED
      BY <3>1, <3>3 DEF Moves
  <2> QED
    BY <2>1, <2>2
<1>2. requests' = requests /\ given' = given
  BY DEF BeginCreate, BeginCalculate
<1>3. /\ started \in Nat
      /\ \A d \in Calls : Busy(d) => calls[d].of.number \in Nat
      /\ \A r \in requests : r.number \in Nat
  BY DEF TypeOK, Busy, Creation
<1>4. StepsFit'
  BY <1>1 DEF StepsFit, At, Creating
<1>5. NumbersDiffer'
  BY <1>1, <1>2, <1>3 DEF NumbersDiffer, Busy
<1>6. NoncesAreGiven'
  BY <1>1, <1>2 DEF NoncesAreGiven, Numbered
<1> QED
  BY <1>4, <1>5, <1>6

\* Every step keeps the calls apart, and their nonces with them.
\* Code: every statement of CreateToken and CalculateAddress.
LEMMA CallsStep ==
    ASSUME TypeOK, StepsFit, NumbersDiffer, NoncesAreGiven, [Next]_vars
    PROVE  StepsFit' /\ NumbersDiffer' /\ NoncesAreGiven'
<1> USE DEF At, Busy, Creating, Numbered
<1> DEFINE Goal == StepsFit' /\ NumbersDiffer' /\ NoncesAreGiven'
<1>1. CASE Tick \/ UNCHANGED vars
  BY <1>1 DEF Tick, vars, StepsFit, NumbersDiffer, NoncesAreGiven
<1>2. ASSUME NEW c \in Calls, NEW creator \in Creators, NEW name \in Names, NEW vanity \in BOOLEAN,
             BeginCreate(c, creator, name, vanity)
      PROVE  Goal
  BY <1>2, Beginning
<1>3. ASSUME NEW c \in Calls, NEW name \in Names, NEW vanity \in BOOLEAN,
             BeginCalculate(c, name, vanity)
      PROVE  Goal
  BY <1>3, Beginning
<1>4. ASSUME NEW c \in Calls, NEW n, GetsNonce(c, n), Busy(c), calls[c].at \in Creating,
             requests' = requests, started' = started
      PROVE  Goal
  <2>1. Moves(c, "stamp", [calls[c].of EXCEPT !.nonce = n])
    BY <1>4, GoesMoves DEF GetsNonce, TypeOK
  <2>2. calls'[c].of.nonce = n
    BY <1>4, <2>1 DEF Moves, TypeOK, Creation
  <2>3. <<calls[c].of.number, n>> \in given' /\ given \subseteq given'
    BY <1>4 DEF GetsNonce
  <2>4. Continues(c, "stamp")
    BY <1>4, <2>1, MovesContinues
  <2> QED
    BY <1>4, <2>2, <2>3, <2>4, Continuing
<1>5. ASSUME NEW c \in Calls, Allocate(c) \/ ReadNonce(c) PROVE Goal
  BY <1>4, <1>5 DEF Allocate, ReadNonce
<1>6. ASSUME NEW c \in Calls, AllocateFails(c) \/ InsertRow(c) PROVE Goal
  <2>1. PICK step \in {"insert", "read"} : Goes(c, step, calls[c].of)
    BY <1>6 DEF AllocateFails, InsertRow
  <2>2. Continues(c, step)
    BY <1>6, <2>1, GoesMoves, MovesContinues DEF AllocateFails, InsertRow, TypeOK
  <2>3. calls[c].of.creator # NoCreator
    BY <1>6 DEF StepsFit, AllocateFails, InsertRow
  <2> QED
    BY <1>6, <2>2, <2>3, Continuing DEF AllocateFails, InsertRow
<1>7. ASSUME NEW c \in Calls, ReadNonceFails(c) \/ Save(c) \/ SaveFails(c) PROVE Goal
  <2>1. Busy(c) /\ Returns(c) /\ started' = started /\ given' = given
    BY <1>7 DEF ReadNonceFails, Save, SaveFails
  <2>2. \/ requests' = requests
        \/ /\ requests' = requests \union {calls[c].of}
           /\ At(c, "save")
    BY <1>7 DEF ReadNonceFails, Save, SaveFails
  <2> QED
    BY <2>1, <2>2, Returning
<1>8. ASSUME NEW c \in Calls, Stamp(c) PROVE Goal
  <2> DEFINE step == IF calls[c].of.vanity THEN "search" ELSE "hash"
  <2>1. Moves(c, step, [calls[c].of EXCEPT !.time = now])
    BY <1>8, GoesMoves DEF Stamp, TypeOK
  <2>2. calls'[c].of.nonce = calls[c].of.nonce
    BY <1>8, <2>1 DEF Moves, Stamp, TypeOK, Creation
  <2>3. Continues(c, step)
    BY <1>8, <2>1, MovesContinues DEF Stamp
  <2>4. /\ step \in {"search", "hash"}
        /\ step = "search" => calls[c].of.vanity
        /\ (calls[c].of.creator # NoCreator /\ ~calls[c].of.vanity)
           => <<calls[c].of.number, calls[c].of.nonce>> \in given
    BY <1>8 DEF Stamp, NoncesAreGiven
  <2> HIDE DEF step
  <2> QED
    BY <1>8, <2>2, <2>3, <2>4, Continuing DEF Stamp
<1>9. ASSUME NEW c \in Calls, Search(c) PROVE Goal
  <2>1. PICK n : Appends(c, "hash", [calls[c].of EXCEPT !.nonce = n])
    BY <1>9 DEF Search
  <2>2. Moves(c, "hash", [calls[c].of EXCEPT !.nonce = n])
    BY <2>1, GoesMoves DEF TypeOK
  <2>3. Continues(c, "hash")
    BY <1>9, <2>2, MovesContinues DEF Search
  <2>4. calls[c].of.vanity
    BY <1>9 DEF Search, StepsFit
  <2> QED
    BY <1>9, <2>3, <2>4, Continuing DEF Search
<1>10. ASSUME NEW c \in Calls, Hash(c) PROVE Goal
  <2>1. CASE calls[c].of.creator = NoCreator
    BY <1>10, <2>1, Returning DEF Hash
  <2>2. CASE calls[c].of.creator # NoCreator
    <3>1. PICK h : Goes(c, "save", [calls[c].of EXCEPT !.hashed = h])
      BY <1>10, <2>2 DEF Hash
    <3>2. Moves(c, "save", [calls[c].of EXCEPT !.hashed = h])
      BY <3>1, GoesMoves DEF TypeOK
    <3>3. Continues(c, "save")
      BY <1>10, <3>2, MovesContinues DEF Hash
    <3>4. calls'[c].of.nonce = calls[c].of.nonce
      BY <1>10, <3>2 DEF Moves, Hash, TypeOK, Creation
    <3>5. ~calls[c].of.vanity => <<calls[c].of.number, calls[c].of.nonce>> \in given
      BY <1>10, <2>2 DEF Hash, NoncesAreGiven
    <3> QED
      BY <1>10, <2>2, <3>3, <3>4, <3>5, Continuing DEF Hash
  <2> QED
    BY <2>1, <2>2
<1> QED
  BY <1>1, <1>2, <1>3, <1>5, <1>6, <1>7, <1>8, <1>9, <1>10 DEF Next, Serve

\* Every step keeps the sequence ahead of the nonces it gave, and gives none
\* twice, until something fails.
\* Code: getNextNonce.
LEMMA SequenceStep ==
    ASSUME TypeOK, SequenceAhead, NonceRepeatNeedsFailure, [Next]_vars
    PROVE  SequenceAhead' /\ NonceRepeatNeedsFailure'
<1> USE DEF At
<1> DEFINE Goal == SequenceAhead' /\ NonceRepeatNeedsFailure'
           \* No call newly reaches the fallback, and nothing is given or counted.
           Aside(c) == /\ \A d \in Calls \ {c} : calls'[d].at = calls[d].at
                       /\ calls'[c].at \notin {"insert", "read"}
                       /\ UNCHANGED <<sequence, given>>
                       /\ failures' \in Nat
                       /\ failures' >= failures
<1>0. failures \in Nat /\ given \subseteq Nat \X Nat /\ sequence \in Nat \union {NoRow}
  BY DEF TypeOK
<1>1. ASSUME NEW c \in Calls, Aside(c) PROVE Goal
  BY <1>0, <1>1 DEF SequenceAhead, NonceRepeatNeedsFailure
<1>2. CASE Tick \/ UNCHANGED vars
  BY <1>2 DEF Tick, vars, SequenceAhead, NonceRepeatNeedsFailure
<1>3. ASSUME NEW c \in Calls, NEW step \in Steps \ {"insert", "read"}, NEW creation,
             Goes(c, step, creation) \/ Appends(c, step, creation),
             UNCHANGED <<sequence, given, failures>>
      PROVE  Goal
  <2>1. Moves(c, step, creation)
    BY <1>3, GoesMoves DEF TypeOK
  <2> QED
    BY <1>0, <1>1, <1>3, <2>1 DEF Moves
<1>4. ASSUME NEW c \in Calls, NEW creator \in Creators, NEW name \in Names, NEW vanity \in BOOLEAN,
             BeginCreate(c, creator, name, vanity)
      PROVE  Goal
  BY <1>3, <1>4 DEF BeginCreate, Enters, Steps
<1>5. ASSUME NEW c \in Calls, NEW name \in Names, NEW vanity \in BOOLEAN,
             BeginCalculate(c, name, vanity)
      PROVE  Goal
  BY <1>3, <1>5 DEF BeginCalculate, Enters, Steps
<1>6. ASSUME NEW c \in Calls, NEW n \in Nat, GetsNonce(c, n)
      PROVE  /\ calls'[c].at = "stamp"
             /\ \A d \in Calls \ {c} : calls'[d].at = calls[d].at
             /\ given' = given \union {<<calls[c].of.number, n>>}
  BY <1>6, GoesMoves DEF GetsNonce, Moves, TypeOK
<1>7. ASSUME NEW c \in Calls, Allocate(c) PROVE Goal
  <2>1. sequence \in Nat /\ sequence' = sequence + 1 /\ failures' = failures
    BY <1>0, <1>7 DEF Allocate
  <2>2. /\ calls'[c].at = "stamp"
        /\ \A d \in Calls \ {c} : calls'[d].at = calls[d].at
        /\ given' = given \union {<<calls[c].of.number, sequence + 1>>}
    BY <1>6, <1>7, <2>1 DEF Allocate
  <2>3. SequenceAhead'
    <3>1. failures = 0 => \A g \in given' : g[2] <= sequence'
      BY <1>0, <2>1, <2>2 DEF SequenceAhead
    <3>2. failures = 0 => \A d \in Calls : calls[d].at \notin {"insert", "read"}
      BY <1>7 DEF SequenceAhead, Allocate
    <3> QED
      BY <2>1, <2>2, <3>1, <3>2 DEF SequenceAhead
  <2>4. NonceRepeatNeedsFailure'
    <3>1. failures = 0 => \A g \in given : g[2] # sequence + 1
      BY <1>0, <2>1 DEF SequenceAhead
    <3> QED
      BY <2>1, <2>2, <3>1 DEF NonceRepeatNeedsFailure
  <2> QED
    BY <2>3, <2>4
<1>8. ASSUME NEW c \in Calls, AllocateFails(c) PROVE Goal
  <2>1. CASE failures' = failures
    <3>1. sequence = NoRow /\ sequence' = sequence /\ given' = given
      BY <1>0, <1>8, <2>1 DEF AllocateFails, Fails
    <3> QED
      BY <2>1, <3>1 DEF SequenceAhead, NonceRepeatNeedsFailure
  <2>2. CASE failures' = failures + 1
    BY <1>0, <2>2 DEF SequenceAhead, NonceRepeatNeedsFailure
  <2> QED
    BY <1>8, <2>1, <2>2 DEF AllocateFails, Fails
<1>9. ASSUME NEW c \in Calls, InsertRow(c) PROVE Goal
  <2>1. failures = 0 => sequence = NoRow
    BY <1>9 DEF InsertRow, SequenceAhead
  <2> QED
    BY <1>9, <2>1 DEF InsertRow, SequenceAhead, NonceRepeatNeedsFailure
<1>10. ASSUME NEW c \in Calls, ReadNonce(c) PROVE Goal
  <2>1. failures' # 0
    BY <1>10 DEF ReadNonce, SequenceAhead
  <2> QED
    BY <2>1 DEF SequenceAhead, NonceRepeatNeedsFailure
<1>11. ASSUME NEW c \in Calls, Returns(c), UNCHANGED <<sequence, given>>,
              failures' \in Nat, failures' >= failures
       PROVE  Goal
  <2>1. calls'[c].at = "idle" /\ \A d \in Calls \ {c} : calls'[d] = calls[d]
    BY <1>11 DEF Returns, Idle, TypeOK
  <2> QED
    BY <1>1, <1>11, <2>1
<1>12. ASSUME NEW c \in Calls, ReadNonceFails(c) \/ Save(c) \/ SaveFails(c) PROVE Goal
  <2>1. failures' \in Nat /\ failures' >= failures
    BY <1>0, <1>12 DEF ReadNonceFails, Save, SaveFails, Fails
  <2> QED
    BY <1>11, <1>12, <2>1 DEF ReadNonceFails, Save, SaveFails
<1>13. ASSUME NEW c \in Calls, Stamp(c) PROVE Goal
  <2>1. (IF calls[c].of.vanity THEN "search" ELSE "hash") \in Steps \ {"insert", "read"}
    BY DEF Steps
  <2> QED
    BY <1>3, <1>13, <2>1 DEF Stamp
<1>14. ASSUME NEW c \in Calls, Search(c) PROVE Goal
  BY <1>3, <1>14 DEF Search, Steps
<1>15. ASSUME NEW c \in Calls, Hash(c) PROVE Goal
  <2>1. CASE calls[c].of.creator = NoCreator
    BY <1>0, <1>11, <1>15, <2>1 DEF Hash
  <2>2. CASE calls[c].of.creator # NoCreator
    <3>1. PICK h : Goes(c, "save", [calls[c].of EXCEPT !.hashed = h])
      BY <1>15, <2>2 DEF Hash
    <3>2. "save" \in Steps \ {"insert", "read"}
      BY DEF Steps
    <3> QED
      BY <1>3, <1>15, <3>1, <3>2 DEF Hash
  <2> QED
    BY <2>1, <2>2
<1> QED
  BY <1>2, <1>4, <1>5, <1>7, <1>8, <1>9, <1>10, <1>12, <1>13, <1>14, <1>15 DEF Next, Serve

\* Every step keeps the answers saved, each under an id of its own.
\* Code: the insert into token_creation_requests.
LEMMA AnswersStep ==
    ASSUME TypeOK, AnswersAreSaved, [Next]_vars
    PROVE  AnswersAreSaved'
<1>1. ASSUME requests' = requests, answers' = answers PROVE AnswersAreSaved'
  BY <1>1 DEF AnswersAreSaved, RequestID
<1>2. ASSUME NEW r, ~Taken(RequestID(r)), requests' = requests \union {r},
             answers' \subseteq answers \union {r}
      PROVE  AnswersAreSaved'
  <2>1. answers' \subseteq requests'
    BY <1>2 DEF AnswersAreSaved
  <2>2. \A s \in requests : RequestID(s) # RequestID(r)
    BY <1>2 DEF Taken
  <2>3. \A s, t \in requests' : RequestID(s) = RequestID(t) => s = t
    BY <1>2, <2>2 DEF AnswersAreSaved
  <2> QED
    BY <2>1, <2>3 DEF AnswersAreSaved, RequestID
<1>3. ASSUME NEW c \in Calls, Save(c) PROVE AnswersAreSaved'
  BY <1>1, <1>2, <1>3 DEF Save
<1>4. ASSUME NEW c \in Calls, SaveFails(c) PROVE AnswersAreSaved'
  BY <1>1, <1>2, <1>4 DEF SaveFails
<1>5. ASSUME NEW c \in Calls, Serve(c), ~Save(c), ~SaveFails(c) PROVE AnswersAreSaved'
  BY <1>1, <1>5
     DEF Serve, BeginCreate, BeginCalculate, Allocate, AllocateFails, InsertRow, ReadNonce,
         ReadNonceFails, Stamp, Search, Hash
<1> QED
  BY <1>1, <1>3, <1>4, <1>5 DEF Next, Tick, vars

-----------------------------------------------------------------------------

\* The inductive invariant holds in every reachable state.
\* Code: CreateToken and CalculateAddress, any number of them at a time.
THEOREM CreationInvariant == Spec => []IInv
<1>1. IInv /\ [Next]_vars => IInv'
  BY TypeStep, CallsStep, SequenceStep, AnswersStep DEF IInv
<1> QED
  BY <1>1, InitInvariant, PTL DEF Spec

\* Every variable keeps its type.
\* Code: the variables of CreateToken and CalculateAddress, and the tables.
THEOREM TypeCorrect == Spec => []TypeOK
<1>1. IInv => TypeOK
  BY DEF IInv
<1> QED
  BY <1>1, CreationInvariant, PTL

\* Every answered creation is the saved request of its id.
\* Code: request_id is unique and the error of the insert is returned.
THEOREM AnswersStandForTheirRequests == Spec => []AnswersAreSaved
<1>1. IInv => AnswersAreSaved
  BY DEF IInv
<1> QED
  BY <1>1, CreationInvariant, PTL

\* A nonce is given twice only after a failure.
\* Code: UPDATE ... RETURNING in getNextNonce.
THEOREM NoncesAreFreshWithoutFailure == Spec => []NonceRepeatNeedsFailure
<1>1. IInv => NonceRepeatNeedsFailure
  BY DEF IInv
<1> QED
  BY <1>1, CreationInvariant, PTL

\* No request is refused for its id without a failure or a vanity nonce.
\* Code: GenerateRequestID over the creator, the second and the nonce.
THEOREM RefusalsHaveACause == Spec => []RefusalNeedsCause
<1>1. ASSUME IInv PROVE RefusalNeedsCause
  <2>1. SUFFICES ASSUME NEW c \in Calls, NEW r \in requests, At(c, "save"),
                        RequestID(r) = RequestID(calls[c].of), failures = 0,
                        ~calls[c].of.vanity, ~r.vanity
                 PROVE  FALSE
    BY <1>1 DEF RefusalNeedsCause, IInv, TypeOK
  <2>2. calls[c].of.creator # NoCreator /\ Busy(c)
    BY <1>1, <2>1 DEF IInv, StepsFit, Creating, At, Busy
  <2>3. /\ <<calls[c].of.number, calls[c].of.nonce>> \in given
        /\ <<r.number, r.nonce>> \in given
    BY <1>1, <2>1, <2>2 DEF IInv, NoncesAreGiven, Numbered, At
  <2>4. r.nonce = calls[c].of.nonce
    BY <2>1 DEF RequestID
  <2>5. r.number = calls[c].of.number
    BY <1>1, <2>1, <2>3, <2>4 DEF IInv, NonceRepeatNeedsFailure
  <2> QED
    BY <1>1, <2>2, <2>5 DEF IInv, NumbersDiffer
<1> QED
  BY <1>1, CreationInvariant, PTL

=============================================================================
