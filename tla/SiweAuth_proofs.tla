--------------------------- MODULE SiweAuth_proofs ---------------------------
(***************************************************************************)
(* What TLAPS proves of SiweAuth, for any number of addresses, calls,      *)
(* challenges and failures, and for both stores.                           *)
(***************************************************************************)
EXTENDS SiweAuth, TLAPS

-----------------------------------------------------------------------------
(* The inductive invariant.                                                *)

\* A challenge that Save has not written yet is in nobody else's hands.
SaveIsFresh ==
    \A c \in Calls : calls[c].at = "save" =>
        /\ calls[c].entry \notin spent
        /\ \A a \in Addresses : stored[a] # calls[c].entry
        /\ \A d \in Calls : calls[d].at = "save" /\ calls[d].entry = calls[c].entry => d = c

\* What the store holds has not been consumed, replaced or dropped, and two
\* addresses never hold the same challenge.
HeldIsUnspent ==
    /\ \A a \in Addresses : stored[a] \notin spent
    /\ \A a, b \in Addresses : stored[a] = stored[b] /\ stored[a] # 0 => a = b

\* What a login read was in the store after the login had begun.
ReadIsRecent ==
    \A c \in Calls :
        /\ calls[c].old \subseteq spent
        /\ calls[c].at = "verify" => calls[c].entry \notin calls[c].old
        /\ calls[c].at \in {"delete", "find", "create", "issue"} =>
              calls[c].signed \notin calls[c].old

\* Before Issue, the call holds the row of its address.
IssueHasUser ==
    \A c \in Calls :
        calls[c].at = "issue" => /\ calls[c].user # 0
                                 /\ calls[c].user = users[calls[c].address]

IInv ==
    /\ TypeOK
    /\ ConsumedOnce
    /\ SaveIsFresh
    /\ HeldIsUnspent
    /\ ReadIsRecent
    /\ TokensNameTheirUser
    /\ IssueHasUser

-----------------------------------------------------------------------------
(* Types of the pieces.                                                    *)

\* A slot not in use is a call record.
LEMMA IdleType == Idle \in Call /\ Idle.at = "idle" /\ Idle.old = {} /\ Idle.entry = 0
BY DEF Idle, Call, Steps

\* A request that moves to its next step keeps its other fields.
LEMMA GoesType ==
  ASSUME TypeOK, NEW c \in Calls, NEW step \in Steps, Goes(c, step)
  PROVE  /\ calls' \in [Calls -> Call]
         /\ \A d \in Calls : d # c => calls'[d] = calls[d]
         /\ calls'[c].at = step
         /\ calls'[c].address = calls[c].address
         /\ calls'[c].signed = calls[c].signed
         /\ calls'[c].entry = calls[c].entry
         /\ calls'[c].user = calls[c].user
         /\ calls'[c].old = calls[c].old
<1>1. calls \in [Calls -> Call]
  BY DEF TypeOK
<1>2. PICK r \in Call : r = calls[c]
  BY <1>1
<1> DEFINE s == [r EXCEPT !.at = step]
<1>3. calls' = [calls EXCEPT ![c] = s]
  BY <1>1, <1>2 DEF Goes
<1>4. /\ s \in Call /\ s.at = step /\ s.address = r.address /\ s.signed = r.signed
      /\ s.entry = r.entry /\ s.user = r.user /\ s.old = r.old
  BY DEF Call
<1> HIDE DEF s
<1>5. /\ calls' \in [Calls -> Call] /\ calls'[c] = s
      /\ \A d \in Calls : d # c => calls'[d] = calls[d]
  BY <1>1, <1>3, <1>4
<1> QED
  BY <1>2, <1>4, <1>5

\* A request that returns frees its slot.
LEMMA ReturnsType ==
  ASSUME TypeOK, NEW c \in Calls, Returns(c)
  PROVE  /\ calls' \in [Calls -> Call]
         /\ \A d \in Calls : d # c => calls'[d] = calls[d]
         /\ calls'[c] = Idle
BY IdleType DEF TypeOK, Returns

\* A slot given another record of the type, and nothing else.
LEMMA ReplaceType ==
  ASSUME TypeOK, NEW c \in Calls, NEW r \in Call, calls' = [calls EXCEPT ![c] = r]
  PROVE  /\ calls' \in [Calls -> Call]
         /\ \A d \in Calls : d # c => calls'[d] = calls[d]
         /\ calls'[c] = r
BY DEF TypeOK

\* A login that goes on with the challenge it read.
LEMMA ReadType ==
  ASSUME TypeOK, NEW c \in Calls, NEW n \in Nat,
         calls' = [calls EXCEPT ![c].at = "verify", ![c].entry = n]
  PROVE  /\ calls' \in [Calls -> Call]
         /\ \A d \in Calls : d # c => calls'[d] = calls[d]
         /\ calls'[c].at = "verify" /\ calls'[c].entry = n
         /\ calls'[c].address = calls[c].address
         /\ calls'[c].old = calls[c].old
<1> DEFINE r == [calls[c] EXCEPT !.at = "verify", !.entry = n]
<1>1. calls[c] \in Call
  BY DEF TypeOK
<1>2. /\ r \in Call
      /\ r.at = "verify" /\ r.entry = n /\ r.address = calls[c].address /\ r.old = calls[c].old
  BY <1>1 DEF Call, Steps
<1>3. calls' = [calls EXCEPT ![c] = r]
  OBVIOUS
<1> HIDE DEF r
<1> QED
  BY <1>2, <1>3, ReplaceType

\* A login that goes on with the id of its users row.
LEMMA FoundType ==
  ASSUME TypeOK, NEW c \in Calls, NEW u \in Nat,
         calls' = [calls EXCEPT ![c].at = "issue", ![c].user = u]
  PROVE  /\ calls' \in [Calls -> Call]
         /\ \A d \in Calls : d # c => calls'[d] = calls[d]
         /\ calls'[c].at = "issue" /\ calls'[c].user = u
         /\ calls'[c].address = calls[c].address
         /\ calls'[c].signed = calls[c].signed
         /\ calls'[c].entry = calls[c].entry
         /\ calls'[c].old = calls[c].old
<1> DEFINE r == [calls[c] EXCEPT !.at = "issue", !.user = u]
<1>1. calls[c] \in Call
  BY DEF TypeOK
<1>2. /\ r \in Call
      /\ r.at = "issue" /\ r.user = u /\ r.address = calls[c].address
      /\ r.signed = calls[c].signed /\ r.entry = calls[c].entry /\ r.old = calls[c].old
  BY <1>1 DEF Call, Steps
<1>3. calls' = [calls EXCEPT ![c] = r]
  OBVIOUS
<1> HIDE DEF r
<1> QED
  BY <1>2, <1>3, ReplaceType

\* Before the first request nothing is stored and nobody is logged in.
LEMMA InitIInv == Init => IInv
<1> SUFFICES ASSUME Init PROVE IInv
  OBVIOUS
<1>1. calls \in [Calls -> Call] /\ \A c \in Calls : calls[c] = Idle
  BY IdleType DEF Init
<1>2. TypeOK
  BY <1>1, IdleType DEF Init, TypeOK
<1>3. SaveIsFresh /\ ReadIsRecent /\ IssueHasUser
  BY <1>1, IdleType DEF SaveIsFresh, ReadIsRecent, IssueHasUser
<1>4. ConsumedOnce /\ HeldIsUnspent /\ TokensNameTheirUser
  BY DEF Init, ConsumedOnce, HeldIsUnspent, TokensNameTheirUser
<1> QED
  BY <1>2, <1>3, <1>4 DEF IInv

-----------------------------------------------------------------------------
(* Every action preserves the invariant.                                   *)

\* A request that ends disturbs nobody: a refused Get, Delete or Verify, and a
\* call that fails without effect.
LEMMA ReturnIInv ==
  ASSUME IInv, NEW c \in Calls, Returns(c), failures' \in Nat,
         UNCHANGED <<clockVars, storeVars, userVars>>
  PROVE  IInv'
<1>1. /\ calls' \in [Calls -> Call]
      /\ \A d \in Calls : d # c => calls'[d] = calls[d]
      /\ calls'[c] = Idle
  BY ReturnsType DEF IInv
<1>2. TypeOK'
  BY <1>1, IdleType DEF IInv, TypeOK, clockVars, storeVars, userVars
<1>3. ConsumedOnce' /\ HeldIsUnspent' /\ TokensNameTheirUser'
  BY DEF IInv, ConsumedOnce, HeldIsUnspent, TokensNameTheirUser, storeVars, userVars
<1>4. SaveIsFresh' /\ ReadIsRecent' /\ IssueHasUser'
  BY <1>1, IdleType
     DEF IInv, SaveIsFresh, ReadIsRecent, IssueHasUser, storeVars, userVars
<1> QED
  BY <1>2, <1>3, <1>4 DEF IInv

\* The clock plays no part in the invariant.
LEMMA TickIInv == IInv /\ Tick => IInv'
<1> SUFFICES ASSUME IInv, Tick PROVE IInv'
  OBVIOUS
<1>1. TypeOK'
  BY DEF IInv, TypeOK, Tick, storeVars, userVars
<1>2. /\ ConsumedOnce' /\ SaveIsFresh' /\ HeldIsUnspent'
      /\ ReadIsRecent' /\ TokensNameTheirUser' /\ IssueHasUser'
  BY DEF IInv, Tick, ConsumedOnce, SaveIsFresh, HeldIsUnspent, ReadIsRecent,
         TokensNameTheirUser, IssueHasUser, storeVars, userVars
<1> QED
  BY <1>1, <1>2 DEF IInv

\* RequestMessage generates a nonce nobody has seen.
LEMMA RequestIInv ==
  ASSUME IInv, NEW c \in Calls, NEW a \in Addresses, Request(c, a)
  PROVE  IInv'
<1> DEFINE n == Len(made) + 1
<1>1. /\ n \in Nat \ {0}
      /\ DOMAIN made = 1 .. Len(made)
      /\ DOMAIN made' = DOMAIN made \union {n}
      /\ n \notin DOMAIN made
      /\ made' \in Seq(Challenge)
  <2> DEFINE r == [address |-> a, issued |-> now]
  <2>1. made \in Seq(Challenge) /\ r \in Challenge /\ made' = Append(made, r)
    BY DEF IInv, TypeOK, Request, Challenge
  <2> HIDE DEF r
  <2> QED
    BY <2>1
<1>2. /\ calls' \in [Calls -> Call]
      /\ \A d \in Calls : d # c => calls'[d] = calls[d]
      /\ calls'[c].at = "save" /\ calls'[c].address = a
      /\ calls'[c].entry = n /\ calls'[c].old = {}
  BY <1>1, IdleType DEF IInv, TypeOK, Request, Call, Steps, Idle
<1>3. /\ n \notin spent
      /\ \A b \in Addresses : stored[b] # n
      /\ \A d \in Calls : calls[d].at = "save" => calls[d].entry # n
  BY <1>1 DEF IInv, TypeOK
<1> HIDE DEF n
<1>4. TypeOK'
  BY <1>1, <1>2 DEF IInv, TypeOK, Request, storeVars, userVars
<1>5. SaveIsFresh'
  BY <1>2, <1>3 DEF IInv, SaveIsFresh, Request, storeVars
<1>6. ReadIsRecent' /\ IssueHasUser'
  BY <1>2 DEF IInv, ReadIsRecent, IssueHasUser, Request, storeVars, userVars
<1>7. ConsumedOnce' /\ HeldIsUnspent' /\ TokensNameTheirUser'
  BY DEF IInv, Request, ConsumedOnce, HeldIsUnspent, TokensNameTheirUser, storeVars, userVars
<1> QED
  BY <1>4, <1>5, <1>6, <1>7 DEF IInv

\* Overwriting a challenge takes the old one out of the store for good.
LEMMA SaveIInv ==
  ASSUME IInv, NEW c \in Calls, Save(c) \/ SaveUnanswered(c)
  PROVE  IInv'
<1> DEFINE a == calls[c].address
           n == calls[c].entry
<1>1. /\ a \in Addresses /\ n \in DOMAIN made /\ n \in Nat \ {0}
      /\ calls[c].at = "save"
      /\ StoreChallenge(a, n) /\ Returns(c)
      /\ messages' \subseteq DOMAIN made
      /\ failures' \in Nat
      /\ UNCHANGED <<store, now, made, userVars>>
  BY DEF IInv, TypeOK, Save, SaveUnanswered, Fails, clockVars
<1>2. /\ calls' \in [Calls -> Call]
      /\ \A d \in Calls : d # c => calls'[d] = calls[d]
      /\ calls'[c] = Idle
  BY <1>1, ReturnsType DEF IInv
<1>3. /\ n \notin spent
      /\ \A b \in Addresses : stored[b] # n
      /\ \A d \in Calls : calls[d].at = "save" /\ calls[d].entry = n => d = c
  BY <1>1 DEF IInv, SaveIsFresh
<1> HIDE DEF a, n
<1>4. /\ stored' = [stored EXCEPT ![a] = n]
      /\ saves' = [saves EXCEPT ![a] = saves[a] + 1]
      /\ spent' = spent \union Held(a)
      /\ logins' = logins
  BY <1>1 DEF StoreChallenge
<1>5. Held(a) \subseteq DOMAIN made
  BY <1>1 DEF IInv, TypeOK, Held
<1>6. TypeOK'
  <2>1. stored' \in [Addresses -> Nat] /\ saves' \in [Addresses -> Nat]
    BY <1>1, <1>4 DEF IInv, TypeOK
  <2>2. \A b \in Addresses : stored'[b] # 0 => stored'[b] \in DOMAIN made'
    BY <1>1, <1>4 DEF IInv, TypeOK
  <2>3. spent' \subseteq DOMAIN made'
    BY <1>1, <1>4, <1>5 DEF IInv, TypeOK
  <2>4. \A d \in Calls :
          /\ calls'[d].at # "idle" => calls'[d].address \in Addresses
          /\ calls'[d].at \notin {"idle", "get"} => calls'[d].entry \in DOMAIN made'
    BY <1>1, <1>2, IdleType DEF IInv, TypeOK
  <2> QED
    BY <1>1, <1>2, <1>4, <2>1, <2>2, <2>3, <2>4 DEF IInv, TypeOK, userVars
<1>7. ConsumedOnce'
  <2> SUFFICES ASSUME NEW b \in Addresses
               PROVE  logins'[b] + (IF stored'[b] = 0 THEN 0 ELSE 1) <= saves'[b]
    BY DEF ConsumedOnce
  <2>1. /\ logins[b] \in Nat /\ saves[b] \in Nat
        /\ logins[b] + (IF stored[b] = 0 THEN 0 ELSE 1) <= saves[b]
    BY DEF IInv, TypeOK, ConsumedOnce
  <2>2. /\ logins'[b] = logins[b]
        /\ saves'[b] = IF b = a THEN saves[b] + 1 ELSE saves[b]
        /\ b # a => stored'[b] = stored[b]
    BY <1>1, <1>4 DEF IInv, TypeOK
  <2> QED
    BY <2>1, <2>2
<1>8. HeldIsUnspent'
  BY <1>1, <1>3, <1>4 DEF IInv, TypeOK, HeldIsUnspent, Held
<1>9. SaveIsFresh'
  <2> SUFFICES ASSUME NEW d \in Calls, calls'[d].at = "save"
               PROVE  /\ calls'[d].entry \notin spent'
                      /\ \A b \in Addresses : stored'[b] # calls'[d].entry
                      /\ \A e \in Calls : calls'[e].at = "save" /\ calls'[e].entry = calls'[d].entry
                                          => e = d
    BY DEF SaveIsFresh
  <2>1. \A e \in Calls : calls'[e].at = "save" =>
          e # c /\ calls'[e] = calls[e] /\ calls[e].at = "save"
    BY <1>2, IdleType
  <2> DEFINE k == calls[d].entry
  <2>2. d # c /\ calls'[d].entry = k /\ calls[d].at = "save"
    BY <2>1
  <2>3. /\ k \notin spent
        /\ \A b \in Addresses : stored[b] # k
        /\ \A e \in Calls : calls[e].at = "save" /\ calls[e].entry = k => e = d
    BY <2>2 DEF IInv, SaveIsFresh
  <2>4. k # n
    BY <1>3, <2>2
  <2> HIDE DEF k
  <2>5. k \notin spent'
    BY <1>1, <1>4, <2>3 DEF Held
  <2>6. \A b \in Addresses : stored'[b] # k
    BY <1>1, <1>4, <2>3, <2>4 DEF IInv, TypeOK
  <2>7. \A e \in Calls : calls'[e].at = "save" /\ calls'[e].entry = k => e = d
    BY <2>1, <2>3
  <2> QED
    BY <2>2, <2>5, <2>6, <2>7
<1>10. ReadIsRecent' /\ IssueHasUser' /\ TokensNameTheirUser'
  BY <1>1, <1>2, <1>4, IdleType
     DEF IInv, ReadIsRecent, IssueHasUser, TokensNameTheirUser, userVars
<1> QED
  BY <1>6, <1>7, <1>8, <1>9, <1>10 DEF IInv

\* A login starts with all that was spent before it in mind.
LEMMA LoginIInv ==
  ASSUME IInv, NEW c \in Calls, NEW a \in Addresses, NEW m \in messages \union {0},
         Login(c, a, m)
  PROVE  IInv'
<1>1. m \in Nat /\ spent \subseteq Nat
  BY DEF IInv, TypeOK
<1>2. /\ calls' \in [Calls -> Call]
      /\ \A d \in Calls : d # c => calls'[d] = calls[d]
      /\ calls'[c].at = "get" /\ calls'[c].address = a /\ calls'[c].old = spent
  BY <1>1, IdleType DEF IInv, TypeOK, Login, Call, Steps, Idle
<1>3. TypeOK'
  BY <1>2 DEF IInv, TypeOK, Login, clockVars, storeVars, userVars
<1>4. SaveIsFresh' /\ ReadIsRecent' /\ IssueHasUser'
  BY <1>2 DEF IInv, SaveIsFresh, ReadIsRecent, IssueHasUser, Login, storeVars, userVars
<1>5. ConsumedOnce' /\ HeldIsUnspent' /\ TokensNameTheirUser'
  BY DEF IInv, Login, ConsumedOnce, HeldIsUnspent, TokensNameTheirUser, storeVars, userVars
<1> QED
  BY <1>3, <1>4, <1>5 DEF IInv

\* getChallenge reads what is in the store now.
LEMMA GetIInv ==
  ASSUME IInv, NEW c \in Calls, Get(c)
  PROVE  IInv'
<1> DEFINE a == calls[c].address
<1>1. /\ a \in Addresses /\ stored[a] # 0
      /\ stored[a] \in DOMAIN made /\ stored[a] \in Nat
      /\ stored[a] \notin spent /\ calls[c].old \subseteq spent
  BY DEF IInv, TypeOK, Get, Present, HeldIsUnspent, ReadIsRecent
<1>2. /\ calls' \in [Calls -> Call]
      /\ \A d \in Calls : d # c => calls'[d] = calls[d]
      /\ calls'[c].at = "verify" /\ calls'[c].address = a
      /\ calls'[c].entry = stored[a] /\ calls'[c].old = calls[c].old
  BY <1>1, ReadType DEF IInv, Get
<1> HIDE DEF a
<1>3. TypeOK'
  BY <1>1, <1>2 DEF IInv, TypeOK, Get, clockVars, storeVars, userVars
<1>4. SaveIsFresh' /\ ReadIsRecent' /\ IssueHasUser'
  BY <1>1, <1>2 DEF IInv, SaveIsFresh, ReadIsRecent, IssueHasUser, Get, storeVars, userVars
<1>5. ConsumedOnce' /\ HeldIsUnspent' /\ TokensNameTheirUser'
  BY DEF IInv, Get, ConsumedOnce, HeldIsUnspent, TokensNameTheirUser, storeVars, userVars
<1> QED
  BY <1>3, <1>4, <1>5 DEF IInv

\* The signature is compared with the challenge that was read.
LEMMA VerifyIInv ==
  ASSUME IInv, NEW c \in Calls, Verify(c)
  PROVE  IInv'
<1>1. UNCHANGED <<clockVars, storeVars, userVars>> /\ failures' \in Nat
  BY DEF Verify, IInv, TypeOK
<1>2. CASE Returns(c)
  BY <1>1, <1>2, ReturnIInv
<1>3. CASE Genuine(c) /\ Goes(c, "delete")
  <2>1. /\ calls[c].signed = calls[c].entry /\ calls[c].entry \notin calls[c].old
        /\ calls[c].at = "verify"
    BY <1>3 DEF Verify, Genuine, IInv, ReadIsRecent
  <2>2. /\ calls' \in [Calls -> Call]
        /\ \A d \in Calls : d # c => calls'[d] = calls[d]
        /\ calls'[c].at = "delete" /\ calls'[c].address = calls[c].address
        /\ calls'[c].signed = calls[c].signed
        /\ calls'[c].entry = calls[c].entry /\ calls'[c].old = calls[c].old
    BY <1>3, GoesType DEF IInv, Steps
  <2>3. TypeOK'
    BY <1>1, <2>1, <2>2 DEF IInv, TypeOK, clockVars, storeVars, userVars
  <2>4. SaveIsFresh' /\ ReadIsRecent' /\ IssueHasUser'
    BY <1>1, <2>1, <2>2
       DEF IInv, SaveIsFresh, ReadIsRecent, IssueHasUser, storeVars, userVars
  <2>5. ConsumedOnce' /\ HeldIsUnspent' /\ TokensNameTheirUser'
    BY <1>1 DEF IInv, ConsumedOnce, HeldIsUnspent, TokensNameTheirUser, storeVars, userVars
  <2> QED
    BY <2>3, <2>4, <2>5 DEF IInv
<1> QED
  BY <1>2, <1>3 DEF Verify

\* Taking a challenge out of the store, whoever does it: what was held is spent.
LEMMA RemovalKeeps ==
  ASSUME IInv, NEW a \in Addresses,
         stored' = [stored EXCEPT ![a] = 0], spent' = spent \union Held(a),
         UNCHANGED made
  PROVE  /\ stored' \in [Addresses -> Nat]
         /\ spent' \subseteq DOMAIN made'
         /\ \A b \in Addresses : stored'[b] # 0 => stored'[b] \in DOMAIN made'
         /\ HeldIsUnspent'
         /\ spent \subseteq spent'
         /\ \A c \in Calls : calls[c].at = "save" =>
               /\ calls[c].entry \notin spent'
               /\ \A b \in Addresses : stored'[b] # calls[c].entry
<1>1. DOMAIN made = 1 .. Len(made) /\ Len(made) \in Nat
  BY DEF IInv, TypeOK
<1>2. 0 \notin DOMAIN made
  BY <1>1
<1>3. 0 \notin spent'
  BY <1>2 DEF IInv, TypeOK, Held
<1>4. HeldIsUnspent'
  BY <1>3 DEF IInv, TypeOK, HeldIsUnspent, Held
<1>5. ASSUME NEW c \in Calls, calls[c].at = "save"
      PROVE  /\ calls[c].entry \notin spent'
             /\ \A b \in Addresses : stored'[b] # calls[c].entry
  BY <1>2, <1>5 DEF IInv, TypeOK, SaveIsFresh, Held
<1> QED
  BY <1>4, <1>5 DEF IInv, TypeOK, Held

\* The login is counted when an entry was there to be removed.
LEMMA DeleteIInv ==
  ASSUME IInv, NEW c \in Calls, Delete(c)
  PROVE  IInv'
<1> DEFINE a == calls[c].address
<1>1. /\ a \in Addresses /\ calls[c].at = "delete" /\ stored[a] # 0
      /\ stored' = [stored EXCEPT ![a] = 0]
      /\ logins' = [logins EXCEPT ![a] = logins[a] + 1]
      /\ spent' = spent \union Held(a)
      /\ UNCHANGED <<clockVars, saves, userVars, failures>>
  BY DEF IInv, TypeOK, Delete, Deletable
<1>2. /\ calls' \in [Calls -> Call]
      /\ \A d \in Calls : d # c => calls'[d] = calls[d]
      /\ calls'[c].at = "find" /\ calls'[c].address = a
      /\ calls'[c].signed = calls[c].signed
      /\ calls'[c].entry = calls[c].entry /\ calls'[c].old = calls[c].old
  BY GoesType DEF IInv, Delete, Steps
<1> HIDE DEF a
<1>3. /\ stored' \in [Addresses -> Nat]
      /\ spent' \subseteq DOMAIN made'
      /\ \A b \in Addresses : stored'[b] # 0 => stored'[b] \in DOMAIN made'
      /\ HeldIsUnspent'
      /\ spent \subseteq spent'
      /\ \A d \in Calls : calls[d].at = "save" =>
            /\ calls[d].entry \notin spent'
            /\ \A b \in Addresses : stored'[b] # calls[d].entry
  BY <1>1, RemovalKeeps DEF clockVars
<1>4. logins' \in [Addresses -> Nat]
  BY <1>1 DEF IInv, TypeOK
<1>5. TypeOK'
  BY <1>1, <1>2, <1>3, <1>4 DEF IInv, TypeOK, clockVars, userVars
<1>6. ConsumedOnce'
  BY <1>1 DEF IInv, TypeOK, ConsumedOnce
<1>7. SaveIsFresh' /\ ReadIsRecent' /\ IssueHasUser'
  BY <1>1, <1>2, <1>3 DEF IInv, SaveIsFresh, ReadIsRecent, IssueHasUser, userVars
<1>8. TokensNameTheirUser'
  BY <1>1 DEF IInv, TokensNameTheirUser, userVars
<1> QED
  BY <1>3, <1>5, <1>6, <1>7, <1>8 DEF IInv

\* A challenge that goes without a login: a lost answer of Redis, its expiry.
LEMMA DropIInv ==
  ASSUME IInv, NEW a \in Addresses, DropChallenge(a), failures' \in Nat,
         UNCHANGED <<clockVars, userVars>>,
         \/ UNCHANGED calls
         \/ \E c \in Calls : Returns(c)
  PROVE  IInv'
<1>1. /\ stored' = [stored EXCEPT ![a] = 0]
      /\ spent' = spent \union Held(a)
      /\ saves' = saves /\ logins' = logins
  BY DEF DropChallenge
<1>2. /\ stored' \in [Addresses -> Nat]
      /\ spent' \subseteq DOMAIN made'
      /\ \A b \in Addresses : stored'[b] # 0 => stored'[b] \in DOMAIN made'
      /\ HeldIsUnspent'
      /\ spent \subseteq spent'
      /\ \A d \in Calls : calls[d].at = "save" =>
            /\ calls[d].entry \notin spent'
            /\ \A b \in Addresses : stored'[b] # calls[d].entry
  BY <1>1, RemovalKeeps DEF clockVars
<1>3. /\ calls' \in [Calls -> Call]
      /\ \A d \in Calls : calls'[d] = calls[d] \/ calls'[d] = Idle
  <2>1. CASE UNCHANGED calls
    BY <2>1 DEF IInv, TypeOK
  <2>2. ASSUME NEW c \in Calls, Returns(c)
        PROVE  <1>3!1 /\ <1>3!2
    BY <2>2, ReturnsType DEF IInv
  <2> QED
    BY <2>1, <2>2
<1>4. TypeOK'
  BY <1>1, <1>2, <1>3, IdleType DEF IInv, TypeOK, clockVars, userVars
<1>5. ConsumedOnce'
  BY <1>1 DEF IInv, TypeOK, ConsumedOnce
<1>6. SaveIsFresh' /\ ReadIsRecent' /\ IssueHasUser'
  BY <1>1, <1>2, <1>3, IdleType
     DEF IInv, SaveIsFresh, ReadIsRecent, IssueHasUser, userVars
<1>7. TokensNameTheirUser'
  BY DEF IInv, TokensNameTheirUser, userVars
<1> QED
  BY <1>2, <1>4, <1>5, <1>6, <1>7 DEF IInv

\* A process that starts again holds no challenge and serves no call.
LEMMA RestartIInv == IInv /\ Restart => IInv'
<1> SUFFICES ASSUME IInv, Restart PROVE IInv'
  OBVIOUS
<1>1. /\ stored' = [a \in Addresses |-> 0]
      /\ spent' = spent \union UNION {Held(a) : a \in Addresses}
      /\ calls' \in [Calls -> Call]
      /\ \A c \in Calls : calls'[c] = Idle
      /\ failures' \in Nat
      /\ UNCHANGED <<clockVars, saves, logins, userVars>>
  BY IdleType DEF IInv, TypeOK, Restart, Fails
<1>2. spent' \subseteq DOMAIN made' /\ 0 \notin spent'
  <2>1. \A a \in Addresses : Held(a) \subseteq DOMAIN made
    BY DEF IInv, TypeOK, Held
  <2>2. DOMAIN made = 1 .. Len(made) /\ Len(made) \in Nat
    BY DEF IInv, TypeOK
  <2>3. spent' \subseteq DOMAIN made'
    BY <1>1, <2>1 DEF IInv, TypeOK, clockVars
  <2> QED
    BY <1>1, <2>2, <2>3 DEF clockVars
<1>3. TypeOK'
  BY <1>1, <1>2, IdleType DEF IInv, TypeOK, clockVars, userVars
<1>4. ConsumedOnce'
  BY <1>1 DEF IInv, TypeOK, ConsumedOnce
<1>5. HeldIsUnspent' /\ SaveIsFresh' /\ ReadIsRecent' /\ IssueHasUser'
  BY <1>1, <1>2, IdleType DEF HeldIsUnspent, SaveIsFresh, ReadIsRecent, IssueHasUser
<1>6. TokensNameTheirUser'
  BY <1>1 DEF IInv, TokensNameTheirUser, userVars
<1> QED
  BY <1>3, <1>4, <1>5, <1>6 DEF IInv

\* FindByAddress changes no row.
LEMMA FindIInv ==
  ASSUME IInv, NEW c \in Calls, Find(c)
  PROVE  IInv'
<1> DEFINE a == calls[c].address
<1>1. /\ a \in Addresses /\ users[a] \in Nat /\ calls[c].at = "find"
      /\ UNCHANGED <<clockVars, storeVars, userVars, failures>>
  BY DEF IInv, TypeOK, Find
<1>2. /\ calls' \in [Calls -> Call]
      /\ \A d \in Calls : d # c => calls'[d] = calls[d]
      /\ calls'[c].at = "create" \/ (/\ calls'[c].at = "issue"
                                     /\ calls'[c].user = users[a] /\ users[a] # 0)
      /\ calls'[c].address = a
      /\ calls'[c].signed = calls[c].signed
      /\ calls'[c].entry = calls[c].entry /\ calls'[c].old = calls[c].old
  <2>1. CASE users[a] = 0
    <3>1. Goes(c, "create") /\ "create" \in Steps
      BY <2>1 DEF Find, Steps
    <3> QED
      BY <3>1, GoesType DEF IInv
  <2>2. CASE users[a] # 0
    <3> DEFINE u == users[a]
    <3>1. calls' = [calls EXCEPT ![c].at = "issue", ![c].user = u]
      BY <2>2 DEF Find
    <3>2. u \in Nat /\ u # 0
      BY <1>1, <2>2
    <3> HIDE DEF u
    <3>3. /\ calls' \in [Calls -> Call]
          /\ \A d \in Calls : d # c => calls'[d] = calls[d]
          /\ calls'[c].at = "issue" /\ calls'[c].user = u
          /\ calls'[c].address = calls[c].address
          /\ calls'[c].signed = calls[c].signed
          /\ calls'[c].entry = calls[c].entry /\ calls'[c].old = calls[c].old
      BY <3>1, <3>2, FoundType DEF IInv
    <3> QED
      BY <3>2, <3>3 DEF u
  <2> QED
    BY <2>1, <2>2
<1> HIDE DEF a
<1>3. TypeOK'
  BY <1>1, <1>2 DEF IInv, TypeOK, clockVars, storeVars, userVars
<1>4. SaveIsFresh' /\ ReadIsRecent' /\ IssueHasUser'
  BY <1>1, <1>2 DEF IInv, SaveIsFresh, ReadIsRecent, IssueHasUser, storeVars, userVars
<1>5. ConsumedOnce' /\ HeldIsUnspent' /\ TokensNameTheirUser'
  BY <1>1 DEF IInv, ConsumedOnce, HeldIsUnspent, TokensNameTheirUser, storeVars, userVars
<1> QED
  BY <1>3, <1>4, <1>5 DEF IInv

\* A row inserted for an address without one keeps all ids apart.
LEMMA NewUserKeeps ==
  ASSUME IInv, NEW a \in Addresses, users[a] = 0,
         lastId' = lastId + 1, users' = [users EXCEPT ![a] = lastId + 1],
         UNCHANGED tokens
  PROVE  /\ users' \in [Addresses -> Nat]
         /\ lastId' \in Nat
         /\ users'[a] = lastId + 1 /\ lastId + 1 # 0 /\ lastId + 1 \in Nat
         /\ \A b \in Addresses : b # a => users'[b] = users[b]
         /\ TokensNameTheirUser'
<1>1. /\ lastId \in Nat /\ users \in [Addresses -> Nat]
      /\ \A b \in Addresses : users[b] <= lastId
      /\ tokens \subseteq [user : Nat, address : Addresses]
  BY DEF IInv, TypeOK, TokensNameTheirUser
<1>2. /\ users' \in [Addresses -> Nat]
      /\ lastId' \in Nat
      /\ users'[a] = lastId + 1 /\ lastId + 1 # 0 /\ lastId + 1 \in Nat
      /\ \A b \in Addresses : b # a => users'[b] = users[b]
  BY <1>1
<1>3. ASSUME NEW t \in tokens
      PROVE  t.user # 0 /\ users'[t.address] = t.user
  BY <1>1, <1>2 DEF IInv, TokensNameTheirUser
<1>4. ASSUME NEW b \in Addresses, NEW d \in Addresses,
             users'[b] = users'[d], users'[b] # 0
      PROVE  b = d
  BY <1>1, <1>2, <1>4 DEF IInv, TokensNameTheirUser
<1>5. \A b \in Addresses : users'[b] <= lastId'
  BY <1>1, <1>2
<1>6. TokensNameTheirUser'
  BY <1>3, <1>4, <1>5 DEF TokensNameTheirUser
<1> QED
  BY <1>2, <1>6

\* Of two first logins the unique address lets one insert the row.
LEMMA CreateIInv ==
  ASSUME IInv, NEW c \in Calls, Create(c) \/ CreateUnanswered(c)
  PROVE  IInv'
<1> DEFINE a == calls[c].address
           u == lastId + 1
<1>1. /\ a \in Addresses /\ calls[c].at = "create"
      /\ calls[c].entry \in DOMAIN made
      /\ lastId' = u /\ lastId \in Nat
      /\ failures' \in Nat
      /\ UNCHANGED <<clockVars, storeVars, tokens>>
  BY DEF IInv, TypeOK, Create, CreateUnanswered, Fails
<1>2. CASE users[a] # 0
  <2>1. Returns(c) /\ UNCHANGED <<users, tokens>> /\ failures' = failures
    BY <1>2 DEF Create, CreateUnanswered
  <2>2. /\ calls' \in [Calls -> Call]
        /\ \A d \in Calls : d # c => calls'[d] = calls[d]
        /\ calls'[c] = Idle
    BY <2>1, ReturnsType DEF IInv
  <2>0. lastId' \in Nat
    BY <1>1
  <2> HIDE DEF a, u
  <2>3. TypeOK'
    BY <1>1, <2>0, <2>1, <2>2, IdleType DEF IInv, TypeOK, clockVars, storeVars
  <2>4. ConsumedOnce' /\ HeldIsUnspent'
    BY <1>1 DEF IInv, ConsumedOnce, HeldIsUnspent, storeVars
  <2>5. TokensNameTheirUser'
    BY SMTT(20), <1>1, <2>1 DEF IInv, TypeOK, TokensNameTheirUser, u
  <2>6. SaveIsFresh' /\ ReadIsRecent' /\ IssueHasUser'
    BY <1>1, <2>1, <2>2, IdleType
       DEF IInv, SaveIsFresh, ReadIsRecent, IssueHasUser, storeVars
  <2> QED
    BY <2>3, <2>4, <2>5, <2>6 DEF IInv
<1>3. CASE users[a] = 0
  <2>1. /\ users' = [users EXCEPT ![a] = u]
        /\ \/ Returns(c)
           \/ calls' = [calls EXCEPT ![c].at = "issue", ![c].user = u]
    BY <1>3 DEF Create, CreateUnanswered
  <2>2. /\ users' \in [Addresses -> Nat] /\ lastId' \in Nat
        /\ users'[a] = u /\ u # 0 /\ u \in Nat
        /\ \A b \in Addresses : b # a => users'[b] = users[b]
        /\ TokensNameTheirUser'
    BY <1>1, <1>3, <2>1, NewUserKeeps
  <2> HIDE DEF u
  <2>3. /\ calls' \in [Calls -> Call]
        /\ \A d \in Calls : d # c => calls'[d] = calls[d]
        /\ calls'[c] = Idle \/ (/\ calls'[c].at = "issue"
                                /\ calls'[c].user = u
                                /\ calls'[c].address = calls[c].address
                                /\ calls'[c].signed = calls[c].signed
                                /\ calls'[c].entry = calls[c].entry
                                /\ calls'[c].old = calls[c].old)
    <3>1. CASE Returns(c)
      BY <3>1, ReturnsType DEF IInv
    <3>2. CASE calls' = [calls EXCEPT ![c].at = "issue", ![c].user = u]
      <4>1. u \in Nat
        BY <2>2
      <4> QED
        BY <3>2, <4>1, FoundType DEF IInv
    <3> QED
      BY <2>1, <3>1, <3>2
  \* No call holds the row of an address that had none.
  <2>4. \A d \in Calls : calls[d].at = "issue" => calls[d].address # a
    BY <1>3 DEF IInv, IssueHasUser
  <2>5. TypeOK'
    BY <1>1, <2>2, <2>3, IdleType DEF IInv, TypeOK, clockVars, storeVars
  <2>6. ConsumedOnce' /\ HeldIsUnspent'
    BY <1>1 DEF IInv, ConsumedOnce, HeldIsUnspent, storeVars
  <2>7. SaveIsFresh' /\ ReadIsRecent'
    BY <1>1, <2>3, IdleType DEF IInv, SaveIsFresh, ReadIsRecent, storeVars
  <2>8. IssueHasUser'
    <3>1. ASSUME NEW d \in Calls, calls'[d].at = "issue"
          PROVE  calls'[d].user # 0 /\ calls'[d].user = users'[calls'[d].address]
      <4>1. CASE d = c
        BY <2>2, <2>3, <3>1, <4>1, IdleType DEF a
      <4>2. CASE d # c
        <5>1. calls'[d] = calls[d] /\ calls[d].address \in Addresses
          BY <2>3, <3>1, <4>2 DEF IInv, TypeOK
        <5> QED
          BY <2>2, <2>4, <3>1, <5>1 DEF IInv, IssueHasUser
      <4> QED
        BY <4>1, <4>2
    <3> QED
      BY <3>1 DEF IssueHasUser
  <2> QED
    BY <2>2, <2>5, <2>6, <2>7, <2>8 DEF IInv
<1> QED
  BY <1>2, <1>3

\* issueToken names the row the call holds.
LEMMA IssueIInv ==
  ASSUME IInv, NEW c \in Calls, Issue(c)
  PROVE  IInv'
<1> DEFINE t == [user |-> calls[c].user, address |-> calls[c].address]
<1>1. /\ calls[c].address \in Addresses /\ calls[c].user \in Nat
      /\ calls[c].user # 0 /\ users[calls[c].address] = calls[c].user
      /\ tokens' = tokens \union {t}
      /\ UNCHANGED <<clockVars, storeVars, users, lastId, failures>>
  BY DEF IInv, TypeOK, Call, IssueHasUser, Issue
<1>2. /\ calls' \in [Calls -> Call]
      /\ \A d \in Calls : d # c => calls'[d] = calls[d]
      /\ calls'[c] = Idle
  BY ReturnsType DEF IInv, Issue
<1>3. /\ t \in [user : Nat, address : Addresses]
      /\ t.user # 0 /\ users[t.address] = t.user
  BY <1>1
<1> HIDE DEF t
<1>4. TypeOK'
  BY <1>1, <1>2, <1>3, IdleType DEF IInv, TypeOK, clockVars, storeVars
<1>5. TokensNameTheirUser'
  BY <1>1, <1>3 DEF IInv, TokensNameTheirUser
<1>6. ConsumedOnce' /\ HeldIsUnspent'
  BY <1>1 DEF IInv, ConsumedOnce, HeldIsUnspent, storeVars
<1>7. SaveIsFresh' /\ ReadIsRecent' /\ IssueHasUser'
  BY <1>1, <1>2, IdleType DEF IInv, SaveIsFresh, ReadIsRecent, IssueHasUser, storeVars
<1> QED
  BY <1>4, <1>5, <1>6, <1>7 DEF IInv

-----------------------------------------------------------------------------

\* Every behaviour of the login service satisfies the inductive invariant.
THEOREM AuthInvariant == Spec => []IInv
<1>1. ASSUME IInv, NEW c \in Calls, ServeCall(c) PROVE IInv'
  <2>1. CASE \E a \in Addresses : Request(c, a)
    BY <1>1, <2>1, RequestIInv
  <2>2. CASE Save(c)
    BY <1>1, <2>2, SaveIInv
  <2>3. CASE \E a \in Addresses, m \in messages \union {0} : Login(c, a, m)
    BY <1>1, <2>3, LoginIInv
  <2>4. CASE Get(c)
    BY <1>1, <2>4, GetIInv
  <2>5. CASE GetRefuses(c) \/ DeleteRefuses(c)
    <3>1. Returns(c) /\ failures' \in Nat /\ UNCHANGED <<clockVars, storeVars, userVars>>
      BY <1>1, <2>5 DEF IInv, TypeOK, GetRefuses, DeleteRefuses
    <3> QED
      BY <1>1, <3>1, ReturnIInv
  <2>6. CASE Verify(c)
    BY <1>1, <2>6, VerifyIInv
  <2>7. CASE Delete(c)
    BY <1>1, <2>7, DeleteIInv
  <2>8. CASE Find(c)
    BY <1>1, <2>8, FindIInv
  <2>9. CASE Create(c)
    BY <1>1, <2>9, CreateIInv
  <2>10. CASE Issue(c)
    BY <1>1, <2>10, IssueIInv
  <2> QED
    BY <1>1, <2>1, <2>2, <2>3, <2>4, <2>5, <2>6, <2>7, <2>8, <2>9, <2>10 DEF ServeCall
<1>2. ASSUME IInv, NEW c \in Calls, BreakCall(c) PROVE IInv'
  <2>1. CASE Abort(c)
    <3>1. Returns(c) /\ failures' \in Nat /\ UNCHANGED <<clockVars, storeVars, userVars>>
      BY <1>2, <2>1 DEF IInv, TypeOK, Abort, Fails
    <3> QED
      BY <1>2, <3>1, ReturnIInv
  <2>2. CASE SaveUnanswered(c)
    BY <1>2, <2>2, SaveIInv
  <2>3. CASE DeleteUnanswered(c)
    <3>1. /\ calls[c].address \in Addresses /\ DropChallenge(calls[c].address)
          /\ Returns(c) /\ failures' \in Nat /\ UNCHANGED <<clockVars, userVars>>
      BY <1>2, <2>3 DEF IInv, TypeOK, DeleteUnanswered, Fails
    <3> QED
      BY <1>2, <3>1, DropIInv
  <2>4. CASE CreateUnanswered(c)
    BY <1>2, <2>4, CreateIInv
  <2> QED
    BY <1>2, <2>1, <2>2, <2>3, <2>4 DEF BreakCall
<1>3. ASSUME IInv, NEW a \in Addresses, Expire(a) PROVE IInv'
  <2>1. DropChallenge(a) /\ failures' \in Nat /\ UNCHANGED <<clockVars, userVars, calls>>
    BY <1>3 DEF IInv, TypeOK, Expire
  <2> QED
    BY <1>3, <2>1, DropIInv
<1>4. IInv /\ UNCHANGED vars => IInv'
  BY DEF IInv, TypeOK, ConsumedOnce, SaveIsFresh, HeldIsUnspent, ReadIsRecent,
         TokensNameTheirUser, IssueHasUser, vars
<1>5. IInv /\ [Next]_vars => IInv'
  BY <1>1, <1>2, <1>3, <1>4, TickIInv, RestartIInv DEF Next
<1> QED
  BY InitIInv, <1>5, PTL DEF Spec

\* The variables of RequestMessage and Login keep their types.
THEOREM TypeCorrect == Spec => []TypeOK
  BY AuthInvariant, PTL DEF IInv

\* Whatever interleaving of calls reads the same challenge, an address is
\* logged in at most once for every challenge stored for it.
THEOREM ChallengesAreConsumedOnce == Spec => []ConsumedOnce
  BY AuthInvariant, PTL DEF IInv

\* A signature over a challenge that was consumed, replaced or dropped before
\* the login began is refused.
THEOREM SpentChallengesAreRefused == Spec => []SpentIsRefused
<1>1. IInv => SpentIsRefused
  BY DEF IInv, ReadIsRecent, SpentIsRefused
<1> QED
  BY AuthInvariant, <1>1, PTL

\* Racing first logins share no id, and every token names its address's row.
THEOREM TokensAreTrue == Spec => []TokensNameTheirUser
  BY AuthInvariant, PTL DEF IInv

\* A call that is not served keeps its record.
LEMMA OtherCallsWait ==
  ASSUME TypeOK, NEW d \in Calls, ServeCall(d) \/ BreakCall(d),
         NEW c \in Calls, c # d
  PROVE  calls'[c] = calls[c]
<1>1. calls \in [Calls -> Call]
  BY DEF TypeOK
<1>2. CASE ServeCall(d)
  BY <1>1, <1>2
     DEF ServeCall, Request, Save, Login, Get, GetRefuses, Verify, Delete, DeleteRefuses,
         Find, Create, Issue, Goes, Returns
<1>3. CASE BreakCall(d)
  BY <1>1, <1>3
     DEF BreakCall, Abort, SaveUnanswered, DeleteUnanswered, CreateUnanswered, Returns
<1> QED
  BY <1>2, <1>3

\* An accepted login that ends without a token and without a failure lost the
\* race to create the row, so its address has one.
THEOREM LostLoginsHaveAccounts == Spec => LostLoginHasAccount
<1> DEFINE Lost(c) == /\ calls[c].at \in {"find", "create"}
                      /\ calls'[c].at = "idle"
                      /\ failures' = failures
<1>1. ASSUME IInv, Next, NEW c \in Calls, Lost(c)
      PROVE  users[calls[c].address] # 0
  <2>1. failures \in Nat /\ calls \in [Calls -> Call]
    BY <1>1 DEF IInv, TypeOK
  <2>2. ~Fails
    BY <1>1, <2>1 DEF Fails
  <2>3. ~Restart /\ ~BreakCall(c)
    BY <2>2 DEF Restart, BreakCall, Abort, SaveUnanswered, DeleteUnanswered, CreateUnanswered
  <2>4. calls'[c] # calls[c]
    BY <1>1
  <2>5. PICK d \in Calls : ServeCall(d) \/ BreakCall(d)
    BY <1>1, <2>3, <2>4 DEF Next, Tick, Expire
  <2>6. ServeCall(c)
    BY <1>1, <2>3, <2>4, <2>5, OtherCallsWait DEF IInv
  <2>7. CASE Find(c)
    BY <1>1, <2>1, <2>7 DEF Find, Goes, Call
  <2>8. CASE Create(c)
    BY <1>1, <2>1, <2>8 DEF Create, Call
  <2> QED
    BY <1>1, <2>6, <2>7, <2>8
       DEF ServeCall, Request, Save, Login, Get, GetRefuses, Verify, Delete, DeleteRefuses, Issue
<1>2. ASSUME IInv, [Next]_vars, NEW c \in Calls, Lost(c)
      PROVE  users[calls[c].address] # 0
  <2>1. CASE UNCHANGED vars
    BY <1>2, <2>1 DEF vars
  <2> QED
    BY <1>1, <1>2, <2>1
<1>3. IInv /\ [Next]_vars => [\A c \in Calls : Lost(c) => users[calls[c].address] # 0]_vars
  BY <1>2
<1> QED
  BY AuthInvariant, <1>3, PTL DEF Spec, LostLoginHasAccount

=============================================================================
