----------------------------- MODULE LoginProofs -----------------------------
(***************************************************************************)
(* Proofs about Login, for any accounts, connections and operations: the   *)
(* types, that no registration replaces another, and that none completes   *)
(* under a freeze; and, where no operation overtakes another, to whom      *)
(* sessions and passwords belong.                                          *)
(***************************************************************************)
EXTENDS Login, FiniteSetTheorems, TLAPS

\* The gate a registration passed still stands while the link awaits it.
GateStands == link # None /\ link.kind = "register" => ~frozen

IInv == TypeOK /\ GateStands

-----------------------------------------------------------------------------
(* Jobs and exchanges: what each kind carries. *)

\* Each kind of job is one (the Defer variants of NetAction).
LEMMA JobKinds ==
    ASSUME NEW a \in Name
    PROVE  /\ \A u \in Uid \cup {None}, cred \in Cred :
                [kind |-> "register", uid |-> u, name |-> a, cred |-> cred] \in Jobs
           /\ \A cred \in Cred, owner \in Nat :
                [kind |-> "password", name |-> a, cred |-> cred, owner |-> owner] \in Jobs
           /\ \A kind \in {"identify", "plain", "keycard"}, u \in Uid, ok \in BOOLEAN :
                [kind |-> kind, uid |-> u, name |-> a, ok |-> ok] \in Jobs
           /\ \A ok \in BOOLEAN : [kind |-> "authenticate", name |-> a, ok |-> ok] \in Jobs
    BY DEF Jobs

\* What the completion of a job reads from it (AuthThen).
LEMMA JobFields ==
    ASSUME NEW job \in Jobs
    PROVE  /\ job.name \in Name
           /\ job.kind \in {"register", "password"} => job.cred \in Cred
           /\ job.kind = "password" => job.owner \in Nat
           /\ job.kind \in {"identify", "plain", "keycard"} => job.uid \in Uid
    BY DEF Jobs

\* What the last message of an exchange reads from it (SaslSession).
LEMMA ExchangeFields ==
    ASSUME NEW e \in Exchanges
    PROVE  /\ e.mech = "SCRAM" /\ e.step \in {"ClientFinal", "Ack"} => e.name \in Name
           /\ e.mech = "ECDSA" /\ e.step = "Signature" => e.name \in Name
    BY DEF Exchanges

-----------------------------------------------------------------------------
(* The helpers keep what they change typed. *)

\* track_accounts.
LEMMA TrackTypes ==
    ASSUME NEW us, NEW a \in Name \cup {None}, TypeOK, track_accounts(us, a)
    PROVE  sess' \in [Uid -> Name \cup {None}] /\ shown' \in [Uid -> Name \cup {None}]
    BY DEF TypeOK, track_accounts

\* A set of connections can be queued in some order.
LEMMA QueueType ==
    ASSUME NEW us \in SUBSET Uid
    PROVE  SetToQueue(us) \in Seq(Uid)
  <1>1. IsFiniteSet(us)
    BY UidAssumption, FS_Subset
  <1>2. PICK n \in Nat : ExistsBijection(1..n, us)
    BY <1>1, FS_NatBijection
  <1>3. Cardinality(us) = n
    BY <1>2, FS_CountingElements
  <1>a. PICK q : q \in Bijection(1..n, us)
    BY <1>2 DEF ExistsBijection
  <1>b. q \in [1..Cardinality(us) -> us] /\ {q[i] : i \in DOMAIN q} = us
    <2>1. q \in [1..n -> us] /\ \A b \in us : \E i \in 1..n : q[i] = b
      BY <1>a DEF Bijection, Injection, Surjection
    <2> QED
      BY <2>1, <1>3
  <1>4. SetToQueue(us) \in [1..Cardinality(us) -> us]
    BY <1>b DEF SetToQueue
  <1>5. Cardinality(us) \in Nat
    BY <1>1, FS_CardinalityType
  <1> QED
    BY <1>4, <1>5

\* logout_account_sessions.
LEMMA LogoutTypes ==
    ASSUME NEW a, TypeOK, logout_account_sessions(a)
    PROVE  /\ sess' \in [Uid -> Name \cup {None}]
           /\ queue' \in Seq(Uid)
           /\ shown' = shown
  <1>1. uids_logged_into(a) \in SUBSET Uid
    BY DEF uids_logged_into
  <1>2. SetToQueue(uids_logged_into(a)) \in Seq(Uid)
    BY <1>1, QueueType
  <1> QED
    BY <1>2 DEF TypeOK, logout_account_sessions

\* note_auth.
LEMMA NoteTypes ==
    ASSUME NEW a \in Name, NEW ok, TypeOK, note_auth(a, ok)
    PROVE  fails' \in [Name -> Nat] /\ locked' \in [Name -> BOOLEAN]
  <1>1. fails' \in [Name -> Nat]
    BY DEF TypeOK, note_auth
  <1>2. (IF ok THEN FALSE ELSE locked[a] \/ fails[a] + 1 > FreeTries) \in BOOLEAN
    BY Zenon
  <1>3. locked' \in [Name -> BOOLEAN]
    BY <1>2 DEF TypeOK, note_auth
  <1> QED
    BY <1>1, <1>3

\* The link's one place for a job.
LEMMA DeferTypes ==
    ASSUME NEW job \in Jobs, TypeOK, Defer(job)
    PROVE  link' \in Jobs \cup {None} /\ tasks' \subseteq Jobs
    BY DEF TypeOK, Defer

\* register_prepared's insertion.
LEMMA CreateTypes ==
    ASSUME NEW a \in Name, NEW cred \in Cred, TypeOK, Create(a, cred)
    PROVE  /\ accounts' \in [Name -> Account \cup {None}]
           /\ registered' \in Nat /\ frozen' \in BOOLEAN
    BY DEF TypeOK, Create, Account

\* set_credentials finds the account or changes nothing.
LEMMA CredentialTypes ==
    ASSUME NEW job, job.name \in Name, job.cred \in Cred, job.owner \in Nat,
           TypeOK, set_credentials(job)
    PROVE  /\ accounts' \in [Name -> Account \cup {None}]
           /\ registered' \in Nat /\ frozen' \in BOOLEAN
  <1>1. CASE exists(job.name)
    <2> DEFINE acc == [accounts[job.name] EXCEPT !.cred = job.cred, !.owner = job.owner]
    <2>1. accounts[job.name] \in Account
      BY <1>1 DEF TypeOK, exists
    <2>2. acc \in Account
      BY <2>1 DEF Account
    <2>3. accounts' = [accounts EXCEPT ![job.name] = acc]
      BY <1>1 DEF set_credentials
    <2> HIDE DEF acc
    <2> QED
      BY <2>2, <2>3 DEF TypeOK, set_credentials
  <1>2. CASE ~exists(job.name)
    BY <1>2 DEF TypeOK, set_credentials
  <1> QED
    BY <1>1, <1>2

\* The account a password change would belong to.
LEMMA HolderType ==
    ASSUME NEW a \in Name, TypeOK
    PROVE  holder(a) \in Nat
    BY DEF TypeOK, holder, exists, Account
-----------------------------------------------------------------------------
(* The types are preserved: one step per action. *)

\* Jobs begun, passwords and codes.
LEMMA TypesBegun ==
    ASSUME TypeOK
    PROVE  /\ \A u \in Uid : SetDefcon(u) => TypeOK'
           /\ \A u \in Uid, a \in Name, cred \in Cred : Register(u, a, cred) => TypeOK'
           /\ \A a \in Name, cred \in Cred : RelayRegister(a, cred) => TypeOK'
           /\ \A u \in Uid, a \in Name, cred \in Cred : Identify(u, a, cred) => TypeOK'
           /\ \A u \in Uid, cred \in Cred : SetPassword(u, cred) => TypeOK'
           /\ \A u \in Uid, a \in Name, pw \in Cred : SaslPlain(u, a, pw) => TypeOK'
           /\ \A a \in Name, cred \in Cred : GrpcRegister(a, cred) => TypeOK'
           /\ \A a \in Name, cred \in Cred : GrpcSetPassword(a, cred) => TypeOK'
           /\ \A a \in Name, pw \in Cred : GrpcAuthenticate(a, pw) => TypeOK'
           /\ \A u \in Uid, a \in Name, ok \in BOOLEAN : SaslKeycard(u, a, ok) => TypeOK'
           /\ \A u \in Uid, a \in Name : IssueCode(u, a) => TypeOK'
           /\ \A u \in Uid, a \in Name, right \in BOOLEAN, cred \in Cred : ResetPassword(u, a, right, cred) => TypeOK'
           /\ \A a \in Name : Elapse(a) => TypeOK'
  <1> USE DEF acctVars, ircVars, authVars, jobVars
  <1>1. ASSUME NEW u \in Uid, SetDefcon(u)
       PROVE  TypeOK'
    BY <1>1 DEF TypeOK, SetDefcon, Command, Spend
  <1>2. ASSUME NEW u \in Uid, NEW a \in Name, NEW cred \in Cred, Register(u, a, cred)
       PROVE  TypeOK'
    <2>1. [kind |-> "register", uid |-> u, name |-> a, cred |-> cred] \in Jobs
      BY <1>2, JobKinds DEF TypeOK, Register
    <2>2. link' \in Jobs \cup {None} /\ tasks' \subseteq Jobs
      BY <1>2, <2>1, DeferTypes DEF Register
    <2> QED
      BY <1>2, <2>2 DEF TypeOK, Register, Command, Spend
  <1>3. ASSUME NEW a \in Name, NEW cred \in Cred, RelayRegister(a, cred)
       PROVE  TypeOK'
    <2>1. [kind |-> "register", uid |-> None, name |-> a, cred |-> cred] \in Jobs
      BY <1>3, JobKinds DEF TypeOK, RelayRegister
    <2>2. link' \in Jobs \cup {None} /\ tasks' \subseteq Jobs
      BY <1>3, <2>1, DeferTypes DEF RelayRegister
    <2> QED
      BY <1>3, <2>2 DEF TypeOK, RelayRegister, Spend
  <1>4. ASSUME NEW u \in Uid, NEW a \in Name, NEW cred \in Cred, Identify(u, a, cred)
       PROVE  TypeOK'
    <2>1. [kind |-> "identify", uid |-> u, name |-> a, ok |-> cred = accounts[a].cred] \in Jobs
      BY <1>4, JobKinds DEF TypeOK, Identify
    <2>2. link' \in Jobs \cup {None} /\ tasks' \subseteq Jobs
      BY <1>4, <2>1, DeferTypes DEF Identify
    <2> QED
      BY <1>4, <2>2 DEF TypeOK, Identify, Command, Spend
  <1>5. ASSUME NEW u \in Uid, NEW cred \in Cred, SetPassword(u, cred)
       PROVE  TypeOK'
    <2>1. sess[u] \in Name
      BY <1>5 DEF TypeOK, SetPassword
    <2>2. [kind |-> "password", name |-> sess[u], cred |-> cred, owner |-> holder(sess[u])] \in Jobs
      BY <2>1, JobKinds, HolderType
    <2>3. link' \in Jobs \cup {None} /\ tasks' \subseteq Jobs
      BY <1>5, <2>2, DeferTypes DEF SetPassword
    <2> QED
      BY <1>5, <2>3 DEF TypeOK, SetPassword, Command, Spend
  <1>6. ASSUME NEW u \in Uid, NEW a \in Name, NEW pw \in Cred, SaslPlain(u, a, pw)
       PROVE  TypeOK'
    <2>1. [kind |-> "plain", uid |-> u, name |-> a, ok |-> pw = accounts[a].cred] \in Jobs
      BY JobKinds
    <2>2. link' \in Jobs \cup {None} /\ tasks' \subseteq Jobs
      BY <1>6, <2>1, DeferTypes DEF SaslPlain, TypeOK
    <2> QED
      BY <1>6, <2>2 DEF TypeOK, SaslPlain, EndExchange
  <1>7. ASSUME NEW a \in Name, NEW cred \in Cred, GrpcRegister(a, cred)
       PROVE  TypeOK'
    <2>1. [kind |-> "register", uid |-> None, name |-> a, cred |-> cred] \in Jobs
      BY JobKinds
    <2> QED
      BY <1>7, <2>1 DEF TypeOK, GrpcRegister, Spend
  <1>8. ASSUME NEW a \in Name, NEW cred \in Cred, GrpcSetPassword(a, cred)
       PROVE  TypeOK'
    <2>1. [kind |-> "password", name |-> a, cred |-> cred, owner |-> holder(a)] \in Jobs
      BY JobKinds, HolderType
    <2> QED
      BY <1>8, <2>1 DEF TypeOK, GrpcSetPassword, Spend
  <1>9. ASSUME NEW a \in Name, NEW pw \in Cred, GrpcAuthenticate(a, pw)
       PROVE  TypeOK'
    <2>1. [kind |-> "authenticate", name |-> a, ok |-> pw = accounts[a].cred] \in Jobs
      BY JobKinds
    <2> QED
      BY <1>9, <2>1 DEF TypeOK, GrpcAuthenticate, Spend
  <1>10. ASSUME NEW u \in Uid, NEW a \in Name, NEW ok \in BOOLEAN, SaslKeycard(u, a, ok)
       PROVE  TypeOK'
    <2>1. [kind |-> "keycard", uid |-> u, name |-> a, ok |-> ok] \in Jobs
      BY JobKinds
    <2> QED
      BY <1>10, <2>1 DEF TypeOK, SaslKeycard, EndExchange
  <1>11. ASSUME NEW u \in Uid, NEW a \in Name, IssueCode(u, a)
       PROVE  TypeOK'
    <2>1. [owner |-> accounts[a].id, tries |-> CodeTries, fresh |-> TRUE] \in Codes
      BY <1>11, TriesAssumption DEF TypeOK, IssueCode, exists, Account, Codes
    <2> QED
      BY <1>11, <2>1 DEF TypeOK, IssueCode, Command, Spend
  <1>12. ASSUME NEW u \in Uid, NEW a \in Name, NEW right \in BOOLEAN,
               NEW cred \in Cred, ResetPassword(u, a, right, cred)
       PROVE  TypeOK'
    <2>1. codes[a] \in Codes
      BY <1>12 DEF TypeOK, ResetPassword
    <2>2. CASE right
      <3>1. [kind |-> "password", name |-> a, cred |-> cred, owner |-> codes[a].owner] \in Jobs
        BY <2>1, JobKinds DEF Codes
      <3>2. link' \in Jobs \cup {None} /\ tasks' \subseteq Jobs
        BY <1>12, <2>2, <3>1, DeferTypes DEF ResetPassword
      <3> QED
        BY <1>12, <2>2, <3>2 DEF TypeOK, ResetPassword, Command, Spend
    <2>3. CASE ~right
      <3>1. WrongGuess(codes[a]) \in Codes \cup {None}
        BY <2>1, TriesAssumption DEF Codes, WrongGuess
      <3>2. codes' = [codes EXCEPT ![a] = WrongGuess(codes[a])]
        BY <1>12, <2>3 DEF ResetPassword
      <3>3. codes' \in [Name -> Codes \cup {None}]
        BY <3>1, <3>2 DEF TypeOK
      <3> QED
        BY <1>12, <2>3, <3>3 DEF TypeOK, ResetPassword, Command, Spend
    <2> QED
      BY <2>2, <2>3
  <1>13. ASSUME NEW a \in Name, Elapse(a)
       PROVE  TypeOK'
    <2>1. CASE locked' = [locked EXCEPT ![a] = FALSE] /\ UNCHANGED codes
      BY <1>13, <2>1 DEF TypeOK, Elapse
    <2>2. CASE codes[a] # None /\ codes' = [codes EXCEPT ![a] = Aged(@)] /\ UNCHANGED locked
      <3>1. codes[a] \in Codes
        BY <2>2 DEF TypeOK
      <3>2. Aged(codes[a]) \in Codes \cup {None}
        BY <3>1 DEF Codes, Aged
      <3>3. codes' \in [Name -> Codes \cup {None}]
        BY <2>2, <3>2 DEF TypeOK
      <3>4. UNCHANGED <<acctVars, ircVars, fails, locked, jobVars, ops>>
        BY <1>13, <2>2 DEF Elapse
      <3> QED
        BY <3>3, <3>4 DEF TypeOK
    <2> QED
      BY <1>13, <2>1, <2>2 DEF Elapse
  <1> QED
    BY <1>1, <1>2, <1>3, <1>4, <1>5, <1>6, <1>7, <1>8, <1>9, <1>10, <1>11, <1>12, <1>13

\* sasl_login.
LEMMA SaslTypes ==
    ASSUME NEW u \in Uid, NEW a \in Name, TypeOK, sasl_login(u, a)
    PROVE  sess' \in [Uid -> Name \cup {None}] /\ shown' \in [Uid -> Name \cup {None}]
  <1>1. CASE is_suspended(a)
    BY <1>1 DEF TypeOK, sasl_login
  <1>2. CASE ~is_suspended(a)
    BY <1>2, TrackTypes DEF sasl_login
  <1> QED
    BY <1>1, <1>2

\* The completions of jobs keep the types (the resumed halves of every Defer
\* action, and what the spawned calls do when they have the engine again).
LEMMA TypesCompleted ==
    ASSUME TypeOK
    PROVE  /\ Complete => TypeOK'
           /\ \A job \in tasks : GrpcRegistered(job) => TypeOK'
           /\ \A job \in tasks : GrpcAuthenticated(job) => TypeOK'
           /\ \A job \in tasks : complete_keycard(job) => TypeOK'
           /\ \A job \in tasks : GrpcPasswordSet(job) => TypeOK'
  <1> USE DEF acctVars, ircVars, authVars, jobVars
  <1>1. ASSUME complete_register
       PROVE  TypeOK'
    <2>1. link \in Jobs /\ link.name \in Name /\ link.cred \in Cred
      BY <1>1, JobFields DEF TypeOK, complete_register
    <2>2. CASE register_prepared(link.name, FALSE)
      <3>1. /\ accounts' \in [Name -> Account \cup {None}]
            /\ registered' \in Nat /\ frozen' \in BOOLEAN
        BY <1>1, <2>1, <2>2, CreateTypes DEF complete_register
      <3>2. sess' \in [Uid -> Name \cup {None}] /\ shown' \in [Uid -> Name \cup {None}]
        BY <1>1, <2>1, <2>2, TrackTypes DEF complete_register
      <3> QED
        BY <1>1, <3>1, <3>2 DEF TypeOK, complete_register
    <2>3. CASE ~register_prepared(link.name, FALSE)
      BY <1>1, <2>3 DEF TypeOK, complete_register
    <2> QED
      BY <2>2, <2>3
  <1>2. ASSUME finish_identify
       PROVE  TypeOK'
    <2>1. link \in Jobs /\ link.name \in Name
      BY <1>2, JobFields DEF TypeOK, finish_identify
    <2>2. fails' \in [Name -> Nat] /\ locked' \in [Name -> BOOLEAN]
      BY <1>2, <2>1, NoteTypes DEF finish_identify
    <2>3. CASE link.ok
      <3>1. sess' \in [Uid -> Name \cup {None}] /\ shown' \in [Uid -> Name \cup {None}]
        BY <1>2, <2>1, <2>3, TrackTypes DEF finish_identify
      <3> QED
        BY <1>2, <2>2, <3>1 DEF TypeOK, finish_identify
    <2>4. CASE ~link.ok
      BY <1>2, <2>2, <2>4 DEF TypeOK, finish_identify
    <2> QED
      BY <2>3, <2>4
  <1>3. ASSUME complete_plain
       PROVE  TypeOK'
    <2>1. link \in Jobs /\ link.name \in Name /\ link.uid \in Uid
      BY <1>3, JobFields DEF TypeOK, complete_plain
    <2>2. fails' \in [Name -> Nat] /\ locked' \in [Name -> BOOLEAN]
      BY <1>3, <2>1, NoteTypes DEF complete_plain
    <2>3. CASE link.ok
      <3>1. sess' \in [Uid -> Name \cup {None}] /\ shown' \in [Uid -> Name \cup {None}]
        BY <1>3, <2>1, <2>3, SaslTypes DEF complete_plain
      <3> QED
        BY <1>3, <2>2, <3>1 DEF TypeOK, complete_plain
    <2>4. CASE ~link.ok
      BY <1>3, <2>2, <2>4 DEF TypeOK, complete_plain
    <2> QED
      BY <2>3, <2>4
  <1>4. ASSUME complete_password_change
       PROVE  TypeOK'
    <2>1. link \in Jobs /\ link.name \in Name /\ link.cred \in Cred /\ link.owner \in Nat
      BY <1>4, JobFields DEF TypeOK, complete_password_change
    <2>2. /\ accounts' \in [Name -> Account \cup {None}]
          /\ registered' \in Nat /\ frozen' \in BOOLEAN
      BY <1>4, <2>1, CredentialTypes DEF complete_password_change
    <2> QED
      BY <1>4, <2>2 DEF TypeOK, complete_password_change
  <1>5. ASSUME NEW job \in tasks, GrpcRegistered(job)
       PROVE  TypeOK'
    <2>1. job \in Jobs /\ job.name \in Name /\ job.cred \in Cred
      BY <1>5, JobFields DEF TypeOK, GrpcRegistered
    <2>2. CASE register_prepared(job.name, frozen)
      <3>1. /\ accounts' \in [Name -> Account \cup {None}]
            /\ registered' \in Nat /\ frozen' \in BOOLEAN
        BY <1>5, <2>1, <2>2, CreateTypes DEF GrpcRegistered, authority_register
      <3> QED
        BY <1>5, <3>1 DEF TypeOK, GrpcRegistered
    <2>3. CASE ~register_prepared(job.name, frozen)
      BY <1>5, <2>3 DEF TypeOK, GrpcRegistered, authority_register
    <2> QED
      BY <2>2, <2>3
  <1>6. ASSUME NEW job \in tasks, GrpcAuthenticated(job)
       PROVE  TypeOK'
    <2>1. job \in Jobs /\ job.name \in Name
      BY <1>6, JobFields DEF TypeOK
    <2>2. fails' \in [Name -> Nat] /\ locked' \in [Name -> BOOLEAN]
      BY <1>6, <2>1, NoteTypes DEF GrpcAuthenticated
    <2> QED
      BY <1>6, <2>2 DEF TypeOK, GrpcAuthenticated
  <1>7. ASSUME NEW job \in tasks, complete_keycard(job)
       PROVE  TypeOK'
    <2>1. job \in Jobs /\ job.name \in Name /\ job.uid \in Uid
      BY <1>7, JobFields DEF TypeOK, complete_keycard
    <2>2. CASE job.ok
      <3>1. sess' \in [Uid -> Name \cup {None}] /\ shown' \in [Uid -> Name \cup {None}]
        BY <1>7, <2>1, <2>2, SaslTypes DEF complete_keycard
      <3> QED
        BY <1>7, <3>1 DEF TypeOK, complete_keycard
    <2>3. CASE ~job.ok
      BY <1>7, <2>3 DEF TypeOK, complete_keycard
    <2> QED
      BY <2>2, <2>3
  <1>8. ASSUME NEW job \in tasks, GrpcPasswordSet(job)
       PROVE  TypeOK'
    <2>1. job \in Jobs /\ job.name \in Name /\ job.cred \in Cred /\ job.owner \in Nat
      BY <1>8, JobFields DEF TypeOK, GrpcPasswordSet
    <2>2. /\ accounts' \in [Name -> Account \cup {None}]
          /\ registered' \in Nat /\ frozen' \in BOOLEAN
      BY <1>8, <2>1, CredentialTypes DEF GrpcPasswordSet
    <2> QED
      BY <1>8, <2>2 DEF TypeOK, GrpcPasswordSet
  <1> QED
    BY <1>1, <1>2, <1>3, <1>4, <1>5, <1>6, <1>7, <1>8 DEF Complete

\* The messages of a SASL exchange keep the types (sasl.rs).
LEMMA TypesSasl ==
    ASSUME TypeOK, NEW u \in Uid
    PROVE  /\ \A mech \in {"PLAIN", "SCRAM", "EXTERNAL", "ECDSA"} : SaslStart(u, mech) => TypeOK'
           /\ \A a \in Name : ScramFirst(u, a) => TypeOK'
           /\ \A pw \in Cred : ScramFinal(u, pw) => TypeOK'
           /\ ScramAck(u) => TypeOK'
           /\ \A a \in Name, owned \in BOOLEAN : SaslExternal(u, a, owned) => TypeOK'
           /\ \A a \in Name, keyed \in BOOLEAN : EcdsaName(u, a, keyed) => TypeOK'
           /\ \A good \in BOOLEAN : EcdsaSignature(u, good) => TypeOK'
           /\ SaslEnd(u) => TypeOK'
  <1> USE DEF acctVars, ircVars, authVars, jobVars
  <1>e. sasl[u] # None => sasl[u] \in Exchanges
    BY DEF TypeOK
  <1>1. ASSUME NEW mech \in {"PLAIN", "SCRAM", "EXTERNAL", "ECDSA"}, SaslStart(u, mech)
       PROVE  TypeOK'
    <2>1. [mech |-> mech, step |-> "Started"] \in Exchanges
      BY DEF Exchanges
    <2>2. sasl' \in [Uid -> Exchanges \cup {None}]
      BY <1>1, <2>1 DEF TypeOK, SaslStart
    <2> QED
      BY <1>1, <2>2 DEF TypeOK, SaslStart
  <1>2. ASSUME NEW a \in Name, ScramFirst(u, a)
       PROVE  TypeOK'
    <2> DEFINE next == [mech |-> "SCRAM", step |-> "ClientFinal", name |-> a,
                        cred |-> accounts[a].cred]
    <2>1. exists(a) => next \in Exchanges
      BY DEF TypeOK, exists, Account, Exchanges
    <2>2. sasl' = [sasl EXCEPT ![u] = IF exists(a) /\ ~locked[a] THEN next ELSE None]
      BY <1>2 DEF ScramFirst
    <2> HIDE DEF next
    <2>3. sasl' \in [Uid -> Exchanges \cup {None}]
      BY <2>1, <2>2 DEF TypeOK
    <2> QED
      BY <1>2, <2>3 DEF TypeOK, ScramFirst
  <1>3. ASSUME NEW pw \in Cred, ScramFinal(u, pw)
       PROVE  TypeOK'
    <2> DEFINE ok == pw = sasl[u].cred
               next == [mech |-> "SCRAM", step |-> "Ack", name |-> sasl[u].name]
    <2>1. sasl[u].name \in Name
      BY <1>3, <1>e, ExchangeFields DEF ScramFinal, Exchange
    <2>2. next \in Exchanges
      BY <2>1 DEF Exchanges
    <2>3. note_auth(sasl[u].name, ok)
      BY <1>3 DEF ScramFinal
    <2>4. fails' \in [Name -> Nat] /\ locked' \in [Name -> BOOLEAN]
      BY <2>1, <2>3, NoteTypes
    <2>5. sasl' = [sasl EXCEPT ![u] = IF ok THEN next ELSE None]
      BY <1>3 DEF ScramFinal, TypeOK
    <2> HIDE DEF next, ok
    <2>6. sasl' \in [Uid -> Exchanges \cup {None}]
      BY <2>2, <2>5 DEF TypeOK
    <2> QED
      BY <1>3, <2>4, <2>6 DEF TypeOK, ScramFinal
  <1>4. ASSUME ScramAck(u)
       PROVE  TypeOK'
    <2>1. sasl[u].name \in Name
      BY <1>4, <1>e, ExchangeFields DEF ScramAck, Exchange
    <2>2. sess' \in [Uid -> Name \cup {None}] /\ shown' \in [Uid -> Name \cup {None}]
      BY <1>4, <2>1, SaslTypes DEF ScramAck
    <2> QED
      BY <1>4, <2>2 DEF TypeOK, ScramAck, EndExchange
  <1>5. ASSUME NEW a \in Name, NEW owned \in BOOLEAN, SaslExternal(u, a, owned)
       PROVE  TypeOK'
    <2>1. CASE exists(a) /\ owned
      <3>1. sess' \in [Uid -> Name \cup {None}] /\ shown' \in [Uid -> Name \cup {None}]
        BY <1>5, <2>1, SaslTypes DEF SaslExternal
      <3> QED
        BY <1>5, <3>1 DEF TypeOK, SaslExternal, EndExchange
    <2>2. CASE ~(exists(a) /\ owned)
      BY <1>5, <2>2 DEF TypeOK, SaslExternal, EndExchange
    <2> QED
      BY <2>1, <2>2
  <1>6. ASSUME NEW a \in Name, NEW keyed \in BOOLEAN, EcdsaName(u, a, keyed)
       PROVE  TypeOK'
    <2>1. [mech |-> "ECDSA", step |-> "Signature", name |-> a] \in Exchanges
      BY DEF Exchanges
    <2> QED
      BY <1>6, <2>1 DEF TypeOK, EcdsaName
  <1>7. ASSUME NEW good \in BOOLEAN, EcdsaSignature(u, good)
       PROVE  TypeOK'
    <2>1. sasl[u].name \in Name
      BY <1>7, <1>e, ExchangeFields DEF EcdsaSignature, Exchange
    <2>2. CASE good
      <3>1. sess' \in [Uid -> Name \cup {None}] /\ shown' \in [Uid -> Name \cup {None}]
        BY <1>7, <2>1, <2>2, SaslTypes DEF EcdsaSignature
      <3> QED
        BY <1>7, <3>1 DEF TypeOK, EcdsaSignature, EndExchange
    <2>3. CASE ~good
      BY <1>7, <2>3 DEF TypeOK, EcdsaSignature, EndExchange
    <2> QED
      BY <2>2, <2>3
  <1>8. ASSUME SaslEnd(u)
       PROVE  TypeOK'
    BY <1>8 DEF TypeOK, SaslEnd, EndExchange
  <1> QED
    BY <1>1, <1>2, <1>3, <1>4, <1>5, <1>6, <1>7, <1>8

\* Logging out, accounts going away and the connections themselves keep the
\* types (drop_account, gossip_ingest, forget_user).
LEMMA TypesEnded ==
    ASSUME TypeOK
    PROVE  /\ \A u \in Uid, pw \in Cred : Drop(u, pw) => TypeOK'
           /\ \A u \in Uid, a \in Name : Suspend(u, a) \/ Unsuspend(u, a) => TypeOK'
           /\ \A a \in Name : TakeAway(a) \/ GossipSuspend(a) \/ ForceLogout(a) => TypeOK'
           /\ \A u \in Uid : Logout(u) \/ Quit(u) \/ Open(u) \/ Connect(u) \/ Vanish(u) => TypeOK'
           /\ Drain => TypeOK'
  <1> USE DEF acctVars, ircVars, authVars, jobVars
  <1>a. ASSUME NEW a \in Name, Remove(a)
       PROVE  accounts' \in [Name -> Account \cup {None}] /\ registered' \in Nat /\ frozen' \in BOOLEAN
    BY <1>a DEF TypeOK, Remove
  <1>b. ASSUME NEW a \in Name, exists(a), NEW flag \in BOOLEAN,
               accounts' = [accounts EXCEPT ![a] = [@ EXCEPT !.suspended = flag]]
       PROVE  accounts' \in [Name -> Account \cup {None}]
    <2> DEFINE acc == [accounts[a] EXCEPT !.suspended = flag]
    <2>0. accounts[a] \in Account
      BY <1>b DEF TypeOK, exists
    <2>1. acc \in Account
      BY <2>0 DEF Account
    <2>2. accounts' = [accounts EXCEPT ![a] = acc]
      BY <1>b
    <2> HIDE DEF acc
    <2> QED
      BY <2>1, <2>2 DEF TypeOK
  <1>1. ASSUME NEW u \in Uid, NEW pw \in Cred, Drop(u, pw)
       PROVE  TypeOK'
    <2> DEFINE ok == exists(sess[u]) /\ pw = accounts[sess[u]].cred
    <2>1. sess[u] \in Name
      BY <1>1 DEF Drop, TypeOK
    <2>2. note_auth(sess[u], ok)
      BY <1>1 DEF Drop
    <2>3. fails' \in [Name -> Nat] /\ locked' \in [Name -> BOOLEAN]
      BY <2>1, <2>2, NoteTypes
    <2>4. IF ok THEN DropAccount(u, sess[u]) ELSE UNCHANGED <<acctVars, sess, shown>>
      BY <1>1 DEF Drop
    <2>5. UNCHANGED <<conn, queue, sasl, codes, jobVars>>
      BY <1>1 DEF Drop
    <2> HIDE DEF ok
    <2>6. CASE ok
      <3>1. sess' \in [Uid -> Name \cup {None}] /\ shown' \in [Uid -> Name \cup {None}]
        BY <2>4, <2>6, TrackTypes DEF DropAccount
      <3>2. accounts' \in [Name -> Account \cup {None}] /\ registered' \in Nat /\ frozen' \in BOOLEAN
        BY <1>a, <2>1, <2>4, <2>6 DEF DropAccount
      <3> QED
        BY <2>3, <2>5, <3>1, <3>2 DEF TypeOK
    <2>7. CASE ~ok
      BY <2>3, <2>4, <2>5, <2>7 DEF TypeOK
    <2> QED
      BY <2>6, <2>7
  <1>2. ASSUME NEW u \in Uid, NEW a \in Name, Suspend(u, a)
       PROVE  TypeOK'
    <2>1. accounts' \in [Name -> Account \cup {None}]
      BY <1>2, <1>b DEF Suspend
    <2>2. sess' \in [Uid -> Name \cup {None}] /\ shown' \in [Uid -> Name \cup {None}]
      BY <1>2, TrackTypes DEF Suspend
    <2> QED
      BY <1>2, <2>1, <2>2 DEF TypeOK, Suspend
  <1>3. ASSUME NEW u \in Uid, NEW a \in Name, Unsuspend(u, a)
       PROVE  TypeOK'
    <2>1. accounts' \in [Name -> Account \cup {None}]
      BY <1>3, <1>b DEF Unsuspend, is_suspended
    <2> QED
      BY <1>3, <2>1 DEF TypeOK, Unsuspend
  <1>4. ASSUME NEW a \in Name, TakeAway(a)
       PROVE  TypeOK'
    <2>1. accounts' \in [Name -> Account \cup {None}] /\ registered' \in Nat /\ frozen' \in BOOLEAN
      BY <1>4, <1>a DEF TakeAway
    <2>2. sess' \in [Uid -> Name \cup {None}] /\ queue' \in Seq(Uid) /\ shown' = shown
      BY <1>4, LogoutTypes DEF TakeAway
    <2> QED
      BY <1>4, <2>1, <2>2 DEF TypeOK, TakeAway
  <1>5. ASSUME NEW a \in Name, GossipSuspend(a)
       PROVE  TypeOK'
    <2>1. accounts' \in [Name -> Account \cup {None}]
      BY <1>5, <1>b DEF GossipSuspend
    <2>2. sess' \in [Uid -> Name \cup {None}] /\ queue' \in Seq(Uid) /\ shown' = shown
      BY <1>5, LogoutTypes DEF GossipSuspend
    <2> QED
      BY <1>5, <2>1, <2>2 DEF TypeOK, GossipSuspend
  <1>6. ASSUME NEW a \in Name, ForceLogout(a)
       PROVE  TypeOK'
    <2>1. sess' \in [Uid -> Name \cup {None}] /\ queue' \in Seq(Uid) /\ shown' = shown
      BY <1>6, LogoutTypes DEF ForceLogout
    <2> QED
      BY <1>6, <2>1 DEF TypeOK, ForceLogout
  <1>7. ASSUME NEW u \in Uid, Logout(u)
       PROVE  TypeOK'
    <2>1. sess' \in [Uid -> Name \cup {None}] /\ shown' \in [Uid -> Name \cup {None}]
      BY <1>7, TrackTypes DEF Logout
    <2> QED
      BY <1>7, <2>1 DEF TypeOK, Logout
  <1>8. ASSUME NEW u \in Uid, Quit(u) \/ Open(u) \/ Connect(u) \/ Vanish(u)
       PROVE  TypeOK'
    <2>1. conn' \in [Uid -> {"free", "connecting", "connected"}]
      BY <1>8 DEF TypeOK, Quit, Open, Connect, Vanish
    <2>2. /\ sess' \in [Uid -> Name \cup {None}] /\ shown' \in [Uid -> Name \cup {None}]
          /\ sasl' \in [Uid -> Exchanges \cup {None}]
      BY <1>8 DEF TypeOK, Quit, Open, Connect, Vanish
    <2>3. UNCHANGED <<acctVars, queue, authVars, jobVars>>
      BY <1>8 DEF Quit, Open, Connect, Vanish
    <2> QED
      BY <2>1, <2>2, <2>3 DEF TypeOK
  <1>9. ASSUME Drain
       PROVE  TypeOK'
    <2>1. Head(queue) \in Uid /\ Tail(queue) \in Seq(Uid)
      BY <1>9 DEF TypeOK, Drain
    <2> QED
      BY <1>9, <2>1 DEF TypeOK, Drain
  <1> QED
    BY <1>1, <1>2, <1>3, <1>4, <1>5, <1>6, <1>7, <1>8, <1>9

\* Every step keeps the types.
LEMMA TypesKept ==
    ASSUME TypeOK, [Next]_vars
    PROVE  TypeOK'
  <1>1. ASSUME NEW u \in Uid, Commands(u)
       PROVE  TypeOK'
    BY <1>1, TypesBegun, TypesEnded DEF Commands
  <1>2. ASSUME NEW u \in Uid, Sasl(u)
       PROVE  TypeOK'
    BY <1>2, TypesBegun, TypesSasl DEF Sasl
  <1>3. ASSUME NEW u \in Uid, Open(u) \/ Connect(u) \/ Vanish(u)
       PROVE  TypeOK'
    BY <1>3, TypesEnded
  <1>4. CASE Complete
    BY <1>4, TypesCompleted
  <1>5. ASSUME NEW a \in Name, NEW cred \in Cred, RelayRegister(a, cred)
       PROVE  TypeOK'
    BY <1>5, TypesBegun
  <1>6. CASE Drain
    BY <1>6, TypesEnded
  <1>7. CASE Beside
    BY <1>7, TypesBegun, TypesCompleted, TypesEnded DEF Beside
  <1>8. CASE UNCHANGED vars
    BY <1>8 DEF TypeOK, vars
  <1> QED
    BY <1>1, <1>2, <1>3, <1>4, <1>5, <1>6, <1>7, <1>8 DEF Next

-----------------------------------------------------------------------------
(* What a step may do to the freeze, the registrations and the link's job. *)

\* The freeze turns only while the loop is free to read the line that turns it,
\* and nothing else happens to a registration then (OperServ DEFCON).
FreezeTurns ==
    /\ link = None /\ link' = None
    /\ UNCHANGED <<accounts, registered>>

\* Otherwise the link starts to await a registration only if it is not frozen
\* (the gate of begin_register), or keeps the job it has, or awaits none.
GateKept ==
    /\ UNCHANGED frozen
    /\ \/ UNCHANGED link
       \/ link' # None /\ link'.kind = "register" => ~frozen

\* Every step is one or the other.
LEMMA FreezeStep ==
    ASSUME TypeOK, [Next]_vars
    PROVE  FreezeTurns \/ GateKept
  <1> USE DEF acctVars, ircVars, authVars, jobVars, GateKept
  <1>1. ASSUME NEW u \in Uid, Commands(u)
       PROVE  FreezeTurns \/ GateKept
    <2>1. ASSUME NEW a \in Name, NEW cred \in Cred, Register(u, a, cred)
         PROVE  GateKept
      BY <2>1 DEF Register
    <2>2. ASSUME NEW a \in Name, NEW cred \in Cred, Identify(u, a, cred)
         PROVE  GateKept
      BY <2>2 DEF Identify, Defer
    <2>3. ASSUME NEW cred \in Cred, SetPassword(u, cred)
         PROVE  GateKept
      BY <2>3 DEF SetPassword, Defer
    <2>4. ASSUME NEW cred \in Cred, Drop(u, cred)
         PROVE  GateKept
      BY <2>4 DEF Drop, DropAccount, Remove
    <2>5. ASSUME NEW a \in Name, IssueCode(u, a) \/ Suspend(u, a) \/ Unsuspend(u, a)
         PROVE  GateKept
      BY <2>5 DEF IssueCode, Suspend, Unsuspend
    <2>6. ASSUME NEW a \in Name, NEW cred \in Cred, NEW right \in BOOLEAN,
                 ResetPassword(u, a, right, cred)
         PROVE  GateKept
      BY <2>6 DEF ResetPassword, Defer
    <2>7. ASSUME Logout(u) \/ Quit(u)
         PROVE  GateKept
      BY <2>7 DEF Logout, Quit
    <2>8. ASSUME SetDefcon(u)
         PROVE  FreezeTurns
      BY <2>8 DEF SetDefcon, Command, FreezeTurns
    <2> QED
      BY <1>1, <2>1, <2>2, <2>3, <2>4, <2>5, <2>6, <2>7, <2>8 DEF Commands
  <1>2. ASSUME NEW u \in Uid, Sasl(u)
       PROVE  GateKept
    <2>1. ASSUME NEW a \in Name, NEW pw \in Cred, SaslPlain(u, a, pw)
         PROVE  GateKept
      <3> DEFINE job == [kind |-> "plain", uid |-> u, name |-> a, ok |-> pw = accounts[a].cred]
      <3>1. job.kind = "plain"
        BY Zenon
      <3>2. IF exists(a) /\ ~locked[a] THEN Defer(job) ELSE UNCHANGED jobVars
        BY <2>1, Zenon DEF SaslPlain
      <3>3. UNCHANGED frozen
        BY <2>1 DEF SaslPlain
      <3> HIDE DEF job
      <3> QED
        BY <3>1, <3>2, <3>3 DEF Defer
    <2>2. ASSUME NEW mech \in {"PLAIN", "SCRAM", "EXTERNAL", "ECDSA"}, SaslStart(u, mech)
         PROVE  GateKept
      BY <2>2 DEF SaslStart
    <2>3. ASSUME NEW a \in Name, NEW ok \in BOOLEAN,
                 SaslKeycard(u, a, ok) \/ SaslExternal(u, a, ok) \/ EcdsaName(u, a, ok)
         PROVE  GateKept
      BY <2>3 DEF SaslKeycard, SaslExternal, EcdsaName
    <2>4. ASSUME NEW a \in Name, ScramFirst(u, a)
         PROVE  GateKept
      BY <2>4 DEF ScramFirst
    <2>5. ASSUME NEW pw \in Cred, ScramFinal(u, pw)
         PROVE  GateKept
      BY <2>5 DEF ScramFinal
    <2>6. ASSUME NEW ok \in BOOLEAN, EcdsaSignature(u, ok)
         PROVE  GateKept
      BY <2>6 DEF EcdsaSignature
    <2>7. ASSUME ScramAck(u) \/ SaslEnd(u)
         PROVE  GateKept
      BY <2>7 DEF ScramAck, SaslEnd
    <2> QED
      BY <1>2, <2>1, <2>2, <2>3, <2>4, <2>5, <2>6, <2>7 DEF Sasl
  <1>3. ASSUME NEW u \in Uid, Open(u) \/ Connect(u) \/ Vanish(u)
       PROVE  GateKept
    BY <1>3 DEF Open, Connect, Vanish
  <1>4. ASSUME Complete
       PROVE  GateKept
    <2>1. UNCHANGED frozen
      BY <1>4 DEF Complete, complete_register, Create, finish_identify, complete_plain,
                  complete_password_change, set_credentials
    <2>2. link' = None
      BY <1>4 DEF Complete, complete_register, finish_identify, complete_plain,
                  complete_password_change
    <2> QED
      BY <2>1, <2>2
  <1>5. ASSUME NEW a \in Name, NEW cred \in Cred, RelayRegister(a, cred)
       PROVE  GateKept
    BY <1>5 DEF RelayRegister
  <1>6. ASSUME Drain
       PROVE  GateKept
    BY <1>6 DEF Drain
  <1>7. ASSUME Beside
       PROVE  GateKept
    <2>1. ASSUME NEW a \in Name, NEW cred \in Cred,
                 GrpcRegister(a, cred) \/ GrpcAuthenticate(a, cred) \/ GrpcSetPassword(a, cred)
         PROVE  GateKept
      BY <2>1 DEF GrpcRegister, GrpcAuthenticate, GrpcSetPassword
    <2>2. ASSUME NEW job \in tasks,
                 \/ GrpcRegistered(job) \/ GrpcAuthenticated(job)
                 \/ complete_keycard(job) \/ GrpcPasswordSet(job)
         PROVE  GateKept
      BY <2>2 DEF GrpcRegistered, authority_register, Create, GrpcAuthenticated,
                  complete_keycard, GrpcPasswordSet, set_credentials
    <2>3. ASSUME NEW a \in Name, TakeAway(a) \/ GossipSuspend(a) \/ ForceLogout(a) \/ Elapse(a)
         PROVE  GateKept
      BY <2>3 DEF TakeAway, Remove, GossipSuspend, ForceLogout, Elapse
    <2> QED
      BY <1>7, <2>1, <2>2, <2>3 DEF Beside
  <1>8. CASE UNCHANGED vars
    BY <1>8 DEF vars
  <1> QED
    BY <1>1, <1>2, <1>3, <1>4, <1>5, <1>6, <1>7, <1>8 DEF Next

-----------------------------------------------------------------------------
(* The invariant. *)

\* A node starts with no accounts, no sessions and no freeze.
LEMMA InvInit == Init => IInv
  <1> SUFFICES ASSUME Init
               PROVE  IInv
    OBVIOUS
  <1>1. registered \in Nat /\ queue \in Seq(Uid) /\ frozen \in BOOLEAN
    <2>1. <<>> \in Seq(Uid)
      BY SMT
    <2> QED
      BY <2>1 DEF Init
  <1>2. TypeOK
    <2>1. /\ accounts \in [Name -> Account \cup {None}]
          /\ conn \in [Uid -> {"free", "connecting", "connected"}]
          /\ sess \in [Uid -> Name \cup {None}]
          /\ shown \in [Uid -> Name \cup {None}]
          /\ sasl \in [Uid -> Exchanges \cup {None}]
          /\ codes \in [Name -> Codes \cup {None}]
      BY DEF Init
    <2>2. fails \in [Name -> Nat] /\ locked \in [Name -> BOOLEAN]
      BY DEF Init
    <2>3. link \in Jobs \cup {None} /\ tasks \subseteq Jobs
      BY DEF Init
    <2> QED
      BY <1>1, <2>1, <2>2, <2>3 DEF TypeOK
  <1>3. GateStands
    BY DEF Init, GateStands
  <1> QED
    BY <1>2, <1>3 DEF IInv

\* Every step keeps the types and the gate of an awaited registration.
LEMMA InvStep == IInv /\ [Next]_vars => IInv'
  <1> SUFFICES ASSUME IInv, [Next]_vars
               PROVE  IInv'
    OBVIOUS
  <1>1. TypeOK /\ GateStands
    BY DEF IInv
  <1>2. TypeOK'
    BY <1>1, TypesKept
  <1>3. GateStands'
    BY <1>1, FreezeStep DEF GateStands, FreezeTurns, GateKept
  <1> QED
    BY <1>2, <1>3 DEF IInv

\* The invariant holds throughout (Register's gate is not looked at again, and
\* need not be: complete_register relies on the loop having read nothing).
THEOREM Invariant == Spec => []IInv
  BY InvInit, InvStep, PTL DEF Spec

\* Every account, session, exchange, code and job is of its kind at all times,
\* and a code that is kept has a try left (account.rs burns it with the last).
THEOREM LoginTypes == Spec => []TypeOK
  <1>1. IInv => TypeOK
    BY DEF IInv
  <1> QED
    BY Invariant, <1>1, PTL

-----------------------------------------------------------------------------
(* No account is registered while the network is frozen. *)

\* Only two steps register: the link's completion, and a call's.
LEMMA RegisteringSteps ==
    ASSUME TypeOK, [Next]_vars, registered' # registered
    PROVE  complete_register \/ \E job \in tasks : GrpcRegistered(job)
  <1> USE DEF acctVars
  <1>1. ASSUME NEW u \in Uid, Commands(u)
       PROVE  UNCHANGED registered
    BY <1>1, Zenon DEF Commands, Register, Identify, SetPassword, Drop, DropAccount, Remove, IssueCode,
              Suspend, Unsuspend, ResetPassword, Logout, SetDefcon, Quit
  <1>2. ASSUME NEW u \in Uid, Sasl(u)
       PROVE  UNCHANGED registered
    BY <1>2, Zenon DEF Sasl, SaslStart, SaslPlain, SaslKeycard, SaslExternal, EcdsaName,
              ScramFirst, ScramFinal, EcdsaSignature, ScramAck, SaslEnd
  <1>3. ASSUME NEW u \in Uid, Open(u) \/ Connect(u) \/ Vanish(u)
       PROVE  UNCHANGED registered
    BY <1>3 DEF Open, Connect, Vanish
  <1>4. ASSUME finish_identify \/ complete_plain \/ complete_password_change
       PROVE  UNCHANGED registered
    BY <1>4 DEF finish_identify, complete_plain, complete_password_change, set_credentials
  <1>5. ASSUME NEW a \in Name, NEW cred \in Cred, RelayRegister(a, cred)
       PROVE  UNCHANGED registered
    BY <1>5 DEF RelayRegister
  <1>6. ASSUME Drain
       PROVE  UNCHANGED registered
    BY <1>6 DEF Drain
  <1>7. ASSUME NEW a \in Name, NEW cred \in Cred,
               GrpcRegister(a, cred) \/ GrpcAuthenticate(a, cred) \/ GrpcSetPassword(a, cred)
       PROVE  UNCHANGED registered
    BY <1>7 DEF GrpcRegister, GrpcAuthenticate, GrpcSetPassword
  <1>8. ASSUME NEW job \in tasks,
               GrpcAuthenticated(job) \/ complete_keycard(job) \/ GrpcPasswordSet(job)
       PROVE  UNCHANGED registered
    BY <1>8 DEF GrpcAuthenticated, complete_keycard, GrpcPasswordSet, set_credentials
  <1>9. ASSUME NEW a \in Name, TakeAway(a) \/ GossipSuspend(a) \/ ForceLogout(a) \/ Elapse(a)
       PROVE  UNCHANGED registered
    BY <1>9 DEF TakeAway, Remove, GossipSuspend, ForceLogout, Elapse
  <1>10. CASE UNCHANGED vars
    BY <1>10 DEF vars
  <1>11. CASE Complete
    BY <1>4, <1>11 DEF Complete
  <1>12. CASE Beside
    BY <1>7, <1>8, <1>9, <1>12 DEF Beside
  <1> QED
    BY <1>1, <1>2, <1>3, <1>5, <1>6, <1>10, <1>11, <1>12 DEF Next

\* Once the freeze is on no derivation that was under way creates an account:
\* a call's registration looks at the freeze again (grpc.rs), and the link's
\* need not, because it reads no line while it waits (GateStands).
THEOREM RegistrationsFrozen == Spec => FrozenMeansFrozen
  <1>1. ASSUME IInv, [Next]_vars, frozen
       PROVE  registered' = registered
    <2>1. ASSUME complete_register
         PROVE  FALSE
      BY <1>1, <2>1 DEF IInv, GateStands, complete_register
    <2>2. ASSUME NEW job \in tasks, GrpcRegistered(job)
         PROVE  registered' = registered
      BY <1>1, <2>2 DEF GrpcRegistered, authority_register, register_prepared, acctVars
    <2> QED
      BY <1>1, <2>1, <2>2, RegisteringSteps DEF IInv
  <1>2. IInv /\ [Next]_vars => [frozen => registered' = registered]_vars
    BY <1>1
  <1> QED
    BY Invariant, <1>2, PTL DEF Spec, FrozenMeansFrozen

-----------------------------------------------------------------------------
(* No account is replaced by a later registration of its name. *)

\* If there is an account of the name before and after, it is the same one.
Same(a) == exists(a) /\ exists(a)' => accounts'[a].id = accounts[a].id

\* register_prepared creates an account only where there is none.
LEMMA CreateKeeps ==
    ASSUME TypeOK, NEW b \in Name, NEW cred \in Cred, ~exists(b), Create(b, cred)
    PROVE  \A a \in Name : Same(a)
    BY DEF TypeOK, exists, Create, Same

\* set_credentials changes the credential of the account it finds.
LEMMA CredentialsKeep ==
    ASSUME TypeOK, NEW job, job.name \in Name, set_credentials(job)
    PROVE  \A a \in Name : Same(a)
  <1>1. CASE exists(job.name)
    <2> DEFINE acc == [accounts[job.name] EXCEPT !.cred = job.cred, !.owner = job.owner]
    <2>1. accounts[job.name] \in Account
      BY <1>1 DEF TypeOK, exists
    <2>2. acc.id = accounts[job.name].id
      BY <2>1 DEF Account
    <2>3. accounts' = [accounts EXCEPT ![job.name] = acc]
      BY <1>1 DEF set_credentials
    <2> HIDE DEF acc
    <2> QED
      BY <2>2, <2>3 DEF TypeOK, Same
  <1>2. CASE ~exists(job.name)
    BY <1>2 DEF set_credentials, Same
  <1> QED
    BY <1>1, <1>2

\* Nor does a suspension, put on or lifted, change whose account it is.
LEMMA SuspensionKeeps ==
    ASSUME TypeOK, NEW b \in Name, exists(b), NEW flag \in BOOLEAN,
           accounts' = [accounts EXCEPT ![b] = [@ EXCEPT !.suspended = flag]]
    PROVE  \A a \in Name : Same(a)
  <1> DEFINE acc == [accounts[b] EXCEPT !.suspended = flag]
  <1>1. accounts[b] \in Account
    BY DEF TypeOK, exists
  <1>2. acc.id = accounts[b].id
    BY <1>1 DEF Account
  <1>3. accounts' = [accounts EXCEPT ![b] = acc]
    OBVIOUS
  <1> HIDE DEF acc
  <1> QED
    BY <1>2, <1>3 DEF TypeOK, Same

\* A dropped account is not there afterwards.
LEMMA RemovalKeeps ==
    ASSUME TypeOK, NEW b \in Name, Remove(b)
    PROVE  \A a \in Name : Same(a)
    BY DEF TypeOK, Remove, Same, exists

\* Every step keeps every account it does not drop.
LEMMA SameStep ==
    ASSUME TypeOK, [Next]_vars
    PROVE  \A a \in Name : Same(a)
  <1> USE DEF acctVars
  <1>u. UNCHANGED accounts => \A a \in Name : Same(a)
    BY DEF Same
  <1>1. ASSUME NEW u \in Uid, Commands(u)
       PROVE  \A a \in Name : Same(a)
    <2>1. ASSUME NEW a \in Name, NEW cred \in Cred, Register(u, a, cred) \/ Identify(u, a, cred)
         PROVE  UNCHANGED accounts
      BY <2>1 DEF Register, Identify
    <2>2. ASSUME NEW cred \in Cred, SetPassword(u, cred)
         PROVE  UNCHANGED accounts
      BY <2>2 DEF SetPassword
    <2>3. ASSUME NEW cred \in Cred, Drop(u, cred)
         PROVE  \A a \in Name : Same(a)
      <3>1. sess[u] \in Name
        BY <2>3 DEF Drop, TypeOK
      <3>2. UNCHANGED accounts \/ Remove(sess[u])
        BY <2>3, Zenon DEF Drop, DropAccount
      <3> QED
        BY <1>u, <3>1, <3>2, RemovalKeeps
    <2>4. ASSUME NEW a \in Name, Suspend(u, a)
         PROVE  \A b \in Name : Same(b)
      BY <2>4, SuspensionKeeps DEF Suspend
    <2>5. ASSUME NEW a \in Name, Unsuspend(u, a)
         PROVE  \A b \in Name : Same(b)
      BY <2>5, SuspensionKeeps DEF Unsuspend, is_suspended
    <2>6. ASSUME NEW a \in Name, IssueCode(u, a)
         PROVE  UNCHANGED accounts
      BY <2>6 DEF IssueCode
    <2>7. ASSUME NEW a \in Name, NEW cred \in Cred, NEW right \in BOOLEAN,
                 ResetPassword(u, a, right, cred)
         PROVE  UNCHANGED accounts
      BY <2>7 DEF ResetPassword
    <2>8. ASSUME Logout(u) \/ SetDefcon(u) \/ Quit(u)
         PROVE  UNCHANGED accounts
      BY <2>8 DEF Logout, SetDefcon, Quit
    <2> QED
      BY <1>1, <1>u, <2>1, <2>2, <2>3, <2>4, <2>5, <2>6, <2>7, <2>8 DEF Commands
  <1>2. ASSUME NEW u \in Uid, Sasl(u)
       PROVE  UNCHANGED accounts
    BY <1>2, Zenon DEF Sasl, SaslStart, SaslPlain, SaslKeycard, SaslExternal, EcdsaName,
              ScramFirst, ScramFinal, EcdsaSignature, ScramAck, SaslEnd
  <1>3. ASSUME NEW u \in Uid, Open(u) \/ Connect(u) \/ Vanish(u)
       PROVE  UNCHANGED accounts
    BY <1>3 DEF Open, Connect, Vanish
  <1>4. CASE Complete
    <2>1. ASSUME complete_register
         PROVE  \A a \in Name : Same(a)
      <3>1. link.name \in Name /\ link.cred \in Cred
        BY <2>1, JobFields DEF TypeOK, complete_register
      <3>2. \/ UNCHANGED accounts
            \/ ~exists(link.name) /\ Create(link.name, link.cred)
        BY <2>1, Zenon DEF complete_register, register_prepared
      <3> QED
        BY <1>u, <3>1, <3>2, CreateKeeps
    <2>2. ASSUME finish_identify \/ complete_plain
         PROVE  UNCHANGED accounts
      BY <2>2 DEF finish_identify, complete_plain
    <2>3. ASSUME complete_password_change
         PROVE  \A a \in Name : Same(a)
      <3>1. link.name \in Name
        BY <2>3, JobFields DEF TypeOK, complete_password_change
      <3> QED
        BY <2>3, <3>1, CredentialsKeep DEF complete_password_change
    <2> QED
      BY <1>4, <1>u, <2>1, <2>2, <2>3 DEF Complete
  <1>5. ASSUME NEW a \in Name, NEW cred \in Cred, RelayRegister(a, cred)
       PROVE  UNCHANGED accounts
    BY <1>5 DEF RelayRegister
  <1>6. CASE Drain
    BY <1>6, <1>u DEF Drain
  <1>7. CASE Beside
    <2>1. ASSUME NEW a \in Name, NEW cred \in Cred,
                 GrpcRegister(a, cred) \/ GrpcAuthenticate(a, cred) \/ GrpcSetPassword(a, cred)
         PROVE  UNCHANGED accounts
      BY <2>1 DEF GrpcRegister, GrpcAuthenticate, GrpcSetPassword
    <2>2. ASSUME NEW job \in tasks, GrpcRegistered(job)
         PROVE  \A a \in Name : Same(a)
      <3>1. job.name \in Name /\ job.cred \in Cred
        BY <2>2, JobFields DEF TypeOK, GrpcRegistered
      <3>2. UNCHANGED accounts \/ (~exists(job.name) /\ Create(job.name, job.cred))
        BY <2>2, Zenon DEF GrpcRegistered, authority_register, register_prepared
      <3> QED
        BY <1>u, <3>1, <3>2, CreateKeeps
    <2>3. ASSUME NEW job \in tasks, GrpcPasswordSet(job)
         PROVE  \A a \in Name : Same(a)
      <3>1. job.name \in Name
        BY <2>3, JobFields DEF TypeOK
      <3> QED
        BY <2>3, <3>1, CredentialsKeep DEF GrpcPasswordSet
    <2>4. ASSUME NEW job \in tasks, GrpcAuthenticated(job) \/ complete_keycard(job)
         PROVE  UNCHANGED accounts
      BY <2>4 DEF GrpcAuthenticated, complete_keycard
    <2>5. ASSUME NEW a \in Name, TakeAway(a)
         PROVE  \A b \in Name : Same(b)
      BY <2>5, RemovalKeeps DEF TakeAway
    <2>6. ASSUME NEW a \in Name, GossipSuspend(a)
         PROVE  \A b \in Name : Same(b)
      BY <2>6, SuspensionKeeps DEF GossipSuspend
    <2>7. ASSUME NEW a \in Name, ForceLogout(a) \/ Elapse(a)
         PROVE  UNCHANGED accounts
      BY <2>7 DEF ForceLogout, Elapse
    <2> QED
      BY <1>7, <1>u, <2>1, <2>2, <2>3, <2>4, <2>5, <2>6, <2>7 DEF Beside
  <1>8. CASE UNCHANGED vars
    BY <1>8, <1>u DEF vars
  <1> QED
    BY <1>1, <1>2, <1>3, <1>4, <1>5, <1>6, <1>7, <1>8, <1>u DEF Next

\* Of two registrations of a name racing through their derivations the later
\* to complete never replaces the account of the first: register_prepared looks
\* at the name again, whoever asked.
THEOREM NeverReplaced == Spec => NeverOverwritten
  <1>1. IInv /\ [Next]_vars
          => [\A a \in Name : exists(a) /\ exists(a)' => accounts'[a].id = accounts[a].id]_vars
    BY SameStep DEF IInv, Same
  <1> QED
    BY Invariant, <1>1, PTL DEF Spec, NeverOverwritten

-----------------------------------------------------------------------------
(* What a step can do to the accounts and who is logged in to them.        *)

\* Only operations that this instance has are under way.
Exercised ==
    /\ link # None => /\ link.kind = "identify" => "identify" \in Ops
                      /\ link.kind = "plain" => "PLAIN" \in Ops
    /\ \A u \in Uid : sasl[u] # None => sasl[u].mech \in Ops
    /\ \A job \in tasks : /\ job.kind = "register" => "grpc_register" \in Ops
                          /\ job.kind = "password" => "grpc_password" \in Ops
                          /\ job.kind = "keycard" => "keycard" \in Ops

\* A job or an exchange begins by an operation of the instance.
LEMMA ExercisedStep ==
    ASSUME TypeOK, Exercised, [Next]_vars
    PROVE  Exercised'
  <1> USE DEF acctVars, ircVars, authVars, jobVars
  <1> DEFINE E(l, ss, ts) ==
        /\ l # None => /\ l.kind = "identify" => "identify" \in Ops
                       /\ l.kind = "plain" => "PLAIN" \in Ops
        /\ \A u \in Uid : ss[u] # None => ss[u].mech \in Ops
        /\ \A job \in ts : /\ job.kind = "register" => "grpc_register" \in Ops
                           /\ job.kind = "password" => "grpc_password" \in Ops
                           /\ job.kind = "keycard" => "keycard" \in Ops
  <1>0. E(link, sasl, tasks) /\ sasl \in [Uid -> Exchanges \cup {None}]
    BY DEF Exercised, TypeOK
  <1>q. E(link', sasl', tasks') => Exercised'
    BY DEF Exercised
  <1>a. ASSUME NEW u \in Uid, sasl' = sasl \/ EndExchange(u)
       PROVE  \A v \in Uid : sasl'[v] # None => sasl'[v].mech \in Ops
    BY <1>0, <1>a DEF EndExchange
  <1>b. ASSUME link' = None \/ link' = link, tasks' \subseteq tasks,
               sasl' = sasl \/ \E u \in Uid : EndExchange(u)
       PROVE  Exercised'
    BY <1>0, <1>a, <1>b, <1>q
  <1>1. ASSUME NEW u \in Uid, Commands(u)
       PROVE  Exercised'
    <2>1. ASSUME NEW a \in Name, NEW cred \in Cred, Register(u, a, cred)
         PROVE  Exercised'
      BY <1>0, <1>q, <2>1 DEF Register, Defer
    <2>2. ASSUME NEW a \in Name, NEW cred \in Cred, Identify(u, a, cred)
         PROVE  Exercised'
      BY <1>0, <1>q, <2>2 DEF Identify, Defer, Command, Spend
    <2>3. ASSUME NEW cred \in Cred, SetPassword(u, cred)
         PROVE  Exercised'
      BY <1>0, <1>q, <2>3 DEF SetPassword, Defer
    <2>4. ASSUME NEW cred \in Cred, Drop(u, cred)
         PROVE  Exercised'
      BY <1>b, <2>4 DEF Drop
    <2>5. ASSUME NEW a \in Name, IssueCode(u, a) \/ Suspend(u, a) \/ Unsuspend(u, a)
         PROVE  Exercised'
      BY <1>b, <2>5 DEF IssueCode, Suspend, Unsuspend
    <2>6. ASSUME NEW a \in Name, NEW cred \in Cred, NEW right \in BOOLEAN,
                 ResetPassword(u, a, right, cred)
         PROVE  Exercised'
      BY <1>0, <1>q, <2>6 DEF ResetPassword, Defer
    <2>7. ASSUME Logout(u) \/ SetDefcon(u)
         PROVE  Exercised'
      BY <1>b, <2>7 DEF Logout, SetDefcon
    <2>8. ASSUME Quit(u)
         PROVE  Exercised'
      BY <1>b, <2>8 DEF Quit, EndExchange
    <2> QED
      BY <1>1, <2>1, <2>2, <2>3, <2>4, <2>5, <2>6, <2>7, <2>8 DEF Commands
  <1>2. ASSUME NEW u \in Uid, Sasl(u)
       PROVE  Exercised'
    <2>1. ASSUME NEW mech \in {"PLAIN", "SCRAM", "EXTERNAL", "ECDSA"}, SaslStart(u, mech)
         PROVE  Exercised'
      <3>1. mech \in Ops
        BY <2>1 DEF SaslStart, Spend
      <3> QED
        BY <1>0, <1>q, <2>1, <3>1 DEF SaslStart
    <2>2. ASSUME NEW a \in Name, NEW pw \in Cred, SaslPlain(u, a, pw)
         PROVE  Exercised'
      <3>1. "PLAIN" \in Ops
        BY <1>0, <2>2 DEF SaslPlain, Exchange
      <3> DEFINE ok == pw = accounts[a].cred
                 job == [kind |-> "plain", uid |-> u, name |-> a, ok |-> ok]
      <3>2. job.kind = "plain"
        OBVIOUS
      <3>3. (link' = link \/ link' = job) /\ tasks' = tasks /\ EndExchange(u)
        BY <2>2, Zenon DEF SaslPlain, Defer
      <3> HIDE DEF job
      <3> QED
        BY <1>0, <1>a, <1>q, <3>1, <3>2, <3>3
    <2>3. ASSUME NEW a \in Name, NEW ok \in BOOLEAN, SaslKeycard(u, a, ok)
         PROVE  Exercised'
      <3>1. "keycard" \in Ops /\ EndExchange(u) /\ link' = link
            /\ tasks' = tasks \cup {[kind |-> "keycard", uid |-> u, name |-> a, ok |-> ok]}
        BY <2>3 DEF SaslKeycard
      <3> QED
        BY <1>0, <1>a, <1>q, <3>1
    <2>4. ASSUME NEW a \in Name, NEW ok \in BOOLEAN, SaslExternal(u, a, ok)
         PROVE  Exercised'
      BY <1>b, <2>4 DEF SaslExternal
    <2>5. ASSUME NEW a \in Name, NEW ok \in BOOLEAN, EcdsaName(u, a, ok)
         PROVE  Exercised'
      <3>1. "ECDSA" \in Ops
        BY <1>0, <2>5 DEF EcdsaName, Exchange
      <3> QED
        BY <1>0, <1>q, <2>5, <3>1 DEF EcdsaName
    <2>6. ASSUME NEW a \in Name, ScramFirst(u, a)
         PROVE  Exercised'
      <3>1. "SCRAM" \in Ops
        BY <1>0, <2>6 DEF ScramFirst, Exchange
      <3> QED
        BY <1>0, <1>q, <2>6, <3>1 DEF ScramFirst
    <2>7. ASSUME NEW pw \in Cred, ScramFinal(u, pw)
         PROVE  Exercised'
      <3>1. "SCRAM" \in Ops
        BY <1>0, <2>7 DEF ScramFinal, Exchange
      <3> DEFINE next == [mech |-> "SCRAM", step |-> "Ack", name |-> sasl[u].name]
      <3>2. sasl' = [sasl EXCEPT ![u] = next] \/ sasl' = [sasl EXCEPT ![u] = None]
        BY <2>7 DEF ScramFinal
      <3>3. next.mech = "SCRAM"
        OBVIOUS
      <3> HIDE DEF next
      <3>4. \A v \in Uid : sasl'[v] # None => sasl'[v].mech \in Ops
        BY <1>0, <3>1, <3>2, <3>3
      <3>5. link' = link /\ tasks' = tasks
        BY <2>7 DEF ScramFinal
      <3> QED
        BY <1>0, <1>q, <3>4, <3>5
    <2>8. ASSUME NEW ok \in BOOLEAN, EcdsaSignature(u, ok)
         PROVE  Exercised'
      BY <1>b, <2>8 DEF EcdsaSignature
    <2>9. ASSUME ScramAck(u) \/ SaslEnd(u)
         PROVE  Exercised'
      BY <1>b, <2>9 DEF ScramAck, SaslEnd
    <2> QED
      BY <1>2, <2>1, <2>2, <2>3, <2>4, <2>5, <2>6, <2>7, <2>8, <2>9 DEF Sasl
  <1>3. ASSUME NEW u \in Uid, Open(u) \/ Connect(u) \/ Vanish(u)
       PROVE  Exercised'
    BY <1>b, <1>3 DEF Open, Connect, Vanish
  <1>4. ASSUME Complete
       PROVE  Exercised'
    BY <1>b, <1>4 DEF Complete, complete_register, finish_identify, complete_plain,
                  complete_password_change
  <1>5. ASSUME NEW a \in Name, NEW cred \in Cred, RelayRegister(a, cred)
       PROVE  Exercised'
    BY <1>0, <1>q, <1>5 DEF RelayRegister, Defer
  <1>6. ASSUME Drain
       PROVE  Exercised'
    BY <1>b, <1>6 DEF Drain
  <1>7. ASSUME Beside
       PROVE  Exercised'
    <2>1. ASSUME NEW a \in Name, NEW cred \in Cred, GrpcRegister(a, cred)
         PROVE  Exercised'
      BY <1>0, <1>q, <2>1 DEF GrpcRegister, Spend
    <2>2. ASSUME NEW a \in Name, NEW cred \in Cred, GrpcAuthenticate(a, cred)
         PROVE  Exercised'
      BY <1>0, <1>q, <2>2 DEF GrpcAuthenticate, Spend
    <2>3. ASSUME NEW a \in Name, NEW cred \in Cred, GrpcSetPassword(a, cred)
         PROVE  Exercised'
      BY <1>0, <1>q, <2>3 DEF GrpcSetPassword, Spend
    <2>4. ASSUME NEW job \in tasks,
                 \/ GrpcRegistered(job) \/ GrpcAuthenticated(job)
                 \/ complete_keycard(job) \/ GrpcPasswordSet(job)
         PROVE  Exercised'
      BY <1>b, <2>4 DEF GrpcRegistered, GrpcAuthenticated, complete_keycard, GrpcPasswordSet
    <2>5. ASSUME NEW a \in Name, TakeAway(a) \/ GossipSuspend(a) \/ ForceLogout(a) \/ Elapse(a)
         PROVE  Exercised'
      BY <1>b, <2>5 DEF TakeAway, GossipSuspend, ForceLogout, Elapse
    <2> QED
      BY <1>7, <2>1, <2>2, <2>3, <2>4, <2>5 DEF Beside
  <1>8. CASE UNCHANGED vars
    BY <1>b, <1>8 DEF vars
  <1> QED
    BY <1>1, <1>2, <1>3, <1>4, <1>5, <1>6, <1>7, <1>8 DEF Next

\* The sessions of an account end; some connections are logged in to one.
Ends(a) == sess' = [u \in Uid |-> IF u \in uids_logged_into(a) THEN None ELSE sess[u]]

LogsIn(us, a) == sess' = [u \in Uid |-> IF u \in us THEN a ELSE sess[u]]

\* The link begins to wait for a job.
Begun ==
    /\ link = None /\ link' \in Jobs
    /\ UNCHANGED <<accounts, registered, sess>>
    /\ link'.kind = "identify" =>
         "identify" \in Ops /\ exists(link'.name) /\ ~is_suspended(link'.name)
    /\ link'.kind = "plain" => "PLAIN" \in Ops /\ exists(link'.name)
    /\ link'.kind = "password" =>
         \/ "reset" \in Ops
         \/ /\ link'.owner = holder(link'.name)
            /\ link'.name # None /\ \E u \in Uid : sess[u] = link'.name

\* The job it waited for is done.
Done ==
    /\ link # None /\ link' = None
    /\ \/ UNCHANGED <<accounts, registered, sess>>
       \/ /\ link.kind = "register" /\ ~exists(link.name)
          /\ Create(link.name, link.cred) /\ LogsIn({link.uid} \cap Uid, link.name)
       \/ /\ link.kind = "identify" \/ (link.kind = "plain" /\ ~is_suspended(link.name))
          /\ LogsIn({link.uid}, link.name) /\ UNCHANGED <<accounts, registered>>
       \/ link.kind = "password" /\ set_credentials(link) /\ UNCHANGED sess

\* An account goes or is suspended, and its sessions end: by a command, which
\* the link only reads while it waits for nothing, or from outside.
Gone(a) ==
    /\ Remove(a) /\ Ends(a)
    /\ link = None \/ "gone" \in Ops \/ "expire" \in Ops

Suspended(a) ==
    /\ exists(a)
    /\ accounts' = [accounts EXCEPT ![a] = [@ EXCEPT !.suspended = TRUE]]
    /\ Ends(a) /\ UNCHANGED registered
    /\ link = None \/ "gossip_suspend" \in Ops

\* What happens while the link's job stays as it is.
Meanwhile ==
    /\ link' = link
    /\ \/ /\ UNCHANGED <<accounts, registered>>
          /\ \A u \in Uid : sess'[u] \in {sess[u], None}
       \/ /\ "grpc_register" \in Ops /\ UNCHANGED sess
          /\ \E a \in Name, cred \in Cred : ~exists(a) /\ Create(a, cred)
       \/ /\ "grpc_password" \in Ops /\ UNCHANGED sess
          /\ \E job \in Jobs : job.kind = "password" /\ set_credentials(job)
       \/ \E a \in Name : Gone(a) \/ Suspended(a)
       \/ /\ UNCHANGED <<sess, registered>>
          /\ \E a \in Name : /\ exists(a)
                             /\ accounts' = [accounts EXCEPT ![a] = [@ EXCEPT !.suspended = FALSE]]
       \/ /\ UNCHANGED <<accounts, registered>>
          /\ \E u \in Uid, a \in Name :
               /\ LogsIn({u}, a) /\ ~is_suspended(a)
               /\ exists(a) \/ Ops \cap {"SCRAM", "ECDSA", "keycard"} # {}

Moves == Begun \/ Done \/ Meanwhile

\* Every handler is, for accounts and sessions, one of these moves.
LEMMA LoginMoves ==
    ASSUME TypeOK, Exercised, [Next]_vars
    PROVE  Moves
  <1> USE DEF acctVars, ircVars, authVars, jobVars
  <1>0. sess \in [Uid -> Name \cup {None}]
    BY DEF TypeOK
  <1>a. ASSUME UNCHANGED <<accounts, registered, sess, link>>
       PROVE  Moves
    BY <1>a DEF Moves, Meanwhile
  <1>b. ASSUME NEW u \in Uid, NEW a \in Name, UNCHANGED <<accounts, registered, link>>,
               sasl_login(u, a), exists(a) \/ Ops \cap {"SCRAM", "ECDSA", "keycard"} # {}
       PROVE  Moves
    <2>1. CASE is_suspended(a)
      BY <1>a, <1>b, <2>1 DEF sasl_login
    <2>2. CASE ~is_suspended(a)
      <3>1. LogsIn({u}, a)
        BY <1>b, <2>2 DEF sasl_login, track_accounts, LogsIn
      <3> QED
        BY <1>b, <2>2, <3>1 DEF Moves, Meanwhile
    <2> QED
      BY <2>1, <2>2
  <1>1. ASSUME NEW u \in Uid, Commands(u)
       PROVE  Moves
    <2>1. ASSUME NEW a \in Name, NEW cred \in Cred, Register(u, a, cred)
         PROVE  Begun
      <3> DEFINE job == [kind |-> "register", uid |-> u, name |-> a, cred |-> cred]
      <3>1. job \in Jobs /\ job.kind = "register"
        BY JobKinds
      <3>2. link = None /\ link' = job /\ UNCHANGED <<accounts, registered, sess>>
        BY <2>1 DEF Register, Defer, Command
      <3> HIDE DEF job
      <3> QED
        BY <3>1, <3>2 DEF Begun
    <2>2. ASSUME NEW a \in Name, NEW cred \in Cred, Identify(u, a, cred)
         PROVE  Begun
      <3> DEFINE ok == cred = accounts[a].cred
                 job == [kind |-> "identify", uid |-> u, name |-> a, ok |-> ok]
      <3>1. job \in Jobs /\ job.kind = "identify" /\ job.name = a
        BY JobKinds
      <3>2. /\ link = None /\ link' = job /\ UNCHANGED <<accounts, registered, sess>>
            /\ exists(a) /\ ~is_suspended(a) /\ "identify" \in Ops
        BY <2>2 DEF Identify, Defer, Command, Spend, precheck
      <3> HIDE DEF job
      <3> QED
        BY <3>1, <3>2 DEF Begun
    <2>3. ASSUME NEW cred \in Cred, SetPassword(u, cred)
         PROVE  Begun
      <3> DEFINE own == holder(sess[u])
                 job == [kind |-> "password", name |-> sess[u], cred |-> cred, owner |-> own]
      <3>0. sess[u] \in Name /\ own \in Nat
        BY <1>0, <2>3, HolderType DEF SetPassword
      <3>1. job \in Jobs /\ job.kind = "password" /\ job.name = sess[u] /\ job.owner = own
        BY <3>0, JobKinds
      <3>2. /\ link = None /\ link' = job /\ UNCHANGED <<accounts, registered, sess>>
            /\ sess[u] # None
        BY <2>3 DEF SetPassword, Defer, Command
      <3>3. job.owner = holder(job.name)
        BY <3>1
      <3> HIDE DEF job, own
      <3> QED
        BY <3>1, <3>2, <3>3 DEF Begun
    <2>4. ASSUME NEW cred \in Cred, Drop(u, cred)
         PROVE  Moves
      <3>1. sess[u] \in Name /\ link = None /\ link' = link
        BY <1>0, <2>4 DEF Drop, Command
      <3>2. \/ UNCHANGED <<accounts, registered, sess>>
            \/ DropAccount(u, sess[u])
        BY <2>4, Zenon DEF Drop
      <3>3. ASSUME DropAccount(u, sess[u])
           PROVE  \E a \in Name : Gone(a)
        <4>1. Remove(sess[u]) /\ Ends(sess[u])
          BY <3>3 DEF DropAccount, track_accounts, Ends
        <4> QED
          BY <3>1, <4>1 DEF Gone
      <3> QED
        BY <1>a, <3>1, <3>2, <3>3 DEF Moves, Meanwhile
    <2>5. ASSUME NEW a \in Name, IssueCode(u, a)
         PROVE  Moves
      BY <1>a, <2>5 DEF IssueCode
    <2>6. ASSUME NEW a \in Name, Suspend(u, a)
         PROVE  Moves
      <3>1. Suspended(a) /\ link' = link
        BY <2>6 DEF Suspend, Suspended, track_accounts, Ends, Command
      <3> QED
        BY <3>1 DEF Moves, Meanwhile
    <2>7. ASSUME NEW a \in Name, Unsuspend(u, a)
         PROVE  Moves
      BY <2>7 DEF Unsuspend, is_suspended, Moves, Meanwhile
    <2>8. ASSUME NEW a \in Name, NEW cred \in Cred, NEW right \in BOOLEAN,
                 ResetPassword(u, a, right, cred)
         PROVE  Moves
      <3>1. CASE ~right
        BY <1>a, <2>8, <3>1 DEF ResetPassword
      <3>2. CASE right
        <4> DEFINE own == codes[a].owner
                   job == [kind |-> "password", name |-> a, cred |-> cred, owner |-> own]
        <4>1. codes[a] \in Codes
          BY <2>8 DEF TypeOK, ResetPassword
        <4>2. own \in Nat
          BY <4>1 DEF Codes
        <4>3. job \in Jobs /\ job.kind = "password"
          BY <4>2, JobKinds
        <4>4. link = None /\ link' = job /\ UNCHANGED <<accounts, registered, sess>> /\ "reset" \in Ops
          BY <2>8, <3>2 DEF ResetPassword, Defer, Command, Spend
        <4> HIDE DEF job
        <4> QED
          BY <4>3, <4>4 DEF Begun, Moves
      <3> QED
        BY <3>1, <3>2
    <2>9. ASSUME Logout(u)
         PROVE  Moves
      <3>1. UNCHANGED <<accounts, registered, link>> /\ LogsIn({u}, None)
        BY <2>9 DEF Logout, track_accounts, LogsIn
      <3>2. \A v \in Uid : sess'[v] \in {sess[v], None}
        BY <3>1 DEF LogsIn
      <3> QED
        BY <3>1, <3>2 DEF Moves, Meanwhile
    <2>10. ASSUME Quit(u)
         PROVE  Moves
      <3>1. UNCHANGED <<accounts, registered, link>> /\ sess' = [sess EXCEPT ![u] = None]
        BY <2>10 DEF Quit
      <3>2. \A v \in Uid : sess'[v] \in {sess[v], None}
        BY <1>0, <3>1
      <3> QED
        BY <3>1, <3>2 DEF Moves, Meanwhile
    <2>11. ASSUME SetDefcon(u)
         PROVE  Moves
      BY <1>a, <2>11 DEF SetDefcon
    <2> QED
      BY <1>1, <2>1, <2>2, <2>3, <2>4, <2>5, <2>6, <2>7, <2>8, <2>9, <2>10, <2>11 DEF Commands, Moves
  <1>2. ASSUME NEW u \in Uid, Sasl(u)
       PROVE  Moves
    <2>1. ASSUME NEW mech \in {"PLAIN", "SCRAM", "EXTERNAL", "ECDSA"}, SaslStart(u, mech)
         PROVE  Moves
      BY <1>a, <2>1 DEF SaslStart
    <2>2. ASSUME NEW a \in Name, NEW pw \in Cred, SaslPlain(u, a, pw)
         PROVE  Moves
      <3>1. CASE ~(exists(a) /\ ~locked[a])
        BY <1>a, <2>2, <3>1 DEF SaslPlain
      <3>2. CASE exists(a) /\ ~locked[a]
        <4> DEFINE ok == pw = accounts[a].cred
                   job == [kind |-> "plain", uid |-> u, name |-> a, ok |-> ok]
        <4>1. job \in Jobs /\ job.kind = "plain" /\ job.name = a
          BY JobKinds
        <4>2. link = None /\ link' = job /\ UNCHANGED <<accounts, registered, sess>>
          BY <2>2, <3>2 DEF SaslPlain, Exchange, Defer
        <4>3. "PLAIN" \in Ops
          BY <2>2 DEF SaslPlain, Exchange, Exercised
        <4> HIDE DEF job
        <4> QED
          BY <3>2, <4>1, <4>2, <4>3 DEF Begun, Moves
      <3> QED
        BY <3>1, <3>2
    <2>3. ASSUME NEW a \in Name, NEW ok \in BOOLEAN, SaslKeycard(u, a, ok)
         PROVE  Moves
      BY <1>a, <2>3 DEF SaslKeycard
    <2>4. ASSUME NEW a \in Name, NEW ok \in BOOLEAN, SaslExternal(u, a, ok)
         PROVE  Moves
      <3>1. CASE exists(a) /\ ok
        BY <1>b, <2>4, <3>1 DEF SaslExternal
      <3>2. CASE ~(exists(a) /\ ok)
        BY <1>a, <2>4, <3>2 DEF SaslExternal
      <3> QED
        BY <3>1, <3>2
    <2>5. ASSUME NEW a \in Name, NEW ok \in BOOLEAN, EcdsaName(u, a, ok)
         PROVE  Moves
      BY <1>a, <2>5 DEF EcdsaName
    <2>6. ASSUME NEW a \in Name, ScramFirst(u, a)
         PROVE  Moves
      BY <1>a, <2>6 DEF ScramFirst
    <2>7. ASSUME NEW pw \in Cred, ScramFinal(u, pw)
         PROVE  Moves
      BY <1>a, <2>7 DEF ScramFinal
    <2>8. ASSUME NEW ok \in BOOLEAN, EcdsaSignature(u, ok)
         PROVE  Moves
      <3>1. sasl[u] # None /\ sasl[u].mech = "ECDSA" /\ sasl[u].step = "Signature"
        BY <2>8 DEF EcdsaSignature, Exchange
      <3>2. sasl[u].name \in Name /\ "ECDSA" \in Ops
        BY <3>1, ExchangeFields DEF TypeOK, Exercised
      <3>3. CASE ok
        BY <1>b, <2>8, <3>2, <3>3 DEF EcdsaSignature
      <3>4. CASE ~ok
        BY <1>a, <2>8, <3>4 DEF EcdsaSignature
      <3> QED
        BY <3>3, <3>4
    <2>9. ASSUME ScramAck(u)
         PROVE  Moves
      <3>1. sasl[u] # None /\ sasl[u].mech = "SCRAM" /\ sasl[u].step = "Ack"
        BY <2>9 DEF ScramAck, Exchange
      <3>2. sasl[u].name \in Name /\ "SCRAM" \in Ops
        BY <3>1, ExchangeFields DEF TypeOK, Exercised
      <3> QED
        BY <1>b, <2>9, <3>2 DEF ScramAck
    <2>10. ASSUME SaslEnd(u)
         PROVE  Moves
      BY <1>a, <2>10 DEF SaslEnd
    <2> QED
      BY <1>2, <2>1, <2>2, <2>3, <2>4, <2>5, <2>6, <2>7, <2>8, <2>9, <2>10 DEF Sasl
  <1>3. ASSUME NEW u \in Uid, Open(u) \/ Connect(u) \/ Vanish(u)
       PROVE  Moves
    BY <1>a, <1>3 DEF Open, Connect, Vanish
  <1>4. ASSUME Complete
       PROVE  Moves
    <2>1. ASSUME complete_register
         PROVE  Done
      <3>1. CASE ~exists(link.name)
        BY <2>1, <3>1 DEF complete_register, register_prepared, track_accounts, LogsIn, Done
      <3>2. CASE exists(link.name)
        BY <2>1, <3>2 DEF complete_register, register_prepared, Done
      <3> QED
        BY <3>1, <3>2
    <2>2. ASSUME finish_identify
         PROVE  Done
      <3>1. CASE link.ok
        BY <2>2, <3>1 DEF finish_identify, track_accounts, LogsIn, Done
      <3>2. CASE ~link.ok
        BY <2>2, <3>2 DEF finish_identify, Done
      <3> QED
        BY <3>1, <3>2
    <2>3. ASSUME complete_plain
         PROVE  Done
      <3>1. CASE link.ok /\ ~is_suspended(link.name)
        BY <2>3, <3>1 DEF complete_plain, sasl_login, track_accounts, LogsIn, Done
      <3>2. CASE ~(link.ok /\ ~is_suspended(link.name))
        BY <2>3, <3>2 DEF complete_plain, sasl_login, Done
      <3> QED
        BY <3>1, <3>2
    <2>4. ASSUME complete_password_change
         PROVE  Done
      BY <2>4 DEF complete_password_change, Done
    <2> QED
      BY <1>4, <2>1, <2>2, <2>3, <2>4 DEF Complete, Moves
  <1>5. ASSUME NEW a \in Name, NEW cred \in Cred, RelayRegister(a, cred)
       PROVE  Moves
    <2> DEFINE job == [kind |-> "register", uid |-> None, name |-> a, cred |-> cred]
    <2>1. job \in Jobs /\ job.kind = "register"
      BY JobKinds
    <2>2. link = None /\ link' = job /\ UNCHANGED <<accounts, registered, sess>>
      BY <1>5 DEF RelayRegister, Defer
    <2> HIDE DEF job
    <2> QED
      BY <2>1, <2>2 DEF Begun, Moves
  <1>6. ASSUME Drain
       PROVE  Moves
    BY <1>a, <1>6 DEF Drain
  <1>7. ASSUME Beside
       PROVE  Moves
    <2>1. ASSUME NEW a \in Name, NEW cred \in Cred,
                 GrpcRegister(a, cred) \/ GrpcAuthenticate(a, cred) \/ GrpcSetPassword(a, cred)
         PROVE  Moves
      BY <1>a, <2>1 DEF GrpcRegister, GrpcAuthenticate, GrpcSetPassword
    <2>2. ASSUME NEW job \in tasks, GrpcRegistered(job)
         PROVE  Moves
      <3>1. /\ job.name \in Name /\ job.cred \in Cred /\ "grpc_register" \in Ops
            /\ UNCHANGED <<sess, link>>
        BY <2>2, JobFields DEF TypeOK, GrpcRegistered, Exercised
      <3>2. \/ UNCHANGED <<accounts, registered>>
            \/ ~exists(job.name) /\ Create(job.name, job.cred)
        BY <2>2, Zenon DEF GrpcRegistered, authority_register, register_prepared
      <3> QED
        BY <1>a, <3>1, <3>2 DEF Moves, Meanwhile
    <2>3. ASSUME NEW job \in tasks, GrpcPasswordSet(job)
         PROVE  Moves
      <3>1. /\ job \in Jobs /\ job.kind = "password" /\ set_credentials(job)
            /\ "grpc_password" \in Ops /\ UNCHANGED <<sess, link>>
        BY <2>3 DEF TypeOK, GrpcPasswordSet, Exercised
      <3> QED
        BY <3>1 DEF Moves, Meanwhile
    <2>4. ASSUME NEW job \in tasks, complete_keycard(job)
         PROVE  Moves
      <3>1. /\ job.name \in Name /\ job.uid \in Uid /\ "keycard" \in Ops
            /\ UNCHANGED <<accounts, registered, link>>
        BY <2>4, JobFields DEF TypeOK, complete_keycard, Exercised
      <3>2. CASE job.ok
        BY <1>b, <2>4, <3>1, <3>2 DEF complete_keycard
      <3>3. CASE ~job.ok
        BY <1>a, <2>4, <3>1, <3>3 DEF complete_keycard
      <3> QED
        BY <3>2, <3>3
    <2>5. ASSUME NEW job \in tasks, GrpcAuthenticated(job)
         PROVE  Moves
      BY <1>a, <2>5 DEF GrpcAuthenticated
    <2>6. ASSUME NEW a \in Name, TakeAway(a)
         PROVE  Moves
      <3>1. Gone(a) /\ link' = link
        BY <2>6 DEF TakeAway, Gone, logout_account_sessions, Ends, Spend
      <3> QED
        BY <3>1 DEF Moves, Meanwhile
    <2>7. ASSUME NEW a \in Name, GossipSuspend(a)
         PROVE  Moves
      <3>1. Suspended(a) /\ link' = link
        BY <2>7 DEF GossipSuspend, Suspended, logout_account_sessions, Ends, Spend
      <3> QED
        BY <3>1 DEF Moves, Meanwhile
    <2>8. ASSUME NEW a \in Name, ForceLogout(a)
         PROVE  Moves
      <3>1. UNCHANGED <<accounts, registered, link>> /\ Ends(a)
        BY <2>8 DEF ForceLogout, logout_account_sessions, Ends
      <3>2. \A v \in Uid : sess'[v] \in {sess[v], None}
        BY <3>1 DEF Ends
      <3> QED
        BY <3>1, <3>2 DEF Moves, Meanwhile
    <2>9. ASSUME NEW a \in Name, Elapse(a)
         PROVE  Moves
      BY <1>a, <2>9 DEF Elapse
    <2> QED
      BY <1>7, <2>1, <2>2, <2>3, <2>4, <2>5, <2>6, <2>7, <2>8, <2>9 DEF Beside
  <1>8. CASE UNCHANGED vars
    BY <1>a, <1>8 DEF vars
  <1> QED
    BY <1>1, <1>2, <1>3, <1>4, <1>5, <1>6, <1>7, <1>8 DEF Next

\* Only operations of this instance are ever under way.
LEMMA ExercisedInit == Init => Exercised
    BY DEF Init, Exercised

\* Both facts hold throughout.
LEMMA Typed == Spec => [](TypeOK /\ Exercised)
  <1>1. IInv => TypeOK
    BY DEF IInv
  <1>2. TypeOK /\ Exercised /\ [Next]_vars => Exercised'
    BY ExercisedStep
  <1> QED
    BY Invariant, ExercisedInit, <1>1, <1>2, PTL DEF Spec

-----------------------------------------------------------------------------
(* What each change of the accounts does to one of them. *)

\* register_prepared's insertion: not suspended, and its creator's.
LEMMA Created ==
    ASSUME TypeOK, NEW b \in Name, NEW cred \in Cred, Create(b, cred)
    PROVE  /\ exists(b)' /\ ~is_suspended(b)' /\ accounts'[b].owner = accounts'[b].id
           /\ \A a \in Name \ {b} : accounts'[a] = accounts[a]
  <1> DEFINE acc == [id |-> registered, cred |-> cred, owner |-> registered, suspended |-> FALSE]
  <1>1. acc \in Account /\ acc.suspended = FALSE /\ acc.owner = acc.id
    BY DEF Account, TypeOK
  <1>2. accounts' = [accounts EXCEPT ![b] = acc] /\ accounts \in [Name -> Account \cup {None}]
    BY DEF Create, TypeOK
  <1> HIDE DEF acc
  <1> QED
    BY <1>1, <1>2, NoneAssumption DEF exists, is_suspended

\* set_credentials touches neither whose account it is nor its suspension.
LEMMA CredentialsSet ==
    ASSUME TypeOK, NEW job \in Jobs, job.kind = "password", set_credentials(job), NEW a \in Name
    PROVE  /\ exists(a)' <=> exists(a)
           /\ is_suspended(a)' <=> is_suspended(a)
           /\ exists(a) => /\ accounts'[a].id = accounts[a].id
                           /\ accounts'[a].owner = IF a = job.name THEN job.owner
                                                                   ELSE accounts[a].owner
  <1>0. job.name \in Name /\ job.owner \in Nat /\ job.cred \in Cred
    BY JobFields
  <1>1. CASE ~exists(job.name)
    <2>1. accounts' = accounts
      BY <1>1 DEF set_credentials
    <2> QED
      BY <1>1, <2>1 DEF exists, is_suspended
  <1>2. CASE exists(job.name)
    <2> DEFINE acc == [accounts[job.name] EXCEPT !.cred = job.cred, !.owner = job.owner]
    <2>1. accounts[job.name] \in Account
      BY <1>0, <1>2 DEF TypeOK, exists
    <2>2. /\ acc \in Account /\ acc.id = accounts[job.name].id
          /\ acc.owner = job.owner /\ acc.suspended = accounts[job.name].suspended
      BY <1>0, <2>1 DEF Account
    <2>3. accounts' = [accounts EXCEPT ![job.name] = acc]
      BY <1>2 DEF set_credentials
    <2> HIDE DEF acc
    <2> QED
      BY <1>0, <1>2, <2>2, <2>3, NoneAssumption DEF TypeOK, exists, is_suspended
  <1> QED
    BY <1>1, <1>2

\* A suspension, put on or lifted.
LEMMA SuspensionSet ==
    ASSUME TypeOK, NEW b \in Name, exists(b), NEW flag \in BOOLEAN, NEW a \in Name,
           accounts' = [accounts EXCEPT ![b] = [@ EXCEPT !.suspended = flag]]
    PROVE  /\ exists(a)' <=> exists(a)
           /\ a # b => (is_suspended(a)' <=> is_suspended(a))
           /\ ~flag => (is_suspended(a)' => is_suspended(a))
           /\ exists(a) => /\ accounts'[a].id = accounts[a].id
                           /\ accounts'[a].owner = accounts[a].owner
  <1> DEFINE acc == [accounts[b] EXCEPT !.suspended = flag]
  <1>1. accounts[b] \in Account
    BY DEF TypeOK, exists
  <1>2. acc \in Account /\ acc.id = accounts[b].id /\ acc.owner = accounts[b].owner
        /\ acc.suspended = flag
    BY <1>1 DEF Account
  <1>3. accounts' = [accounts EXCEPT ![b] = acc]
    OBVIOUS
  <1> HIDE DEF acc
  <1> QED
    BY <1>2, <1>3, NoneAssumption DEF TypeOK, exists, is_suspended

\* A dropped account is gone, the others stay.
LEMMA Removed ==
    ASSUME TypeOK, NEW b \in Name, Remove(b)
    PROVE  ~exists(b)' /\ \A a \in Name \ {b} : accounts'[a] = accounts[a]
    BY DEF TypeOK, Remove, exists

\* Only a suspension suspends.
LEMMA Suspending ==
    ASSUME TypeOK, Moves, NEW a \in Name, is_suspended(a)', ~is_suspended(a)
    PROVE  Suspended(a) /\ link' = link
  <1>u. ~UNCHANGED accounts
    BY DEF is_suspended, exists
  <1>1. ASSUME NEW b \in Name, NEW cred \in Cred, Create(b, cred)
       PROVE  FALSE
    BY <1>1, Created DEF is_suspended, exists
  <1>2. ASSUME NEW job \in Jobs, job.kind = "password", set_credentials(job)
       PROVE  FALSE
    BY <1>2, CredentialsSet
  <1>3. ASSUME NEW b \in Name, Gone(b)
       PROVE  FALSE
    BY <1>3, Removed DEF is_suspended, exists, Gone
  <1>4. ASSUME NEW b \in Name, Suspended(b)
       PROVE  a = b
    BY <1>4, SuspensionSet DEF Suspended
  <1>5. ASSUME NEW b \in Name, exists(b),
               accounts' = [accounts EXCEPT ![b] = [@ EXCEPT !.suspended = FALSE]]
       PROVE  FALSE
    BY <1>5, SuspensionSet
  <1>6. CASE Begun
    BY <1>u, <1>6 DEF Begun
  <1>7. CASE Done
    <2>1. link \in Jobs
      BY <1>7 DEF Done, TypeOK
    <2>2. link.kind = "register" => link.name \in Name /\ link.cred \in Cred
      BY <2>1, JobFields
    <2> QED
      BY <1>u, <1>1, <1>2, <1>7, <2>1, <2>2 DEF Done
  <1>8. CASE Meanwhile
    BY <1>u, <1>1, <1>2, <1>3, <1>4, <1>5, <1>8 DEF Meanwhile
  <1> QED
    BY <1>6, <1>7, <1>8 DEF Moves

\* Only a drop takes an account away.
LEMMA Going ==
    ASSUME TypeOK, Moves, NEW a \in Name, exists(a), ~exists(a)'
    PROVE  Gone(a) /\ link' = link
  <1>u. ~UNCHANGED accounts
    BY DEF exists
  <1>1. ASSUME NEW b \in Name, NEW cred \in Cred, Create(b, cred)
       PROVE  FALSE
    BY <1>1, Created DEF exists
  <1>2. ASSUME NEW job \in Jobs, job.kind = "password", set_credentials(job)
       PROVE  FALSE
    BY <1>2, CredentialsSet
  <1>3. ASSUME NEW b \in Name, Gone(b)
       PROVE  a = b
    BY <1>3, Removed DEF exists, Gone
  <1>4. ASSUME NEW b \in Name, Suspended(b)
       PROVE  FALSE
    BY <1>4, SuspensionSet DEF Suspended
  <1>5. ASSUME NEW b \in Name, exists(b),
               accounts' = [accounts EXCEPT ![b] = [@ EXCEPT !.suspended = FALSE]]
       PROVE  FALSE
    BY <1>5, SuspensionSet
  <1>6. CASE Begun
    BY <1>u, <1>6 DEF Begun
  <1>7. CASE Done
    <2>1. link \in Jobs
      BY <1>7 DEF Done, TypeOK
    <2>2. link.kind = "register" => link.name \in Name /\ link.cred \in Cred
      BY <2>1, JobFields
    <2> QED
      BY <1>u, <1>1, <1>2, <1>7, <2>1, <2>2 DEF Done
  <1>8. CASE Meanwhile
    BY <1>u, <1>1, <1>2, <1>3, <1>4, <1>5, <1>8 DEF Meanwhile
  <1> QED
    BY <1>6, <1>7, <1>8 DEF Moves

\* Who a connection can come to be logged in as.
LEMMA LoggingIn ==
    ASSUME TypeOK, Moves, NEW u \in Uid, NEW a \in Name, sess'[u] = a, sess[u] # a, a # None
    PROVE  \/ /\ link # None /\ link \in Jobs /\ link.name = a
              /\ \/ link.kind = "register" /\ exists(a)' /\ ~is_suspended(a)'
                 \/ link.kind \in {"identify", "plain"} /\ UNCHANGED accounts
                    /\ (link.kind = "plain" => ~is_suspended(a))
           \/ /\ ~is_suspended(a) /\ UNCHANGED accounts
              /\ exists(a) \/ Ops \cap {"SCRAM", "ECDSA", "keycard"} # {}
  <1>1. CASE Begun
    BY <1>1 DEF Begun
  <1>2. CASE Done
    <2>1. link \in Jobs
      BY <1>2 DEF Done, TypeOK
    <2>2. link.name \in Name /\ (link.kind = "register" => link.cred \in Cred)
      BY <2>1, JobFields
    <2> QED
      BY <1>2, <2>1, <2>2, Created DEF Done, LogsIn
  <1>3. CASE Meanwhile
    <2>1. ~\E b \in Name : Gone(b) \/ Suspended(b)
      BY DEF Gone, Suspended, Ends
    <2> QED
      BY <1>3, <2>1 DEF Meanwhile, LogsIn
  <1> QED
    BY <1>1, <1>2, <1>3 DEF Moves

-----------------------------------------------------------------------------
(* The sessions of a suspended account. *)

\* No suspension comes from outside while an IDENTIFY is under way.
SuspendsInTurn == "identify" \notin Ops \/ "gossip_suspend" \notin Ops

\* An IDENTIFY under way is for an account not suspended.
IdentifyStands == link # None /\ link.kind = "identify" => ~is_suspended(link.name)

\* Each move keeps suspended accounts logged out.
LEMMA SuspendedStep ==
    ASSUME SuspendsInTurn, TypeOK, TypeOK', Exercised, SuspendedLoggedOut, IdentifyStands, Moves
    PROVE  SuspendedLoggedOut' /\ IdentifyStands'
  <1>1. ASSUME NEW u \in Uid, NEW a \in Name, sess'[u] = a, a # None, is_suspended(a)'
       PROVE  FALSE
    <2>1. CASE is_suspended(a)
      <3>1. sess[u] # a
        BY <1>1, <2>1 DEF SuspendedLoggedOut
      <3> QED
        BY <1>1, <2>1, <3>1, LoggingIn DEF IdentifyStands
    <2>2. CASE ~is_suspended(a)
      <3>1. Ends(a)
        BY <1>1, <2>2, Suspending DEF Suspended
      <3> QED
        BY <1>1, <3>1 DEF Ends, uids_logged_into
    <2> QED
      BY <2>1, <2>2
  <1>2. SuspendedLoggedOut'
    <2>1. sess' \in [Uid -> Name \cup {None}]
      BY DEF TypeOK
    <2> QED
      BY <1>1, <2>1 DEF SuspendedLoggedOut, is_suspended, exists
  <1>3. ASSUME link' # None, link'.kind = "identify", NEW a, a = link'.name
       PROVE  a \in Name /\ ~is_suspended(a)'
    <2>1. a \in Name
      BY <1>3, JobFields DEF TypeOK
    <2>2. CASE Begun
      BY <1>3, <2>1, <2>2 DEF Begun, is_suspended, exists
    <2>3. CASE Meanwhile
      <3>1. link' = link /\ ~is_suspended(a)
        BY <1>3, <2>3 DEF Meanwhile, IdentifyStands
      <3>2. ~Suspended(a)
        BY <1>3, <3>1 DEF Suspended, SuspendsInTurn, Exercised
      <3> QED
        BY <2>1, <3>1, <3>2, Suspending
    <2> QED
      BY <1>3, <2>1, <2>2, <2>3 DEF Moves, Done
  <1>4. IdentifyStands'
    BY <1>3 DEF IdentifyStands, is_suspended, exists
  <1> QED
    BY <1>2, <1>4

\* Nobody is logged in to a suspended account, if no suspension comes from
\* outside while an IDENTIFY waits for its derivation: finish_identify does not
\* look again, every other login does (sasl_login).
THEOREM SuspensionHolds ==
    ASSUME SuspendsInTurn
    PROVE  Spec => []SuspendedLoggedOut
  <1>1. Init => SuspendedLoggedOut /\ IdentifyStands
    BY DEF Init, SuspendedLoggedOut, IdentifyStands
  <1>2. /\ TypeOK /\ Exercised /\ (TypeOK /\ Exercised)'
        /\ SuspendedLoggedOut /\ IdentifyStands /\ [Next]_vars
        => (SuspendedLoggedOut /\ IdentifyStands)'
    BY SuspendedStep, LoginMoves
  <1> QED
    BY Typed, <1>1, <1>2, PTL DEF Spec

-----------------------------------------------------------------------------
(* The sessions of an account that goes. *)

\* No account is taken from outside while a login by password is under way, and
\* no login is for an account this node need not have.
LoginsInTurn ==
    /\ Ops \cap {"SCRAM", "ECDSA", "keycard"} = {}
    /\ Ops \cap {"gone", "expire"} = {} \/ Ops \cap {"identify", "PLAIN"} = {}

\* A login by password under way is for an account there is.
LoginStands == link # None /\ link.kind \in {"identify", "plain"} => exists(link.name)

\* Each move keeps every session's account.
LEMMA BackedStep ==
    ASSUME LoginsInTurn, TypeOK, TypeOK', Exercised, SessionsBacked, LoginStands, Moves
    PROVE  SessionsBacked' /\ LoginStands'
  <1>1. ASSUME NEW u \in Uid, NEW a \in Name, sess'[u] = a, a # None, ~exists(a)'
       PROVE  FALSE
    <2>1. CASE exists(a)
      <3>1. Ends(a)
        BY <1>1, <2>1, Going DEF Gone
      <3> QED
        BY <1>1, <3>1 DEF Ends, uids_logged_into
    <2>2. CASE ~exists(a)
      <3>1. sess[u] # a
        BY <1>1, <2>2 DEF SessionsBacked
      <3> QED
        BY <1>1, <2>2, <3>1, LoggingIn DEF LoginStands, LoginsInTurn
    <2> QED
      BY <2>1, <2>2
  <1>2. SessionsBacked'
    <2>1. sess' \in [Uid -> Name \cup {None}]
      BY DEF TypeOK
    <2> QED
      BY <1>1, <2>1 DEF SessionsBacked, exists
  <1>3. ASSUME link' # None, link'.kind \in {"identify", "plain"}, NEW a, a = link'.name
       PROVE  exists(a)'
    <2>1. a \in Name
      BY <1>3, JobFields DEF TypeOK
    <2>2. CASE Begun
      BY <1>3, <2>2 DEF Begun, exists
    <2>3. CASE Meanwhile
      <3>1. link' = link /\ exists(a)
        BY <1>3, <2>3 DEF Meanwhile, LoginStands
      <3>2. ~Gone(a)
        BY <1>3, <3>1 DEF Gone, LoginsInTurn, Exercised
      <3> QED
        BY <2>1, <3>1, <3>2, Going
    <2> QED
      BY <1>3, <2>1, <2>2, <2>3 DEF Moves, Done
  <1>4. LoginStands'
    BY <1>3 DEF LoginStands, exists
  <1> QED
    BY <1>2, <1>4

\* No session outlives its account, nor its account's suspension, under those
\* two conditions.
THEOREM SessionsEnd ==
    ASSUME SuspendsInTurn, LoginsInTurn
    PROVE  Spec => []SessionsStand
  <1>1. Init => SessionsBacked /\ LoginStands
    BY DEF Init, SessionsBacked, LoginStands
  <1>2. /\ TypeOK /\ Exercised /\ (TypeOK /\ Exercised)'
        /\ SessionsBacked /\ LoginStands /\ [Next]_vars
        => (SessionsBacked /\ LoginStands)'
    BY BackedStep, LoginMoves
  <1> QED
    BY Typed, SuspensionHolds, <1>1, <1>2, PTL DEF Spec, SessionsStand

-----------------------------------------------------------------------------
(* Whose password an account has. *)

\* Every password change is the link's, for who is logged in: none by code, none
\* beside the loop.
PasswordsInTurn == Ops \cap {"reset", "grpc_password"} = {}

\* Of a name that is dropped while the change is derived nobody registers the
\* next account before it is done.
NamesInTurn ==
    \/ "grpc_register" \notin Ops
    \/ Ops \cap {"gone", "expire", "SCRAM", "ECDSA", "keycard"} = {}

\* The account a change under way was asked for is still the one there is, or
\* there is none.
ChangeStands ==
    link # None /\ link.kind = "password" =>
      /\ exists(link.name) => accounts[link.name].id = link.owner
      /\ "grpc_register" \in Ops => exists(link.name)

\* Each move keeps every account's password its holder's.
LEMMA OwnerStep ==
    ASSUME PasswordsInTurn, TypeOK, TypeOK', Exercised, PasswordForOwner, ChangeStands, Moves,
           "grpc_register" \notin Ops \/ (SessionsBacked /\ Ops \cap {"gone", "expire"} = {})
    PROVE  PasswordForOwner' /\ ChangeStands'
  <1>1. ASSUME NEW a \in Name, exists(a)'
       PROVE  accounts'[a].owner = accounts'[a].id
    <2> DEFINE Right == exists(a)' => accounts'[a].owner = accounts'[a].id
    <2>0. exists(a) => accounts[a].owner = accounts[a].id
      BY DEF PasswordForOwner
    <2>u. accounts'[a] = accounts[a] => Right
      BY <2>0 DEF exists
    <2>1. ASSUME NEW b \in Name, NEW cred \in Cred, Create(b, cred)
         PROVE  Right
      BY <2>1, <2>u, Created
    <2>2. ASSUME link \in Jobs, link # None, link.kind = "password", set_credentials(link)
         PROVE  Right
      BY <2>0, <2>2, CredentialsSet DEF ChangeStands
    <2>3. ASSUME NEW b \in Name, Gone(b)
         PROVE  Right
      BY <2>3, <2>u, Removed DEF Gone
    <2>4. ASSUME NEW b \in Name, NEW flag \in BOOLEAN, exists(b),
                 accounts' = [accounts EXCEPT ![b] = [@ EXCEPT !.suspended = flag]]
         PROVE  Right
      BY <2>0, <2>4, SuspensionSet
    <2>5. CASE Begun
      BY <1>1, <2>u, <2>5 DEF Begun
    <2>6. CASE Done
      <3>1. link \in Jobs
        BY <2>6 DEF Done, TypeOK
      <3>2. link.name \in Name /\ (link.kind = "register" => link.cred \in Cred)
        BY <3>1, JobFields
      <3> QED
        BY <1>1, <2>u, <2>1, <2>2, <2>6, <3>1, <3>2 DEF Done
    <2>7. CASE Meanwhile
      BY <1>1, <2>u, <2>1, <2>3, <2>4, <2>7 DEF Meanwhile, Suspended, PasswordsInTurn
    <2> QED
      BY <1>1, <2>5, <2>6, <2>7 DEF Moves
  <1>2. PasswordForOwner'
    BY <1>1 DEF PasswordForOwner, exists
  <1>3. ASSUME link' # None, link'.kind = "password", NEW a, a = link'.name
       PROVE  /\ exists(a)' => accounts'[a].id = link'.owner
              /\ "grpc_register" \in Ops => exists(a)'
    <2>1. a \in Name
      BY <1>3, JobFields DEF TypeOK
    <2>2. CASE Begun
      <3>1. link'.owner = holder(a) /\ \E u \in Uid : sess[u] = a
        BY <1>3, <2>2 DEF Begun, PasswordsInTurn
      <3>2. "grpc_register" \in Ops => exists(a)
        BY <1>3, <2>2 DEF Begun, PasswordsInTurn, SessionsBacked
      <3> QED
        BY <2>2, <3>1, <3>2 DEF Begun, holder, exists
    <2>3. CASE Meanwhile
      <3> DEFINE Right == /\ exists(a)' => accounts'[a].id = link'.owner
                          /\ "grpc_register" \in Ops => exists(a)'
      <3>0. /\ link' = link
            /\ exists(a) => accounts[a].id = link'.owner
            /\ "grpc_register" \in Ops => exists(a)
        BY <1>3, <2>3 DEF Meanwhile, ChangeStands
      <3>u. accounts'[a] = accounts[a] => Right
        BY <3>0 DEF exists
      <3>1. ASSUME NEW b \in Name, NEW cred \in Cred, ~exists(b), Create(b, cred),
                   "grpc_register" \in Ops
           PROVE  Right
        BY <3>0, <3>1, <3>u, <2>1, Created
      <3>2. ASSUME NEW b \in Name, Gone(b)
           PROVE  Right
        <4>1. Ops \cap {"gone", "expire"} # {}
          BY <1>3, <3>0, <3>2 DEF Gone
        <4> QED
          BY <2>1, <3>0, <3>2, <3>u, <4>1, Removed DEF Gone
      <3>3. ASSUME NEW b \in Name, NEW flag \in BOOLEAN, exists(b),
                   accounts' = [accounts EXCEPT ![b] = [@ EXCEPT !.suspended = flag]]
           PROVE  Right
        BY <2>1, <3>0, <3>3, SuspensionSet
      <3> QED
        BY <3>u, <3>1, <3>2, <3>3, <2>3 DEF Meanwhile, Suspended, PasswordsInTurn
    <2> QED
      BY <1>3, <2>2, <2>3 DEF Moves, Done
  <1>4. ChangeStands'
    BY <1>3 DEF ChangeStands, exists
  <1> QED
    BY <1>2, <1>4

\* An account's password was asked for by the holder of that registration, if
\* every change is the link's own and either no registration or no drop comes
\* between: set_credentials finds the account by its name alone.
THEOREM PasswordStays ==
    ASSUME PasswordsInTurn, NamesInTurn
    PROVE  Spec => []PasswordForOwner
  <1> DEFINE T == TypeOK /\ Exercised
             P == PasswordForOwner /\ ChangeStands
             B == SessionsBacked /\ LoginStands
  <1>1. Init => P /\ B
    BY DEF Init, PasswordForOwner, ChangeStands, SessionsBacked, LoginStands, exists
  <1>2. CASE "grpc_register" \notin Ops
    <2>1. T /\ T' /\ P /\ [Next]_vars => P'
      BY <1>2, OwnerStep, LoginMoves
    <2> QED
      BY Typed, <1>1, <2>1, PTL DEF Spec
  <1>3. CASE Ops \cap {"gone", "expire", "SCRAM", "ECDSA", "keycard"} = {}
    <2>1. LoginsInTurn /\ Ops \cap {"gone", "expire"} = {}
      BY <1>3 DEF LoginsInTurn
    <2>2. T /\ T' /\ P /\ B /\ [Next]_vars => P' /\ B'
      BY <2>1, OwnerStep, BackedStep, LoginMoves
    <2> QED
      BY Typed, <1>1, <2>2, PTL DEF Spec
  <1> QED
    BY <1>2, <1>3 DEF NamesInTurn
=============================================================================
