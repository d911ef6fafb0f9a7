-------------------------- MODULE FederationProofs --------------------------
(***************************************************************************)
(* Proofs about Federation, for every set of nodes, accounts, channels and *)
(* times: that the store in memory is what its log replays to, that        *)
(* nothing in it refers to an account that is gone, and, as long as nobody *)
(* drops an account, that nodes which have exchanged everything name the   *)
(* same owners, and that logs, gossip, compactions and the store implement *)
(* Ownership.                                                              *)
(***************************************************************************)
EXTENDS Federation, SequenceLemmas

\* What the constants stand for: nodes and times are ordered like numbers,
\* names and channels are finitely many, and None is none of the data.
Sorts ==
    /\ Node \subseteq Nat
    /\ Time \subseteq Nat
    /\ IsFiniteSet(Name)
    /\ IsFiniteSet(Chan)
    /\ None \notin Name
    /\ None \notin Account
    /\ None \notin ChannelInfo
    /\ None \notin Event
    /\ None \notin [epoch : Nat, seq : Nat]
    /\ None \notin [ts : Time, home : Node]
    /\ \A l \in Links : l \subseteq Node
    /\ Trust \in [Node -> SUBSET Node]

StoreType == [accounts : [Name -> Account \cup {None}], chans : [Chan -> ChannelInfo \cup {None}]]

-----------------------------------------------------------------------------
(* The store and its events. *)

\* What the kinds of event look like.
LEMMA EventKinds ==
    ASSUME NEW ev \in Event
    PROVE  \/ ev.kind = "AccountRegistered" /\ ev.name \in Name /\ ev.account \in Account
           \/ ev.kind = "AccountPasswordSet" /\ ev.name \in Name /\ ev.cred \in Cred
           \/ ev.kind = "AccountDropped" /\ ev.name \in Name
           \/ ev.kind \in {"ChannelRegistered", "ChannelFounderSet"} /\ ev.chan \in Chan
                /\ ev.founder \in Name
           \/ ev.kind = "ChannelSuccessorSet" /\ ev.chan \in Chan
                /\ ev.successor \in Name \cup {None}
           \/ ev.kind = "ChannelDropped" /\ ev.chan \in Chan
BY DEF Event, GlobalEvent

\* Folding an event into a store gives a store.
LEMMA ApplyType ==
    ASSUME Sorts, NEW st \in StoreType, NEW ev \in Event
    PROVE  apply(st, ev) \in StoreType
<1>0. /\ st.accounts \in [Name -> Account \cup {None}]
      /\ st.chans \in [Chan -> ChannelInfo \cup {None}]
  BY DEF StoreType
<1>1. CASE ev.kind = "AccountRegistered" /\ ev.name \in Name /\ ev.account \in Account
  <2>1. apply(st, ev) = [st EXCEPT !.accounts[ev.name] = Claim(@, ev.account)]
    BY <1>1 DEF apply
  <2>2. Claim(st.accounts[ev.name], ev.account) \in Account \cup {None}
    BY <1>0, <1>1 DEF Claim
  <2> QED BY <1>1, <2>1, <2>2 DEF StoreType
<1>2. CASE ev.kind = "AccountPasswordSet" /\ ev.name \in Name /\ ev.cred \in Cred
  <2>1. CASE st.accounts[ev.name] = None
    BY <1>2, <2>1 DEF apply
  <2>2. CASE st.accounts[ev.name] # None
    <3>1. apply(st, ev) = [st EXCEPT !.accounts[ev.name].cred = ev.cred]
      BY <1>2, <2>2 DEF apply
    <3>2. st.accounts[ev.name] \in Account
      BY <1>0, <1>2, <2>2
    <3>3. [st.accounts[ev.name] EXCEPT !.cred = ev.cred] \in Account
      BY <1>2, <3>2 DEF Account
    <3> QED BY <1>2, <3>1, <3>3 DEF StoreType
  <2> QED BY <2>1, <2>2
<1>3. CASE ev.kind = "AccountDropped" /\ ev.name \in Name
  <2>1. apply(st, ev) = [accounts |-> [st.accounts EXCEPT ![ev.name] = None],
                         chans |-> purge_account_refs(st.chans, ev.name)]
    BY <1>3 DEF apply
  <2>2. ASSUME NEW c \in Chan
        PROVE  purge_account_refs(st.chans, ev.name)[c] \in ChannelInfo \cup {None}
    <3>1. st.chans[c] # None => [st.chans[c] EXCEPT !.successor = None] \in ChannelInfo
      BY <1>0 DEF ChannelInfo
    <3> QED BY <1>0, <3>1 DEF purge_account_refs
  <2>3. purge_account_refs(st.chans, ev.name) \in [Chan -> ChannelInfo \cup {None}]
    BY <1>0, <2>2 DEF purge_account_refs
  <2> QED BY <1>0, <1>3, <2>1, <2>3 DEF StoreType
<1>4. CASE ev.kind \in {"ChannelRegistered", "ChannelFounderSet"} /\ ev.chan \in Chan
           /\ ev.founder \in Name
  <2>1. CASE ev.kind = "ChannelRegistered"
    <3>1. apply(st, ev) = [st EXCEPT !.chans[ev.chan] = [founder |-> ev.founder, successor |-> None]]
      BY <2>1 DEF apply
    <3> QED BY <1>4, <3>1 DEF StoreType, ChannelInfo
  <2>2. CASE ev.kind = "ChannelFounderSet"
    <3>1. apply(st, ev) = UpdateChan(st, ev.chan, [st.chans[ev.chan] EXCEPT !.founder = ev.founder])
      BY <2>2 DEF apply
    <3>2. st.chans[ev.chan] # None => [st.chans[ev.chan] EXCEPT !.founder = ev.founder] \in ChannelInfo
      BY <1>0, <1>4 DEF ChannelInfo
    <3> QED BY <1>4, <3>1, <3>2 DEF StoreType, UpdateChan
  <2> QED BY <1>4, <2>1, <2>2
<1>5. CASE ev.kind = "ChannelSuccessorSet" /\ ev.chan \in Chan /\ ev.successor \in Name \cup {None}
  <2>1. apply(st, ev) = UpdateChan(st, ev.chan, [st.chans[ev.chan] EXCEPT !.successor = ev.successor])
    BY <1>5 DEF apply
  <2>2. st.chans[ev.chan] # None => [st.chans[ev.chan] EXCEPT !.successor = ev.successor] \in ChannelInfo
    BY <1>0, <1>5 DEF ChannelInfo
  <2> QED BY <1>5, <2>1, <2>2 DEF StoreType, UpdateChan
<1>6. CASE ev.kind = "ChannelDropped" /\ ev.chan \in Chan
  <2>1. apply(st, ev) = [st EXCEPT !.chans[ev.chan] = None]
    BY <1>6 DEF apply
  <2> QED BY <1>6, <2>1 DEF StoreType
<1> QED BY <1>1, <1>2, <1>3, <1>4, <1>5, <1>6, EventKinds

-----------------------------------------------------------------------------
(* Replaying a sequence of events, from any store. *)

ReplayFrom(st, evs) == FoldLeft(apply, st, evs)

\* The equation that the fold's function of sets of positions satisfies.
Folds(iter, st, evs) ==
    iter = [s \in SUBSET (DOMAIN evs) |->
              IF s = {} THEN st ELSE apply(iter[s \ {Max(s)}], evs[Max(s)])]

\* A replay is the value of a function satisfying that equation.
LEMMA FoldUnfolds ==
    ASSUME NEW st, NEW evs
    PROVE  ReplayFrom(st, evs) = (CHOOSE iter : Folds(iter, st, evs))[DOMAIN evs]
BY DEF ReplayFrom, Folds, FoldLeft, MapThenFoldSet

\* There is such a function, and it yields stores.
LEMMA SomeFold ==
    ASSUME Sorts, NEW st \in StoreType, NEW evs \in Seq(Event)
    PROVE  \E iter \in [SUBSET (DOMAIN evs) -> StoreType] : Folds(iter, st, evs)
<1> DEFINE n == Len(evs)
           step == [p \in StoreType \X (1..n) |-> apply(p[1], evs[p[2]])]
<1>1. n \in Nat /\ DOMAIN evs = 1..n /\ \A i \in 1..n : evs[i] \in Event
  OBVIOUS
<1>2. step \in [StoreType \X (1..n) -> StoreType]
  BY <1>1, ApplyType
<1>3. \A d \in StoreType, i \in 1..n : step[<<d, i>>] = apply(d, evs[i])
  OBVIOUS
<1> HIDE DEF step, n
<1>4. PICK iter \in [SUBSET (1..n) -> StoreType] : FoldsBy(iter, n, st, step)
  BY <1>1, <1>2, FoldExists
<1>5. ASSUME NEW s \in SUBSET (1..n), s # {}
      PROVE  step[<<iter[s \ {Max(s)}], Max(s)>>] = apply(iter[s \ {Max(s)}], evs[Max(s)])
  <2>1. Max(s) \in 1..n
    BY <1>1, <1>5, MaxOf
  <2>2. iter[s \ {Max(s)}] \in StoreType
    OBVIOUS
  <2> QED BY <1>3, <2>1, <2>2
<1>6. Folds(iter, st, evs)
  BY <1>1, <1>4, <1>5 DEF FoldsBy, Folds
<1> QED BY <1>1, <1>6

\* Folds over two sequences agree as far as the sequences do.
LEMMA FoldsAgree ==
    ASSUME NEW st, NEW evs, NEW more, NEW n \in Nat,
           DOMAIN evs = 1..n, 1..n \subseteq DOMAIN more,
           \A i \in 1..n : more[i] = evs[i],
           NEW f, Folds(f, st, evs), NEW g, Folds(g, st, more)
    PROVE  f[1..n] = g[1..n]
<1> DEFINE G == {s \in SUBSET (1..n) : f[s] = g[s]}
<1>1. {} \in G
  BY DEF Folds
<1>2. ASSUME NEW s \in SUBSET (1..n), s # {}, s \ {Max(s)} \in G PROVE s \in G
  <2>1. Max(s) \in 1..n
    BY <1>2, MaxOf
  <2>2. s \in SUBSET DOMAIN evs /\ s \in SUBSET DOMAIN more
    OBVIOUS
  <2>3. f[s] = apply(f[s \ {Max(s)}], evs[Max(s)])
    BY <1>2, <2>2 DEF Folds
  <2>4. g[s] = apply(g[s \ {Max(s)}], more[Max(s)])
    BY <1>2, <2>2 DEF Folds
  <2>5. more[Max(s)] = evs[Max(s)]
    BY <2>1
  <2> QED BY <1>2, <2>3, <2>4, <2>5
<1> HIDE DEF G
<1>3. SUBSET (1..n) \subseteq G
  BY <1>1, <1>2, SubsetsUpwards
<1> QED BY <1>3 DEF G

\* A replay yields a store, that of no events the one it started from.
LEMMA ReplayType ==
    ASSUME Sorts, NEW st \in StoreType, NEW evs \in Seq(Event)
    PROVE  /\ ReplayFrom(st, evs) \in StoreType
           /\ evs = <<>> => ReplayFrom(st, evs) = st
<1>1. PICK f \in [SUBSET (DOMAIN evs) -> StoreType] : Folds(f, st, evs)
  BY SomeFold
<1> DEFINE g == CHOOSE iter : Folds(iter, st, evs)
<1>2. Folds(g, st, evs)
  BY <1>1
<1>3. ReplayFrom(st, evs) = g[DOMAIN evs]
  BY FoldUnfolds
<1> HIDE DEF g
<1>4. PICK n \in Nat : DOMAIN evs = 1..n
  OBVIOUS
<1>5. f[1..n] = g[1..n]
  BY <1>1, <1>2, <1>4, FoldsAgree
<1>6. f[DOMAIN evs] = g[DOMAIN evs]
  BY <1>4, <1>5
<1>7. f[DOMAIN evs] \in StoreType
  OBVIOUS
<1>8. ASSUME evs = <<>> PROVE f[DOMAIN evs] = st
  <2>1. DOMAIN evs = {}
    BY <1>8
  <2> QED BY <1>1, <2>1 DEF Folds
<1> QED BY <1>3, <1>6, <1>7, <1>8

\* One event more is one application more.
LEMMA ReplayAppend ==
    ASSUME Sorts, NEW st \in StoreType, NEW evs \in Seq(Event), NEW ev \in Event
    PROVE  ReplayFrom(st, evs \o <<ev>>) = apply(ReplayFrom(st, evs), ev)
<1> DEFINE n == Len(evs)
           more == evs \o <<ev>>
           f == CHOOSE iter : Folds(iter, st, evs)
           g == CHOOSE iter : Folds(iter, st, more)
<1>1. /\ n \in Nat /\ DOMAIN evs = 1..n
      /\ more \in Seq(Event) /\ Len(more) = n + 1 /\ DOMAIN more = 1..(n + 1)
      /\ more[n + 1] = ev /\ \A i \in 1..n : more[i] = evs[i]
  OBVIOUS
<1>2. Folds(f, st, evs)
  <2>1. \E iter \in [SUBSET (DOMAIN evs) -> StoreType] : Folds(iter, st, evs)
    BY SomeFold
  <2> QED BY <2>1
<1> HIDE DEF more
<1>3. Folds(g, st, more)
  <2>1. \E iter \in [SUBSET (DOMAIN more) -> StoreType] : Folds(iter, st, more)
    BY <1>1, SomeFold
  <2> QED BY <2>1
<1>4. ReplayFrom(st, evs) = f[1..n] /\ ReplayFrom(st, more) = g[1..(n + 1)]
  BY <1>1, FoldUnfolds
<1> HIDE DEF f, g
<1>6. f[1..n] = g[1..n]
  <2>1. n \in Nat /\ DOMAIN evs = 1..n /\ 1..n \subseteq DOMAIN more
    BY <1>1
  <2>2. \A i \in 1..n : more[i] = evs[i]
    BY <1>1
  <2> HIDE DEF n
  <2>3. \A h, k : Folds(h, st, evs) /\ Folds(k, st, more) => h[1..n] = k[1..n]
    BY <2>1, <2>2, FoldsAgree
  <2> QED BY <1>2, <1>3, <2>3
<1>7. Max(1..(n + 1)) = n + 1
  <2>1. n + 1 \in Nat /\ n + 1 \in 1..(n + 1)
    BY <1>1
  <2> QED BY <2>1, MaxIs
<1>8. (1..(n + 1)) \ {n + 1} = 1..n
  BY <1>1
<1>9. 1..(n + 1) # {}
  BY <1>1
<1>10. g[1..(n + 1)] = apply(g[1..n], more[n + 1])
  <2>1. 1..(n + 1) \in SUBSET DOMAIN more
    BY <1>1
  <2>2. g[1..(n + 1)] = apply(g[(1..(n + 1)) \ {Max(1..(n + 1))}], more[Max(1..(n + 1))])
    BY <1>3, <1>9, <2>1 DEF Folds
  <2> QED BY <1>7, <1>8, <2>2
<1>11. ReplayFrom(st, more) = apply(ReplayFrom(st, evs), ev)
  BY <1>1, <1>4, <1>6, <1>10
<1> QED BY <1>11 DEF more

-----------------------------------------------------------------------------
(* A compaction's snapshot replays to the store it was taken of.           *)

\* The store a node starts from.
LEMMA FreshType == Fresh \in StoreType
BY DEF Fresh, StoreType

\* The events of one channel rebuild it.
LEMMA ReplayChannel ==
    ASSUME Sorts, NEW evs \in Seq(Event), NEW c \in Chan, NEW info \in ChannelInfo
    PROVE  /\ ChannelEvents(c, info) \in Seq(Event)
           /\ ReplayFrom(Fresh, evs \o ChannelEvents(c, info)) =
                [ReplayFrom(Fresh, evs) EXCEPT !.chans[c] = info]
<1> DEFINE st == ReplayFrom(Fresh, evs)
           e1 == ChannelRegistered(c, info.founder)
           e2 == ChannelSuccessorSet(c, info.successor)
           st1 == [st EXCEPT !.chans[c] = [founder |-> info.founder, successor |-> None]]
<1>1. st \in StoreType
  BY ReplayType, FreshType
<1>2. e1 \in Event /\ e2 \in Event /\ e1.kind = "ChannelRegistered" /\ e2.kind = "ChannelSuccessorSet"
  BY DEF Event, ChannelInfo, ChannelRegistered, ChannelSuccessorSet
<1>3. info = [founder |-> info.founder, successor |-> info.successor]
  BY DEF ChannelInfo
<1>4. evs \o <<e1>> \in Seq(Event) /\ ReplayFrom(Fresh, evs \o <<e1>>) = apply(st, e1)
  BY <1>2, FreshType, ReplayAppend
<1>5. apply(st, e1) = st1
  BY <1>2 DEF apply, ChannelRegistered
<1>6. CASE info.successor = None
  <2>1. ChannelEvents(c, info) = <<e1>>
    <3>1. <<e1>> \o <<>> = <<e1>>
      OBVIOUS
    <3> QED BY <1>6, <3>1 DEF ChannelEvents
  <2>2. st1 = [st EXCEPT !.chans[c] = info]
    BY <1>3, <1>6
  <2> QED BY <1>2, <1>4, <1>5, <2>1, <2>2
<1>7. CASE info.successor # None
  <2>1. ChannelEvents(c, info) = <<e1>> \o <<e2>>
    BY <1>7 DEF ChannelEvents
  <2>2. <<e1>> \in Seq(Event) /\ <<e2>> \in Seq(Event)
    BY <1>2
  <2>3. evs \o ChannelEvents(c, info) = (evs \o <<e1>>) \o <<e2>>
    BY <2>1, <2>2, ConcatAssociative
  <2>4. ReplayFrom(Fresh, evs \o ChannelEvents(c, info)) = apply(st1, e2)
    <3> HIDE DEF e1, e2, st1, st
    <3>1. ReplayFrom(Fresh, (evs \o <<e1>>) \o <<e2>>) = apply(ReplayFrom(Fresh, evs \o <<e1>>), e2)
      BY <1>2, <1>4, FreshType, ReplayAppend
    <3> QED BY <1>4, <1>5, <2>3, <3>1
  <2>5. st1 \in StoreType /\ st1.chans[c] = [founder |-> info.founder, successor |-> None]
    BY <1>1 DEF StoreType, ChannelInfo
  <2>6. st1.chans[c] # None
    BY <2>5 DEF Sorts, ChannelInfo
  <2>7. apply(st1, e2) = [st1 EXCEPT !.chans[c] = [st1.chans[c] EXCEPT !.successor = info.successor]]
    BY <1>2, <2>6 DEF apply, ChannelSuccessorSet, UpdateChan
  <2>8. [st1.chans[c] EXCEPT !.successor = info.successor] = info
    BY <1>3, <2>5
  <2>9. apply(st1, e2) = [st1 EXCEPT !.chans[c] = info]
    BY <2>7, <2>8
  <2>10. [st1 EXCEPT !.chans[c] = info] = [st EXCEPT !.chans[c] = info]
    BY <1>1 DEF StoreType
  <2> HIDE DEF e1, e2, st1, st
  <2>11. ChannelEvents(c, info) \in Seq(Event)
    BY <2>1, <2>2
  <2> QED BY <2>4, <2>9, <2>10, <2>11 DEF st
<1> QED BY <1>6, <1>7

\* The accounts of a snapshot rebuild the accounts.
LEMMA ReplayAccounts ==
    ASSUME Sorts, NEW st \in StoreType, NEW names \in Orders(Registered(st.accounts))
    PROVE  LET evs == [i \in 1..Len(names) |-> AccountRegistered(names[i], st.accounts[names[i]])]
           IN  /\ evs \in Seq(Event)
               /\ ReplayFrom(Fresh, evs) = [accounts |-> st.accounts, chans |-> Fresh.chans]
<1> DEFINE n == Len(names)
           S == Registered(st.accounts)
           A(k) == [i \in 1..k |-> AccountRegistered(names[i], st.accounts[names[i]])]
           Part(k) == [a \in Name |-> IF \E i \in 1..k : names[i] = a THEN st.accounts[a] ELSE None]
           K == {k \in 0..n : ReplayFrom(Fresh, A(k)) = [accounts |-> Part(k), chans |-> Fresh.chans]}
<1>1. st.accounts \in [Name -> Account \cup {None}] /\ DOMAIN st.accounts = Name
  BY DEF StoreType
<1>2. S \subseteq Name /\ IsFiniteSet(S)
  BY <1>1, FS_Subset DEF Sorts, Registered
<1>3. /\ names \in Seq(S)
      /\ \A a \in S : \E i \in 1..n : names[i] = a
      /\ \A i, j \in 1..n : names[i] = names[j] => i = j
  BY <1>2, OrderOf DEF Orders
<1>4. n \in Nat /\ \A i \in 1..n : names[i] \in S
  BY <1>3
<1>5. \A i \in 1..n : names[i] \in Name /\ st.accounts[names[i]] \in Account
  BY <1>1, <1>2, <1>4 DEF Registered
<1> HIDE DEF n, S
<1>6. \A i \in 1..n : AccountRegistered(names[i], st.accounts[names[i]]) \in Event
  BY <1>5 DEF AccountRegistered, Event, GlobalEvent
<1>7. \A k \in 0..n : A(k) \in Seq(Event)
  BY <1>4, <1>6
<1>8. 0 \in K
  <2>1. A(0) = <<>>
    OBVIOUS
  <2>2. ReplayFrom(Fresh, A(0)) = Fresh
    <3>1. <<>> \in Seq(Event)
      OBVIOUS
    <3>2. ReplayFrom(Fresh, <<>>) = Fresh
      BY <3>1, FreshType, ReplayType
    <3> QED BY <2>1, <3>2
  <2>3. Part(0) = Fresh.accounts
    BY DEF Fresh
  <2>4. Fresh = [accounts |-> Fresh.accounts, chans |-> Fresh.chans]
    BY DEF Fresh
  <2> QED BY <1>4, <2>2, <2>3, <2>4
<1>9. ASSUME NEW k \in 0..(n - 1), k \in K PROVE k + 1 \in K
  <2> DEFINE ev == AccountRegistered(names[k + 1], st.accounts[names[k + 1]])
             a == names[k + 1]
  <2>1. k \in Nat /\ k + 1 \in 1..n /\ k + 1 \in 0..n /\ k \in 0..n
    BY <1>4
  <2>2. ev \in Event /\ ev.kind = "AccountRegistered" /\ ev.name = a /\ ev.account = st.accounts[a]
    BY <1>6, <2>1 DEF AccountRegistered
  <2>3. A(k + 1) = A(k) \o <<ev>>
    BY <2>1
  <2>4. ReplayFrom(Fresh, A(k + 1)) = apply(ReplayFrom(Fresh, A(k)), ev)
    BY <1>7, <2>1, <2>2, <2>3, FreshType, ReplayAppend
  <2> DEFINE held == [accounts |-> Part(k), chans |-> Fresh.chans]
  <2>5. apply(held, ev) = [held EXCEPT !.accounts[a] = Claim(held.accounts[a], st.accounts[a])]
    BY <2>2 DEF apply
  <2>6. held.accounts[a] = None
    <3>1. ASSUME NEW i \in 1..k, names[i] = a PROVE FALSE
      <4>1. i \in 1..n /\ i # k + 1
        BY <1>4, <2>1
      <4> QED BY <1>3, <2>1, <3>1, <4>1
    <3> QED BY <1>5, <2>1, <3>1
  <2>7. Claim(held.accounts[a], st.accounts[a]) = st.accounts[a]
    BY <2>6 DEF Claim
  <2>8. [Part(k) EXCEPT ![a] = st.accounts[a]] = Part(k + 1)
    <3>1. \A b \in Name : (\E i \in 1..(k + 1) : names[i] = b) <=> b = a \/ \E i \in 1..k : names[i] = b
      BY <2>1
    <3>2. a \in Name
      BY <1>5, <2>1
    <3> QED BY <3>1, <3>2
  <2>9. apply(held, ev) = [accounts |-> Part(k + 1), chans |-> Fresh.chans]
    BY <2>5, <2>7, <2>8
  <2> HIDE DEF ev, a, A, Part
  <2>10. ReplayFrom(Fresh, A(k)) = held
    BY <1>9
  <2> QED BY <2>1, <2>4, <2>9, <2>10
<1>10. ReplayFrom(Fresh, A(n)) = [accounts |-> Part(n), chans |-> Fresh.chans]
  <2> HIDE DEF K
  <2>1. 0..n \subseteq K
    BY <1>4, <1>8, <1>9, Upwards
  <2>2. n \in K
    BY <1>4, <2>1
  <2> QED BY <2>2 DEF K
<1>11. Part(n) = st.accounts
  <2>1. ASSUME NEW a \in Name PROVE Part(n)[a] = st.accounts[a]
    <3>1. CASE a \in S
      BY <1>3, <3>1 DEF n
    <3>2. CASE a \notin S
      <4>1. st.accounts[a] = None
        BY <1>1, <3>2 DEF S, Registered
      <4> QED BY <4>1
    <3> QED BY <3>1, <3>2
  <2> QED BY <1>1, <2>1
<1>12. A(n) \in Seq(Event)
  BY <1>4, <1>7
<1> QED BY <1>10, <1>11, <1>12 DEF n

\* Whatever order a compaction writes them in, its events replay to the store.
LEMMA ReplaySnapshot ==
    ASSUME Sorts, NEW st \in StoreType, NEW evs \in Snapshot(st)
    PROVE  evs \in Seq(Event) /\ Replay(evs) = st
<1>1. PICK names \in Orders(Registered(st.accounts)), cs \in Orders(Registered(st.chans)) :
         evs = SnapshotOf(st, names, cs)
  BY DEF Snapshot
<1> DEFINE n == Len(cs)
           S == Registered(st.chans)
           first == [i \in 1..Len(names) |-> AccountRegistered(names[i], st.accounts[names[i]])]
           pieces == [i \in 1..n |-> ChannelEvents(cs[i], st.chans[cs[i]])]
           Part(k) == [c \in Chan |-> IF \E i \in 1..k : cs[i] = c THEN st.chans[c] ELSE None]
<1>2. first \in Seq(Event) /\ ReplayFrom(Fresh, first) = [accounts |-> st.accounts, chans |-> Fresh.chans]
  BY ReplayAccounts
<1>3. st.chans \in [Chan -> ChannelInfo \cup {None}] /\ DOMAIN st.chans = Chan
  BY DEF StoreType
<1>4. S \subseteq Chan /\ IsFiniteSet(S)
  BY <1>3, FS_Subset DEF Sorts, Registered
<1>5. /\ cs \in Seq(S)
      /\ \A c \in S : \E i \in 1..n : cs[i] = c
      /\ \A i, j \in 1..n : cs[i] = cs[j] => i = j
  BY <1>4, OrderOf DEF Orders
<1>6. n \in Nat /\ \A i \in 1..n : cs[i] \in S
  BY <1>5
<1>7. \A i \in 1..n : cs[i] \in Chan /\ st.chans[cs[i]] \in ChannelInfo
  BY <1>3, <1>4, <1>6 DEF Registered
<1> HIDE DEF n, S, first
<1>8. ASSUME NEW i \in 1..n PROVE ChannelEvents(cs[i], st.chans[cs[i]]) \in Seq(Event)
  <2>1. <<>> \in Seq(Event)
    OBVIOUS
  <2> QED BY <1>7, <2>1, ReplayChannel
<1>9. pieces \in Seq(Seq(Event)) /\ Len(pieces) = n /\ \A i \in 1..n : pieces[i] = ChannelEvents(cs[i], st.chans[cs[i]])
  BY <1>6, <1>8
<1> HIDE DEF pieces
<1>10. PICK f \in [0..n -> Seq(Event)] :
          /\ f[0] = <<>>
          /\ \A i \in 1..n : f[i] = f[i - 1] \o pieces[i]
          /\ FlattenSeq(pieces) = f[n]
  BY <1>9, FlattenGrows
<1> DEFINE K == {k \in 0..n : ReplayFrom(Fresh, first \o f[k]) = [accounts |-> st.accounts, chans |-> Part(k)]}
<1>11. 0 \in K
  <2>1. first \o f[0] = first
    BY <1>2, <1>10
  <2>2. Part(0) = Fresh.chans
    BY DEF Fresh
  <2>3. 0 \in 0..n
    BY <1>6
  <2>4. ReplayFrom(Fresh, first \o f[0]) = [accounts |-> st.accounts, chans |-> Part(0)]
    BY <1>2, <2>1, <2>2
  <2> QED BY <2>3, <2>4
<1>12. ASSUME NEW k \in 0..(n - 1), k \in K PROVE k + 1 \in K
  <2> DEFINE c == cs[k + 1]
             held == [accounts |-> st.accounts, chans |-> Part(k)]
  <2>1. k \in Nat /\ k + 1 \in 1..n /\ k + 1 \in 0..n /\ k \in 0..n /\ (k + 1) - 1 = k
    BY <1>6
  <2>2. c \in Chan /\ st.chans[c] \in ChannelInfo
    BY <1>7, <2>1
  <2>3. f[k + 1] = f[k] \o ChannelEvents(c, st.chans[c]) /\ f[k] \in Seq(Event)
    BY <1>9, <1>10, <2>1
  <2>4. ChannelEvents(c, st.chans[c]) \in Seq(Event)
    BY <1>8, <2>1
  <2> DEFINE es == ChannelEvents(c, st.chans[c])
  <2>5. first \o f[k + 1] = (first \o f[k]) \o es /\ first \o f[k] \in Seq(Event)
    <3> HIDE DEF es
    <3>1. es \in Seq(Event) /\ f[k] \in Seq(Event) /\ first \in Seq(Event)
      BY <1>2, <2>3, <2>4 DEF es
    <3>2. f[k + 1] = f[k] \o es
      BY <2>3 DEF es
    <3>3. (first \o f[k]) \o es = first \o (f[k] \o es)
      <4> DEFINE g == f[k]
      <4>1. g \in Seq(Event) /\ es \in Seq(Event) /\ first \in Seq(Event)
        BY <3>1
      <4> HIDE DEF g, K
      <4>2. (first \o g) \o es = first \o (g \o es)
        BY <4>1, ConcatAssociative
      <4> QED BY <4>2 DEF g
    <3>4. first \o f[k] \in Seq(Event)
      BY <3>1, ConcatProperties
    <3> QED BY <3>2, <3>3, <3>4
  <2>6. ReplayFrom(Fresh, first \o f[k + 1]) = [ReplayFrom(Fresh, first \o f[k]) EXCEPT !.chans[c] = st.chans[c]]
    <3> DEFINE info == st.chans[c]
               before == first \o f[k]
    <3>1. before \in Seq(Event) /\ info \in ChannelInfo
      BY <2>2, <2>5
    <3>2. first \o f[k + 1] = before \o ChannelEvents(c, info)
      BY <2>5
    <3> HIDE DEF info, before, c
    <3>3. ReplayFrom(Fresh, before \o ChannelEvents(c, info)) = [ReplayFrom(Fresh, before) EXCEPT !.chans[c] = info]
      BY <2>2, <3>1, ReplayChannel DEF c
    <3> QED BY <3>2, <3>3 DEF before, info
  <2>7. ReplayFrom(Fresh, first \o f[k]) = held
    BY <1>12
  <2>8. [Part(k) EXCEPT ![c] = st.chans[c]] = Part(k + 1)
    <3>1. \A d \in Chan : (\E i \in 1..(k + 1) : cs[i] = d) <=> d = c \/ \E i \in 1..k : cs[i] = d
      BY <2>1
    <3> QED BY <2>2, <3>1
  <2>9. [held EXCEPT !.chans[c] = st.chans[c]] = [accounts |-> st.accounts, chans |-> Part(k + 1)]
    <3> HIDE DEF Part
    <3> QED BY <2>8
  <2> QED BY <2>1, <2>6, <2>7, <2>9
<1>13. ReplayFrom(Fresh, first \o f[n]) = [accounts |-> st.accounts, chans |-> Part(n)]
  <2> HIDE DEF K
  <2>1. 0..n \subseteq K
    BY <1>6, <1>11, <1>12, Upwards
  <2>2. n \in K
    BY <1>6, <2>1
  <2> QED BY <2>2 DEF K
<1>14. Part(n) = st.chans
  <2>1. ASSUME NEW c \in Chan PROVE Part(n)[c] = st.chans[c]
    <3>1. CASE c \in S
      BY <1>5, <3>1 DEF n
    <3>2. CASE c \notin S
      <4>1. st.chans[c] = None
        BY <1>3, <3>2 DEF S, Registered
      <4> QED BY <4>1
    <3> QED BY <3>1, <3>2
  <2> QED BY <1>3, <2>1
<1>15. evs = first \o f[n]
  BY <1>1, <1>10 DEF SnapshotOf, first, pieces, n
<1>16. f[n] \in Seq(Event)
  BY <1>6, <1>10
<1>17. st = [accounts |-> st.accounts, chans |-> st.chans]
  BY DEF StoreType
<1> QED BY <1>2, <1>13, <1>14, <1>15, <1>16, <1>17 DEF Replay, ReplayFrom

-----------------------------------------------------------------------------
(* Replication's theorems, for the log under the store: its invariant does *)
(* not depend on what a compaction writes.                                 *)

RP == INSTANCE ReplicationProofs WITH Snapshots <- Seq(Event)

\* What Replication assumes of its constants holds of the store's log.
LEMMA Assumed ==
    ASSUME Sorts
    PROVE  /\ RP!LinksAssumption /\ RP!TrustAssumption /\ RP!SnapshotsAssumption
           /\ RP!GlobalAssumption /\ RP!NoneAssumption
<1>1. GlobalEvent \subseteq Event
  BY DEF Event
<1> QED BY <1>1 DEF Sorts, RP!LinksAssumption, RP!TrustAssumption, RP!SnapshotsAssumption,
                   RP!GlobalAssumption, RP!NoneAssumption, RP!Cursor

\* What Federation does of Replication on its own.
LEMMA SameLocal ==
  ASSUME NEW n
  PROVE /\ \A ev : R!Author(n, ev) <=> RP!Author(n, ev)
        /\ \A evs : R!Compact(n, evs) <=> RP!Compact(n, evs)
        /\ R!SetReadonly(n) <=> RP!SetReadonly(n)
        /\ R!Restart(n) <=> RP!Restart(n)
<1>1. \A ev : R!Author(n, ev) <=> RP!Author(n, ev)
  BY DEF R!Author, RP!Author, R!Stamp, RP!Stamp, R!next_seq, RP!next_seq, R!Advance, RP!Advance,
     R!Pushed, RP!Pushed, R!Peers, RP!Peers, R!Global, RP!Global, R!CursorOf, RP!CursorOf
<1>2. \A evs : R!Compact(n, evs) <=> RP!Compact(n, evs)
  <2>1. \A evs, i : R!GlobalsBefore(evs, i) = RP!GlobalsBefore(evs, i)
    BY DEF R!GlobalsBefore, RP!GlobalsBefore, R!Cardinality, RP!Cardinality
  <2>2. \A o, ep, evs : R!CompactedVersions(o, ep, evs) = RP!CompactedVersions(o, ep, evs)
    BY <2>1 DEF R!CompactedVersions, RP!CompactedVersions, R!NoVersions, RP!NoVersions
  <2>3. \A o, ep, evs : R!CompactedLog(o, ep, evs) = RP!CompactedLog(o, ep, evs)
    BY <2>1 DEF R!CompactedLog, RP!CompactedLog
  <2> QED BY <2>2, <2>3 DEF R!Compact, RP!Compact
<1>3. R!SetReadonly(n) <=> RP!SetReadonly(n)
  BY DEF R!SetReadonly, RP!SetReadonly
<1>4. R!Restart(n) <=> RP!Restart(n)
  BY DEF R!Restart, RP!Restart, R!AbsorbedEpoch, RP!AbsorbedEpoch, R!OwnEntries, RP!OwnEntries,
         R!Entries, RP!Entries, R!AbsorbedVersions, RP!AbsorbedVersions, R!AbsorbedCursor,
         RP!AbsorbedCursor, R!GlobalsOf, RP!GlobalsOf, R!Global, RP!Global, R!CursorOf, RP!CursorOf,
         R!cursor_newer, RP!cursor_newer, R!Surviving, RP!Surviving
<1> QED BY <1>1, <1>2, <1>3, <1>4

\* What its sessions do.
LEMMA SameGossip ==
  /\ \A l : (R!Connect(l) <=> RP!Connect(l)) /\ (R!Disconnect(l) <=> RP!Disconnect(l))
  /\ \A n, p : R!SendDigest(n, p) <=> RP!SendDigest(n, p)
  /\ \A d : R!AnswerDigest(d) <=> RP!AnswerDigest(d)
  /\ \A m : /\ R!Ingest(m) <=> RP!Ingest(m)
            /\ R!Lag(m) <=> RP!Lag(m)
            /\ R!IngestFails(m) <=> RP!IngestFails(m)
  /\ \A vs, tr, e : R!accept(vs, tr, e) <=> RP!accept(vs, tr, e)
<1>0. \A n, p, r : R!Digest(n, p, r) = RP!Digest(n, p, r)
  BY DEF R!Digest, RP!Digest
<1>1. \A l : (R!Connect(l) <=> RP!Connect(l)) /\ (R!Disconnect(l) <=> RP!Disconnect(l))
  BY DEF R!Connect, RP!Connect, R!Disconnect, RP!Disconnect, R!Surviving, RP!Surviving
<1>2. \A n, p : R!SendDigest(n, p) <=> RP!SendDigest(n, p)
  <2>1. \A n : R!Peers(n) = RP!Peers(n)
    BY DEF R!Peers, RP!Peers
  <2> QED BY <1>0, <2>1 DEF R!SendDigest, RP!SendDigest, R!Cardinality, RP!Cardinality
<1>3. \A d : R!AnswerDigest(d) <=> RP!AnswerDigest(d)
  BY DEF R!AnswerDigest, RP!AnswerDigest, R!Digest, RP!Digest, R!missing_for, RP!missing_for,
         R!Entries, RP!Entries, R!Global, RP!Global, R!cursor_newer, RP!cursor_newer,
         R!CursorOf, RP!CursorOf
<1>4. \A vs, tr, e : R!accept(vs, tr, e) <=> RP!accept(vs, tr, e)
  BY DEF R!accept, RP!accept, R!InOrder, RP!InOrder, R!Global, RP!Global
<1>5. \A m : R!Ingest(m) <=> RP!Ingest(m)
  BY <1>4 DEF R!Ingest, RP!Ingest, R!Advance, RP!Advance, R!CursorOf, RP!CursorOf,
     R!Pushed, RP!Pushed, R!Peers, RP!Peers, R!Global, RP!Global
<1>6. \A m : (R!Lag(m) <=> RP!Lag(m)) /\ (R!IngestFails(m) <=> RP!IngestFails(m))
  BY <1>0, <1>4 DEF R!Lag, RP!Lag, R!IngestFails, RP!IngestFails, R!Cardinality, RP!Cardinality
<1> QED BY <1>1, <1>2, <1>3, <1>4, <1>5, <1>6
-----------------------------------------------------------------------------
(* The invariant of the store.                                             *)

\* What a handler that is cleaning up may still have to append.
CleanupEvent ==
    {ev \in Event : \/ ev.kind \in {"ChannelFounderSet", "ChannelDropped", "AccountDropped"}
                    \/ ev.kind = "ChannelSuccessorSet" /\ ev.successor = None}

CleanupStep == [event : CleanupEvent \cup {None}, logout : Name \cup {None}]

Types ==
    /\ accounts \in [Node -> [Name -> Account \cup {None}]]
    /\ chans \in [Node -> [Chan -> ChannelInfo \cup {None}]]
    /\ sess \in [Node -> SUBSET Name]
    /\ todo \in [Node -> Seq(CleanupStep)]

IInv ==
    /\ RP!IInv
    /\ Types
    /\ LiveEqualsReplay
    /\ SuccessorsExist

\* The four tables of a node are one store.
LEMMA StoreTyped ==
    ASSUME Types, NEW n \in Node
    PROVE  Store(n) \in StoreType
BY DEF Types, Store, StoreType

\* What releases an account's channels is a sequence of cleanup steps.
LEMMA ReleaseType ==
    ASSUME Sorts, NEW st \in StoreType, NEW a \in Name,
           NEW release \in release_founded_channels(st, a)
    PROVE  release \in Seq(CleanupStep)
<1> DEFINE owned == {c \in Registered(st.chans) : st.chans[c].founder = a}
<1>1. PICK o \in Orders(owned) : release = FlattenSeq([i \in 1..Len(o) |-> ReleaseOne(st, a, o[i])])
  BY DEF release_founded_channels
<1>2. owned \subseteq Chan /\ IsFiniteSet(owned)
  <2>1. owned \subseteq Chan
    BY DEF Registered, StoreType
  <2> QED BY <2>1, FS_Subset DEF Sorts
<1>3. o \in Seq(owned)
  <2> HIDE DEF owned
  <2> QED BY <1>2, OrderOf DEF Orders
<1>4. ASSUME NEW c \in owned PROVE ReleaseOne(st, a, c) \in Seq(CleanupStep)
  <2> DEFINE s == st.chans[c].successor
  <2>0. c \in Chan /\ st.chans[c] \in ChannelInfo
    BY <1>2 DEF Registered, StoreType
  <2>1. AppendStep(ChannelDropped(c)) \in CleanupStep
    BY <2>0 DEF AppendStep, ChannelDropped, CleanupStep, CleanupEvent, Event
  <2>2. AppendStep(ChannelSuccessorSet(c, None)) \in CleanupStep
    BY <2>0 DEF AppendStep, ChannelSuccessorSet, CleanupStep, CleanupEvent, Event
  <2>3. CASE s # None /\ s # a /\ st.accounts[s] # None
    <3>1. s \in Name
      BY <2>0, <2>3 DEF ChannelInfo
    <3>2. AppendStep(ChannelFounderSet(c, s)) \in CleanupStep
      BY <2>0, <3>1 DEF AppendStep, ChannelFounderSet, CleanupStep, CleanupEvent, Event
    <3> QED BY <2>2, <2>3, <3>2 DEF ReleaseOne
  <2>4. CASE ~(s # None /\ s # a /\ st.accounts[s] # None)
    BY <2>1, <2>4 DEF ReleaseOne
  <2> QED BY <2>3, <2>4
<1> DEFINE pieces == [i \in 1..Len(o) |-> ReleaseOne(st, a, o[i])]
<1>5. pieces \in Seq(Seq(CleanupStep))
  <2> HIDE DEF owned
  <2>1. \A i \in 1..Len(o) : o[i] \in owned
    BY <1>3
  <2>2. \A i \in 1..Len(o) : ReleaseOne(st, a, o[i]) \in Seq(CleanupStep)
    BY <1>4, <2>1
  <2> QED BY <1>3, <2>2
<1> HIDE DEF pieces
<1>6. PICK f \in [0..Len(pieces) -> Seq(CleanupStep)] : FlattenSeq(pieces) = f[Len(pieces)]
  BY <1>5, FlattenGrows
<1>7. Len(pieces) \in 0..Len(pieces)
  BY <1>5
<1> QED BY <1>1, <1>6, <1>7 DEF pieces

-----------------------------------------------------------------------------
(* What a step can do to the log and the store, which is all that the      *)
(* invariants depend on.                                                   *)

Authored(n, ev) == RP!Author(n, ev) /\ SetStore(n, apply(Store(n), ev))

Taken(m) ==
    /\ RP!Ingest(m)
    /\ RP!accept(versions[m.dst], Trust[m.dst], m.entry)
    /\ SetStore(m.dst, apply(Store(m.dst), m.entry.event))

Compacted(n) ==
    \E evs \in Snapshot(Store(n)) : RP!Compact(n, evs) /\ UNCHANGED <<accounts, chans>>

Restarted(n) == RP!Restart(n) /\ UNCHANGED <<accounts, chans>>

Quiet ==
    /\ UNCHANGED <<log, epoch, versions, accounts, chans>>
    /\ net' \subseteq net \/ \E d \in dig : RP!AnswerDigest(d)
    /\ RP!Moves

\* The checks of the commands that append.
Allowed(n, ev) ==
    /\ ev.kind = "AccountRegistered" => accounts[n][ev.name] = None /\ ev.account.home = n
    /\ ev.kind = "AccountPasswordSet" => accounts[n][ev.name] # None
    /\ ev.kind = "ChannelSuccessorSet" /\ ev.successor # None => accounts[n][ev.successor] # None
    /\ ev.kind = "AccountDropped" => todo[n] # <<>>

\* The live operation and the fold agree where the command's check holds.
LEMMA MutateIsApply ==
    ASSUME NEW st, NEW ev, ev.kind = "AccountRegistered" => st.accounts[ev.name] = None
    PROVE  Mutate(st, ev) = apply(st, ev)
<1>1. CASE ev.kind = "AccountRegistered"
  BY <1>1 DEF Mutate, apply, Claim
<1>2. CASE ev.kind # "AccountRegistered"
  BY <1>2 DEF Mutate
<1> QED BY <1>1, <1>2

\* A handler that logs an event and mutates the tables has authored it.
LEMMA WriteIsAuthored ==
    ASSUME NEW n \in Node, NEW ev \in Event, Write(n, ev), Allowed(n, ev)
    PROVE  Authored(n, ev)
<1>1. Mutate(Store(n), ev) = apply(Store(n), ev)
  BY MutateIsApply DEF Store, Allowed
<1> QED BY <1>1, SameLocal DEF Write, Authored

\* A command appends one event that its checks allow, or appends nothing.
LEMMA CommandMoves ==
    ASSUME Sorts, IInv, NEW n \in Node, Commands(n)
    PROVE  \/ \E ev \in Event : Authored(n, ev) /\ Allowed(n, ev)
           \/ Quiet
<1>0. Types
  BY DEF IInv
<1>1. ASSUME NEW a \in Name, NEW ts \in Time, NEW cred \in Cred, RegisterAccount(n, a, ts, cred)
      PROVE  \E ev \in Event : Authored(n, ev) /\ Allowed(n, ev)
  <2> DEFINE ev == AccountRegistered(a, [ts |-> ts, home |-> n, cred |-> cred])
  <2>1. ev \in Event
    BY DEF AccountRegistered, Event, GlobalEvent, Account
  <2>2. Write(n, ev) /\ Allowed(n, ev)
    BY <1>1 DEF RegisterAccount, Allowed, AccountRegistered
  <2> QED BY <2>1, <2>2, WriteIsAuthored
<1>2. ASSUME NEW a \in Name, NEW cred \in Cred, SetPassword(n, a, cred)
      PROVE  \E ev \in Event : Authored(n, ev) /\ Allowed(n, ev)
  <2> DEFINE ev == AccountPasswordSet(a, cred)
  <2>1. ev \in Event
    BY DEF AccountPasswordSet, Event, GlobalEvent
  <2>2. Write(n, ev) /\ Allowed(n, ev)
    BY <1>2 DEF SetPassword, Allowed, AccountPasswordSet
  <2> QED BY <2>1, <2>2, WriteIsAuthored
<1>3. ASSUME NEW a \in Name, Identify(n, a) \/ DropAccount(n, a) PROVE Quiet
  BY <1>3 DEF Identify, DropAccount, Quiet, RP!Moves
<1>4. ASSUME NEW c \in Chan, NEW a \in Name, RegisterChannel(n, c, a)
      PROVE  \E ev \in Event : Authored(n, ev) /\ Allowed(n, ev)
  <2> DEFINE ev == ChannelRegistered(c, a)
  <2>1. ev \in Event
    BY DEF ChannelRegistered, Event
  <2>2. Write(n, ev) /\ Allowed(n, ev)
    BY <1>4 DEF RegisterChannel, Allowed, ChannelRegistered
  <2> QED BY <2>1, <2>2, WriteIsAuthored
<1>5. ASSUME NEW c \in Chan, NEW a \in Name, SetFounder(n, c, a)
      PROVE  \E ev \in Event : Authored(n, ev) /\ Allowed(n, ev)
  <2> DEFINE ev == ChannelFounderSet(c, a)
  <2>1. ev \in Event
    BY DEF ChannelFounderSet, Event
  <2>2. Write(n, ev) /\ Allowed(n, ev)
    BY <1>5 DEF SetFounder, Allowed, ChannelFounderSet
  <2> QED BY <2>1, <2>2, WriteIsAuthored
<1>6. ASSUME NEW c \in Chan, NEW a \in Name \cup {None}, SetSuccessor(n, c, a)
      PROVE  \E ev \in Event : Authored(n, ev) /\ Allowed(n, ev)
  <2> DEFINE ev == ChannelSuccessorSet(c, a)
  <2>1. ev \in Event
    BY DEF ChannelSuccessorSet, Event
  <2>2. Write(n, ev) /\ Allowed(n, ev)
    BY <1>6 DEF SetSuccessor, Allowed, ChannelSuccessorSet
  <2> QED BY <2>1, <2>2, WriteIsAuthored
<1>7. ASSUME SetReadonly(n) PROVE Quiet
  <2>1. RP!SetReadonly(n)
    BY <1>7, SameLocal DEF SetReadonly
  <2>2. RP!Moves
    BY <2>1 DEF RP!Moves, RP!Step
  <2> QED BY <1>7, <2>1, <2>2 DEF SetReadonly, RP!SetReadonly, dbVars, Quiet
<1> QED BY <1>1, <1>2, <1>3, <1>4, <1>5, <1>6, <1>7 DEF Commands

\* So does a step of a handler that cleans up.
LEMMA ProceedMoves ==
    ASSUME Sorts, IInv, NEW n \in Node, Proceed(n)
    PROVE  \/ \E ev \in Event : Authored(n, ev) /\ Allowed(n, ev)
           \/ Quiet
<1> DEFINE step == Head(todo[n])
           ev == step.event
<1>1. todo[n] # <<>> /\ todo[n] \in Seq(CleanupStep)
  BY DEF Proceed, Idle, IInv, Types
<1>2. step \in CleanupStep
  BY <1>1
<1> HIDE DEF step
<1>3. \/ ev # None /\ Write(n, ev)
      \/ UNCHANGED <<log, epoch, versions, readonly, up, net, dig, faults, accounts, chans>>
  BY DEF Proceed, step
<1>4. CASE ev # None /\ Write(n, ev)
  <2>1. ev \in CleanupEvent
    BY <1>2, <1>4 DEF CleanupStep
  <2>2. ev \in Event /\ Allowed(n, ev)
    BY <1>1, <2>1 DEF CleanupEvent, Allowed
  <2> QED BY <1>4, <2>2, WriteIsAuthored
<1>5. CASE UNCHANGED <<log, epoch, versions, readonly, up, net, dig, faults, accounts, chans>>
  BY <1>5 DEF Quiet, RP!Moves
<1> QED BY <1>3, <1>4, <1>5

\* Every step is one of these.
LEMMA StoreMoves ==
    ASSUME Sorts, IInv, [Next]_fedVars
    PROVE  \/ \E n \in Node, ev \in Event : Authored(n, ev) /\ Allowed(n, ev)
           \/ \E m \in net : Taken(m)
           \/ \E n \in Node : Compacted(n) \/ Restarted(n)
           \/ Quiet
<1>0. Types
  BY DEF IInv
<1>1. ASSUME NEW n \in Node, Commands(n) \/ Proceed(n)
      PROVE  \/ \E ev \in Event : Authored(n, ev) /\ Allowed(n, ev)
             \/ Quiet
  BY <1>1, CommandMoves, ProceedMoves
<1>2. ASSUME NEW n \in Node, Compact(n) PROVE Compacted(n)
  BY <1>2, SameLocal DEF Compact, Compacted, dbVars
<1>3. ASSUME NEW n \in Node, Restart(n) PROVE Restarted(n)
  <2>1. Replay([i \in DOMAIN log[n] |-> log[n][i].event]) = Store(n)
    BY DEF IInv, LiveEqualsReplay
  <2>2. SetStore(n, Store(n))
    BY <1>3, <2>1 DEF Restart
  <2>3. UNCHANGED <<accounts, chans>>
    BY <1>0, <2>2 DEF SetStore, Store, Types
  <2>4. RP!Restart(n)
    BY <1>3, SameLocal DEF Restart
  <2> QED BY <2>3, <2>4 DEF Restarted
<1>4. ASSUME NEW m \in net, gossip_ingest(m) PROVE Taken(m) \/ Quiet
  <2>1. RP!Ingest(m)
    BY <1>4, SameGossip DEF gossip_ingest
  <2>2. CASE R!accept(versions[m.dst], Trust[m.dst], m.entry)
    <3>1. SetStore(m.dst, apply(Store(m.dst), m.entry.event))
      BY <1>4, <2>2 DEF gossip_ingest
    <3> QED BY <2>1, <2>2, <3>1, SameGossip DEF Taken
  <2>3. CASE ~R!accept(versions[m.dst], Trust[m.dst], m.entry)
    <3>1. UNCHANGED <<accounts, chans>>
      BY <1>4, <2>3 DEF gossip_ingest, dbVars
    <3>2. ~RP!accept(versions[m.dst], Trust[m.dst], m.entry)
      BY <2>3, SameGossip
    <3>3. UNCHANGED <<log, epoch, versions>> /\ net' \subseteq net
      BY <2>1, <3>2 DEF RP!Ingest
    <3>4. RP!Moves
      BY <2>1 DEF RP!Moves, RP!Step, RP!Gossip
    <3> QED BY <3>1, <3>3, <3>4 DEF Quiet
  <2> QED BY <2>2, <2>3
<1>5. ASSUME Sessions PROVE Quiet
  <2>1. UNCHANGED <<accounts, chans>>
    BY <1>5 DEF Sessions, dbVars
  <2>2. ASSUME NEW l \in Links, R!Connect(l) \/ R!Disconnect(l)
        PROVE  UNCHANGED <<log, epoch, versions>> /\ net' \subseteq net /\ RP!Moves
    <3>1. RP!Connect(l) \/ RP!Disconnect(l)
      BY <2>2, SameGossip
    <3>2. RP!Moves
      BY <3>1 DEF RP!Moves, RP!Step, RP!Gossip
    <3> QED BY <3>1, <3>2 DEF RP!Connect, RP!Disconnect, RP!Surviving
  <2>3. ASSUME NEW n \in Node, NEW p \in Node, R!SendDigest(n, p)
        PROVE  UNCHANGED <<log, epoch, versions>> /\ net' \subseteq net /\ RP!Moves
    <3>1. RP!SendDigest(n, p)
      BY <2>3, SameGossip
    <3>2. RP!Moves
      BY <3>1 DEF RP!Moves, RP!Step, RP!Gossip
    <3> QED BY <3>1, <3>2 DEF RP!SendDigest
  <2>4. ASSUME NEW d \in dig, R!AnswerDigest(d)
        PROVE  UNCHANGED <<log, epoch, versions>> /\ RP!AnswerDigest(d) /\ RP!Moves
    <3>1. RP!AnswerDigest(d)
      BY <2>4, SameGossip
    <3>2. RP!Moves
      BY <3>1 DEF RP!Moves, RP!Step, RP!Gossip
    <3> QED BY <3>1, <3>2 DEF RP!AnswerDigest
  <2>5. ASSUME NEW m \in net, R!Lag(m) \/ R!IngestFails(m)
        PROVE  UNCHANGED <<log, epoch, versions>> /\ net' \subseteq net /\ RP!Moves
    <3>1. RP!Lag(m) \/ RP!IngestFails(m)
      BY <2>5, SameGossip
    <3>2. RP!Moves
      BY <3>1 DEF RP!Moves, RP!Step, RP!Gossip
    <3> QED BY <3>1, <3>2 DEF RP!Lag, RP!IngestFails
  <2> QED BY <1>5, <2>1, <2>2, <2>3, <2>4, <2>5 DEF Sessions, Quiet
<1>6. CASE UNCHANGED fedVars
  BY <1>6 DEF fedVars, Quiet, RP!Moves
<1> QED BY <1>1, <1>2, <1>3, <1>4, <1>5, <1>6 DEF Next

-----------------------------------------------------------------------------
(* The invariant, conjunct by conjunct.                                    *)

\* What a step does to the log, Replication does: its invariant is kept.
LEMMA LogStep ==
    ASSUME Sorts, IInv, [Next]_fedVars
    PROVE  RP!IInv'
<1>0. ops \in Nat
  BY DEF IInv, RP!IInv, RP!TypeOK
<1>1. ops' = ops \/ ops' = ops + 1
  <2>1. ASSUME NEW n \in Node, Commands(n) \/ Proceed(n) \/ Compact(n)
        PROVE  ops' = ops \/ ops' = ops + 1
    BY <2>1 DEF Commands, Proceed, Compact, Command, R!Spend, RegisterAccount, SetPassword, Identify,
                DropAccount, RegisterChannel, SetFounder, SetSuccessor, SetReadonly
  <2>2. ASSUME NEW n \in Node, Restart(n) PROVE ops' = ops
    BY <2>2 DEF Restart, R!Restart
  <2>3. ASSUME NEW m \in net, gossip_ingest(m) PROVE ops' = ops
    BY <2>3 DEF gossip_ingest, R!Ingest
  <2>4. ASSUME Sessions PROVE ops' = ops
    BY <2>4 DEF Sessions, R!Connect, R!Disconnect, R!SendDigest, R!AnswerDigest, R!Lag, R!IngestFails
  <2>5. CASE UNCHANGED fedVars
    BY <2>5 DEF fedVars
  <2> QED BY <2>1, <2>2, <2>3, <2>4, <2>5 DEF Next
<1>2. ASSUME NEW n \in Node, NEW ev \in Event, Authored(n, ev) PROVE RP!Moves
  BY <1>2 DEF Authored, RP!Moves, RP!Step
<1>3. ASSUME NEW m \in net, Taken(m) PROVE RP!Moves
  BY <1>3 DEF Taken, RP!Moves, RP!Step, RP!Gossip
<1>4. ASSUME NEW n \in Node, Compacted(n) PROVE RP!Moves
  <2>1. PICK evs \in Snapshot(Store(n)) : RP!Compact(n, evs)
    BY <1>4 DEF Compacted
  <2>2. evs \in Seq(Event)
    BY StoreTyped, ReplaySnapshot DEF IInv
  <2> QED BY <2>1, <2>2 DEF RP!Moves, RP!Step
<1>5. ASSUME NEW n \in Node, Restarted(n) PROVE RP!Moves
  BY <1>5 DEF Restarted, RP!Moves, RP!Step
<1>6. RP!Moves
  BY <1>2, <1>3, <1>4, <1>5, StoreMoves DEF Quiet
<1>7. ops' \in Nat
  BY <1>0, <1>1
<1> QED BY <1>6, <1>7, Assumed, RP!StepInv DEF IInv

\* Whoever appends an event folds it into the store.
LEMMA FoldIn ==
    ASSUME Sorts, Types, LiveEqualsReplay, log \in [Node -> Seq(RP!LogEntry)],
           NEW n \in Node, NEW e \in RP!LogEntry,
           log' = [log EXCEPT ![n] = @ \o <<e>>],
           SetStore(n, apply(Store(n), e.event))
    PROVE  /\ LiveEqualsReplay'
           /\ accounts' \in [Node -> [Name -> Account \cup {None}]]
           /\ chans' \in [Node -> [Chan -> ChannelInfo \cup {None}]]
<1> DEFINE Evs(lg) == [i \in DOMAIN lg |-> lg[i].event]
           st == apply(Store(n), e.event)
<1>1. e.event \in Event
  BY DEF RP!LogEntry
<1>2. Store(n) \in StoreType /\ st \in StoreType
  BY <1>1, StoreTyped, ApplyType
<1>3. /\ accounts' = [accounts EXCEPT ![n] = st.accounts]
      /\ chans' = [chans EXCEPT ![n] = st.chans]
  BY DEF SetStore
<1>4. st = [accounts |-> st.accounts, chans |-> st.chans]
  BY <1>2 DEF StoreType
<1> HIDE DEF st
<1>5. /\ accounts' \in [Node -> [Name -> Account \cup {None}]]
      /\ chans' \in [Node -> [Chan -> ChannelInfo \cup {None}]]
  BY <1>2, <1>3 DEF Types, StoreType
<1>6. ASSUME NEW m \in Node, m # n
      PROVE  [accounts |-> accounts'[m], chans |-> chans'[m]] = Replay(Evs(log'[m]))
  <2>1. accounts'[m] = accounts[m] /\ chans'[m] = chans[m] /\ log'[m] = log[m]
    BY <1>3, <1>6 DEF Types
  <2> QED BY <2>1 DEF LiveEqualsReplay, Store
<1>7. [accounts |-> accounts'[n], chans |-> chans'[n]] = Replay(Evs(log'[n]))
  <2> DEFINE evs == Evs(log[n])
  <2>1. log[n] \in Seq(RP!LogEntry)
    OBVIOUS
  <2>2. evs \in Seq(Event)
    <3>1. \A i \in DOMAIN log[n] : log[n][i] \in RP!LogEntry
      BY <2>1
    <3>2. \A i \in DOMAIN log[n] : log[n][i].event \in Event
      BY <3>1 DEF RP!LogEntry
    <3> QED BY <2>1, <3>2
  <2>3. Evs(log'[n]) = evs \o <<e.event>>
    <3>1. log'[n] = log[n] \o <<e>>
      OBVIOUS
    <3> QED BY <2>1, <3>1
  <2>4. Replay(evs) = Store(n)
    BY DEF LiveEqualsReplay
  <2> HIDE DEF evs
  <2>5. ReplayFrom(Fresh, evs \o <<e.event>>) = apply(ReplayFrom(Fresh, evs), e.event)
    BY <1>1, <2>2, FreshType, ReplayAppend
  <2>6. Replay(evs \o <<e.event>>) = st
    BY <2>4, <2>5 DEF Replay, ReplayFrom, st
  <2>7. accounts'[n] = st.accounts /\ chans'[n] = st.chans
    BY <1>3 DEF Types
  <2> QED BY <1>4, <2>3, <2>6, <2>7
<1> QED BY <1>5, <1>6, <1>7 DEF LiveEqualsReplay, Store

\* The log entry that an authored event becomes.
LEMMA AuthoredEntry ==
    ASSUME Sorts, IInv, NEW n \in Node, NEW ev \in Event, RP!Author(n, ev)
    PROVE  LET e == RP!Stamp(n, versions[n], epoch[n], ev)
           IN  /\ e \in RP!LogEntry /\ e.event = ev /\ e.origin = n
               /\ log' = [log EXCEPT ![n] = @ \o <<e>>]
<1>1. versions[n] \in RP!VersionVector /\ epoch[n] \in Nat
  BY DEF IInv, RP!IInv, RP!TypeOK
<1>2. RP!Stamp(n, versions[n], epoch[n], ev) \in RP!LogEntry
  BY <1>1, Assumed, RP!StampType
<1>3. RP!Stamp(n, versions[n], epoch[n], ev).event = ev /\ RP!Stamp(n, versions[n], epoch[n], ev).origin = n
  BY DEF RP!Stamp
<1> QED BY <1>2, <1>3 DEF RP!Author

\* The entry that an ingestion takes.
LEMMA TakenEntry ==
    ASSUME Sorts, IInv, NEW m \in net, Taken(m)
    PROVE  /\ m.dst \in Node /\ m.entry \in RP!LogEntry /\ m.entry.event \in GlobalEvent
           /\ log' = [log EXCEPT ![m.dst] = @ \o <<m.entry>>]
           /\ SetStore(m.dst, apply(Store(m.dst), m.entry.event))
<1>1. m \in RP!EntryMsg
  BY DEF IInv, RP!IInv, RP!TypeOK
<1>2. m.dst \in Node /\ m.entry \in RP!LogEntry
  BY <1>1 DEF RP!EntryMsg
<1>3. m.entry.event \in GlobalEvent
  BY DEF Taken, RP!accept, RP!Global
<1> QED BY <1>2, <1>3 DEF Taken, RP!Ingest

\* The store in memory stays what its log replays to.
LEMMA StoreStep ==
    ASSUME Sorts, IInv, [Next]_fedVars
    PROVE  /\ LiveEqualsReplay'
           /\ accounts' \in [Node -> [Name -> Account \cup {None}]]
           /\ chans' \in [Node -> [Chan -> ChannelInfo \cup {None}]]
<1>0. Types /\ LiveEqualsReplay /\ log \in [Node -> Seq(RP!LogEntry)]
  BY DEF IInv, RP!IInv, RP!TypeOK
<1>1. ASSUME NEW n \in Node, NEW ev \in Event, Authored(n, ev)
      PROVE  /\ LiveEqualsReplay'
             /\ accounts' \in [Node -> [Name -> Account \cup {None}]]
             /\ chans' \in [Node -> [Chan -> ChannelInfo \cup {None}]]
  <2> DEFINE e == RP!Stamp(n, versions[n], epoch[n], ev)
  <2>1. RP!Author(n, ev) /\ SetStore(n, apply(Store(n), ev))
    BY <1>1 DEF Authored
  <2>2. e \in RP!LogEntry /\ e.event = ev /\ log' = [log EXCEPT ![n] = @ \o <<e>>]
    BY <2>1, AuthoredEntry
  <2> HIDE DEF e
  <2> QED BY <1>0, <2>1, <2>2, FoldIn
<1>2. ASSUME NEW m \in net, Taken(m)
      PROVE  /\ LiveEqualsReplay'
             /\ accounts' \in [Node -> [Name -> Account \cup {None}]]
             /\ chans' \in [Node -> [Chan -> ChannelInfo \cup {None}]]
  BY <1>0, <1>2, TakenEntry, FoldIn
<1>3. ASSUME NEW n \in Node, Compacted(n) PROVE LiveEqualsReplay' /\ UNCHANGED <<accounts, chans>>
  <2>1. PICK evs \in Snapshot(Store(n)) : RP!Compact(n, evs) /\ UNCHANGED <<accounts, chans>>
    BY <1>3 DEF Compacted
  <2>2. evs \in Seq(Event) /\ Replay(evs) = Store(n)
    BY <1>0, StoreTyped, ReplaySnapshot
  <2> DEFINE cl == RP!CompactedLog(n, epoch[n] + 1, evs)
  <2>3. log' = [log EXCEPT ![n] = cl]
    BY <2>1 DEF RP!Compact
  <2>4. DOMAIN cl = 1..Len(evs) /\ \A i \in 1..Len(evs) : cl[i].event = evs[i]
    BY DEF RP!CompactedLog
  <2> HIDE DEF cl
  <2>5. [i \in DOMAIN cl |-> cl[i].event] = evs
    BY <2>2, <2>4
  <2>6. ASSUME NEW m \in Node
        PROVE  Store(m)' = Replay([i \in DOMAIN log'[m] |-> log'[m][i].event])
    <3>1. Store(m)' = Store(m)
      BY <2>1 DEF Store
    <3>2. CASE m = n
      BY <1>0, <2>2, <2>3, <2>5, <3>1, <3>2
    <3>3. CASE m # n
      <4>1. log'[m] = log[m]
        BY <2>3, <3>3
      <4> QED BY <1>0, <3>1, <4>1 DEF LiveEqualsReplay
    <3> QED BY <3>2, <3>3
  <2> QED BY <2>1, <2>6 DEF LiveEqualsReplay
<1>4. ASSUME UNCHANGED <<log, accounts, chans>> PROVE LiveEqualsReplay'
  BY <1>0, <1>4 DEF LiveEqualsReplay, Store
<1>5. ASSUME (\E n \in Node : Restarted(n)) \/ Quiet PROVE UNCHANGED <<log, accounts, chans>>
  BY <1>5 DEF Restarted, RP!Restart, Quiet
<1> QED BY <1>0, <1>1, <1>2, <1>3, <1>4, <1>5, StoreMoves DEF Types

\* No successor is gone in a store.
SuccessorsIn(st) ==
    \A c \in Registered(st.chans) :
        st.chans[c].successor # None => st.accounts[st.chans[c].successor] # None

\* Nor after an event, unless it sets one that is.
LEMMA ApplySuccessors ==
    ASSUME Sorts, NEW st \in StoreType, NEW ev \in Event, SuccessorsIn(st),
           ev.kind = "ChannelSuccessorSet" /\ ev.successor # None => st.accounts[ev.successor] # None
    PROVE  SuccessorsIn(apply(st, ev))
<1> DEFINE new == apply(st, ev)
<1>0. /\ st.accounts \in [Name -> Account \cup {None}]
      /\ st.chans \in [Chan -> ChannelInfo \cup {None}]
      /\ new.chans \in [Chan -> ChannelInfo \cup {None}]
  BY ApplyType DEF StoreType
<1>1. SUFFICES ASSUME NEW c \in Chan, new.chans[c] # None, new.chans[c].successor # None
               PROVE  new.accounts[new.chans[c].successor] # None
  BY <1>0 DEF SuccessorsIn, Registered
<1> DEFINE old == st.chans[c]
<1>2. old # None /\ old.successor # None => old.successor \in Name /\ st.accounts[old.successor] # None
  BY <1>0 DEF SuccessorsIn, Registered, ChannelInfo
<1>3. CASE ev.kind = "AccountRegistered" /\ ev.name \in Name /\ ev.account \in Account
  <2>1. new.accounts = [st.accounts EXCEPT ![ev.name] = Claim(@, ev.account)] /\ new.chans = st.chans
    BY <1>3 DEF apply, StoreType
  <2>2. Claim(st.accounts[ev.name], ev.account) # None
    BY <1>3 DEF Claim, Sorts
  <2> QED BY <1>0, <1>1, <1>2, <1>3, <2>1, <2>2
<1>4. CASE ev.kind = "AccountPasswordSet" /\ ev.name \in Name /\ ev.cred \in Cred
  <2>1. CASE st.accounts[ev.name] = None
    BY <1>1, <1>2, <1>4, <2>1 DEF apply
  <2>2. CASE st.accounts[ev.name] # None
    <3>1. /\ new.accounts = [st.accounts EXCEPT ![ev.name] = [st.accounts[ev.name] EXCEPT !.cred = ev.cred]]
          /\ new.chans = st.chans
      BY <1>4, <2>2 DEF apply, StoreType
    <3>2. st.accounts[ev.name] \in Account
      BY <1>0, <1>4, <2>2
    <3>3. [st.accounts[ev.name] EXCEPT !.cred = ev.cred] \in Account
      BY <1>4, <3>2 DEF Account
    <3>4. [st.accounts[ev.name] EXCEPT !.cred = ev.cred] # None
      BY <3>3 DEF Sorts
    <3> QED BY <1>0, <1>1, <1>2, <1>4, <3>1, <3>4
  <2> QED BY <2>1, <2>2
<1>5. CASE ev.kind = "AccountDropped" /\ ev.name \in Name
  <2>1. /\ new.accounts = [st.accounts EXCEPT ![ev.name] = None]
        /\ new.chans = purge_account_refs(st.chans, ev.name)
    BY <1>5 DEF apply
  <2>2. new.chans[c] = IF old # None /\ old.successor = ev.name
                       THEN [old EXCEPT !.successor = None] ELSE old
    BY <1>0, <2>1 DEF purge_account_refs
  <2>3. CASE old # None /\ old.successor = ev.name
    <3>1. old \in ChannelInfo
      BY <1>0, <2>3
    <3>2. new.chans[c].successor = None
      BY <2>2, <2>3, <3>1 DEF ChannelInfo
    <3> QED BY <1>1, <3>2
  <2>4. CASE ~(old # None /\ old.successor = ev.name)
    <3>1. new.chans[c] = old /\ old # None /\ old.successor # ev.name
      BY <1>1, <2>2, <2>4
    <3> QED BY <1>0, <1>1, <1>2, <2>1, <3>1
  <2> QED BY <2>3, <2>4
<1>6. CASE ev.kind \in {"ChannelRegistered", "ChannelFounderSet"} /\ ev.chan \in Chan
           /\ ev.founder \in Name
  <2>1. CASE ev.kind = "ChannelRegistered"
    <3>1. /\ new.accounts = st.accounts
          /\ new.chans = [st.chans EXCEPT ![ev.chan] = [founder |-> ev.founder, successor |-> None]]
      BY <2>1 DEF apply, StoreType
    <3> QED BY <1>0, <1>1, <1>2, <1>6, <3>1
  <2>2. CASE ev.kind = "ChannelFounderSet" /\ st.chans[ev.chan] = None
    BY <1>1, <1>2, <2>2 DEF apply, UpdateChan
  <2>3. CASE ev.kind = "ChannelFounderSet" /\ st.chans[ev.chan] # None
    <3>1. /\ new.accounts = st.accounts
          /\ new.chans = [st.chans EXCEPT ![ev.chan] = [st.chans[ev.chan] EXCEPT !.founder = ev.founder]]
      BY <2>3 DEF apply, UpdateChan, StoreType
    <3>2. st.chans[ev.chan] \in ChannelInfo
      BY <1>0, <1>6, <2>3
    <3>3. [st.chans[ev.chan] EXCEPT !.founder = ev.founder].successor = st.chans[ev.chan].successor
      BY <3>2 DEF ChannelInfo
    <3>4. new.chans[c].successor = old.successor /\ old # None
      <4>1. CASE c = ev.chan
        BY <1>0, <2>3, <3>1, <3>3, <4>1
      <4>2. CASE c # ev.chan
        BY <1>0, <1>1, <3>1, <4>2
      <4> QED BY <4>1, <4>2
    <3> QED BY <1>1, <1>2, <3>1, <3>4
  <2> QED BY <1>6, <2>1, <2>2, <2>3
<1>7. CASE ev.kind = "ChannelSuccessorSet" /\ ev.chan \in Chan /\ ev.successor \in Name \cup {None}
  <2>1. CASE st.chans[ev.chan] = None
    BY <1>1, <1>2, <1>7, <2>1 DEF apply, UpdateChan
  <2>2. CASE st.chans[ev.chan] # None
    <3>1. /\ new.accounts = st.accounts
          /\ new.chans = [st.chans EXCEPT ![ev.chan] = [st.chans[ev.chan] EXCEPT !.successor = ev.successor]]
      BY <1>7, <2>2 DEF apply, UpdateChan, StoreType
    <3>2. st.chans[ev.chan] \in ChannelInfo
      BY <1>0, <1>7, <2>2
    <3>3. [st.chans[ev.chan] EXCEPT !.successor = ev.successor].successor = ev.successor
      BY <3>2 DEF ChannelInfo
    <3>4. CASE c = ev.chan
      <4>1. new.chans[c].successor = ev.successor
        BY <1>0, <3>1, <3>3, <3>4
      <4> QED BY <1>1, <1>7, <3>1, <4>1
    <3>5. CASE c # ev.chan
      BY <1>0, <1>1, <1>2, <3>1, <3>5
    <3> QED BY <3>4, <3>5
  <2> QED BY <2>1, <2>2
<1>8. CASE ev.kind = "ChannelDropped" /\ ev.chan \in Chan
  <2>1. new.accounts = st.accounts /\ new.chans = [st.chans EXCEPT ![ev.chan] = None]
    BY <1>8 DEF apply, StoreType
  <2> QED BY <1>0, <1>1, <1>2, <2>1
<1> QED BY <1>3, <1>4, <1>5, <1>6, <1>7, <1>8, EventKinds

\* Committing an event that its checks allow leaves no successor behind.
LEMMA SuccessorsStep ==
    ASSUME Sorts, IInv, [Next]_fedVars
    PROVE  SuccessorsExist'
<1>0. Types /\ SuccessorsExist
  BY DEF IInv
<1>1. ASSUME NEW n \in Node, NEW ev \in Event, SetStore(n, apply(Store(n), ev)),
             ev.kind = "ChannelSuccessorSet" /\ ev.successor # None => accounts[n][ev.successor] # None
      PROVE  SuccessorsExist'
  <2> DEFINE st == apply(Store(n), ev)
  <2>1. Store(n) \in StoreType /\ SuccessorsIn(Store(n))
    BY <1>0, StoreTyped DEF SuccessorsExist, SuccessorsIn, Store
  <2>2. ev.kind = "ChannelSuccessorSet" /\ ev.successor # None => Store(n).accounts[ev.successor] # None
    BY <1>1 DEF Store
  <2>3. SuccessorsIn(st)
    BY <2>1, <2>2, ApplySuccessors
  <2>4. accounts' = [accounts EXCEPT ![n] = st.accounts] /\ chans' = [chans EXCEPT ![n] = st.chans]
    BY <1>1 DEF SetStore
  <2> HIDE DEF st
  <2>5. \A m \in Node : m # n => accounts'[m] = accounts[m] /\ chans'[m] = chans[m]
    BY <1>0, <2>4 DEF Types
  <2>6. accounts'[n] = st.accounts /\ chans'[n] = st.chans
    BY <1>0, <2>4 DEF Types
  <2>7. ASSUME NEW m \in Node, NEW c \in Registered(chans'[m]), chans'[m][c].successor # None
        PROVE  accounts'[m][chans'[m][c].successor] # None
    <3>1. CASE m = n
      BY <2>3, <2>6, <2>7, <3>1 DEF SuccessorsIn
    <3>2. CASE m # n
      BY <1>0, <2>5, <2>7, <3>2 DEF SuccessorsExist
    <3> QED BY <3>1, <3>2
  <2> QED BY <2>7 DEF SuccessorsExist
<1>2. ASSUME NEW n \in Node, NEW ev \in Event, Authored(n, ev), Allowed(n, ev)
      PROVE  SuccessorsExist'
  BY <1>1, <1>2 DEF Authored, Allowed
<1>3. ASSUME NEW m \in net, Taken(m) PROVE SuccessorsExist'
  <2>1. m.dst \in Node /\ m.entry.event \in GlobalEvent /\ SetStore(m.dst, apply(Store(m.dst), m.entry.event))
    BY <1>3, TakenEntry
  <2>2. m.entry.event \in Event /\ m.entry.event.kind # "ChannelSuccessorSet"
    BY <2>1 DEF Event, GlobalEvent
  <2> QED BY <1>1, <2>1, <2>2
<1>4. ASSUME UNCHANGED <<accounts, chans>> PROVE SuccessorsExist'
  BY <1>0, <1>4 DEF SuccessorsExist
<1>5. ASSUME (\E n \in Node : Compacted(n) \/ Restarted(n)) \/ Quiet
      PROVE  UNCHANGED <<accounts, chans>>
  BY <1>5 DEF Compacted, Restarted, Quiet
<1> QED BY <1>2, <1>3, <1>4, <1>5, StoreMoves

\* Sessions stay sets of names, and a handler's remaining steps cleanup steps.
LEMMA HandlerTypes ==
    ASSUME Sorts, IInv, [Next]_fedVars
    PROVE  sess' \in [Node -> SUBSET Name] /\ todo' \in [Node -> Seq(CleanupStep)]
<1> DEFINE Goal == sess' \in [Node -> SUBSET Name] /\ todo' \in [Node -> Seq(CleanupStep)]
<1>0. Types
  BY DEF IInv
<1>1. ASSUME NEW n \in Node, NEW a \in Name,
             sess' = [sess EXCEPT ![n] = @ \cup {a}] \/ sess' = [sess EXCEPT ![n] = @ \ {a}]
      PROVE  sess' \in [Node -> SUBSET Name]
  <2>1. sess \in [Node -> SUBSET Name] /\ sess[n] \in SUBSET Name
    BY <1>0 DEF Types
  <2>2. sess[n] \cup {a} \in SUBSET Name /\ sess[n] \ {a} \in SUBSET Name
    BY <2>1
  <2> QED BY <1>1, <2>1, <2>2
<1>2. ASSUME NEW n \in Node, NEW steps \in Seq(CleanupStep), todo' = [todo EXCEPT ![n] = steps]
      PROVE  todo' \in [Node -> Seq(CleanupStep)]
  <2>1. todo \in [Node -> Seq(CleanupStep)]
    BY <1>0 DEF Types
  <2> QED BY <1>2, <2>1
<1>3. \A a \in Name : LogoutStep(a) \in CleanupStep
  BY DEF LogoutStep, CleanupStep
<1>4. ASSUME NEW n \in Node, Commands(n) PROVE Goal
  <2>1. ASSUME NEW a \in Name, DropAccount(n, a) PROVE Goal
    <3>1. PICK release \in release_founded_channels(Store(n), a) :
             todo' = [todo EXCEPT ![n] = release \o <<AppendStep(AccountDropped(a)), LogoutStep(a)>>]
      BY <2>1 DEF DropAccount
    <3>2. release \in Seq(CleanupStep)
      BY <1>0, StoreTyped, ReleaseType
    <3>3. AppendStep(AccountDropped(a)) \in CleanupStep
      BY DEF AppendStep, AccountDropped, CleanupStep, CleanupEvent, Event, GlobalEvent
    <3>4. release \o <<AppendStep(AccountDropped(a)), LogoutStep(a)>> \in Seq(CleanupStep)
      BY <1>3, <3>2, <3>3
    <3>5. sess' = sess
      BY <2>1 DEF DropAccount
    <3> QED BY <1>0, <1>2, <3>1, <3>4, <3>5 DEF Types
  <2>2. ASSUME ~\E a \in Name : DropAccount(n, a)
        PROVE  /\ UNCHANGED todo
               /\ UNCHANGED sess \/ \E a \in Name : sess' = [sess EXCEPT ![n] = @ \cup {a}]
    BY <1>4, <2>2 DEF Commands, RegisterAccount, SetPassword, Identify, RegisterChannel, SetFounder,
                SetSuccessor, SetReadonly, dbVars
  <2> QED BY <1>0, <1>1, <2>1, <2>2 DEF Types
<1>5. ASSUME NEW n \in Node, Proceed(n) PROVE Goal
  <2>1. todo[n] # <<>> /\ todo[n] \in Seq(CleanupStep)
    BY <1>0, <1>5 DEF Proceed, Idle, Types
  <2>2. Tail(todo[n]) \in Seq(CleanupStep) /\ Head(todo[n]) \in CleanupStep
    BY <2>1
  <2>3. todo' = [todo EXCEPT ![n] = Tail(todo[n])]
    BY <1>5 DEF Proceed
  <2>4. todo' \in [Node -> Seq(CleanupStep)]
    BY <1>2, <2>2, <2>3
  <2> DEFINE a == Head(todo[n]).logout
  <2>5. UNCHANGED sess \/ (a # None /\ sess' = [sess EXCEPT ![n] = @ \ {a}])
    BY <1>5 DEF Proceed
  <2>6. a \in Name \cup {None}
    BY <2>2 DEF CleanupStep
  <2> HIDE DEF a
  <2> QED BY <1>0, <1>1, <2>4, <2>5, <2>6 DEF Types
<1>6. ASSUME NEW n \in Node, Compact(n) \/ Restart(n) PROVE Goal
  <2>1. UNCHANGED sess
    BY <1>6 DEF Compact, Restart, dbVars
  <2>2. UNCHANGED todo \/ todo' = [todo EXCEPT ![n] = <<>>]
    BY <1>6 DEF Compact, Restart, dbVars
  <2>3. <<>> \in Seq(CleanupStep)
    OBVIOUS
  <2> QED BY <1>0, <1>2, <2>1, <2>2, <2>3 DEF Types
<1>7. ASSUME NEW m \in net, gossip_ingest(m) PROVE Goal
  <2>1. CASE ~(R!accept(versions[m.dst], Trust[m.dst], m.entry) /\ Watched(m.entry.event))
    <3>1. UNCHANGED <<sess, todo>>
      BY <1>7, <2>1 DEF gossip_ingest, dbVars
    <3> QED BY <1>0, <3>1 DEF Types
  <2>2. CASE R!accept(versions[m.dst], Trust[m.dst], m.entry) /\ Watched(m.entry.event)
    <3> DEFINE n == m.dst
               ev == m.entry.event
               st == apply(Store(n), ev)
               a == ev.name
               held == accounts[n][a]
    <3>1. Taken(m)
      BY <1>7, <2>2, SameGossip DEF gossip_ingest, Taken
    <3>2. n \in Node /\ ev \in Event /\ a \in Name
      <4>1. n \in Node /\ ev \in GlobalEvent
        BY <3>1, TakenEntry
      <4>2. ev \in Event /\ (Watched(ev) => a \in Name)
        BY <4>1 DEF Event, GlobalEvent, Watched
      <4> QED BY <2>2, <4>1, <4>2
    <3>3. st \in StoreType
      BY <1>0, <3>2, StoreTyped, ApplyType
    <3>4. handle_account_gone(n, a, held, st)
      BY <1>7, <2>2 DEF gossip_ingest
    <3> HIDE DEF st, held, a, n
    <3>5. CASE held # None /\ st.accounts[a] = None
      <4>1. PICK release \in release_founded_channels(st, a) :
               todo' = [todo EXCEPT ![n] = release \o <<LogoutStep(a)>>]
        BY <3>4, <3>5 DEF handle_account_gone
      <4>2. release \in Seq(CleanupStep)
        BY <3>2, <3>3, ReleaseType
      <4>3. release \o <<LogoutStep(a)>> \in Seq(CleanupStep)
        BY <1>3, <3>2, <4>2
      <4>4. UNCHANGED sess
        BY <3>4, <3>5 DEF handle_account_gone
      <4> QED BY <1>0, <1>2, <3>2, <4>1, <4>3, <4>4 DEF Types
    <3>6. CASE ~(held # None /\ st.accounts[a] = None)
      <4>1. UNCHANGED todo /\ (UNCHANGED sess \/ sess' = [sess EXCEPT ![n] = @ \ {a}])
        BY <3>4, <3>6 DEF handle_account_gone
      <4> QED BY <1>0, <1>1, <3>2, <4>1 DEF Types
    <3> QED BY <3>5, <3>6
  <2> QED BY <2>1, <2>2
<1>8. ASSUME Sessions PROVE Goal
  BY <1>0, <1>8 DEF Sessions, dbVars, Types
<1>9. CASE UNCHANGED fedVars
  BY <1>0, <1>9 DEF fedVars, Types
<1> QED BY <1>4, <1>5, <1>6, <1>7, <1>8, <1>9 DEF Next

-----------------------------------------------------------------------------
(* The theorems that hold with every operation and every fault.            *)

\* An empty log replays to the empty store.
LEMMA InitIInv == ASSUME Sorts PROVE Init => IInv
<1> SUFFICES ASSUME Init PROVE IInv
  OBVIOUS
<1>1. RP!IInv
  <2>1. RP!Init
    BY DEF Init, R!Init, RP!Init, R!NoVersions, RP!NoVersions
  <2> QED BY <2>1, Assumed, RP!InitInv
<1>2. Types
  BY FreshType DEF Init, Types, StoreType
<1>3. ASSUME NEW n \in Node PROVE Store(n) = Replay([i \in DOMAIN log[n] |-> log[n][i].event])
  <2>1. log[n] = <<>>
    BY DEF Init, R!Init
  <2>2. [i \in DOMAIN log[n] |-> log[n][i].event] = <<>>
    BY <2>1
  <2>3. <<>> \in Seq(Event)
    OBVIOUS
  <2>4. Replay(<<>>) = Fresh
    BY <2>3, FreshType, ReplayType DEF Replay, ReplayFrom
  <2>5. Store(n) = Fresh
    BY DEF Init, Store, Fresh
  <2> QED BY <2>2, <2>4, <2>5
<1>4. SuccessorsExist
  BY DEF Init, SuccessorsExist, Registered, Fresh
<1> QED BY <1>1, <1>2, <1>3, <1>4 DEF IInv, LiveEqualsReplay

\* Every step keeps the log, the types, the replay and the successors.
LEMMA NextIInv == ASSUME Sorts PROVE IInv /\ [Next]_fedVars => IInv'
<1> SUFFICES ASSUME IInv, [Next]_fedVars PROVE IInv'
  OBVIOUS
<1>1. RP!IInv'
  BY LogStep
<1>2. LiveEqualsReplay' /\ Types'
  BY StoreStep, HandlerTypes DEF Types
<1>3. SuccessorsExist'
  BY SuccessorsStep
<1> QED BY <1>1, <1>2, <1>3 DEF IInv

\* A step of a behaviour is one of Next, which never touches sites.
LEMMA StepsAre == [Next /\ UNCHANGED sites]_vars => [Next]_fedVars /\ UNCHANGED sites
  BY DEF vars

\* The store keeps its types, whatever a handler has left to do.
THEOREM TypeCorrect == ASSUME Sorts PROVE Spec => []TypeOK
<1>1. IInv => TypeOK
  <2> SUFFICES ASSUME IInv PROVE TypeOK
    OBVIOUS
  <2>1. \A n \in Node : \A i \in DOMAIN todo[n] : todo[n][i] \in CleanupStep
    BY DEF IInv, Types
  <2>2. \A x \in CleanupStep : x.event \in Event \cup {None}
    BY DEF CleanupStep, CleanupEvent
  <2> QED BY <2>1, <2>2 DEF IInv, Types, TypeOK
<1> QED BY <1>1, InitIInv, NextIInv, StepsAre, PTL DEF Spec

\* What is in memory is at every moment what `open` would rebuild from the log,
\* through appends, gossip, compactions, crashes and lockdowns (event.rs, apply).
THEOREM LiveIsReplay == ASSUME Sorts PROVE Spec => []LiveEqualsReplay
<1>1. IInv => LiveEqualsReplay
  BY DEF IInv
<1> QED BY <1>1, InitIInv, NextIInv, StepsAre, PTL DEF Spec

\* No channel keeps a successor that is gone, not even while a handler runs or
\* after a crash in the middle of one (event.rs, purge_account_refs).
THEOREM NoSuccessorIsGone == ASSUME Sorts PROVE Spec => []SuccessorsExist
<1>1. IInv => SuccessorsExist
  BY DEF IInv
<1> QED BY <1>1, InitIInv, NextIInv, StepsAre, PTL DEF Spec

-----------------------------------------------------------------------------
(* Nothing dangles: what a handler has left to clean up.                   *)

Held(n, a) == accounts[n][a] # None

Founder(n, c) == IF chans[n][c] = None THEN None ELSE chans[n][c].founder

\* A node where no handler runs: every founder and every session is somebody.
Settled(n) ==
    /\ \A c \in Chan : Founder(n, c) # None => Held(n, Founder(n, c))
    /\ \A a \in sess[n] : Held(n, a)

\* An event that takes c from its founder.
Releases(ev, c) == ev.kind \in {"ChannelFounderSet", "ChannelDropped"} /\ ev.chan = c

\* A handler cleaning up after a, with the appends `rel` to go: it drops nobody
\* else, hands channels only to accounts that are there, has a release for
\* every channel that is still a's, and ends a's sessions at the end.
Cleaning(n, a, rel) ==
    /\ todo[n] = rel \o <<LogoutStep(a)>>
    /\ \A i \in 1..Len(rel) :
         /\ rel[i] = AppendStep(rel[i].event)
         /\ rel[i].event \in CleanupEvent
         /\ rel[i].event.kind = "AccountDropped" => rel[i].event.name = a
         /\ rel[i].event.kind = "ChannelFounderSet" =>
              rel[i].event.founder # a /\ Held(n, rel[i].event.founder)
    /\ \A c \in Chan : Founder(n, c) # None =>
         \/ Founder(n, c) # a /\ Held(n, Founder(n, c))
         \/ Founder(n, c) = a /\ \E i \in 1..Len(rel) : Releases(rel[i].event, c)
    /\ \A b \in sess[n] : b # a => Held(n, b)

FineAt(n) ==
    \/ Idle(n) /\ Settled(n)
    \/ \E a \in Name, rel \in Seq(CleanupStep) : Cleaning(n, a, rel)

\* No node is read-only, and every one is settled or on its way.
DanglingInv ==
    /\ IInv
    /\ \A n \in Node : ~readonly[n]
    /\ \A n \in Node : FineAt(n)

\* What an event does to who is there and who founded what.
LEMMA EventEffect ==
    ASSUME Sorts, Types, NEW n \in Node, NEW ev \in Event, SetStore(n, apply(Store(n), ev))
    PROVE  /\ \A m \in Node : m # n => accounts'[m] = accounts[m] /\ chans'[m] = chans[m]
           /\ \A b \in Name : Held(n, b)' <=>
                \/ ev.kind = "AccountRegistered" /\ ev.name = b
                \/ Held(n, b) /\ ~(ev.kind = "AccountDropped" /\ ev.name = b)
           /\ \A c \in Chan : Founder(n, c)' =
                IF \/ ev.kind = "ChannelRegistered" /\ ev.chan = c
                   \/ ev.kind = "ChannelFounderSet" /\ ev.chan = c /\ Founder(n, c) # None
                THEN ev.founder
                ELSE IF ev.kind = "ChannelDropped" /\ ev.chan = c THEN None ELSE Founder(n, c)
<1> DEFINE st == apply(Store(n), ev)
           Goal == /\ \A b \in Name : Held(n, b)' <=>
                        \/ ev.kind = "AccountRegistered" /\ ev.name = b
                        \/ Held(n, b) /\ ~(ev.kind = "AccountDropped" /\ ev.name = b)
                   /\ \A c \in Chan : Founder(n, c)' =
                        IF \/ ev.kind = "ChannelRegistered" /\ ev.chan = c
                           \/ ev.kind = "ChannelFounderSet" /\ ev.chan = c /\ Founder(n, c) # None
                        THEN ev.founder
                        ELSE IF ev.kind = "ChannelDropped" /\ ev.chan = c THEN None ELSE Founder(n, c)
<1>1. accounts' = [accounts EXCEPT ![n] = st.accounts] /\ chans' = [chans EXCEPT ![n] = st.chans]
  BY DEF SetStore
<1>2. /\ \A m \in Node : m # n => accounts'[m] = accounts[m] /\ chans'[m] = chans[m]
      /\ accounts'[n] = st.accounts /\ chans'[n] = st.chans
  <2> HIDE DEF st
  <2> QED BY <1>1 DEF Types
<1>3. /\ accounts[n] \in [Name -> Account \cup {None}] /\ Store(n).accounts = accounts[n]
      /\ chans[n] \in [Chan -> ChannelInfo \cup {None}] /\ Store(n).chans = chans[n]
  BY DEF Types, Store
<1>4. /\ \A b \in Name : Held(n, b)' <=> st.accounts[b] # None
      /\ \A c \in Chan : Founder(n, c)' = IF st.chans[c] = None THEN None ELSE st.chans[c].founder
      /\ \A b \in Name : Held(n, b) <=> accounts[n][b] # None
      /\ \A c \in Chan : Founder(n, c) = IF chans[n][c] = None THEN None ELSE chans[n][c].founder
  <2> HIDE DEF st
  <2> QED BY <1>2 DEF Held, Founder
<1>5. \A c \in Chan : Founder(n, c) # None <=> chans[n][c] # None
  BY <1>3, <1>4 DEF ChannelInfo, Sorts
<1>6. CASE ev.kind = "AccountRegistered" /\ ev.name \in Name /\ ev.account \in Account
  <2>1. st = [Store(n) EXCEPT !.accounts[ev.name] = Claim(@, ev.account)]
    BY <1>6 DEF apply
  <2>2. /\ st.accounts = [accounts[n] EXCEPT ![ev.name] = Claim(accounts[n][ev.name], ev.account)]
        /\ st.chans = chans[n]
    BY <2>1 DEF Store
  <2>3. Claim(accounts[n][ev.name], ev.account) # None
    BY <1>6 DEF Claim, Sorts
  <2> HIDE DEF st
  <2>4. \A b \in Name : st.accounts[b] # None <=> b = ev.name \/ accounts[n][b] # None
    BY <1>3, <2>2, <2>3
  <2> QED BY <1>2, <1>4, <1>6, <2>2, <2>4
<1>7. CASE ev.kind = "AccountPasswordSet" /\ ev.name \in Name /\ ev.cred \in Cred
  <2>1. CASE accounts[n][ev.name] = None
    <3>1. st = Store(n)
      BY <1>3, <1>7, <2>1 DEF apply
    <3> HIDE DEF st
    <3> QED BY <1>2, <1>3, <1>4, <1>7, <3>1
  <2>2. CASE accounts[n][ev.name] # None
    <3>1. st = [Store(n) EXCEPT !.accounts[ev.name].cred = ev.cred]
      BY <1>3, <1>7, <2>2 DEF apply
    <3>2. /\ st.accounts = [accounts[n] EXCEPT ![ev.name] = [accounts[n][ev.name] EXCEPT !.cred = ev.cred]]
          /\ st.chans = chans[n]
      BY <3>1 DEF Store
    <3>3. accounts[n][ev.name] \in Account
      BY <1>3, <1>7, <2>2
    <3>4. [accounts[n][ev.name] EXCEPT !.cred = ev.cred] \in Account
      BY <1>7, <3>3 DEF Account
    <3>5. [accounts[n][ev.name] EXCEPT !.cred = ev.cred] # None
      BY <3>4 DEF Sorts
    <3> HIDE DEF st
    <3>6. \A b \in Name : st.accounts[b] # None <=> accounts[n][b] # None
      BY <1>3, <2>2, <3>2, <3>5
    <3> QED BY <1>2, <1>4, <1>7, <3>2, <3>6
  <2> QED BY <2>1, <2>2
<1>8. CASE ev.kind = "AccountDropped" /\ ev.name \in Name
  <2>1. st = [accounts |-> [accounts[n] EXCEPT ![ev.name] = None],
              chans |-> purge_account_refs(chans[n], ev.name)]
    BY <1>3, <1>8 DEF apply
  <2>2. \A b \in Name : st.accounts[b] # None <=> accounts[n][b] # None /\ b # ev.name
    BY <1>3, <1>8, <2>1
  <2>3. ASSUME NEW c \in Chan
        PROVE  (IF st.chans[c] = None THEN None ELSE st.chans[c].founder) = Founder(n, c)
    <3>1. st.chans[c] = IF chans[n][c] # None /\ chans[n][c].successor = ev.name
                        THEN [chans[n][c] EXCEPT !.successor = None]
                        ELSE chans[n][c]
      BY <1>3, <2>1 DEF purge_account_refs
    <3>2. CASE chans[n][c] # None /\ chans[n][c].successor = ev.name
      <4>1. chans[n][c] \in ChannelInfo
        BY <1>3, <3>2
      <4>2. st.chans[c].founder = chans[n][c].founder /\ st.chans[c] \in ChannelInfo
        BY <3>1, <3>2, <4>1 DEF ChannelInfo
      <4> HIDE DEF st
      <4> QED BY <1>4, <3>2, <4>2 DEF Sorts
    <3>3. CASE ~(chans[n][c] # None /\ chans[n][c].successor = ev.name)
      <4> HIDE DEF st
      <4> QED BY <1>4, <3>1, <3>3
    <3> QED BY <3>2, <3>3
  <2> HIDE DEF st
  <2> QED BY <1>2, <1>4, <1>8, <2>2, <2>3
<1>9. CASE /\ ev.kind \in {"ChannelRegistered", "ChannelFounderSet"} /\ ev.chan \in Chan
           /\ ev.founder \in Name
  <2>1. CASE ev.kind = "ChannelRegistered"
    <3>1. st = [Store(n) EXCEPT !.chans[ev.chan] = [founder |-> ev.founder, successor |-> None]]
      BY <2>1 DEF apply
    <3>2. /\ st.accounts = accounts[n]
          /\ st.chans = [chans[n] EXCEPT ![ev.chan] = [founder |-> ev.founder, successor |-> None]]
      BY <3>1 DEF Store
    <3>3. [founder |-> ev.founder, successor |-> None] # None
      BY <1>9 DEF Sorts, ChannelInfo
    <3> HIDE DEF st
    <3> QED BY <1>2, <1>3, <1>4, <1>9, <2>1, <3>2, <3>3
  <2>2. CASE ev.kind = "ChannelFounderSet"
    <3>1. st = UpdateChan(Store(n), ev.chan, [chans[n][ev.chan] EXCEPT !.founder = ev.founder])
      BY <1>3, <2>2 DEF apply
    <3>2. CASE chans[n][ev.chan] = None
      <4>1. st = Store(n)
        BY <1>3, <3>1, <3>2 DEF UpdateChan
      <4> HIDE DEF st
      <4> QED BY <1>2, <1>3, <1>4, <1>5, <1>9, <2>2, <3>2, <4>1
    <3>3. CASE chans[n][ev.chan] # None
      <4>1. /\ st.accounts = accounts[n]
            /\ st.chans = [chans[n] EXCEPT ![ev.chan] = [chans[n][ev.chan] EXCEPT !.founder = ev.founder]]
        BY <1>3, <3>1, <3>3 DEF UpdateChan, Store
      <4>2. chans[n][ev.chan] \in ChannelInfo
        BY <1>3, <1>9, <3>3
      <4>3. /\ [chans[n][ev.chan] EXCEPT !.founder = ev.founder].founder = ev.founder
            /\ [chans[n][ev.chan] EXCEPT !.founder = ev.founder] \in ChannelInfo
        BY <1>9, <4>2 DEF ChannelInfo
      <4>4. [chans[n][ev.chan] EXCEPT !.founder = ev.founder] # None
        BY <4>3 DEF Sorts
      <4> HIDE DEF st
      <4> QED BY <1>2, <1>3, <1>4, <1>5, <1>9, <2>2, <3>3, <4>1, <4>3, <4>4
    <3> QED BY <3>2, <3>3
  <2> QED BY <1>9, <2>1, <2>2
<1>10. CASE ev.kind = "ChannelSuccessorSet" /\ ev.chan \in Chan /\ ev.successor \in Name \cup {None}
  <2>1. st = UpdateChan(Store(n), ev.chan, [chans[n][ev.chan] EXCEPT !.successor = ev.successor])
    BY <1>3, <1>10 DEF apply
  <2>2. CASE chans[n][ev.chan] = None
    <3>1. st = Store(n)
      BY <1>3, <2>1, <2>2 DEF UpdateChan
    <3> HIDE DEF st
    <3> QED BY <1>2, <1>3, <1>4, <1>10, <3>1
  <2>3. CASE chans[n][ev.chan] # None
    <3>1. /\ st.accounts = accounts[n]
          /\ st.chans = [chans[n] EXCEPT ![ev.chan] = [chans[n][ev.chan] EXCEPT !.successor = ev.successor]]
      BY <1>3, <2>1, <2>3 DEF UpdateChan, Store
    <3>2. chans[n][ev.chan] \in ChannelInfo
      BY <1>3, <1>10, <2>3
    <3>3. /\ [chans[n][ev.chan] EXCEPT !.successor = ev.successor].founder = chans[n][ev.chan].founder
          /\ [chans[n][ev.chan] EXCEPT !.successor = ev.successor] \in ChannelInfo
      BY <1>10, <3>2 DEF ChannelInfo
    <3>4. [chans[n][ev.chan] EXCEPT !.successor = ev.successor] # None
      BY <3>3 DEF Sorts
    <3> HIDE DEF st
    <3> QED BY <1>2, <1>3, <1>4, <1>10, <2>3, <3>1, <3>3, <3>4
  <2> QED BY <2>2, <2>3
<1>11. CASE ev.kind = "ChannelDropped" /\ ev.chan \in Chan
  <2>1. st = [Store(n) EXCEPT !.chans[ev.chan] = None]
    BY <1>11 DEF apply
  <2>2. st.accounts = accounts[n] /\ st.chans = [chans[n] EXCEPT ![ev.chan] = None]
    BY <2>1 DEF Store
  <2> HIDE DEF st
  <2> QED BY <1>2, <1>3, <1>4, <1>11, <2>2
<1> QED BY <1>6, <1>7, <1>8, <1>9, <1>10, <1>11, EventKinds

\* A node that a step leaves alone.
LEMMA Elsewhere ==
    ASSUME NEW n \in Node, FineAt(n),
           accounts'[n] = accounts[n], chans'[n] = chans[n], sess'[n] = sess[n], todo'[n] = todo[n]
    PROVE  FineAt(n)'
<1>1. \A b : Held(n, b)' = Held(n, b)
  BY DEF Held
<1>2. \A c : Founder(n, c)' = Founder(n, c)
  BY DEF Founder
<1>3. CASE Idle(n) /\ Settled(n)
  <2>1. Idle(n)'
    BY <1>3 DEF Idle
  <2>2. Settled(n)'
    BY <1>1, <1>2, <1>3 DEF Settled
  <2> QED BY <2>1, <2>2 DEF FineAt
<1>4. ASSUME NEW a \in Name, NEW rel \in Seq(CleanupStep), Cleaning(n, a, rel)
      PROVE  Cleaning(n, a, rel)'
  BY <1>1, <1>2, <1>4 DEF Cleaning, LogoutStep, AppendStep, Releases, CleanupEvent, Event, GlobalEvent
<1> QED BY <1>3, <1>4 DEF FineAt

\* The steps that release an account's channels.
LEMMA ReleaseCleans ==
    ASSUME Sorts, NEW st \in StoreType, NEW a \in Name,
           NEW release \in release_founded_channels(st, a)
    PROVE  /\ \A i \in 1..Len(release) :
                /\ release[i] = AppendStep(release[i].event)
                /\ release[i].event \in CleanupEvent
                /\ release[i].event.kind # "AccountDropped"
                /\ release[i].event.kind = "ChannelFounderSet" =>
                     release[i].event.founder # a /\ st.accounts[release[i].event.founder] # None
           /\ \A c \in Chan : st.chans[c] # None /\ st.chans[c].founder = a =>
                \E i \in 1..Len(release) : Releases(release[i].event, c)
<1> DEFINE owned == {c \in Registered(st.chans) : st.chans[c].founder = a}
           Good(x) == /\ x = AppendStep(x.event)
                      /\ x.event \in CleanupEvent
                      /\ x.event.kind # "AccountDropped"
                      /\ x.event.kind = "ChannelFounderSet" =>
                           x.event.founder # a /\ st.accounts[x.event.founder] # None
           T == {x \in CleanupStep : Good(x)}
<1>1. PICK o \in Orders(owned) : release = FlattenSeq([i \in 1..Len(o) |-> ReleaseOne(st, a, o[i])])
  BY DEF release_founded_channels
<1>2. owned \subseteq Chan /\ IsFiniteSet(owned)
  <2>1. owned \subseteq Chan
    BY DEF Registered, StoreType
  <2> QED BY <2>1, FS_Subset DEF Sorts
<1>3. o \in Seq(owned) /\ \A c \in owned : \E i \in 1..Len(o) : o[i] = c
  <2> HIDE DEF owned
  <2> QED BY <1>2, OrderOf DEF Orders
<1>4. ASSUME NEW c \in owned
      PROVE  /\ ReleaseOne(st, a, c) \in Seq(T)
             /\ Len(ReleaseOne(st, a, c)) >= 1
             /\ Releases(ReleaseOne(st, a, c)[1].event, c)
  <2> DEFINE s == st.chans[c].successor
  <2>0. c \in Chan /\ st.chans[c] \in ChannelInfo
    BY <1>2 DEF Registered, StoreType
  <2>1. AppendStep(ChannelDropped(c)) \in T /\ Releases(AppendStep(ChannelDropped(c)).event, c)
    BY <2>0 DEF AppendStep, ChannelDropped, CleanupStep, CleanupEvent, Event, Releases
  <2>2. AppendStep(ChannelSuccessorSet(c, None)) \in T
    BY <2>0 DEF AppendStep, ChannelSuccessorSet, CleanupStep, CleanupEvent, Event
  <2>3. CASE s # None /\ s # a /\ st.accounts[s] # None
    <3>1. s \in Name
      BY <2>0, <2>3 DEF ChannelInfo
    <3>2. AppendStep(ChannelFounderSet(c, s)) \in T /\ Releases(AppendStep(ChannelFounderSet(c, s)).event, c)
      BY <2>0, <2>3, <3>1 DEF AppendStep, ChannelFounderSet, CleanupStep, CleanupEvent, Event, Releases
    <3>3. ReleaseOne(st, a, c) = <<AppendStep(ChannelFounderSet(c, s)), AppendStep(ChannelSuccessorSet(c, None))>>
      BY <2>3 DEF ReleaseOne
    <3> HIDE DEF T
    <3> QED BY <2>2, <3>2, <3>3
  <2>4. CASE ~(s # None /\ s # a /\ st.accounts[s] # None)
    <3>1. ReleaseOne(st, a, c) = <<AppendStep(ChannelDropped(c))>>
      BY <2>4 DEF ReleaseOne
    <3> HIDE DEF T
    <3> QED BY <2>1, <3>1
  <2> QED BY <2>3, <2>4
<1> DEFINE pieces == [i \in 1..Len(o) |-> ReleaseOne(st, a, o[i])]
<1>5. pieces \in Seq(Seq(T)) /\ Len(pieces) = Len(o) /\ \A i \in 1..Len(o) : pieces[i] = ReleaseOne(st, a, o[i])
  <2> HIDE DEF owned, T
  <2>1. \A i \in 1..Len(o) : o[i] \in owned
    BY <1>3
  <2>2. \A i \in 1..Len(o) : ReleaseOne(st, a, o[i]) \in Seq(T)
    BY <1>4, <2>1
  <2> QED BY <1>3, <2>2
<1>6. release \in Seq(T)
  <2> HIDE DEF T
  <2>0. release = FlattenSeq(pieces)
    BY <1>1
  <2> HIDE DEF pieces
  <2>1. PICK f \in [0..Len(pieces) -> Seq(T)] : FlattenSeq(pieces) = f[Len(pieces)]
    BY <1>5, FlattenGrows
  <2>2. Len(pieces) \in 0..Len(pieces)
    BY <1>5
  <2> QED BY <2>0, <2>1, <2>2
<1>7. ASSUME NEW c \in Chan, st.chans[c] # None, st.chans[c].founder = a
      PROVE  \E i \in 1..Len(release) : Releases(release[i].event, c)
  <2>1. c \in owned
    BY <1>7 DEF Registered, StoreType
  <2>2. PICK i \in 1..Len(o) : o[i] = c
    BY <1>3, <2>1
  <2>3. release = FlattenSeq(pieces)
    BY <1>1
  <2>4. i \in 1..Len(pieces) /\ 1 \in 1..Len(pieces[i]) /\ Releases(pieces[i][1].event, c)
    <3>1. pieces[i] = ReleaseOne(st, a, c)
      BY <1>5, <2>2
    <3>2. Len(ReleaseOne(st, a, c)) \in Nat
      <4> HIDE DEF T
      <4> QED BY <1>4, <2>1
    <3> HIDE DEF pieces, owned
    <3> QED BY <1>4, <1>5, <2>1, <3>1, <3>2
  <2> HIDE DEF pieces, T
  <2> QED BY <1>5, <2>3, <2>4, FlattenHas
<1>8. \A i \in 1..Len(release) : Good(release[i])
  <2> HIDE DEF Good
  <2>1. \A x \in T : Good(x)
    OBVIOUS
  <2>2. \A i \in 1..Len(release) : release[i] \in T
    <3> HIDE DEF T
    <3> QED BY <1>6
  <2> QED BY <2>1, <2>2
<1> QED BY <1>7, <1>8

\* A founder is an account's name, or nobody.
LEMMA FounderType ==
    ASSUME Types, NEW n \in Node, NEW c \in Chan
    PROVE  Founder(n, c) \in Name \cup {None}
BY DEF Types, Founder, ChannelInfo

\* A step that leaves every node but one alone.
LEMMA OnlyAt ==
    ASSUME NEW n \in Node, \A m \in Node : FineAt(m), FineAt(n)',
           \A m \in Node : m # n => /\ accounts'[m] = accounts[m] /\ chans'[m] = chans[m]
                                    /\ sess'[m] = sess[m] /\ todo'[m] = todo[m]
    PROVE  \A m \in Node : FineAt(m)'
<1> SUFFICES ASSUME NEW m \in Node, m # n PROVE FineAt(m)'
  OBVIOUS
<1> QED BY Elsewhere

\* A settled node that appends or folds in an event stays settled, if nobody
\* goes, a new founder is somebody and so is whoever logs in.
LEMMA StaysSettled ==
    ASSUME Sorts, Types, NEW n \in Node, NEW ev \in Event, SetStore(n, apply(Store(n), ev)),
           Idle(n), Settled(n), todo'[n] = todo[n],
           \A b \in Name : Held(n, b) => Held(n, b)',
           ev.kind \in {"ChannelRegistered", "ChannelFounderSet"} => Held(n, ev.founder),
           sess'[n] \subseteq Name, \A b \in sess'[n] : b \in sess[n] \/ Held(n, b)'
    PROVE  FineAt(n)'
<1>1. \A c \in Chan : Founder(n, c)' = Founder(n, c) \/ Founder(n, c)' = None \/ Held(n, Founder(n, c)')
  <2> SUFFICES ASSUME NEW c \in Chan
               PROVE  Founder(n, c)' = Founder(n, c) \/ Founder(n, c)' = None \/ Held(n, Founder(n, c)')
    OBVIOUS
  <2>1. Founder(n, c)' =
          IF \/ ev.kind = "ChannelRegistered" /\ ev.chan = c
             \/ ev.kind = "ChannelFounderSet" /\ ev.chan = c /\ Founder(n, c) # None
          THEN ev.founder
          ELSE IF ev.kind = "ChannelDropped" /\ ev.chan = c THEN None ELSE Founder(n, c)
    BY EventEffect
  <2> QED BY <2>1
<1>2. \A c \in Chan : Founder(n, c)' \in Name \cup {None}
  <2> SUFFICES ASSUME NEW c \in Chan PROVE Founder(n, c)' \in Name \cup {None}
    OBVIOUS
  <2>1. Founder(n, c) \in Name \cup {None}
    BY FounderType
  <2>2. ev.kind \in {"ChannelRegistered", "ChannelFounderSet"} => ev.founder \in Name
    BY EventKinds
  <2>3. Founder(n, c)' =
          IF \/ ev.kind = "ChannelRegistered" /\ ev.chan = c
             \/ ev.kind = "ChannelFounderSet" /\ ev.chan = c /\ Founder(n, c) # None
          THEN ev.founder
          ELSE IF ev.kind = "ChannelDropped" /\ ev.chan = c THEN None ELSE Founder(n, c)
    BY EventEffect
  <2> QED BY <2>1, <2>2, <2>3
<1>3. ASSUME NEW c \in Chan, Founder(n, c)' # None PROVE Held(n, Founder(n, c))'
  <2>1. PICK f \in Name : f = Founder(n, c)'
    BY <1>2, <1>3
  <2>2. Held(n, f)
    BY <1>1, <1>3, <2>1 DEF Settled
  <2>3. Held(n, f)'
    BY <2>2
  <2> QED BY <2>1, <2>3 DEF Held
<1>4. ASSUME NEW b \in sess'[n] PROVE Held(n, b)'
  <2>1. b \in Name
    BY <1>4
  <2> QED BY <1>4, <2>1 DEF Settled
<1>5. Idle(n)'
  BY DEF Idle
<1> QED BY <1>3, <1>4, <1>5 DEF FineAt, Settled

\* The node a handler runs on when an account is to go: the release first.
LEMMA CleaningBegins ==
    ASSUME Sorts, Types, NEW n \in Node, NEW a \in Name, NEW st \in StoreType,
           NEW release \in release_founded_channels(st, a),
           NEW rel \in {release, release \o <<AppendStep(AccountDropped(a))>>},
           todo'[n] = rel \o <<LogoutStep(a)>>,
           accounts'[n] = st.accounts, chans'[n] = st.chans,
           \A c \in Chan : Founder(n, c)' # None => Founder(n, c)' = a \/ Held(n, Founder(n, c))',
           \A b \in sess'[n] : b # a => Held(n, b)'
    PROVE  FineAt(n)'
<1>1. release \in Seq(CleanupStep)
  BY ReleaseType
<1>2. /\ \A i \in 1..Len(release) :
           /\ release[i] = AppendStep(release[i].event)
           /\ release[i].event \in CleanupEvent
           /\ release[i].event.kind # "AccountDropped"
           /\ release[i].event.kind = "ChannelFounderSet" =>
                release[i].event.founder # a /\ st.accounts[release[i].event.founder] # None
      /\ \A c \in Chan : st.chans[c] # None /\ st.chans[c].founder = a =>
           \E i \in 1..Len(release) : Releases(release[i].event, c)
  BY ReleaseCleans
<1> DEFINE last == AppendStep(AccountDropped(a))
<1>3. /\ last \in CleanupStep /\ last.event \in CleanupEvent
      /\ last.event.kind = "AccountDropped" /\ last.event.name = a
      /\ last = AppendStep(last.event)
  BY DEF AppendStep, AccountDropped, CleanupStep, CleanupEvent, Event, GlobalEvent
<1> HIDE DEF last
<1>4. /\ rel \in Seq(CleanupStep)
      /\ \A i \in 1..Len(rel) : (i \in 1..Len(release) /\ rel[i] = release[i]) \/ rel[i] = last
      /\ \A i \in 1..Len(release) : i \in 1..Len(rel) /\ rel[i] = release[i]
  <2>1. CASE rel = release
    BY <1>1, <2>1
  <2>2. CASE rel = release \o <<last>>
    BY <1>1, <1>3, <2>2
  <2> QED BY <2>1, <2>2 DEF last
<1>5. \A b : Held(n, b)' <=> st.accounts[b] # None
  BY DEF Held
<1>6. \A c : Founder(n, c)' = IF st.chans[c] = None THEN None ELSE st.chans[c].founder
  BY DEF Founder
<1>7. ASSUME NEW i \in 1..Len(rel)
      PROVE  /\ rel[i] = AppendStep(rel[i].event)
             /\ rel[i].event \in CleanupEvent
             /\ rel[i].event.kind = "AccountDropped" => rel[i].event.name = a
             /\ rel[i].event.kind = "ChannelFounderSet" =>
                  rel[i].event.founder # a /\ st.accounts[rel[i].event.founder] # None
  <2>1. CASE i \in 1..Len(release) /\ rel[i] = release[i]
    BY <1>2, <2>1
  <2>2. CASE rel[i] = last
    BY <1>3, <2>2
  <2> QED BY <1>4, <2>1, <2>2
<1>8. ASSUME NEW c \in Chan, Founder(n, c)' # None
      PROVE  \/ Founder(n, c)' # a /\ Held(n, Founder(n, c))'
             \/ Founder(n, c)' = a /\ \E i \in 1..Len(rel) : Releases(rel[i].event, c)
  <2>1. CASE Founder(n, c)' = a
    <3>1. st.chans[c] # None /\ st.chans[c].founder = a
      BY <1>6, <1>8, <2>1
    <3>2. PICK i \in 1..Len(release) : Releases(release[i].event, c)
      BY <1>2, <3>1
    <3> QED BY <1>4, <2>1, <3>2
  <2>2. CASE Founder(n, c)' # a
    BY <1>8, <2>2
  <2> QED BY <2>1, <2>2
<1>9. Cleaning(n, a, rel)'
  <2>1. /\ todo'[n] = rel \o <<LogoutStep(a)>>
        /\ \A b \in sess'[n] : b # a => Held(n, b)'
    OBVIOUS
  <2> QED BY <1>5, <1>7, <1>8, <2>1
     DEF Cleaning, Releases, AppendStep, LogoutStep, CleanupEvent, Event, GlobalEvent
<1> QED BY <1>4, <1>9 DEF FineAt

\* A node where no handler runs is settled.
LEMMA IdleSettled ==
    ASSUME NEW n \in Node, FineAt(n), Idle(n)
    PROVE  Settled(n)
<1>1. ASSUME NEW a \in Name, NEW rel \in Seq(CleanupStep), Cleaning(n, a, rel) PROVE FALSE
  <2>1. rel \o <<LogoutStep(a)>> = <<>>
    BY <1>1 DEF Cleaning, Idle
  <2>2. Len(rel \o <<LogoutStep(a)>>) = Len(rel) + 1 /\ Len(rel) \in Nat
    OBVIOUS
  <2> QED BY <2>1, <2>2
<1> QED BY <1>1 DEF FineAt

\* Commands, drops included, leave every node fine.
LEMMA CommandFine ==
    ASSUME Sorts, DanglingInv, NEW n \in Node, Commands(n)
    PROVE  \A m \in Node : FineAt(m)'
<1>0. Types /\ \A m \in Node : FineAt(m)
  BY DEF DanglingInv, IInv
<1>1. Idle(n) => Settled(n)
  BY <1>0, IdleSettled
\* One append by a session of an account that stays.
<1>2. ASSUME NEW ev \in Event, Write(n, ev), Allowed(n, ev), Idle(n), todo' = todo,
             ev.kind # "AccountDropped",
             ev.kind \in {"ChannelRegistered", "ChannelFounderSet"} => Held(n, ev.founder),
             \/ sess' = sess
             \/ ev.kind = "AccountRegistered" /\ sess' = [sess EXCEPT ![n] = @ \cup {ev.name}]
      PROVE  \A m \in Node : FineAt(m)'
  <2>1. SetStore(n, apply(Store(n), ev))
    BY <1>2, WriteIsAuthored DEF Authored
  <2>2. /\ \A m \in Node : m # n => accounts'[m] = accounts[m] /\ chans'[m] = chans[m]
        /\ \A b \in Name : Held(n, b)' <=>
             \/ ev.kind = "AccountRegistered" /\ ev.name = b
             \/ Held(n, b) /\ ~(ev.kind = "AccountDropped" /\ ev.name = b)
    BY <1>0, <2>1, EventEffect
  <2>3. ev.kind = "AccountRegistered" => ev.name \in Name
    BY EventKinds
  <2>4. /\ sess'[n] \subseteq Name
        /\ \A b \in sess'[n] : b \in sess[n] \/ Held(n, b)'
        /\ \A m \in Node : m # n => sess'[m] = sess[m]
    <3>1. CASE sess' = sess
      BY <1>0, <3>1 DEF Types
    <3>2. CASE ev.kind = "AccountRegistered" /\ sess' = [sess EXCEPT ![n] = @ \cup {ev.name}]
      <4>1. sess'[n] = sess[n] \cup {ev.name} /\ \A m \in Node : m # n => sess'[m] = sess[m]
        BY <1>0, <3>2 DEF Types
      <4>2. sess[n] \subseteq Name /\ ev.name \in Name
        BY <1>0, <2>3, <3>2 DEF Types
      <4>3. Held(n, ev.name)'
        BY <2>2, <3>2, <4>2
      <4> QED BY <4>1, <4>2, <4>3 DEF Held
    <3> QED BY <1>2, <3>1, <3>2
  <2>5. \A b \in Name : Held(n, b) => Held(n, b)'
    BY <1>2, <2>2
  <2>6. FineAt(n)'
    BY <1>0, <1>1, <1>2, <2>1, <2>4, <2>5, StaysSettled
  <2> QED BY <1>0, <1>2, <2>2, <2>4, <2>6, OnlyAt
<1>3. ASSUME NEW a \in Name, NEW ts \in Time, NEW cred \in Cred, RegisterAccount(n, a, ts, cred)
      PROVE  \A m \in Node : FineAt(m)'
  <2> DEFINE ev == AccountRegistered(a, [ts |-> ts, home |-> n, cred |-> cred])
  <2>1. ev \in Event /\ ev.kind = "AccountRegistered" /\ ev.name = a
    BY DEF AccountRegistered, Event, GlobalEvent, Account
  <2>2. Write(n, ev) /\ Allowed(n, ev) /\ todo' = todo /\ Idle(n)
    BY <1>3 DEF RegisterAccount, Allowed, AccountRegistered, Command
  <2>3. sess' = [sess EXCEPT ![n] = @ \cup {ev.name}]
    BY <1>3, <2>1 DEF RegisterAccount
  <2> HIDE DEF ev
  <2> QED BY <1>2, <2>1, <2>2, <2>3
<1>4. ASSUME NEW a \in Name, NEW cred \in Cred, SetPassword(n, a, cred)
      PROVE  \A m \in Node : FineAt(m)'
  <2> DEFINE ev == AccountPasswordSet(a, cred)
  <2>1. ev \in Event /\ ev.kind = "AccountPasswordSet"
    BY DEF AccountPasswordSet, Event, GlobalEvent
  <2>2. Write(n, ev) /\ Allowed(n, ev) /\ todo' = todo /\ sess' = sess /\ Idle(n)
    BY <1>4 DEF SetPassword, Allowed, AccountPasswordSet, Command
  <2> HIDE DEF ev
  <2> QED BY <1>2, <2>1, <2>2
<1>5. ASSUME NEW a \in Name, Identify(n, a) PROVE \A m \in Node : FineAt(m)'
  <2>1. /\ Idle(n) /\ Held(n, a) /\ sess' = [sess EXCEPT ![n] = @ \cup {a}]
        /\ accounts' = accounts /\ chans' = chans /\ todo' = todo
    BY <1>5 DEF Identify, Held, Command
  <2>2. sess'[n] = sess[n] \cup {a} /\ \A m \in Node : m # n => sess'[m] = sess[m]
    BY <1>0, <2>1 DEF Types
  <2>3. Idle(n)' /\ Settled(n)'
    BY <1>1, <2>1, <2>2 DEF Idle, Settled, Held, Founder
  <2>4. FineAt(n)'
    BY <2>3 DEF FineAt
  <2> QED BY <1>0, <2>1, <2>2, <2>4, OnlyAt
<1>6. ASSUME NEW a \in Name, DropAccount(n, a) PROVE \A m \in Node : FineAt(m)'
  <2>1. Idle(n) /\ Held(n, a) /\ accounts' = accounts /\ chans' = chans /\ sess' = sess
    BY <1>6 DEF DropAccount, Held, Command
  <2>2. PICK release \in release_founded_channels(Store(n), a) :
           todo' = [todo EXCEPT ![n] = release \o <<AppendStep(AccountDropped(a)), LogoutStep(a)>>]
    BY <1>6 DEF DropAccount
  <2> DEFINE rel == release \o <<AppendStep(AccountDropped(a))>>
  <2>3. Store(n) \in StoreType
    BY <1>0, StoreTyped
  <2>4. release \in Seq(CleanupStep)
    BY <2>3, ReleaseType
  <2>5. /\ todo'[n] = rel \o <<LogoutStep(a)>>
        /\ \A m \in Node : m # n => todo'[m] = todo[m]
    <3>1. release \o <<AppendStep(AccountDropped(a)), LogoutStep(a)>> = rel \o <<LogoutStep(a)>>
      BY <2>4
    <3> QED BY <1>0, <2>2, <3>1 DEF Types
  <2>6. /\ \A c \in Chan : Founder(n, c)' # None => Held(n, Founder(n, c))'
        /\ \A b \in sess'[n] : Held(n, b)'
    BY <1>1, <2>1 DEF Settled, Held, Founder
  <2>7. accounts'[n] = Store(n).accounts /\ chans'[n] = Store(n).chans
    BY <2>1 DEF Store
  <2>8. FineAt(n)'
    <3> DEFINE st == Store(n)
    <3>1. st \in StoreType /\ release \in release_founded_channels(st, a)
          /\ accounts'[n] = st.accounts /\ chans'[n] = st.chans
      BY <2>3, <2>7
    <3>2. rel \in {release, release \o <<AppendStep(AccountDropped(a))>>}
      OBVIOUS
    <3> HIDE DEF st, rel
    <3> QED BY <1>0, <2>5, <2>6, <3>1, <3>2, CleaningBegins
  <2> QED BY <1>0, <2>1, <2>5, <2>8, OnlyAt
<1>7. ASSUME NEW c \in Chan, NEW a \in Name, RegisterChannel(n, c, a)
      PROVE  \A m \in Node : FineAt(m)'
  <2> DEFINE ev == ChannelRegistered(c, a)
  <2>1. ev \in Event /\ ev.kind = "ChannelRegistered" /\ ev.founder = a
    BY DEF ChannelRegistered, Event
  <2>2. Write(n, ev) /\ Allowed(n, ev) /\ todo' = todo /\ sess' = sess /\ Idle(n) /\ a \in sess[n]
    BY <1>7 DEF RegisterChannel, Allowed, ChannelRegistered, Command
  <2>3. Held(n, a)
    BY <1>1, <2>2 DEF Settled
  <2> HIDE DEF ev
  <2> QED BY <1>2, <2>1, <2>2, <2>3
<1>8. ASSUME NEW c \in Chan, NEW a \in Name, SetFounder(n, c, a)
      PROVE  \A m \in Node : FineAt(m)'
  <2> DEFINE ev == ChannelFounderSet(c, a)
  <2>1. ev \in Event /\ ev.kind = "ChannelFounderSet" /\ ev.founder = a
    BY DEF ChannelFounderSet, Event
  <2>2. Write(n, ev) /\ Allowed(n, ev) /\ todo' = todo /\ sess' = sess /\ Idle(n) /\ Held(n, a)
    BY <1>8 DEF SetFounder, Allowed, ChannelFounderSet, Command, Held
  <2> HIDE DEF ev
  <2> QED BY <1>2, <2>1, <2>2
<1>9. ASSUME NEW c \in Chan, NEW a \in Name \cup {None}, SetSuccessor(n, c, a)
      PROVE  \A m \in Node : FineAt(m)'
  <2> DEFINE ev == ChannelSuccessorSet(c, a)
  <2>1. ev \in Event /\ ev.kind = "ChannelSuccessorSet"
    BY DEF ChannelSuccessorSet, Event
  <2>2. Write(n, ev) /\ Allowed(n, ev) /\ todo' = todo /\ sess' = sess /\ Idle(n)
    BY <1>9 DEF SetSuccessor, Allowed, ChannelSuccessorSet, Command
  <2> HIDE DEF ev
  <2> QED BY <1>2, <2>1, <2>2
<1>10. ASSUME SetReadonly(n) PROVE \A m \in Node : FineAt(m)'
  BY <1>0, <1>10, Elsewhere DEF SetReadonly, dbVars
<1> QED BY <1>3, <1>4, <1>5, <1>6, <1>7, <1>8, <1>9, <1>10 DEF Commands

\* A node in the middle of a handler is cleaning up.
LEMMA BusyCleans ==
    ASSUME NEW n \in Node, FineAt(n), ~Idle(n)
    PROVE  \E a \in Name, rel \in Seq(CleanupStep) : Cleaning(n, a, rel)
BY DEF FineAt

\* One release step on: the rest still releases what is left to release.
LEMMA CleaningGoesOn ==
    ASSUME Sorts, Types, NEW n \in Node, NEW a \in Name, NEW rel \in Seq(CleanupStep),
           Cleaning(n, a, rel), rel # <<>>,
           SetStore(n, apply(Store(n), rel[1].event)),
           todo'[n] = Tail(todo[n]), sess'[n] = sess[n]
    PROVE  FineAt(n)'
<1> DEFINE rest == Tail(rel)
           ev == rel[1].event
<1>1. /\ rest \in Seq(CleanupStep) /\ Len(rel) \in Nat \ {0} /\ Len(rest) = Len(rel) - 1
      /\ \A i \in 1..Len(rest) : i + 1 \in 1..Len(rel) /\ rest[i] = rel[i + 1]
      /\ Tail(rel \o <<LogoutStep(a)>>) = rest \o <<LogoutStep(a)>>
      /\ 1 \in 1..Len(rel)
  OBVIOUS
<1>2. \A i \in 1..Len(rel) :
         /\ rel[i] = AppendStep(rel[i].event)
         /\ rel[i].event \in CleanupEvent
         /\ rel[i].event.kind = "AccountDropped" => rel[i].event.name = a
         /\ rel[i].event.kind = "ChannelFounderSet" =>
              rel[i].event.founder # a /\ Held(n, rel[i].event.founder)
  BY DEF Cleaning
<1>3. \A c \in Chan : Founder(n, c) # None =>
         \/ Founder(n, c) # a /\ Held(n, Founder(n, c))
         \/ Founder(n, c) = a /\ \E i \in 1..Len(rel) : Releases(rel[i].event, c)
  BY DEF Cleaning
<1>4. ev \in CleanupEvent /\ ev \in Event
  BY <1>1, <1>2 DEF CleanupEvent
<1>5. /\ ev.kind \in {"ChannelFounderSet", "ChannelDropped", "AccountDropped", "ChannelSuccessorSet"}
      /\ ev.kind = "AccountDropped" => ev.name = a
      /\ ev.kind = "ChannelFounderSet" => ev.founder # a /\ Held(n, ev.founder) /\ ev.founder \in Name
  <2>1. ev.kind = "ChannelFounderSet" => ev.founder \in Name
    BY <1>4, EventKinds
  <2> QED BY <1>1, <1>2, <1>4, <2>1 DEF CleanupEvent
<1>6. SetStore(n, apply(Store(n), ev))
  OBVIOUS
<1> HIDE DEF ev
<1>7. /\ \A b \in Name : Held(n, b)' <=>
           \/ ev.kind = "AccountRegistered" /\ ev.name = b
           \/ Held(n, b) /\ ~(ev.kind = "AccountDropped" /\ ev.name = b)
      /\ \A c \in Chan : Founder(n, c)' =
           IF \/ ev.kind = "ChannelRegistered" /\ ev.chan = c
              \/ ev.kind = "ChannelFounderSet" /\ ev.chan = c /\ Founder(n, c) # None
           THEN ev.founder
           ELSE IF ev.kind = "ChannelDropped" /\ ev.chan = c THEN None ELSE Founder(n, c)
  BY <1>4, <1>6, EventEffect
<1>8. \A b \in Name : b # a /\ Held(n, b) => Held(n, b)'
  BY <1>5, <1>7
<1>9. ASSUME NEW c \in Chan, NEW f, f = Founder(n, c)', f # None
      PROVE  \/ f # a /\ Held(n, f)'
             \/ f = a /\ \E i \in 1..Len(rest) : Releases(rest[i].event, c)
  <2>0. Founder(n, c) \in Name \cup {None}
    BY FounderType
  <2>1. CASE ev.kind = "ChannelFounderSet" /\ ev.chan = c /\ Founder(n, c) # None
    <3>1. f = ev.founder
      BY <1>7, <1>9, <2>1
    <3> QED BY <1>5, <1>8, <2>1, <3>1
  <2>2. CASE ev.kind = "ChannelDropped" /\ ev.chan = c
    <3>1. f = None
      BY <1>7, <1>9, <2>2
    <3> QED BY <1>9, <3>1
  <2>3. CASE ~Releases(ev, c) \/ Founder(n, c) = None
    <3>1. f = Founder(n, c)
      BY <1>5, <1>7, <1>9, <2>3 DEF Releases
    <3>2. Founder(n, c) # None /\ ~Releases(ev, c)
      BY <1>9, <2>3, <3>1
    <3>3. CASE f # a
      <4>1. Held(n, f) /\ f \in Name
        BY <1>3, <2>0, <3>1, <3>2, <3>3
      <4> QED BY <1>8, <3>3, <4>1
    <3>4. CASE f = a
      <4>1. PICK i \in 1..Len(rel) : Releases(rel[i].event, c)
        BY <1>3, <3>1, <3>2, <3>4
      <4>2. i # 1
        BY <3>2, <4>1 DEF ev
      <4>3. i \in Int /\ i - 1 \in 1..Len(rest) /\ (i - 1) + 1 = i
        <5> HIDE DEF rest
        <5> QED BY <1>1, <4>2
      <4>4. rest[i - 1] = rel[i]
        <5> HIDE DEF rest
        <5> QED BY <1>1, <4>3
      <4> QED BY <3>4, <4>1, <4>3, <4>4
    <3> QED BY <3>3, <3>4
  <2> QED BY <2>1, <2>2, <2>3 DEF Releases
<1>10. ASSUME NEW i \in 1..Len(rest)
       PROVE  /\ rest[i] = AppendStep(rest[i].event)
              /\ rest[i].event \in CleanupEvent
              /\ rest[i].event.kind = "AccountDropped" => rest[i].event.name = a
              /\ rest[i].event.kind = "ChannelFounderSet" =>
                   rest[i].event.founder # a /\ Held(n, rest[i].event.founder)'
  <2> DEFINE x == rest[i].event
  <2>1. i + 1 \in 1..Len(rel) /\ rest[i] = rel[i + 1]
    BY <1>1
  <2>2. /\ rest[i] = AppendStep(x)
        /\ x \in CleanupEvent
        /\ x.kind = "AccountDropped" => x.name = a
        /\ x.kind = "ChannelFounderSet" => x.founder # a /\ Held(n, x.founder)
    BY <1>2, <2>1
  <2> HIDE DEF x
  <2>3. x.kind = "ChannelFounderSet" => x.founder \in Name
    BY <2>2, EventKinds DEF CleanupEvent
  <2>4. x.kind = "ChannelFounderSet" => Held(n, x.founder)'
    BY <1>8, <2>2, <2>3
  <2> QED BY <2>2, <2>4 DEF x
<1>11. todo'[n] = rest \o <<LogoutStep(a)>>
  BY <1>1 DEF Cleaning
<1>12. \A b \in sess'[n] : b # a => Held(n, b)'
  <2>1. \A b \in sess[n] : b \in Name
    BY DEF Types
  <2>2. \A b \in sess[n] : b # a => Held(n, b)
    BY DEF Cleaning
  <2> QED BY <1>8, <2>1, <2>2
<1> HIDE DEF rest
<1>13. Cleaning(n, a, rest)'
  <2>1. \A c \in Chan : Founder(n, c)' # None =>
           \/ Founder(n, c)' # a /\ Held(n, Founder(n, c))'
           \/ Founder(n, c)' = a /\ \E i \in 1..Len(rest) : Releases(rest[i].event, c)
    BY <1>9 DEF Held
  <2> QED BY <1>10, <1>11, <1>12, <2>1 DEF Cleaning, Releases, AppendStep, LogoutStep, CleanupEvent, Event, GlobalEvent
<1> QED BY <1>1, <1>13 DEF FineAt

\* A step of a cleanup leaves at each node what the cleanup still has to do.
LEMMA ProceedFine ==
    ASSUME Sorts, DanglingInv, NEW n \in Node, Proceed(n)
    PROVE  \A m \in Node : FineAt(m)'
<1>0. Types /\ ~readonly[n] /\ \A m \in Node : FineAt(m)
  BY DEF DanglingInv, IInv
<1>1. PICK a \in Name, rel \in Seq(CleanupStep) : Cleaning(n, a, rel)
  BY <1>0, BusyCleans DEF Proceed
<1>2. /\ todo' = [todo EXCEPT ![n] = Tail(todo[n])]
      /\ \/ /\ Head(todo[n]).event # None
            /\ Write(n, Head(todo[n]).event)
            /\ sess' = sess
         \/ /\ Head(todo[n]).logout # None
            /\ sess' = [sess EXCEPT ![n] = @ \ {Head(todo[n]).logout}]
            /\ accounts' = accounts /\ chans' = chans
  BY <1>0 DEF Proceed
<1>3. /\ todo'[n] = Tail(todo[n])
      /\ \A m \in Node : m # n => todo'[m] = todo[m]
  BY <1>0, <1>2 DEF Types
<1>4. todo[n] = rel \o <<LogoutStep(a)>>
  BY <1>1 DEF Cleaning
<1>5. CASE rel = <<>>
  <2>1. todo[n] = <<LogoutStep(a)>>
    BY <1>4, <1>5
  <2>2. Head(todo[n]) = LogoutStep(a) /\ todo'[n] = <<>>
    BY <1>3, <2>1
  <2>3. Head(todo[n]).event = None /\ Head(todo[n]).logout = a
    BY <2>2 DEF LogoutStep
  <2>4. sess' = [sess EXCEPT ![n] = @ \ {a}] /\ accounts' = accounts /\ chans' = chans
    BY <1>2, <2>3
  <2>5. sess'[n] = sess[n] \ {a} /\ \A m \in Node : m # n => sess'[m] = sess[m]
    BY <1>0, <2>4 DEF Types
  <2>6. 1..Len(rel) = {}
    BY <1>5
  <2>7. /\ \A c \in Chan : Founder(n, c) # None => Held(n, Founder(n, c))
        /\ \A b \in sess[n] : b # a => Held(n, b)
    BY <1>1, <2>6 DEF Cleaning
  <2>8. Settled(n)'
    BY <2>4, <2>5, <2>7 DEF Settled, Held, Founder
  <2>9. FineAt(n)'
    BY <2>2, <2>8 DEF FineAt, Idle
  <2> QED BY <1>0, <1>3, <2>4, <2>5, <2>9, OnlyAt
<1>6. CASE rel # <<>>
  <2>1. Head(todo[n]) = rel[1] /\ 1 \in 1..Len(rel)
    BY <1>4, <1>6
  <2> DEFINE ev == rel[1].event
  <2>2. rel[1] = AppendStep(ev) /\ ev \in CleanupEvent
    BY <1>1, <2>1 DEF Cleaning
  <2>3. ev \in Event /\ Allowed(n, ev)
    <3>1. todo[n] # <<>>
      BY DEF Proceed, Idle
    <3> QED BY <2>2, <3>1 DEF CleanupEvent, Allowed
  <2>4. rel[1].logout = None
    BY <2>2 DEF AppendStep
  <2>5. Write(n, ev) /\ sess' = sess
    BY <1>2, <2>1, <2>4
  <2>6. SetStore(n, apply(Store(n), ev))
    BY <2>3, <2>5, WriteIsAuthored DEF Authored
  <2>7. FineAt(n)'
    BY <1>0, <1>1, <1>3, <1>6, <2>5, <2>6, CleaningGoesOn
  <2>8. \A m \in Node : m # n => accounts'[m] = accounts[m] /\ chans'[m] = chans[m]
    BY <1>0, <2>3, <2>6, EventEffect
  <2> QED BY <1>0, <1>3, <2>5, <2>7, <2>8, OnlyAt
<1> QED BY <1>5, <1>6

\* Gossip finds a node settled.  A drop starts a clean-up; after a takeover, or
\* anything else that is folded in, everybody is still somebody.
LEMMA GossipFine ==
    ASSUME Sorts, DanglingInv, NEW m \in net, gossip_ingest(m)
    PROVE  \A p \in Node : FineAt(p)'
<1>0. Types /\ (\A p \in Node : FineAt(p)) /\ IInv
  BY DEF DanglingInv, IInv
<1>1. CASE ~R!accept(versions[m.dst], Trust[m.dst], m.entry)
  <2>1. accounts' = accounts /\ chans' = chans /\ sess' = sess /\ todo' = todo
    BY <1>1 DEF gossip_ingest, dbVars
  <2> QED BY <1>0, <2>1, Elsewhere
<1>2. CASE R!accept(versions[m.dst], Trust[m.dst], m.entry)
  <2>1. Taken(m)
    BY <1>2, SameGossip DEF gossip_ingest, Taken
  <2>2. PICK n \in Node, ev \in GlobalEvent : n = m.dst /\ ev = m.entry.event
    BY <1>0, <2>1, TakenEntry
  <2>3. /\ Idle(n) /\ SetStore(n, apply(Store(n), ev))
        /\ IF Watched(ev)
           THEN handle_account_gone(n, ev.name, accounts[n][ev.name], apply(Store(n), ev))
           ELSE UNCHANGED <<sess, todo>>
    BY <1>2, <2>2 DEF gossip_ingest
  <2>4. Settled(n)
    BY <1>0, <2>3, IdleSettled
  <2>5. /\ ev \in Event
        /\ ev.kind \in {"AccountRegistered", "AccountPasswordSet", "AccountDropped"}
        /\ Watched(ev) => ev.name \in Name
    BY DEF Event, GlobalEvent, Watched
  <2> DEFINE st == apply(Store(n), ev)
             a == ev.name
             held == accounts[n][a]
  <2>6. st \in StoreType
    BY <1>0, <2>5, StoreTyped, ApplyType
  <2>7. accounts'[n] = st.accounts /\ chans'[n] = st.chans
    <3> HIDE DEF st
    <3>1. accounts' = [accounts EXCEPT ![n] = st.accounts] /\ chans' = [chans EXCEPT ![n] = st.chans]
      BY <2>3 DEF SetStore, st
    <3> QED BY <1>0, <3>1 DEF Types
  <2>8. SetStore(n, apply(Store(n), ev))
    BY <2>3
  <2>9. Watched(ev) => handle_account_gone(n, a, held, st)
    BY <2>3
  <2> HIDE DEF st
  <2>10. /\ \A p \in Node : p # n => accounts'[p] = accounts[p] /\ chans'[p] = chans[p]
         /\ \A b \in Name : Held(n, b)' <=>
              \/ ev.kind = "AccountRegistered" /\ ev.name = b
              \/ Held(n, b) /\ ~(ev.kind = "AccountDropped" /\ ev.name = b)
         /\ \A c \in Chan : Founder(n, c)' = Founder(n, c)
    BY <1>0, <2>5, <2>8, EventEffect
  <2>11. CASE Watched(ev) /\ held # None /\ st.accounts[a] = None
    <3>1. PICK release \in release_founded_channels(st, a) :
             /\ todo' = [todo EXCEPT ![n] = release \o <<LogoutStep(a)>>]
             /\ sess' = sess
      BY <2>9, <2>11 DEF handle_account_gone
    <3>2. ~Held(n, a)'
      BY <2>7, <2>11 DEF Held
    <3>3. ev.kind = "AccountDropped" /\ a \in Name
      BY <2>5, <2>10, <2>11, <3>2 DEF Watched
    <3>4. \A b \in Name : b # a /\ Held(n, b) => Held(n, b)'
      BY <2>10, <3>3
    <3>5. ASSUME NEW c \in Chan, NEW f, f = Founder(n, c)', f # None PROVE f = a \/ Held(n, f)'
      <4>1. f = Founder(n, c) /\ f \in Name
        BY <1>0, <2>10, <3>5, FounderType
      <4> QED BY <2>4, <3>4, <3>5, <4>1 DEF Settled
    <3>6. \A b \in sess'[n] : b # a => Held(n, b)'
      <4>1. \A b \in sess[n] : b \in Name /\ Held(n, b)
        BY <1>0, <2>4 DEF Types, Settled
      <4> QED BY <3>1, <3>4, <4>1
    <3>7. todo'[n] = release \o <<LogoutStep(a)>> /\ \A p \in Node : p # n => todo'[p] = todo[p]
      BY <1>0, <3>1 DEF Types
    <3>8. \A c \in Chan : Founder(n, c)' # None => Founder(n, c)' = a \/ Held(n, Founder(n, c))'
      BY <3>5 DEF Held
    <3>9. release \in {release, release \o <<AppendStep(AccountDropped(a))>>}
      OBVIOUS
    <3>10. FineAt(n)'
      <4> HIDE DEF a
      <4> QED BY <1>0, <2>6, <2>7, <3>3, <3>6, <3>7, <3>8, <3>9, CleaningBegins
    <3> QED BY <1>0, <2>10, <3>1, <3>7, <3>10, OnlyAt
  <2>12. CASE ~(Watched(ev) /\ held # None /\ st.accounts[a] = None)
    <3>1. /\ todo' = todo
          /\ sess' = sess \/ (Watched(ev) /\ sess' = [sess EXCEPT ![n] = @ \ {a}])
      BY <2>3, <2>9, <2>12 DEF handle_account_gone
    <3>2. \A b \in Name : Held(n, b) => Held(n, b)'
      <4> SUFFICES ASSUME NEW b \in Name, Held(n, b), ~Held(n, b)' PROVE FALSE
        OBVIOUS
      <4>1. ev.kind = "AccountDropped" /\ a = b
        BY <2>10
      <4>2. Watched(ev) /\ held # None /\ st.accounts[a] = None
        BY <2>7, <4>1 DEF Watched, Held
      <4> QED BY <2>12, <4>2
    <3>3. /\ sess'[n] \subseteq Name
          /\ \A b \in sess'[n] : b \in sess[n]
          /\ \A p \in Node : p # n => sess'[p] = sess[p]
      BY <1>0, <3>1 DEF Types
    <3>4. todo'[n] = todo[n]
      BY <3>1
    <3>5. ~(ev.kind \in {"ChannelRegistered", "ChannelFounderSet"})
      BY <2>5
    <3>6. FineAt(n)'
      BY <1>0, <2>3, <2>4, <2>5, <2>8, <3>2, <3>3, <3>4, <3>5, StaysSettled
    <3> QED BY <1>0, <2>10, <3>1, <3>3, <3>6, OnlyAt
  <2> QED BY <2>11, <2>12
<1> QED BY <1>1, <1>2

\* Without a crash no handler stops half way.
LEMMA RestartFine ==
    ASSUME Sorts, sites["crash"] = {}, DanglingInv, NEW n \in Node, Restart(n)
    PROVE  \A m \in Node : FineAt(m)'
<1>0. Types /\ LiveEqualsReplay /\ \A m \in Node : FineAt(m)
  BY DEF DanglingInv, IInv
<1>1. Idle(n) /\ todo' = [todo EXCEPT ![n] = <<>>] /\ sess' = sess
  BY DEF Restart
<1>2. todo' = todo
  BY <1>0, <1>1 DEF Idle, Types
<1>3. SetStore(n, Store(n))
  BY <1>0 DEF Restart, LiveEqualsReplay
<1>4. accounts' = accounts /\ chans' = chans
  BY <1>0, <1>3 DEF SetStore, Store, Types
<1> QED BY <1>0, <1>1, <1>2, <1>4, Elsewhere

\* Nobody turns read-only mode on.
LEMMA StaysWritable ==
    ASSUME Sorts, sites["readonly"] = {}, DanglingInv, [Next]_fedVars
    PROVE  \A n \in Node : ~readonly'[n]
<1>0. (\A n \in Node : ~readonly[n]) /\ readonly \in [Node -> BOOLEAN]
  BY DEF DanglingInv, IInv, RP!IInv, RP!TypeOK
<1>1. ASSUME NEW n \in Node, Commands(n) PROVE readonly' = readonly
  BY <1>1 DEF Commands, RegisterAccount, SetPassword, Identify, RegisterChannel, SetFounder,
     SetSuccessor, DropAccount, SetReadonly, Command, Write, R!Author
<1>2. ASSUME NEW n \in Node, Proceed(n) PROVE readonly' = readonly
  BY <1>2 DEF Proceed, Write, R!Author
<1>3. ASSUME NEW n \in Node, Compact(n) PROVE readonly' = readonly
  BY <1>3 DEF Compact, R!Compact
<1>4. ASSUME NEW n \in Node, Restart(n) PROVE readonly' = [readonly EXCEPT ![n] = FALSE]
  BY <1>4 DEF Restart, R!Restart
<1>5. ASSUME NEW m \in net, gossip_ingest(m) PROVE readonly' = readonly
  BY <1>5 DEF gossip_ingest, R!Ingest
<1>6. ASSUME Sessions PROVE readonly' = readonly
  BY <1>6 DEF Sessions, R!Connect, R!Disconnect, R!SendDigest, R!AnswerDigest, R!Lag, R!IngestFails
<1>7. CASE UNCHANGED fedVars
  BY <1>0, <1>7 DEF fedVars
<1> QED BY <1>0, <1>1, <1>2, <1>3, <1>4, <1>5, <1>6, <1>7 DEF Next

\* With no crash and no lockdown every step keeps the cleanups complete.
LEMMA DanglingStep ==
    ASSUME Sorts, sites["crash"] = {}, sites["readonly"] = {}, DanglingInv, [Next]_fedVars
    PROVE  DanglingInv'
<1>1. IInv'
  BY NextIInv DEF DanglingInv
<1>2. \A n \in Node : ~readonly'[n]
  BY StaysWritable
<1>3. \A n \in Node : FineAt(n)'
  <2>0. \A n \in Node : FineAt(n)
    BY DEF DanglingInv
  <2>1. ASSUME NEW n \in Node, Compact(n) PROVE \A m \in Node : FineAt(m)'
    BY <2>0, <2>1, Elsewhere DEF Compact, dbVars
  <2>2. ASSUME Sessions PROVE \A m \in Node : FineAt(m)'
    BY <2>0, <2>2, Elsewhere DEF Sessions, dbVars
  <2>3. CASE UNCHANGED fedVars
    BY <2>0, <2>3, Elsewhere DEF fedVars
  <2> QED BY <2>1, <2>2, <2>3, CommandFine, ProceedFine, GossipFine, RestartFine DEF Next
<1> QED BY <1>1, <1>2, <1>3 DEF DanglingInv

\* Where nobody crashes and nobody locks the network, no channel is left with a
\* founder that is gone and no session with an account that is: whichever way
\* an account goes, here or by gossip, its channels are handed on or dropped
\* and its sessions end before the next command (handle_account_gone).
THEOREM NobodyDangles == ASSUME Sorts PROVE Spec => []NothingDangles
<1> DEFINE Uncut == sites["crash"] = {} /\ sites["readonly"] = {}
           Inv == Uncut => DanglingInv
<1>1. Init => Inv
  <2> SUFFICES ASSUME Init, Uncut PROVE DanglingInv
    OBVIOUS
  <2>1. IInv
    BY InitIInv
  <2>2. \A n \in Node : ~readonly[n]
    BY DEF Init, R!Init
  <2>3. ASSUME NEW n \in Node PROVE Idle(n) /\ Settled(n)
    BY DEF Init, Idle, Settled, Founder, Fresh
  <2> QED BY <2>1, <2>2, <2>3 DEF DanglingInv, FineAt
<1>2. Inv /\ [Next]_fedVars /\ UNCHANGED sites => Inv'
  BY DanglingStep
<1>3. DanglingInv => FoundersExist /\ SessionsBacked
  <2> SUFFICES ASSUME DanglingInv, NEW n \in Node, Idle(n)
               PROVE  /\ \A c \in Registered(chans[n]) : accounts[n][chans[n][c].founder] # None
                      /\ \A a \in sess[n] : accounts[n][a] # None
    BY DEF FoundersExist, SessionsBacked
  <2>1. Settled(n)
    BY IdleSettled DEF DanglingInv
  <2>2. ASSUME NEW c \in Registered(chans[n]) PROVE accounts[n][chans[n][c].founder] # None
    <3>1. c \in Chan /\ chans[n][c] # None /\ chans[n][c] \in ChannelInfo
      BY DEF DanglingInv, IInv, Types, Registered
    <3>2. Founder(n, c) = chans[n][c].founder /\ Founder(n, c) # None
      BY <3>1 DEF Founder, ChannelInfo, Sorts
    <3> QED BY <2>1, <3>1, <3>2 DEF Settled, Held
  <2> QED BY <2>1, <2>2 DEF Settled, Held
<1>4. IInv /\ Inv => NothingDangles
  BY <1>3 DEF NothingDangles, IInv
<1> QED BY <1>1, <1>2, <1>4, InitIInv, NextIInv, StepsAre, PTL DEF Spec

-----------------------------------------------------------------------------
(* Who owns a name.                                                        *)
(*                                                                         *)
(* The nodes' claims are registrations in logs.  That equal version        *)
(* vectors mean equal owners rests on where a claim can be found: whoever  *)
(* wrote one has it, or a better one of its own, in its own log under its  *)
(* present epoch, and what is there is what a version vector speaks of.    *)


\* The order in which claims win.
NotLater(c, d) == c.ts < d.ts \/ (c.ts = d.ts /\ c.home <= d.home)

\* No drop was ever written, and no handler has anything to clean up.
NothingDropped == \A e \in RP!World : e.event.kind # "AccountDropped"

AllIdle == \A n \in Node : Idle(n)

\* A node's owner of a name is one of the claims in its log ...
Claimed ==
    \A n \in Node, a \in Name : Owner(n, a) # None =>
        \E e \in RP!Entries(log[n]) : Registers(e, a) /\ ClaimOf(e) = Owner(n, a)

\* ... and the earliest of them.
Earliest ==
    \A n \in Node, a \in Name : \A e \in RP!Entries(log[n]) : Registers(e, a) =>
        Owner(n, a) # None /\ NotLater(Owner(n, a), ClaimOf(e))

\* Whoever wrote a claim has it in its log, or wrote an earlier one that it has.
Vouched ==
    \A a \in Name : \A e \in RP!World : Registers(e, a) =>
        \E f \in RP!OwnEntries(log[e.origin], e.origin) :
            Registers(f, a) /\ NotLater(ClaimOf(f), ClaimOf(e))

\* The Global entries of its own that a node has are of its present epoch.
OwnAreCurrent ==
    \A n \in Node : \A e \in RP!GlobalsOf(log[n], n) : e.epoch = epoch[n]

\* Whoever wrote of an account holds it, and something of its own to show.
KnownAtHome ==
    \A e \in RP!World : RP!Global(e) =>
        /\ Owner(e.origin, e.event.name) # None
        /\ RP!GlobalsOf(log[e.origin], e.origin) # {}

Owners ==
    /\ NothingDropped
    /\ Claimed
    /\ Earliest
    /\ Vouched
    /\ OwnAreCurrent
    /\ KnownAtHome

NamesInv == IInv /\ AllIdle /\ Owners

-----------------------------------------------------------------------------
(* Claims.                                                                 *)

\* NotLater orders claims.
LEMMA ClaimOrder ==
    ASSUME Sorts, NEW c \in [ts : Time, home : Node], NEW d \in [ts : Time, home : Node]
    PROVE  /\ NotLater(c, c)
           /\ NotLater(c, d) /\ NotLater(d, c) => c = d
           /\ \A e \in [ts : Time, home : Node] : NotLater(c, d) /\ NotLater(d, e) => NotLater(c, e)
           /\ NotLater(c, d) \/ (d.ts < c.ts \/ (d.ts = c.ts /\ d.home < c.home))
<1>1. \A x \in Time \cup Node : x \in Nat
  BY DEF Sorts
<1>2. c.ts \in Nat /\ c.home \in Nat /\ d.ts \in Nat /\ d.home \in Nat
  BY <1>1
<1>3. NotLater(c, c)
  BY <1>2 DEF NotLater
<1>4. NotLater(c, d) /\ NotLater(d, c) => c = d
  <2>1. NotLater(c, d) /\ NotLater(d, c) => c.ts = d.ts /\ c.home = d.home
    BY <1>2 DEF NotLater
  <2> QED BY <2>1
<1>5. ASSUME NEW e \in [ts : Time, home : Node], NotLater(c, d), NotLater(d, e) PROVE NotLater(c, e)
  <2>1. e.ts \in Nat /\ e.home \in Nat
    BY <1>1
  <2> QED BY <1>2, <1>5, <2>1 DEF NotLater
<1>6. NotLater(c, d) \/ (d.ts < c.ts \/ (d.ts = c.ts /\ d.home < c.home))
  BY <1>2 DEF NotLater
<1> QED BY <1>3, <1>4, <1>5, <1>6

\* Owners and claims are claims.
LEMMA ClaimTypes ==
    ASSUME Sorts, Types
    PROVE  /\ \A n \in Node, a \in Name : Owner(n, a) # None => Owner(n, a) \in [ts : Time, home : Node]
           /\ \A e \in RP!LogEntry : \A a : Registers(e, a) =>
                a \in Name /\ RP!Global(e) /\ ClaimOf(e) \in [ts : Time, home : Node]
<1>1. ASSUME NEW n \in Node, NEW a \in Name, Owner(n, a) # None
      PROVE  Owner(n, a) \in [ts : Time, home : Node]
  <2>1. accounts[n][a] \in Account
    BY <1>1 DEF Types, Owner
  <2> QED BY <1>1, <2>1 DEF Owner, Account
<1>2. ASSUME NEW e \in RP!LogEntry, NEW a, Registers(e, a)
      PROVE  a \in Name /\ RP!Global(e) /\ ClaimOf(e) \in [ts : Time, home : Node]
  <2>1. e.event \in Event /\ e.event.kind = "AccountRegistered"
    BY <1>2 DEF RP!LogEntry, Registers
  <2>2. e.event \in [kind : {"AccountRegistered"}, name : Name, account : Account]
    BY <2>1 DEF Event, GlobalEvent
  <2> QED BY <1>2, <2>2 DEF Registers, RP!Global, GlobalEvent, ClaimOf, Account
<1> QED BY <1>1, <1>2

\* A claim is not None, so that it and an owner are told apart.
LEMMA OwnerIs ==
    ASSUME Sorts, Types, NEW n \in Node, NEW a \in Name
    PROVE  /\ Owner(n, a) # None <=> accounts[n][a] # None
           /\ accounts[n][a] # None =>
                Owner(n, a) = [ts |-> accounts[n][a].ts, home |-> accounts[n][a].home]
<1>1. accounts[n][a] \in Account \cup {None}
  BY DEF Types
<1>2. accounts[n][a] # None => [ts |-> accounts[n][a].ts, home |-> accounts[n][a].home] # None
  BY <1>1 DEF Account, Sorts
<1> QED BY <1>2 DEF Owner

\* What an event that is not a drop does to the owners on the node it is folded
\* in: a registration gives the name to its claim if that is the earlier one.
LEMMA OwnerEffect ==
    ASSUME Sorts, Types, NEW n \in Node, NEW e \in RP!LogEntry,
           e.event.kind # "AccountDropped", SetStore(n, apply(Store(n), e.event)), Types'
    PROVE  /\ \A m \in Node, b \in Name : m # n => Owner(m, b)' = Owner(m, b)
           /\ \A b \in Name :
                \/ Owner(n, b)' = Owner(n, b)
                \/ /\ Registers(e, b)
                   /\ Owner(n, b)' = ClaimOf(e)
                   /\ Owner(n, b) # None => NotLater(ClaimOf(e), Owner(n, b))
           /\ \A b \in Name : Registers(e, b) =>
                Owner(n, b)' # None /\ NotLater(Owner(n, b)', ClaimOf(e))
<1> DEFINE ev == e.event
           st == apply(Store(n), ev)
<1>1. ev \in Event
  BY DEF RP!LogEntry
<1>2. accounts' = [accounts EXCEPT ![n] = st.accounts]
  BY DEF SetStore
<1>3. \A m \in Node : m # n => accounts'[m] = accounts[m]
  BY <1>2 DEF Types
<1>4. accounts'[n] = st.accounts
  BY <1>2 DEF Types
<1>5. \A m \in Node, b \in Name : m # n => Owner(m, b)' = Owner(m, b)
  BY <1>3 DEF Owner
<1>6. accounts[n] \in [Name -> Account \cup {None}] /\ Store(n).accounts = accounts[n]
  BY DEF Types, Store
<1>7. CASE ev.kind = "AccountRegistered"
  <2>1. ev.name \in Name /\ ev.account \in Account /\ Registers(e, ev.name)
        /\ \A b : Registers(e, b) => b = ev.name
    BY <1>1, <1>7, EventKinds DEF Registers
  <2> DEFINE a == ev.name
             held == accounts[n][a]
  <2>2. st = [Store(n) EXCEPT !.accounts[a] = Claim(@, ev.account)]
    BY <1>7 DEF apply
  <2>3. st.accounts = [accounts[n] EXCEPT ![a] = Claim(held, ev.account)]
    BY <2>2 DEF Store
  <2>4. \A b \in Name : b # a => Owner(n, b)' = Owner(n, b)
    BY <1>4, <2>3 DEF Owner
  <2>5. accounts'[n][a] = Claim(held, ev.account)
    BY <1>4, <1>6, <2>1, <2>3
  <2>6. Owner(n, a)' = IF accounts'[n][a] = None THEN None
                       ELSE [ts |-> accounts'[n][a].ts, home |-> accounts'[n][a].home]
    BY DEF Owner
  <2>7. held \in Account \cup {None} /\ ev.account # None /\ ClaimOf(e) # None
    BY <1>6, <2>1 DEF Sorts, ClaimOf, Account
  <2>8. ClaimOf(e) \in [ts : Time, home : Node]
    BY <2>1 DEF ClaimOf, Account
  <2>9. CASE held # None /\ owns_over(held, ev.account)
    <3>1. Owner(n, a)' = Owner(n, a) /\ Owner(n, a) = [ts |-> held.ts, home |-> held.home]
      BY <2>5, <2>6, <2>9 DEF Owner, Claim
    <3>2. NotLater(Owner(n, a), ClaimOf(e))
      <4>1. held.ts \in Nat /\ held.home \in Nat /\ ev.account.ts \in Nat /\ ev.account.home \in Nat
        BY <2>1, <2>7, <2>9 DEF Account, Sorts
      <4> QED BY <2>9, <3>1, <4>1 DEF NotLater, ClaimOf, owns_over
    <3>3. Owner(n, a)' # None
      BY <2>1, <2>9, <3>1, OwnerIs
    <3> QED BY <1>5, <2>1, <2>4, <3>1, <3>2, <3>3
  <2>10. CASE ~(held # None /\ owns_over(held, ev.account))
    <3>1. Owner(n, a)' = ClaimOf(e)
      BY <2>5, <2>6, <2>7, <2>10 DEF Claim, ClaimOf
    <3>2. ASSUME Owner(n, a) # None PROVE NotLater(ClaimOf(e), Owner(n, a))
      <4>1. held # None /\ Owner(n, a) = [ts |-> held.ts, home |-> held.home]
        BY <3>2 DEF Owner
      <4>2. held.ts \in Nat /\ held.home \in Nat /\ ev.account.ts \in Nat /\ ev.account.home \in Nat
        BY <2>1, <2>7, <4>1 DEF Account, Sorts
      <4> QED BY <2>10, <4>1, <4>2 DEF NotLater, ClaimOf, owns_over
    <3>3. NotLater(ClaimOf(e), ClaimOf(e))
      BY <2>8, ClaimOrder
    <3> QED BY <1>5, <2>1, <2>4, <2>7, <3>1, <3>2, <3>3
  <2> QED BY <2>9, <2>10
<1>8. CASE ev.kind # "AccountRegistered"
  <2>1. \A b \in Name : ~Registers(e, b)
    BY <1>8 DEF Registers
  <2>2. ASSUME NEW b \in Name PROVE Owner(n, b)' = Owner(n, b)
    <3>1. CASE ev.kind = "AccountPasswordSet" /\ ev.name \in Name /\ accounts[n][ev.name] # None
      <4> DEFINE a == ev.name
                 held == accounts[n][a]
      <4>1. st = [Store(n) EXCEPT !.accounts[a].cred = ev.cred]
        BY <1>6, <3>1 DEF apply
      <4>2. st.accounts = [accounts[n] EXCEPT ![a] = [held EXCEPT !.cred = ev.cred]]
        BY <4>1 DEF Store
      <4>3. CASE b # a
        BY <1>4, <4>2, <4>3 DEF Owner
      <4>4. CASE b = a
        <5>1. accounts'[n][b] = [held EXCEPT !.cred = ev.cred]
          BY <1>4, <1>6, <4>2, <4>4
        <5>2. held \in Account
          BY <1>6, <3>1
        <5>3. accounts'[n][b].ts = held.ts /\ accounts'[n][b].home = held.home
          BY <5>1, <5>2 DEF Account
        <5>4. accounts'[n][b] # None
          <6>1. accounts'[n][b] \in [ts : Time, home : Node, cred : {ev.cred}]
            BY <5>1, <5>2 DEF Account
          <6>2. ev.cred \in Cred
            BY <1>1, <3>1, EventKinds
          <6> QED BY <6>1, <6>2 DEF Account, Sorts
        <5>5. Owner(n, b)' = [ts |-> accounts'[n][b].ts, home |-> accounts'[n][b].home]
          BY <5>4 DEF Owner
        <5> QED BY <3>1, <4>4, <5>3, <5>5 DEF Owner
      <4> QED BY <4>3, <4>4
    <3>2. CASE ~(ev.kind = "AccountPasswordSet" /\ ev.name \in Name /\ accounts[n][ev.name] # None)
      <4>1. st.accounts = accounts[n]
        <5>1. CASE ev.kind = "AccountPasswordSet"
          <6>1. ev.name \in Name
            BY <1>1, <5>1, EventKinds
          <6>2. st = Store(n)
            BY <1>6, <3>2, <5>1, <6>1 DEF apply
          <6> QED BY <1>6, <6>2
        <5>2. CASE ev.kind \in {"ChannelRegistered", "ChannelFounderSet"}
          BY <5>2 DEF apply, UpdateChan, Store
        <5>3. CASE ev.kind \in {"ChannelSuccessorSet", "ChannelDropped"}
          BY <5>3 DEF apply, UpdateChan, Store
        <5> QED BY <1>1, <1>8, <5>1, <5>2, <5>3, EventKinds
      <4> QED BY <1>4, <4>1 DEF Owner
    <3> QED BY <3>1, <3>2
  <2> QED BY <1>5, <2>1, <2>2
<1> QED BY <1>7, <1>8

\* What a compaction writes of the accounts: a registration of each, as it is.
LEMMA SnapshotAccounts ==
    ASSUME Sorts, NEW st \in StoreType, NEW evs \in Snapshot(st)
    PROVE  /\ \A i \in 1..Len(evs) :
                /\ evs[i].kind # "AccountDropped"
                /\ evs[i] \in GlobalEvent =>
                     /\ evs[i].kind = "AccountRegistered"
                     /\ evs[i].name \in Registered(st.accounts)
                     /\ evs[i].account = st.accounts[evs[i].name]
           /\ \A a \in Registered(st.accounts) :
                \E i \in 1..Len(evs) : evs[i] = AccountRegistered(a, st.accounts[a])
<1>1. PICK names \in Orders(Registered(st.accounts)), cs \in Orders(Registered(st.chans)) :
         evs = SnapshotOf(st, names, cs)
  BY DEF Snapshot
<1> DEFINE S == Registered(st.accounts)
           C == Registered(st.chans)
           Of == {ev \in Event : ev.kind \in {"ChannelRegistered", "ChannelSuccessorSet"}}
           first == [i \in 1..Len(names) |-> AccountRegistered(names[i], st.accounts[names[i]])]
           pieces == [i \in 1..Len(cs) |-> ChannelEvents(cs[i], st.chans[cs[i]])]
           last == FlattenSeq(pieces)
<1>2. S \subseteq Name /\ IsFiniteSet(S) /\ C \subseteq Chan /\ IsFiniteSet(C)
  BY FS_Subset DEF Sorts, StoreType, Registered
<1>3. names \in Seq(S) /\ (\A a \in S : \E i \in 1..Len(names) : names[i] = a) /\ cs \in Seq(C)
  <2> HIDE DEF S, C
  <2> QED BY <1>2, OrderOf DEF Orders, S, C
<1>4. ASSUME NEW i \in 1..Len(cs) PROVE ChannelEvents(cs[i], st.chans[cs[i]]) \in Seq(Of)
  <2> DEFINE c == cs[i]
             info == st.chans[c]
  <2>1. c \in Chan /\ info \in ChannelInfo
    BY <1>2, <1>3 DEF StoreType, Registered
  <2> HIDE DEF c, info
  <2>2. ChannelRegistered(c, info.founder) \in Of
    BY <2>1 DEF ChannelRegistered, Event, ChannelInfo
  <2>3. ChannelSuccessorSet(c, info.successor) \in Of
    BY <2>1 DEF ChannelSuccessorSet, Event, ChannelInfo
  <2>4. ChannelEvents(c, info) \in Seq(Of)
    <3> DEFINE r == ChannelRegistered(c, info.founder)
               s == ChannelSuccessorSet(c, info.successor)
    <3>1. ChannelEvents(c, info) = <<r>> \o (IF info.successor = None THEN <<>> ELSE <<s>>)
      BY DEF ChannelEvents
    <3> HIDE DEF Of, r, s
    <3> QED BY <2>2, <2>3, <3>1 DEF r, s
  <2> QED BY <2>4 DEF c, info
<1>5. pieces \in Seq(Seq(Of))
  <2> HIDE DEF Of
  <2> QED BY <1>3, <1>4
<1>6. last \in Seq(Of)
  <2> HIDE DEF Of, pieces
  <2>1. PICK f \in [0..Len(pieces) -> Seq(Of)] : FlattenSeq(pieces) = f[Len(pieces)]
    BY <1>5, FlattenGrows
  <2>2. Len(pieces) \in 0..Len(pieces)
    BY <1>5
  <2> QED BY <2>1, <2>2
<1>7. evs = first \o last
  BY <1>1 DEF SnapshotOf
<1>8. Len(names) \in Nat /\ DOMAIN first = 1..Len(names)
  BY <1>3
<1> DEFINE Rs == {AccountRegistered(a, st.accounts[a]) : a \in S}
<1>8a. \A i \in 1..Len(names) : first[i] = AccountRegistered(names[i], st.accounts[names[i]])
  OBVIOUS
<1>9. first \in Seq(Rs)
  <2>1. \A i \in 1..Len(names) : AccountRegistered(names[i], st.accounts[names[i]]) \in Rs
    BY <1>3
  <2> HIDE DEF Rs
  <2> QED BY <1>8, <2>1
<1> HIDE DEF last, Of
<1>10. /\ Len(evs) = Len(first) + Len(last) /\ Len(first) \in Nat /\ Len(last) \in Nat
       /\ Len(first) = Len(names)
       /\ \A i \in 1..Len(first) : evs[i] = first[i]
       /\ \A i \in 1..Len(evs) : i > Len(first) => evs[i] = last[i - Len(first)] /\ i - Len(first) \in 1..Len(last)
  <2> HIDE DEF first, Rs
  <2>1. Len(first) = Len(names) /\ Len(first) \in Nat /\ Len(last) \in Nat
    BY <1>6, <1>8, <1>9
  <2>2. first \in Seq(Rs \cup Of) /\ last \in Seq(Rs \cup Of)
    BY <1>6, <1>9
  <2>3. /\ Len(evs) = Len(first) + Len(last)
        /\ \A i \in 1..(Len(first) + Len(last)) :
             evs[i] = IF i <= Len(first) THEN first[i] ELSE last[i - Len(first)]
    BY <1>7, <2>2, ConcatProperties
  <2> QED BY <2>1, <2>3
<1>11. ASSUME NEW i \in 1..Len(evs)
       PROVE  \/ evs[i] \in Rs
              \/ evs[i] \in Of
  <2> HIDE DEF first
  <2>1. CASE i <= Len(first)
    BY <1>9, <1>10, <2>1
  <2>2. CASE i > Len(first)
    BY <1>6, <1>10, <2>2
  <2> QED BY <1>10, <2>1, <2>2
<1>12. ASSUME NEW x \in Rs
       PROVE  /\ x.kind = "AccountRegistered" /\ x.name \in S /\ x.account = st.accounts[x.name]
  BY DEF AccountRegistered
<1>13. ASSUME NEW x \in Of PROVE x.kind # "AccountDropped" /\ x \notin GlobalEvent
  BY DEF Of, GlobalEvent
<1>14. \A i \in 1..Len(evs) :
         /\ evs[i].kind # "AccountDropped"
         /\ evs[i] \in GlobalEvent =>
              /\ evs[i].kind = "AccountRegistered"
              /\ evs[i].name \in S
              /\ evs[i].account = st.accounts[evs[i].name]
  <2> HIDE DEF Rs, S
  <2> QED BY <1>11, <1>12, <1>13
<1>15. ASSUME NEW a \in S PROVE \E i \in 1..Len(evs) : evs[i] = AccountRegistered(a, st.accounts[a])
  <2>1. PICK i \in 1..Len(names) : names[i] = a
    BY <1>3
  <2>2. first[i] = AccountRegistered(a, st.accounts[a])
    BY <1>8a, <2>1
  <2>3. i \in 1..Len(first) /\ i \in 1..Len(evs)
    BY <1>10
  <2> QED BY <1>10, <2>2, <2>3
<1> QED BY <1>14, <1>15

-----------------------------------------------------------------------------
(* The invariant of the owners, step by step.                              *)

\* What exists after a step, in the logs or in flight.
LEMMA EntryIn ==
    /\ \A n \in Node : RP!Entries(log[n]) \subseteq RP!World
    /\ \A n \in Node : RP!Entries(log'[n]) \subseteq RP!World'
    /\ \A m \in net : m.entry \in RP!World
    /\ \A e \in RP!World' : \/ \E n \in Node : e \in RP!Entries(log'[n])
                            \/ \E m \in net' : e = m.entry
<1>1. RP!World' = (UNION {RP!Entries(log'[n]) : n \in Node}) \cup {m.entry : m \in net'}
  BY DEF RP!World, RP!Entries
<1>2. RP!World = (UNION {RP!Entries(log[n]) : n \in Node}) \cup {m.entry : m \in net}
  BY DEF RP!World
<1>3. \A e \in RP!World' : \/ e \in UNION {RP!Entries(log'[n]) : n \in Node}
                           \/ e \in {m.entry : m \in net'}
  BY <1>1
<1>4. /\ \A n \in Node : RP!Entries(log[n]) \subseteq UNION {RP!Entries(log[k]) : k \in Node}
      /\ \A n \in Node : RP!Entries(log'[n]) \subseteq UNION {RP!Entries(log'[k]) : k \in Node}
  OBVIOUS
<1>5. /\ \A n \in Node : RP!Entries(log[n]) \subseteq RP!World
      /\ \A n \in Node : RP!Entries(log'[n]) \subseteq RP!World'
  BY <1>1, <1>2, <1>4
<1>6. \A m \in net : m.entry \in RP!World
  BY <1>2
<1> QED BY <1>3, <1>5, <1>6

\* What an entry that is appended adds, and what a quiet step does: nothing else.
LEMMA AppendedWorld ==
    ASSUME Sorts, IInv, NEW n \in Node, NEW e \in RP!LogEntry,
           log' = [log EXCEPT ![n] = @ \o <<e>>],
           \A m \in net' : m \in net \/ m.entry = e
    PROVE  /\ RP!Entries(log'[n]) = RP!Entries(log[n]) \cup {e}
           /\ \A m \in Node : m # n => log'[m] = log[m]
           /\ \A x \in RP!World' : x \in RP!World \/ x = e
<1>0. log \in [Node -> Seq(RP!LogEntry)]
  BY DEF IInv, RP!IInv, RP!TypeOK
<1>1. log'[n] = log[n] \o <<e>> /\ log[n] \in Seq(RP!LogEntry) /\ \A m \in Node : m # n => log'[m] = log[m]
  BY <1>0
<1>2. RP!Entries(log[n] \o <<e>>) = RP!Entries(log[n]) \cup {e}
  BY <1>1, Assumed, RP!EntriesAppend
<1> QED BY <1>1, <1>2, EntryIn

\* A quiet step sends nothing that was not in the world before.
LEMMA QuietFlight ==
    ASSUME IInv, Quiet, NEW m \in net'
    PROVE  m.entry \in RP!World
<1>1. CASE m \in net
  BY <1>1, EntryIn
<1>2. CASE \E d \in dig : RP!AnswerDigest(d)
  <2>1. PICK d \in dig : RP!AnswerDigest(d)
    BY <1>2
  <2>2. d.dst \in Node
    BY DEF IInv, RP!IInv, RP!TypeOK, RP!DigestMsg
  <2>3. m \in net \/ m.entry \in RP!missing_for(log[d.dst], d.versions)
    BY <2>1 DEF RP!AnswerDigest
  <2> QED BY <2>2, <2>3, EntryIn DEF RP!missing_for
<1> QED BY <1>1, <1>2 DEF Quiet

\* An entry is folded in: written here, or taken from a peer that wrote it.
LEMMA AppendOwners ==
    ASSUME Sorts, IInv, Owners, Types', NEW n \in Node, NEW e \in RP!LogEntry,
           log' = [log EXCEPT ![n] = @ \o <<e>>], epoch' = epoch,
           \A m \in net' : m \in net \/ m.entry = e,
           SetStore(n, apply(Store(n), e.event)),
           e.event.kind # "AccountDropped",
           \/ /\ e.origin = n
              /\ RP!Global(e) => /\ e.epoch = epoch[n]
                                 /\ Registers(e, e.event.name) \/ Owner(n, e.event.name) # None
           \/ e \in RP!World /\ e.origin # n
    PROVE  Owners'
<1> USE DEF Owners
<1>0. Types /\ log \in [Node -> Seq(RP!LogEntry)] /\ RP!World \subseteq RP!LogEntry
  <2>1. RP!TypeOK
    BY DEF IInv, RP!IInv
  <2>2. RP!World \subseteq RP!LogEntry
    BY <2>1, Assumed, RP!WorldType
  <2> QED BY <2>1, <2>2 DEF IInv, RP!TypeOK
<1>1. RP!Entries(log'[n]) = RP!Entries(log[n]) \cup {e} /\ \A m \in Node : m # n => log'[m] = log[m]
  BY AppendedWorld
<1>2. \A m \in Node : /\ RP!Entries(log[m]) \subseteq RP!Entries(log'[m])
                      /\ \A x \in RP!Entries(log'[m]) : x \in RP!Entries(log[m]) \/ (m = n /\ x = e)
  BY <1>1
<1>3. \A x \in RP!World' : x \in RP!World \/ x = e
  BY <1>2, EntryIn
<1>4. /\ \A m \in Node, b \in Name : m # n => Owner(m, b)' = Owner(m, b)
      /\ \A b \in Name :
           \/ Owner(n, b)' = Owner(n, b)
           \/ /\ Registers(e, b)
              /\ Owner(n, b)' = ClaimOf(e)
              /\ Owner(n, b) # None => NotLater(ClaimOf(e), Owner(n, b))
      /\ \A b \in Name : Registers(e, b) =>
           Owner(n, b)' # None /\ NotLater(Owner(n, b)', ClaimOf(e))
  BY <1>0, OwnerEffect
<1>5. /\ \A m \in Node, b \in Name : Owner(m, b) # None => Owner(m, b) \in [ts : Time, home : Node]
      /\ \A m \in Node, b \in Name : Owner(m, b)' # None => Owner(m, b)' \in [ts : Time, home : Node]
      /\ \A x \in RP!LogEntry : \A a : Registers(x, a) =>
           a \in Name /\ RP!Global(x) /\ ClaimOf(x) \in [ts : Time, home : Node]
  <2>1. \A m \in Node, b \in Name : Owner(m, b)' # None => Owner(m, b)' \in [ts : Time, home : Node]
    BY DEF Types, Owner, Account
  <2> QED BY <1>0, <2>1, ClaimTypes
<1>6. ASSUME NEW m \in Node, NEW b \in Name, Owner(m, b) # None
      PROVE  Owner(m, b)' # None /\ NotLater(Owner(m, b)', Owner(m, b))
  <2>1. NotLater(Owner(m, b), Owner(m, b))
    BY <1>5, <1>6, ClaimOrder
  <2> QED BY <1>4, <1>6, <2>1
<1>7. NothingDropped'
  BY <1>3 DEF NothingDropped
<1>8. Claimed'
  <2> SUFFICES ASSUME NEW m \in Node, NEW a \in Name, Owner(m, a)' # None
               PROVE  \E x \in RP!Entries(log'[m]) : Registers(x, a) /\ ClaimOf(x) = Owner(m, a)'
    BY DEF Claimed, Registers, ClaimOf, RP!Entries
  <2>1. CASE Owner(m, a)' = Owner(m, a)
    BY <1>2, <2>1 DEF Claimed
  <2>2. CASE Owner(m, a)' # Owner(m, a)
    BY <1>1, <1>4, <2>2
  <2> QED BY <2>1, <2>2
<1>9. Earliest'
  <2> SUFFICES ASSUME NEW m \in Node, NEW a \in Name, NEW x \in RP!Entries(log'[m]), Registers(x, a)
               PROVE  Owner(m, a)' # None /\ NotLater(Owner(m, a)', ClaimOf(x))
    BY DEF Earliest, Registers, ClaimOf, RP!Entries
  <2>1. CASE x \in RP!Entries(log[m])
    <3>1. Owner(m, a) # None /\ NotLater(Owner(m, a), ClaimOf(x)) /\ x \in RP!LogEntry
      BY <1>0, <2>1, EntryIn DEF Earliest
    <3>2. Owner(m, a)' # None /\ NotLater(Owner(m, a)', Owner(m, a))
      BY <1>6, <3>1
    <3> QED BY <1>5, <3>1, <3>2, ClaimOrder
  <2>2. CASE m = n /\ x = e
    BY <1>4, <2>2
  <2> QED BY <1>2, <2>1, <2>2
<1>10. Vouched'
  <2> SUFFICES ASSUME NEW a \in Name, NEW x \in RP!World', Registers(x, a)
               PROVE  \E f \in RP!OwnEntries(log'[x.origin], x.origin) :
                        Registers(f, a) /\ NotLater(ClaimOf(f), ClaimOf(x))
    BY DEF Vouched, Registers, ClaimOf, RP!OwnEntries, RP!Entries
  <2>1. CASE x \in RP!World
    <3>1. x.origin \in Node
      BY <1>0, <2>1 DEF RP!LogEntry
    <3> QED BY <1>2, <2>1, <3>1 DEF Vouched, RP!OwnEntries
  <2>2. CASE x = e /\ e.origin = n
    <3>1. NotLater(ClaimOf(e), ClaimOf(e))
      BY <1>5, <2>2, ClaimOrder
    <3>2. e \in RP!OwnEntries(log'[n], n)
      BY <1>1, <2>2 DEF RP!OwnEntries
    <3> QED BY <2>2, <3>1, <3>2
  <2> QED BY <1>3, <2>1, <2>2
<1>11. OwnAreCurrent'
  <2> SUFFICES ASSUME NEW m \in Node, NEW x \in RP!GlobalsOf(log'[m], m)
               PROVE  x.epoch = epoch'[m]
    BY DEF OwnAreCurrent, RP!GlobalsOf, RP!Entries, RP!Global
  <2>1. CASE x \in RP!Entries(log[m])
    BY <2>1 DEF OwnAreCurrent, RP!GlobalsOf
  <2>2. CASE m = n /\ x = e
    BY <2>2 DEF RP!GlobalsOf
  <2> QED BY <1>2, <2>1, <2>2 DEF RP!GlobalsOf
<1>12. KnownAtHome'
  <2> SUFFICES ASSUME NEW x \in RP!World', RP!Global(x)
               PROVE  /\ Owner(x.origin, x.event.name)' # None
                      /\ RP!GlobalsOf(log'[x.origin], x.origin) # {}
    BY DEF KnownAtHome, RP!GlobalsOf, RP!Entries, RP!Global, Owner
  <2>1. x \in RP!LogEntry
    BY <1>0, <1>3
  <2>2. x.origin \in Node /\ x.event.name \in Name
    BY <2>1 DEF RP!LogEntry, RP!Global, GlobalEvent
  <2>3. CASE x \in RP!World
    <3>1. Owner(x.origin, x.event.name) # None /\ RP!GlobalsOf(log[x.origin], x.origin) # {}
      BY <2>3 DEF KnownAtHome
    <3> QED BY <1>2, <1>6, <2>2, <3>1 DEF RP!GlobalsOf
  <2>4. CASE x = e /\ e.origin = n
    <3>1. e \in RP!GlobalsOf(log'[n], n)
      BY <1>1, <2>4 DEF RP!GlobalsOf
    <3>2. Owner(n, e.event.name)' # None
      BY <1>4, <1>6, <2>2, <2>4
    <3> QED BY <2>4, <3>1, <3>2
  <2> QED BY <1>3, <2>3, <2>4
<1> QED BY <1>7, <1>8, <1>9, <1>10, <1>11, <1>12

\* A compaction writes down the owners as they are.
LEMMA CompactClaims ==
    ASSUME Sorts, IInv, NEW n \in Node, Compacted(n)
    PROVE  /\ epoch' = [epoch EXCEPT ![n] = @ + 1]
           /\ \A m \in Node : m # n => log'[m] = log[m]
           /\ \A m \in Node, a \in Name : Owner(m, a)' = Owner(m, a)
           /\ \A x \in RP!World' : x \in RP!World \/ x \in RP!Entries(log'[n])
           /\ RP!Entries(log'[n]) \subseteq RP!LogEntry
           /\ \A f \in RP!Entries(log'[n]) :
                /\ f.origin = n /\ f.epoch = epoch[n] + 1
                /\ f.event.kind # "AccountDropped"
                /\ RP!Global(f) => /\ f.event.name \in Name
                                   /\ Registers(f, f.event.name)
                                   /\ Owner(n, f.event.name) # None
                /\ \A a : Registers(f, a) => /\ a \in Name
                                             /\ Owner(n, a) # None
                                             /\ ClaimOf(f) = Owner(n, a)
           /\ \A a \in Name : Owner(n, a) # None =>
                \E f \in RP!Entries(log'[n]) :
                    Registers(f, a) /\ RP!Global(f) /\ ClaimOf(f) = Owner(n, a)
<1>1. PICK evs \in Snapshot(Store(n)) : RP!Compact(n, evs) /\ UNCHANGED <<accounts, chans>>
  BY DEF Compacted
<1> DEFINE cl == RP!CompactedLog(n, epoch[n] + 1, evs)
           New == RP!Entries(cl)
<1>2. Types /\ RP!TypeOK
  BY DEF IInv, RP!IInv
<1>3. /\ log \in [Node -> Seq(RP!LogEntry)] /\ epoch \in [Node -> Nat] /\ RP!World \subseteq RP!LogEntry
      /\ \A m \in Node : RP!Entries(log[m]) \subseteq RP!LogEntry
  BY <1>2, Assumed, RP!WorldType, EntryIn DEF RP!TypeOK
<1>4. evs \in Seq(Event) /\ Store(n) \in StoreType
  BY <1>2, StoreTyped, ReplaySnapshot
<1>5. /\ log' = [log EXCEPT ![n] = cl] /\ epoch' = [epoch EXCEPT ![n] = @ + 1]
      /\ net' = net /\ evs # <<>>
  BY <1>1 DEF RP!Compact
<1>6. \A m \in Node, a \in Name : Owner(m, a)' = Owner(m, a)
  BY <1>1 DEF Owner
<1>7. /\ \A f \in New : f.origin = n /\ f.epoch = epoch[n] + 1
      /\ New \subseteq RP!LogEntry
  <2>1. epoch[n] + 1 \in Nat
    BY <1>3
  <2>2. \A f \in New : f.origin = n /\ f.epoch = epoch[n] + 1
    BY DEF RP!CompactedLog, RP!Entries
  <2>3. cl \in Seq(RP!LogEntry)
    BY <1>4, <2>1, Assumed, RP!CompactedType
  <2> HIDE DEF cl
  <2> QED BY <2>2, <2>3 DEF RP!Entries
<1>8. /\ \A f \in New : \E i \in 1..Len(evs) : f.event = evs[i]
      /\ \A i \in 1..Len(evs) : \E f \in New : f.event = evs[i]
  <2>1. DOMAIN cl = 1..Len(evs) /\ \A i \in 1..Len(evs) : cl[i].event = evs[i]
    BY DEF RP!CompactedLog
  <2> HIDE DEF cl
  <2> QED BY <2>1 DEF RP!Entries
<1>9. Registered(Store(n).accounts) = {a \in Name : accounts[n][a] # None} /\ Store(n).accounts = accounts[n]
  BY <1>2 DEF Registered, Store, Types
<1>10. /\ \A f \in New :
            /\ f.event.kind # "AccountDropped"
            /\ RP!Global(f) => /\ f.event.name \in Name
                               /\ Registers(f, f.event.name)
                               /\ Owner(n, f.event.name) # None
            /\ \A a : Registers(f, a) => /\ a \in Name
                                         /\ Owner(n, a) # None
                                         /\ ClaimOf(f) = Owner(n, a)
       /\ \A a \in Name : Owner(n, a) # None =>
            \E f \in New : Registers(f, a) /\ RP!Global(f) /\ ClaimOf(f) = Owner(n, a)
  <2>1. /\ \A i \in 1..Len(evs) :
             /\ evs[i].kind # "AccountDropped"
             /\ evs[i] \in GlobalEvent =>
                  /\ evs[i].kind = "AccountRegistered"
                  /\ evs[i].name \in Name /\ accounts[n][evs[i].name] # None
                  /\ evs[i].account = accounts[n][evs[i].name]
        /\ \A a \in Name : accounts[n][a] # None =>
             \E i \in 1..Len(evs) : evs[i] = AccountRegistered(a, accounts[n][a])
    <3>1. /\ \A i \in 1..Len(evs) :
               /\ evs[i].kind # "AccountDropped"
               /\ evs[i] \in GlobalEvent =>
                    /\ evs[i].kind = "AccountRegistered"
                    /\ evs[i].name \in Registered(Store(n).accounts)
                    /\ evs[i].account = Store(n).accounts[evs[i].name]
          /\ \A a \in Registered(Store(n).accounts) :
               \E i \in 1..Len(evs) : evs[i] = AccountRegistered(a, Store(n).accounts[a])
      BY <1>4, SnapshotAccounts
    <3> QED BY <1>9, <3>1
  <2> HIDE DEF New
  <2>2. ASSUME NEW f \in New, NEW a, Registers(f, a)
        PROVE  a \in Name /\ RP!Global(f) /\ f.event.name = a /\ f.event.kind = "AccountRegistered"
    BY <1>2, <1>7, <2>2, ClaimTypes DEF Registers
  <2>3. ASSUME NEW f \in New
        PROVE  /\ f.event.kind # "AccountDropped"
               /\ RP!Global(f) => /\ f.event.name \in Name
                                  /\ Registers(f, f.event.name)
                                  /\ Owner(n, f.event.name) # None
                                  /\ ClaimOf(f) = Owner(n, f.event.name)
    <3>1. PICK i \in 1..Len(evs) : f.event = evs[i]
      BY <1>8
    <3> HIDE DEF cl
    <3>2. ASSUME RP!Global(f)
          PROVE  /\ f.event.name \in Name
                 /\ Registers(f, f.event.name)
                 /\ Owner(n, f.event.name) # None
                 /\ ClaimOf(f) = Owner(n, f.event.name)
      <4> DEFINE a == f.event.name
      <4>1. /\ a \in Name /\ accounts[n][a] # None /\ f.event.account = accounts[n][a]
            /\ f.event.kind = "AccountRegistered"
        BY <2>1, <3>1, <3>2 DEF RP!Global
      <4>2. Owner(n, a) # None /\ Owner(n, a) = [ts |-> accounts[n][a].ts, home |-> accounts[n][a].home]
        BY <1>2, <4>1, OwnerIs
      <4> QED BY <4>1, <4>2 DEF Registers, ClaimOf
    <3> QED BY <2>1, <3>1, <3>2
  <2>4. ASSUME NEW a \in Name, Owner(n, a) # None
        PROVE  \E f \in New : Registers(f, a) /\ RP!Global(f) /\ ClaimOf(f) = Owner(n, a)
    <3>1. accounts[n][a] # None /\ Owner(n, a) = [ts |-> accounts[n][a].ts, home |-> accounts[n][a].home]
      BY <1>2, <2>4, OwnerIs
    <3>2. PICK i \in 1..Len(evs) : evs[i] = AccountRegistered(a, accounts[n][a])
      BY <2>1, <3>1
    <3>3. PICK f \in New : f.event = evs[i]
      BY <1>8, <3>2
    <3>4. Registers(f, a) /\ ClaimOf(f) = Owner(n, a)
      BY <3>1, <3>2, <3>3 DEF Registers, ClaimOf, AccountRegistered
    <3> QED BY <2>2, <3>4
  <2> QED BY <2>2, <2>3, <2>4
<1>11. RP!Entries(log'[n]) = New /\ \A m \in Node : m # n => log'[m] = log[m]
  BY <1>3, <1>5
<1> HIDE DEF New, cl
<1>12. \A x \in RP!World' : x \in RP!World \/ x \in New
  BY <1>5, <1>11, EntryIn
<1> QED BY <1>5, <1>6, <1>7, <1>10, <1>11, <1>12

\* A compaction restates what its node knew.
LEMMA CompactOwners ==
    ASSUME Sorts, IInv, Owners, NEW n \in Node, Compacted(n)
    PROVE  Owners'
<1> USE DEF Owners
<1> DEFINE New == RP!Entries(log'[n])
<1>2. Types /\ RP!TypeOK
  BY DEF IInv, RP!IInv
<1>3. /\ epoch \in [Node -> Nat] /\ RP!World \subseteq RP!LogEntry
      /\ \A m \in Node : RP!Entries(log[m]) \subseteq RP!LogEntry
  BY <1>2, Assumed, RP!WorldType, EntryIn DEF RP!TypeOK
<1>C. /\ epoch' = [epoch EXCEPT ![n] = @ + 1]
      /\ \A m \in Node : m # n => log'[m] = log[m]
      /\ \A m \in Node, a \in Name : Owner(m, a)' = Owner(m, a)
      /\ \A x \in RP!World' : x \in RP!World \/ x \in New
      /\ New \subseteq RP!LogEntry
      /\ \A f \in New :
           /\ f.origin = n /\ f.epoch = epoch[n] + 1
           /\ f.event.kind # "AccountDropped"
           /\ RP!Global(f) => /\ f.event.name \in Name
                              /\ Registers(f, f.event.name)
                              /\ Owner(n, f.event.name) # None
           /\ \A a : Registers(f, a) => /\ a \in Name
                                        /\ Owner(n, a) # None
                                        /\ ClaimOf(f) = Owner(n, a)
      /\ \A a \in Name : Owner(n, a) # None =>
           \E f \in New : Registers(f, a) /\ RP!Global(f) /\ ClaimOf(f) = Owner(n, a)
  BY CompactClaims
<1>11. RP!Entries(log'[n]) = New
  OBVIOUS
<1> HIDE DEF New
<1>13. \A m \in Node, a \in Name : Owner(m, a) # None => Owner(m, a) \in [ts : Time, home : Node]
  BY <1>2, ClaimTypes
<1>14. \A x \in RP!LogEntry : \A a : Registers(x, a) =>
         a \in Name /\ RP!Global(x) /\ ClaimOf(x) \in [ts : Time, home : Node]
  BY <1>2, ClaimTypes
<1>15. \A x \in New : \A a : Registers(x, a) => NotLater(Owner(n, a), ClaimOf(x)) /\ NotLater(ClaimOf(x), Owner(n, a))
  BY <1>C, <1>13, ClaimOrder
<1>16. NothingDropped'
  BY <1>C DEF NothingDropped
<1>17. Claimed'
  <2> SUFFICES ASSUME NEW m \in Node, NEW a \in Name, Owner(m, a)' # None
               PROVE  \E x \in RP!Entries(log'[m]) : Registers(x, a) /\ ClaimOf(x) = Owner(m, a)'
    BY DEF Claimed, Registers, ClaimOf, RP!Entries
  <2>1. CASE m = n
    BY <1>C, <1>11, <2>1
  <2>2. CASE m # n
    BY <1>C, <1>11, <2>2 DEF Claimed
  <2> QED BY <2>1, <2>2
<1>18. Earliest'
  <2> SUFFICES ASSUME NEW m \in Node, NEW a \in Name, NEW x \in RP!Entries(log'[m]), Registers(x, a)
               PROVE  Owner(m, a)' # None /\ NotLater(Owner(m, a)', ClaimOf(x))
    BY DEF Earliest, Registers, ClaimOf, RP!Entries
  <2>1. CASE m = n
    BY <1>C, <1>11, <1>15, <2>1
  <2>2. CASE m # n
    BY <1>C, <1>11, <2>2 DEF Earliest
  <2> QED BY <2>1, <2>2
<1>19. Vouched'
  <2> SUFFICES ASSUME NEW a \in Name, NEW x \in RP!World', Registers(x, a)
               PROVE  \E f \in RP!OwnEntries(log'[x.origin], x.origin) :
                        Registers(f, a) /\ NotLater(ClaimOf(f), ClaimOf(x))
    BY DEF Vouched, Registers, ClaimOf, RP!OwnEntries, RP!Entries
  <2>0. x \in RP!LogEntry /\ x.origin \in Node
    BY <1>3, <1>C DEF RP!LogEntry
  <2>1. ASSUME x.origin = n, Owner(n, a) # None, NotLater(Owner(n, a), ClaimOf(x))
        PROVE  \E f \in RP!OwnEntries(log'[x.origin], x.origin) :
                 Registers(f, a) /\ NotLater(ClaimOf(f), ClaimOf(x))
    BY <1>C, <1>11, <2>1 DEF RP!OwnEntries
  <2>2. CASE x \in New
    BY <1>C, <1>15, <2>1, <2>2
  <2>3. CASE x \in RP!World
    <3>1. PICK f \in RP!OwnEntries(log[x.origin], x.origin) :
             Registers(f, a) /\ NotLater(ClaimOf(f), ClaimOf(x))
      BY <2>3 DEF Vouched
    <3>2. CASE x.origin = n
      <4>1. f \in RP!Entries(log[n]) /\ f \in RP!LogEntry
        BY <1>3, <3>1, <3>2 DEF RP!OwnEntries
      <4>2. Owner(n, a) # None /\ NotLater(Owner(n, a), ClaimOf(f))
        BY <3>1, <4>1 DEF Earliest
      <4>3. NotLater(Owner(n, a), ClaimOf(x))
        BY <1>13, <1>14, <2>0, <3>1, <4>1, <4>2, ClaimOrder
      <4> QED BY <2>1, <3>2, <4>2, <4>3
    <3>3. CASE x.origin # n
      BY <1>11, <1>C, <2>0, <3>1, <3>3
    <3> QED BY <3>2, <3>3
  <2> QED BY <1>C, <2>2, <2>3
<1>20. OwnAreCurrent'
  <2> SUFFICES ASSUME NEW m \in Node, NEW x \in RP!GlobalsOf(log'[m], m)
               PROVE  x.epoch = epoch'[m]
    BY DEF OwnAreCurrent, RP!GlobalsOf, RP!Entries, RP!Global
  <2>1. CASE m = n
    BY <1>3, <1>C, <1>11, <2>1 DEF RP!GlobalsOf
  <2>2. CASE m # n
    BY <1>3, <1>C, <1>11, <2>2 DEF OwnAreCurrent
  <2> QED BY <2>1, <2>2
<1>21. KnownAtHome'
  <2> SUFFICES ASSUME NEW x \in RP!World', RP!Global(x)
               PROVE  /\ Owner(x.origin, x.event.name)' # None
                      /\ RP!GlobalsOf(log'[x.origin], x.origin) # {}
    BY DEF KnownAtHome, RP!GlobalsOf, RP!Entries, RP!Global, Owner
  <2>1. x \in RP!LogEntry /\ x.origin \in Node /\ x.event.name \in Name
    BY <1>3, <1>C DEF RP!LogEntry, RP!Global, GlobalEvent
  <2>2. Owner(x.origin, x.event.name) # None
    <3>1. CASE x \in RP!World
      BY <3>1 DEF KnownAtHome
    <3>2. CASE x \in New
      BY <1>C, <3>2
    <3> QED BY <1>C, <3>1, <3>2
  <2>3. RP!GlobalsOf(log'[x.origin], x.origin) # {}
    <3>1. CASE x.origin = n
      <4>1. PICK f \in New : RP!Global(f)
        BY <1>C, <2>1, <2>2, <3>1
      <4>2. f \in RP!GlobalsOf(log'[n], n)
        BY <1>C, <1>11, <4>1 DEF RP!GlobalsOf
      <4> QED BY <3>1, <4>2
    <3>2. CASE x.origin # n
      <4>1. x \in RP!World
        BY <1>C, <3>2
      <4> QED BY <1>11, <1>C, <2>1, <3>2, <4>1 DEF KnownAtHome
    <3> QED BY <3>1, <3>2
  <2> QED BY <1>C, <2>1, <2>2, <2>3
<1> QED BY <1>16, <1>17, <1>18, <1>19, <1>20, <1>21

\* Nothing new is written; a restart may have gone back on an epoch that only
\* a compaction of Local events had used.
LEMMA SameOwners ==
    ASSUME Sorts, IInv, Owners, UNCHANGED <<log, accounts>>,
           \A m \in net' : m.entry \in RP!World,
           OwnAreCurrent'
    PROVE  Owners'
<1> USE DEF Owners
<1>1. \A x \in RP!World' : x \in RP!World
  BY EntryIn
<1>2. Claimed' /\ Earliest'
  <2>1. \A n, a : Owner(n, a)' = Owner(n, a)
    BY DEF Owner
  <2>2. Claimed'
    BY <2>1 DEF Claimed, Registers, ClaimOf, RP!Entries
  <2>3. Earliest'
    BY <2>1 DEF Earliest, Registers, ClaimOf, RP!Entries
  <2> QED BY <2>2, <2>3
<1>3. NothingDropped'
  BY <1>1 DEF NothingDropped
<1>4. Vouched'
  <2> SUFFICES ASSUME NEW a \in Name, NEW x \in RP!World', Registers(x, a)
               PROVE  \E f \in RP!OwnEntries(log'[x.origin], x.origin) :
                        Registers(f, a) /\ NotLater(ClaimOf(f), ClaimOf(x))
    BY DEF Vouched, Registers, ClaimOf, RP!OwnEntries, RP!Entries
  <2> QED BY <1>1 DEF Vouched
<1>5. KnownAtHome'
  BY <1>1 DEF KnownAtHome, RP!GlobalsOf, RP!Entries, RP!Global, Owner
<1> QED BY <1>2, <1>3, <1>4, <1>5

\* A restart replays the same log; its clock comes back from it.
LEMMA RestartOwners ==
    ASSUME Sorts, IInv, Owners, NEW n \in Node, Restarted(n)
    PROVE  Owners'
<1>1. /\ epoch' = [epoch EXCEPT ![n] = RP!AbsorbedEpoch(log[n], n)]
      /\ UNCHANGED <<log, accounts>> /\ net' \subseteq net
  BY DEF Restarted, RP!Restart, RP!Surviving
<1>2. RP!TypeOK /\ RP!OwnEpochs
  BY DEF IInv, RP!IInv
<1>3. log[n] \in Seq(RP!LogEntry) /\ epoch \in [Node -> Nat]
  BY <1>2 DEF RP!TypeOK
<1>4. \A e \in RP!OwnEntries(log[n], n) : e.epoch <= epoch[n]
  BY <1>2 DEF RP!OwnEpochs
<1>5. ASSUME NEW e \in RP!GlobalsOf(log[n], n) PROVE e.epoch = RP!AbsorbedEpoch(log[n], n)
  <2>1. e \in RP!OwnEntries(log[n], n) /\ e.epoch = epoch[n]
    BY DEF RP!OwnEntries, RP!GlobalsOf, Owners, OwnAreCurrent
  <2>2. /\ RP!AbsorbedEpoch(log[n], n) \in Nat
        /\ \A x \in RP!OwnEntries(log[n], n) : x.epoch <= RP!AbsorbedEpoch(log[n], n)
    BY <1>3, <1>4, Assumed, RP!AbsorbedEpochMax
  <2>3. RP!AbsorbedEpoch(log[n], n) <= epoch[n]
    <3>1. RP!OwnEntries(log[n], n) # {}
      BY <2>1
    <3>2. RP!AbsorbedEpoch(log[n], n) =
            (CHOOSE x \in RP!OwnEntries(log[n], n) :
               \A f \in RP!OwnEntries(log[n], n) : f.epoch <= x.epoch).epoch
      BY <3>1 DEF RP!AbsorbedEpoch
    <3>3. \A f \in RP!OwnEntries(log[n], n) : f.epoch <= e.epoch
      BY <1>4, <2>1
    <3>4. (CHOOSE x \in RP!OwnEntries(log[n], n) :
             \A f \in RP!OwnEntries(log[n], n) : f.epoch <= x.epoch) \in RP!OwnEntries(log[n], n)
      BY <2>1, <3>3
    <3> QED BY <1>4, <3>2, <3>4
  <2>4. epoch[n] \in Nat
    BY <1>3
  <2>5. epoch[n] <= RP!AbsorbedEpoch(log[n], n)
    BY <2>1, <2>2
  <2> QED BY <2>1, <2>2, <2>3, <2>4, <2>5
<1>6. OwnAreCurrent'
  <2> SUFFICES ASSUME NEW m \in Node, NEW x \in RP!GlobalsOf(log[m], m)
               PROVE  x.epoch = epoch'[m]
    BY <1>1 DEF OwnAreCurrent, RP!GlobalsOf, RP!Entries, RP!Global
  <2>1. CASE m = n
    BY <1>1, <1>3, <1>5, <2>1
  <2>2. CASE m # n
    BY <1>1, <1>3, <2>2 DEF Owners, OwnAreCurrent
  <2> QED BY <2>1, <2>2
<1> QED BY <1>1, <1>6, EntryIn, SameOwners

\* A quiet step changes nobody's store.
LEMMA QuietOwners ==
    ASSUME Sorts, IInv, Owners, Quiet
    PROVE  Owners'
<1>1. UNCHANGED <<log, epoch, accounts>>
  BY DEF Quiet
<1>2. \A m \in net' : m.entry \in RP!World
  BY QuietFlight
<1>3. OwnAreCurrent'
  BY <1>1 DEF Owners, OwnAreCurrent, RP!GlobalsOf, RP!Entries, RP!Global
<1> QED BY <1>1, <1>2, <1>3, SameOwners

\* An entry of its own that a node could accept again does not exist.
LEMMA TakenIsForeign ==
    ASSUME Sorts, IInv, Owners, NEW m \in net, Taken(m)
    PROVE  m.entry.origin # m.dst
<1> DEFINE e == m.entry
           o == e.origin
           c == versions[o][o]
<1>1. e \in RP!World /\ RP!Global(e) /\ e \in RP!LogEntry /\ o \in Node
  BY TakenEntry, EntryIn DEF Taken, RP!accept, RP!LogEntry
<1>2. RP!TypeOK /\ RP!OwnEpochs /\ RP!Witnessed /\ RP!CursorIsMax
  BY DEF IInv, RP!IInv
<1>3. \/ e.epoch < epoch[o]
      \/ /\ e.epoch = epoch[o]
         /\ c # None
         /\ c.epoch = epoch[o]
         /\ e.seq <= c.seq
  BY <1>1, <1>2, Assumed, RP!AuthorLeads
<1>4. c # None /\ c.epoch = epoch[o]
  <2>1. RP!GlobalsOf(log[o], o) # {}
    BY <1>1 DEF Owners, KnownAtHome
  <2>2. c # None /\ \E f \in RP!GlobalsOf(log[o], o) : RP!CursorOf(f) = c
    BY <1>1, <1>2, <2>1 DEF RP!CursorIsMax
  <2>3. \A f \in RP!GlobalsOf(log[o], o) : f.epoch = epoch[o]
    BY <1>1 DEF Owners, OwnAreCurrent
  <2> QED BY <2>2, <2>3 DEF RP!CursorOf
<1>5. c \in RP!Cursor /\ epoch[o] \in Nat /\ e.epoch \in Nat /\ e.seq \in Nat
  BY <1>1, <1>2, <1>4 DEF RP!TypeOK, RP!VersionVector, RP!LogEntry
<1>6. ~RP!InOrder(c, e)
  <2>1. c.epoch \in Nat /\ c.seq \in Nat
    BY <1>5 DEF RP!Cursor
  <2> HIDE DEF c
  <2> QED BY <1>3, <1>4, <1>5, <2>1 DEF RP!InOrder
<1> QED BY <1>6 DEF Taken, RP!accept

\* Nobody drops anything, so no handler has anything to clean up.
LEMMA IdleStep ==
    ASSUME Sorts, Undropped, IInv, AllIdle, Owners, [Next]_fedVars
    PROVE  AllIdle'
<1>0. Types /\ \A n \in Node : todo[n] = <<>>
  BY DEF IInv, AllIdle, Idle
<1>1. ASSUME UNCHANGED todo PROVE AllIdle'
  BY <1>1 DEF AllIdle, Idle
<1>2. ASSUME NEW n \in Node, Commands(n) PROVE UNCHANGED todo
  <2>1. \A a \in Name : ~DropAccount(n, a)
    BY DEF DropAccount, Command, Undropped
  <2> QED BY <1>2, <2>1 DEF Commands, RegisterAccount, SetPassword, Identify, RegisterChannel,
            SetFounder, SetSuccessor, SetReadonly, dbVars
<1>3. ASSUME NEW n \in Node PROVE ~Proceed(n)
  BY DEF Proceed, AllIdle
<1>4. ASSUME NEW n \in Node, Compact(n) PROVE UNCHANGED todo
  BY <1>4 DEF Compact, dbVars
<1>5. ASSUME NEW n \in Node, Restart(n) PROVE AllIdle'
  BY <1>0, <1>5 DEF Restart, AllIdle, Idle, Types
<1>6. ASSUME NEW m \in net, gossip_ingest(m) PROVE UNCHANGED todo
  <2>1. CASE ~(R!accept(versions[m.dst], Trust[m.dst], m.entry) /\ Watched(m.entry.event))
    BY <1>6, <2>1 DEF gossip_ingest, dbVars
  <2>2. CASE R!accept(versions[m.dst], Trust[m.dst], m.entry) /\ Watched(m.entry.event)
    <3> DEFINE n == m.dst
               ev == m.entry.event
               st == apply(Store(n), ev)
    <3>1. handle_account_gone(n, ev.name, accounts[n][ev.name], st) /\ RP!Ingest(m)
      BY <1>6, <2>2, SameGossip DEF gossip_ingest
    <3>2. Taken(m)
      BY <1>6, <2>2, SameGossip DEF gossip_ingest, Taken
    <3>3. n \in Node /\ ev \in GlobalEvent /\ ev.kind # "AccountDropped"
      BY <3>2, TakenEntry, EntryIn DEF Owners, NothingDropped
    <3>4. ev.kind = "AccountRegistered" /\ ev.name \in Name /\ ev.account \in Account
      BY <2>2, <3>3 DEF Watched, GlobalEvent
    <3>5. st.accounts[ev.name] = Claim(accounts[n][ev.name], ev.account)
      <4>1. Store(n).accounts = accounts[n] /\ accounts[n] \in [Name -> Account \cup {None}]
        BY <1>0, <3>3 DEF Store, Types
      <4>2. st = [Store(n) EXCEPT !.accounts[ev.name] = Claim(@, ev.account)]
        BY <3>4 DEF apply
      <4>3. st.accounts = [accounts[n] EXCEPT ![ev.name] = Claim(accounts[n][ev.name], ev.account)]
        BY <4>2 DEF Store
      <4> HIDE DEF st
      <4> QED BY <3>4, <4>1, <4>3
    <3>6. st.accounts[ev.name] # None
      BY <3>4, <3>5 DEF Claim, Sorts
    <3> HIDE DEF st
    <3> QED BY <3>1, <3>6 DEF handle_account_gone
  <2> QED BY <2>1, <2>2
<1>7. ASSUME Sessions PROVE UNCHANGED todo
  BY <1>7 DEF Sessions, dbVars
<1>8. CASE UNCHANGED fedVars
  BY <1>1, <1>8 DEF fedVars
<1> QED BY <1>1, <1>2, <1>3, <1>4, <1>5, <1>6, <1>7, <1>8 DEF Next

\* The owners' invariant, over the steps that StoreMoves tells apart.
LEMMA OwnersStep ==
    ASSUME Sorts, IInv, AllIdle, Owners, [Next]_fedVars
    PROVE  Owners'
<1>0. Types' /\ Types /\ RP!TypeOK
  BY NextIInv DEF IInv, RP!IInv
<1>1. ASSUME NEW n \in Node, NEW ev \in Event, Authored(n, ev), Allowed(n, ev) PROVE Owners'
  <2> DEFINE e == RP!Stamp(n, versions[n], epoch[n], ev)
  <2>1. RP!Author(n, ev) /\ SetStore(n, apply(Store(n), ev))
    BY <1>1 DEF Authored
  <2>2. /\ e \in RP!LogEntry /\ e.event = ev /\ e.origin = n
        /\ log' = [log EXCEPT ![n] = @ \o <<e>>]
    BY <2>1, AuthoredEntry
  <2>3. epoch' = epoch /\ \A m \in net' : m \in net \/ m.entry = e
    BY <2>1 DEF RP!Author, RP!Pushed
  <2>4. ev.kind # "AccountDropped"
    BY <1>1 DEF Allowed, AllIdle, Idle
  <2>5. RP!Global(e) => /\ e.epoch = epoch[n]
                        /\ Registers(e, ev.name) \/ Owner(n, ev.name) # None
    <3> SUFFICES ASSUME RP!Global(e) PROVE /\ e.epoch = epoch[n]
                                           /\ Registers(e, ev.name) \/ Owner(n, ev.name) # None
      OBVIOUS
    <3>1. ev \in GlobalEvent
      BY <2>2 DEF RP!Global
    <3>2. e.epoch = epoch[n]
      BY <3>1 DEF RP!Stamp
    <3>3. ev.name \in Name /\ ev.kind \in {"AccountRegistered", "AccountPasswordSet"}
      BY <2>4, <3>1 DEF GlobalEvent
    <3>4. CASE ev.kind = "AccountPasswordSet"
      BY <1>0, <1>1, <3>2, <3>3, <3>4, OwnerIs DEF Allowed
    <3>5. CASE ev.kind = "AccountRegistered"
      BY <2>2, <3>2, <3>5 DEF Registers
    <3> QED BY <3>3, <3>4, <3>5
  <2> HIDE DEF e
  <2> QED BY <1>0, <2>1, <2>2, <2>3, <2>4, <2>5, AppendOwners
<1>2. ASSUME NEW m \in net, Taken(m) PROVE Owners'
  <2>1. /\ m.dst \in Node /\ m.entry \in RP!LogEntry /\ m.entry.event \in GlobalEvent
        /\ log' = [log EXCEPT ![m.dst] = @ \o <<m.entry>>]
        /\ SetStore(m.dst, apply(Store(m.dst), m.entry.event))
    BY <1>2, TakenEntry
  <2>2. epoch' = epoch /\ \A x \in net' : x \in net \/ x.entry = m.entry
    BY <1>2 DEF Taken, RP!Ingest, RP!Pushed
  <2>3. m.entry \in RP!World /\ m.entry.event.kind # "AccountDropped"
    BY EntryIn DEF Owners, NothingDropped
  <2>4. m.entry.origin # m.dst
    BY <1>2, TakenIsForeign
  <2> QED BY <1>0, <2>1, <2>2, <2>3, <2>4, AppendOwners
<1> QED BY <1>1, <1>2, CompactOwners, RestartOwners, QuietOwners, StoreMoves

\* Nobody owns a name before anything is written.
LEMMA InitNames == ASSUME Sorts PROVE Init => NamesInv
<1> SUFFICES ASSUME Init PROVE NamesInv
  OBVIOUS
<1>1. IInv
  BY InitIInv
<1>2. AllIdle
  BY DEF Init, AllIdle, Idle
<1>3. \A n \in Node : RP!Entries(log[n]) = {}
  BY DEF Init, R!Init, RP!Entries
<1>4. RP!World = {}
  <2>1. net = {}
    BY DEF Init, R!Init
  <2>2. RP!World = (UNION {RP!Entries(log[n]) : n \in Node}) \cup {m.entry : m \in net}
    BY DEF RP!World
  <2> QED BY <1>3, <2>1, <2>2
<1>5. \A n \in Node, a \in Name : Owner(n, a) = None
  BY DEF Init, Owner, Fresh
<1>6. Owners
  BY <1>3, <1>4, <1>5 DEF Owners, NothingDropped, Claimed, Earliest, Vouched, OwnAreCurrent,
     KnownAtHome, RP!GlobalsOf
<1> QED BY <1>1, <1>2, <1>6 DEF NamesInv

\* Every step keeps the owners agreed, if no name is dropped.
LEMMA NextNames ==
    ASSUME Sorts, Undropped
    PROVE  NamesInv /\ [Next]_fedVars => NamesInv'
<1> SUFFICES ASSUME NamesInv, [Next]_fedVars PROVE NamesInv'
  OBVIOUS
<1>1. IInv'
  BY NextIInv DEF NamesInv
<1>2. AllIdle'
  BY IdleStep DEF NamesInv
<1>3. Owners'
  BY OwnersStep DEF NamesInv
<1> QED BY <1>1, <1>2, <1>3 DEF NamesInv

\* Where no account is dropped, the owners stay agreed.
LEMMA NamesInductive == ASSUME Sorts PROVE Spec => [](Undropped => NamesInv)
<1> DEFINE Inv == Undropped => NamesInv
<1>1. Init => Inv
  BY InitNames
<1>2. Inv /\ [Next]_fedVars /\ UNCHANGED sites => Inv'
  <2> SUFFICES ASSUME Inv, [Next]_fedVars, UNCHANGED sites, Undropped' PROVE NamesInv'
    OBVIOUS
  <2>1. Undropped
    BY DEF Undropped
  <2> QED BY <2>1, NextNames
<1> QED BY <1>1, <1>2, StepsAre, PTL DEF Spec

\* In step with whoever wrote the claim of m's owner, n has a claim of that
\* writer's that is not later, and an owner that is not later than that.
LEMMA OwnerReaches ==
    ASSUME Sorts, NamesInv, R!Synced, NEW m \in Node, NEW n \in Node, NEW a \in Name,
           Owner(m, a) # None
    PROVE  Owner(n, a) # None /\ NotLater(Owner(n, a), Owner(m, a))
<1>0. /\ Types /\ RP!TypeOK /\ RP!CursorIsMax /\ RP!NoGaps /\ RP!UniqueIds /\ Claimed /\ Earliest
      /\ Vouched /\ OwnAreCurrent
  BY DEF NamesInv, IInv, RP!IInv, Owners
<1>1. /\ RP!World \subseteq RP!LogEntry
      /\ \A k \in Node : RP!Entries(log[k]) \subseteq RP!World
  BY <1>0, Assumed, RP!WorldType, EntryIn
<1>2. PICK e \in RP!Entries(log[m]) : Registers(e, a) /\ ClaimOf(e) = Owner(m, a)
  BY <1>0 DEF Claimed
<1> DEFINE o == e.origin
<1>3. e \in RP!World /\ e \in RP!LogEntry /\ o \in Node
  BY <1>1, <1>2 DEF RP!LogEntry
<1>4. PICK f \in RP!OwnEntries(log[o], o) : Registers(f, a) /\ NotLater(ClaimOf(f), ClaimOf(e))
  BY <1>0, <1>2, <1>3 DEF Vouched
<1>5. f \in RP!Entries(log[o]) /\ f \in RP!World /\ f \in RP!LogEntry /\ f.origin = o
  BY <1>1, <1>3, <1>4 DEF RP!OwnEntries
<1>6. RP!Global(f) /\ f \in RP!GlobalsOf(log[o], o)
  <2>1. RP!Global(f)
    BY <1>0, <1>4, <1>5, ClaimTypes
  <2> QED BY <1>5, <2>1 DEF RP!GlobalsOf
<1> DEFINE c == versions[o][o]
<1>7. c # None /\ c.epoch = f.epoch /\ f.seq <= c.seq /\ c \in RP!Cursor
  <2>1. PICK g \in RP!GlobalsOf(log[o], o) : RP!CursorOf(g) = c
    BY <1>0, <1>3, <1>6 DEF RP!CursorIsMax
  <2>2. c # None /\ ~RP!cursor_newer(c, RP!CursorOf(f))
    BY <1>0, <1>3, <1>6 DEF RP!CursorIsMax
  <2>3. g.epoch = f.epoch
    BY <1>0, <1>3, <1>6 DEF OwnAreCurrent
  <2>4. c \in RP!Cursor /\ f.epoch \in Nat /\ f.seq \in Nat
    BY <1>0, <1>3, <1>5, <2>2 DEF RP!TypeOK, RP!VersionVector, RP!LogEntry
  <2>5. c.epoch = f.epoch
    BY <2>1, <2>3 DEF RP!CursorOf
  <2>6. ~(f.seq > c.seq)
    BY <2>2, <2>5 DEF RP!cursor_newer, RP!CursorOf
  <2>7. c.seq \in Nat
    BY <2>4 DEF RP!Cursor
  <2> QED BY <2>2, <2>4, <2>5, <2>6, <2>7
<1>8. versions[n][o] = c
  BY <1>3 DEF R!Synced
<1>9. f \in RP!Entries(log[n])
  <2>1. f.seq \in 0..c.seq
    BY <1>5, <1>7 DEF RP!LogEntry, RP!Cursor
  <2>2. PICK h \in RP!Entries(log[n]) :
           RP!Global(h) /\ h.origin = o /\ h.epoch = c.epoch /\ h.seq = f.seq
    BY <1>0, <1>3, <1>7, <1>8, <2>1 DEF RP!NoGaps
  <2>3. h = f
    BY <1>0, <1>1, <1>5, <1>6, <1>7, <2>2 DEF RP!UniqueIds, RP!SameId
  <2> QED BY <2>2, <2>3
<1>10. Owner(n, a) # None /\ NotLater(Owner(n, a), ClaimOf(f))
  BY <1>0, <1>4, <1>9 DEF Earliest
<1>11. /\ Owner(n, a) \in [ts : Time, home : Node] /\ ClaimOf(f) \in [ts : Time, home : Node]
       /\ ClaimOf(e) \in [ts : Time, home : Node]
  BY <1>0, <1>2, <1>3, <1>4, <1>5, <1>10, ClaimTypes
<1>12. NotLater(Owner(n, a), ClaimOf(e))
  BY <1>4, <1>10, <1>11, ClaimOrder
<1> QED BY <1>2, <1>10, <1>12

\* Nodes whose version vectors are equal name the same owner of every account,
\* as long as nobody drops one: whatever the order in which rival registrations
\* were delivered, lost, sent again or compacted away (event.rs, apply: "every
\* node converges on the same owner regardless of gossip delivery order").
THEOREM OneOwner == ASSUME Sorts PROVE Spec => []OwnersAgree
<1>1. NamesInv => OwnersConverge
  <2> SUFFICES ASSUME NamesInv, R!Synced, NEW m \in Node, NEW n \in Node, NEW a \in Name
               PROVE  Owner(m, a) = Owner(n, a)
    BY DEF OwnersConverge
  <2>1. Types
    BY DEF NamesInv, IInv
  <2>2. CASE Owner(m, a) # None \/ Owner(n, a) # None
    <3>1. Owner(m, a) # None /\ Owner(n, a) # None
      BY <2>2, OwnerReaches
    <3>2. NotLater(Owner(m, a), Owner(n, a)) /\ NotLater(Owner(n, a), Owner(m, a))
      BY <3>1, OwnerReaches
    <3>3. Owner(m, a) \in [ts : Time, home : Node] /\ Owner(n, a) \in [ts : Time, home : Node]
      BY <2>1, <3>1, ClaimTypes
    <3> QED BY <3>2, <3>3, ClaimOrder
  <2> QED BY <2>2
<1>2. (Undropped => NamesInv) => OwnersAgree
  BY <1>1 DEF OwnersAgree
<1> QED BY <1>2, NamesInductive, PTL

-----------------------------------------------------------------------------
(* That the names implement Ownership.  Owned is its instance where no     *)
(* account is dropped; Names, whose picture is empty elsewhere, is the same *)
(* there.                                                                  *)

OwnersHeld == [n \in Node |-> [a \in Name |-> Owner(n, a)]]
ClaimsMade == [a \in Name |-> Made(a)]

Owned == INSTANCE Ownership WITH owner <- OwnersHeld, claims <- ClaimsMade

\* What is stored is what the log's proofs call the world.
LEMMA StoredIsWorld == Stored = RP!World /\ Stored' = RP!World'
  BY DEF Stored, RP!World, RP!Entries

\* The first state maps to Ownership's first state.
LEMMA InitRefines == ASSUME Sorts PROVE Init => Owned!Init
<1> USE DEF OwnersHeld, ClaimsMade
<1> SUFFICES ASSUME Init PROVE Owned!Init
  OBVIOUS
<1>1. \A n \in Node, a \in Name : Owner(n, a) = None
  BY DEF Init, Owner, Fresh
<1>2. Stored = {}
  <2>1. net = {} /\ \A n \in Node : DOMAIN log[n] = {}
    BY DEF Init, R!Init
  <2> QED BY <2>1 DEF Stored
<1>3. \A a \in Name : Made(a) = {}
  BY <1>2 DEF Made
<1> QED BY <1>1, <1>3 DEF Owned!Init

\* A registration is one there, an entry taken that gives a name to an earlier
\* claim is learning it, and whatever else happens at most forgets claims.
LEMMA NextRefines ==
    ASSUME Sorts, Undropped, NamesInv, [Next]_fedVars
    PROVE  Owned!Next
<1> USE DEF OwnersHeld, ClaimsMade
<1> DEFINE own == [n \in Node |-> [a \in Name |-> Owner(n, a)]]
           Claims == [ts : Time, home : Node]
<1>0. NamesInv' /\ IInv /\ IInv' /\ Types /\ Types' /\ Owners /\ Owners' /\ AllIdle
  BY NextNames DEF NamesInv, IInv
<1>1. RP!World \subseteq RP!LogEntry /\ RP!World' \subseteq RP!LogEntry
  <2>1. RP!TypeOK /\ RP!TypeOK'
    BY <1>0 DEF IInv, RP!IInv
  <2>2. RP!World \subseteq RP!LogEntry
    BY <2>1, Assumed, RP!WorldType
  <2>3. \A n \in Node : RP!Entries(log'[n]) \subseteq RP!LogEntry
    <3>1. log' \in [Node -> Seq(RP!LogEntry)]
      BY <2>1 DEF RP!TypeOK, RP!LogEntry
    <3> QED BY <3>1 DEF RP!Entries
  <2>4. \A m \in net' : m.entry \in RP!LogEntry
    BY <2>1 DEF RP!TypeOK, RP!EntryMsg, RP!LogEntry
  <2> QED BY <2>2, <2>3, <2>4, EntryIn
<1>2. /\ \A n \in Node, a \in Name : Owner(n, a) # None => Owner(n, a) \in Claims
      /\ \A n \in Node, a \in Name : Owner(n, a)' # None => Owner(n, a)' \in Claims
      /\ \A e \in RP!LogEntry : \A a : Registers(e, a) =>
           a \in Name /\ RP!Global(e) /\ ClaimOf(e) \in Claims
  <2>1. \A n \in Node, a \in Name : Owner(n, a)' # None => Owner(n, a)' \in Claims
    BY <1>0 DEF Types, Owner, Account
  <2> QED BY <1>0, <2>1, ClaimTypes
<1>3. \A a : Made(a)' = {ClaimOf(e) : e \in {x \in RP!World' : Registers(x, a)}}
  <2>1. Stored' = RP!World'
    BY StoredIsWorld
  <2> QED BY <2>1 DEF Made, Registers, ClaimOf
<1>13. \A a : Made(a) = {ClaimOf(e) : e \in {x \in RP!World : Registers(x, a)}}
  BY StoredIsWorld DEF Made
<1>4. [a \in Name |-> Made(a)]' \in [Name -> SUBSET Claims]
  BY <1>1, <1>2, <1>3
<1>5. ASSUME NEW n \in Node, NEW a \in Name, Owner(n, a)' # None PROVE Owner(n, a)' \in Made(a)'
  <2>1. Claimed'
    BY <1>0 DEF Owners
  <2>2. PICK e \in RP!Entries(log'[n]) : Registers(e, a) /\ ClaimOf(e) = Owner(n, a)'
    BY <1>5, <2>1 DEF Claimed, Registers, ClaimOf, RP!Entries
  <2> QED BY <1>3, <2>2, EntryIn
<1>6. ASSUME NEW a \in Name, NEW new, Made(a)' \subseteq Made(a) \cup new
      PROVE  Owned!Claimed(a, new)
  <2>1. \A n \in Node : own'[n][a] # None => own'[n][a] \in Made(a)'
    BY <1>5
  <2> QED BY <1>6, <2>1 DEF Owned!Claimed
<1>7. ASSUME \A n \in Node, a \in Name : Owner(n, a)' = Owner(n, a),
             \A a \in Name : Made(a)' \subseteq Made(a)
      PROVE  Owned!Next
  <2>1. own' = own
    BY <1>7
  <2>2. \A a \in Name : Owned!Claimed(a, {})
    BY <1>6, <1>7
  <2> QED BY <1>4, <2>1, <2>2 DEF Owned!Next, Owned!Forget, Owned!Claim
<1>8. ASSUME NEW n \in Node, NEW a \in Name, NEW c \in Claims, Owner(n, a)' = c,
             \A m \in Node, b \in Name : m # n \/ b # a => Owner(m, b)' = Owner(m, b)
      PROVE  own' = [own EXCEPT ![n][a] = c]
  BY <1>8
<1>9. ASSUME NEW n \in Node, NEW ev \in Event, Authored(n, ev), Allowed(n, ev) PROVE Owned!Next
  <2> DEFINE e == RP!Stamp(n, versions[n], epoch[n], ev)
  <2>1. RP!Author(n, ev) /\ SetStore(n, apply(Store(n), ev))
    BY <1>9 DEF Authored
  <2>2. /\ e \in RP!LogEntry /\ e.event = ev /\ e.origin = n
        /\ log' = [log EXCEPT ![n] = @ \o <<e>>]
    BY <1>0, <2>1, AuthoredEntry
  <2>3. \A m \in net' : m \in net \/ m.entry = e
    BY <2>1 DEF RP!Author, RP!Pushed
  <2>4. ev.kind # "AccountDropped"
    BY <1>0, <1>9 DEF Allowed, AllIdle, Idle
  <2> HIDE DEF e
  <2>5. \A x \in RP!World' : x \in RP!World \/ x = e
    BY <1>0, <2>2, <2>3, AppendedWorld
  <2>6. /\ \A m \in Node, b \in Name : m # n => Owner(m, b)' = Owner(m, b)
        /\ \A b \in Name :
             \/ Owner(n, b)' = Owner(n, b)
             \/ /\ Registers(e, b)
                /\ Owner(n, b)' = ClaimOf(e)
                /\ Owner(n, b) # None => NotLater(ClaimOf(e), Owner(n, b))
        /\ \A b \in Name : Registers(e, b) =>
             Owner(n, b)' # None /\ NotLater(Owner(n, b)', ClaimOf(e))
    BY <1>0, <2>1, <2>2, <2>4, OwnerEffect
  <2>7. CASE ev.kind = "AccountRegistered"
    <3> DEFINE a == ev.name
               c == ClaimOf(e)
    <3>1. Registers(e, a) /\ a \in Name /\ c \in Claims
      BY <1>2, <2>2, <2>7 DEF Registers
    <3>2. \A b : Registers(e, b) => b = a
      BY <2>2 DEF Registers
    <3>3. Owner(n, a) = None /\ c.home = n
      BY <1>9, <2>2, <2>7 DEF Allowed, Owner, ClaimOf
    <3>4. Owner(n, a)' = c
      BY <2>6, <3>1, <3>3
    <3>5. \A m \in Node, b \in Name : m # n \/ b # a => Owner(m, b)' = Owner(m, b)
      BY <2>6, <3>2
    <3> HIDE DEF a, c
    <3>6. own' = [own EXCEPT ![n][a] = c]
      BY <1>8, <3>1, <3>4, <3>5
    <3>7. ASSUME NEW b \in Name PROVE Owned!Claimed(b, IF b = a THEN {c} ELSE {})
      <4>1. Made(b)' \subseteq Made(b) \cup (IF b = a THEN {c} ELSE {})
        BY <1>3, <2>5, <3>2, <1>13 DEF c
      <4> QED BY <1>6, <4>1
    <3>8. Owned!Register(n, a, c)
      BY <3>1, <3>3, <3>6, <3>7 DEF Owned!Register
    <3> QED BY <1>4, <3>1, <3>8 DEF Owned!Next, Owned!Claim
  <2>8. CASE ev.kind # "AccountRegistered"
    <3>1. \A b : ~Registers(e, b)
      BY <2>2, <2>8 DEF Registers
    <3>2. \A m \in Node, b \in Name : Owner(m, b)' = Owner(m, b)
      BY <2>6, <3>1
    <3>3. \A b \in Name : Made(b)' \subseteq Made(b)
      BY <1>3, <2>5, <3>1, <1>13
    <3> QED BY <1>7, <3>2, <3>3
  <2> QED BY <2>7, <2>8
<1>10. ASSUME NEW m \in net, Taken(m) PROVE Owned!Next
  <2>0. m.dst \in Node /\ m.entry \in RP!LogEntry
    BY <1>0, <1>10, TakenEntry
  <2>1. PICK n \in Node, e \in RP!LogEntry : n = m.dst /\ e = m.entry
    BY <2>0
  <2>2. /\ e \in RP!World
        /\ log' = [log EXCEPT ![n] = @ \o <<e>>]
        /\ SetStore(n, apply(Store(n), e.event))
        /\ e.event.kind # "AccountDropped"
        /\ \A x \in net' : x \in net \/ x.entry = e
    <3>1. m.entry \in RP!World /\ m.entry.event.kind # "AccountDropped"
      BY <1>0, EntryIn DEF Owners, NothingDropped
    <3>2. \A x \in net' : x \in net \/ x.entry = m.entry
      BY <1>10 DEF Taken, RP!Ingest, RP!Pushed
    <3>3. /\ log' = [log EXCEPT ![m.dst] = @ \o <<m.entry>>]
          /\ SetStore(m.dst, apply(Store(m.dst), m.entry.event))
      BY <1>0, <1>10, TakenEntry
    <3> QED BY <2>1, <3>1, <3>2, <3>3
  <2>3. \A x \in RP!World' : x \in RP!World
    BY <1>0, <2>2, AppendedWorld
  <2>4. \A b \in Name : Made(b)' \subseteq Made(b)
    BY <1>3, <2>3, <1>13
  <2>5. /\ \A k \in Node, b \in Name : k # n => Owner(k, b)' = Owner(k, b)
        /\ \A b \in Name :
             \/ Owner(n, b)' = Owner(n, b)
             \/ /\ Registers(e, b)
                /\ Owner(n, b)' = ClaimOf(e)
                /\ Owner(n, b) # None => NotLater(ClaimOf(e), Owner(n, b))
    BY <1>0, <2>2, OwnerEffect
  <2>6. CASE \A b \in Name : Owner(n, b)' = Owner(n, b)
    BY <1>7, <2>4, <2>5, <2>6
  <2>7. CASE ~\A b \in Name : Owner(n, b)' = Owner(n, b)
    <3>1. PICK a \in Name : Owner(n, a)' # Owner(n, a)
      BY <2>7
    <3> DEFINE c == ClaimOf(e)
    <3>2. /\ Registers(e, a) /\ Owner(n, a)' = c /\ c \in Claims
          /\ Owner(n, a) # None => NotLater(c, Owner(n, a))
      BY <1>2, <2>5, <3>1
    <3>3. \A b : Registers(e, b) => b = a
      BY <3>2 DEF Registers
    <3>4. \A k \in Node, b \in Name : k # n \/ b # a => Owner(k, b)' = Owner(k, b)
      BY <2>5, <3>3
    <3>5. c \in Made(a)
      BY <2>2, <3>2, <1>13
    <3> HIDE DEF c
    <3>6. own' = [own EXCEPT ![n][a] = c]
      BY <1>8, <3>2, <3>4
    <3>7. Owner(n, a) # None => Owned!Earlier(c, Owner(n, a))
      <4> SUFFICES ASSUME Owner(n, a) # None PROVE Owned!Earlier(c, Owner(n, a))
        OBVIOUS
      <4>1. Owner(n, a) \in Claims /\ NotLater(c, Owner(n, a)) /\ c # Owner(n, a)
        BY <1>2, <3>1, <3>2
      <4>2. ~NotLater(Owner(n, a), c)
        BY <3>2, <4>1, ClaimOrder
      <4> QED BY <3>2, <4>1, <4>2, ClaimOrder DEF Owned!Earlier
    <3>8. \A b \in Name : Owned!Claimed(b, {})
      BY <1>6, <2>4
    <3>9. Owned!Learn(n, a, c)
      BY <3>5, <3>6, <3>7, <3>8 DEF Owned!Learn
    <3> QED BY <1>4, <3>2, <3>9 DEF Owned!Next, Owned!Claim
  <2> QED BY <2>6, <2>7
<1>11. ASSUME NEW n \in Node, Compacted(n) PROVE Owned!Next
  <2>1. \A m \in Node, a \in Name : Owner(m, a)' = Owner(m, a)
    BY <1>0, <1>11, CompactClaims
  <2>2. ASSUME NEW a \in Name, NEW e \in RP!World', Registers(e, a)
        PROVE  ClaimOf(e) \in Made(a)
    <3>1. CASE e \in RP!World
      BY <2>2, <3>1, <1>13
    <3>2. CASE e \in RP!Entries(log'[n])
      <4>1. Owner(n, a) # None /\ ClaimOf(e) = Owner(n, a)
        BY <1>0, <1>11, <2>2, <3>2, CompactClaims
      <4>2. PICK f \in RP!Entries(log[n]) : Registers(f, a) /\ ClaimOf(f) = Owner(n, a)
        BY <1>0, <4>1 DEF Owners, Claimed
      <4> QED BY <4>1, <4>2, EntryIn, <1>13
    <3> QED BY <1>0, <1>11, <3>1, <3>2, CompactClaims
  <2>3. \A a \in Name : Made(a)' \subseteq Made(a)
    BY <1>3, <2>2
  <2> QED BY <1>7, <2>1, <2>3
<1>12. ASSUME (\E n \in Node : Restarted(n)) \/ Quiet PROVE Owned!Next
  <2>1. UNCHANGED <<log, accounts>>
    BY <1>12 DEF Quiet, Restarted, RP!Restart
  <2>2. \A n \in Node, a \in Name : Owner(n, a)' = Owner(n, a)
    BY <2>1 DEF Owner
  <2>3. \A m \in net' : m.entry \in RP!World
    <3>1. ASSUME NEW n \in Node, Restarted(n) PROVE net' \subseteq net
      BY <3>1 DEF Restarted, RP!Restart, RP!Surviving
    <3>2. ASSUME Quiet, NEW m \in net' PROVE m.entry \in RP!World
      BY <1>0, <3>2, QuietFlight
    <3> QED BY <1>12, <3>1, <3>2, EntryIn
  <2>4. \A x \in RP!World' : x \in RP!World
    BY <2>1, <2>3, EntryIn
  <2>5. \A a \in Name : Made(a)' \subseteq Made(a)
    BY <1>3, <2>4, <1>13
  <2> QED BY <1>7, <2>2, <2>5
<1> QED BY <1>0, <1>9, <1>10, <1>11, <1>12, StoreMoves

\* In a behaviour without drops Names sees the owners and the claims.
LEMMA SeenAsOwned ==
    ASSUME Undropped, UNCHANGED sites
    PROVE  /\ OwnersSeen = OwnersHeld /\ OwnersSeen' = OwnersHeld'
           /\ ClaimsSeen = ClaimsMade /\ ClaimsSeen' = ClaimsMade'
<1>1. Undropped'
  BY DEF Undropped
<1> QED BY <1>1 DEF OwnersSeen, ClaimsSeen, OwnersHeld, ClaimsMade

\* In others it never sees any.
LEMMA NoneSeen ==
    ASSUME ~Undropped, UNCHANGED sites
    PROVE  UNCHANGED <<OwnersSeen, ClaimsSeen>>
<1>1. ~Undropped'
  BY DEF Undropped
<1> QED BY <1>1 DEF OwnersSeen, ClaimsSeen

\* The first state maps to Ownership's first state.
LEMMA InitSeen == ASSUME Sorts PROVE Init => Names!Init
<1> SUFFICES ASSUME Init PROVE Names!Init
  OBVIOUS
<1>1. CASE Undropped
  <2>1. OwnersSeen = OwnersHeld /\ ClaimsSeen = ClaimsMade
    BY <1>1 DEF OwnersSeen, ClaimsSeen, OwnersHeld, ClaimsMade
  <2> QED BY <2>1, InitRefines DEF Owned!Init, Names!Init
<1>2. CASE ~Undropped
  BY <1>2 DEF OwnersSeen, ClaimsSeen, Names!Init
<1> QED BY <1>1, <1>2

\* And every step to a step of Ownership.
LEMMA NextSeen ==
    ASSUME Sorts, Undropped => NamesInv, [Next]_fedVars, UNCHANGED sites
    PROVE  [Names!Next]_Names!vars
<1>1. CASE Undropped
  <2>1. Owned!Next
    BY <1>1, NextRefines
  <2>2. /\ OwnersSeen = OwnersHeld /\ OwnersSeen' = OwnersHeld'
        /\ ClaimsSeen = ClaimsMade /\ ClaimsSeen' = ClaimsMade'
    BY <1>1, SeenAsOwned
  <2>3. Names!Next
    BY <2>1, <2>2 DEF Owned!Next, Owned!Register, Owned!Learn, Owned!Forget, Owned!Claimed,
       Owned!Earlier, Owned!Claim, Names!Next, Names!Register, Names!Learn, Names!Forget,
       Names!Claimed, Names!Earlier, Names!Claim
  <2> QED BY <2>3
<1>2. CASE ~Undropped
  BY <1>2, NoneSeen DEF Names!vars
<1> QED BY <1>1, <1>2

\* Whatever order rival registrations arrive in, and through compactions and
\* crashes, a name is held for a claim somebody made and changes hands only to
\* an earlier one: logs, gossip and store implement Ownership, as long as nobody
\* drops an account (event.rs, owns_over and apply).
THEOREM ImplementsOwnership == ASSUME Sorts PROVE Spec => NamesAreOwned
<1>1. (Undropped => NamesInv) /\ [Next]_fedVars /\ UNCHANGED sites => [Names!Next]_Names!vars
  BY NextSeen
<1> QED BY <1>1, NamesInductive, InitSeen, StepsAre, PTL DEF Spec, NamesAreOwned, Names!Spec

-----------------------------------------------------------------------------
(* What Ownership promises, and so the names of the nodes.                 *)

\* What a node holds is a claim that the others may learn.
HeldIsClaimed ==
    \A n \in Node, a \in Name : OwnersSeen[n][a] # None => OwnersSeen[n][a] \in ClaimsSeen[a]

ClaimsInv == Names!TypeOK /\ HeldIsClaimed

\* The claims to a name are in a total order (owns_over).
LEMMA EarlierIsTotal ==
    ASSUME Sorts, NEW c \in Names!Claim, NEW d \in Names!Claim
    PROVE  Names!Earlier(c, d) \/ Names!Earlier(d, c) \/ c = d
<1>1. c = [ts |-> c.ts, home |-> c.home] /\ d = [ts |-> d.ts, home |-> d.home]
  BY DEF Names!Claim
<1>2. c.ts \in Nat /\ d.ts \in Nat /\ c.home \in Nat /\ d.home \in Nat
  BY DEF Sorts, Names!Claim
<1>3. CASE c.ts = d.ts /\ c.home = d.home
  BY <1>1, <1>3
<1>4. CASE c.ts # d.ts \/ c.home # d.home
  BY <1>2, <1>4 DEF Names!Earlier
<1> QED BY <1>3, <1>4

\* At the start nobody holds anything.
LEMMA InitClaims == Names!Init => ClaimsInv
BY DEF Names!Init, ClaimsInv, Names!TypeOK, HeldIsClaimed

\* Whoever registers or learns holds what the others may learn.
LEMMA NextClaims == ASSUME Sorts PROVE ClaimsInv /\ [Names!Next]_Names!vars => ClaimsInv'
<1> SUFFICES ASSUME ClaimsInv, [Names!Next]_Names!vars PROVE ClaimsInv'
  OBVIOUS
<1> USE DEF ClaimsInv
<1>1. ASSUME NEW n \in Node, NEW a \in Name, NEW c \in Names!Claim,
             ClaimsSeen' \in [Name -> SUBSET Names!Claim], Names!Register(n, a, c) \/ Names!Learn(n, a, c)
      PROVE  ClaimsInv'
  <2>1. OwnersSeen' = [OwnersSeen EXCEPT ![n][a] = c]
    BY <1>1 DEF Names!Register, Names!Learn
  <2>2. Names!TypeOK'
    BY <1>1, <2>1 DEF Names!TypeOK
  <2>3. \A b \in Name : \A m \in Node : OwnersSeen'[m][b] # None => OwnersSeen'[m][b] \in ClaimsSeen'[b]
    BY <1>1 DEF Names!Register, Names!Learn, Names!Claimed
  <2> QED BY <2>2, <2>3 DEF HeldIsClaimed
<1>2. ASSUME ClaimsSeen' \in [Name -> SUBSET Names!Claim], Names!Forget PROVE ClaimsInv'
  BY <1>2 DEF Names!Forget, Names!Claimed, Names!TypeOK, HeldIsClaimed
<1>3. CASE UNCHANGED Names!vars
  BY <1>3 DEF Names!vars, Names!TypeOK, HeldIsClaimed
<1> QED BY <1>1, <1>2, <1>3 DEF Names!Next

\* Nodes with nothing left to learn of a name name the same owner, whatever
\* the order they learnt of rival claims in, as long as nobody drops an account
\* (event.rs, apply): Ownership's promise, and so the nodes'.
THEOREM SettledAgree == ASSUME Sorts PROVE Spec => []Names!OwnersAgree
<1>1. ClaimsInv => Names!OwnersAgree
  <2> SUFFICES ASSUME ClaimsInv, NEW a \in Name, Names!Settled(a), NEW m \in Node, NEW n \in Node
               PROVE  OwnersSeen[m][a] = OwnersSeen[n][a]
    BY DEF Names!OwnersAgree
  <2> DEFINE c == OwnersSeen[m][a]
             d == OwnersSeen[n][a]
  <2>1. c \in ClaimsSeen[a] /\ d \in ClaimsSeen[a]
    BY DEF ClaimsInv, HeldIsClaimed, Names!Settled
  <2>2. c \in Names!Claim /\ d \in Names!Claim
    BY <2>1 DEF ClaimsInv, Names!TypeOK
  <2>3. ~Names!Earlier(c, d) /\ ~Names!Earlier(d, c)
    BY <2>1 DEF Names!Settled
  <2> HIDE DEF c, d
  <2>4. c = d
    BY <2>2, <2>3, EarlierIsTotal
  <2> QED BY <2>4 DEF c, d
<1>2. Names!Spec => []Names!OwnersAgree
  BY InitClaims, NextClaims, <1>1, PTL DEF Names!Spec
<1> QED BY <1>2, ImplementsOwnership, PTL DEF NamesAreOwned

\* A held name is never lost and goes to an earlier claim only, as long as
\* nobody drops an account (owns_over).
THEOREM HeldNamesImprove == ASSUME Sorts PROVE Spec => [][Names!OwnerOnlyImproves]_Names!vars
<1>1. ClaimsInv /\ [Names!Next]_Names!vars => [Names!OwnerOnlyImproves]_Names!vars
  <2> SUFFICES ASSUME ClaimsInv, Names!Next, NEW m \in Node, NEW b \in Name, OwnersSeen[m][b] # None
               PROVE  \/ OwnersSeen'[m][b] = OwnersSeen[m][b]
                      \/ OwnersSeen'[m][b] # None /\ Names!Earlier(OwnersSeen'[m][b], OwnersSeen[m][b])
    BY DEF Names!OwnerOnlyImproves
  <2>0. None \notin Names!Claim
    BY DEF Sorts, Names!Claim
  <2>1. ASSUME NEW n \in Node, NEW a \in Name, NEW c \in Names!Claim, Names!Register(n, a, c) \/ Names!Learn(n, a, c)
        PROVE  \/ OwnersSeen'[m][b] = OwnersSeen[m][b]
               \/ OwnersSeen'[m][b] # None /\ Names!Earlier(OwnersSeen'[m][b], OwnersSeen[m][b])
    <3>1. OwnersSeen' = [OwnersSeen EXCEPT ![n][a] = c]
      BY <2>1 DEF Names!Register, Names!Learn
    <3>2. CASE m = n /\ b = a
      <4>1. OwnersSeen'[m][b] = c
        BY <3>1, <3>2 DEF ClaimsInv, Names!TypeOK
      <4>2. Names!Earlier(c, OwnersSeen[m][b])
        BY <2>1, <3>2 DEF Names!Register, Names!Learn
      <4> QED BY <2>0, <2>1, <4>1, <4>2
    <3>3. CASE ~(m = n /\ b = a)
      BY <3>1, <3>3 DEF ClaimsInv, Names!TypeOK
    <3> QED BY <3>2, <3>3
  <2>2. CASE Names!Forget
    BY <2>2 DEF Names!Forget
  <2> QED BY <2>1, <2>2 DEF Names!Next
<1>2. Names!Spec => [][Names!OwnerOnlyImproves]_Names!vars
  BY InitClaims, NextClaims, <1>1, PTL DEF Names!Spec
<1> QED BY <1>2, ImplementsOwnership, PTL DEF NamesAreOwned
=============================================================================
