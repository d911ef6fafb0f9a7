----------------------------- MODULE NicksProofs -----------------------------
(***************************************************************************)
(* Nick protection for any users, accounts and nicks.  A rename timer      *)
(* (PendingEnforce) is always for the nick its user wears and was warned   *)
(* about in this visit, there is at most one per uid, and the sweep        *)
(* renames only users who must be, each to a guest nick nobody wears.      *)
(*                                                                         *)
(* That a timer never outlives its user rests on the order of the uplink's *)
(* reports: nobody is introduced who has not left before (InOrder), which  *)
(* the ircd keeps and every delivery and restart has to preserve.          *)
(***************************************************************************)
EXTENDS Nicks, SequenceLemmas

(* What travels on the link, in each direction.                            *)
Move == [op : {"connect", "burst", "nick", "quit"}, uid : User, nick : AnyNick]
AccountIs == [op : {"account"}, uid : User, account : Account \union {None}]
UpMsg == Move \union AccountIs \union [op : {"endburst"}]
Rename == [op : {"nick"}, uid : User, nick : AnyNick]
DownMsg == Rename \union AccountIs

Typed ==
    /\ TypeOK
    /\ up \in Seq(UpMsg) /\ down \in Seq(DownMsg)
    /\ seq \in [nickserv : Nat, sweep : Nat]

(* m reports where u is, or that it left.                                  *)
Moves(m, u) == m.op \in {"connect", "burst", "nick", "quit"} /\ m.uid = u

(* Whoever has been told q up to before its i-th report, and knew was of u *)
(* before, takes u for gone.                                               *)
Absent(was, q, u, i) ==
    \/ was = Gone /\ \A j \in 1..(i - 1) : ~Moves(q[j], u)
    \/ \E j \in 1..(i - 1) : /\ q[j].op = "quit" /\ q[j].uid = u
                             /\ \A k \in (j + 1)..(i - 1) : ~Moves(q[k], u)

(* A user is introduced only when services take it for gone, and they will *)
(* once they know everything about one who is gone.                        *)
OrderedFor(u, was, now, q) ==
    /\ \A i \in 1..Len(q) : q[i].op \in {"connect", "burst"} /\ q[i].uid = u
                               => Absent(was, q, u, i)
    /\ now = Gone => Absent(was, q, u, Len(q) + 1)
InOrder == \A u \in User : OrderedFor(u, mirror[u], at[u], up)

(* TimersAreCurrent, of any timers, warnings and picture of the network.   *)
Current(p, w, m) ==
    /\ \A i, j \in DOMAIN p : p[i].uid = p[j].uid => i = j
    /\ \A i \in DOMAIN p : w[p[i].uid] = p[i].nick /\ m[p[i].uid] = p[i].nick

IInv == Typed /\ InOrder /\ TimersAreCurrent

-----------------------------------------------------------------------------
(* Nicks, guests and timers. *)

\* A guest nick is a nick, and being gone is none.
LEMMA NickFacts ==
    /\ RegNick \subseteq AnyNick /\ Wearable \subseteq AnyNick /\ User \subseteq AnyNick
    /\ \A k \in Nat : Guest(k) \in AnyNick
    /\ Gone \notin AnyNick
BY GoneAssumption DEF AnyNick, Wearable, Guest

\* What is kept of a sequence, each from a place of its own.
LEMMA RetainKeeps ==
    ASSUME NEW T, NEW s \in Seq(T), NEW keep
    PROVE  /\ retain(s, keep) \in Seq(T)
           /\ \E src \in [1..Len(retain(s, keep)) -> Nat] :
                /\ \A k \in 1..Len(retain(s, keep)) :
                     src[k] \in 1..Len(s) /\ retain(s, keep)[k] = s[src[k]] /\ s[src[k]] \in keep
                /\ \A k, l \in 1..Len(retain(s, keep)) : src[k] = src[l] => k = l
<1> DEFINE seqs == [i \in DOMAIN s |-> IF s[i] \in keep THEN <<s[i]>> ELSE << >>]
           r == retain(s, keep)
<1>1. seqs \in Seq(Seq(T)) /\ Len(seqs) = Len(s)
  <2>1. Len(s) \in Nat /\ DOMAIN s = 1..Len(s) /\ \A i \in 1..Len(s) : s[i] \in T
    OBVIOUS
  <2>2. \A i \in 1..Len(s) : <<s[i]>> \in Seq(T) /\ << >> \in Seq(T)
    BY <2>1
  <2>3. seqs \in [1..Len(s) -> Seq(T)]
    BY <2>1, <2>2
  <2> QED BY <2>1, <2>3
<1>2. \A i \in 1..Len(s) : /\ s[i] \in keep => seqs[i] = <<s[i]>>
                           /\ s[i] \notin keep => seqs[i] = << >>
  OBVIOUS
<1> DEFINE f == FlattenSeq(seqs)
<1> HIDE DEF seqs
<1>3. /\ f \in Seq(T)
      /\ \E src, pos \in [1..Len(f) -> Nat] :
           /\ \A k \in 1..Len(f) :
                /\ src[k] \in 1..Len(seqs) /\ pos[k] \in 1..Len(seqs[src[k]])
                /\ f[k] = seqs[src[k]][pos[k]]
           /\ \A k, l \in 1..Len(f) : src[k] = src[l] /\ pos[k] = pos[l] => k = l
  BY <1>1, FlattenFrom
<1>4. r = f
  BY DEF retain, seqs
<1> HIDE DEF r, f
<1>5. PICK src \in [1..Len(f) -> Nat], pos \in [1..Len(f) -> Nat] :
        /\ \A k \in 1..Len(f) :
             /\ src[k] \in 1..Len(seqs) /\ pos[k] \in 1..Len(seqs[src[k]])
             /\ f[k] = seqs[src[k]][pos[k]]
        /\ \A k, l \in 1..Len(f) : src[k] = src[l] /\ pos[k] = pos[l] => k = l
  BY <1>3
<1>6. ASSUME NEW k \in 1..Len(r)
      PROVE  src[k] \in 1..Len(s) /\ r[k] = s[src[k]] /\ s[src[k]] \in keep /\ pos[k] = 1
  <2>1. src[k] \in 1..Len(s) /\ pos[k] \in 1..Len(seqs[src[k]]) /\ r[k] = seqs[src[k]][pos[k]]
    BY <1>1, <1>4, <1>5
  <2>2. CASE s[src[k]] \in keep
    BY <1>2, <2>1, <2>2
  <2>3. CASE s[src[k]] \notin keep
    BY <1>2, <2>1, <2>3
  <2> QED BY <2>2, <2>3
<1>7. \A k, l \in 1..Len(r) : src[k] = src[l] => k = l
  BY <1>4, <1>5, <1>6
<1>8. \E source \in [1..Len(r) -> Nat] :
        /\ \A k \in 1..Len(r) :
             source[k] \in 1..Len(s) /\ r[k] = s[source[k]] /\ s[source[k]] \in keep
        /\ \A k, l \in 1..Len(r) : source[k] = source[l] => k = l
  <2>1. src \in [1..Len(r) -> Nat]
    BY <1>4
  <2> QED BY <1>6, <1>7, <2>1
<1>9. r \in Seq(T)
  BY <1>3, <1>4
<1> QED BY <1>8, <1>9 DEF r

\* Timers kept are current where the warnings and the picture stay.
LEMMA RetainCurrent ==
    ASSUME NEW p \in Seq(Pending), NEW w, NEW m, NEW w2, NEW m2, NEW keep, Current(p, w, m),
           \A i \in DOMAIN p : p[i] \in keep =>
               w2[p[i].uid] = w[p[i].uid] /\ m2[p[i].uid] = m[p[i].uid]
    PROVE  retain(p, keep) \in Seq(Pending) /\ Current(retain(p, keep), w2, m2)
<1> DEFINE r == retain(p, keep)
<1>1. /\ r \in Seq(Pending)
      /\ \E src \in [1..Len(r) -> Nat] :
           /\ \A k \in 1..Len(r) : src[k] \in 1..Len(p) /\ r[k] = p[src[k]] /\ p[src[k]] \in keep
           /\ \A k, l \in 1..Len(r) : src[k] = src[l] => k = l
  BY RetainKeeps
<1> HIDE DEF r
<1>2. PICK src \in [1..Len(r) -> Nat] :
        /\ \A k \in 1..Len(r) : src[k] \in 1..Len(p) /\ r[k] = p[src[k]] /\ p[src[k]] \in keep
        /\ \A k, l \in 1..Len(r) : src[k] = src[l] => k = l
  BY <1>1
<1>3. DOMAIN r = 1..Len(r) /\ DOMAIN p = 1..Len(p)
  BY <1>1
<1>4. ASSUME NEW k \in 1..Len(r), NEW l \in 1..Len(r), r[k].uid = r[l].uid PROVE k = l
  BY <1>2, <1>3, <1>4 DEF Current
<1>5. ASSUME NEW k \in 1..Len(r) PROVE w2[r[k].uid] = r[k].nick /\ m2[r[k].uid] = r[k].nick
  BY <1>2, <1>3 DEF Current
<1> QED BY <1>1, <1>3, <1>4, <1>5 DEF Current, r

\* Without a user's timers, what is known of that user may change.
LEMMA WithoutCurrent ==
    ASSUME NEW p \in Seq(Pending), NEW w, NEW m, NEW w2, NEW m2, NEW u, Current(p, w, m),
           \A v \in User \ {u} : w2[v] = w[v] /\ m2[v] = m[v]
    PROVE  /\ Without(p, u) \in Seq(Pending) /\ Current(Without(p, u), w2, m2)
           /\ \A i \in DOMAIN Without(p, u) : Without(p, u)[i].uid # u
<1> DEFINE keep == {e \in Range(p) : e.uid # u}
<1>1. \A i \in DOMAIN p : p[i] \in Pending /\ p[i].uid \in User
  <2>1. \A i \in DOMAIN p : p[i] \in Pending
    OBVIOUS
  <2>2. \A e \in Pending : e.uid \in User
    BY DEF Pending
  <2> QED BY <2>1, <2>2
<1>2. \A i \in DOMAIN p : p[i] \in keep => p[i].uid # u
  OBVIOUS
<1>3. Without(p, u) = retain(p, keep)
  BY DEF Without
<1>4. \A i \in 1..Len(retain(p, keep)) : retain(p, keep)[i] \in keep
  <2> HIDE DEF keep
  <2> QED BY RetainKeeps
<1>5. retain(p, keep) \in Seq(Pending) /\ Current(retain(p, keep), w2, m2)
  <2> HIDE DEF keep
  <2> QED BY <1>1, <1>2, RetainCurrent
<1>6. \A i \in DOMAIN retain(p, keep) : retain(p, keep)[i].uid # u
  <2>1. DOMAIN retain(p, keep) = 1..Len(retain(p, keep))
    BY <1>5
  <2> QED BY <1>4, <2>1
<1> QED BY <1>3, <1>5, <1>6

\* Arming a timer: it is the only one of its user, and for the nick warned of.
LEMMA EnforceCurrent ==
    ASSUME NEW p \in Seq(Pending), NEW w, NEW m, NEW u \in User, NEW n, Current(p, w, m),
           \A i \in DOMAIN p : p[i].uid # u,
           m[u] = n, w[u] = IF MustIdentify(u, n) THEN n ELSE None
    PROVE  /\ enforce_registered_nick(u, n, p) \in Seq(Pending)
           /\ Current(enforce_registered_nick(u, n, p), w, m)
<1>1. CASE ~MustIdentify(u, n)
  BY <1>1 DEF enforce_registered_nick
<1>2. CASE MustIdentify(u, n)
  <2> DEFINE q == Without(p, u)
             e == [uid |-> u, nick |-> n, due |-> FALSE]
             r == Append(q, e)
  <2>1. n \in RegNick
    BY <1>2 DEF MustIdentify, resolve_account
  <2>2. q \in Seq(Pending) /\ Current(q, w, m) /\ \A i \in DOMAIN q : q[i].uid # u
    BY WithoutCurrent
  <2>3. e \in Pending /\ e.uid = u /\ e.nick = n
    BY <2>1 DEF Pending
  <2>4. enforce_registered_nick(u, n, p) = r
    BY <1>2 DEF enforce_registered_nick
  <2>5. w[u] = n
    BY <1>2
  <2> HIDE DEF q, e
  <2>6. /\ r \in Seq(Pending) /\ DOMAIN r = 1..(Len(q) + 1) /\ r[Len(q) + 1] = e
        /\ DOMAIN q = 1..Len(q) /\ Len(q) \in Nat
        /\ \A i \in 1..Len(q) : r[i] = q[i]
    BY <2>2, <2>3
  <2> HIDE DEF r
  <2>7. ASSUME NEW i \in DOMAIN r, NEW j \in DOMAIN r, r[i].uid = r[j].uid PROVE i = j
    <3>1. (i \in 1..Len(q) \/ i = Len(q) + 1) /\ (j \in 1..Len(q) \/ j = Len(q) + 1)
      BY <2>6
    <3> QED BY <2>2, <2>3, <2>6, <2>7, <3>1 DEF Current
  <2>8. ASSUME NEW i \in DOMAIN r PROVE w[r[i].uid] = r[i].nick /\ m[r[i].uid] = r[i].nick
    <3>1. i \in 1..Len(q) \/ i = Len(q) + 1
      BY <2>6
    <3> QED BY <2>2, <2>3, <2>5, <2>6, <3>1 DEF Current
  <2> QED BY <2>4, <2>6, <2>7, <2>8 DEF Current
<1> QED BY <1>1, <1>2

\* Fewer than |User| + 1 guest nicks can be worn: the search finds a free one.
LEMMA GuestIsFree ==
    ASSUME NEW k \in Nat
    PROVE  FreeFrom(k) \in Nat /\ ~Online(Guest(FreeFrom(k)))
<1> DEFINE n == Cardinality(User)
           Free1 == {j \in k..(k + n) : ~Online(Guest(j))}
<1>1. n \in Nat /\ IsFiniteSet(User)
  BY UserAssumption, FS_CardinalityType
<1>2. Free1 # {}
  <2> SUFFICES ASSUME \A j \in k..(k + n) : Online(Guest(j)) PROVE FALSE
    OBVIOUS
  <2> DEFINE wearer == [j \in k..(k + n) |-> CHOOSE u \in User : mirror[u] = Guest(j)]
  <2>1. ASSUME NEW j \in k..(k + n) PROVE wearer[j] \in User /\ mirror[wearer[j]] = Guest(j)
    BY DEF Online
  <2>2. wearer \in [k..(k + n) -> User]
    BY <2>1
  <2> HIDE DEF wearer
  <2>3. IsFiniteSet(k..(k + n)) /\ Cardinality(k..(k + n)) = n + 1
    BY <1>1, FS_Interval
  <2>4. PICK i \in k..(k + n), j \in k..(k + n) : i # j /\ wearer[i] = wearer[j]
    <3>1. Cardinality(k..(k + n)) > Cardinality(User)
      BY <1>1, <2>3
    <3> HIDE DEF n
    <3> QED BY <1>1, <2>2, <2>3, <3>1, FS_PigeonHole
  <2>5. Guest(i) = Guest(j)
    BY <2>1, <2>4
  <2> QED BY <2>4, <2>5 DEF Guest
<1>3. Free1 \in SUBSET Nat
  BY <1>1
<1>4. PICK f \in Free1 : \A j \in Free1 : f <= j
  BY <1>2, <1>3, LeastNatural
<1>5. f \in k..(k + n) /\ ~Online(Guest(f)) /\ \A i \in k..(f - 1) : Online(Guest(i))
  <2>1. f \in Nat /\ f \in k..(k + n)
    BY <1>3, <1>4
  <2>2. \A i \in k..(f - 1) : i \in k..(k + n) /\ ~(f <= i)
    BY <1>1, <2>1
  <2> QED BY <1>4, <2>1, <2>2
<1>6. FreeFrom(k) \in k..(k + n) /\ ~Online(Guest(FreeFrom(k)))
  BY <1>5 DEF FreeFrom
<1> QED BY <1>1, <1>6

\* One rename for each user of the list, to a guest nick nobody wears.
LEMMA RenamesAre ==
    ASSUME NEW us \in Seq(User), NEW k \in Nat
    PROVE  /\ Renames(us, k).msgs \in Seq(Rename) /\ Renames(us, k).next \in Nat
           /\ Len(Renames(us, k).msgs) = Len(us)
           /\ \A i \in 1..Len(us) : /\ Renames(us, k).msgs[i].uid = us[i]
                                    /\ ~Online(Renames(us, k).msgs[i].nick)
<1> DEFINE n == Len(us)
           Counts(f, m) == f = [i \in 0..m |-> IF i = 0 THEN k ELSE FreeFrom(f[i - 1]) + 1]
           H == {m \in 0..n : \E f \in [0..m -> Nat] : Counts(f, m)}
<1>1. n \in Nat /\ DOMAIN us = 1..n /\ \A i \in 1..n : us[i] \in User
  OBVIOUS
<1> HIDE DEF n
<1>2. 0 \in H
  <2> DEFINE f == [i \in 0..0 |-> k]
  <2>1. f \in [0..0 -> Nat] /\ Counts(f, 0)
    OBVIOUS
  <2>2. 0 \in 0..n
    BY <1>1
  <2> HIDE DEF f
  <2> QED BY <2>1, <2>2
<1>3. ASSUME NEW m \in 0..(n - 1), m \in H PROVE m + 1 \in H
  <2>1. PICK f \in [0..m -> Nat] : Counts(f, m)
    BY <1>3
  <2>2. m \in Nat /\ m \in 0..m /\ m + 1 \in 0..n
    BY <1>1
  <2> DEFINE g == [i \in 0..(m + 1) |-> IF i = m + 1 THEN FreeFrom(f[m]) + 1 ELSE f[i]]
  <2>3. FreeFrom(f[m]) + 1 \in Nat
    <3>1. f[m] \in Nat
      BY <2>2
    <3>2. FreeFrom(f[m]) \in Nat
      BY <3>1, GuestIsFree
    <3> QED BY <3>2
  <2>4. g \in [0..(m + 1) -> Nat]
    BY <2>2, <2>3
  <2>5. ASSUME NEW i \in 0..(m + 1)
        PROVE  g[i] = IF i = 0 THEN k ELSE FreeFrom(g[i - 1]) + 1
    <3>1. CASE i = m + 1
      <4>1. g[i] = FreeFrom(f[m]) + 1 /\ i # 0 /\ i - 1 = m /\ m \in 0..(m + 1) /\ m # m + 1
        BY <2>2, <3>1
      <4>2. g[i - 1] = f[m]
        BY <4>1
      <4> QED BY <4>1, <4>2
    <3>2. CASE i # m + 1
      <4>1. i \in 0..m /\ g[i] = f[i]
        BY <2>2, <3>2
      <4>2. f[i] = IF i = 0 THEN k ELSE FreeFrom(f[i - 1]) + 1
        BY <2>1, <4>1
      <4>3. i # 0 => i - 1 \in 0..(m + 1) /\ i - 1 # m + 1
        BY <2>2, <4>1
      <4>4. i # 0 => g[i - 1] = f[i - 1]
        BY <4>3
      <4> QED BY <4>1, <4>2, <4>4
    <3> QED BY <3>1, <3>2
  <2>6. DOMAIN g = 0..(m + 1)
    OBVIOUS
  <2> HIDE DEF g
  <2>7. Counts(g, m + 1)
    BY <2>4, <2>5, <2>6
  <2> QED BY <2>2, <2>4, <2>7
<1>4. n \in H
  <2> HIDE DEF H
  <2>1. 0..n \subseteq H
    BY <1>1, <1>2, <1>3, Upwards
  <2> QED BY <1>1, <2>1
<1>5. PICK f \in [0..n -> Nat] : Counts(f, n)
  BY <1>4
<1> DEFINE num == CHOOSE g : Counts(g, n)
<1>6. Counts(num, n)
  BY <1>5
<1>7. Renames(us, k) = [msgs |-> [i \in DOMAIN us |-> ForceNick(us[i], Guest(num[i] - 1))],
                        next |-> num[n]]
  BY DEF Renames, n
<1> HIDE DEF num
<1>8. num \in [0..n -> Nat]
  <2> DEFINE G == {i \in 0..n : num[i] \in Nat}
  <2>1. 0 \in G
    BY <1>1, <1>6
  <2>2. ASSUME NEW i \in 0..(n - 1), i \in G PROVE i + 1 \in G
    <3>1. i + 1 \in 0..n /\ i + 1 # 0 /\ (i + 1) - 1 = i
      BY <1>1
    <3>2. num[i + 1] = FreeFrom(num[i]) + 1
      BY <1>6, <3>1
    <3>3. num[i] \in Nat
      BY <2>2
    <3>4. FreeFrom(num[i]) \in Nat
      BY <3>3, GuestIsFree
    <3> QED BY <3>1, <3>2, <3>4
  <2> HIDE DEF G
  <2>3. 0..n \subseteq G
    BY <1>1, <2>1, <2>2, Upwards
  <2>4. \A i \in 0..n : num[i] \in Nat
    BY <2>3 DEF G
  <2> QED BY <1>6, <2>4
<1> DEFINE msgs == [i \in DOMAIN us |-> ForceNick(us[i], Guest(num[i] - 1))]
<1>9. ASSUME NEW i \in 1..n
      PROVE  /\ num[i] - 1 = FreeFrom(num[i - 1]) /\ num[i] - 1 \in Nat
             /\ ~Online(Guest(num[i] - 1))
  <2>1. i \in 0..n /\ i # 0 /\ i - 1 \in 0..n
    BY <1>1
  <2>2. num[i] = FreeFrom(num[i - 1]) + 1
    BY <1>6, <2>1
  <2>3. FreeFrom(num[i - 1]) \in Nat /\ ~Online(Guest(FreeFrom(num[i - 1])))
    BY <1>8, <2>1, GuestIsFree
  <2>4. num[i] - 1 = FreeFrom(num[i - 1])
    BY <2>2, <2>3
  <2> QED BY <2>3, <2>4
<1>10. ASSUME NEW i \in 1..n
       PROVE  msgs[i] \in Rename /\ msgs[i].uid = us[i] /\ ~Online(msgs[i].nick)
  <2>1. msgs[i] = [op |-> "nick", uid |-> us[i], nick |-> Guest(num[i] - 1)]
    BY <1>1 DEF ForceNick
  <2>2. Guest(num[i] - 1) \in AnyNick
    BY <1>9, NickFacts
  <2> QED BY <1>1, <1>9, <2>1, <2>2 DEF Rename
<1>11. DOMAIN msgs = 1..n
  BY <1>1
<1> HIDE DEF msgs
<1>12. msgs \in Seq(Rename) /\ Len(msgs) = n
  <2>1. msgs = [i \in 1..n |-> msgs[i]]
    BY <1>11 DEF msgs
  <2> QED BY <1>1, <1>10, <2>1
<1>13. Renames(us, k).msgs = msgs /\ Renames(us, k).next = num[n]
  BY <1>7 DEF msgs
<1>14. num[n] \in Nat
  BY <1>1, <1>8
<1> QED BY <1>10, <1>12, <1>13, <1>14 DEF n

\* The sweep renames users with a timer that is due and has to fire.
LEMMA FiredAreDue ==
    ASSUME NEW p \in Seq(Pending)
    PROVE  /\ Fired(p) \in Seq(User)
           /\ \A k \in 1..Len(Fired(p)) :
                 \E i \in 1..Len(p) : p[i].due /\ Fires(p[i]) /\ p[i].uid = Fired(p)[k]
<1> DEFINE keep == {e \in Range(p) : e.due /\ Fires(e)}
           hit == retain(p, keep)
<1>1. /\ hit \in Seq(Pending)
      /\ \A k \in 1..Len(hit) : \E i \in 1..Len(p) : hit[k] = p[i] /\ p[i] \in keep
  <2> HIDE DEF keep
  <2>1. \E src \in [1..Len(hit) -> Nat] :
           \A k \in 1..Len(hit) : src[k] \in 1..Len(p) /\ hit[k] = p[src[k]] /\ p[src[k]] \in keep
    BY RetainKeeps
  <2> QED BY <2>1, RetainKeeps
<1>2. \A e \in keep : e.due /\ Fires(e)
  OBVIOUS
<1>3. Fired(p) = [i \in DOMAIN hit |-> hit[i].uid]
  BY DEF Fired
<1> HIDE DEF keep, hit
<1>4. DOMAIN hit = 1..Len(hit) /\ Len(hit) \in Nat
      /\ \A k \in 1..Len(hit) : hit[k].uid \in User
  <2>1. \A e \in Pending : e.uid \in User
    BY DEF Pending
  <2> QED BY <1>1, <2>1
<1>5. Fired(p) \in Seq(User) /\ Len(Fired(p)) = Len(hit)
      /\ \A k \in 1..Len(hit) : Fired(p)[k] = hit[k].uid
  BY <1>3, <1>4
<1> QED BY <1>1, <1>2, <1>5

-----------------------------------------------------------------------------
(* The link. *)

\* The burst of a fresh link introduces each user who is there once.
LEMMA BurstIntroduces ==
    ASSUME Typed
    PROVE  /\ Burst \in Seq(UpMsg)
           /\ \A u \in User : \A i, j \in 1..Len(Burst) :
                 Moves(Burst[i], u) /\ Moves(Burst[j], u) => i = j
           /\ \A u \in User : \A i \in 1..Len(Burst) : Moves(Burst[i], u) => at[u] # Gone
<1> DEFINE S == {u \in User : at[u] # Gone}
           users == SetToSeq(S)
           intro(u) == Report("burst", u, at[u])
           seqs == [i \in DOMAIN users |->
                      <<intro(users[i])>> \o
                      (IF meta[users[i]] = None THEN << >>
                       ELSE <<SetAccount(users[i], meta[users[i]])>>)]
           f == FlattenSeq(seqs)
           end == [op |-> "endburst"]
<1>1. IsFiniteSet(S)
  BY UserAssumption, FS_Subset
<1>2. users \in Seq(S) /\ \A i, j \in 1..Len(users) : users[i] = users[j] => i = j
  BY <1>1, SetAsSequence
<1>3. \A u \in S : u \in User /\ at[u] \in AnyNick /\ at[u] # Gone
  BY DEF Typed, TypeOK
<1>4. \A u \in User : meta[u] # None => meta[u] \in Account
  BY DEF Typed, TypeOK
<1>5. Burst = f \o <<end>>
  BY DEF Burst
<1> HIDE DEF S, users
<1>6. DOMAIN users = 1..Len(users) /\ Len(users) \in Nat /\ \A i \in 1..Len(users) : users[i] \in S
  BY <1>2
<1>7. \A u \in S : intro(u) \in UpMsg /\ intro(u).op = "burst" /\ intro(u).uid = u
  BY <1>3 DEF Report, UpMsg, Move
<1>8. \A u \in S : meta[u] # None => SetAccount(u, meta[u]) \in UpMsg
                                      /\ SetAccount(u, meta[u]).op = "account"
  BY <1>3, <1>4 DEF SetAccount, UpMsg, AccountIs
<1>9. end \in UpMsg /\ end.op = "endburst"
  BY DEF UpMsg
<1> HIDE DEF intro, end
<1>10. ASSUME NEW i \in 1..Len(users)
       PROVE  /\ seqs[i] \in Seq(UpMsg)
              /\ \A j \in 1..Len(seqs[i]) :
                    seqs[i][j].op # "account" => j = 1 /\ seqs[i][j].uid = users[i]
  <2> DEFINE u == users[i]
             a == SetAccount(u, meta[u])
  <2>1. u \in S /\ i \in DOMAIN users
    BY <1>6
  <2>2. seqs[i] = <<intro(u)>> \o (IF meta[u] = None THEN << >> ELSE <<a>>)
    BY <2>1
  <2>3. intro(u) \in UpMsg /\ intro(u).uid = u
    BY <1>7, <2>1
  <2>4. meta[u] # None => a \in UpMsg /\ a.op = "account"
    BY <1>8, <2>1
  <2> HIDE DEF seqs, u, a
  <2>5. CASE meta[u] = None
    <3>1. seqs[i] = <<intro(u)>>
      BY <2>2, <2>5
    <3> QED BY <2>3, <3>1 DEF u
  <2>6. CASE meta[u] # None
    <3> DEFINE first == <<intro(u)>>
               second == <<a>>
    <3>1. seqs[i] = first \o second
      BY <2>2, <2>6
    <3>2. /\ first \in Seq(UpMsg) /\ Len(first) = 1 /\ first[1] = intro(u)
          /\ second \in Seq(UpMsg) /\ Len(second) = 1 /\ second[1] = a
      BY <2>3, <2>4, <2>6
    <3> HIDE DEF first, second
    <3>3. /\ first \o second \in Seq(UpMsg)
          /\ Len(first \o second) = Len(first) + Len(second)
          /\ \A j \in 1..Len(first) : (first \o second)[j] = first[j]
          /\ \A j \in 1..Len(second) : (first \o second)[Len(first) + j] = second[j]
      <4>1. first \in Seq(UpMsg) /\ second \in Seq(UpMsg)
        BY <3>2
      <4> QED BY ONLY <4>1
    <3>4. /\ first \o second \in Seq(UpMsg) /\ Len(first \o second) = 2
          /\ (first \o second)[1] = intro(u) /\ (first \o second)[2] = a
      BY <3>2, <3>3
    <3>5. /\ seqs[i] \in Seq(UpMsg) /\ Len(seqs[i]) = 2
          /\ seqs[i][1] = intro(u) /\ seqs[i][2] = a
      BY <3>1, <3>4
    <3> QED BY <2>3, <2>4, <2>6, <3>5 DEF u
  <2> QED BY <2>5, <2>6
<1>11. seqs \in Seq(Seq(UpMsg)) /\ Len(seqs) = Len(users)
  <2>1. DOMAIN seqs = 1..Len(users)
    BY <1>6
  <2> HIDE DEF seqs
  <2>2. seqs = [i \in 1..Len(users) |-> seqs[i]]
    BY <2>1 DEF seqs
  <2> QED BY <1>6, <1>10, <2>2
<1> HIDE DEF seqs
<1>12. /\ f \in Seq(UpMsg)
       /\ \E src, pos \in [1..Len(f) -> Nat] :
            /\ \A k \in 1..Len(f) :
                 /\ src[k] \in 1..Len(seqs) /\ pos[k] \in 1..Len(seqs[src[k]])
                 /\ f[k] = seqs[src[k]][pos[k]]
            /\ \A k, l \in 1..Len(f) : src[k] = src[l] /\ pos[k] = pos[l] => k = l
  BY <1>11, FlattenFrom
<1> HIDE DEF f
<1>13. PICK src \in [1..Len(f) -> Nat], pos \in [1..Len(f) -> Nat] :
         /\ \A k \in 1..Len(f) :
              /\ src[k] \in 1..Len(seqs) /\ pos[k] \in 1..Len(seqs[src[k]])
              /\ f[k] = seqs[src[k]][pos[k]]
         /\ \A k, l \in 1..Len(f) : src[k] = src[l] /\ pos[k] = pos[l] => k = l
  BY <1>12
<1>14. ASSUME NEW k \in 1..Len(f), NEW u \in User, Moves(f[k], u)
       PROVE  src[k] \in 1..Len(users) /\ pos[k] = 1 /\ users[src[k]] = u
  <2>1. /\ src[k] \in 1..Len(users) /\ pos[k] \in 1..Len(seqs[src[k]])
        /\ f[k] = seqs[src[k]][pos[k]]
    BY <1>11, <1>13
  <2>2. f[k].op # "account" /\ f[k].uid = u
    BY <1>14 DEF Moves
  <2>3. \A j \in 1..Len(seqs[src[k]]) :
           seqs[src[k]][j].op # "account" => j = 1 /\ seqs[src[k]][j].uid = users[src[k]]
    BY <1>10, <2>1
  <2> QED BY <2>1, <2>2, <2>3
<1>15. /\ Burst \in Seq(UpMsg) /\ Len(Burst) = Len(f) + 1 /\ Len(f) \in Nat
       /\ Burst[Len(f) + 1] = end /\ \A i \in 1..Len(f) : Burst[i] = f[i]
  BY <1>5, <1>9, <1>12
<1>16. ASSUME NEW i \in 1..Len(Burst), NEW u \in User, Moves(Burst[i], u)
       PROVE  i \in 1..Len(f) /\ Moves(f[i], u)
  <2>1. ~Moves(end, u)
    BY <1>9 DEF Moves
  <2>2. i # Len(f) + 1
    BY <1>15, <1>16, <2>1
  <2>3. i \in 1..Len(f)
    BY <1>15, <2>2
  <2> QED BY <1>15, <1>16, <2>3
<1>17. ASSUME NEW u \in User, NEW i \in 1..Len(Burst), NEW j \in 1..Len(Burst),
              Moves(Burst[i], u), Moves(Burst[j], u)
       PROVE  i = j
  <2>1. /\ i \in 1..Len(f) /\ src[i] \in 1..Len(users) /\ pos[i] = 1 /\ users[src[i]] = u
        /\ j \in 1..Len(f) /\ src[j] \in 1..Len(users) /\ pos[j] = 1 /\ users[src[j]] = u
    BY <1>14, <1>16, <1>17
  <2>2. src[i] = src[j]
    BY <1>2, <2>1
  <2> QED BY <1>13, <2>1, <2>2
<1>18. ASSUME NEW u \in User, NEW i \in 1..Len(Burst), Moves(Burst[i], u) PROVE at[u] # Gone
  <2>1. i \in 1..Len(f) /\ src[i] \in 1..Len(users) /\ users[src[i]] = u
    BY <1>14, <1>16, <1>18
  <2> QED BY <1>3, <1>6, <2>1
<1> QED BY <1>15, <1>17, <1>18

\* A report at the end leaves what came before it in order.
LEMMA OrderedAfter ==
    ASSUME NEW q \in Seq(UpMsg), NEW m \in UpMsg, NEW u \in User, NEW was, NEW now, NEW then,
           OrderedFor(u, was, now, q),
           then = Gone => (now = Gone /\ ~Moves(m, u)) \/ (m.op = "quit" /\ m.uid = u),
           m.op \in {"connect", "burst"} /\ m.uid = u => now = Gone
    PROVE  OrderedFor(u, was, then, Append(q, m))
<1> DEFINE r == Append(q, m)
           n == Len(q)
<1>1. /\ n \in Nat /\ Len(r) = n + 1 /\ r[n + 1] = m /\ \A i \in 1..n : r[i] = q[i]
  OBVIOUS
<1> HIDE DEF r, n
<1>2. ASSUME NEW i \in 1..(n + 1), Absent(was, q, u, i) PROVE Absent(was, r, u, i)
  <2>1. \A j \in 1..(i - 1) : r[j] = q[j]
    BY <1>1
  <2>2. \A j \in 1..(i - 1) : \A k \in (j + 1)..(i - 1) : r[k] = q[k]
    BY <1>1
  <2> QED BY <1>2, <2>1, <2>2 DEF Absent
<1>3. ASSUME NEW i \in 1..(n + 1), r[i].op \in {"connect", "burst"}, r[i].uid = u
      PROVE  Absent(was, r, u, i)
  <2>1. CASE i = n + 1
    <3>1. Absent(was, q, u, i)
      BY <1>1, <1>3, <2>1 DEF OrderedFor, n
    <3> QED BY <1>2, <3>1
  <2>2. CASE i # n + 1
    <3>1. i \in 1..n
      BY <1>1, <2>2
    <3>2. Absent(was, q, u, i)
      BY <1>1, <1>3, <3>1 DEF OrderedFor, n
    <3> QED BY <1>2, <3>2
  <2> QED BY <2>1, <2>2
<1>4. ASSUME then = Gone PROVE Absent(was, r, u, n + 2)
  <2>1. CASE m.op = "quit" /\ m.uid = u
    <3>1. n + 1 \in 1..((n + 2) - 1) /\ \A k \in ((n + 1) + 1)..((n + 2) - 1) : FALSE
      BY <1>1
    <3> QED BY <1>1, <2>1, <3>1 DEF Absent
  <2>2. CASE now = Gone /\ ~Moves(m, u)
    <3>1. Absent(was, r, u, n + 1)
      <4>1. Absent(was, q, u, n + 1)
        BY <2>2 DEF OrderedFor, n
      <4>2. n + 1 \in 1..(n + 1)
        BY <1>1
      <4> QED BY <1>2, <4>1, <4>2
    <3>2. ~Moves(r[n + 1], u)
      BY <1>1, <2>2
    <3>3. (n + 1) - 1 = n /\ (n + 2) - 1 = n + 1
      BY <1>1
    <3>4. CASE was = Gone /\ \A j \in 1..n : ~Moves(r[j], u)
      <4>1. \A j \in 1..(n + 1) : ~Moves(r[j], u)
        BY <1>1, <3>2, <3>4
      <4> QED BY <3>3, <3>4, <4>1 DEF Absent
    <3>5. ASSUME NEW j \in 1..n, r[j].op = "quit", r[j].uid = u,
                 \A k \in (j + 1)..n : ~Moves(r[k], u)
          PROVE  Absent(was, r, u, n + 2)
      <4>1. ASSUME NEW k \in (j + 1)..(n + 1) PROVE ~Moves(r[k], u)
        <5>1. k = n + 1 \/ k \in (j + 1)..n
          BY <1>1
        <5> QED BY <3>2, <3>5, <5>1
      <4>2. j \in 1..(n + 1)
        BY <1>1
      <4> QED BY <3>3, <3>5, <4>1, <4>2 DEF Absent
    <3> QED BY <3>1, <3>3, <3>4, <3>5 DEF Absent
  <2> QED BY <1>4, <2>1, <2>2
<1>5. Len(r) + 1 = n + 2
  BY <1>1
<1> QED BY <1>1, <1>3, <1>4, <1>5 DEF OrderedFor, r

\* Delivering the first report leaves the rest in order.
LEMMA OrderedBehind ==
    ASSUME NEW q \in Seq(UpMsg), q # << >>, NEW u \in User, NEW was, NEW then, NEW now,
           OrderedFor(u, was, now, q),
           Head(q).op = "quit" /\ Head(q).uid = u => then = Gone,
           ~Moves(Head(q), u) => then = was
    PROVE  OrderedFor(u, then, now, Tail(q))
<1> DEFINE r == Tail(q)
           n == Len(q)
<1>1. /\ n \in Nat /\ n >= 1 /\ Len(r) = n - 1 /\ Head(q) = q[1]
      /\ \A i \in 1..(n - 1) : r[i] = q[i + 1]
  OBVIOUS
<1> HIDE DEF r, n
<1>2. ASSUME NEW i \in 2..(n + 1), Absent(was, q, u, i) PROVE Absent(then, r, u, i - 1)
  <2>1. CASE was = Gone /\ \A j \in 1..(i - 1) : ~Moves(q[j], u)
    <3>1. 1 \in 1..(i - 1)
      BY <1>1
    <3>2. then = Gone
      BY <1>1, <2>1, <3>1
    <3>3. \A j \in 1..((i - 1) - 1) : j + 1 \in 1..(i - 1) /\ r[j] = q[j + 1]
      BY <1>1
    <3>4. \A j \in 1..((i - 1) - 1) : ~Moves(r[j], u)
      BY <2>1, <3>3
    <3> QED BY <3>2, <3>4 DEF Absent
  <2>2. ASSUME NEW j \in 1..(i - 1), q[j].op = "quit", q[j].uid = u,
               \A k \in (j + 1)..(i - 1) : ~Moves(q[k], u)
        PROVE  Absent(then, r, u, i - 1)
    <3>1. CASE j = 1
      <4>1. then = Gone
        BY <1>1, <2>2, <3>1
      <4>2. \A k \in 1..((i - 1) - 1) : k + 1 \in (j + 1)..(i - 1) /\ r[k] = q[k + 1]
        BY <1>1, <3>1
      <4>3. \A k \in 1..((i - 1) - 1) : ~Moves(r[k], u)
        BY <2>2, <4>2
      <4> QED BY <4>1, <4>3 DEF Absent
    <3>2. CASE j # 1
      <4>1. j - 1 \in 1..((i - 1) - 1) /\ r[j - 1] = q[j]
        BY <1>1, <3>2
      <4>2. \A k \in ((j - 1) + 1)..((i - 1) - 1) : k + 1 \in (j + 1)..(i - 1) /\ r[k] = q[k + 1]
        BY <1>1, <3>2
      <4>3. \A k \in ((j - 1) + 1)..((i - 1) - 1) : ~Moves(r[k], u)
        BY <2>2, <4>2
      <4> QED BY <2>2, <4>1, <4>3 DEF Absent
    <3> QED BY <3>1, <3>2
  <2> QED BY <1>2, <2>1, <2>2 DEF Absent
<1>3. ASSUME NEW i \in 1..(n - 1), r[i].op \in {"connect", "burst"}, r[i].uid = u
      PROVE  Absent(then, r, u, i)
  <2>1. i + 1 \in 1..n /\ i + 1 \in 2..(n + 1) /\ (i + 1) - 1 = i /\ r[i] = q[i + 1]
    BY <1>1
  <2>2. Absent(was, q, u, i + 1)
    BY <1>3, <2>1 DEF OrderedFor, n
  <2>3. Absent(then, r, u, (i + 1) - 1)
    BY <1>2, <2>1, <2>2
  <2> QED BY <2>1, <2>3
<1>4. ASSUME now = Gone PROVE Absent(then, r, u, n)
  <2>1. n + 1 \in 2..(n + 1) /\ (n + 1) - 1 = n
    BY <1>1
  <2>2. Absent(was, q, u, n + 1)
    BY <1>4 DEF OrderedFor, n
  <2>3. Absent(then, r, u, (n + 1) - 1)
    BY <1>2, <2>1, <2>2
  <2> QED BY <2>1, <2>3
<1>5. Len(r) + 1 = n
  BY <1>1
<1> QED BY <1>1, <1>3, <1>4, <1>5 DEF OrderedFor, r

-----------------------------------------------------------------------------
(* Types. *)

\* A sequence over a set is one over each larger set.
LEMMA Wider ==
    ASSUME NEW S, NEW T, S \subseteq T, NEW s \in Seq(S)
    PROVE  s \in Seq(T)
OBVIOUS

\* A sequence over a set stays one with another behind it.
LEMMA Longer ==
    ASSUME NEW T, NEW s \in Seq(T), NEW t \in Seq(T)
    PROVE  s \o t \in Seq(T)
OBVIOUS

\* What travels is of the kinds above.
LEMMA Messages ==
    ASSUME NEW u \in User
    PROVE  /\ \A n \in AnyNick : ForceNick(u, n) \in Rename
           /\ \A a \in Account \union {None} : SetAccount(u, a) \in DownMsg
           /\ \A n \in AnyNick : \A kind \in {"connect", "nick", "quit"} :
                 Report(kind, u, n) \in UpMsg
           /\ Rename \subseteq DownMsg
BY DEF ForceNick, SetAccount, Report, Rename, Move, AccountIs, UpMsg, DownMsg

\* Whatever is dropped, armed or swept, timers stay timers.
LEMMA TimersTyped ==
    ASSUME NEW p \in Seq(Pending), NEW u \in User
    PROVE  /\ Without(p, u) \in Seq(Pending) /\ Undue(p) \in Seq(Pending)
           /\ \A n : enforce_registered_nick(u, n, p) \in Seq(Pending)
<1>1. Without(p, u) \in Seq(Pending) /\ Undue(p) \in Seq(Pending)
  BY RetainKeeps DEF Without, Undue
<1>2. ASSUME NEW n, MustIdentify(u, n)
      PROVE  Append(Without(p, u), [uid |-> u, nick |-> n, due |-> FALSE]) \in Seq(Pending)
  <2>1. [uid |-> u, nick |-> n, due |-> FALSE] \in Pending
    BY <1>2 DEF MustIdentify, resolve_account, Pending
  <2> QED BY <1>1, <2>1
<1> QED BY <1>1, <1>2 DEF enforce_registered_nick

\* The users of a set, in any order.
LEMMA UsersInOrder ==
    ASSUME NEW S \in SUBSET User
    PROVE  SetToSeq(S) \in Seq(User)
<1>1. IsFiniteSet(S)
  BY UserAssumption, FS_Subset
<1>2. SetToSeq(S) \in Seq(S)
  BY <1>1, SetAsSequence
<1> QED BY <1>2, Wider

\* Freeing a nick renames whoever wears it.
LEMMA FreeRenames ==
    ASSUME NEW n, NEW u, NEW k \in Nat
    PROVE  Free(n, u, k).msgs \in Seq(DownMsg) /\ Free(n, u, k).next \in Nat
<1>1. HolderOf(n) \ {u} \in SUBSET User
  BY DEF HolderOf
<1>2. Free(n, u, k).msgs \in Seq(Rename) /\ Free(n, u, k).next \in Nat
  BY <1>1, UsersInOrder, RenamesAre DEF Free
<1>3. Rename \subseteq DownMsg
  BY DEF DownMsg
<1> QED BY <1>2, <1>3, Wider

\* The store's answer is an account or None.
LEMMA Resolved ==
    ASSUME Typed, NEW n
    PROVE  /\ resolve_account(n) \in Account \union {None}
           /\ resolve_account(n) # None => n \in RegNick
BY DEF resolve_account, Typed, TypeOK

\* A step of the ircd, or of its users, keeps the types.
LEMMA TypedAtIrcd ==
    ASSUME Typed, Users \/ Arrive
    PROVE  Typed'
<1>1. /\ at \in [User -> AnyNick \union {Gone}] /\ meta \in [User -> Account \union {None}]
      /\ up \in Seq(UpMsg) /\ down \in Seq(DownMsg) /\ steps \in 0..MaxSteps
  BY DEF Typed, TypeOK
<1>2. Gone \notin AnyNick /\ Wearable \subseteq AnyNick /\ User \subseteq AnyNick
  BY NickFacts
<1>3. Act => steps' \in 0..MaxSteps
  BY <1>1, UserAssumption DEF Act
<1>4. ASSUME NEW u \in User, NEW n \in Wearable, Connect(u, n) \/ ChangeNick(u, n) PROVE Typed'
  <2>1. Report("connect", u, n) \in UpMsg /\ Report("nick", u, n) \in UpMsg
    BY <1>2, Messages
  <2>2. /\ Act /\ at' = [at EXCEPT ![u] = n]
        /\ up' = Append(up, Report("connect", u, n)) \/ up' = Append(up, Report("nick", u, n))
    BY <1>4 DEF Connect, ChangeNick
  <2>3. n \in AnyNick
    BY <1>2
  <2>4. at' \in [User -> AnyNick \union {Gone}]
    <3>1. at' = [at EXCEPT ![u] = n] /\ at \in [User -> AnyNick \union {Gone}]
      BY <1>1, <2>2
    <3> QED BY <2>3, <3>1
  <2>5. up' \in Seq(UpMsg)
    <3>1. up \in Seq(UpMsg)
      BY <1>1
    <3>2. \A m \in UpMsg : Append(up, m) \in Seq(UpMsg)
      BY ONLY <3>1
    <3> QED BY <2>1, <2>2, <3>2
  <2>6. steps' \in 0..MaxSteps
    BY <1>3, <2>2
  <2> QED BY <1>4, <2>4, <2>5, <2>6 DEF Connect, ChangeNick, store, Typed, TypeOK
<1>5. ASSUME NEW u \in User, Quit(u) PROVE Typed'
  <2>1. Report("quit", u, at[u]) \in UpMsg
    BY <1>1, <1>5, Messages DEF Quit
  <2>2. /\ at' \in [User -> AnyNick \union {Gone}] /\ up' \in Seq(UpMsg)
        /\ meta' \in [User -> Account \union {None}] /\ steps' \in 0..MaxSteps
    BY <1>1, <1>2, <1>3, <1>5, <2>1 DEF Quit
  <2> QED BY <1>5, <2>2 DEF Quit, store, Typed, TypeOK
<1>6. ASSUME Arrive PROVE Typed'
  <2> DEFINE d == Head(down)
             n == IF d.op # "nick" THEN None
                  ELSE IF \E v \in User \ {d.uid} : at[v] = d.nick THEN d.uid
                  ELSE d.nick
             moved == d.op = "nick" /\ at[d.uid] \notin {Gone, n}
  <2>1. d \in DownMsg /\ down' = Tail(down) /\ down' \in Seq(DownMsg)
    BY <1>1, <1>6 DEF Arrive
  <2>2. /\ at' = IF moved THEN [at EXCEPT ![d.uid] = n] ELSE at
        /\ up' = IF moved THEN Append(up, Report("nick", d.uid, n)) ELSE up
        /\ meta' = IF d.op = "account" /\ at[d.uid] # Gone
                   THEN [meta EXCEPT ![d.uid] = d.account] ELSE meta
    BY <1>6 DEF Arrive
  <2> HIDE DEF d
  <2>3. /\ d.op = "nick" => d.uid \in User /\ d.nick \in AnyNick
        /\ d.op = "account" => d.uid \in User /\ d.account \in Account \union {None}
    BY <2>1 DEF DownMsg, Rename, AccountIs
  <2>4. d.op = "nick" => n \in AnyNick
    BY <1>2, <2>3
  <2> HIDE DEF n
  <2>5. moved => Report("nick", d.uid, n) \in UpMsg
    BY <2>3, <2>4, Messages
  <2>6. at' \in [User -> AnyNick \union {Gone}] /\ up' \in Seq(UpMsg)
    BY <1>1, <2>2, <2>3, <2>4, <2>5
  <2>7. meta' \in [User -> Account \union {None}]
    BY <1>1, <2>2, <2>3
  <2> QED BY <1>6, <2>1, <2>6, <2>7 DEF Arrive, store, Typed, TypeOK
<1> QED BY <1>4, <1>5, <1>6 DEF Users

\* What services are told, the passing of time and the sweep keep the types.
LEMMA TypedAtServices ==
    ASSUME Typed, Deliver \/ Elapse \/ Sweep
    PROVE  Typed'
<1>1. /\ mirror \in [User -> AnyNick \union {Gone}] /\ account \in [User -> Account \union {None}]
      /\ pending \in Seq(Pending) /\ warned \in [User -> RegNick \union {None}]
      /\ up \in Seq(UpMsg) /\ down \in Seq(DownMsg) /\ synced \in BOOLEAN
      /\ seq \in [nickserv : Nat, sweep : Nat]
  BY DEF Typed, TypeOK
<1>2. ASSUME Deliver PROVE Typed'
  <2> DEFINE e == Head(up)
  <2>1. e \in UpMsg /\ up' \in Seq(UpMsg)
    BY <1>1, <1>2 DEF Deliver
  <2>2. \/ e.op \in {"connect", "burst"} /\ UserConnect(e)
        \/ e.op = "nick" /\ NickChange(e)
        \/ e.op = "quit" /\ forget_user(e)
        \/ e.op = "account" /\ AccountLogin(e)
        \/ e.op = "endburst" /\ EndBurst
    BY <1>2 DEF Deliver
  <2> HIDE DEF e
  <2>3. /\ e.op \in {"connect", "burst", "nick", "quit"} => e.uid \in User /\ e.nick \in AnyNick
        /\ e.op = "account" => e.uid \in User /\ e.account \in Account \union {None}
    BY <2>1 DEF UpMsg, Move, AccountIs
  <2>4. MustIdentify(e.uid, e.nick) => e.nick \in RegNick
    BY Resolved DEF MustIdentify
  <2>5. e.uid \in User =>
          /\ Without(pending, e.uid) \in Seq(Pending)
          /\ enforce_registered_nick(e.uid, e.nick, pending) \in Seq(Pending)
          /\ enforce_registered_nick(e.uid, e.nick, Without(pending, e.uid)) \in Seq(Pending)
    BY <1>1, TimersTyped
  <2>6. /\ mirror' \in [User -> AnyNick \union {Gone}]
        /\ account' \in [User -> Account \union {None}]
    BY <1>1, <2>2, <2>3
       DEF UserConnect, NickChange, forget_user, AccountLogin, EndBurst
  <2>7. pending' \in Seq(Pending) /\ synced' \in BOOLEAN
    BY <1>1, <2>2, <2>3, <2>5
       DEF UserConnect, NickChange, forget_user, AccountLogin, EndBurst
  <2>8. warned' \in [User -> RegNick \union {None}]
    <3>1. CASE e.op \in {"connect", "burst"} /\ UserConnect(e)
      BY <1>1, <2>4, <3>1 DEF UserConnect
    <3>2. CASE e.op = "nick" /\ NickChange(e)
      BY <1>1, <2>4, <3>2 DEF NickChange
    <3>3. CASE e.op = "quit" /\ forget_user(e)
      BY <1>1, <3>3 DEF forget_user
    <3> QED BY <1>1, <2>2, <3>1, <3>2, <3>3 DEF AccountLogin, EndBurst
  <2> QED BY <1>2, <2>1, <2>6, <2>7, <2>8 DEF Deliver, store, Typed, TypeOK
<1>3. ASSUME Elapse PROVE Typed'
  <2>1. PICK i \in DOMAIN pending : pending' = [pending EXCEPT ![i].due = TRUE]
    BY <1>3 DEF Elapse
  <2>2. pending[i] \in Pending
    BY <1>1
  <2>3. [pending[i] EXCEPT !.due = TRUE] \in Pending
    BY <2>2 DEF Pending
  <2>4. pending' = [pending EXCEPT ![i] = [pending[i] EXCEPT !.due = TRUE]]
    BY <2>1
  <2>5. pending' \in Seq(Pending)
    BY <1>1, <2>3, <2>4
  <2> QED BY <1>3, <2>5 DEF Elapse, ircd, store, Typed, TypeOK
<1>4. ASSUME Sweep PROVE Typed'
  <2> DEFINE r == Renames(Fired(pending), seq.sweep)
  <2>1. Fired(pending) \in Seq(User) /\ seq.sweep \in Nat
    BY <1>1, FiredAreDue
  <2>2. r.msgs \in Seq(Rename) /\ r.next \in Nat
    BY <2>1, RenamesAre
  <2>3. r.msgs \in Seq(DownMsg)
    BY <2>2, Wider DEF DownMsg
  <2>4. /\ down' = down \o r.msgs /\ seq' = [seq EXCEPT !.sweep = r.next]
        /\ pending' = Undue(pending)
    BY <1>4 DEF Sweep, enforce_sweep
  <2> HIDE DEF r
  <2>5. down' \in Seq(DownMsg)
    BY <1>1, <2>3, <2>4, Longer
  <2>6. seq' \in [nickserv : Nat, sweep : Nat]
    BY <1>1, <2>2, <2>4
  <2>7. pending' \in Seq(Pending)
    BY <1>1, <2>4, RetainKeeps DEF Undue
  <2>8. warned' \in [User -> RegNick \union {None}]
    BY <1>1, <1>4 DEF Sweep
  <2> QED BY <1>4, <2>5, <2>6, <2>7, <2>8 DEF Sweep, ircd, store, Typed, TypeOK
<1> QED BY <1>2, <1>3, <1>4

\* The parts of the state a command of services moves, in their types.
MovedInType ==
    /\ account' \in [User -> Account \union {None}] /\ meta' \in [User -> Account \union {None}]
    /\ pending' \in Seq(Pending) /\ down' \in Seq(DownMsg)
    /\ seq' \in [nickserv : Nat, sweep : Nat]

\* A command keeps the types.
LEMMA TypedByCommand ==
    ASSUME Typed, Commands
    PROVE  Typed'
<1>1. /\ account \in [User -> Account \union {None}] /\ meta \in [User -> Account \union {None}]
      /\ pending \in Seq(Pending) /\ down \in Seq(DownMsg) /\ steps \in 0..MaxSteps
      /\ seq \in [nickserv : Nat, sweep : Nat]
  BY DEF Typed, TypeOK
<1>2. Act => steps' \in 0..MaxSteps
  BY <1>1, UserAssumption DEF Act
<1>3. ASSUME NEW k \in Nat
      PROVE  /\ [seq EXCEPT !.nickserv = k] \in [nickserv : Nat, sweep : Nat]
             /\ [seq EXCEPT !.sweep = k] \in [nickserv : Nat, sweep : Nat]
  BY <1>1
<1>4. ASSUME NEW u \in User, NEW a \in Account \union {None}, LogIn(u, a)
      PROVE  account' \in [User -> Account \union {None}] /\ pending' \in Seq(Pending)
  BY <1>1, <1>4, TimersTyped DEF LogIn
<1>5. seq.nickserv \in Nat /\ seq.sweep \in Nat
  BY <1>1
<1>6. ASSUME NEW s \in Seq(DownMsg), down' = down \o s PROVE down' \in Seq(DownMsg)
  BY <1>1, <1>6, Longer
<1>7. ASSUME NEW u \in User, NEW a \in Account, Identify(u, a) PROVE Typed'
  <2>1. SetAccount(u, a) \in DownMsg
    BY Messages
  <2>2. Act /\ LogIn(u, a) /\ down' = Append(down, SetAccount(u, a)) /\ UNCHANGED <<meta, seq>>
    BY <1>7 DEF Identify, Command, ircd
  <2>3. MovedInType
    BY <1>1, <1>4, <2>1, <2>2 DEF MovedInType
  <2> QED BY <1>2, <1>7, <2>2, <2>3 DEF MovedInType, Identify, ircd, store, Typed, TypeOK
<1>8. ASSUME NEW u \in User, NEW a \in Account, SaslLogin(u, a) PROVE Typed'
  <2>1. /\ Act /\ LogIn(u, a) /\ meta' = [meta EXCEPT ![u] = a] /\ UNCHANGED <<down, seq>>
    BY <1>8 DEF SaslLogin
  <2>2. MovedInType
    BY <1>1, <1>4, <2>1 DEF MovedInType
  <2> QED BY <1>2, <1>8, <2>1, <2>2 DEF MovedInType, SaslLogin, store, Typed, TypeOK
<1>9. ASSUME NEW u \in User, Logout(u) PROVE Typed'
  <2> DEFINE r == Renames(<<u>>, seq.nickserv)
             s == <<SetAccount(u, None)>> \o r.msgs
  <2>1. r.msgs \in Seq(Rename) /\ r.next \in Nat
    <3>1. <<u>> \in Seq(User)
      OBVIOUS
    <3> QED BY <1>5, <3>1, RenamesAre
  <2>2. r.msgs \in Seq(DownMsg)
    BY <2>1, Wider, Messages
  <2>3. s \in Seq(DownMsg)
    <3>1. <<SetAccount(u, None)>> \in Seq(DownMsg)
      BY Messages
    <3> HIDE DEF r
    <3> QED BY <2>2, <3>1, Longer
  <2>4. /\ Act /\ down' = down \o <<SetAccount(u, None)>> \o r.msgs
        /\ seq' = [seq EXCEPT !.nickserv = r.next] /\ account' = [account EXCEPT ![u] = None]
        /\ UNCHANGED <<meta, pending>>
    BY <1>9 DEF Logout, Command, ircd
  <2> HIDE DEF r
  <2>5. down' \in Seq(DownMsg)
    <3>1. <<SetAccount(u, None)>> \in Seq(DownMsg)
      BY Messages
    <3>2. down \o <<SetAccount(u, None)>> \in Seq(DownMsg)
      BY <1>1, <3>1, Longer
    <3> QED BY <2>2, <2>4, <3>2, Longer
  <2>6. MovedInType
    BY <1>1, <1>3, <2>1, <2>4, <2>5 DEF MovedInType
  <2> QED BY <1>2, <1>9, <2>4, <2>6 DEF MovedInType, Logout, ircd, store, Typed, TypeOK
<1>10. ASSUME NEW u \in User, NEW n \in RegNick, Login(u, n) PROVE Typed'
  <2> DEFINE a == resolve_account(n)
             r == Free(n, u, seq.sweep)
             own == IF mirror[u] # n THEN <<ForceNick(u, n)>> ELSE << >>
  <2>1. a \in Account \union {None}
    BY Resolved
  <2>2. r.msgs \in Seq(DownMsg) /\ r.next \in Nat
    BY <1>5, FreeRenames
  <2>3. own \in Seq(DownMsg)
    <3>1. ForceNick(u, n) \in DownMsg
      BY NickFacts, Messages
    <3> QED BY <3>1
  <2>4. /\ Act /\ LogIn(u, a) /\ down' = down \o <<SetAccount(u, a)>> \o r.msgs \o own
        /\ seq' = [seq EXCEPT !.sweep = r.next] /\ UNCHANGED meta
    BY <1>10 DEF Login, Command, ircd
  <2> HIDE DEF a, r, own
  <2>5. down' \in Seq(DownMsg)
    <3>1. <<SetAccount(u, a)>> \in Seq(DownMsg)
      BY <2>1, Messages
    <3>2. down \o <<SetAccount(u, a)>> \in Seq(DownMsg)
      BY <1>1, <3>1, Longer
    <3>3. down \o <<SetAccount(u, a)>> \o r.msgs \in Seq(DownMsg)
      BY <2>2, <3>2, Longer
    <3> QED BY <2>3, <2>4, <3>3, Longer
  <2>6. MovedInType
    BY <1>1, <1>3, <1>4, <2>1, <2>2, <2>4, <2>5 DEF MovedInType
  <2> QED BY <1>2, <1>10, <2>4, <2>6 DEF MovedInType, Login, ircd, store, Typed, TypeOK
<1>11. ASSUME NEW u \in User, NEW n \in RegNick, NEW regain \in BOOLEAN, ghost(u, n, regain)
       PROVE  Typed'
  <2> DEFINE r == Free(n, u, seq.nickserv)
             own == IF regain THEN <<ForceNick(u, n)>> ELSE << >>
  <2>1. r.msgs \in Seq(DownMsg) /\ r.next \in Nat
    BY <1>5, FreeRenames
  <2>2. own \in Seq(DownMsg)
    <3>1. ForceNick(u, n) \in DownMsg
      BY NickFacts, Messages
    <3> QED BY <3>1
  <2>3. /\ Act /\ down' = down \o r.msgs \o own
        /\ seq' = [seq EXCEPT !.nickserv = r.next] /\ UNCHANGED <<meta, account, pending>>
    BY <1>11 DEF ghost, Command, ircd
  <2> HIDE DEF r, own
  <2>4. down' \in Seq(DownMsg)
    <3>1. down \o r.msgs \in Seq(DownMsg)
      BY <1>1, <2>1, Longer
    <3> QED BY <2>2, <2>3, <3>1, Longer
  <2>5. MovedInType
    BY <1>1, <1>3, <2>1, <2>3, <2>4 DEF MovedInType
  <2> QED BY <1>2, <1>11, <2>3, <2>5 DEF MovedInType, ghost, ircd, store, Typed, TypeOK
<1> QED BY <1>7, <1>8, <1>9, <1>10, <1>11 DEF Commands

\* So do the owner's settings, drops and restarts.
LEMMA TypedByStaff ==
    ASSUME Typed, Staff
    PROVE  Typed'
<1>1. /\ account \in [User -> Account \union {None}] /\ meta \in [User -> Account \union {None}]
      /\ pending \in Seq(Pending) /\ down \in Seq(DownMsg) /\ steps \in 0..MaxSteps
      /\ owner \in [RegNick -> Account \union {None}] /\ protect \in [Account -> BOOLEAN]
  BY DEF Typed, TypeOK
<1>2. Act => steps' \in 0..MaxSteps
  BY <1>1, UserAssumption DEF Act
<1>3. ASSUME NEW a \in Account, SetKill(a) PROVE Typed'
  <2>1. Act /\ protect' \in [Account -> BOOLEAN]
    BY <1>1, <1>3 DEF SetKill
  <2> QED BY <1>2, <1>3, <2>1 DEF SetKill, ircd, Typed, TypeOK
<1>4. ASSUME NEW a \in Account, DropAccount(a) PROVE Typed'
  <2> DEFINE S == {u \in User : account[u] = a}
             out == SetToSeq(S)
             s == [i \in DOMAIN out |-> SetAccount(out[i], None)]
  <2>1. out \in Seq(User)
    BY UsersInOrder
  <2>2. down' = down \o s
    BY <1>4 DEF DropAccount
  <2> HIDE DEF out
  <2>3. s \in Seq(DownMsg)
    <3>1. DOMAIN out = 1..Len(out) /\ Len(out) \in Nat /\ \A i \in 1..Len(out) : out[i] \in User
      BY <2>1
    <3>2. \A i \in 1..Len(out) : SetAccount(out[i], None) \in DownMsg
      BY <3>1, Messages
    <3> QED BY <3>1, <3>2
  <2> HIDE DEF s
  <2>4. down' \in Seq(DownMsg)
    BY <1>1, <2>2, <2>3, Longer
  <2>5. /\ owner' \in [RegNick -> Account \union {None}]
        /\ account' \in [User -> Account \union {None}] /\ Act
    BY <1>1, <1>4 DEF DropAccount
  <2> QED BY <1>2, <1>4, <2>4, <2>5 DEF DropAccount, ircd, Typed, TypeOK
<1>5. ASSUME Restart PROVE Typed'
  <2>1. up' \in Seq(UpMsg)
    BY <1>5, BurstIntroduces DEF Restart
  <2>2. seq' \in [nickserv : Nat, sweep : Nat]
    BY <1>5, UserAssumption DEF Restart
  <2>3. Act /\ pending' \in Seq(Pending) /\ down' \in Seq(DownMsg)
    BY <1>5 DEF Restart
  <2> QED BY <1>2, <1>5, <2>1, <2>2, <2>3 DEF Restart, store, Typed, TypeOK
<1> QED BY <1>3, <1>4, <1>5 DEF Staff

\* Every step keeps the types.
LEMMA TypedStep ==
    ASSUME Typed, [Next]_vars
    PROVE  Typed'
<1>1. CASE UNCHANGED vars
  BY <1>1 DEF vars, Typed, TypeOK
<1>2. CASE Next
  BY <1>2, TypedAtIrcd, TypedAtServices, TypedByCommand, TypedByStaff DEF Next
<1> QED BY <1>1, <1>2

\* The program starts with its variables in their types.
LEMMA TypedAtStart ==
    ASSUME Init
    PROVE  Typed
BY OwnerAssumption, UserAssumption DEF Init, Typed, TypeOK

\* Every variable keeps its type.
THEOREM TypeCorrect == Spec => []TypeOK
<1>1. Init => Typed
  BY TypedAtStart
<1>2. Typed /\ [Next]_vars => Typed'
  BY TypedStep
<1>3. Typed => TypeOK
  BY DEF Typed
<1> QED BY <1>1, <1>2, <1>3, PTL DEF Spec

-----------------------------------------------------------------------------
(* Order. *)

\* A step that leaves the ircd's users, its reports and the mirror alone
\* leaves the order.
LEMMA OrderUntouched ==
    ASSUME InOrder, UNCHANGED <<at, up, mirror>>
    PROVE  InOrder'
BY DEF InOrder, OrderedFor, Absent, Moves

\* A report of the ircd is in order.
LEMMA OrderReported ==
    ASSUME Typed, InOrder, NEW m \in UpMsg, NEW u \in User, up' = Append(up, m),
           UNCHANGED mirror, \A v \in User \ {u} : at'[v] = at[v], \A v \in User \ {u} : ~Moves(m, v),
           at'[u] = Gone => m.op = "quit" /\ m.uid = u,
           m.op \in {"connect", "burst"} => at[u] = Gone
    PROVE  InOrder'
<1>1. up \in Seq(UpMsg)
  BY DEF Typed
<1>2. ASSUME NEW v \in User PROVE OrderedFor(v, mirror[v], at'[v], Append(up, m))
  <2>1. OrderedFor(v, mirror[v], at[v], up)
    BY DEF InOrder
  <2>2. CASE v = u
    <3>1. at'[v] = Gone => (at[v] = Gone /\ ~Moves(m, v)) \/ (m.op = "quit" /\ m.uid = v)
      BY <2>2
    <3>2. m.op \in {"connect", "burst"} /\ m.uid = v => at[v] = Gone
      BY <2>2
    <3> QED BY <1>1, <2>1, <3>1, <3>2, OrderedAfter
  <2>3. CASE v # u
    <3>1. at'[v] = at[v] /\ ~Moves(m, v)
      BY <2>3
    <3>2. at'[v] = Gone => (at[v] = Gone /\ ~Moves(m, v)) \/ (m.op = "quit" /\ m.uid = v)
      BY <3>1
    <3>3. m.op \in {"connect", "burst"} /\ m.uid = v => at[v] = Gone
      BY <3>1 DEF Moves
    <3> QED BY <1>1, <2>1, <3>2, <3>3, OrderedAfter
  <2> QED BY <2>2, <2>3
<1>3. \A v \in User : OrderedFor(v, mirror'[v], at'[v], up')
  BY <1>2
<1> QED BY <1>3 DEF InOrder, OrderedFor, Absent, Moves

\* Every step keeps the reports in order.
LEMMA OrderStep ==
    ASSUME Typed, InOrder, [Next]_vars
    PROVE  InOrder'
<1>1. /\ at \in [User -> AnyNick \union {Gone}] /\ mirror \in [User -> AnyNick \union {Gone}]
      /\ up \in Seq(UpMsg) /\ down \in Seq(DownMsg)
  BY DEF Typed, TypeOK
<1>2. Gone \notin AnyNick /\ Wearable \subseteq AnyNick /\ User \subseteq AnyNick
  BY NickFacts
<1>3. ASSUME NEW u \in User, NEW n \in AnyNick
      PROVE  /\ \A kind \in {"connect", "nick", "quit"} :
                  /\ Report(kind, u, n) \in UpMsg
                  /\ Report(kind, u, n).op = kind /\ Report(kind, u, n).uid = u
             /\ \A kind \in {"connect", "nick", "quit"} : \A v \in User \ {u} :
                  ~Moves(Report(kind, u, n), v)
  <2>1. \A kind \in {"connect", "nick", "quit"} : Report(kind, u, n) \in UpMsg
    BY Messages
  <2>2. \A kind : Report(kind, u, n).op = kind /\ Report(kind, u, n).uid = u
    BY DEF Report
  <2> QED BY <2>1, <2>2 DEF Moves
<1>4. ASSUME NEW u \in User, NEW n \in Wearable, Connect(u, n) PROVE InOrder'
  <2>1. /\ at[u] = Gone /\ at' = [at EXCEPT ![u] = n] /\ UNCHANGED mirror
        /\ up' = Append(up, Report("connect", u, n)) /\ n \in AnyNick
    BY <1>2, <1>4 DEF Connect
  <2>2. at'[u] # Gone /\ \A v \in User \ {u} : at'[v] = at[v]
    BY <1>1, <1>2, <2>1
  <2> QED BY <1>3, <2>1, <2>2, OrderReported
<1>5. ASSUME NEW u \in User, NEW n \in Wearable, ChangeNick(u, n) PROVE InOrder'
  <2>1. /\ at' = [at EXCEPT ![u] = n] /\ UNCHANGED mirror
        /\ up' = Append(up, Report("nick", u, n)) /\ n \in AnyNick
    BY <1>2, <1>5 DEF ChangeNick
  <2>2. at'[u] # Gone /\ \A v \in User \ {u} : at'[v] = at[v]
    BY <1>1, <1>2, <2>1
  <2> QED BY <1>3, <2>1, <2>2, OrderReported
<1>6. ASSUME NEW u \in User, Quit(u) PROVE InOrder'
  <2>1. /\ at' = [at EXCEPT ![u] = Gone] /\ UNCHANGED mirror
        /\ up' = Append(up, Report("quit", u, at[u])) /\ at[u] \in AnyNick
    BY <1>1, <1>6 DEF Quit
  <2>2. \A v \in User \ {u} : at'[v] = at[v]
    BY <1>1, <2>1
  <2> QED BY <1>3, <2>1, <2>2, OrderReported
<1>7. ASSUME Arrive PROVE InOrder'
  <2> DEFINE d == Head(down)
             n == IF d.op # "nick" THEN None
                  ELSE IF \E v \in User \ {d.uid} : at[v] = d.nick THEN d.uid
                  ELSE d.nick
             moved == d.op = "nick" /\ at[d.uid] \notin {Gone, n}
  <2>1. d \in DownMsg
    BY <1>1, <1>7 DEF Arrive
  <2>2. /\ at' = IF moved THEN [at EXCEPT ![d.uid] = n] ELSE at
        /\ up' = IF moved THEN Append(up, Report("nick", d.uid, n)) ELSE up
        /\ UNCHANGED mirror
    BY <1>7 DEF Arrive
  <2> HIDE DEF d
  <2>3. d.op = "nick" => d.uid \in User /\ d.nick \in AnyNick
    BY <2>1 DEF DownMsg, Rename, AccountIs
  <2>4. d.op = "nick" => n \in AnyNick
    BY <1>2, <2>3
  <2> HIDE DEF n
  <2>5. CASE moved
    <3>1. /\ d.uid \in User /\ n \in AnyNick /\ at' = [at EXCEPT ![d.uid] = n]
          /\ up' = Append(up, Report("nick", d.uid, n))
      BY <2>2, <2>3, <2>4, <2>5
    <3>2. at'[d.uid] # Gone /\ \A v \in User \ {d.uid} : at'[v] = at[v]
      BY <1>1, <1>2, <3>1
    <3> QED BY <1>3, <2>2, <3>1, <3>2, OrderReported
  <2>6. CASE ~moved
    BY <2>2, <2>6, OrderUntouched
  <2> QED BY <2>5, <2>6
<1>8. ASSUME Deliver PROVE InOrder'
  <2> DEFINE e == Head(up)
  <2>1. e \in UpMsg /\ up # << >> /\ up' = Tail(up) /\ UNCHANGED at
    BY <1>1, <1>8 DEF Deliver
  <2>2. \/ e.op \in {"connect", "burst"} /\ UserConnect(e)
        \/ e.op = "nick" /\ NickChange(e)
        \/ e.op = "quit" /\ forget_user(e)
        \/ e.op = "account" /\ AccountLogin(e)
        \/ e.op = "endburst" /\ EndBurst
    BY <1>8 DEF Deliver
  <2> HIDE DEF e
  <2>3. e.op \in {"connect", "burst", "nick", "quit"} => e.uid \in User
    BY <2>1 DEF UpMsg, Move, AccountIs
  <2>4. ASSUME NEW u \in User
        PROVE  /\ e.op = "quit" /\ e.uid = u => mirror'[u] = Gone
               /\ ~Moves(e, u) => mirror'[u] = mirror[u]
    BY <1>1, <2>2, <2>3 DEF Moves, UserConnect, NickChange, forget_user, AccountLogin, EndBurst
  <2>5. ASSUME NEW u \in User PROVE OrderedFor(u, mirror'[u], at[u], Tail(up))
    <3>1. OrderedFor(u, mirror[u], at[u], up)
      BY DEF InOrder
    <3> QED BY <1>1, <2>1, <2>4, <3>1, OrderedBehind DEF e
  <2>6. \A u \in User : OrderedFor(u, mirror'[u], at'[u], up')
    BY <2>1, <2>5
  <2> QED BY <2>6 DEF InOrder, OrderedFor, Absent, Moves
<1>9. ASSUME Restart PROVE InOrder'
  <2>1. up' = Burst /\ mirror' = [u \in User |-> Gone] /\ UNCHANGED at
    BY <1>9 DEF Restart
  <2> DEFINE b == Burst
  <2>2. /\ b \in Seq(UpMsg)
        /\ \A u \in User : \A i, j \in 1..Len(b) : Moves(b[i], u) /\ Moves(b[j], u) => i = j
        /\ \A u \in User : \A i \in 1..Len(b) : Moves(b[i], u) => at[u] # Gone
    BY BurstIntroduces
  <2>3. up' = b
    BY <2>1
  <2> HIDE DEF b
  <2>4. Len(b) \in Nat
    BY <2>2
  <2>5. ASSUME NEW u \in User, NEW i \in 1..Len(b), b[i].op \in {"connect", "burst"}, b[i].uid = u
        PROVE  Absent(Gone, b, u, i)
    <3>1. Moves(b[i], u)
      BY <2>5 DEF Moves
    <3>2. \A j \in 1..(i - 1) : j \in 1..Len(b) /\ j # i
      BY <2>4
    <3>3. \A j \in 1..(i - 1) : ~Moves(b[j], u)
      BY <2>2, <3>1, <3>2
    <3> QED BY <3>3 DEF Absent
  <2>6. ASSUME NEW u \in User, at[u] = Gone PROVE Absent(Gone, b, u, Len(b) + 1)
    <3>1. (Len(b) + 1) - 1 = Len(b)
      BY <2>4
    <3>2. \A j \in 1..((Len(b) + 1) - 1) : ~Moves(b[j], u)
      BY <2>2, <2>6, <3>1
    <3> QED BY <3>2 DEF Absent
  <2>7. \A u \in User : OrderedFor(u, Gone, at[u], b)
    BY <2>5, <2>6 DEF OrderedFor
  <2>8. \A u \in User : OrderedFor(u, mirror'[u], at'[u], up')
    BY <2>1, <2>3, <2>7
  <2> QED BY <2>8 DEF InOrder, OrderedFor, Absent, Moves
<1>10. ASSUME Elapse \/ Sweep PROVE InOrder'
  <2>1. UNCHANGED <<at, up, mirror>>
    BY <1>10 DEF Elapse, Sweep, ircd
  <2> QED BY <2>1, OrderUntouched
<1>11. ASSUME Commands PROVE InOrder'
  <2>1. UNCHANGED <<at, up, mirror>>
    BY <1>11 DEF Commands, Identify, SaslLogin, Logout, Login, ghost, ircd
  <2> QED BY <2>1, OrderUntouched
<1>12. ASSUME NEW a \in Account, SetKill(a) \/ DropAccount(a) PROVE InOrder'
  <2>1. UNCHANGED <<at, up, mirror>>
    BY <1>12 DEF SetKill, DropAccount, ircd
  <2> QED BY <2>1, OrderUntouched
<1>13. CASE UNCHANGED vars
  <2>1. UNCHANGED <<at, up, mirror>>
    BY <1>13 DEF vars
  <2> QED BY <2>1, OrderUntouched
<1> QED BY <1>4, <1>5, <1>6, <1>7, <1>8, <1>9, <1>10, <1>11, <1>12, <1>13
        DEF Next, Users, Staff

\* Nothing has been reported and nobody is there at the start.
LEMMA OrderAtStart ==
    ASSUME Init
    PROVE  InOrder
<1>1. up = << >> /\ \A u \in User : mirror[u] = Gone
  BY DEF Init
<1>2. Len(up) = 0
  BY <1>1
<1> QED BY <1>1, <1>2 DEF InOrder, OrderedFor, Absent

-----------------------------------------------------------------------------
(* Timers. *)

\* A step that leaves a user's visit alone leaves what its timer is about.
LEMMA TimersStep ==
    ASSUME Typed, InOrder, TimersAreCurrent, [Next]_vars
    PROVE  TimersAreCurrent'
<1>1. /\ mirror \in [User -> AnyNick \union {Gone}] /\ warned \in [User -> RegNick \union {None}]
      /\ pending \in Seq(Pending) /\ up \in Seq(UpMsg)
  BY DEF Typed, TypeOK
<1>2. Gone \notin AnyNick /\ RegNick \subseteq AnyNick
  BY NickFacts
<1>3. Current(pending, warned, mirror)
  BY DEF TimersAreCurrent, Current
<1>4. \A i \in DOMAIN pending : /\ pending[i] \in Pending /\ pending[i].uid \in User
                                /\ pending[i].nick \in RegNick
  <2>1. \A i \in DOMAIN pending : pending[i] \in Pending
    BY <1>1
  <2>2. \A e \in Pending : e.uid \in User /\ e.nick \in RegNick
    BY DEF Pending
  <2> QED BY <2>1, <2>2
<1> SUFFICES Current(pending', warned', mirror')
  BY DEF TimersAreCurrent, Current
<1>5. CASE UNCHANGED <<pending, warned, mirror>>
  BY <1>3, <1>5
<1>6. ASSUME NEW u \in User, pending' = Without(pending, u), UNCHANGED <<warned, mirror>>
      PROVE  Current(pending', warned', mirror')
  BY <1>1, <1>3, <1>6, WithoutCurrent
<1>7. ASSUME Deliver PROVE Current(pending', warned', mirror')
  <2> DEFINE e == Head(up)
             u == e.uid
             w == [warned EXCEPT ![u] = IF MustIdentify(u, e.nick) THEN e.nick ELSE None]
             m == [mirror EXCEPT ![u] = e.nick]
  <2>1. e \in UpMsg /\ e = up[1] /\ 1 \in 1..Len(up)
    BY <1>1, <1>7 DEF Deliver
  <2>2. \/ e.op \in {"connect", "burst"} /\ UserConnect(e)
        \/ e.op = "nick" /\ NickChange(e)
        \/ e.op = "quit" /\ forget_user(e)
        \/ e.op = "account" /\ AccountLogin(e)
        \/ e.op = "endburst" /\ EndBurst
    BY <1>7 DEF Deliver
  <2> HIDE DEF e
  <2>3. /\ e.op \in {"connect", "burst", "nick", "quit"} => u \in User /\ e.nick \in AnyNick
        /\ e.op = "account" => u \in User
    BY <2>1 DEF UpMsg, Move, AccountIs
  <2> HIDE DEF u
  <2>4. u \in User =>
          /\ \A v \in User \ {u} : w[v] = warned[v] /\ m[v] = mirror[v]
          /\ w[u] = (IF MustIdentify(u, e.nick) THEN e.nick ELSE None) /\ m[u] = e.nick
    BY <1>1
  <2> HIDE DEF w, m
  <2>5. CASE e.op \in {"connect", "burst"} /\ UserConnect(e)
    <3>1. u \in User /\ pending' = enforce_registered_nick(u, e.nick, pending)
          /\ warned' = w /\ mirror' = m
      BY <2>3, <2>5 DEF UserConnect, u, w, m
    <3>2. mirror[u] = Gone
      <4>1. OrderedFor(u, mirror[u], at[u], up)
        BY <3>1 DEF InOrder
      <4>2. Absent(mirror[u], up, u, 1)
        BY <2>1, <2>5, <4>1 DEF OrderedFor, u
      <4>3. \A j \in 1..(1 - 1) : FALSE
        OBVIOUS
      <4> QED BY <4>2, <4>3 DEF Absent
    <3>3. \A i \in DOMAIN pending : pending[i].uid # u
      <4> SUFFICES ASSUME NEW i \in DOMAIN pending, pending[i].uid = u PROVE FALSE
        OBVIOUS
      <4>1. mirror[u] = pending[i].nick /\ pending[i].nick \in RegNick
        BY <1>3, <1>4 DEF Current
      <4> QED BY <1>2, <3>2, <4>1
    <3>4. \A i \in DOMAIN pending :
             /\ w[pending[i].uid] = warned[pending[i].uid]
             /\ m[pending[i].uid] = mirror[pending[i].uid]
      BY <1>4, <2>4, <3>1, <3>3
    <3>5. Current(pending, w, m)
      BY <1>3, <3>4 DEF Current
    <3>6. Current(enforce_registered_nick(u, e.nick, pending), w, m)
      BY <1>1, <2>4, <3>1, <3>3, <3>5, EnforceCurrent
    <3> QED BY <3>1, <3>6
  <2>6. CASE e.op = "nick" /\ NickChange(e)
    <3>1. u \in User /\ pending' = enforce_registered_nick(u, e.nick, Without(pending, u))
          /\ warned' = w /\ mirror' = m
      BY <2>3, <2>6 DEF NickChange, u, w, m
    <3>2. /\ Without(pending, u) \in Seq(Pending) /\ Current(Without(pending, u), w, m)
          /\ \A i \in DOMAIN Without(pending, u) : Without(pending, u)[i].uid # u
      <4>1. \A v \in User \ {u} : w[v] = warned[v] /\ m[v] = mirror[v]
        BY <2>4, <3>1
      <4>2. pending \in Seq(Pending)
        BY <1>1
      <4> QED BY <1>3, <4>1, <4>2, WithoutCurrent
    <3>3. Current(enforce_registered_nick(u, e.nick, Without(pending, u)), w, m)
      BY <2>4, <3>1, <3>2, EnforceCurrent
    <3> QED BY <3>1, <3>3
  <2>7. CASE e.op = "quit" /\ forget_user(e)
    <3>1. /\ u \in User /\ pending' = Without(pending, u)
          /\ \A v \in User \ {u} : warned'[v] = warned[v] /\ mirror'[v] = mirror[v]
      BY <1>1, <2>3, <2>7 DEF forget_user, u
    <3> QED BY <1>1, <1>3, <3>1, WithoutCurrent
  <2>8. CASE e.op = "account" /\ AccountLogin(e)
    <3>1. u \in User /\ pending' = Without(pending, u) /\ UNCHANGED <<warned, mirror>>
      BY <2>3, <2>8 DEF AccountLogin, u
    <3> QED BY <1>6, <3>1
  <2>9. CASE e.op = "endburst" /\ EndBurst
    BY <1>3, <2>9 DEF EndBurst
  <2> QED BY <2>2, <2>5, <2>6, <2>7, <2>8, <2>9
<1>8. ASSUME Elapse PROVE Current(pending', warned', mirror')
  <2>1. PICK i \in DOMAIN pending : pending' = [pending EXCEPT ![i].due = TRUE]
    BY <1>8 DEF Elapse
  <2>2. /\ DOMAIN pending' = DOMAIN pending
        /\ \A j \in DOMAIN pending :
             pending'[j].uid = pending[j].uid /\ pending'[j].nick = pending[j].nick
    BY <1>4, <2>1 DEF Pending
  <2>3. UNCHANGED <<warned, mirror>>
    BY <1>8 DEF Elapse
  <2> QED BY <1>3, <2>2, <2>3 DEF Current
<1>9. ASSUME Sweep PROVE Current(pending', warned', mirror')
  <2> DEFINE keep == {e \in Range(pending) : ~e.due}
  <2>1. /\ pending' = retain(pending, keep) /\ UNCHANGED mirror
        /\ warned' = [u \in User |->
             IF \E i \in DOMAIN pending : pending[i].uid = u /\ pending[i].due
                                          /\ ~Fires(pending[i])
             THEN None ELSE warned[u]]
    BY <1>9 DEF Sweep, enforce_sweep, Undue
  <2>2. ASSUME NEW i \in DOMAIN pending, pending[i] \in keep
        PROVE  warned'[pending[i].uid] = warned[pending[i].uid]
    <3>1. ~pending[i].due /\ pending[i].uid \in User
      BY <1>4, <2>2
    <3>2. \A j \in DOMAIN pending : pending[j].uid = pending[i].uid => j = i
      BY <1>3 DEF Current
    <3> QED BY <2>1, <3>1, <3>2
  <2> HIDE DEF keep
  <2>3. Current(retain(pending, keep), warned', mirror')
    BY <1>1, <1>3, <2>1, <2>2, RetainCurrent
  <2> QED BY <2>1, <2>3
<1>10. ASSUME Commands PROVE Current(pending', warned', mirror')
  <2>1. \/ UNCHANGED <<pending, warned, mirror>>
        \/ \E u \in User : pending' = Without(pending, u) /\ UNCHANGED <<warned, mirror>>
    BY <1>10 DEF Commands, Identify, SaslLogin, Logout, Login, ghost, LogIn
  <2> QED BY <1>5, <1>6, <2>1
<1>11. ASSUME Restart PROVE Current(pending', warned', mirror')
  <2>1. pending' = << >>
    BY <1>11 DEF Restart
  <2> QED BY <2>1 DEF Current
<1>12. ASSUME Users \/ Arrive \/ \E a \in Account : SetKill(a) \/ DropAccount(a)
       PROVE  Current(pending', warned', mirror')
  <2>1. UNCHANGED <<pending, warned, mirror>>
    BY <1>12 DEF Users, Connect, ChangeNick, Quit, Arrive, SetKill, DropAccount
  <2> QED BY <1>5, <2>1
<1>13. UNCHANGED vars => UNCHANGED <<pending, warned, mirror>>
  BY DEF vars
<1> QED BY <1>5, <1>7, <1>8, <1>9, <1>10, <1>11, <1>12, <1>13 DEF Next, Staff

\* The invariant holds at the start and is kept by every step.
LEMMA Inductive ==
    /\ Init => IInv
    /\ IInv /\ [Next]_vars => IInv'
<1>1. Init => TimersAreCurrent
  BY DEF Init, TimersAreCurrent
<1>2. Init => IInv
  BY <1>1, TypedAtStart, OrderAtStart DEF IInv
<1>3. IInv /\ [Next]_vars => IInv'
  BY TypedStep, OrderStep, TimersStep DEF IInv
<1> QED BY <1>2, <1>3

\* There is at most one armed rename for a uid, and it is for the nick its
\* user wears and was warned about during this visit: no timer outlives the
\* visit, the nick or a restart and strikes whoever comes next.
THEOREM TimersStayCurrent == Spec => []TimersAreCurrent
<1>1. IInv => TimersAreCurrent
  BY DEF IInv
<1> QED BY <1>1, Inductive, PTL DEF Spec

\* A sweep renames only users who still wear the nick they were warned about,
\* are still not identified to its owner and whose owner still wants it
\* protected, and each to a guest nick nobody wears.
THEOREM OnlyThoseAreRenamed == Spec => OnlyTheUnidentified
<1> DEFINE Renaming ==
             Sweep => \A i \in (Len(down) + 1)..Len(down') :
                LET u == down'[i].uid
                IN  /\ warned[u] = mirror[u]
                    /\ account[u] # resolve_account(mirror[u])
                    /\ wants_protect(resolve_account(mirror[u]))
                    /\ ~Online(down'[i].nick)
<1>1. ASSUME IInv, Sweep, NEW i \in (Len(down) + 1)..Len(down')
      PROVE  /\ warned[down'[i].uid] = mirror[down'[i].uid]
             /\ account[down'[i].uid] # resolve_account(mirror[down'[i].uid])
             /\ wants_protect(resolve_account(mirror[down'[i].uid]))
             /\ ~Online(down'[i].nick)
  <2> DEFINE us == Fired(pending)
             msgs == Renames(us, seq.sweep).msgs
  <2>1. /\ pending \in Seq(Pending) /\ down \in Seq(DownMsg) /\ seq.sweep \in Nat
        /\ TimersAreCurrent
    BY <1>1 DEF IInv, Typed, TypeOK
  <2>2. /\ us \in Seq(User)
        /\ \A k \in 1..Len(us) :
             \E j \in 1..Len(pending) : pending[j].due /\ Fires(pending[j]) /\ pending[j].uid = us[k]
    BY <2>1, FiredAreDue
  <2> HIDE DEF us
  <2>3. /\ msgs \in Seq(Rename) /\ Len(msgs) = Len(us)
        /\ \A k \in 1..Len(us) : msgs[k].uid = us[k] /\ ~Online(msgs[k].nick)
    BY <2>1, <2>2, RenamesAre
  <2>4. down' = down \o msgs
    BY <1>1 DEF Sweep, enforce_sweep, us
  <2> HIDE DEF msgs
  <2>5. i - Len(down) \in 1..Len(us) /\ down'[i] = msgs[i - Len(down)]
    <3>1. Len(down) \in Nat /\ Len(msgs) \in Nat /\ Len(down') = Len(down) + Len(msgs)
          /\ \A k \in 1..Len(msgs) : down'[Len(down) + k] = msgs[k]
      <4>1. down \in Seq(DownMsg) /\ msgs \in Seq(Rename)
        BY <2>1, <2>3
      <4> QED BY ONLY <4>1, <2>4
    <3>2. i - Len(down) \in 1..Len(msgs) /\ Len(down) + (i - Len(down)) = i
      BY <3>1
    <3> QED BY <2>3, <3>1, <3>2
  <2> DEFINE u == us[i - Len(down)]
  <2>6. down'[i].uid = u /\ ~Online(down'[i].nick)
    BY <2>3, <2>5
  <2>7. PICK j \in 1..Len(pending) : Fires(pending[j]) /\ pending[j].uid = u
    BY <2>2, <2>5
  <2>8. warned[u] = pending[j].nick /\ mirror[u] = pending[j].nick
    BY <2>1, <2>7 DEF TimersAreCurrent
  <2>9. /\ account[u] # resolve_account(pending[j].nick)
        /\ wants_protect(resolve_account(pending[j].nick))
    BY <2>7 DEF Fires, identified, wants
  <2> QED BY <2>6, <2>8, <2>9
<1>2. IInv /\ [Next]_vars => [Renaming]_vars
  BY <1>1
<1> QED BY <1>2, Inductive, PTL DEF Spec, OnlyTheUnidentified
=============================================================================
