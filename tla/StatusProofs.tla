---------------------------- MODULE StatusProofs ----------------------------
(***************************************************************************)
(* Proofs about Live, one of two: the members of a channel and their       *)
(* status (Status), the screens (Security), the limiters (Limits), and what*)
(* one append does to a channel's settings (ChanSettings), for any users,  *)
(* accounts, channels, settings, limits and plans.                         *)
(*                                                                         *)
(* What is on its way up is handled in order, so the last event that says  *)
(* something of a user decides what the engine will know of him: that is   *)
(* what the engine will know once the link is quiet.  And whoever is there *)
(* against the rules is not judged yet, or what answers him is on its way. *)
(* A window holds the last events of its key, and what it let go counts no *)
(* more.  What a bucket still holds is what its client has left to use.    *)
(***************************************************************************)
EXTENDS Live, SequenceLemmas

-----------------------------------------------------------------------------
(* Status: what is up is handled in its order.                             *)

Bits == {"member", "op", "voice", "nick"}

\* An event that says of u whether it is there, has status, or its nick ...
Writes(e, b, u) ==
    /\ e.on = u
    /\ \/ b = "member" /\ e.do \in {"join", "part"}
       \/ b = "op" /\ (e.do \in {"op", "part"} \/ (e.do = "join" /\ e.gets))
       \/ b = "voice" /\ e.do \in {"voice", "part"}
       \/ b = "nick" /\ e.do = "nick"

\* ... and what it says.
Written(e) ==
    CASE e.do = "join" -> "yes"
      [] e.do = "part" -> "no"
      [] e.do = "nick" -> e.to
      [] e.do \in {"op", "voice"} -> IF e.gets THEN "yes" ELSE "no"

\* The last of the first m events that says something, or what was before all.
Ends(q, m, b, u, was, x) ==
    \/ \E i \in 1..m : Writes(q[i], b, u) /\ Written(q[i]) = x /\ \A j \in 1..m : j > i => ~Writes(q[j], b, u)
    \/ (\A i \in 1..m : ~Writes(q[i], b, u)) /\ was = x

LEMMA EndsWritten ==
    ASSUME NEW T, NEW q \in Seq(T), NEW e \in T, NEW b, NEW u, NEW was, Writes(e, b, u)
    PROVE  Ends(Append(q, e), Len(q) + 1, b, u, was, Written(e))
<1> DEFINE r == Append(q, e)
<1>1. r[Len(q) + 1] = e /\ Len(q) \in Nat
  OBVIOUS
<1> HIDE DEF r
<1>2. Len(q) + 1 \in 1..(Len(q) + 1) /\ \A j \in 1..(Len(q) + 1) : ~(j > Len(q) + 1)
  BY <1>1
<1>3. Writes(r[Len(q) + 1], b, u) /\ Written(r[Len(q) + 1]) = Written(e)
  BY <1>1
<1> QED BY <1>2, <1>3 DEF Ends, r

LEMMA EndsUnwritten ==
    ASSUME NEW T, NEW q \in Seq(T), NEW e \in T, NEW b, NEW u, NEW was, NEW x, ~Writes(e, b, u),
           Ends(q, Len(q), b, u, was, x)
    PROVE  Ends(Append(q, e), Len(q) + 1, b, u, was, x)
<1> DEFINE r == Append(q, e)
<1>1. r[Len(q) + 1] = e /\ Len(q) \in Nat /\ \A i \in 1..Len(q) : r[i] = q[i]
  OBVIOUS
<1> HIDE DEF r
<1>2. \A i \in 1..(Len(q) + 1) : i \in 1..Len(q) \/ i = Len(q) + 1
  BY <1>1
<1>3. 1..Len(q) \subseteq 1..(Len(q) + 1)
  BY <1>1
<1>4. CASE \E i \in 1..Len(q) :
              Writes(q[i], b, u) /\ Written(q[i]) = x /\ \A j \in 1..Len(q) : j > i => ~Writes(q[j], b, u)
  <2>1. PICK i \in 1..Len(q) :
           Writes(q[i], b, u) /\ Written(q[i]) = x /\ \A j \in 1..Len(q) : j > i => ~Writes(q[j], b, u)
    BY <1>4
  <2>2. Writes(r[i], b, u) /\ Written(r[i]) = x /\ \A j \in 1..(Len(q) + 1) : j > i => ~Writes(r[j], b, u)
    BY <1>1, <1>2, <2>1
  <2> QED BY <1>3, <2>2 DEF Ends, r
<1>5. CASE (\A i \in 1..Len(q) : ~Writes(q[i], b, u)) /\ was = x
  <2>1. \A i \in 1..(Len(q) + 1) : ~Writes(r[i], b, u)
    BY <1>1, <1>2, <1>5
  <2> QED BY <1>5, <2>1 DEF Ends, r
<1> QED BY Zenon, <1>4, <1>5 DEF Ends

\* What went before is not changed by what comes after.
LEMMA EndsBefore ==
    ASSUME NEW T, NEW q \in Seq(T), NEW e \in T, NEW b, NEW u, NEW was, NEW x, NEW m \in 0..Len(q),
           Ends(q, m, b, u, was, x)
    PROVE  Ends(Append(q, e), m, b, u, was, x)
<1> DEFINE r == Append(q, e)
<1>1. \A i \in 1..m : r[i] = q[i]
  OBVIOUS
<1> HIDE DEF r
<1>2. CASE \E i \in 1..m :
              Writes(q[i], b, u) /\ Written(q[i]) = x /\ \A j \in 1..m : j > i => ~Writes(q[j], b, u)
  <2>1. PICK i \in 1..m :
           Writes(q[i], b, u) /\ Written(q[i]) = x /\ \A j \in 1..m : j > i => ~Writes(q[j], b, u)
    BY <1>2
  <2>2. Writes(r[i], b, u) /\ Written(r[i]) = x /\ \A j \in 1..m : j > i => ~Writes(r[j], b, u)
    BY <1>1, <2>1
  <2> QED BY <2>2 DEF Ends, r
<1>3. CASE (\A i \in 1..m : ~Writes(q[i], b, u)) /\ was = x
  <2>1. \A i \in 1..m : ~Writes(r[i], b, u)
    BY <1>1, <1>3
  <2> QED BY <1>3, <2>1 DEF Ends, r
<1> QED BY <1>2, <1>3 DEF Ends

\* The first is handled: what was before all is what it says, or as before, or
\* no more than what is said in the end.
LEMMA EndsHandled ==
    ASSUME NEW T, NEW q \in Seq(T), q # <<>>, NEW b, NEW u, NEW was, NEW x, NEW now_,
           NEW m \in 1..Len(q), Ends(q, m, b, u, was, x),
           \/ now_ = IF Writes(Head(q), b, u) THEN Written(Head(q)) ELSE was
           \/ now_ = x
    PROVE  Ends(Tail(q), m - 1, b, u, now_, x)
<1> DEFINE r == Tail(q)
<1>1. m \in Nat /\ m - 1 \in Nat /\ m > 0
  OBVIOUS
<1>2. Head(q) = q[1] /\ \A i \in 1..(m - 1) : r[i] = q[i + 1] /\ i + 1 \in 1..m
  OBVIOUS
<1> HIDE DEF r
<1>3. CASE \E i \in 1..m :
              Writes(q[i], b, u) /\ Written(q[i]) = x /\ \A j \in 1..m : j > i => ~Writes(q[j], b, u)
  <2>1. PICK i \in 1..m :
           Writes(q[i], b, u) /\ Written(q[i]) = x /\ \A j \in 1..m : j > i => ~Writes(q[j], b, u)
    BY <1>3
  <2>2. CASE i = 1
    <3>1. now_ = x
      BY <1>2, <2>1, <2>2
    <3>2. \A j \in 1..(m - 1) : ~Writes(r[j], b, u)
      BY <1>1, <1>2, <2>1, <2>2
    <3> QED BY <3>1, <3>2 DEF Ends, r
  <2>3. CASE i # 1
    <3>1. i - 1 \in 1..(m - 1) /\ r[i - 1] = q[i]
      BY <1>1, <1>2, <2>1, <2>3
    <3>2. \A j \in 1..(m - 1) : j > i - 1 => ~Writes(r[j], b, u)
      BY <1>1, <1>2, <2>1, <2>3
    <3>3. Writes(r[i - 1], b, u) /\ Written(r[i - 1]) = x
      BY <2>1, <3>1
    <3> QED BY Zenon, <3>1, <3>2, <3>3 DEF Ends, r
  <2> QED BY <2>2, <2>3
<1>4. CASE (\A i \in 1..m : ~Writes(q[i], b, u)) /\ was = x
  <2>1. now_ = x
    BY <1>1, <1>2, <1>4
  <2>2. \A i \in 1..(m - 1) : ~Writes(r[i], b, u)
    BY <1>2, <1>4
  <2> QED BY <2>1, <2>2 DEF Ends, r
<1> QED BY <1>3, <1>4 DEF Ends

-----------------------------------------------------------------------------
(* Status: types.                                                          *)

Names == {"plain", "bad"}

Registration ==
    [founder : Account, level : [Account -> Stat!Level], set : SUBSET Stat!Setting, akick : SUBSET {"bad"}, frozen : BOOLEAN]

Pictures == [members : SUBSET User, ops : SUBSET User, voices : SUBSET User]

Asked == {"register", "drop", "up", "down", "enforce", "+o", "-o", "+v", "-v", "kick", "ban", "unban"}

Heard ==
    [do : {"join"}, on : User, gets : BOOLEAN] \cup [do : {"part"}, on : User]
    \cup [do : {"op", "voice"}, on : User, gets : BOOLEAN] \cup [do : {"nick"}, on : User, to : Names]
    \cup [do : {"cmd"}, cmd : Asked, by : User, on : User, held : BOOLEAN, known : BOOLEAN]

Sent == [do : {"+o", "-o", "+v", "-v", "+b", "-b", "kick"}, on : User \cup Names]

StatTypes ==
    /\ chan \in Registration \cup {None}
    /\ account \in [User -> Account \cup {None}]
    /\ nick \in [User -> Names] /\ knick \in [User -> Names]
    /\ on \subseteq User /\ ops \subseteq on /\ voices \subseteq on
    /\ seen \in Pictures
    /\ up \in Seq(Heard) /\ Len(up) <= MaxQueue
    /\ down \in Seq(Sent)
    /\ plan \in Plans /\ spent \in 0..plan.ops

\* What the engine knows of a user: "yes", "no", or its nick.
Known(b, u) ==
    CASE b = "member" -> IF u \in seen.members THEN "yes" ELSE "no"
      [] b = "op"     -> IF u \in seen.ops THEN "yes" ELSE "no"
      [] b = "voice"  -> IF u \in seen.voices THEN "yes" ELSE "no"
      [] b = "nick"   -> knick[u]

\* An event changes of it what it says, and else puts out whom an auto-kick
\* hits; `acts` is the answer.
Heeded(acts) ==
    /\ seen' \in Pictures
    /\ acts \in Seq(Sent) /\ down' = down \o acts
    /\ \A b \in Bits \ {"nick"}, u \in User :
          \/ Known(b, u)' = IF Writes(Head(up), b, u) THEN Written(Head(up)) ELSE Known(b, u)
          \/ Known(b, u)' = "no" /\ \E i \in DOMAIN acts : acts[i] = Stat!KickOf(u)

LEMMA ActsType ==
    ASSUME NEW u \in User
    PROVE  /\ \A m \in {"+o", "-o", "+v", "-v", "+b", "-b"} : Stat!Mode(m, u) \in Sent
           /\ \A n \in Names : Stat!Mode("+b", n) \in Sent
           /\ Stat!KickOf(u) \in Sent
           /\ \A l : Stat!Give(l, u) \in Seq(Sent)
           /\ \A n \in Names : Stat!akick_hit(u, n) \in Seq(Sent)
<1>1. /\ \A m \in {"+o", "-o", "+v", "-v", "+b", "-b"} : Stat!Mode(m, u) \in Sent
      /\ \A n \in Names : Stat!Mode("+b", n) \in Sent
      /\ Stat!KickOf(u) \in Sent
  BY DEF Sent, Stat!Mode, Stat!KickOf
<1>2. \A l : Stat!Give(l, u) \in Seq(Sent)
  BY <1>1 DEF Stat!Give
<1>3. \A n \in Names : Stat!akick_hit(u, n) \in Seq(Sent)
  BY <1>1 DEF Stat!akick_hit
<1> QED BY <1>1, <1>2, <1>3

LEMMA PictureParts ==
    ASSUME NEW p \in Pictures, NEW u \in User
    PROVE  LET q == Stat!channel_part(p, u)
           IN  q \in Pictures /\ q.members = p.members \ {u} /\ q.ops = p.ops \ {u} /\ q.voices = p.voices \ {u}
<1> DEFINE q == Stat!channel_part(p, u)
<1>1. q = [p EXCEPT !.members = @ \ {u}, !.ops = @ \ {u}, !.voices = @ \ {u}]
  BY DEF Stat!channel_part
<1>2. q.members = p.members \ {u} /\ q.ops = p.ops \ {u} /\ q.voices = p.voices \ {u}
  BY <1>1 DEF Pictures
<1>3. q \in Pictures
  BY Zenon, <1>1 DEF Pictures
<1> QED BY <1>2, <1>3

LEMMA JoinHeeded ==
    ASSUME StatTypes, up # <<>>, Head(up).do = "join", Stat!Join(Head(up).on, Head(up).gets)
    PROVE  \E acts : Heeded(acts)
<1> DEFINE e == Head(up)
           u == e.on
           op == e.gets
           a == account[u]
           p == [seen EXCEPT !.members = @ \cup {u}, !.ops = IF op THEN @ \cup {u} ELSE @]
           still == chan = None \/ chan.frozen
           gives == Stat!channel_join_mode(a)
           strip == op /\ (Stat!denied(a) \/ (~Stat!is_op(a) /\ "secureops" \in chan.set))
           out == gives = None /\ "restricted" \in chan.set
           hit == gives = None /\ Stat!akick_match(knick[u])
           rest == IF out THEN <<Stat!KickOf(u)>>
                   ELSE IF hit THEN Stat!akick_hit(u, knick[u])
                   ELSE Stat!If("noautoop" \notin chan.set, Stat!Give(gives, u))
           acts == IF still THEN <<>> ELSE Stat!If(strip, <<Stat!Mode("-o", u)>>) \o rest
<1>1. e \in Heard /\ u \in User /\ op \in BOOLEAN
  <2>1. e \in Heard
    BY DEF StatTypes
  <2> HIDE DEF e
  <2> QED BY <2>1 DEF Heard, e
<1>2. /\ seen' = IF ~still /\ hit /\ ~out THEN Stat!channel_part(p, u) ELSE p
      /\ down' = down \o acts
  <2>1. CASE still
    BY Zenon, <2>1 DEF Stat!Join, Stat!Send
  <2>2. CASE ~still
    BY Zenon, <2>2 DEF Stat!Join, Stat!Send
  <2> QED BY Zenon, <2>1, <2>2
<1>3. p \in Pictures /\ p.members = seen.members \cup {u} /\ p.ops = (IF op THEN seen.ops \cup {u} ELSE seen.ops) /\ p.voices = seen.voices
  <2> HIDE DEF u, op
  <2> QED BY Zenon, <1>1 DEF StatTypes, Pictures
<1> DEFINE c == Stat!channel_part(p, u)
<1>4. c \in Pictures /\ c.members = p.members \ {u} /\ c.ops = p.ops \ {u} /\ c.voices = p.voices \ {u}
  <2> HIDE DEF p, u
  <2> QED BY <1>1, <1>3, PictureParts
<1>5. rest \in Seq(Sent) /\ acts \in Seq(Sent)
  <2>1. Stat!akick_hit(u, knick[u]) \in Seq(Sent) /\ Stat!Mode("-o", u) \in Sent /\ Stat!KickOf(u) \in Sent /\ Stat!Give(gives, u) \in Seq(Sent)
    BY <1>1, ActsType DEF StatTypes
  <2> HIDE DEF u, gives, strip, out, hit, still
  <2>2. rest \in Seq(Sent)
    BY <2>1 DEF Stat!If
  <2>3. Stat!If(strip, <<Stat!Mode("-o", u)>>) \in Seq(Sent)
    BY <2>1 DEF Stat!If
  <2> HIDE DEF rest
  <2> QED BY <2>2, <2>3
<1>6. ~still /\ hit /\ ~out => \E i \in DOMAIN acts : acts[i] = Stat!KickOf(u)
  <2> SUFFICES ASSUME ~still, hit, ~out PROVE \E i \in DOMAIN acts : acts[i] = Stat!KickOf(u)
    BY Zenon
  <2>1. rest = <<Stat!Mode("+b", knick[u]), Stat!KickOf(u)>>
    BY DEF Stat!akick_hit
  <2>2. acts = Stat!If(strip, <<Stat!Mode("-o", u)>>) \o rest
    BY Zenon
  <2>3. Stat!If(strip, <<Stat!Mode("-o", u)>>) \in Seq(Sent)
    <3> HIDE DEF u, strip
    <3> QED BY <1>1, ActsType DEF Stat!If
  <2> DEFINE l == Stat!If(strip, <<Stat!Mode("-o", u)>>)
  <2> HIDE DEF l, rest, acts
  <2>4. acts[Len(l) + 2] = Stat!KickOf(u) /\ Len(l) + 2 \in DOMAIN acts
    BY SMTT(20), <2>1, <2>2, <2>3, <1>5 DEF l
  <2> QED BY <2>4
<1>7. ASSUME NEW b \in Bits \ {"nick"}, NEW w \in User
      PROVE  \/ Known(b, w)' = IF Writes(e, b, w) THEN Written(e) ELSE Known(b, w)
             \/ Known(b, w)' = "no" /\ \E i \in DOMAIN acts : acts[i] = Stat!KickOf(w)
  <2>0. Written(e) = "yes"
    BY DEF Written
  <2>0a. seen \in Pictures
    BY DEF StatTypes
  <2>1. CASE ~(~still /\ hit /\ ~out)
    <3>1. seen' = p
      BY Zenon, <1>2, <2>1
    <3> HIDE DEF e, p, op, u
    <3>2. Writes(e, b, w) <=> w = u /\ (b = "member" \/ (b = "op" /\ op))
      BY DEF Writes, Bits, u, op, e
    <3> QED BY Zenon, <1>3, <2>0, <3>1, <3>2 DEF Known, Bits
  <2>2. CASE ~still /\ hit /\ ~out
    <3>1. seen'.members = p.members \ {u} /\ seen'.ops = p.ops \ {u} /\ seen'.voices = p.voices \ {u}
      <4>1. seen' = c
        BY Zenon, <1>2, <2>2
      <4> HIDE DEF c, p
      <4> QED BY <1>4, <4>1
    <3>2. \E i \in DOMAIN acts : acts[i] = Stat!KickOf(u)
      BY Zenon, <1>6, <2>2
    <3>3. CASE w = u
      <4>1. Known(b, w)' = "no"
        BY <3>1, <3>3 DEF Known, Bits
      <4> QED BY Zenon, <3>2, <3>3, <4>1
    <3>4. CASE w # u
      <4> HIDE DEF acts, still, hit, out, gives, rest, p
      <4>1. ~Writes(e, b, w)
        BY <3>4 DEF Writes
      <4>2. Known(b, w)' = Known(b, w)
        BY <1>3, <3>1, <3>4 DEF Known, Bits
      <4> QED BY <4>1, <4>2
    <3> QED BY Zenon, <3>3, <3>4
  <2> QED BY Zenon, <2>1, <2>2
<1> HIDE DEF acts, rest
<1>8. seen' \in Pictures
  BY <1>2, <1>3, <1>4
<1> QED BY Zenon, <1>2, <1>5, <1>7, <1>8 DEF Heeded

\* Nothing but what the event says changes.
LEMMA PlainlyHeeded ==
    ASSUME StatTypes, up # <<>>, NEW acts \in Seq(Sent), down' = down \o acts, seen' \in Pictures,
           \A b \in Bits \ {"nick"}, u \in User :
              Known(b, u)' = IF Writes(Head(up), b, u) THEN Written(Head(up)) ELSE Known(b, u)
    PROVE  \E a : Heeded(a)
BY DEF Heeded

LEMMA StatusHeeded ==
    ASSUME StatTypes, up # <<>>, Head(up).do \in {"op", "voice", "part"},
           \/ Head(up).do = "op" /\ Stat!ChannelOp(Head(up).on, Head(up).gets)
           \/ Head(up).do = "voice" /\ Stat!ChannelVoice(Head(up).on, Head(up).gets)
           \/ Head(up).do = "part" /\ Stat!member_left(Head(up).on)
    PROVE  \E acts : Heeded(acts)
<1> DEFINE e == Head(up)
           u == e.on
<1>1. e \in Heard /\ u \in User
  <2>1. e \in Heard
    BY DEF StatTypes
  <2> HIDE DEF e
  <2> QED BY <2>1 DEF Heard
<1>2. seen \in Pictures
  BY DEF StatTypes
<1>3. PICK acts : acts \in Seq(Sent) /\ down' = down \o acts
  <2>1. \A m \in {"+o", "-o", "+v", "-v", "+b", "-b"} : Stat!Mode(m, u) \in Sent
    BY <1>1, ActsType
  <2>2. \A c : Stat!If(c, <<Stat!Mode("-o", u)>>) \in Seq(Sent) /\ Stat!If(c, <<Stat!Mode("-v", u)>>) \in Seq(Sent)
    BY <2>1 DEF Stat!If
  <2>3. <<>> \in Seq(Sent)
    OBVIOUS
  <2>4. CASE e.do = "op"
    <3> DEFINE c == e.gets /\ chan # None /\ (Stat!denied(account[u]) \/ ("secureops" \in chan.set /\ ~Stat!is_op(account[u])))
    <3>1. down' = down \o Stat!If(c, <<Stat!Mode("-o", u)>>)
      BY Zenon, <2>4 DEF Stat!ChannelOp, Stat!Send
    <3> HIDE DEF c
    <3>2. Stat!If(c, <<Stat!Mode("-o", u)>>) \in Seq(Sent)
      BY <2>1 DEF Stat!If
    <3> QED BY Zenon, <3>1, <3>2
  <2>5. CASE e.do = "voice"
    <3> DEFINE c == e.gets /\ chan # None /\ (Stat!denied(account[u]) \/ ("securevoices" \in chan.set /\ Stat!join_mode(account[u]) = None))
    <3>1. down' = down \o Stat!If(c, <<Stat!Mode("-v", u)>>)
      BY Zenon, <2>5 DEF Stat!ChannelVoice, Stat!Send
    <3> HIDE DEF c
    <3>2. Stat!If(c, <<Stat!Mode("-v", u)>>) \in Seq(Sent)
      BY <2>1 DEF Stat!If
    <3> QED BY Zenon, <3>1, <3>2
  <2>6. CASE e.do = "part"
    <3>1. down' = down \o <<>>
      BY <2>6 DEF Stat!member_left, Stat!Send
    <3> QED BY Zenon, <2>3, <3>1
  <2> QED BY Zenon, <2>4, <2>5, <2>6
<1>4. CASE e.do = "op"
  <2>1. seen' = [seen EXCEPT !.ops = IF e.gets THEN @ \cup {u} ELSE @ \ {u}]
    BY <1>4 DEF Stat!ChannelOp, Stat!set_op
  <2>2. /\ seen' \in Pictures
        /\ seen'.members = seen.members /\ seen'.voices = seen.voices
        /\ seen'.ops = IF e.gets THEN seen.ops \cup {u} ELSE seen.ops \ {u}
    BY <1>1, <1>2, <2>1 DEF Pictures
  <2>3. \A b \in Bits \ {"nick"}, w \in User : Writes(e, b, w) <=> w = u /\ b = "op"
    BY <1>4 DEF Writes, Bits
  <2>4. Written(e) = IF e.gets THEN "yes" ELSE "no"
    BY <1>4 DEF Written
  <2> HIDE DEF e, u
  <2>5. \A b \in Bits \ {"nick"}, w \in User : Known(b, w)' = IF Writes(e, b, w) THEN Written(e) ELSE Known(b, w)
    BY <2>2, <2>3, <2>4 DEF Known, Bits
  <2> QED BY Zenon, <1>3, <2>2, <2>5, PlainlyHeeded DEF e
<1>5. CASE e.do = "voice"
  <2>1. seen' = [seen EXCEPT !.voices = IF e.gets THEN @ \cup {u} ELSE @ \ {u}]
    BY <1>5 DEF Stat!ChannelVoice, Stat!set_voice
  <2>2. /\ seen' \in Pictures
        /\ seen'.members = seen.members /\ seen'.ops = seen.ops
        /\ seen'.voices = IF e.gets THEN seen.voices \cup {u} ELSE seen.voices \ {u}
    BY <1>1, <1>2, <2>1 DEF Pictures
  <2>3. \A b \in Bits \ {"nick"}, w \in User : Writes(e, b, w) <=> w = u /\ b = "voice"
    BY <1>5 DEF Writes, Bits
  <2>4. Written(e) = IF e.gets THEN "yes" ELSE "no"
    BY <1>5 DEF Written
  <2> HIDE DEF e, u
  <2>5. \A b \in Bits \ {"nick"}, w \in User : Known(b, w)' = IF Writes(e, b, w) THEN Written(e) ELSE Known(b, w)
    BY <2>2, <2>3, <2>4 DEF Known, Bits
  <2> QED BY Zenon, <1>3, <2>2, <2>5, PlainlyHeeded DEF e
<1>6. CASE e.do = "part"
  <2>1. seen' = Stat!channel_part(seen, u)
    BY <1>6 DEF Stat!member_left
  <2>2. /\ seen' \in Pictures
        /\ seen'.members = seen.members \ {u} /\ seen'.ops = seen.ops \ {u} /\ seen'.voices = seen.voices \ {u}
    <3> HIDE DEF u
    <3> QED BY <1>1, <1>2, <2>1, PictureParts
  <2>3. \A b \in Bits \ {"nick"}, w \in User : Writes(e, b, w) <=> w = u
    BY <1>6 DEF Writes, Bits
  <2>4. Written(e) = "no"
    BY <1>6 DEF Written
  <2> HIDE DEF e, u
  <2>5. \A b \in Bits \ {"nick"}, w \in User : Known(b, w)' = IF Writes(e, b, w) THEN Written(e) ELSE Known(b, w)
    BY <2>2, <2>3, <2>4 DEF Known, Bits
  <2> QED BY <1>3, <2>2, <2>5, PlainlyHeeded DEF e
<1> QED BY <1>4, <1>5, <1>6

LEMMA NickHeeded ==
    ASSUME StatTypes, up # <<>>, Head(up).do = "nick", Stat!enforce_akick_on_nick(Head(up).on, Head(up).to)
    PROVE  \E acts : Heeded(acts)
<1> DEFINE e == Head(up)
           u == e.on
           n == e.to
           hit == u \in seen.members /\ chan # None /\ ~chan.frozen /\ Stat!channel_join_mode(account[u]) = None
                  /\ Stat!akick_match(n)
<1>1. e \in Heard /\ u \in User /\ n \in Names
  <2>1. e \in Heard
    BY DEF StatTypes
  <2> HIDE DEF e
  <2> QED BY <2>1 DEF Heard, e
<1>2. seen \in Pictures
  BY DEF StatTypes
<1>3. \A b \in Bits \ {"nick"}, w \in User : ~Writes(e, b, w)
  BY DEF Writes, Bits
<1>4. CASE ~hit
  <2>1. seen' = seen /\ down' = down \o <<>>
    BY <1>4 DEF Stat!enforce_akick_on_nick, Stat!Send
  <2>2. \A b \in Bits \ {"nick"}, w \in User : Known(b, w)' = Known(b, w)
    BY <2>1 DEF Known, Bits
  <2>3. <<>> \in Seq(Sent)
    OBVIOUS
  <2> QED BY Zenon, <1>2, <1>3, <2>1, <2>2, <2>3, PlainlyHeeded
<1>5. CASE hit
  <2> DEFINE acts == Stat!akick_hit(u, n)
  <2>1. seen' = Stat!channel_part(seen, u) /\ down' = down \o acts
    BY <1>5 DEF Stat!enforce_akick_on_nick, Stat!Send
  <2>2. acts = <<Stat!Mode("+b", n), Stat!KickOf(u)>>
    BY DEF Stat!akick_hit
  <2> HIDE DEF u, n, acts, hit, e
  <2>3. acts \in Seq(Sent)
    BY <1>1, ActsType DEF acts
  <2>4. /\ seen' \in Pictures
        /\ seen'.members = seen.members \ {u} /\ seen'.ops = seen.ops \ {u} /\ seen'.voices = seen.voices \ {u}
    BY <1>1, <1>2, <2>1, PictureParts
  <2>5. 2 \in DOMAIN acts /\ acts[2] = Stat!KickOf(u)
    BY <2>2
  <2>6. ASSUME NEW b \in Bits \ {"nick"}, NEW w \in User
        PROVE  \/ Known(b, w)' = Known(b, w)
               \/ Known(b, w)' = "no" /\ \E i \in DOMAIN acts : acts[i] = Stat!KickOf(w)
    <3>1. CASE w = u
      <4>1. Known(b, w)' = "no"
        BY <2>4, <3>1 DEF Known, Bits
      <4> QED BY <2>5, <3>1, <4>1
    <3>2. CASE w # u
      BY <2>4, <3>2 DEF Known, Bits
    <3> QED BY <3>1, <3>2
  <2>7. Heeded(acts)
    BY <1>3, <2>1, <2>3, <2>4, <2>6 DEF Heeded, e
  <2> QED BY <2>7
<1> QED BY <1>4, <1>5

LEMMA SameFlatten == ASSUME NEW s PROVE Stat!FlattenSeq(s) = FlattenSeq(s)
BY DEF Stat!FlattenSeq, FlattenSeq

LEMMA StatSetSequence ==
    ASSUME NEW S, IsFiniteSet(S)
    PROVE  /\ Stat!Cardinality(S) \in Nat
           /\ \A i \in 1..Stat!Cardinality(S) : Stat!SetToSeq(S)[i] \in S
<1>1. Stat!Cardinality(S) = Cardinality(S)
  BY DEF Stat!Cardinality, Cardinality
<1>2. \A T : Stat!Cardinality(T) = Cardinality(T)
  BY DEF Stat!Cardinality, Cardinality
<1>3. \A f : Stat!IsInjective(f) <=> IsInjective(f)
  BY DEF Stat!IsInjective, IsInjective
<1>4. Stat!SetToSeq(S) = SetToSeq(S)
  BY <1>2, <1>3 DEF Stat!SetToSeq, SetToSeq
<1>5. SetToSeq(S) \in Seq(S) /\ Len(SetToSeq(S)) = Cardinality(S) /\ Cardinality(S) \in Nat
  BY SetAsSequence, FS_CardinalityType
<1>6. \A i \in 1..Cardinality(S) : SetToSeq(S)[i] \in S
  BY <1>5
<1> QED BY <1>1, <1>4, <1>5, <1>6

LEMMA EnforceType ==
    ASSUME StatTypes, NEW u \in User
    PROVE  Stat!Enforce(u) \in Seq(Sent)
<1> DEFINE S == seen.members
           seqs == [i \in 1..Stat!Cardinality(S) |-> Stat!Enforced(Stat!SetToSeq(S)[i])]
<1>1. S \subseteq User /\ IsFiniteSet(S)
  <2>1. S \subseteq User
    BY DEF StatTypes, Pictures
  <2> QED BY <2>1, FS_Subset, StatusAssumption
<1>2. \A t \in User : Stat!Enforced(t) \in Seq(Sent)
  <2> SUFFICES ASSUME NEW t \in User PROVE Stat!Enforced(t) \in Seq(Sent)
    OBVIOUS
  <2>1. Stat!akick_hit(t, knick[t]) \in Seq(Sent) /\ \A l : Stat!Give(l, t) \in Seq(Sent)
    BY ActsType DEF StatTypes
  <2> DEFINE c == Stat!akick_match(knick[t])
             h == Stat!akick_hit(t, knick[t])
  <2> HIDE DEF c, h
  <2>2. Stat!If(c, h) \in Seq(Sent)
    BY <2>1 DEF Stat!If, h
  <2> QED BY <2>1, <2>2 DEF Stat!Enforced, c, h
<1>3. seqs \in Seq(Seq(Sent))
  <2> HIDE DEF S
  <2>1. Stat!Cardinality(S) \in Nat /\ \A i \in 1..Stat!Cardinality(S) : Stat!SetToSeq(S)[i] \in S
    BY <1>1, StatSetSequence
  <2>2. \A i \in 1..Stat!Cardinality(S) : Stat!Enforced(Stat!SetToSeq(S)[i]) \in Seq(Sent)
    BY <1>1, <1>2, <2>1
  <2> QED BY <2>1, <2>2
<1> HIDE DEF seqs
<1>4. Stat!FlattenSeq(seqs) \in Seq(Sent)
  <2>1. FlattenSeq(seqs) \in Seq(Sent)
    BY <1>3, FlattenInOrder
  <2> QED BY <2>1, SameFlatten
<1> DEFINE r == Stat!require_op(u)
<1>5. Stat!Enforce(u) = Stat!If(r, Stat!FlattenSeq(seqs))
  BY DEF Stat!Enforce, seqs
<1> HIDE DEF r
<1> QED BY <1>4, <1>5 DEF Stat!If

Orders == [do : {"cmd"}, cmd : Asked, by : User, on : User, held : BOOLEAN, known : BOOLEAN]

LEMMA OrderType ==
    ASSUME StatTypes, NEW c \in Orders
    PROVE  Stat!Acts(c) \in Seq(Sent)
<1> DEFINE u == c.by
           t == c.on
<1>1. u \in User /\ t \in User /\ c.cmd \in Asked
  BY DEF Orders
<1> HIDE DEF u, t
<1>2. /\ \A m \in {"+o", "-o", "+v", "-v", "+b", "-b"} : Stat!Mode(m, u) \in Sent /\ Stat!Mode(m, t) \in Sent
      /\ Stat!KickOf(t) \in Sent
      /\ \A l : Stat!Give(l, u) \in Seq(Sent)
  BY <1>1, ActsType
<1>3. <<>> \in Seq(Sent)
  OBVIOUS
<1>4. ASSUME NEW b \in BOOLEAN, NEW s \in Seq(Sent) PROVE Stat!If(b, s) \in Seq(Sent)
  BY <1>3, <1>4 DEF Stat!If
<1>5. ASSUME NEW m \in {"+o", "-o", "+v", "-v"} PROVE Stat!Op(u, m, t) \in Seq(Sent)
  <2> DEFINE b == Stat!require_op(u) /\ (m \in {"-o", "-v"} => ~Stat!peace_blocks(u, t))
  <2>1. Stat!Op(u, m, t) = Stat!If(b, <<Stat!Mode(m, t)>>)
    BY DEF Stat!Op
  <2> HIDE DEF b
  <2> QED BY <1>2, <1>3, <2>1 DEF Stat!If
<1>6. Stat!Up(u) \in Seq(Sent) /\ Stat!Down(u) \in Seq(Sent)
  <2> DEFINE b == chan # None /\ account[u] # None /\ u \in seen.members
             g == Stat!Give(Stat!join_mode(account[u]), u)
             d == <<Stat!Mode("-o", u), Stat!Mode("-v", u)>>
  <2>1. Stat!Up(u) = Stat!If(b, g) /\ Stat!Down(u) = Stat!If(b, d)
    BY DEF Stat!Up, Stat!Down
  <2>2. g \in Seq(Sent) /\ d \in Seq(Sent)
    BY <1>2
  <2> HIDE DEF b, g, d
  <2> QED BY <1>3, <2>1, <2>2 DEF Stat!If
<1>7. Stat!Kick(u, t) \in Seq(Sent) /\ Stat!Ban(u, t) \in Seq(Sent)
  <2> DEFINE b == Stat!require_op(u) /\ ~Stat!peace_blocks(u, t)
             k == <<Stat!KickOf(t)>>
             d == <<Stat!Mode("+b", t), Stat!KickOf(t)>>
  <2>1. Stat!Kick(u, t) = Stat!If(b, k) /\ Stat!Ban(u, t) = Stat!If(b, d)
    BY DEF Stat!Kick, Stat!Ban
  <2>2. k \in Seq(Sent) /\ d \in Seq(Sent)
    BY <1>2
  <2> HIDE DEF b, k, d
  <2> QED BY <1>3, <2>1, <2>2 DEF Stat!If
<1>8. Stat!Unban(u, t) \in Seq(Sent)
  <2> DEFINE b == Stat!require_op(u)
             d == <<Stat!Mode("-b", t)>>
  <2>1. Stat!Unban(u, t) = Stat!If(b, d)
    BY DEF Stat!Unban
  <2>2. d \in Seq(Sent)
    BY <1>2
  <2> HIDE DEF b, d
  <2> QED BY <1>3, <2>1, <2>2 DEF Stat!If
<1>9. Stat!Enforce(u) \in Seq(Sent)
  BY <1>1, EnforceType
<1>10. CASE c.cmd \in {"+o", "-o", "+v", "-v"}
  <2>1. Stat!Acts(c) = Stat!Op(u, c.cmd, t)
    BY <1>10 DEF Stat!Acts, u, t
  <2> QED BY <1>5, <1>10, <2>1
<1>11. CASE c.cmd \in {"up", "down", "kick", "ban", "unban", "enforce"}
  <2>1. Stat!Acts(c) \in {Stat!Up(u), Stat!Down(u), Stat!Kick(u, t), Stat!Ban(u, t), Stat!Unban(u, t), Stat!Enforce(u)}
    BY <1>11 DEF Stat!Acts, u, t
  <2> QED BY <1>6, <1>7, <1>8, <1>9, <2>1
<1>12. CASE c.cmd \in {"register", "drop"}
  BY <1>3, <1>12 DEF Stat!Acts
<1> QED BY <1>1, <1>10, <1>11, <1>12 DEF Asked

LEMMA CommandHeeded ==
    ASSUME StatTypes, up # <<>>, Head(up).do = "cmd", Stat!Command(Head(up))
    PROVE  \E acts : Heeded(acts)
<1>1. Head(up) \in Orders
  <2>1. Head(up) \in Heard
    BY DEF StatTypes
  <2> QED BY <2>1 DEF Heard, Orders
<1>2. seen' = seen /\ down' = down \o Stat!Acts(Head(up)) /\ Stat!Acts(Head(up)) \in Seq(Sent) /\ seen \in Pictures
  BY <1>1, OrderType DEF Stat!Command, Stat!Send, StatTypes
<1>3. \A b \in Bits \ {"nick"}, w \in User : ~Writes(Head(up), b, w)
  BY DEF Writes, Bits
<1>4. \A b \in Bits \ {"nick"}, w \in User : Known(b, w)' = Known(b, w)
  BY <1>2 DEF Known, Bits
<1> QED BY <1>2, <1>3, <1>4, PlainlyHeeded

LEMMA HandleHeeded ==
    ASSUME StatTypes, Stat!Handle
    PROVE  \E acts : Heeded(acts)
<1>1. up # <<>>
  BY DEF Stat!Handle
<1>2. Head(up) \in Heard
  BY <1>1 DEF StatTypes
<1>3. Head(up).do \in {"join", "part", "op", "voice", "nick", "cmd"}
  BY <1>2 DEF Heard
<1>4. /\ Head(up).do = "join" => Stat!Join(Head(up).on, Head(up).gets)
      /\ Head(up).do = "part" => Stat!member_left(Head(up).on)
      /\ Head(up).do = "op" => Stat!ChannelOp(Head(up).on, Head(up).gets)
      /\ Head(up).do = "voice" => Stat!ChannelVoice(Head(up).on, Head(up).gets)
      /\ Head(up).do = "nick" => Stat!enforce_akick_on_nick(Head(up).on, Head(up).to)
      /\ Head(up).do = "cmd" => Stat!Command(Head(up))
  BY Zenon DEF Stat!Handle
<1> QED BY <1>1, <1>3, <1>4, JoinHeeded, StatusHeeded, NickHeeded, CommandHeeded

-----------------------------------------------------------------------------
(* Status: what a step does.                                               *)

\* What the ircd shows of a user.
Shown(b, u) ==
    CASE b = "member" -> IF u \in on THEN "yes" ELSE "no"
      [] b = "op"     -> IF u \in ops THEN "yes" ELSE "no"
      [] b = "voice"  -> IF u \in voices THEN "yes" ELSE "no"
      [] b = "nick"   -> nick[u]

\* What a user does is shown, and told in an event; who comes back starts anew.
Acted(e) ==
    /\ e \in Heard /\ up' = Append(up, e) /\ Len(up) < MaxQueue
    /\ UNCHANGED <<chan, account, knick, seen, down, plan>>
    /\ spent < plan.ops /\ spent' = spent + 1
    /\ \A b \in Bits, u \in User : Shown(b, u)' = IF Writes(e, b, u) THEN Written(e) ELSE Shown(b, u)
    /\ touched' \subseteq touched
    /\ \A u \in touched \ touched', b \in Bits \ {"nick"} : Writes(e, b, u)
    /\ nick' \in [User -> Names] /\ on' \subseteq User /\ ops' \subseteq on' /\ voices' \subseteq on'

\* The steps by what they do.
StatActs ==
    \E u \in User :
       \/ Stat!UserJoins(u) \/ Stat!Leaves(u)
       \/ \E by \in User, gets \in BOOLEAN : Stat!UserOps(by, u, gets) \/ Stat!UserVoices(by, u, gets)
       \/ \E n \in Names : Stat!ChangesNick(u, n)
       \/ \E c \in Asked, t \in User : Stat!Says(u, c, t)

StatRules ==
    \/ \E u \in User, a \in Account \cup {None} : Stat!Login(u, a)
    \/ \E o \in Settable : Stat!SetOption(o)
    \/ \E a \in Account, l \in Stat!Level : Stat!Access(a, l)
    \/ Stat!Akick \/ Stat!Suspend

LEMMA StatSteps == Stat!Next => StatActs \/ StatRules \/ Stat!Handle \/ Stat!Drain
<1> SUFFICES ASSUME Stat!Next PROVE StatActs \/ StatRules \/ Stat!Handle \/ Stat!Drain
  OBVIOUS
<1>1. /\ {"register", "drop", "up", "down", "enforce"} \subseteq Asked
      /\ {"+o", "-o", "+v", "-v", "kick", "ban", "unban"} \subseteq Asked
  BY DEF Asked
<1>2. ASSUME NEW u \in User, Stat!UserJoins(u) \/ Stat!Leaves(u) PROVE StatActs
  BY <1>2 DEF StatActs
<1>3. ASSUME NEW u \in User, NEW by \in User, NEW gets \in BOOLEAN, Stat!UserOps(by, u, gets) \/ Stat!UserVoices(by, u, gets)
      PROVE  StatActs
  BY <1>3 DEF StatActs
<1>4. ASSUME NEW u \in User, NEW n \in {"plain", "bad"}, Stat!ChangesNick(u, n) PROVE StatActs
  BY <1>4 DEF StatActs, Names
<1>5. ASSUME NEW u \in User, NEW t \in User, NEW c, c \in Asked, Stat!Says(u, c, t) PROVE StatActs
  BY <1>5 DEF StatActs
<1>6. ASSUME NEW u \in User, NEW a \in Account \cup {None}, Stat!Login(u, a) PROVE StatRules
  BY <1>6 DEF StatRules
<1>7. ASSUME NEW o \in Settable, Stat!SetOption(o) PROVE StatRules
  BY <1>7 DEF StatRules
<1>8. ASSUME NEW a \in Account, NEW l \in Stat!Level, Stat!Access(a, l) PROVE StatRules
  BY <1>8 DEF StatRules
<1>9. CASE Stat!Akick \/ Stat!Suspend
  BY <1>9 DEF StatRules
<1> QED BY <1>1, <1>2, <1>3, <1>4, <1>5, <1>6, <1>7, <1>8, <1>9 DEF Stat!Next

LEMMA JoinActs ==
    ASSUME StatTypes, NEW u \in User, Stat!UserJoins(u)
    PROVE  LET e == [do |-> "join", on |-> u, gets |-> on = {}]
           IN  Acted(e) /\ UNCHANGED nick
<1> DEFINE g == on = {}
           e == [do |-> "join", on |-> u, gets |-> g]
<1>1. /\ u \notin on /\ on' = on \cup {u}
      /\ ops' = IF on = {} THEN {u} ELSE ops
      /\ UNCHANGED <<nick, voices, touched>>
      /\ Stat!Act(e)
  BY DEF Stat!UserJoins
<1>2. g \in BOOLEAN
  OBVIOUS
<1> HIDE DEF g
<1>3. e \in Heard /\ e.on = u /\ e.do = "join" /\ e.gets = g
  BY <1>2 DEF Heard
<1> HIDE DEF e
<1>4. /\ up' = Append(up, e) /\ Len(up) < MaxQueue
      /\ UNCHANGED <<chan, account, knick, seen, down, plan>>
      /\ spent < plan.ops /\ spent' = spent + 1
  BY <1>1 DEF Stat!Act
<1>5. \A b \in Bits, w \in User : Writes(e, b, w) <=> w = u /\ (b = "member" \/ (b = "op" /\ g))
  BY <1>3 DEF Writes, Bits
<1>6. Written(e) = "yes"
  BY <1>3 DEF Written
<1>7. ops \subseteq on /\ voices \subseteq on /\ on \subseteq User /\ nick \in [User -> Names]
  BY DEF StatTypes
<1>8. \A b \in Bits, w \in User : Shown(b, w)' = IF Writes(e, b, w) THEN Written(e) ELSE Shown(b, w)
  <2>1. CASE g
    <3>1. ops' = {u} /\ ops = {} /\ on = {}
      BY <1>1, <1>7, <2>1 DEF g
    <3> QED BY <1>1, <1>5, <1>6, <2>1, <3>1 DEF Shown, Bits
  <2>2. CASE ~g
    <3>1. ops' = ops
      BY <1>1, <2>2 DEF g
    <3> QED BY <1>1, <1>5, <1>6, <2>2, <3>1 DEF Shown, Bits
  <2> QED BY <2>1, <2>2
<1>9. Acted(e)
  <2>1. on' \subseteq User /\ ops' \subseteq on' /\ voices' \subseteq on'
    BY <1>1, <1>7
  <2> QED BY <1>1, <1>3, <1>4, <1>7, <1>8, <2>1 DEF Acted
<1> QED BY <1>1, <1>9 DEF e, g

LEMMA LeavesActs ==
    ASSUME StatTypes, NEW u \in User, Stat!Leaves(u)
    PROVE  Acted([do |-> "part", on |-> u])
<1> DEFINE e == [do |-> "part", on |-> u]
<1>1. /\ on' = on \ {u} /\ ops' = ops \ {u} /\ voices' = voices \ {u}
      /\ touched' = touched \ {u} /\ nick' = nick
      /\ Stat!Act(e)
  BY DEF Stat!Leaves
<1>3. e \in Heard /\ e.on = u /\ e.do = "part"
  BY DEF Heard
<1> HIDE DEF e
<1>4. /\ up' = Append(up, e) /\ Len(up) < MaxQueue
      /\ UNCHANGED <<chan, account, knick, seen, down, plan>>
      /\ spent < plan.ops /\ spent' = spent + 1
  BY <1>1 DEF Stat!Act
<1>5. \A b \in Bits, w \in User : Writes(e, b, w) <=> w = u /\ b # "nick"
  BY <1>3 DEF Writes, Bits
<1>6. Written(e) = "no"
  BY <1>3 DEF Written
<1>7. ops \subseteq on /\ voices \subseteq on /\ on \subseteq User /\ nick \in [User -> Names]
  BY DEF StatTypes
<1>8. \A b \in Bits, w \in User : Shown(b, w)' = IF Writes(e, b, w) THEN Written(e) ELSE Shown(b, w)
  BY <1>1, <1>5, <1>6 DEF Shown, Bits
<1>9. Acted(e)
  <2>1. on' \subseteq User /\ ops' \subseteq on' /\ voices' \subseteq on'
    BY <1>1, <1>7
  <2>2. \A w \in touched \ touched', b \in Bits \ {"nick"} : Writes(e, b, w)
    BY <1>1, <1>5
  <2> QED BY <1>1, <1>3, <1>4, <1>7, <1>8, <2>1, <2>2 DEF Acted
<1> QED BY <1>9 DEF e

LEMMA StatusActs ==
    ASSUME StatTypes, NEW u \in User, NEW by \in User, NEW gets \in BOOLEAN
    PROVE  /\ Stat!UserOps(by, u, gets) => Acted([do |-> "op", on |-> u, gets |-> gets])
           /\ Stat!UserVoices(by, u, gets) => Acted([do |-> "voice", on |-> u, gets |-> gets])
<1>7. ops \subseteq on /\ voices \subseteq on /\ on \subseteq User /\ nick \in [User -> Names]
  BY DEF StatTypes
<1>1. ASSUME Stat!UserOps(by, u, gets) PROVE Acted([do |-> "op", on |-> u, gets |-> gets])
  <2> DEFINE e == [do |-> "op", on |-> u, gets |-> gets]
  <2>1. /\ u \in on /\ ops' = IF gets THEN ops \cup {u} ELSE ops \ {u}
        /\ UNCHANGED <<nick, on, voices, touched>>
        /\ Stat!Act(e)
    BY <1>1 DEF Stat!UserOps
  <2>3. e \in Heard /\ e.on = u /\ e.do = "op" /\ e.gets = gets
    BY DEF Heard
  <2> HIDE DEF e
  <2>4. /\ up' = Append(up, e) /\ Len(up) < MaxQueue
        /\ UNCHANGED <<chan, account, knick, seen, down, plan>>
        /\ spent < plan.ops /\ spent' = spent + 1
    BY <2>1 DEF Stat!Act
  <2>5. \A b \in Bits, w \in User : Writes(e, b, w) <=> w = u /\ b = "op"
    BY <2>3 DEF Writes, Bits
  <2>6. Written(e) = IF gets THEN "yes" ELSE "no"
    BY <2>3 DEF Written
  <2>8. \A b \in Bits, w \in User : Shown(b, w)' = IF Writes(e, b, w) THEN Written(e) ELSE Shown(b, w)
    BY <2>1, <2>5, <2>6 DEF Shown, Bits
  <2>9. on' \subseteq User /\ ops' \subseteq on' /\ voices' \subseteq on'
    BY <1>7, <2>1
  <2>10. Acted(e)
    BY <1>7, <2>1, <2>3, <2>4, <2>8, <2>9 DEF Acted
  <2> QED BY <2>10 DEF e
<1>2. ASSUME Stat!UserVoices(by, u, gets) PROVE Acted([do |-> "voice", on |-> u, gets |-> gets])
  <2> DEFINE e == [do |-> "voice", on |-> u, gets |-> gets]
  <2>1. /\ u \in on /\ voices' = IF gets THEN voices \cup {u} ELSE voices \ {u}
        /\ UNCHANGED <<nick, on, ops, touched>>
        /\ Stat!Act(e)
    BY <1>2 DEF Stat!UserVoices, Stat!history
  <2>3. e \in Heard /\ e.on = u /\ e.do = "voice" /\ e.gets = gets
    BY DEF Heard
  <2> HIDE DEF e
  <2>4. /\ up' = Append(up, e) /\ Len(up) < MaxQueue
        /\ UNCHANGED <<chan, account, knick, seen, down, plan>>
        /\ spent < plan.ops /\ spent' = spent + 1
    BY <2>1 DEF Stat!Act
  <2>5. \A b \in Bits, w \in User : Writes(e, b, w) <=> w = u /\ b = "voice"
    BY <2>3 DEF Writes, Bits
  <2>6. Written(e) = IF gets THEN "yes" ELSE "no"
    BY <2>3 DEF Written
  <2>8. \A b \in Bits, w \in User : Shown(b, w)' = IF Writes(e, b, w) THEN Written(e) ELSE Shown(b, w)
    BY <2>1, <2>5, <2>6 DEF Shown, Bits
  <2>9. on' \subseteq User /\ ops' \subseteq on' /\ voices' \subseteq on'
    BY <1>7, <2>1
  <2>10. Acted(e)
    BY <1>7, <2>1, <2>3, <2>4, <2>8, <2>9 DEF Acted
  <2> QED BY <2>10 DEF e
<1> QED BY <1>1, <1>2

LEMMA NickActs ==
    ASSUME StatTypes, NEW u \in User, NEW n \in Names, Stat!ChangesNick(u, n)
    PROVE  Acted([do |-> "nick", on |-> u, to |-> n]) /\ nick' = [nick EXCEPT ![u] = n] /\ UNCHANGED <<on, ops>>
<1> DEFINE e == [do |-> "nick", on |-> u, to |-> n]
<1>1. /\ nick' = [nick EXCEPT ![u] = n]
      /\ UNCHANGED <<on, ops, voices, touched>>
      /\ Stat!Act(e)
  BY DEF Stat!ChangesNick, Stat!channel
<1>3. e \in Heard /\ e.on = u /\ e.do = "nick" /\ e.to = n
  BY DEF Heard
<1> HIDE DEF e
<1>4. /\ up' = Append(up, e) /\ Len(up) < MaxQueue
      /\ UNCHANGED <<chan, account, knick, seen, down, plan>>
      /\ spent < plan.ops /\ spent' = spent + 1
  BY <1>1 DEF Stat!Act
<1>5. \A b \in Bits, w \in User : Writes(e, b, w) <=> w = u /\ b = "nick"
  BY <1>3 DEF Writes, Bits
<1>6. Written(e) = n
  BY <1>3 DEF Written
<1>7. ops \subseteq on /\ voices \subseteq on /\ on \subseteq User /\ nick \in [User -> Names]
  BY DEF StatTypes
<1>8. \A b \in Bits, w \in User : Shown(b, w)' = IF Writes(e, b, w) THEN Written(e) ELSE Shown(b, w)
  BY <1>1, <1>5, <1>6, <1>7 DEF Shown, Bits
<1>9. Acted(e)
  <2>1. nick' \in [User -> Names]
    BY <1>1, <1>7
  <2> QED BY <1>1, <1>3, <1>4, <1>7, <1>8, <2>1 DEF Acted
<1> QED BY <1>1, <1>9 DEF e

LEMMA SaysActs ==
    ASSUME StatTypes, NEW u \in User, NEW c \in Asked, NEW t \in User, Stat!Says(u, c, t)
    PROVE  /\ Acted([do |-> "cmd", cmd |-> c, by |-> u, on |-> t, held |-> u \in ops, known |-> u \notin touched])
           /\ UNCHANGED <<nick, on, ops, voices, bans, touched, illicit, unwelcome>>
<1> DEFINE h == u \in ops
           k == u \notin touched
           e == [do |-> "cmd", cmd |-> c, by |-> u, on |-> t, held |-> h, known |-> k]
<1>1. UNCHANGED <<nick, on, ops, voices, bans, touched, illicit, unwelcome>> /\ Stat!Act(e)
  BY DEF Stat!Says, Stat!channel, Stat!history
<1>2. h \in BOOLEAN /\ k \in BOOLEAN
  OBVIOUS
<1> HIDE DEF h, k
<1>3. e \in Heard /\ e.do = "cmd"
  BY <1>2 DEF Heard
<1> HIDE DEF e
<1>4. /\ up' = Append(up, e) /\ Len(up) < MaxQueue
      /\ UNCHANGED <<chan, account, knick, seen, down, plan>>
      /\ spent < plan.ops /\ spent' = spent + 1
  BY <1>1 DEF Stat!Act
<1>5. \A b \in Bits, w \in User : ~Writes(e, b, w)
  BY <1>3 DEF Writes, Bits
<1>7. ops \subseteq on /\ voices \subseteq on /\ on \subseteq User /\ nick \in [User -> Names]
  BY DEF StatTypes
<1>8. \A b \in Bits, w \in User : Shown(b, w)' = Shown(b, w)
  BY <1>1 DEF Shown, Bits
<1>9. Acted(e)
  BY <1>1, <1>3, <1>4, <1>5, <1>7, <1>8 DEF Acted
<1> QED BY <1>1, <1>9 DEF e, h, k

LEMMA ActsAre ==
    ASSUME StatTypes, StatActs
    PROVE  \E e : Acted(e)
BY Zenon, JoinActs, LeavesActs, StatusActs, NickActs, SaysActs DEF StatActs

LEMMA RulesAre ==
    ASSUME StatTypes, StatRules
    PROVE  /\ UNCHANGED <<nick, knick, on, ops, voices, bans, seen, up, down, touched, plan>>
           /\ spent < plan.ops /\ spent' = spent + 1
           /\ illicit' = {} /\ unwelcome' = {}
           /\ chan' \in Registration \cup {None}
           /\ chan = None => chan' = None
           /\ account' \in [User -> Account \cup {None}]
<1>1. Stat!Rules
  BY DEF StatRules, Stat!Login, Stat!SetOption, Stat!Access, Stat!Akick, Stat!Suspend
<1>2. /\ UNCHANGED <<nick, knick, on, ops, voices, bans, seen, up, down, touched, plan>>
      /\ spent < plan.ops /\ spent' = spent + 1
      /\ illicit' = {} /\ unwelcome' = {}
  BY <1>1 DEF Stat!Rules, Stat!channel
<1>3. chan \in Registration \cup {None} /\ account \in [User -> Account \cup {None}]
  BY DEF StatTypes
<1>4. ASSUME NEW u \in User, NEW a \in Account \cup {None}, Stat!Login(u, a)
      PROVE  chan' = chan /\ account' \in [User -> Account \cup {None}]
  BY <1>3, <1>4 DEF Stat!Login
<1>5. ASSUME NEW o \in Settable, Stat!SetOption(o)
      PROVE  chan # None /\ chan' \in Registration /\ account' = account
  <2>1. /\ chan # None /\ account' = account
        /\ chan' = [chan EXCEPT !.set = IF o \in @ THEN @ \ {o} ELSE @ \cup {o}]
    BY <1>5 DEF Stat!SetOption, Stat!Managed
  <2>2. o \in Stat!Setting
    BY StatusAssumption DEF Stat!Setting
  <2>3. chan \in Registration
    BY <1>3, <2>1
  <2>4. (IF o \in chan.set THEN chan.set \ {o} ELSE chan.set \cup {o}) \in SUBSET Stat!Setting
    BY <2>2, <2>3 DEF Registration
  <2> QED BY <2>1, <2>3, <2>4 DEF Registration
<1>6. ASSUME NEW a \in Account, NEW l \in Stat!Level, Stat!Access(a, l)
      PROVE  chan # None /\ chan' \in Registration /\ account' = account
  <2>1. chan # None /\ account' = account /\ chan' = [chan EXCEPT !.level[a] = l]
    BY <1>6 DEF Stat!Access, Stat!Managed
  <2>2. chan \in Registration
    BY <1>3, <2>1
  <2>3. [chan.level EXCEPT ![a] = l] \in [Account -> Stat!Level]
    BY <2>2 DEF Registration
  <2> QED BY <2>1, <2>2, <2>3 DEF Registration
<1>7. ASSUME Stat!Akick PROVE chan # None /\ chan' \in Registration /\ account' = account
  <2>1. chan # None /\ account' = account /\ chan' = [chan EXCEPT !.akick = {"bad"} \ @]
    BY <1>7 DEF Stat!Akick, Stat!Managed
  <2>2. chan \in Registration
    BY <1>3, <2>1
  <2> QED BY <2>1, <2>2 DEF Registration
<1>8. ASSUME Stat!Suspend PROVE chan # None /\ chan' \in Registration /\ account' = account
  <2>1. chan # None /\ account' = account /\ chan' = [chan EXCEPT !.frozen = ~@]
    BY <1>8 DEF Stat!Suspend
  <2>2. chan \in Registration
    BY <1>3, <2>1
  <2> QED BY Zenon, <2>1, <2>2 DEF Registration
<1> QED BY <1>2, <1>3, <1>4, <1>5, <1>6, <1>7, <1>8 DEF StatRules

\* A command may register the channel or drop it.
LEMMA HandleIs ==
    ASSUME StatTypes, Stat!Handle
    PROVE  /\ up # <<>> /\ up' = Tail(up) /\ Head(up) \in Heard
           /\ knick' = IF Head(up).do = "nick" THEN [knick EXCEPT ![Head(up).on] = Head(up).to] ELSE knick
           /\ knick' \in [User -> Names]
           /\ \/ chan' = chan
              \/ Head(up).do = "cmd" /\ chan' = None
              \/ /\ Head(up).do = "cmd" /\ chan = None /\ Head(up).by \in seen.ops
                 /\ chan' \in Registration
           /\ illicit' = IF chan' = chan
                         THEN illicit \ {u \in User : \E i \in DOMAIN down' : i > Len(down) /\ down'[i] = Stat!Mode("+o", u)}
                         ELSE {}
           /\ unwelcome' = IF chan' = chan THEN unwelcome ELSE {}
           /\ UNCHANGED <<account, nick, on, ops, voices, bans, touched, plan, spent>>
<1> DEFINE e == Head(up)
<1>1. /\ up # <<>> /\ up' = Tail(up)
      /\ knick' = IF e.do = "nick" THEN [knick EXCEPT ![e.on] = e.to] ELSE knick
      /\ e.do # "cmd" => chan' = chan
      /\ illicit' = IF chan' = chan
                    THEN illicit \ {u \in User : \E i \in DOMAIN down' : i > Len(down) /\ down'[i] = Stat!Mode("+o", u)}
                    ELSE {}
      /\ unwelcome' = IF chan' = chan THEN unwelcome ELSE {}
      /\ UNCHANGED <<account, nick, on, ops, voices, bans, touched, plan, spent>>
  BY DEF Stat!Handle, Stat!channel
<1>2. e \in Heard
  BY <1>1 DEF StatTypes
<1>3. knick' \in [User -> Names]
  <2>1. e.do = "nick" => e.on \in User /\ e.to \in Names
    <3> HIDE DEF e
    <3> QED BY <1>2 DEF Heard
  <2> HIDE DEF e
  <2> QED BY <1>1, <2>1 DEF StatTypes
<1>4. ASSUME e.do = "cmd"
      PROVE  \/ chan' = chan \/ chan' = None
             \/ chan = None /\ e.by \in seen.ops /\ chan' \in Registration
  <2>1. Stat!Command(e)
    BY Zenon, <1>4 DEF Stat!Handle
  <2>2. e.by \in User
    <3> HIDE DEF e
    <3> QED BY <1>2, <1>4 DEF Heard
  <2> HIDE DEF e
  <2>3. CASE e.cmd = "register" /\ chan' # chan
    <3>1. Stat!Register(e.by)
      BY <2>1, <2>3 DEF Stat!Command
    <3>2. chan = None /\ account[e.by] # None /\ e.by \in seen.ops /\ chan' = Stat!Fresh(account[e.by])
      BY <2>3, <3>1 DEF Stat!Register, Stat!Controls
    <3>3. account[e.by] \in Account
      BY <2>2, <3>2 DEF StatTypes
    <3>4. \A a \in Account : Stat!Fresh(a) \in Registration
      BY DEF Stat!Fresh, Registration, Stat!Level
    <3> QED BY <3>2, <3>3, <3>4
  <2>4. CASE e.cmd = "drop"
    BY <2>1, <2>4 DEF Stat!Command, Stat!DropChannel
  <2>5. CASE e.cmd \notin {"register", "drop"}
    BY <2>1, <2>5 DEF Stat!Command
  <2> QED BY <2>3, <2>4, <2>5
<1> QED BY <1>1, <1>2, <1>3, <1>4

\* What the ircd carries out is of whom it touches, or of nobody there.
LEMMA DrainActs ==
    ASSUME StatTypes, Stat!Drain
    PROVE  /\ down # <<>> /\ down' = Tail(down) /\ Head(down) \in Sent
           /\ UNCHANGED <<chan, account, nick, knick, seen, up, illicit, unwelcome, plan, spent>>
           /\ touched \subseteq touched'
           /\ \A u \in User \ touched', b \in Bits : Shown(b, u)' = Shown(b, u)
           /\ \A u \in User : Head(down) = Stat!KickOf(u) => u \notin on' /\ (u \in on => u \in touched')
           /\ on' \subseteq on /\ ops' \subseteq on' /\ voices' \subseteq on'
           /\ \A u \in User : u \in ops' => u \in ops \/ Head(down) = Stat!Mode("+o", u)
           /\ \A u \in User : Head(down) \in {Stat!Mode("-o", u), Stat!KickOf(u)} => u \notin ops'
<1> DEFINE a == Head(down)
           left == IF a.do = "kick" THEN {a.on} ELSE {}
<1>1. /\ down # <<>> /\ down' = Tail(down)
      /\ on' = on \ left
      /\ ops' = CASE a.do = "+o" -> ops \cup ({a.on} \cap on) [] a.do = "-o" -> ops \ {a.on} [] OTHER -> ops \ left
      /\ voices' = CASE a.do = "+v" -> voices \cup ({a.on} \cap on) [] a.do = "-v" -> voices \ {a.on} [] OTHER -> voices \ left
      /\ touched' = IF a.do \in {"+b", "-b"} THEN touched ELSE touched \cup ({a.on} \cap on)
      /\ UNCHANGED <<chan, account, nick, knick, seen, up, illicit, unwelcome, plan, spent>>
  BY DEF Stat!Drain
<1>2. a \in Sent
  BY <1>1 DEF StatTypes
<1>3. a.do \in {"+o", "-o", "+v", "-v", "+b", "-b", "kick"} /\ a = [do |-> a.do, on |-> a.on]
  <2> HIDE DEF a
  <2> QED BY <1>2 DEF Sent
<1>4. ops \subseteq on /\ voices \subseteq on
  BY DEF StatTypes
<1> HIDE DEF a
<1>5. on' \subseteq on /\ ops' \subseteq on' /\ voices' \subseteq on'
  <2>1. CASE a.do = "kick"
    BY <1>1, <1>4, <2>1
  <2>2. CASE a.do = "+o"
    BY <1>1, <1>4, <2>2
  <2>3. CASE a.do = "-o"
    BY <1>1, <1>4, <2>3
  <2>4. CASE a.do = "+v"
    BY <1>1, <1>4, <2>4
  <2>5. CASE a.do = "-v"
    BY <1>1, <1>4, <2>5
  <2>6. CASE a.do \in {"+b", "-b"}
    BY <1>1, <1>4, <2>6
  <2> QED BY <1>3, <2>1, <2>2, <2>3, <2>4, <2>5, <2>6
<1>6. touched \subseteq touched'
  BY <1>1
<1>7. \A u \in User : (a = Stat!KickOf(u) => a.do = "kick" /\ a.on = u) /\ (a = Stat!Mode("-o", u) => a.do = "-o" /\ a.on = u)
  BY DEF Stat!KickOf, Stat!Mode
<1>8. \A u \in User : a = Stat!KickOf(u) => u \notin on' /\ (u \in on => u \in touched')
  BY <1>1, <1>7
<1>9. ASSUME NEW u \in User
      PROVE  /\ u \in ops' => u \in ops \/ a = Stat!Mode("+o", u)
             /\ a \in {Stat!Mode("-o", u), Stat!KickOf(u)} => u \notin ops'
  <2>1. a.do = "+o" /\ a.on = u => a = Stat!Mode("+o", u)
    BY <1>3 DEF Stat!Mode
  <2> QED BY <1>1, <1>3, <1>7, <2>1
<1>10. ASSUME NEW u \in User \ touched', NEW b \in Bits PROVE Shown(b, u)' = Shown(b, u)
  <2>1. (u \in on' <=> u \in on) /\ (u \in ops' <=> u \in ops) /\ (u \in voices' <=> u \in voices)
    <3>1. CASE a.do \in {"+b", "-b"}
      BY <1>1, <3>1
    <3>2. CASE a.do \notin {"+b", "-b"} /\ a.on # u
      BY <1>1, <1>3, <3>2
    <3>3. CASE a.do \notin {"+b", "-b"} /\ a.on = u
      <4>1. u \notin on
        BY <1>1, <1>10, <3>3
      <4> QED BY <1>1, <1>4, <1>5, <3>3, <4>1
    <3> QED BY <3>1, <3>2, <3>3
  <2>2. nick' = nick
    BY <1>1
  <2> QED BY <2>1, <2>2 DEF Shown, Bits
<1> QED BY <1>1, <1>2, <1>5, <1>6, <1>8, <1>9, <1>10 DEF a

LEMMA StatTypesStep ==
    ASSUME StatTypes, Stat!Next
    PROVE  StatTypes'
<1>0. plan \in Plans /\ plan.ops \in Nat /\ spent \in Nat /\ MaxQueue \in Nat
  BY StatusAssumption DEF StatTypes
<1>1. CASE StatActs
  <2>1. PICK e : Acted(e)
    BY <1>1, ActsAre
  <2>2. up' \in Seq(Heard) /\ Len(up') <= MaxQueue
    <3>1. up \in Seq(Heard) /\ e \in Heard /\ up' = Append(up, e) /\ Len(up) < MaxQueue
      BY <2>1 DEF StatTypes, Acted
    <3> QED BY <1>0, <3>1
  <2>3. spent' \in 0..plan'.ops
    BY <1>0, <2>1 DEF Acted
  <2> QED BY <2>1, <2>2, <2>3 DEF StatTypes, Acted
<1>2. CASE StatRules
  BY <1>0, <1>2, RulesAre DEF StatTypes
<1>3. CASE Stat!Handle
  <2>1. PICK acts : Heeded(acts)
    BY <1>3, HandleHeeded
  <2>2. seen' \in Pictures /\ down' \in Seq(Sent)
    BY <2>1 DEF Heeded, StatTypes
  <2>3. up' \in Seq(Heard) /\ Len(up') <= MaxQueue
    <3>1. up \in Seq(Heard) /\ up # <<>> /\ up' = Tail(up) /\ Len(up) <= MaxQueue
      BY <1>3, HandleIs DEF StatTypes
    <3> QED BY <1>0, <3>1
  <2>4. chan' \in Registration \cup {None}
    BY <1>3, HandleIs DEF StatTypes
  <2> QED BY <1>3, <2>2, <2>3, <2>4, HandleIs DEF StatTypes
<1>4. CASE Stat!Drain
  <2>1. down' \in Seq(Sent)
    <3>1. down \in Seq(Sent) /\ down # <<>> /\ down' = Tail(down)
      BY <1>4, DrainActs DEF StatTypes
    <3> QED BY <3>1
  <2>2. on' \subseteq User /\ ops' \subseteq on' /\ voices' \subseteq on'
    BY <1>4, DrainActs DEF StatTypes
  <2>3. UNCHANGED <<chan, account, nick, knick, seen, up, plan, spent>>
    BY <1>4, DrainActs
  <2> QED BY <2>1, <2>2, <2>3 DEF StatTypes
<1> QED BY <1>1, <1>2, <1>3, <1>4, StatSteps

-----------------------------------------------------------------------------
(* Status: the engine's picture follows the ircd's.                        *)

\* A kick of the user is on the way.
Kicking(u) == \E i \in DOMAIN down : down[i] = Stat!KickOf(u)

\* In the end, when all that is up is handled, the engine knows x.
Told(b, u, x) == Ends(up, Len(up), b, u, Known(b, u), x)

\* Of whom services did not touch the engine will know no more than the ircd
\* shows, and as much unless it put the user out itself; who is there will be
\* a member, whatever services did; a nick will be the one shown.
PictureFollows ==
    /\ \A u \in User \ touched, b \in Bits \ {"nick"} :
          /\ Shown(b, u) = "no" => Told(b, u, "no")
          /\ Shown(b, u) = "yes" => Told(b, u, "yes") \/ Kicking(u)
    /\ \A u \in User : Shown("member", u) = "yes" => Told("member", u, "yes") \/ Kicking(u)
    /\ \A u \in User : Told("nick", u, nick[u])

\* Who asked without holding status, and with none that services gave unnoted,
\* will not be known to hold it when it is answered.
AskedPlainly ==
    \A k \in 1..Len(up) :
        up[k].do = "cmd" /\ up[k].known /\ ~up[k].held =>
            Ends(up, k - 1, "op", up[k].by, Known("op", up[k].by), "no")

LEMMA ShownIs ==
    ASSUME NEW u \in User, NEW b \in Bits \ {"nick"}
    PROVE  Shown(b, u) \in {"yes", "no"} /\ Known(b, u) \in {"yes", "no"}
BY DEF Bits, Shown, Known

LEMMA WrittenBits ==
    ASSUME NEW e \in Heard, NEW b \in Bits \ {"nick"}, NEW u, Writes(e, b, u)
    PROVE  Written(e) \in {"yes", "no"}
<1>1. e.do \in {"join", "part", "op", "voice"}
  BY DEF Writes, Bits
<1> QED BY <1>1 DEF Written

\* An event says in the end what the ircd shows of what it is about.
LEMMA ToldActed ==
    ASSUME StatTypes, NEW e, Acted(e), NEW b \in Bits, NEW u \in User
    PROVE  /\ Writes(e, b, u) => Told(b, u, Shown(b, u))'
           /\ \A x : ~Writes(e, b, u) /\ Told(b, u, x) => Told(b, u, x)'
<1>1. e \in Heard /\ up \in Seq(Heard) /\ up' = Append(up, e) /\ Known(b, u)' = Known(b, u)
  BY DEF Acted, StatTypes, Known, Bits
<1>2. Len(up') = Len(up) + 1
  BY <1>1
<1>3. CASE Writes(e, b, u)
  <2>1. Shown(b, u)' = Written(e)
    BY <1>3 DEF Acted
  <2>2. Ends(up', Len(up'), b, u, Known(b, u)', Written(e))
    BY <1>1, <1>2, <1>3, EndsWritten
  <2> QED BY <1>3, <2>1, <2>2 DEF Told
<1>4. ASSUME ~Writes(e, b, u), NEW x, Told(b, u, x) PROVE Told(b, u, x)'
  <2>1. Ends(up', Len(up'), b, u, Known(b, u)', x)
    BY <1>1, <1>2, <1>4, EndsUnwritten DEF Told
  <2> QED BY <2>1 DEF Told
<1> QED BY <1>3, <1>4

\* Handling an event says in the end what was to be said, and of whom an
\* auto-kick puts out no more.
LEMMA ToldHandled ==
    ASSUME StatTypes, Stat!Handle, NEW acts, Heeded(acts), NEW b \in Bits \ {"nick"}, NEW u \in User,
           NEW k \in 1..Len(up), NEW x, Ends(up, k, b, u, Known(b, u), x)
    PROVE  \/ Ends(up', k - 1, b, u, Known(b, u)', x)
           \/ x # "no" /\ \E i \in DOMAIN acts : acts[i] = Stat!KickOf(u)
<1>1. up \in Seq(Heard) /\ up # <<>> /\ up' = Tail(up)
  BY HandleIs DEF StatTypes
<1>2. CASE Known(b, u)' = IF Writes(Head(up), b, u) THEN Written(Head(up)) ELSE Known(b, u)
  <2> DEFINE n == Known(b, u)'
  <2>1. n = IF Writes(Head(up), b, u) THEN Written(Head(up)) ELSE Known(b, u)
    BY <1>2
  <2> HIDE DEF n
  <2>2. Ends(up', k - 1, b, u, n, x)
    BY <1>1, <2>1, EndsHandled
  <2> QED BY <2>2 DEF n
<1>3. CASE Known(b, u)' = "no" /\ x = "no"
  <2> DEFINE n == Known(b, u)'
  <2>1. n = x
    BY <1>3
  <2> HIDE DEF n
  <2>2. Ends(up', k - 1, b, u, n, x)
    BY <1>1, <2>1, EndsHandled
  <2> QED BY <2>2 DEF n
<1> QED BY <1>2, <1>3 DEF Heeded

LEMMA EmptyQueue ==
    ASSUME StatTypes, Stat!Handle
    PROVE  Len(up) \in 1..Len(up) /\ Len(up') = Len(up) - 1 /\ Len(up) \in Nat
<1>1. up \in Seq(Heard) /\ up # <<>> /\ up' = Tail(up)
  BY HandleIs DEF StatTypes
<1> QED BY <1>1

LEMMA NickHandled ==
    ASSUME StatTypes, Stat!Handle, NEW u \in User, NEW k \in 1..Len(up), NEW x,
           Ends(up, k, "nick", u, knick[u], x)
    PROVE  Ends(up', k - 1, "nick", u, knick'[u], x)
<1>1. up \in Seq(Heard) /\ up # <<>> /\ up' = Tail(up)
  BY HandleIs DEF StatTypes
<1>2. knick' = IF Head(up).do = "nick" THEN [knick EXCEPT ![Head(up).on] = Head(up).to] ELSE knick
  BY HandleIs
<1>3. knick \in [User -> Names]
  BY DEF StatTypes
<1>4. knick'[u] = IF Writes(Head(up), "nick", u) THEN Written(Head(up)) ELSE knick[u]
  BY <1>2, <1>3 DEF Writes, Written
<1> QED BY <1>1, <1>4, EndsHandled

LEMMA PictureStep ==
    ASSUME StatTypes, PictureFollows, Stat!Next
    PROVE  PictureFollows'
<1>1. CASE StatActs
  <2>1. PICK e : Acted(e)
    BY <1>1, ActsAre
  <2>2. /\ \A b \in Bits, u \in User : Shown(b, u)' = IF Writes(e, b, u) THEN Written(e) ELSE Shown(b, u)
        /\ touched' \subseteq touched
        /\ \A u \in touched \ touched', b \in Bits \ {"nick"} : Writes(e, b, u)
        /\ down' = down
    BY <2>1 DEF Acted
  <2>3. ASSUME NEW b \in Bits, NEW u \in User
        PROVE  /\ Writes(e, b, u) => Told(b, u, Shown(b, u))'
               /\ \A x : ~Writes(e, b, u) /\ Told(b, u, x) => Told(b, u, x)'
    BY <2>1, ToldActed
  <2>4. \A u \in User : Kicking(u) => Kicking(u)'
    BY <2>2 DEF Kicking
  <2>5. ASSUME NEW u \in User \ touched', NEW b \in Bits \ {"nick"}
        PROVE  /\ Shown(b, u)' = "no" => Told(b, u, "no")'
               /\ Shown(b, u)' = "yes" => Told(b, u, "yes")' \/ Kicking(u)'
    <3>1. CASE Writes(e, b, u)
      <4>1. Told(b, u, Shown(b, u))'
        BY <2>3, <3>1
      <4> QED BY <4>1
    <3>2. CASE ~Writes(e, b, u)
      <4>1. u \notin touched /\ Shown(b, u)' = Shown(b, u)
        BY <2>2, <2>5, <3>2
      <4>2. /\ Shown(b, u) = "no" => Told(b, u, "no")
            /\ Shown(b, u) = "yes" => Told(b, u, "yes") \/ Kicking(u)
        BY <4>1 DEF PictureFollows
      <4> QED BY <2>3, <2>4, <3>2, <4>1, <4>2
    <3> QED BY <3>1, <3>2
  <2>6. ASSUME NEW u \in User, Shown("member", u)' = "yes"
        PROVE  Told("member", u, "yes")' \/ Kicking(u)'
    <3>0. "member" \in Bits
      BY DEF Bits
    <3>1. CASE Writes(e, "member", u)
      <4>1. Told("member", u, Shown("member", u))'
        BY <2>3, <3>0, <3>1
      <4> QED BY <2>6, <4>1
    <3>2. CASE ~Writes(e, "member", u)
      <4>1. Shown("member", u) = "yes"
        BY <2>2, <2>6, <3>0, <3>2
      <4>2. Told("member", u, "yes") \/ Kicking(u)
        BY <4>1 DEF PictureFollows
      <4> QED BY <2>3, <2>4, <3>0, <3>2, <4>2
    <3> QED BY <3>1, <3>2
  <2>7. ASSUME NEW u \in User PROVE Told("nick", u, nick[u])'
    <3>0. "nick" \in Bits /\ Shown("nick", u) = nick[u] /\ Shown("nick", u)' = nick'[u]
      BY DEF Bits, Shown
    <3>1. CASE Writes(e, "nick", u)
      <4>1. Told("nick", u, Shown("nick", u))'
        BY <2>3, <3>0, <3>1
      <4> QED BY <3>0, <4>1
    <3>2. CASE ~Writes(e, "nick", u)
      <4>1. nick'[u] = nick[u]
        BY <2>2, <3>0, <3>2
      <4>2. Told("nick", u, nick[u])
        BY DEF PictureFollows
      <4>3. \A x : Told("nick", u, x) => Told("nick", u, x)'
        BY <2>3, <3>0, <3>2
      <4>4. PICK y : y = nick[u]
        OBVIOUS
      <4>5. Told("nick", u, y)
        BY <4>2, <4>4
      <4>6. Told("nick", u, y)'
        BY <4>3, <4>5
      <4>7. y = nick'[u]
        BY <4>1, <4>4
      <4> QED BY <4>6, <4>7 DEF Told
    <3> QED BY <3>1, <3>2
  <2> QED BY <2>5, <2>6, <2>7 DEF PictureFollows
<1>2. CASE StatRules
  <2>1. UNCHANGED <<nick, knick, on, ops, voices, seen, up, down, touched>>
    BY <1>2, RulesAre
  <2> QED BY ZenonT(40), <2>1 DEF PictureFollows, Shown, Told, Known, Kicking
<1>3. CASE Stat!Handle
  <2>1. PICK acts : Heeded(acts)
    BY <1>3, HandleHeeded
  <2>2. UNCHANGED <<nick, on, ops, voices, touched>>
    BY <1>3, HandleIs
  <2>3. Len(up) \in 1..Len(up) /\ Len(up') = Len(up) - 1
    BY <1>3, EmptyQueue
  <2>4. \A u \in User : Kicking(u) => Kicking(u)'
    <3> SUFFICES ASSUME NEW u \in User, NEW i \in DOMAIN down, down[i] = Stat!KickOf(u) PROVE Kicking(u)'
      BY DEF Kicking
    <3>1. acts \in Seq(Sent) /\ down \in Seq(Sent) /\ down' = down \o acts
      BY <2>1 DEF Heeded, StatTypes
    <3>2. i \in DOMAIN down' /\ down'[i] = down[i]
      BY <3>1
    <3> QED BY <3>2 DEF Kicking
  <2>5. \A u \in User : (\E i \in DOMAIN acts : acts[i] = Stat!KickOf(u)) => Kicking(u)'
    <3> SUFFICES ASSUME NEW u \in User, NEW i \in DOMAIN acts, acts[i] = Stat!KickOf(u) PROVE Kicking(u)'
      OBVIOUS
    <3>1. acts \in Seq(Sent) /\ down \in Seq(Sent) /\ down' = down \o acts
      BY <2>1 DEF Heeded, StatTypes
    <3>2. Len(down) + i \in DOMAIN down' /\ down'[Len(down) + i] = acts[i]
      BY <3>1
    <3> QED BY <3>2 DEF Kicking
  <2>6. ASSUME NEW b \in Bits \ {"nick"}, NEW u \in User, NEW x, Told(b, u, x)
        PROVE  Told(b, u, x)' \/ (x # "no" /\ Kicking(u)')
    BY <1>3, <2>1, <2>3, <2>5, <2>6, ToldHandled DEF Told
  <2>7. \A b \in Bits, u \in User : Shown(b, u)' = Shown(b, u)
    BY <2>2 DEF Shown, Bits
  <2>8. \A u \in User : Told("nick", u, nick[u])'
    <3> SUFFICES ASSUME NEW u \in User PROVE Told("nick", u, nick[u])'
      OBVIOUS
    <3>1. Ends(up, Len(up), "nick", u, knick[u], nick[u])
      BY DEF PictureFollows, Told, Known
    <3>2. Ends(up', Len(up) - 1, "nick", u, knick'[u], nick[u])
      BY <1>3, <2>3, <3>1, NickHandled
    <3> QED BY <2>2, <2>3, <3>2 DEF Told, Known
  <2>9. "member" \in Bits \ {"nick"}
    BY DEF Bits
  <2> QED BY <2>2, <2>4, <2>6, <2>7, <2>8, <2>9 DEF PictureFollows
<1>4. CASE Stat!Drain
  <2>1. /\ down # <<>> /\ down' = Tail(down) /\ down \in Seq(Sent)
        /\ UNCHANGED <<nick, knick, seen, up>>
        /\ touched \subseteq touched'
        /\ \A u \in User \ touched', b \in Bits : Shown(b, u)' = Shown(b, u)
        /\ \A u \in User : Head(down) = Stat!KickOf(u) => u \notin on' /\ (u \in on => u \in touched')
        /\ on' \subseteq on
    BY <1>4, DrainActs DEF StatTypes
  <2>2. \A b \in Bits, u \in User : \A x : Told(b, u, x) => Told(b, u, x)'
    BY <2>1 DEF Told, Known, Bits
  <2>3. \A u \in User : Kicking(u) => Kicking(u)' \/ Head(down) = Stat!KickOf(u)
    <3> SUFFICES ASSUME NEW u \in User, NEW i \in DOMAIN down, down[i] = Stat!KickOf(u), Head(down) # Stat!KickOf(u)
                 PROVE  Kicking(u)'
      BY DEF Kicking
    <3>1. i - 1 \in DOMAIN down' /\ down'[i - 1] = down[i]
      BY <2>1
    <3> QED BY <3>1 DEF Kicking
  <2>4. ASSUME NEW u \in User \ touched', NEW b \in Bits \ {"nick"}
        PROVE  /\ Shown(b, u)' = "no" => Told(b, u, "no")'
               /\ Shown(b, u)' = "yes" => Told(b, u, "yes")' \/ Kicking(u)'
    <3>1. u \notin touched /\ Shown(b, u)' = Shown(b, u)
      BY <2>1
    <3>2. CASE Head(down) = Stat!KickOf(u)
      <4>1. u \notin on /\ u \notin on'
        BY <2>1, <3>2
      <4>2. Shown(b, u) = "no"
        BY <4>1 DEF Shown, Bits, StatTypes
      <4>3. Told(b, u, "no")
        BY <3>1, <4>2 DEF PictureFollows
      <4> QED BY <2>2, <3>1, <4>2, <4>3
    <3>3. CASE Head(down) # Stat!KickOf(u)
      BY <2>2, <2>3, <3>1, <3>3 DEF PictureFollows
    <3> QED BY <3>2, <3>3
  <2>5. ASSUME NEW u \in User, Shown("member", u)' = "yes"
        PROVE  Told("member", u, "yes")' \/ Kicking(u)'
    <3>1. u \in on'
      BY <2>5 DEF Shown
    <3>2. Head(down) # Stat!KickOf(u) /\ Shown("member", u) = "yes"
      BY <2>1, <3>1 DEF Shown
    <3>3. "member" \in Bits
      BY DEF Bits
    <3> QED BY <2>2, <2>3, <3>2, <3>3 DEF PictureFollows
  <2>6. \A u \in User : Told("nick", u, nick[u])'
    BY <2>1 DEF Told, Known, PictureFollows
  <2> QED BY <2>4, <2>5, <2>6 DEF PictureFollows
<1> QED BY <1>1, <1>2, <1>3, <1>4, StatSteps

\* Once the link is quiet the engine knows what the ircd shows.
LEMMA QuietPicture ==
    ASSUME StatTypes, PictureFollows
    PROVE  Stat!PictureAgrees
<1> SUFFICES ASSUME Stat!Quiet, NEW u \in User \ touched
             PROVE  /\ u \in seen.members <=> u \in on
                    /\ u \in seen.ops <=> u \in ops
                    /\ u \in seen.voices <=> u \in voices
  BY DEF Stat!PictureAgrees
<1>1. up = <<>> /\ down = <<>>
  BY DEF Stat!Quiet
<1>2. ~Kicking(u)
  BY <1>1 DEF Kicking
<1>3. \A b, x : Told(b, u, x) => Known(b, u) = x
  BY <1>1 DEF Told, Ends
<1>4. \A b \in Bits \ {"nick"} : Known(b, u) = Shown(b, u)
  BY <1>2, <1>3, ShownIs DEF PictureFollows
<1>5. Known("member", u) = Shown("member", u) /\ Known("op", u) = Shown("op", u) /\ Known("voice", u) = Shown("voice", u)
  BY <1>4 DEF Bits
<1> QED BY <1>5 DEF Known, Shown

\* Events that come behind change nothing of those before.
LEMMA AppendedUp ==
    ASSUME StatTypes, NEW e, Acted(e)
    PROVE  /\ Len(up') = Len(up) + 1 /\ Len(up) \in Nat /\ up'[Len(up) + 1] = e
           /\ \A k \in 1..Len(up) : up'[k] = up[k]
           /\ \A k \in 1..(Len(up) + 1) : k \in 1..Len(up) \/ k = Len(up) + 1
BY DEF Acted, StatTypes

LEMMA AskedPlainlyStep ==
    ASSUME StatTypes, PictureFollows, AskedPlainly, Stat!Next
    PROVE  AskedPlainly'
<1>0. "op" \in Bits \ {"nick"}
  BY DEF Bits
<1>1. CASE StatActs
  <2>1. PICK e : Acted(e) /\ (e.do = "cmd" => e.by \in User /\ (e.held <=> e.by \in ops) /\ (e.known <=> e.by \notin touched))
    <3>1. ASSUME NEW u \in User, NEW c \in Asked, NEW t \in User, Stat!Says(u, c, t)
          PROVE  \E e : Acted(e) /\ (e.do = "cmd" => e.by \in User /\ (e.held <=> e.by \in ops) /\ (e.known <=> e.by \notin touched))
      <4> DEFINE e == [do |-> "cmd", cmd |-> c, by |-> u, on |-> t, held |-> u \in ops, known |-> u \notin touched]
      <4>1. Acted(e)
        BY <3>1, SaysActs
      <4>2. e.by = u /\ (e.held <=> u \in ops) /\ (e.known <=> u \notin touched)
        BY Zenon
      <4> HIDE DEF e
      <4> QED BY <4>1, <4>2
    <3>2. ASSUME NEW e, Acted(e), e.do # "cmd"
          PROVE  \E x : Acted(x) /\ (x.do = "cmd" => x.by \in User /\ (x.held <=> x.by \in ops) /\ (x.known <=> x.by \notin touched))
      BY <3>2
    <3>3. ASSUME NEW u \in User, Stat!UserJoins(u) \/ Stat!Leaves(u) PROVE \E e : Acted(e) /\ e.do # "cmd"
      <4>1. [do |-> "join", on |-> u, gets |-> on = {}].do # "cmd" /\ [do |-> "part", on |-> u].do # "cmd"
        OBVIOUS
      <4> QED BY Zenon, <3>3, <4>1, JoinActs, LeavesActs
    <3>4. ASSUME NEW u \in User, NEW by \in User, NEW gets \in BOOLEAN, Stat!UserOps(by, u, gets) \/ Stat!UserVoices(by, u, gets)
          PROVE  \E e : Acted(e) /\ e.do # "cmd"
      <4>1. [do |-> "op", on |-> u, gets |-> gets].do # "cmd" /\ [do |-> "voice", on |-> u, gets |-> gets].do # "cmd"
        OBVIOUS
      <4> QED BY Zenon, <3>4, <4>1, StatusActs
    <3>5. ASSUME NEW u \in User, NEW n \in Names, Stat!ChangesNick(u, n) PROVE \E e : Acted(e) /\ e.do # "cmd"
      <4>1. [do |-> "nick", on |-> u, to |-> n].do # "cmd"
        OBVIOUS
      <4> QED BY Zenon, <3>5, <4>1, NickActs
    <3> QED BY <1>1, <3>1, <3>2, <3>3, <3>4, <3>5 DEF StatActs
  <2>2. SUFFICES ASSUME NEW k \in 1..Len(up'), up'[k].do = "cmd", up'[k].known, ~up'[k].held, NEW w, w = up'[k].by
                 PROVE  Ends(up', k - 1, "op", w, Known("op", w)', "no")
    BY DEF AskedPlainly, Known
  <2>3. /\ Len(up') = Len(up) + 1 /\ Len(up) \in Nat /\ up'[Len(up) + 1] = e
        /\ \A j \in 1..Len(up) : up'[j] = up[j]
        /\ k \in 1..Len(up) \/ k = Len(up) + 1
    BY <2>1, AppendedUp
  <2>4. /\ \A u : Known("op", u)' = Known("op", u)
        /\ up' = Append(up, e) /\ up \in Seq(Heard) /\ e \in Heard
    BY <2>1 DEF Acted, Known, StatTypes
  <2>5. CASE k \in 1..Len(up)
    <3>1. up'[k] = up[k] /\ k - 1 \in 0..Len(up)
      BY <2>3, <2>5
    <3>2. Ends(up, k - 1, "op", w, Known("op", w), "no")
      BY <2>2, <2>5, <3>1 DEF AskedPlainly
    <3>3. Ends(up', k - 1, "op", w, Known("op", w), "no")
      BY <2>4, <3>1, <3>2, EndsBefore
    <3> QED BY <2>4, <3>1, <3>3
  <2>6. CASE k = Len(up) + 1
    <3>1. /\ w \in User \ touched /\ w \notin ops
          /\ Len(up) \in 0..Len(up) /\ k - 1 = Len(up)
      BY <2>1, <2>2, <2>3, <2>6
    <3>2. Shown("op", w) = "no"
      BY <3>1 DEF Shown
    <3>3. Ends(up, Len(up), "op", w, Known("op", w), "no")
      BY <1>0, <3>1, <3>2 DEF PictureFollows, Told
    <3>4. Ends(up', Len(up), "op", w, Known("op", w), "no")
      BY <2>4, <3>1, <3>3, EndsBefore
    <3> QED BY <2>4, <3>1, <3>4
  <2> QED BY <2>3, <2>5, <2>6
<1>2. CASE StatRules
  <2>1. UNCHANGED <<seen, up>>
    BY <1>2, RulesAre
  <2> QED BY <2>1 DEF AskedPlainly, Known
<1>3. CASE Stat!Handle
  <2>1. PICK acts : Heeded(acts)
    BY <1>3, HandleHeeded
  <2>2. SUFFICES ASSUME NEW k \in 1..Len(up'), up'[k].do = "cmd", up'[k].known, ~up'[k].held, NEW w, w = up'[k].by
                 PROVE  Ends(up', k - 1, "op", w, Known("op", w)', "no")
    BY DEF AskedPlainly, Known
  <2>3. /\ up' = Tail(up) /\ up \in Seq(Heard) /\ up # <<>>
    BY <1>3, HandleIs DEF StatTypes
  <2>4. k + 1 \in 1..Len(up) /\ up'[k] = up[k + 1] /\ k \in 1..Len(up) /\ (k + 1) - 1 = k /\ up[k + 1] \in Heard
    BY <2>2, <2>3
  <2>5. Ends(up, k, "op", w, Known("op", w), "no")
    <3>1. Ends(up, (k + 1) - 1, "op", w, Known("op", w), "no")
      BY <2>2, <2>4 DEF AskedPlainly
    <3> QED BY <2>4, <3>1
  <2>6. w \in User
    BY <2>2, <2>4 DEF Heard
  <2> QED BY <1>0, <1>3, <2>1, <2>4, <2>5, <2>6, ToldHandled
<1>4. CASE Stat!Drain
  <2>1. UNCHANGED <<seen, up>>
    BY <1>4, DrainActs
  <2> QED BY <2>1 DEF AskedPlainly, Known
<1> QED BY <1>1, <1>2, <1>3, <1>4, StatSteps

\* A channel is registered by who held its operator status when asking, or
\* holds it by services' doing.
LEMMA RegisteredStep ==
    ASSUME StatTypes, AskedPlainly, Stat!Next
    PROVE  Stat!RegisteredByItsOp
<1> SUFFICES ASSUME chan = None, chan' # None, Head(up).known, ~Head(up).held PROVE FALSE
  BY DEF Stat!RegisteredByItsOp
<1>1. Stat!Handle
  <2>1. ~StatRules
    BY RulesAre
  <2>2. ~StatActs
    <3>1. \A e : Acted(e) => chan' = chan
      BY DEF Acted
    <3> QED BY <3>1, ActsAre
  <2>3. ~Stat!Drain
    BY DrainActs
  <2> QED BY <2>1, <2>2, <2>3, StatSteps
<1>2. up \in Seq(Heard) /\ up # <<>> /\ Head(up).do = "cmd" /\ Head(up).by \in seen.ops
  BY <1>1, HandleIs DEF StatTypes
<1>3. Head(up) = up[1] /\ 1 \in 1..Len(up) /\ 1 - 1 = 0
  BY <1>2
<1>4. Ends(up, 1 - 1, "op", Head(up).by, Known("op", Head(up).by), "no")
  BY <1>2, <1>3 DEF AskedPlainly
<1>5. Known("op", Head(up).by) = "no"
  BY <1>3, <1>4 DEF Ends
<1> QED BY <1>2, <1>5 DEF Known

-----------------------------------------------------------------------------
(* Status: who is not to be an operator, and who is not to be there.       *)

\* A status that is against the rules has not been looked at yet.
Unjudged(u) ==
    Stat!Outlaw(u) /\ \E i \in DOMAIN up : up[i].on = u /\ up[i].do \in {"op", "join"} /\ up[i].gets

Opping(u) == \E i \in DOMAIN down : down[i] = Stat!Mode("+o", u)

\* What takes the status away is on the way, and nothing that gives it again
\* behind.
Stripping(u) ==
    \E i \in DOMAIN down :
        /\ down[i] \in {Stat!Mode("-o", u), Stat!KickOf(u)}
        /\ \A j \in DOMAIN down : j > i => down[j] # Stat!Mode("+o", u)

IllicitLose ==
    \A u \in illicit : Unjudged(u) \/ Stripping(u) \/ (u \notin ops /\ ~Opping(u))

\* Its arrival has not been looked at, and is barred by name or by the nick it
\* will be known by then; or its nick change has not, and it stays till then.
Arriving(u) ==
    \E k \in 1..Len(up) :
        /\ up[k].do = "join" /\ up[k].on = u
        /\ Stat!Barred(u) \/ \E n : Stat!Kicked(u, n) /\ Ends(up, k - 1, "nick", u, knick[u], n)

Renaming(u) ==
    \E k \in 1..Len(up) :
        /\ up[k].do = "nick" /\ up[k].on = u /\ Stat!Kicked(u, up[k].to)
        /\ \A j \in 1..Len(up) : j > k => ~Writes(up[j], "member", u)

UnwelcomeGo ==
    \A u \in unwelcome : u \notin on \/ Kicking(u) \/ Arriving(u) \/ Renaming(u)

\* The rules a user is judged by.
LEMMA SameRules ==
    ASSUME UNCHANGED <<chan, account>>, NEW u
    PROVE  /\ Stat!Outlaw(u)' <=> Stat!Outlaw(u)
           /\ Stat!Barred(u)' <=> Stat!Barred(u)
           /\ \A n : Stat!Kicked(u, n)' <=> Stat!Kicked(u, n)
<1>1. Stat!Outlaw(u)' <=> Stat!Outlaw(u)
  BY DEF Stat!Outlaw, Stat!denied, Stat!is_op, Stat!Direct
<1>2. Stat!Barred(u)' <=> Stat!Barred(u)
  BY DEF Stat!Barred, Stat!channel_join_mode, Stat!join_mode, Stat!Direct
<1>3. \A n : Stat!Kicked(u, n)' <=> Stat!Kicked(u, n)
  BY DEF Stat!Kicked, Stat!channel_join_mode, Stat!join_mode, Stat!Direct, Stat!akick_match
<1> QED BY <1>1, <1>2, <1>3

\* What a user does is held against it as its event is.
Held(e) ==
    /\ illicit' \subseteq User /\ unwelcome' \subseteq User
    /\ \A u \in illicit' :
          \/ u \in illicit /\ (u \in ops' => u \in ops)
          \/ Stat!Outlaw(u) /\ e.on = u /\ e.do \in {"op", "join"} /\ e.gets
    /\ \A u \in unwelcome' :
          \/ u \in unwelcome /\ (u \in on' => u \in on /\ ~Writes(e, "member", u))
          \/ e.on = u /\ e.do = "join" /\ (Stat!Barred(u) \/ Stat!Kicked(u, nick[u]))
          \/ e.on = u /\ e.do = "nick" /\ Stat!Kicked(u, e.to)

StatHistory == illicit \subseteq User /\ unwelcome \subseteq User

LEMMA ActsHeld ==
    ASSUME StatTypes, StatHistory, StatActs
    PROVE  \E e : Acted(e) /\ Held(e)
<1>0. illicit \subseteq User /\ unwelcome \subseteq User
  BY DEF StatHistory
<1>1. ASSUME NEW u \in User, Stat!UserJoins(u) PROVE \E e : Acted(e) /\ Held(e)
  <2> DEFINE g == on = {}
             e == [do |-> "join", on |-> u, gets |-> g]
  <2>1. Acted(e)
    BY <1>1, JoinActs
  <2>2. /\ u \notin on /\ on' = on \cup {u} /\ ops' = IF g THEN {u} ELSE ops
        /\ illicit' = IF g /\ Stat!Outlaw(u) THEN illicit \cup {u} ELSE illicit \ {u}
        /\ unwelcome' = IF Stat!Barred(u) \/ Stat!Kicked(u, nick[u]) THEN unwelcome \cup {u} ELSE unwelcome \ {u}
    BY <1>1 DEF Stat!UserJoins
  <2> HIDE DEF g
  <2>3. e.on = u /\ e.do = "join" /\ e.gets = g
    OBVIOUS
  <2> HIDE DEF e
  <2>4. illicit' \subseteq User /\ unwelcome' \subseteq User
    BY <1>0, <2>2
  <2>5. ASSUME NEW w \in illicit'
        PROVE  \/ w \in illicit /\ (w \in ops' => w \in ops)
               \/ Stat!Outlaw(w) /\ e.on = w /\ e.do \in {"op", "join"} /\ e.gets
    <3>1. CASE w = u
      BY <2>2, <2>3, <2>5, <3>1
    <3>2. CASE w # u
      BY <2>2, <2>5, <3>2
    <3> QED BY <3>1, <3>2
  <2>6. ASSUME NEW w \in unwelcome'
        PROVE  \/ w \in unwelcome /\ (w \in on' => w \in on /\ ~Writes(e, "member", w))
               \/ e.on = w /\ e.do = "join" /\ (Stat!Barred(w) \/ Stat!Kicked(w, nick[w]))
    <3>1. CASE w = u
      BY <2>2, <2>3, <2>6, <3>1
    <3>2. CASE w # u
      BY <2>2, <2>3, <2>6, <3>2 DEF Writes
    <3> QED BY <3>1, <3>2
  <2> QED BY <2>1, <2>4, <2>5, <2>6 DEF Held
<1>2. ASSUME NEW u \in User, Stat!Leaves(u) PROVE \E e : Acted(e) /\ Held(e)
  <2> DEFINE e == [do |-> "part", on |-> u]
  <2>1. Acted(e)
    BY <1>2, LeavesActs
  <2>2. on' = on \ {u} /\ ops' = ops \ {u} /\ UNCHANGED <<illicit, unwelcome>>
    BY <1>2 DEF Stat!Leaves
  <2>3. e.on = u
    OBVIOUS
  <2> HIDE DEF e
  <2>4. \A w \in User : w \in on' => w \in on /\ ~Writes(e, "member", w)
    BY <2>2, <2>3 DEF Writes
  <2>5. \A w \in User : w \in ops' => w \in ops
    BY <2>2
  <2> QED BY <1>0, <2>1, <2>2, <2>4, <2>5 DEF Held
<1>3. ASSUME NEW u \in User, NEW by \in User, NEW gets \in BOOLEAN, Stat!UserOps(by, u, gets)
      PROVE  \E e : Acted(e) /\ Held(e)
  <2> DEFINE e == [do |-> "op", on |-> u, gets |-> gets]
  <2>1. Acted(e)
    BY Zenon, <1>3, StatusActs
  <2>2. /\ on' = on /\ ops' = (IF gets THEN ops \cup {u} ELSE ops \ {u}) /\ unwelcome' = unwelcome
        /\ illicit' = IF gets /\ Stat!Outlaw(u) THEN illicit \cup {u} ELSE illicit \ {u}
    BY <1>3 DEF Stat!UserOps
  <2>3. e.on = u /\ e.do = "op" /\ e.gets = gets
    OBVIOUS
  <2> HIDE DEF e
  <2>4. \A w \in User : ~Writes(e, "member", w)
    BY <2>3 DEF Writes
  <2>5. ASSUME NEW w \in illicit'
        PROVE  \/ w \in illicit /\ (w \in ops' => w \in ops)
               \/ Stat!Outlaw(w) /\ e.on = w /\ e.do \in {"op", "join"} /\ e.gets
    <3>1. CASE w = u
      BY <2>2, <2>3, <2>5, <3>1
    <3>2. CASE w # u
      BY <2>2, <2>5, <3>2
    <3> QED BY <3>1, <3>2
  <2>6. illicit' \subseteq User
    BY <1>0, <2>2
  <2> QED BY <1>0, <2>1, <2>2, <2>4, <2>5, <2>6 DEF Held
<1>4. ASSUME NEW u \in User, NEW by \in User, NEW gets \in BOOLEAN, Stat!UserVoices(by, u, gets)
      PROVE  \E e : Acted(e) /\ Held(e)
  <2> DEFINE e == [do |-> "voice", on |-> u, gets |-> gets]
  <2>1. Acted(e)
    BY Zenon, <1>4, StatusActs
  <2>2. UNCHANGED <<on, ops, illicit, unwelcome>>
    BY <1>4 DEF Stat!UserVoices, Stat!history
  <2>3. e.do = "voice"
    OBVIOUS
  <2> HIDE DEF e
  <2>4. \A w \in User : ~Writes(e, "member", w)
    BY <2>3 DEF Writes
  <2> QED BY <1>0, <2>1, <2>2, <2>4 DEF Held
<1>5. ASSUME NEW u \in User, NEW n \in Names, Stat!ChangesNick(u, n) PROVE \E e : Acted(e) /\ Held(e)
  <2> DEFINE e == [do |-> "nick", on |-> u, to |-> n]
  <2>1. Acted(e)
    BY <1>5, NickActs
  <2>2. /\ UNCHANGED <<on, ops, illicit>>
        /\ unwelcome' = IF u \in on /\ Stat!Kicked(u, n) THEN unwelcome \cup {u} ELSE unwelcome
    BY <1>5 DEF Stat!ChangesNick, Stat!channel
  <2>3. e.on = u /\ e.do = "nick" /\ e.to = n
    OBVIOUS
  <2> HIDE DEF e
  <2>4. \A w \in User : ~Writes(e, "member", w)
    BY <2>3 DEF Writes
  <2>5. \A w \in unwelcome' : w \in unwelcome \/ (w = u /\ Stat!Kicked(w, e.to))
    BY <2>2, <2>3
  <2> QED BY <1>0, <2>1, <2>2, <2>3, <2>4, <2>5 DEF Held
<1>6. ASSUME NEW u \in User, NEW c \in Asked, NEW t \in User, Stat!Says(u, c, t) PROVE \E e : Acted(e) /\ Held(e)
  <2> DEFINE e == [do |-> "cmd", cmd |-> c, by |-> u, on |-> t, held |-> u \in ops, known |-> u \notin touched]
  <2>1. Acted(e) /\ UNCHANGED <<on, ops, illicit, unwelcome>>
    BY <1>6, SaysActs
  <2>3. e.do = "cmd"
    OBVIOUS
  <2> HIDE DEF e
  <2>4. \A w \in User : ~Writes(e, "member", w)
    BY <2>3 DEF Writes
  <2> QED BY <1>0, <2>1, <2>4 DEF Held
<1> QED BY <1>1, <1>2, <1>3, <1>4, <1>5, <1>6 DEF StatActs

\* What is in an answer comes behind all that is on the way.
LEMMA Answers ==
    ASSUME StatTypes, NEW acts \in Seq(Sent), down' = down \o acts
    PROVE  /\ Len(down) \in Nat /\ \A i \in DOMAIN down : i \in DOMAIN down' /\ down'[i] = down[i] /\ i <= Len(down)
           /\ \A i \in DOMAIN acts : Len(down) + i \in DOMAIN down' /\ down'[Len(down) + i] = acts[i] /\ Len(down) + i > Len(down)
           /\ \A i \in DOMAIN down' : i \in DOMAIN down \/ i > Len(down)
           /\ \A i, j \in DOMAIN down' : i \in Nat /\ j \in Nat
BY DEF StatTypes

Answered(a) == \E i \in DOMAIN down' : i > Len(down) /\ down'[i] = a

LEMMA LastAnswered ==
    ASSUME StatTypes, NEW l \in Seq(Sent), NEW r \in Seq(Sent), down' = down \o (l \o r)
    PROVE  /\ \A i \in DOMAIN l : Answered(l[i])
           /\ \A i \in DOMAIN r : Answered(r[i])
<1>1. l \o r \in Seq(Sent)
  OBVIOUS
<1>2. \A i \in DOMAIN (l \o r) : Answered((l \o r)[i])
  BY Zenon, <1>1, Answers DEF Answered
<1>3. \A i \in DOMAIN l : i \in DOMAIN (l \o r) /\ (l \o r)[i] = l[i]
  OBVIOUS
<1>4. \A i \in DOMAIN r : Len(l) + i \in DOMAIN (l \o r) /\ (l \o r)[Len(l) + i] = r[i]
  OBVIOUS
<1> QED BY Zenon, <1>2, <1>3, <1>4

\* Whoever arrives: what it is stripped of, and whether it is put out.
LEMMA JoinAnswered ==
    ASSUME StatTypes, Stat!Handle, NEW u \in User, Head(up).do = "join", Head(up).on = u
    PROVE  /\ Head(up).gets /\ Stat!Outlaw(u) => Answered(Stat!Mode("-o", u))
           /\ Stat!Barred(u) \/ Stat!Kicked(u, knick[u]) => Answered(Stat!KickOf(u))
<1> DEFINE op == Head(up).gets
           a == account[u]
           still == chan = None \/ chan.frozen
           gives == Stat!channel_join_mode(a)
           outlaw == Stat!denied(a) \/ ("secureops" \in chan.set /\ ~Stat!is_op(a))
           strip == op /\ (Stat!denied(a) \/ (~Stat!is_op(a) /\ "secureops" \in chan.set))
           out == gives = None /\ "restricted" \in chan.set
           hit == gives = None /\ Stat!akick_match(knick[u])
           rest == IF out THEN <<Stat!KickOf(u)>>
                   ELSE IF hit THEN Stat!akick_hit(u, knick[u])
                   ELSE Stat!If("noautoop" \notin chan.set, Stat!Give(gives, u))
           first == Stat!If(strip, <<Stat!Mode("-o", u)>>)
<1>1. Stat!Join(u, op)
  BY Zenon DEF Stat!Handle
<1>2. ~still => down' = down \o (first \o rest)
  BY Zenon, <1>1 DEF Stat!Join, Stat!Send
<1>3. (Stat!Outlaw(u) => ~still) /\ (Stat!Barred(u) \/ Stat!Kicked(u, knick[u]) => ~still)
  BY DEF Stat!Outlaw, Stat!Barred, Stat!Kicked
<1>4. op /\ Stat!Outlaw(u) => strip
  BY DEF Stat!Outlaw
<1>5. (Stat!Barred(u) => out) /\ (Stat!Kicked(u, knick[u]) => hit)
  BY DEF Stat!Barred, Stat!Kicked
<1>6. /\ Stat!akick_hit(u, knick[u]) = <<Stat!Mode("+b", knick[u]), Stat!KickOf(u)>>
      /\ Stat!akick_hit(u, knick[u]) \in Seq(Sent) /\ Stat!Mode("-o", u) \in Sent /\ Stat!KickOf(u) \in Sent
      /\ Stat!Give(gives, u) \in Seq(Sent)
  BY ActsType DEF StatTypes, Stat!akick_hit
<1> HIDE DEF still, op, gives, strip, out, hit
<1>7. first \in Seq(Sent) /\ rest \in Seq(Sent)
  BY <1>6 DEF Stat!If
<1>8. strip => 1 \in DOMAIN first /\ first[1] = Stat!Mode("-o", u)
  BY DEF Stat!If
<1>9. out \/ hit => \E i \in DOMAIN rest : rest[i] = Stat!KickOf(u)
  <2>1. CASE out
    <3>1. rest = <<Stat!KickOf(u)>>
      BY <2>1
    <3> HIDE DEF rest
    <3>2. 1 \in DOMAIN rest /\ rest[1] = Stat!KickOf(u)
      BY <3>1
    <3> QED BY <3>2
  <2>2. CASE ~out /\ hit
    <3>1. rest = <<Stat!Mode("+b", knick[u]), Stat!KickOf(u)>>
      BY <1>6, <2>2
    <3> HIDE DEF rest
    <3>2. 2 \in DOMAIN rest /\ rest[2] = Stat!KickOf(u)
      BY <3>1
    <3> QED BY <3>2
  <2> QED BY <2>1, <2>2
<1> HIDE DEF first, rest
<1>10. ~still => (\A i \in DOMAIN first : Answered(first[i])) /\ (\A i \in DOMAIN rest : Answered(rest[i]))
  BY Zenon, <1>2, <1>7, LastAnswered
<1>11. ASSUME op, Stat!Outlaw(u) PROVE Answered(Stat!Mode("-o", u))
  BY <1>3, <1>4, <1>8, <1>10, <1>11
<1>12. ASSUME Stat!Barred(u) \/ Stat!Kicked(u, knick[u]) PROVE Answered(Stat!KickOf(u))
  <2>1. PICK i \in DOMAIN rest : rest[i] = Stat!KickOf(u)
    BY <1>5, <1>9, <1>12
  <2>2. Answered(rest[i])
    BY <1>3, <1>10, <1>12
  <2> QED BY <2>1, <2>2
<1> QED BY <1>11, <1>12 DEF op

LEMMA OpAnswered ==
    ASSUME StatTypes, Stat!Handle, NEW u \in User, Head(up).do = "op", Head(up).on = u, Head(up).gets, Stat!Outlaw(u)
    PROVE  Answered(Stat!Mode("-o", u))
<1>2. Stat!ChannelOp(u, Head(up).gets)
  BY Zenon DEF Stat!Handle
<1>3. down' = down \o <<Stat!Mode("-o", u)>>
  BY <1>2 DEF Stat!ChannelOp, Stat!Outlaw, Stat!Send, Stat!If
<1>4. <<Stat!Mode("-o", u)>> \in Seq(Sent)
  BY ActsType
<1>5. \A i \in DOMAIN <<Stat!Mode("-o", u)>> : Answered(<<Stat!Mode("-o", u)>>[i])
  BY <1>3, <1>4, Answers DEF Answered
<1> QED BY <1>5

LEMMA NickAnswered ==
    ASSUME StatTypes, Stat!Handle, NEW u \in User, Head(up).do = "nick", Head(up).on = u,
           Stat!Kicked(u, Head(up).to), u \in seen.members
    PROVE  Answered(Stat!KickOf(u))
<1> DEFINE n == Head(up).to
           r == Stat!akick_hit(u, n)
<1>1. Stat!enforce_akick_on_nick(u, n)
  BY Zenon DEF Stat!Handle
<1>2. down' = down \o r
  BY <1>1 DEF Stat!enforce_akick_on_nick, Stat!Kicked, Stat!Send
<1>3. r = <<Stat!Mode("+b", n), Stat!KickOf(u)>>
  BY DEF Stat!akick_hit
<1>4. n \in Names
  <2>1. Head(up) \in Heard
    BY HandleIs
  <2> QED BY <2>1 DEF Heard
<1> HIDE DEF n
<1>5. r \in Seq(Sent)
  BY <1>4, ActsType
<1> HIDE DEF r
<1>6. 2 \in DOMAIN r /\ r[2] = Stat!KickOf(u)
  BY <1>3
<1> QED BY <1>2, <1>5, <1>6, Answers DEF Answered

\* An event handled is the first of those up.
LEMMA QueueMoves ==
    ASSUME StatTypes, Stat!Handle
    PROVE  /\ up \in Seq(Heard) /\ up # <<>> /\ Head(up) = up[1] /\ Len(up) \in Nat /\ Len(up) > 0
           /\ Len(up') = Len(up) - 1
           /\ \A i \in 1..Len(up) : i # 1 => i - 1 \in 1..Len(up') /\ up'[i - 1] = up[i]
           /\ \A i \in 1..Len(up') : i + 1 \in 1..Len(up) /\ up'[i] = up[i + 1]
<1>1. up \in Seq(Heard) /\ up # <<>> /\ up' = Tail(up)
  BY HandleIs DEF StatTypes
<1> QED BY <1>1

LEMMA AnswersStay ==
    ASSUME StatTypes, Stat!Handle
    PROVE  /\ down \in Seq(Sent) /\ down' \in Seq(Sent) /\ Len(down) \in Nat
           /\ \A i \in DOMAIN down : i \in DOMAIN down' /\ down'[i] = down[i] /\ i <= Len(down)
           /\ \A i \in DOMAIN down' : i \in Nat /\ (i \in DOMAIN down \/ i > Len(down))
<1>1. PICK acts : Heeded(acts)
  BY HandleHeeded
<1>2. acts \in Seq(Sent) /\ down' = down \o acts /\ down \in Seq(Sent)
  BY <1>1 DEF Heeded, StatTypes
<1>3. down' \in Seq(Sent)
  BY <1>2
<1> QED BY <1>2, <1>3, Answers

\* The commands move up when the first is carried out.
LEMMA CommandsMove ==
    ASSUME StatTypes, Stat!Drain
    PROVE  /\ down \in Seq(Sent) /\ 1 \in DOMAIN down /\ Head(down) = down[1]
           /\ \A i \in DOMAIN down : i \in Nat /\ (i # 1 => i - 1 \in DOMAIN down' /\ down'[i - 1] = down[i])
           /\ \A i \in DOMAIN down' : i \in Nat /\ i > 0 /\ i + 1 \in DOMAIN down /\ down'[i] = down[i + 1]
<1>1. down \in Seq(Sent) /\ down # <<>> /\ down' = Tail(down)
  BY DrainActs DEF StatTypes
<1> QED BY <1>1

LEMMA IllicitStep ==
    ASSUME StatTypes, StatHistory, IllicitLose, Stat!Next
    PROVE  IllicitLose'
<1>1. CASE StatActs
  <2>1. PICK e : Acted(e) /\ Held(e)
    BY <1>1, ActsHeld
  <2>2. UNCHANGED <<chan, account, down>>
    BY <2>1 DEF Acted
  <2>3. /\ Len(up') = Len(up) + 1 /\ Len(up) \in Nat /\ up'[Len(up) + 1] = e
        /\ \A k \in 1..Len(up) : up'[k] = up[k]
        /\ up \in Seq(Heard) /\ up' \in Seq(Heard)
    BY <2>1, AppendedUp DEF Acted, StatTypes
  <2>4. DOMAIN up = 1..Len(up) /\ DOMAIN up' = 1..Len(up')
    BY <2>3
  <2>5. SUFFICES ASSUME NEW u \in illicit' PROVE (Unjudged(u) \/ Stripping(u) \/ (u \notin ops /\ ~Opping(u)))'
    BY DEF IllicitLose
  <2>6. Stat!Outlaw(u)' <=> Stat!Outlaw(u)
    BY <2>2, SameRules
  <2>7. CASE Stat!Outlaw(u) /\ e.on = u /\ e.do \in {"op", "join"} /\ e.gets
    <3>1. Len(up) + 1 \in DOMAIN up'
      BY <2>3, <2>4
    <3> QED BY <2>3, <2>6, <2>7, <3>1 DEF Unjudged
  <2>8. CASE u \in illicit /\ (u \in ops' => u \in ops)
    <3>1. Unjudged(u) => Unjudged(u)'
      <4>1. \A k \in DOMAIN up : k \in DOMAIN up' /\ up'[k] = up[k]
        BY <2>3, <2>4
      <4> QED BY <2>6, <4>1 DEF Unjudged
    <3>2. (Stripping(u)' <=> Stripping(u)) /\ (Opping(u)' <=> Opping(u))
      BY <2>2 DEF Stripping, Opping
    <3> QED BY <2>8, <3>1, <3>2 DEF IllicitLose
  <2> QED BY <2>1, <2>7, <2>8 DEF Held
<1>2. CASE StatRules
  BY <1>2, RulesAre DEF IllicitLose
<1>3. CASE Stat!Handle
  <2>1. SUFFICES ASSUME NEW u \in illicit' PROVE (Unjudged(u) \/ Stripping(u) \/ (u \notin ops /\ ~Opping(u)))'
    BY DEF IllicitLose
  <2>2. /\ chan' = chan /\ u \in illicit /\ u \in User
        /\ \A i \in DOMAIN down' : i > Len(down) => down'[i] # Stat!Mode("+o", u)
        /\ UNCHANGED <<account, ops>>
    <3>1. illicit' = IF chan' = chan
                     THEN illicit \ {w \in User : \E i \in DOMAIN down' : i > Len(down) /\ down'[i] = Stat!Mode("+o", w)}
                     ELSE {}
      BY <1>3, HandleIs
    <3>2. chan' = chan /\ u \in illicit
      BY <2>1, <3>1
    <3>3. u \in User
      BY <3>2 DEF StatHistory
    <3>4. u \notin {w \in User : \E i \in DOMAIN down' : i > Len(down) /\ down'[i] = Stat!Mode("+o", w)}
      BY <2>1, <3>1, <3>2
    <3> QED BY <1>3, <3>2, <3>3, <3>4, HandleIs
  <2>3. Stat!Outlaw(u)' <=> Stat!Outlaw(u)
    BY <2>2, SameRules
  <2>4. /\ Len(down) \in Nat
        /\ \A i \in DOMAIN down : i \in DOMAIN down' /\ down'[i] = down[i] /\ i <= Len(down)
        /\ \A i \in DOMAIN down' : i \in Nat /\ (i \in DOMAIN down \/ i > Len(down))
    BY <1>3, AnswersStay
  <2>5. CASE Stripping(u)
    <3>1. PICK i \in DOMAIN down :
             /\ down[i] \in {Stat!Mode("-o", u), Stat!KickOf(u)}
             /\ \A j \in DOMAIN down : j > i => down[j] # Stat!Mode("+o", u)
      BY <2>5 DEF Stripping
    <3>2. \A j \in DOMAIN down' : j > i => down'[j] # Stat!Mode("+o", u)
      BY <2>2, <2>4, <3>1
    <3> QED BY <2>4, <3>1, <3>2 DEF Stripping
  <2>6. CASE u \notin ops /\ ~Opping(u)
    <3>1. ~Opping(u)'
      BY <2>2, <2>4, <2>6 DEF Opping
    <3> QED BY <2>2, <2>6, <3>1
  <2>7. CASE Unjudged(u)
    <3>1. PICK i \in DOMAIN up : up[i].on = u /\ up[i].do \in {"op", "join"} /\ up[i].gets
      BY <2>7 DEF Unjudged
    <3>2. /\ up \in Seq(Heard) /\ Head(up) = up[1]
          /\ \A k \in 1..Len(up) : k # 1 => k - 1 \in 1..Len(up') /\ up'[k - 1] = up[k]
      BY <1>3, QueueMoves
    <3>3. DOMAIN up = 1..Len(up) /\ DOMAIN up' = 1..Len(up')
      <4>1. up' = Tail(up) /\ up # <<>>
        BY <1>3, HandleIs
      <4> QED BY <3>2, <4>1
    <3>4. CASE i # 1
      <4>1. i - 1 \in DOMAIN up' /\ up'[i - 1] = up[i]
        BY <3>1, <3>2, <3>3, <3>4
      <4> QED BY <2>3, <2>7, <3>1, <4>1 DEF Unjudged
    <3>5. CASE i = 1
      <4>1. Answered(Stat!Mode("-o", u))
        BY <1>3, <2>2, <2>7, <3>1, <3>2, <3>5, OpAnswered, JoinAnswered DEF Unjudged
      <4>2. PICK k \in DOMAIN down' : k > Len(down) /\ down'[k] = Stat!Mode("-o", u)
        BY <4>1 DEF Answered
      <4>3. \A j \in DOMAIN down' : j > k => down'[j] # Stat!Mode("+o", u)
        BY <2>2, <2>4, <4>2
      <4> QED BY <4>2, <4>3 DEF Stripping
    <3> QED BY <3>4, <3>5
  <2> QED BY <2>2, <2>5, <2>6, <2>7 DEF IllicitLose
<1>4. CASE Stat!Drain
  <2>1. /\ UNCHANGED <<chan, account, up, illicit>>
        /\ \A u \in User : u \in ops' => u \in ops \/ Head(down) = Stat!Mode("+o", u)
        /\ \A u \in User : Head(down) \in {Stat!Mode("-o", u), Stat!KickOf(u)} => u \notin ops'
    BY <1>4, DrainActs
  <2>2. SUFFICES ASSUME NEW u \in illicit PROVE (Unjudged(u) \/ Stripping(u) \/ (u \notin ops /\ ~Opping(u)))'
    BY <2>1 DEF IllicitLose
  <2>3. u \in User
    BY DEF StatHistory
  <2>4. /\ down \in Seq(Sent) /\ 1 \in DOMAIN down /\ Head(down) = down[1]
        /\ \A i \in DOMAIN down : i \in Nat /\ (i # 1 => i - 1 \in DOMAIN down' /\ down'[i - 1] = down[i])
        /\ \A i \in DOMAIN down' : i \in Nat /\ i > 0 /\ i + 1 \in DOMAIN down /\ down'[i] = down[i + 1]
    BY <1>4, CommandsMove
  <2>5. Stat!Mode("-o", u) # Stat!Mode("+o", u) /\ Stat!KickOf(u) # Stat!Mode("+o", u)
    BY DEF Stat!Mode, Stat!KickOf
  <2>6. CASE Unjudged(u)
    <3>1. Stat!Outlaw(u)' <=> Stat!Outlaw(u)
      BY <2>1, SameRules
    <3> QED BY <2>1, <2>6, <3>1 DEF Unjudged
  <2>7. CASE Stripping(u)
    <3>1. PICK i \in DOMAIN down :
             /\ down[i] \in {Stat!Mode("-o", u), Stat!KickOf(u)}
             /\ \A j \in DOMAIN down : j > i => down[j] # Stat!Mode("+o", u)
      BY <2>7 DEF Stripping
    <3>2. CASE i = 1
      <4>1. u \notin ops'
        BY <2>1, <2>3, <2>4, <3>1, <3>2
      <4>2. ~Opping(u)'
        BY <2>4, <3>1, <3>2 DEF Opping
      <4> QED BY <4>1, <4>2
    <3>3. CASE i # 1
      <4>1. i - 1 \in DOMAIN down' /\ down'[i - 1] = down[i]
        BY <2>4, <3>1, <3>3
      <4>2. \A j \in DOMAIN down' : j > i - 1 => down'[j] # Stat!Mode("+o", u)
        BY <2>4, <3>1
      <4> QED BY <3>1, <4>1, <4>2 DEF Stripping
    <3> QED BY <3>2, <3>3
  <2>8. CASE u \notin ops /\ ~Opping(u)
    <3>1. Head(down) # Stat!Mode("+o", u)
      BY <2>4, <2>8 DEF Opping
    <3>2. ~Opping(u)'
      BY <2>4, <2>8 DEF Opping
    <3> QED BY <2>1, <2>3, <2>8, <3>1, <3>2
  <2> QED BY <2>6, <2>7, <2>8 DEF IllicitLose
<1> QED BY <1>1, <1>2, <1>3, <1>4, StatSteps

LEMMA UnwelcomeStep ==
    ASSUME StatTypes, StatHistory, PictureFollows, UnwelcomeGo, Stat!Next
    PROVE  UnwelcomeGo'
<1>1. CASE StatActs
  <2>1. PICK e : Acted(e) /\ Held(e)
    BY <1>1, ActsHeld
  <2>2. UNCHANGED <<chan, account, knick, down>> /\ up' = Append(up, e) /\ up \in Seq(Heard) /\ e \in Heard
    BY <2>1 DEF Acted, StatTypes
  <2>3. /\ Len(up') = Len(up) + 1 /\ Len(up) \in Nat /\ up'[Len(up) + 1] = e
        /\ \A k \in 1..Len(up) : up'[k] = up[k]
        /\ \A k \in 1..(Len(up) + 1) : k \in 1..Len(up) \/ k = Len(up) + 1
    BY <2>1, AppendedUp
  <2>4. \A k \in 1..Len(up) : k \in 1..Len(up') /\ k - 1 \in 0..Len(up)
    BY <2>3
  <2>5. Len(up) + 1 \in 1..Len(up') /\ (Len(up) + 1) - 1 = Len(up) /\ Len(up) \in 0..Len(up)
    BY <2>3
  <2>6. SUFFICES ASSUME NEW u \in unwelcome' PROVE (u \notin on \/ Kicking(u) \/ Arriving(u) \/ Renaming(u))'
    BY DEF UnwelcomeGo
  <2>7. /\ Stat!Barred(u)' <=> Stat!Barred(u)
        /\ \A n : Stat!Kicked(u, n)' <=> Stat!Kicked(u, n)
    BY Zenon, <2>2, SameRules
  <2>8. u \in User
    BY <2>1 DEF Held
  <2>9. CASE u \in unwelcome /\ (u \in on' => u \in on /\ ~Writes(e, "member", u)) /\ u \in on'
    <3>1. Kicking(u) \/ Arriving(u) \/ Renaming(u)
      BY <2>9 DEF UnwelcomeGo
    <3>2. Kicking(u) => Kicking(u)'
      BY <2>2 DEF Kicking
    <3>3. ASSUME Arriving(u) PROVE Arriving(u)'
      <4>1. PICK k \in 1..Len(up) :
               /\ up[k].do = "join" /\ up[k].on = u
               /\ Stat!Barred(u) \/ \E n : Stat!Kicked(u, n) /\ Ends(up, k - 1, "nick", u, knick[u], n)
        BY <3>3 DEF Arriving
      <4>2. k \in 1..Len(up') /\ up'[k] = up[k] /\ k - 1 \in 0..Len(up)
        BY <2>3, <2>4
      <4>3. \A n : Ends(up, k - 1, "nick", u, knick[u], n) => Ends(up', k - 1, "nick", u, knick'[u], n)
        BY <2>2, <4>2, EndsBefore
      <4> QED BY <2>7, <4>1, <4>2, <4>3 DEF Arriving
    <3>4. ASSUME Renaming(u) PROVE Renaming(u)'
      <4>1. PICK k \in 1..Len(up) :
               /\ up[k].do = "nick" /\ up[k].on = u /\ Stat!Kicked(u, up[k].to)
               /\ \A j \in 1..Len(up) : j > k => ~Writes(up[j], "member", u)
        BY <3>4 DEF Renaming
      <4>2. k \in 1..Len(up') /\ up'[k] = up[k]
        BY <2>3, <2>4
      <4>3. \A j \in 1..Len(up') : j > k => ~Writes(up'[j], "member", u)
        BY <2>3, <2>9, <4>1
      <4> QED BY <2>7, <4>1, <4>2, <4>3 DEF Renaming
    <3> QED BY <3>1, <3>2, <3>3, <3>4
  <2>10. CASE e.on = u /\ e.do = "join" /\ (Stat!Barred(u) \/ Stat!Kicked(u, nick[u]))
    <3>1. Ends(up, Len(up), "nick", u, knick[u], nick[u])
      BY <2>8 DEF PictureFollows, Told, Known
    <3>2. Ends(up', Len(up), "nick", u, knick[u], nick[u])
      BY <2>2, <2>5, <3>1, EndsBefore
    <3>3. Arriving(u)'
      BY <2>2, <2>3, <2>5, <2>7, <2>10, <3>2 DEF Arriving
    <3> QED BY <3>3
  <2>11. CASE e.on = u /\ e.do = "nick" /\ Stat!Kicked(u, e.to)
    <3>1. \A j \in 1..Len(up') : ~(j > Len(up) + 1)
      BY <2>3
    <3> QED BY <2>3, <2>5, <2>7, <2>11, <3>1 DEF Renaming
  <2> QED BY <2>1, <2>9, <2>10, <2>11 DEF Held
<1>2. CASE StatRules
  BY <1>2, RulesAre DEF UnwelcomeGo
<1>3. CASE Stat!Handle
  <2>1. SUFFICES ASSUME NEW u \in unwelcome' PROVE (u \notin on \/ Kicking(u) \/ Arriving(u) \/ Renaming(u))'
    BY DEF UnwelcomeGo
  <2>2. chan' = chan /\ u \in unwelcome /\ u \in User /\ UNCHANGED <<account, on>>
    <3>1. unwelcome' = IF chan' = chan THEN unwelcome ELSE {}
      BY <1>3, HandleIs
    <3> QED BY <1>3, <2>1, <3>1, HandleIs DEF StatHistory
  <2>3. /\ Stat!Barred(u)' <=> Stat!Barred(u)
        /\ \A n : Stat!Kicked(u, n)' <=> Stat!Kicked(u, n)
    BY <2>2, SameRules
  <2>4. \A i \in DOMAIN down : i \in DOMAIN down' /\ down'[i] = down[i]
    BY <1>3, AnswersStay
  <2>5. Kicking(u) \/ Answered(Stat!KickOf(u)) => Kicking(u)'
    BY <2>4 DEF Kicking, Answered
  <2>6. /\ up \in Seq(Heard) /\ Head(up) = up[1] /\ Len(up) \in Nat /\ Len(up') = Len(up) - 1
        /\ \A i \in 1..Len(up) : i # 1 => i - 1 \in 1..Len(up') /\ up'[i - 1] = up[i]
        /\ \A i \in 1..Len(up') : i + 1 \in 1..Len(up) /\ up'[i] = up[i + 1]
    BY <1>3, QueueMoves
  <2>7. ASSUME Arriving(u) PROVE Arriving(u)' \/ Kicking(u)'
    <3>1. PICK k \in 1..Len(up) :
             /\ up[k].do = "join" /\ up[k].on = u
             /\ Stat!Barred(u) \/ \E n : Stat!Kicked(u, n) /\ Ends(up, k - 1, "nick", u, knick[u], n)
      BY <2>7 DEF Arriving
    <3>2. CASE k = 1
      <4>1. \A n : Ends(up, k - 1, "nick", u, knick[u], n) => knick[u] = n
        BY <3>2 DEF Ends
      <4>2. Stat!Barred(u) \/ Stat!Kicked(u, knick[u])
        BY <3>1, <4>1
      <4> QED BY <1>3, <2>2, <2>5, <2>6, <3>1, <3>2, <4>2, JoinAnswered
    <3>3. CASE k # 1
      <4>1. k - 1 \in 1..Len(up') /\ up'[k - 1] = up[k] /\ k - 1 \in 1..Len(up)
        BY <2>6, <3>1, <3>3
      <4>2. \A n : Ends(up, k - 1, "nick", u, knick[u], n) => Ends(up', (k - 1) - 1, "nick", u, knick'[u], n)
        BY <1>3, <2>2, <4>1, NickHandled
      <4>3. Arriving(u)'
        BY <2>3, <3>1, <4>1, <4>2 DEF Arriving
      <4> QED BY <4>3
    <3> QED BY <3>2, <3>3
  <2>8. ASSUME Renaming(u), u \in on PROVE Renaming(u)' \/ Kicking(u)'
    <3>1. PICK k \in 1..Len(up) :
             /\ up[k].do = "nick" /\ up[k].on = u /\ Stat!Kicked(u, up[k].to)
             /\ \A j \in 1..Len(up) : j > k => ~Writes(up[j], "member", u)
      BY <2>8 DEF Renaming
    <3>2. CASE k = 1
      <4>1. \A j \in 1..Len(up) : ~Writes(up[j], "member", u)
        <5>1. ~Writes(up[1], "member", u)
          BY <3>1, <3>2 DEF Writes
        <5>2. \A j \in 1..Len(up) : j = 1 \/ j > k
          BY <2>6, <3>2
        <5> QED BY <3>1, <5>1, <5>2
      <4>2. Shown("member", u) = "yes"
        BY <2>8 DEF Shown
      <4>3. Told("member", u, "yes") \/ Kicking(u)
        BY <2>2, <4>2 DEF PictureFollows
      <4>4. Told("member", u, "yes") => u \in seen.members
        <5>1. Told("member", u, "yes") => Known("member", u) = "yes"
          BY <4>1 DEF Told, Ends
        <5> QED BY <5>1 DEF Known
      <4> QED BY <1>3, <2>2, <2>5, <2>6, <3>1, <3>2, <4>3, <4>4, NickAnswered
    <3>3. CASE k # 1
      <4>1. k - 1 \in 1..Len(up') /\ up'[k - 1] = up[k]
        BY <2>6, <3>1, <3>3
      <4>2. \A j \in 1..Len(up') : j > k - 1 => ~Writes(up'[j], "member", u)
        <5>1. \A j \in 1..Len(up') : j > k - 1 => j + 1 > k
          BY <3>1
        <5> QED BY <2>6, <3>1, <5>1
      <4> QED BY <2>3, <3>1, <4>1, <4>2 DEF Renaming
    <3> QED BY <3>2, <3>3
  <2> QED BY <2>2, <2>5, <2>7, <2>8 DEF UnwelcomeGo
<1>4. CASE Stat!Drain
  <2>1. /\ UNCHANGED <<chan, account, knick, up, unwelcome>>
        /\ \A u \in User : Head(down) = Stat!KickOf(u) => u \notin on'
        /\ on' \subseteq on
    BY <1>4, DrainActs
  <2>2. SUFFICES ASSUME NEW u \in unwelcome PROVE (u \notin on \/ Kicking(u) \/ Arriving(u) \/ Renaming(u))'
    BY <2>1 DEF UnwelcomeGo
  <2>3. u \in User
    BY DEF StatHistory
  <2>4. /\ down \in Seq(Sent) /\ 1 \in DOMAIN down /\ Head(down) = down[1]
        /\ \A i \in DOMAIN down : i # 1 => i - 1 \in DOMAIN down' /\ down'[i - 1] = down[i]
    BY <1>4, CommandsMove
  <2>5. /\ Stat!Barred(u)' <=> Stat!Barred(u)
        /\ \A n : Stat!Kicked(u, n)' <=> Stat!Kicked(u, n)
    BY <2>1, SameRules
  <2>6. ASSUME Kicking(u) PROVE (u \notin on \/ Kicking(u))'
    <3>1. PICK i \in DOMAIN down : down[i] = Stat!KickOf(u)
      BY <2>6 DEF Kicking
    <3>2. CASE i = 1
      BY <2>1, <2>3, <2>4, <3>1, <3>2
    <3>3. CASE i # 1
      BY <2>4, <3>1, <3>3 DEF Kicking
    <3> QED BY <3>2, <3>3
  <2>7. Arriving(u) => Arriving(u)'
    BY <2>1, <2>5 DEF Arriving
  <2>8. Renaming(u) => Renaming(u)'
    BY <2>1, <2>5 DEF Renaming
  <2>9. u \notin on => u \notin on'
    BY <2>1
  <2> QED BY <2>6, <2>7, <2>8, <2>9 DEF UnwelcomeGo
<1> QED BY <1>1, <1>2, <1>3, <1>4, StatSteps

LEMMA StatHistoryStep == ASSUME StatTypes, StatHistory, Stat!Next PROVE StatHistory'
<1>1. StatActs => StatHistory'
  BY ActsHeld DEF Held, StatHistory
<1>2. StatRules => StatHistory'
  BY RulesAre DEF StatHistory
<1>3. Stat!Handle => StatHistory'
  BY HandleIs DEF StatHistory
<1>4. Stat!Drain => StatHistory'
  BY DrainActs DEF StatHistory
<1> QED BY <1>1, <1>2, <1>3, <1>4, StatSteps

\* All is handled and carried out: nobody is left to be judged, and nothing is
\* on its way.
LEMMA QuietRules ==
    ASSUME IllicitLose, UnwelcomeGo
    PROVE  Stat!NoIllicitOps /\ Stat!UnwelcomeLeave
<1> SUFFICES ASSUME Stat!Quiet PROVE illicit \cap ops = {} /\ unwelcome \cap on = {}
  BY DEF Stat!NoIllicitOps, Stat!UnwelcomeLeave
<1>1. up = <<>> /\ down = <<>>
  BY DEF Stat!Quiet
<1>2. \A u \in illicit : u \notin ops
  BY <1>1 DEF IllicitLose, Unjudged, Stripping
<1>3. \A u \in unwelcome : u \notin on
  BY <1>1 DEF UnwelcomeGo, Kicking, Arriving, Renaming
<1> QED BY <1>2, <1>3

StatHolds ==
    /\ StatTypes /\ StatHistory
    /\ PictureFollows /\ AskedPlainly
    /\ IllicitLose /\ UnwelcomeGo

LEMMA StatHoldsInit == Stat!Init => StatHolds
<1> SUFFICES ASSUME Stat!Init PROVE StatHolds
  OBVIOUS
<1>1. /\ account \in [User -> Account \cup {None}]
      /\ nick = [u \in User |-> "plain"] /\ knick = nick
      /\ on \in {{}, User} /\ ops \in SUBSET on /\ voices = {} /\ bans = {}
      /\ seen = [members |-> on, ops |-> ops, voices |-> voices]
      /\ up = <<>> /\ down = <<>>
      /\ touched = {} /\ illicit = {} /\ unwelcome = {}
      /\ plan \in Plans /\ spent = 0
  BY DEF Stat!Init
<1>2. chan \in Registration \cup {None}
  <2>1. PICK f \in Account, set \in {{"secureops", "peace"}, {"restricted", "peace"}} :
           chan \in {None, [Stat!Fresh(f) EXCEPT !.set = set, !.akick = {"bad"}]}
    BY Zenon DEF Stat!Init
  <2>2. Stat!Fresh(f) \in Registration
    BY DEF Stat!Fresh, Registration, Stat!Level
  <2>3. set \subseteq Stat!Setting
    BY DEF Stat!Setting
  <2> DEFINE g == Stat!Fresh(f)
  <2> HIDE DEF g
  <2>4. [g EXCEPT !.set = set, !.akick = {"bad"}] \in Registration
    BY Zenon, <2>2, <2>3 DEF Registration, g
  <2> QED BY <2>1, <2>4 DEF g
<1>3. StatTypes
  <2>1. seen \in Pictures
    BY <1>1 DEF Pictures
  <2>2. up \in Seq(Heard) /\ Len(up) <= MaxQueue /\ down \in Seq(Sent)
    BY <1>1, StatusAssumption
  <2>3. spent \in 0..plan.ops
    BY <1>1, StatusAssumption
  <2>4. nick \in [User -> Names]
    BY <1>1 DEF Names
  <2> QED BY <1>1, <1>2, <2>1, <2>2, <2>3, <2>4 DEF StatTypes
<1>4. \A b, u : Told(b, u, Known(b, u))
  BY <1>1 DEF Told, Ends
<1>5. \A u \in User, b \in Bits : Known(b, u) = Shown(b, u)
  BY <1>1 DEF Known, Shown, Bits
<1>6. PictureFollows
  <2>1. "member" \in Bits /\ "nick" \in Bits /\ \A u : Shown("nick", u) = nick[u]
    BY DEF Bits, Shown
  <2>2. \A u \in User, b \in Bits : Told(b, u, Shown(b, u))
    BY <1>4, <1>5
  <2> HIDE DEF Bits
  <2>3. \A u \in User, b \in Bits : (Shown(b, u) = "no" => Told(b, u, "no")) /\ (Shown(b, u) = "yes" => Told(b, u, "yes"))
    BY <2>2
  <2>4. \A u \in User : Told("nick", u, nick[u])
    BY <2>1, <2>2
  <2> QED BY <2>1, <2>3, <2>4 DEF PictureFollows
<1>7. AskedPlainly
  BY <1>1 DEF AskedPlainly
<1>8. IllicitLose /\ UnwelcomeGo /\ StatHistory
  BY <1>1 DEF IllicitLose, UnwelcomeGo, StatHistory
<1> QED BY <1>3, <1>6, <1>7, <1>8 DEF StatHolds

LEMMA StatHoldsStep == StatHolds /\ Stat!Next => StatHolds'
BY StatTypesStep, StatHistoryStep, PictureStep, AskedPlainlyStep, IllicitStep, UnwelcomeStep DEF StatHolds

LEMMA StatHoldsStutter == StatHolds /\ UNCHANGED vars => StatHolds'
<1> SUFFICES ASSUME StatHolds, UNCHANGED vars PROVE StatHolds'
  OBVIOUS
<1>1. UNCHANGED <<chan, account, nick, knick, on, ops, voices, seen, up, down, touched, illicit, unwelcome, plan, spent>>
  BY DEF vars, ofStatus
<1>2. StatTypes' /\ StatHistory'
  BY <1>1 DEF StatHolds, StatTypes, StatHistory
<1>3. \A u : (Stat!Outlaw(u)' <=> Stat!Outlaw(u)) /\ (Stat!Barred(u)' <=> Stat!Barred(u))
             /\ \A n : Stat!Kicked(u, n)' <=> Stat!Kicked(u, n)
  BY <1>1, SameRules
<1>4. IllicitLose' /\ UnwelcomeGo'
  BY <1>1, <1>3 DEF StatHolds, IllicitLose, Unjudged, Stripping, Opping, UnwelcomeGo, Kicking, Arriving, Renaming
<1>5. PictureFollows' /\ AskedPlainly'
  BY ZenonT(40), <1>1 DEF StatHolds, PictureFollows, AskedPlainly, Told, Known, Shown, Kicking
<1> QED BY <1>2, <1>4, <1>5 DEF StatHolds

LEMMA StatTypeOK == StatHolds => Stat!TypeOK
BY DEF StatHolds, StatTypes, Pictures, Registration, Stat!TypeOK

-----------------------------------------------------------------------------
(* Security: windows, read from the end.                                   *)

SecurityIs ==
    /\ Permit \in Nat /\ Life \in Nat /\ AnnouncePermit \in Nat /\ AnnounceLife \in Nat
    /\ EvadeTtl \in Nat /\ Grace \in Nat /\ Hour \in Nat /\ MaxNow["security"] \in Nat
    /\ Life <= Hour /\ AnnounceLife <= Hour /\ None \notin Suspect

LEMMA Secured == SecurityIs
BY SecurityAssumption DEF SecurityIs

\* The n-th from the end.
Latest(t, n) == t[Len(t) + 1 - n]

LEMMA BackIs == ASSUME NEW t, NEW n PROVE Sec!Back(t, n) = Latest(t, n)
BY DEF Sec!Back, Latest

\* No later than at, the latest last.
Aged(t, at) ==
    \A n \in 1..Len(t) : Latest(t, n) <= at /\ \A m \in 1..n : Latest(t, n) <= Latest(t, m)

LEMMA LatestNat ==
    ASSUME NEW t \in Seq(Nat), NEW n \in 1..Len(t)
    PROVE  Latest(t, n) \in Nat
<1>1. Len(t) + 1 - n \in 1..Len(t)
  OBVIOUS
<1> QED BY <1>1 DEF Latest

\* An event more.
LEMMA LatestAppend ==
    ASSUME NEW t \in Seq(Nat), NEW x \in Nat
    PROVE  /\ Append(t, x) \in Seq(Nat) /\ Len(Append(t, x)) = Len(t) + 1
           /\ Latest(Append(t, x), 1) = x
           /\ \A n \in 1..Len(t) : Latest(Append(t, x), n + 1) = Latest(t, n)
<1>1. Append(t, x) \in Seq(Nat) /\ Len(Append(t, x)) = Len(t) + 1 /\ Append(t, x)[Len(t) + 1] = x
  OBVIOUS
<1>2. ASSUME NEW n \in 1..Len(t) PROVE Append(t, x)[Len(t) + 1 - n] = t[Len(t) + 1 - n]
  <2>1. Len(t) + 1 - n \in 1..Len(t)
    OBVIOUS
  <2> QED BY <2>1
<1>3. ASSUME NEW n \in 1..Len(t) PROVE Len(t) + 1 + 1 - (n + 1) = Len(t) + 1 - n
  OBVIOUS
<1>4. Len(t) + 1 + 1 - 1 = Len(t) + 1
  OBVIOUS
<1> QED BY <1>1, <1>2, <1>3, <1>4 DEF Latest

LEMMA AgedAppend ==
    ASSUME NEW t \in Seq(Nat), NEW x \in Nat, Aged(t, x)
    PROVE  Aged(Append(t, x), x)
<1> DEFINE s == Append(t, x)
<1>1. s \in Seq(Nat) /\ Len(s) = Len(t) + 1 /\ Latest(s, 1) = x
      /\ \A n \in 1..Len(t) : Latest(s, n + 1) = Latest(t, n)
  BY LatestAppend
<1> HIDE DEF s
<1>4. ASSUME NEW n \in 1..Len(s), NEW m \in 1..n
      PROVE  Latest(s, n) <= x /\ Latest(s, n) <= Latest(s, m)
  <2>2. CASE n = 1
    BY <1>1, <2>2
  <2>3. CASE n # 1
    <3>1. n - 1 \in 1..Len(t) /\ n = (n - 1) + 1 /\ Len(t) \in Nat
      BY <1>1, <2>3
    <3>2. Latest(s, n) = Latest(t, n - 1) /\ Latest(t, n - 1) <= x
      BY Zenon, <1>1, <3>1 DEF Aged
    <3>3. CASE m = 1
      BY <1>1, <3>2, <3>3
    <3>4. CASE m # 1
      <4>1. m - 1 \in 1..(n - 1) /\ m = (m - 1) + 1 /\ m - 1 \in 1..Len(t)
        BY <3>1, <3>4
      <4>2. Latest(s, m) = Latest(t, m - 1) /\ Latest(t, n - 1) <= Latest(t, m - 1)
        BY Zenon, <1>1, <3>1, <4>1 DEF Aged
      <4> QED BY <3>2, <4>2
    <3> QED BY <3>2, <3>3, <3>4
  <2> QED BY <2>2, <2>3
<1> QED BY <1>4 DEF Aged, s

LEMMA AgedLater ==
    ASSUME NEW t \in Seq(Nat), NEW x \in Nat, NEW y \in Nat, x <= y, Aged(t, x)
    PROVE  Aged(t, y)
<1>1. ASSUME NEW n \in 1..Len(t) PROVE Latest(t, n) <= y
  <2>1. Latest(t, n) \in Nat /\ Latest(t, n) <= x
    BY LatestNat DEF Aged
  <2> QED BY <2>1
<1> QED BY <1>1 DEF Aged

LEMMA MinusIs ==
    ASSUME NEW a \in Nat, NEW b \in Nat, NEW x \in Nat
    PROVE  Sec!Minus(a, b) \in Nat /\ (x < Sec!Minus(a, b) <=> x + b < a)
BY DEF Sec!Minus

\* What is popped off the front is too old, what is left at the front is not.
LEMMA PoppedIs ==
    ASSUME NEW t \in Seq(Nat), NEW life \in Nat, now \in Nat
    PROVE  /\ Sec!Popped(t, life) \in 0..Len(t)
           /\ \A i \in 1..Sec!Popped(t, life) : t[i] + life < now
           /\ Sec!Popped(t, life) < Len(t) => ~(t[Sec!Popped(t, life) + 1] + life < now)
<1> DEFINE cut == Sec!Minus(now, life)
           P(n) == /\ \A i \in 1..n : t[i] < cut
                   /\ n < Len(t) => t[n + 1] >= cut
           F == {i \in 1..Len(t) : t[i] >= cut}
<1>1. cut \in Nat /\ Len(t) \in Nat /\ \A i \in 1..Len(t) : t[i] \in Nat /\ (t[i] < cut <=> t[i] + life < now)
  <2>1. Len(t) \in Nat /\ \A i \in 1..Len(t) : t[i] \in Nat
    OBVIOUS
  <2>2. cut \in Nat /\ \A x \in Nat : x < cut <=> x + life < now
    BY Zenon, MinusIs
  <2> QED BY <2>1, <2>2
<1>2. \E n \in 0..Len(t) : P(n)
  <2>1. CASE F = {}
    <3>1. P(Len(t))
      <4> HIDE DEF cut
      <4> QED BY <1>1, <2>1
    <3> QED BY SMTT(20), <1>1, <3>1
  <2>2. CASE F # {}
    <3>1. F \in SUBSET Nat
      OBVIOUS
    <3>2. PICK i \in F : \A j \in F : i <= j
      BY Zenon, <2>2, <3>1, LeastNatural
    <3>3. i \in 1..Len(t) /\ i - 1 \in 0..Len(t) /\ (i - 1) + 1 = i
      BY <1>1
    <3>4. P(i - 1)
      <4>1. t[i] >= cut
        BY <3>2
      <4>2. ASSUME NEW j \in 1..(i - 1) PROVE t[j] < cut
        <5>1. j \in 1..Len(t) /\ ~(i <= j)
          BY <1>1, <3>3
        <5>2. j \notin F
          BY <3>2, <5>1
        <5> HIDE DEF cut
        <5> QED BY <1>1, <5>1, <5>2
      <4> QED BY <3>3, <4>1, <4>2
    <3> QED BY Zenon, <3>3, <3>4
  <2> QED BY <2>1, <2>2
<1> DEFINE p == Sec!Popped(t, life)
<1>3. p = CHOOSE n \in 0..Len(t) : P(n)
  BY DEF Sec!Popped
<1>4. p \in 0..Len(t) /\ P(p)
  <2> HIDE DEF P, p
  <2> QED BY <1>2, <1>3
<1>5. p \in 0..Len(t) /\ (\A i \in 1..p : t[i] < cut) /\ (p < Len(t) => t[p + 1] >= cut)
  BY <1>4
<1> HIDE DEF p, cut, P
<1>6. \A i \in 1..p : t[i] + life < now
  <2>1. \A i \in 1..p : i \in 1..Len(t)
    BY <1>1, <1>5
  <2> QED BY <1>1, <1>5, <2>1
<1>7. ASSUME p < Len(t) PROVE ~(t[p + 1] + life < now)
  <2>1. p + 1 \in 1..Len(t)
    BY <1>1, <1>5, <1>7
  <2> QED BY <1>1, <1>5, <1>7, <2>1
<1> QED BY <1>5, <1>6, <1>7 DEF p

\* What a look leaves of a window are its latest events, all that count; only
\* those, if the window is in order.
LEMMA RecentIs ==
    ASSUME NEW t \in Seq(Nat), NEW life \in Nat, now \in Nat
    PROVE  /\ Sec!Recent(t, life) \in Seq(Nat) /\ Len(Sec!Recent(t, life)) <= Len(t)
           /\ \A n \in 1..Len(Sec!Recent(t, life)) : Latest(Sec!Recent(t, life), n) = Latest(t, n)
           /\ \A n \in 1..Len(t) : n > Len(Sec!Recent(t, life)) => Latest(t, n) + life < now
           /\ Aged(t, now) => \A n \in 1..Len(Sec!Recent(t, life)) : ~(Latest(t, n) + life < now)
<1> DEFINE p == Sec!Popped(t, life)
           r == Sec!Recent(t, life)
           l == Len(t)
<1>1. /\ p \in 0..l /\ \A i \in 1..p : t[i] + life < now
      /\ p < l => ~(t[p + 1] + life < now)
  BY Zenon, PoppedIs
<1>2. r = SubSeq(t, p + 1, l)
  BY DEF Sec!Recent
<1>3. l \in Nat /\ \A i \in 1..l : t[i] \in Nat
  OBVIOUS
<1> HIDE DEF p, r
<1>4. r \in Seq(Nat) /\ Len(r) = l - p /\ \A i \in 1..(l - p) : r[i] = t[p + i]
  <2>1. p + 1 \in 1..(l + 1)
    BY <1>1, <1>3
  <2>2. \A i \in (p + 1)..l : t[i] \in Nat
    BY <1>1, <1>3
  <2>3. r \in Seq(Nat)
    BY <1>2, <1>3, <2>1, <2>2
  <2>4. Len(r) = l - p
    BY <1>1, <1>2, <1>3
  <2>5. ASSUME NEW i \in 1..(l - p) PROVE r[i] = t[p + i]
    BY <1>1, <1>2, <1>3
  <2> QED BY <2>3, <2>4, <2>5
<1> HIDE DEF l
<1>5. ASSUME NEW n \in 1..(l - p) PROVE Latest(r, n) = Latest(t, n)
  <2>1. l - p + 1 - n \in 1..(l - p) /\ p + (l - p + 1 - n) = l + 1 - n
    BY <1>1, <1>3
  <2>2. Latest(r, n) = r[l - p + 1 - n] /\ Latest(t, n) = t[l + 1 - n]
    BY <1>4 DEF Latest, l
  <2> QED BY <1>4, <2>1, <2>2
<1>6. ASSUME NEW n \in 1..l, n > l - p PROVE Latest(t, n) + life < now
  <2>1. l + 1 - n \in 1..p
    BY <1>1, <1>3, <1>6
  <2> QED BY <1>1, <2>1 DEF Latest, l
<1>7. ASSUME Aged(t, now), NEW n \in 1..(l - p) PROVE ~(Latest(t, n) + life < now)
  <2>1. p < l /\ l - p \in 1..l /\ n \in 1..(l - p) /\ l + 1 - (l - p) = p + 1 /\ n \in 1..l
    BY <1>1, <1>3
  <2>2. Latest(t, l - p) = t[p + 1]
    BY <2>1 DEF Latest, l
  <2>3. ~(Latest(t, l - p) + life < now)
    BY <1>1, <2>1, <2>2
  <2>4. Latest(t, l - p) <= Latest(t, n)
    BY <1>7, <2>1 DEF Aged, l
  <2>5. Latest(t, l - p) \in Nat /\ Latest(t, n) \in Nat
    BY <2>1, LatestNat DEF l
  <2> QED BY <2>3, <2>4, <2>5
<1>8. Len(r) <= l /\ l - p \in Nat
  BY <1>1, <1>3, <1>4
<1> QED BY <1>4, <1>5, <1>6, <1>7, <1>8 DEF l, r

\* The keys of the screens and those of what is done about a trip.
Announce == <<"announce", "">>
Cascade == <<"cascade", "">>
Notice(k) == k = Announce \/ k = Cascade

\* Windows are of numbers, whatever has none has an empty one.
Windowed(w) == w = [k \in DOMAIN w |-> w[k]] /\ \A k \in DOMAIN w : w[k] \in Seq(Nat)

\* The window of a key holds its last events, all that count.
Shows(w, s) ==
    /\ Len(w) <= Len(s)
    /\ \A n \in 1..Len(w) : Latest(w, n) = Latest(s, n)
    /\ \A n \in 1..Len(s) : n > Len(w) => Latest(s, n) + Life < now

WindowsShow ==
    /\ Windowed(windows) /\ Windowed(seen)
    /\ \A k \in DOMAIN windows : Aged(windows[k], now)
    /\ \A k \in DOMAIN seen : ~Notice(k) /\ Aged(seen[k], now)
    /\ \A k \in DOMAIN windows \union DOMAIN seen : ~Notice(k) =>
          Shows(Sec!Window(windows, k), Sec!Window(seen, k))

\* The n-th last line is not later than the n-th last announcement.
Feeds(l, w) ==
    \A n \in 1..Len(l) : ~(Latest(l, n) + AnnounceLife < now) => n <= Len(w) /\ Latest(l, n) <= Latest(w, n)

FeedKept ==
    /\ lines \in Seq(Nat) /\ \A n \in 1..Len(lines) : Latest(lines, n) <= now
    /\ Feeds(lines, Sec!Window(windows, Announce))
    /\ \A i \in 1..Len(lines) : \A j \in 1..i :
          lines[j] + AnnounceLife >= lines[i] => i - j <= AnnouncePermit

LEMMA NoticesAre == Sec!Keys(Sec!Notices) = {Announce, Cascade} /\ Sec!Announcement = Announce
<1>1. Sec!Notices = <<Announce, Cascade>> /\ Sec!Announcement = Announce
  BY DEF Sec!Notices, Sec!Announcement, Announce, Cascade
<1>2. DOMAIN Sec!Notices = {1, 2} /\ Sec!Notices[1] = Announce /\ Sec!Notices[2] = Cascade
  BY <1>1
<1> QED BY <1>1, <1>2 DEF Sec!Keys

LEMMA WindowIs ==
    ASSUME NEW w, Windowed(w), NEW k
    PROVE  /\ Sec!Window(w, k) \in Seq(Nat)
           /\ k \in DOMAIN w => Sec!Window(w, k) = w[k]
           /\ k \notin DOMAIN w => Sec!Window(w, k) = <<>>
BY DEF Sec!Window, Windowed

LEMMA EmptyAged == ASSUME NEW at PROVE Aged(<<>>, at) /\ Len(<<>>) = 0
BY DEF Aged

LEMMA EmptyShows == Shows(<<>>, <<>>)
BY DEF Shows

LEMMA HitLives == ASSUME NEW k PROVE Sec!LifeOf(k) \in Nat /\ (~Notice(k) => Sec!LifeOf(k) = Life) /\ Sec!LifeOf(Announce) = AnnounceLife
<1>1. Life \in Nat /\ AnnounceLife \in Nat
  BY Secured DEF SecurityIs
<1> QED BY <1>1, NoticesAre DEF Sec!LifeOf, Notice

\* A key that is hit has its event at the end; one that is not keeps its window,
\* but for one with nothing of the last hour, which may go.
LEMMA HitIs ==
    ASSUME NEW w, Windowed(w), NEW n, NEW ks, NEW k, now \in Nat
    PROVE  /\ Windowed(Sec!HitAll(w, n, ks).w)
           /\ DOMAIN Sec!HitAll(w, n, ks).w \subseteq DOMAIN w \union Sec!Keys(ks)
           /\ k \in Sec!Keys(ks) =>
                /\ k \in DOMAIN Sec!HitAll(w, n, ks).w
                /\ Sec!HitAll(w, n, ks).w[k] = Append(Sec!Recent(Sec!Window(w, k), Sec!LifeOf(k)), now)
           /\ k \notin Sec!Keys(ks) =>
                \/ Sec!Window(Sec!HitAll(w, n, ks).w, k) = Sec!Window(w, k)
                \/ /\ Sec!Window(Sec!HitAll(w, n, ks).w, k) = <<>>
                   /\ Sec!Window(w, k) # <<>> => Latest(Sec!Window(w, k), 1) + Hour < now
<1> DEFINE K == Sec!Keys(ks)
           h == Sec!Hit(w, ks)
           v == Sec!HitAll(w, n, ks).w
           new(x) == Append(Sec!Recent(Sec!Window(w, x), Sec!LifeOf(x)), now)
           keep(x) == h[x] # <<>> /\ h[x][Len(h[x])] >= Sec!Minus(now, Hour)
<1>1. h = [x \in DOMAIN w \union K |-> IF x \in K THEN new(x) ELSE w[x]]
  BY DEF Sec!Hit
<1>2. v = h \/ v = [x \in {j \in DOMAIN h : keep(j)} |-> h[x]]
  BY DEF Sec!HitAll, Sec!Collected
<1>3. ASSUME NEW x PROVE new(x) \in Seq(Nat) /\ new(x) # <<>> /\ new(x)[Len(new(x))] = now
  <2>1. Sec!Window(w, x) \in Seq(Nat) /\ Sec!LifeOf(x) \in Nat
    BY WindowIs, HitLives
  <2>2. Sec!Recent(Sec!Window(w, x), Sec!LifeOf(x)) \in Seq(Nat)
    BY <2>1, RecentIs
  <2> QED BY <2>2
<1> HIDE DEF new, K, h
<1>4. DOMAIN h = DOMAIN w \union K /\ \A x \in DOMAIN h : h[x] \in Seq(Nat) /\ h[x] = IF x \in K THEN new(x) ELSE w[x]
  BY <1>1, <1>3 DEF Windowed
<1> HIDE DEF v, keep
<1>5. Windowed(v) /\ DOMAIN v \subseteq DOMAIN w \union K
  <2>1. CASE v = h
    BY Zenon, <1>1, <1>4, <2>1 DEF Windowed
  <2>2. CASE v = [x \in {j \in DOMAIN h : keep(j)} |-> h[x]]
    BY <1>4, <2>2 DEF Windowed
  <2> QED BY <1>2, <2>1, <2>2
<1>6. Hour \in Nat /\ \A x \in Nat : x < Sec!Minus(now, Hour) <=> x + Hour < now
  BY Zenon, Secured, MinusIs DEF SecurityIs
<1>7. Sec!Minus(now, Hour) \in Nat /\ now >= Sec!Minus(now, Hour)
  BY <1>6 DEF Sec!Minus
<1>8. ASSUME k \in K PROVE k \in DOMAIN v /\ v[k] = new(k)
  <2>1. k \in DOMAIN h /\ h[k] = new(k)
    BY <1>4, <1>8
  <2>2. keep(k)
    BY <1>3, <1>7, <2>1 DEF keep
  <2> QED BY <1>2, <2>1, <2>2
<1>9. ASSUME k \notin K
      PROVE  \/ Sec!Window(v, k) = Sec!Window(w, k)
             \/ /\ Sec!Window(v, k) = <<>>
                /\ Sec!Window(w, k) # <<>> => Latest(Sec!Window(w, k), 1) + Hour < now
  <2>1. CASE k \notin DOMAIN w
    <3>1. k \notin DOMAIN v
      BY <1>5, <1>9, <2>1
    <3> QED BY <2>1, <3>1 DEF Sec!Window
  <2>2. CASE k \in DOMAIN w /\ k \in DOMAIN v
    <3>1. v[k] = h[k] /\ h[k] = w[k]
      BY <1>2, <1>4, <1>9, <2>2
    <3> QED BY <2>2, <3>1 DEF Sec!Window
  <2>3. CASE k \in DOMAIN w /\ k \notin DOMAIN v
    <3>1. k \in DOMAIN h /\ h[k] = w[k] /\ ~keep(k)
      BY <1>2, <1>4, <1>9, <2>3
    <3>2. Sec!Window(v, k) = <<>> /\ Sec!Window(w, k) = w[k] /\ w[k] \in Seq(Nat)
      BY <2>3 DEF Sec!Window, Windowed
    <3>3. ASSUME w[k] # <<>> PROVE Latest(w[k], 1) + Hour < now
      <4>1. ~(w[k][Len(w[k])] >= Sec!Minus(now, Hour))
        BY <3>1, <3>3 DEF keep
      <4>2. Len(w[k]) \in 1..Len(w[k]) /\ w[k][Len(w[k])] \in Nat /\ Len(w[k]) + 1 - 1 = Len(w[k])
        BY <3>2, <3>3
      <4>3. w[k][Len(w[k])] < Sec!Minus(now, Hour)
        BY <1>7, <4>1, <4>2
      <4> QED BY <1>6, <4>2, <4>3 DEF Latest
    <3> QED BY <3>2, <3>3
  <2> QED BY <2>1, <2>2, <2>3
<1> QED BY <1>5, <1>8, <1>9 DEF v, K, new

\* An event that is seen and hit.
LEMMA ShowsHit ==
    ASSUME NEW w \in Seq(Nat), NEW s \in Seq(Nat), Shows(w, s), now \in Nat, Life \in Nat
    PROVE  Shows(Append(Sec!Recent(w, Life), now), Append(s, now))
<1> DEFINE r == Sec!Recent(w, Life)
           rn == Append(r, now)
           sn == Append(s, now)
<1>1. /\ r \in Seq(Nat) /\ Len(r) <= Len(w) /\ \A n \in 1..Len(r) : Latest(r, n) = Latest(w, n)
      /\ \A n \in 1..Len(w) : n > Len(r) => Latest(w, n) + Life < now
  BY RecentIs
<1> HIDE DEF r
<1>2. /\ Len(rn) = Len(r) + 1 /\ Latest(rn, 1) = now /\ \A n \in 1..Len(r) : Latest(rn, n + 1) = Latest(r, n)
      /\ Len(sn) = Len(s) + 1 /\ Latest(sn, 1) = now /\ \A n \in 1..Len(s) : Latest(sn, n + 1) = Latest(s, n)
  BY <1>1, LatestAppend
<1>3. /\ Len(w) <= Len(s) /\ \A n \in 1..Len(w) : Latest(w, n) = Latest(s, n)
      /\ \A n \in 1..Len(s) : n > Len(w) => Latest(s, n) + Life < now
  BY DEF Shows
<1>4. Len(r) \in Nat /\ Len(s) \in Nat /\ Len(w) \in Nat
  BY <1>1
<1> HIDE DEF rn, sn
<1>5. ASSUME NEW n \in 1..Len(rn) PROVE Latest(rn, n) = Latest(sn, n)
  <2>1. CASE n = 1
    BY <1>2, <2>1
  <2>2. CASE n # 1
    <3>1. n - 1 \in 1..Len(r) /\ n - 1 \in 1..Len(w) /\ n - 1 \in 1..Len(s) /\ n = (n - 1) + 1
      BY SMTT(20), <1>1, <1>2, <1>3, <1>4, <2>2
    <3>2. Latest(rn, n) = Latest(r, n - 1) /\ Latest(sn, n) = Latest(s, n - 1)
      BY <1>2, <3>1
    <3> QED BY Zenon, <1>1, <1>3, <3>1, <3>2
  <2> QED BY <2>1, <2>2
<1>6. ASSUME NEW n \in 1..Len(sn), n > Len(rn) PROVE Latest(sn, n) + Life < now
  <2>1. n - 1 \in 1..Len(s) /\ n - 1 > Len(r) /\ n = (n - 1) + 1
    BY <1>2, <1>4, <1>6
  <2>2. Latest(sn, n) = Latest(s, n - 1)
    BY <1>2, <2>1
  <2>3. CASE n - 1 \in 1..Len(w)
    BY Zenon, <1>1, <1>3, <2>1, <2>2, <2>3
  <2>4. CASE n - 1 \notin 1..Len(w)
    <3>1. n - 1 > Len(w)
      BY <1>4, <2>1, <2>4
    <3> QED BY <1>3, <2>1, <2>2, <3>1
  <2> QED BY <2>3, <2>4
<1>7. Len(rn) <= Len(sn)
  BY <1>1, <1>2, <1>3, <1>4
<1>8. Shows(rn, sn)
  BY <1>5, <1>6, <1>7 DEF Shows
<1> QED BY <1>8 DEF rn, sn, r

\* A window that goes with the collection.
LEMMA ShowsGone ==
    ASSUME NEW w \in Seq(Nat), NEW s \in Seq(Nat), Shows(w, s), Aged(s, now), now \in Nat,
           w # <<>> => Latest(w, 1) + Hour < now
    PROVE  Shows(<<>>, s)
<1>0. Life \in Nat /\ Hour \in Nat /\ Life <= Hour
  BY Secured DEF SecurityIs
<1>1. ASSUME NEW n \in 1..Len(s) PROVE Latest(s, n) + Life < now
  <2>1. CASE n > Len(w)
    BY <2>1 DEF Shows
  <2>2. CASE ~(n > Len(w))
    <3>1. 1 \in 1..Len(w) /\ 1 \in 1..n /\ w # <<>>
      BY <2>2
    <3>2. Latest(w, 1) = Latest(s, 1) /\ Latest(s, n) <= Latest(s, 1)
      BY <3>1 DEF Shows, Aged
    <3>3. Latest(s, n) \in Nat /\ Latest(s, 1) \in Nat
      BY <3>1, LatestNat
    <3> QED BY <1>0, <3>1, <3>2, <3>3
  <2> QED BY <2>1, <2>2
<1> QED BY <1>1 DEF Shows

\* An announcement more, with a line or without.
LEMMA FeedsHit ==
    ASSUME NEW w \in Seq(Nat), NEW l \in Seq(Nat), now \in Nat, AnnounceLife \in Nat, Aged(w, now),
           \A n \in 1..Len(l) : Latest(l, n) <= now, Feeds(l, w)
    PROVE  /\ Feeds(l, Append(Sec!Recent(w, AnnounceLife), now))
           /\ Feeds(Append(l, now), Append(Sec!Recent(w, AnnounceLife), now))
<1> DEFINE r == Sec!Recent(w, AnnounceLife)
           rn == Append(r, now)
           ln == Append(l, now)
<1>1. /\ r \in Seq(Nat) /\ Len(r) <= Len(w) /\ \A n \in 1..Len(r) : Latest(r, n) = Latest(w, n)
      /\ \A n \in 1..Len(w) : n > Len(r) => Latest(w, n) + AnnounceLife < now
  BY RecentIs
<1> HIDE DEF r
<1>2. /\ Len(rn) = Len(r) + 1 /\ Latest(rn, 1) = now /\ \A n \in 1..Len(r) : Latest(rn, n + 1) = Latest(r, n)
      /\ Len(ln) = Len(l) + 1 /\ Latest(ln, 1) = now /\ \A n \in 1..Len(l) : Latest(ln, n + 1) = Latest(l, n)
  BY <1>1, LatestAppend
<1>3. Len(r) \in Nat /\ Len(w) \in Nat /\ Len(l) \in Nat
  BY <1>1
<1> HIDE DEF rn, ln
\* What is not older than a line that counts is not popped.
<1>4. ASSUME NEW n \in 1..Len(w), NEW t \in Nat, ~(t + AnnounceLife < now), t <= Latest(w, n)
      PROVE  n \in 1..Len(r) /\ Latest(rn, n + 1) = Latest(w, n)
  <2>1. Latest(w, n) \in Nat
    BY LatestNat
  <2>2. ~(n > Len(r))
    BY <1>1, <1>4, <2>1
  <2>3. n \in 1..Len(r)
    BY <1>3, <2>2
  <2> QED BY <1>1, <1>2, <2>3
<1>5. ASSUME NEW n \in 1..Len(l), ~(Latest(l, n) + AnnounceLife < now)
      PROVE  n <= Len(rn) /\ Latest(l, n) <= Latest(rn, n)
  <2>1. CASE n = 1
    BY <1>2, <1>3, <2>1
  <2>2. CASE n # 1
    <3>1. n <= Len(w) /\ Latest(l, n) <= Latest(w, n) /\ Latest(l, n) \in Nat
      BY <1>5, LatestNat DEF Feeds
    <3>2. n \in 1..Len(w) /\ n - 1 \in 1..Len(w) /\ n - 1 \in 1..n /\ (n - 1) + 1 = n
      BY <1>3, <2>2, <3>1
    <3>3. Latest(w, n) <= Latest(w, n - 1) /\ Latest(w, n) \in Nat /\ Latest(w, n - 1) \in Nat
      BY Zenon, <3>2, LatestNat DEF Aged
    <3>4. Latest(l, n) <= Latest(w, n - 1)
      BY <3>1, <3>3
    <3>5. n - 1 \in 1..Len(r) /\ Latest(rn, (n - 1) + 1) = Latest(w, n - 1)
      BY Zenon, <1>4, <1>5, <3>1, <3>2, <3>4
    <3> QED BY <1>2, <1>3, <3>2, <3>4, <3>5
  <2> QED BY <2>1, <2>2
<1>6. ASSUME NEW n \in 1..Len(ln), ~(Latest(ln, n) + AnnounceLife < now)
      PROVE  n <= Len(rn) /\ Latest(ln, n) <= Latest(rn, n)
  <2>1. CASE n = 1
    BY <1>2, <1>3, <2>1
  <2>2. CASE n # 1
    <3>1. n - 1 \in 1..Len(l) /\ (n - 1) + 1 = n
      BY <1>2, <1>3, <2>2
    <3>2. Latest(ln, n) = Latest(l, n - 1) /\ Latest(l, n - 1) \in Nat
      BY <1>2, <3>1, LatestNat
    <3>3. n - 1 <= Len(w) /\ Latest(l, n - 1) <= Latest(w, n - 1)
      BY Zenon, <1>6, <3>1, <3>2 DEF Feeds
    <3>4. n - 1 \in 1..Len(w)
      BY <1>3, <3>1, <3>3
    <3>5. n - 1 \in 1..Len(r) /\ Latest(rn, (n - 1) + 1) = Latest(w, n - 1)
      BY Zenon, <1>4, <1>6, <3>2, <3>3, <3>4
    <3> QED BY <1>2, <1>3, <3>1, <3>2, <3>3, <3>5
  <2> QED BY <2>1, <2>2
<1>7. Feeds(l, rn) /\ Feeds(ln, rn)
  BY <1>5, <1>6 DEF Feeds
<1> QED BY <1>7 DEF rn, ln, r

\* Announcements that go with the collection have no line that counts.
LEMMA FeedsGone ==
    ASSUME NEW w \in Seq(Nat), NEW l \in Seq(Nat), now \in Nat, Aged(w, now), Feeds(l, w),
           w # <<>> => Latest(w, 1) + Hour < now
    PROVE  Feeds(l, <<>>)
<1>0. AnnounceLife \in Nat /\ Hour \in Nat /\ AnnounceLife <= Hour
  BY Secured DEF SecurityIs
<1> SUFFICES ASSUME NEW n \in 1..Len(l), ~(Latest(l, n) + AnnounceLife < now) PROVE FALSE
  BY DEF Feeds
<1>1. n <= Len(w) /\ Latest(l, n) <= Latest(w, n) /\ Latest(l, n) \in Nat
  BY LatestNat DEF Feeds
<1>2. n \in 1..Len(w) /\ 1 \in 1..n /\ 1 \in 1..Len(w) /\ w # <<>>
  BY <1>1
<1>3. Latest(w, n) <= Latest(w, 1) /\ Latest(w, n) \in Nat /\ Latest(w, 1) \in Nat
  BY <1>2, LatestNat DEF Aged
<1> QED BY <1>0, <1>1, <1>2, <1>3

\* The staff feed after an announcement with a line.
LEMMA LineBound ==
    ASSUME NEW w \in Seq(Nat), NEW l \in Seq(Nat), now \in Nat, AnnounceLife \in Nat, AnnouncePermit \in Nat,
           Feeds(Append(l, now), w), Len(w) <= AnnouncePermit + 1,
           \A i \in 1..Len(l) : \A j \in 1..i : l[j] + AnnounceLife >= l[i] => i - j <= AnnouncePermit
    PROVE  \A i \in 1..Len(Append(l, now)) : \A j \in 1..i :
              Append(l, now)[j] + AnnounceLife >= Append(l, now)[i] => i - j <= AnnouncePermit
<1> DEFINE ln == Append(l, now)
           m == Len(l)
<1>1. Len(ln) = m + 1 /\ m \in Nat /\ ln[m + 1] = now /\ (\A i \in 1..m : ln[i] = l[i]) /\ ln \in Seq(Nat)
  OBVIOUS
<1>2. Feeds(ln, w)
  OBVIOUS
<1> HIDE DEF ln, m
<1>3. ASSUME NEW i \in 1..(m + 1), NEW j \in 1..i, ln[j] + AnnounceLife >= ln[i]
      PROVE  i - j <= AnnouncePermit
  <2>1. CASE i \in 1..m
    <3>1. j \in 1..m
      BY <1>1, <2>1
    <3>2. l[j] + AnnounceLife >= l[i]
      BY <1>1, <1>3, <2>1, <3>1
    <3> QED BY <2>1, <3>2 DEF m
  <2>2. CASE i \notin 1..m
    <3> DEFINE n == i - j + 1
    <3>0. i = m + 1
      BY <1>1, <2>2
    <3>1. i = m + 1 /\ n \in 1..(m + 1) /\ Len(ln) + 1 - n = j /\ j \in 1..(m + 1)
      BY <1>1, <3>0
    <3>2. Latest(ln, n) = ln[j] /\ Latest(ln, n) \in Nat
      BY <1>1, <3>1, LatestNat DEF Latest
    <3>3. ~(Latest(ln, n) + AnnounceLife < now)
      BY <1>1, <1>3, <3>1, <3>2
    <3> HIDE DEF n
    <3>4. n <= Len(w)
      BY <1>1, <1>2, <3>1, <3>3 DEF Feeds
    <3>5. Len(w) \in Nat
      OBVIOUS
    <3> QED BY <3>1, <3>4, <3>5 DEF n
  <2> QED BY <2>1, <2>2
<1> QED BY Zenon, <1>1, <1>3 DEF ln

-----------------------------------------------------------------------------
(* A step of the screens.                                                  *)

\* What is seen of an event.
LEMMA RecordIs ==
    ASSUME NEW ks, Sec!Record(ks) \/ (Sec!Keys(ks) = {} /\ seen' = seen), Windowed(seen), now \in Nat
    PROVE  /\ Windowed(seen') /\ DOMAIN seen' = DOMAIN seen \union Sec!Keys(ks)
           /\ \A k : k \in Sec!Keys(ks) => seen'[k] = Append(Sec!Window(seen, k), now)
           /\ \A k : k \notin Sec!Keys(ks) => Sec!Window(seen', k) = Sec!Window(seen, k)
<1> DEFINE K == Sec!Keys(ks)
           s == seen'
<1>1. CASE K = {} /\ s = seen
  BY <1>1
<1>2. CASE s = [k \in DOMAIN seen \union K |-> IF k \in K THEN Append(Sec!Window(seen, k), now) ELSE seen[k]]
  <2> HIDE DEF K, s
  <2>1. \A k : Append(Sec!Window(seen, k), now) \in Seq(Nat)
    <3> SUFFICES ASSUME NEW k PROVE Append(Sec!Window(seen, k), now) \in Seq(Nat)
      OBVIOUS
    <3>1. Sec!Window(seen, k) \in Seq(Nat)
      BY WindowIs
    <3> QED BY <3>1
  <2>2. DOMAIN s = DOMAIN seen \union K /\ \A k \in DOMAIN s : s[k] = IF k \in K THEN Append(Sec!Window(seen, k), now) ELSE seen[k]
    BY <1>2
  <2>3. Windowed(s)
    BY <1>2, <2>1, <2>2 DEF Windowed
  <2>4. \A k : k \notin K => Sec!Window(s, k) = Sec!Window(seen, k)
    BY <2>2 DEF Sec!Window
  <2>5. \A k : k \in K => s[k] = Append(Sec!Window(seen, k), now)
    BY Zenon, <2>2
  <2> QED BY <2>2, <2>3, <2>4, <2>5 DEF K, s
<1> QED BY <1>1, <1>2 DEF Sec!Record

\* An event hits its keys and, if it is acted on, those of the notices.
Hitting(ks, all) ==
    /\ windows' = Sec!HitAll(windows, hits, all).w /\ now' = now
    /\ \A k \in Sec!Keys(ks) : ~Notice(k)
    /\ Sec!Keys(ks) \subseteq Sec!Keys(all) /\ Sec!Keys(all) \subseteq Sec!Keys(ks) \union {Announce, Cascade}
    /\ Sec!Record(ks) \/ (Sec!Keys(ks) = {} /\ seen' = seen)

LEMMA HittingShows ==
    ASSUME WindowsShow, now \in Nat, NEW ks, NEW all, Hitting(ks, all)
    PROVE  WindowsShow'
<1> DEFINE K == Sec!Keys(ks)
           A == Sec!Keys(all)
           wn == windows'
           sn == seen'
           W(k) == Sec!Window(windows, k)
           S(k) == Sec!Window(seen, k)
<1>0. Life \in Nat /\ Windowed(windows) /\ Windowed(seen)
  BY Secured DEF SecurityIs, WindowsShow
<1>1. /\ Windowed(wn) /\ DOMAIN wn \subseteq DOMAIN windows \union A
      /\ \A k : k \in A => k \in DOMAIN wn /\ wn[k] = Append(Sec!Recent(W(k), Sec!LifeOf(k)), now)
      /\ \A k : k \notin A => \/ Sec!Window(wn, k) = W(k)
                              \/ /\ Sec!Window(wn, k) = <<>>
                                 /\ W(k) # <<>> => Latest(W(k), 1) + Hour < now
  <2>1. wn = Sec!HitAll(windows, hits, all).w
    BY DEF Hitting
  <2>2. ASSUME NEW k
        PROVE  /\ Windowed(wn) /\ DOMAIN wn \subseteq DOMAIN windows \union A
               /\ k \in A => k \in DOMAIN wn /\ wn[k] = Append(Sec!Recent(W(k), Sec!LifeOf(k)), now)
               /\ k \notin A => \/ Sec!Window(wn, k) = W(k)
                               \/ /\ Sec!Window(wn, k) = <<>>
                                  /\ W(k) # <<>> => Latest(W(k), 1) + Hour < now
    <3> HIDE DEF wn
    <3> QED BY <1>0, <2>1, HitIs
  <2> HIDE DEF wn, A, W
  <2> QED BY <2>2
<1>2. /\ Windowed(sn) /\ DOMAIN sn = DOMAIN seen \union K
      /\ \A k : k \in K => sn[k] = Append(S(k), now)
      /\ \A k : k \notin K => Sec!Window(sn, k) = S(k)
  BY Zenon, <1>0, RecordIs DEF Hitting
<1>3. (\A k \in K : ~Notice(k)) /\ K \subseteq A /\ A \subseteq K \union {Announce, Cascade} /\ now' = now
  BY DEF Hitting
<1>4. ASSUME NEW k PROVE W(k) \in Seq(Nat) /\ S(k) \in Seq(Nat) /\ Aged(W(k), now) /\ Aged(S(k), now)
                         /\ (~Notice(k) => Shows(W(k), S(k)))
  <2>1. W(k) \in Seq(Nat) /\ S(k) \in Seq(Nat)
    BY <1>0, WindowIs
  <2>2. (k \in DOMAIN windows => W(k) = windows[k]) /\ (k \notin DOMAIN windows => W(k) = <<>>)
        /\ (k \in DOMAIN seen => S(k) = seen[k]) /\ (k \notin DOMAIN seen => S(k) = <<>>)
    BY <1>0, WindowIs
  <2> HIDE DEF W, S
  <2>3. Aged(W(k), now) /\ Aged(S(k), now)
    BY <2>2, EmptyAged DEF WindowsShow
  <2>4. ASSUME ~Notice(k) PROVE Shows(W(k), S(k))
    <3>1. CASE k \in DOMAIN windows \union DOMAIN seen
      BY <2>4, <3>1 DEF WindowsShow, W, S
    <3>2. CASE k \notin DOMAIN windows \union DOMAIN seen
      BY <2>2, <3>2, EmptyShows
    <3> QED BY <3>1, <3>2
  <2> QED BY <2>1, <2>3, <2>4
<1> HIDE DEF K, A, W, S, wn, sn
<1>5. ASSUME NEW k PROVE /\ Sec!Window(wn, k) = wn[k] \/ k \notin DOMAIN wn
                         /\ Sec!Window(sn, k) = sn[k] \/ k \notin DOMAIN sn
  BY <1>1, <1>2, WindowIs
<1>6. ASSUME NEW k PROVE Aged(Sec!Window(wn, k), now)
  <2>1. CASE k \in A
    <3>1. Sec!Window(wn, k) = Append(Sec!Recent(W(k), Sec!LifeOf(k)), now) /\ Sec!LifeOf(k) \in Nat
      BY <1>1, <1>5, <2>1, HitLives
    <3>2. Sec!Recent(W(k), Sec!LifeOf(k)) \in Seq(Nat)
      BY <1>4, <3>1, RecentIs
    <3>3. Aged(Sec!Recent(W(k), Sec!LifeOf(k)), now)
      <4> DEFINE r == Sec!Recent(W(k), Sec!LifeOf(k))
      <4>1. Len(r) <= Len(W(k)) /\ \A n \in 1..Len(r) : Latest(r, n) = Latest(W(k), n)
        BY <1>4, <3>1, RecentIs
      <4>2. Len(r) \in Nat /\ Len(W(k)) \in Nat
        BY <1>4, <3>2
      <4> HIDE DEF r
      <4>3. \A n \in 1..Len(r) : n \in 1..Len(W(k)) /\ \A m \in 1..n : m \in 1..Len(r)
        BY <4>1, <4>2
      <4>4. Aged(r, now)
        BY <1>4, <4>1, <4>3 DEF Aged
      <4> QED BY <4>4 DEF r
    <3> QED BY <3>1, <3>2, <3>3, AgedAppend
  <2>2. CASE k \notin A
    BY <1>1, <1>4, <2>2, EmptyAged
  <2> QED BY <2>1, <2>2
<1>7. ASSUME NEW k PROVE Aged(Sec!Window(sn, k), now) /\ Sec!Window(sn, k) \in Seq(Nat)
  <2>1. CASE k \in K
    <3>1. Sec!Window(sn, k) = Append(S(k), now)
      BY <1>2, <1>5, <2>1
    <3> QED BY <1>4, <3>1, AgedAppend
  <2>2. CASE k \notin K
    BY <1>2, <1>4, <2>2
  <2> QED BY <2>1, <2>2
<1>8. ASSUME NEW k, ~Notice(k) PROVE Shows(Sec!Window(wn, k), Sec!Window(sn, k))
  <2>1. CASE k \in K
    <3>1. k \in A /\ k \in DOMAIN sn /\ k \in DOMAIN wn
      BY <1>1, <1>2, <1>3, <2>1
    <3>2. Sec!Window(wn, k) = Append(Sec!Recent(W(k), Life), now)
      BY <1>1, <1>5, <1>8, <3>1, HitLives
    <3>3. Sec!Window(sn, k) = Append(S(k), now)
      BY <1>2, <1>5, <2>1, <3>1
    <3> QED BY <1>0, <1>4, <1>8, <3>2, <3>3, ShowsHit
  <2>2. CASE k \notin K
    <3>1. k \notin A
      BY <1>3, <1>8, <2>2 DEF Notice
    <3>2. Sec!Window(sn, k) = S(k)
      BY <1>2, <2>2
    <3>3. CASE Sec!Window(wn, k) = W(k)
      BY <1>4, <1>8, <3>2, <3>3
    <3>4. CASE Sec!Window(wn, k) = <<>> /\ (W(k) # <<>> => Latest(W(k), 1) + Hour < now)
      <4>1. Shows(<<>>, S(k))
        BY <1>4, <1>8, <3>4, ShowsGone
      <4> QED BY <3>2, <3>4, <4>1
    <3> QED BY <1>1, <3>1, <3>3, <3>4
  <2> QED BY <2>1, <2>2
<1>9. \A k \in DOMAIN sn : ~Notice(k)
  BY <1>2, <1>3 DEF WindowsShow
<1>10. /\ \A k \in DOMAIN wn : Aged(wn[k], now)
       /\ \A k \in DOMAIN sn : Aged(sn[k], now)
  BY <1>5, <1>6, <1>7
<1> QED BY <1>1, <1>2, <1>3, <1>8, <1>9, <1>10 DEF WindowsShow, Shows, wn, sn

\* What is written to the feed is announced first, and not too often.
Fed(all) ==
    \/ lines' = lines
    \/ /\ Announce \in Sec!Keys(all)
       /\ lines' = Append(lines, now)
       /\ Len(Sec!Window(windows', Announce)) <= AnnouncePermit + 1

LEMMA HittingFeeds ==
    ASSUME WindowsShow, FeedKept, now \in Nat, NEW ks, NEW all, Hitting(ks, all), Fed(all)
    PROVE  FeedKept'
<1> DEFINE A == Sec!Keys(all)
           wn == windows'
           ln == lines'
           w == Sec!Window(windows, Announce)
           v == Sec!Window(wn, Announce)
<1>0. AnnounceLife \in Nat /\ AnnouncePermit \in Nat /\ Windowed(windows)
  BY Secured DEF SecurityIs, WindowsShow
<1>1. w \in Seq(Nat) /\ Aged(w, now) /\ lines \in Seq(Nat) /\ Feeds(lines, w)
  <2>1. w \in Seq(Nat) /\ (w = <<>> \/ (Announce \in DOMAIN windows /\ w = windows[Announce]))
    BY <1>0, WindowIs
  <2>2. Aged(w, now)
    BY <2>1, EmptyAged DEF WindowsShow
  <2> QED BY <2>1, <2>2 DEF FeedKept
<1>2. wn = Sec!HitAll(windows, hits, all).w /\ now' = now
  BY DEF Hitting
<1> HIDE DEF wn
<1>3. /\ Windowed(wn)
      /\ Announce \in A => Announce \in DOMAIN wn /\ wn[Announce] = Append(Sec!Recent(w, Sec!LifeOf(Announce)), now)
      /\ Announce \notin A => \/ v = w
                              \/ v = <<>> /\ (w # <<>> => Latest(w, 1) + Hour < now)
  BY <1>0, <1>2, HitIs
<1> HIDE DEF A, w, ln
<1>4. Announce \in A => v = Append(Sec!Recent(w, AnnounceLife), now)
  BY <1>3, HitLives, WindowIs
<1> HIDE DEF v
<1>5. \A n \in 1..Len(lines) : Latest(lines, n) <= now
  BY DEF FeedKept
<1>6. /\ ln \in Seq(Nat) /\ \A n \in 1..Len(ln) : Latest(ln, n) <= now
      /\ ln = lines \/ (Announce \in A /\ ln = Append(lines, now) /\ Len(v) <= AnnouncePermit + 1)
  <2>1. ln = lines \/ (Announce \in A /\ ln = Append(lines, now) /\ Len(v) <= AnnouncePermit + 1)
    BY DEF Fed, A, v, ln, wn
  <2>2. CASE ln = lines
    BY <1>1, <1>5, <2>2
  <2>3. CASE ln = Append(lines, now)
    <3>1. /\ ln \in Seq(Nat) /\ Len(ln) = Len(lines) + 1 /\ Latest(ln, 1) = now
          /\ \A n \in 1..Len(lines) : Latest(ln, n + 1) = Latest(lines, n)
      BY <1>1, <2>3, LatestAppend
    <3>2. ASSUME NEW n \in 1..Len(ln) PROVE Latest(ln, n) <= now
      <4>1. CASE n = 1
        BY <3>1, <4>1
      <4>2. CASE n # 1
        <5>1. n - 1 \in 1..Len(lines) /\ n = (n - 1) + 1
          BY <1>1, <3>1, <4>2
        <5> QED BY Zenon, <1>5, <3>1, <5>1
      <4> QED BY <4>1, <4>2
    <3> QED BY <2>1, <3>1, <3>2
  <2> QED BY <2>1, <2>2, <2>3
<1>7. Feeds(ln, v)
  <2>1. CASE Announce \in A
    BY Zenon, <1>0, <1>1, <1>4, <1>5, <1>6, <2>1, FeedsHit
  <2>2. CASE Announce \notin A
    <3>1. ln = lines
      BY <1>6, <2>2
    <3>2. Feeds(lines, <<>>) \/ v = w
      BY <1>1, <1>3, <2>2, FeedsGone
    <3> QED BY <1>1, <1>3, <2>2, <3>1, <3>2
  <2> QED BY <2>1, <2>2
<1>8. \A i \in 1..Len(ln) : \A j \in 1..i : ln[j] + AnnounceLife >= ln[i] => i - j <= AnnouncePermit
  <2>1. \A i \in 1..Len(lines) : \A j \in 1..i : lines[j] + AnnounceLife >= lines[i] => i - j <= AnnouncePermit
    BY DEF FeedKept
  <2>2. CASE ln = lines
    BY <2>1, <2>2
  <2>3. CASE ln = Append(lines, now) /\ Len(v) <= AnnouncePermit + 1
    <3>1. v \in Seq(Nat)
      BY <1>3, WindowIs DEF v
    <3> QED BY Zenon, <1>0, <1>1, <1>7, <2>1, <2>3, <3>1, LineBound
  <2> QED BY Zenon, <1>6, <2>2, <2>3
<1> QED BY <1>2, <1>6, <1>7, <1>8 DEF FeedKept, Feeds, v, wn, ln

-----------------------------------------------------------------------------
(* A key's events that count.                                              *)

\* The screens trip at the event that completes a flood.
Tripped(k) == Sec!count(windows, k, Life) + 1 > Permit

JudgedKeys(ks) ==
    \A k \in Sec!Keys(ks) : k[1] # "jj" =>
        /\ Tripped(k) => acted' # {}
        /\ (\E u \in User : <<u, k>> \in acted') => Tripped(k)

\* The window that is left after a look has the events that count, and no others.
LEMMA CountIs ==
    ASSUME WindowsShow, now \in Nat, NEW k, ~Notice(k)
    PROVE  /\ Sec!count(windows, k, Life) \in Nat
           /\ Sec!count(windows, k, Life) <= Len(Sec!Window(seen, k))
           /\ \A n \in 1..Len(Sec!Window(seen, k)) :
                ~(Latest(Sec!Window(seen, k), n) + Life < now) <=> n <= Sec!count(windows, k, Life)
<1> DEFINE w == Sec!Window(windows, k)
           s == Sec!Window(seen, k)
           r == Sec!Recent(w, Life)
<1>0. Life \in Nat
  BY Secured DEF SecurityIs
<1>1. w \in Seq(Nat) /\ s \in Seq(Nat) /\ Aged(w, now) /\ Shows(w, s)
  <2>1. /\ w \in Seq(Nat) /\ (w = <<>> \/ (k \in DOMAIN windows /\ w = windows[k]))
        /\ s \in Seq(Nat) /\ (k \notin DOMAIN seen => s = <<>>) /\ (k \notin DOMAIN windows => w = <<>>)
    BY WindowIs DEF WindowsShow
  <2> HIDE DEF w, s
  <2>2. Aged(w, now)
    BY <2>1, EmptyAged DEF WindowsShow
  <2>3. Shows(w, s)
    <3>1. CASE k \in DOMAIN windows \union DOMAIN seen
      BY <3>1 DEF WindowsShow, w, s
    <3>2. CASE k \notin DOMAIN windows \union DOMAIN seen
      BY <2>1, <3>2, EmptyShows
    <3> QED BY <3>1, <3>2
  <2> QED BY <2>1, <2>2, <2>3
<1>2. Sec!count(windows, k, Life) = Len(r)
  BY DEF Sec!count
<1>3. /\ r \in Seq(Nat) /\ Len(r) <= Len(w)
      /\ \A n \in 1..Len(w) : n > Len(r) => Latest(w, n) + Life < now
      /\ \A n \in 1..Len(r) : ~(Latest(w, n) + Life < now)
  BY <1>0, <1>1, RecentIs
<1>4. Len(r) \in Nat /\ Len(w) \in Nat /\ Len(s) \in Nat
  BY <1>1, <1>3
<1> HIDE DEF w, s, r
<1>5. /\ Len(w) <= Len(s) /\ \A n \in 1..Len(w) : Latest(w, n) = Latest(s, n)
      /\ \A n \in 1..Len(s) : n > Len(w) => Latest(s, n) + Life < now
  BY <1>1 DEF Shows
<1>6. ASSUME NEW n \in 1..Len(s) PROVE ~(Latest(s, n) + Life < now) <=> n <= Len(r)
  <2>1. CASE n <= Len(r)
    <3>1. n \in 1..Len(r) /\ n \in 1..Len(w)
      BY <1>3, <1>4, <2>1
    <3> QED BY <1>3, <1>5, <2>1, <3>1
  <2>2. CASE ~(n <= Len(r)) /\ n <= Len(w)
    <3>1. n \in 1..Len(w) /\ n > Len(r)
      BY <1>4, <2>2
    <3> QED BY <1>3, <1>5, <2>2, <3>1
  <2>3. CASE ~(n <= Len(r)) /\ ~(n <= Len(w))
    <3>1. n > Len(w)
      BY <1>4, <2>3
    <3> QED BY <1>5, <2>3, <3>1
  <2> QED BY <2>1, <2>2, <2>3
<1>7. Len(r) <= Len(s)
  BY <1>3, <1>4, <1>5
<1> QED BY <1>2, <1>4, <1>6, <1>7 DEF s

\* With the event itself that is one more than the look counted.
LEMMA WithinIs ==
    ASSUME WindowsShow, now \in Nat, NEW k, ~Notice(k), NEW t, t = Append(Sec!Window(seen, k), now)
    PROVE  /\ IsFiniteSet({i \in DOMAIN t : t[i] + Life >= now})
           /\ Sec!Cardinality({i \in DOMAIN t : t[i] + Life >= now}) = Sec!count(windows, k, Life) + 1
<1> DEFINE s == Sec!Window(seen, k)
           c == Sec!count(windows, k, Life)
           In == {i \in DOMAIN t : t[i] + Life >= now}
<1>0. Life \in Nat /\ s \in Seq(Nat)
  BY Secured, WindowIs DEF SecurityIs, WindowsShow
<1>1. c \in Nat /\ c <= Len(s) /\ \A n \in 1..Len(s) : ~(Latest(s, n) + Life < now) <=> n <= c
  BY CountIs
<1> HIDE DEF s, c
<1>2. DOMAIN t = 1..(Len(s) + 1) /\ t[Len(s) + 1] = now /\ \A i \in 1..Len(s) : t[i] = s[i] /\ t[i] \in Nat
  BY <1>0 DEF s
<1>3. ASSUME NEW i \in 1..(Len(s) + 1)
      PROVE  t[i] + Life >= now <=> i \in (Len(s) + 1 - c)..(Len(s) + 1)
  <2>1. CASE i = Len(s) + 1
    BY <1>0, <1>1, <1>2, <2>1
  <2>2. CASE i # Len(s) + 1
    <3>1. i \in 1..Len(s) /\ Len(s) + 1 - i \in 1..Len(s) /\ Len(s) + 1 - (Len(s) + 1 - i) = i
      BY <1>0, <2>2
    <3>2. Latest(s, Len(s) + 1 - i) = t[i] /\ t[i] \in Nat
      BY <1>2, <3>1 DEF Latest
    <3>3. ~(t[i] + Life < now) <=> Len(s) + 1 - i <= c
      BY Zenon, <1>1, <3>1, <3>2
    <3>4. t[i] + Life >= now <=> ~(t[i] + Life < now)
      <4>1. \A x \in Nat : x + Life >= now <=> ~(x + Life < now)
        BY <1>0
      <4> QED BY Zenon, <3>2, <4>1
    <3>5. Len(s) \in Nat
      BY <1>0
    <3>6. i \in (Len(s) + 1 - c)..(Len(s) + 1) <=> Len(s) + 1 - i <= c
      BY <1>1, <3>1, <3>5
    <3> QED BY Zenon, <3>3, <3>4, <3>6
  <2> QED BY Zenon, <2>1, <2>2
<1>4. In = (Len(s) + 1 - c)..(Len(s) + 1)
  <2>1. (Len(s) + 1 - c)..(Len(s) + 1) \subseteq 1..(Len(s) + 1)
    BY <1>0, <1>1
  <2> HIDE DEF c
  <2> QED BY <1>2, <1>3, <2>1
<1>5. IsFiniteSet(In) /\ Cardinality(In) = c + 1
  <2>1. Len(s) \in Nat /\ Len(s) + 1 - c \in Int /\ Len(s) + 1 \in Int /\ (Len(s) + 1) - (Len(s) + 1 - c) + 1 = c + 1
        /\ ~(Len(s) + 1 - c > Len(s) + 1)
    BY <1>0, <1>1
  <2> QED BY Zenon, <1>4, <2>1, FS_Interval
<1>6. Sec!Cardinality(In) = Cardinality(In)
  BY DEF Sec!Cardinality, Cardinality
<1> QED BY Zenon, <1>5, <1>6 DEF c

SecTypes ==
    /\ now \in Nat /\ now <= MaxNow["security"]
    /\ mode \in {"off", "report", "armed"}
    /\ evaded \in [Suspect -> 0..(MaxNow["security"] + EvadeTtl)]
    /\ account \in [User -> Suspect \union {None}] /\ online \in [User -> BOOLEAN]
    /\ \A u \in User : account[u] # None => online[u]
    /\ quiet \in Nat /\ split \in Nat /\ split <= quiet

\* An event that hits something, fed and judged.
Moved == \E ks, all : Hitting(ks, all) /\ Fed(all) /\ JudgedKeys(ks)

\* What every event keeps to.
Screens ==
    /\ now' = now /\ (Moved \/ UNCHANGED <<windows, seen, lines>>)
    /\ SecTypes'
    /\ acted' # {} => now >= split

LEMMA KeysOfTwo ==
    ASSUME NEW T, NEW U, NEW a \in Seq(T), NEW b \in Seq(U)
    PROVE  Sec!Keys(a \o b) = Sec!Keys(a) \union Sec!Keys(b)
<1> DEFINE c == a \o b
<1>1. /\ DOMAIN a = 1..Len(a) /\ DOMAIN b = 1..Len(b) /\ Len(a) \in Nat /\ Len(b) \in Nat
      /\ DOMAIN c = 1..(Len(a) + Len(b))
      /\ \A i \in 1..Len(a) : c[i] = a[i]
      /\ \A i \in 1..Len(b) : c[Len(a) + i] = b[i]
  <2>1. a \in Seq(T \union U) /\ b \in Seq(T \union U)
    OBVIOUS
  <2> QED BY <2>1
<1> HIDE DEF c
<1>2. ASSUME NEW i \in DOMAIN a PROVE \E j \in DOMAIN c : c[j] = a[i]
  BY <1>1
<1>3. ASSUME NEW i \in DOMAIN b PROVE \E j \in DOMAIN c : c[j] = b[i]
  <2>1. Len(a) + i \in DOMAIN c /\ c[Len(a) + i] = b[i]
    BY <1>1
  <2> QED BY <2>1
<1>4. ASSUME NEW j \in DOMAIN c PROVE (\E i \in DOMAIN a : c[j] = a[i]) \/ (\E i \in DOMAIN b : c[j] = b[i])
  <2>1. CASE j <= Len(a)
    BY <1>1, <2>1
  <2>2. CASE ~(j <= Len(a))
    <3>1. j - Len(a) \in 1..Len(b) /\ Len(a) + (j - Len(a)) = j
      BY <1>1, <2>2
    <3> QED BY <1>1, <3>1
  <2> QED BY <2>1, <2>2
<1>5. Sec!Keys(c) = Sec!Keys(a) \union Sec!Keys(b)
  <2>1. /\ \A x \in Sec!Keys(c) : x \in Sec!Keys(a) \union Sec!Keys(b)
        /\ \A x \in Sec!Keys(a) \union Sec!Keys(b) : x \in Sec!Keys(c)
    BY <1>2, <1>3, <1>4 DEF Sec!Keys
  <2> QED BY <2>1
<1> QED BY <1>5 DEF c

LEMMA NoticesSeq == Sec!Notices \in Seq({Announce, Cascade})
<1>1. Sec!Notices = <<Announce, Cascade>>
  BY DEF Sec!Notices, Sec!Announcement, Announce, Cascade
<1> QED BY <1>1

\* An event's keys, and the notices after them.
LEMMA WithNotices ==
    ASSUME NEW T, NEW ks \in Seq(T)
    PROVE  Sec!Keys(ks \o Sec!Notices) = Sec!Keys(ks) \union {Announce, Cascade}
BY KeysOfTwo, NoticesSeq, NoticesAre

LEMMA RememberIs ==
    ASSUME SecTypes, NEW a
    PROVE  Sec!remember_ban(a) \in [Suspect -> 0..(MaxNow["security"] + EvadeTtl)]
<1>1. EvadeTtl \in Nat /\ MaxNow["security"] \in Nat
  BY Secured DEF SecurityIs
<1>2. now + EvadeTtl \in 0..(MaxNow["security"] + EvadeTtl) /\ 0 \in 0..(MaxNow["security"] + EvadeTtl)
  BY <1>1 DEF SecTypes
<1> QED BY <1>2 DEF Sec!remember_ban, SecTypes

\* What a user who is acted on loses.
LEMMA ActTypes ==
    ASSUME SecTypes, NEW u \in User, UNCHANGED <<mode, quiet, now, split>>,
           evaded' \in [Suspect -> 0..(MaxNow["security"] + EvadeTtl)],
           \/ UNCHANGED <<online, account>>
           \/ online' = [online EXCEPT ![u] = FALSE] /\ account' = [account EXCEPT ![u] = None]
    PROVE  SecTypes'
<1>1. CASE UNCHANGED <<online, account>>
  BY <1>1 DEF SecTypes
<1>2. CASE online' = [online EXCEPT ![u] = FALSE] /\ account' = [account EXCEPT ![u] = None]
  <2>1. online' \in [User -> BOOLEAN] /\ account' \in [User -> Suspect \union {None}]
    BY <1>2 DEF SecTypes
  <2>2. \A v \in User : account'[v] # None => online'[v]
    BY <1>2 DEF SecTypes
  <2> QED BY <2>1, <2>2 DEF SecTypes
<1> QED BY <1>1, <1>2

LEMMA FedAct ==
    ASSUME NEW all, Announce \in Sec!Keys(all),
           lines' = IF Sec!Announces(Len(Sec!Window(windows', Sec!Announcement))) THEN Append(lines, now) ELSE lines
    PROVE  Fed(all)
BY NoticesAre DEF Fed, Sec!Announces

\* A screened event hits its keys up to the first that trips.
LEMMA ScreenMoves ==
    ASSUME SecTypes, NEW u \in User, NEW T, NEW ks \in Seq(T), NEW judged,
           \A i \in DOMAIN ks : ~Notice(ks[i]) /\ (ks[i][1] # "jj" => ks[i] \in judged),
           Sec!Screened(u, ks, judged)
    PROVE  Screens
<1>1. CASE Sec!Nothing /\ UNCHANGED <<online, account>>
  <2>1. UNCHANGED <<mode, windows, quiet, evaded, now, lines, seen, split, online, account>> /\ acted' = {}
    BY <1>1 DEF Sec!Nothing
  <2>2. SecTypes'
    BY <2>1 DEF SecTypes
  <2> QED BY <2>1, <2>2 DEF Screens
<1>2. CASE Sec!Identity(u) /\ Sec!Screen(u, ks, judged)
  <2> DEFINE over == Sec!Trips(ks, judged)
             stop == IF over = {} THEN Len(ks) ELSE CHOOSE i \in over : \A j \in over : i <= j
             done == SubSeq(ks, 1, stop)
             all == IF over = {} THEN done ELSE done \o Sec!Notices
  <2>1. /\ windows' = Sec!HitAll(windows, hits, all).w
        /\ Sec!Record(done)
        /\ IF over = {} THEN acted' = {} /\ UNCHANGED <<lines, evaded, online, account>>
           ELSE Sec!Act(u, ks[stop], evaded)
        /\ UNCHANGED <<mode, quiet, now, split>>
    BY <1>2 DEF Sec!Screen
  <2>2. Len(ks) \in Nat /\ DOMAIN ks = 1..Len(ks) /\ over \subseteq 1..Len(ks)
        /\ \A i \in 1..Len(ks) : i \in over <=> ks[i] \in judged /\ Tripped(ks[i])
    BY DEF Sec!Trips, Tripped
  <2> HIDE DEF over
  <2>3. stop \in 0..Len(ks) /\ (over # {} => stop \in over)
    <3>1. CASE over = {}
      BY <2>2, <3>1
    <3>2. CASE over # {}
      <4>1. over \in SUBSET Nat
        BY <2>2
      <4>2. \E i \in over : \A j \in over : i <= j
        BY <3>2, <4>1, LeastNatural
      <4>3. stop \in over
        BY <3>2, <4>2
      <4> HIDE DEF stop
      <4>4. stop \in 1..Len(ks) /\ Len(ks) \in Nat
        BY <2>2, <4>3
      <4>5. stop \in 0..Len(ks)
        BY <4>4
      <4> QED BY <4>3, <4>5
    <3> QED BY <3>1, <3>2
  <2> HIDE DEF stop
  <2>4. done \in Seq(T) /\ DOMAIN done = 1..stop /\ \A i \in 1..stop : done[i] = ks[i] /\ i \in 1..Len(ks)
    BY <2>2, <2>3
  <2> HIDE DEF done
  <2>5. \A k : k \in Sec!Keys(done) => \E i \in 1..Len(ks) : k = ks[i]
    BY <2>4 DEF Sec!Keys
  <2>6. /\ over = {} => Sec!Keys(all) = Sec!Keys(done)
        /\ over # {} => Sec!Keys(all) = Sec!Keys(done) \union {Announce, Cascade}
    BY <2>4, WithNotices
  <2> HIDE DEF all
  <2>7. Hitting(done, all)
    <3>1. \A k \in Sec!Keys(done) : ~Notice(k)
      BY <2>2, <2>5
    <3>2. Sec!Keys(done) \subseteq Sec!Keys(all) /\ Sec!Keys(all) \subseteq Sec!Keys(done) \union {Announce, Cascade}
      BY <2>6
    <3> QED BY <2>1, <3>1, <3>2 DEF Hitting
  <2>8. Fed(all)
    <3>1. CASE over = {}
      BY <2>1, <3>1 DEF Fed
    <3>2. CASE over # {}
      <4>1. Announce \in Sec!Keys(all)
        BY <2>6, <3>2
      <4>2. Sec!Act(u, ks[stop], evaded)
        BY <2>1, <3>2
      <4>3. lines' = IF Sec!Announces(Len(Sec!Window(windows', Sec!Announcement))) THEN Append(lines, now) ELSE lines
        BY <4>2 DEF Sec!Act
      <4> QED BY <4>1, <4>3, FedAct
    <3> QED BY <3>1, <3>2
  <2>9. over # {} => acted' = {<<u, ks[stop]>>} /\ stop \in 1..Len(ks) /\ Tripped(ks[stop])
    BY <2>1, <2>2, <2>3 DEF Sec!Act
  <2>10. JudgedKeys(done)
    <3> SUFFICES ASSUME NEW k \in Sec!Keys(done), k[1] # "jj"
                 PROVE  (Tripped(k) => acted' # {}) /\ ((\E v \in User : <<v, k>> \in acted') => Tripped(k))
      BY Zenon DEF JudgedKeys
    <3>1. PICK i \in 1..Len(ks) : k = ks[i]
      BY <2>5
    <3>2. Tripped(k) => i \in over
      BY <2>2, <3>1
    <3>3. CASE over = {}
      BY Zenon, <2>1, <3>2, <3>3
    <3>4. CASE over # {}
      BY Zenon, <2>9, <3>4
    <3> QED BY Zenon, <3>3, <3>4
  <2>11. SecTypes'
    <3>1. CASE over = {}
      BY <2>1, <3>1, ActTypes DEF SecTypes
    <3>2. CASE over # {}
      <4>1. /\ evaded' = IF Sec!enforcing /\ account[u] # None THEN Sec!remember_ban(account[u]) ELSE evaded
            /\ online' = IF Sec!enforcing THEN [online EXCEPT ![u] = FALSE] ELSE online
            /\ account' = IF Sec!enforcing THEN [account EXCEPT ![u] = None] ELSE account
        BY <2>1, <3>2 DEF Sec!Act
      <4>2. evaded' \in [Suspect -> 0..(MaxNow["security"] + EvadeTtl)]
        BY <4>1, RememberIs DEF SecTypes
      <4> QED BY Zenon, <2>1, <4>1, <4>2, ActTypes
    <3> QED BY <3>1, <3>2
  <2>12. now >= split
    BY <1>2 DEF Sec!Identity, Sec!in_netsplit, SecTypes
  <2> QED BY <2>1, <2>7, <2>8, <2>10, <2>11, <2>12 DEF Screens, Moved
<1> QED BY <1>1, <1>2 DEF Sec!Screened

\* A key of any other detector.
LEMMA NotNotice ==
    ASSUME NEW d, NEW x, d \notin {"announce", "cascade"}
    PROVE  ~Notice(<<d, x>>) /\ <<d, x>>[1] = d
<1>1. <<d, x>>[1] = d /\ Announce[1] = "announce" /\ Cascade[1] = "cascade"
  BY DEF Announce, Cascade
<1> QED BY <1>1 DEF Notice

\* The keys an event hits are what counts.
LEMMA KeysMove ==
    ASSUME SecTypes, NEW u \in User, NEW T, NEW ks \in Seq(T), NEW judged,
           \A k \in Sec!Keys(ks) : ~Notice(k) /\ (k[1] # "jj" => k \in judged),
           Sec!Screened(u, ks, judged)
    PROVE  Screens
<1>1. \A i \in DOMAIN ks : ~Notice(ks[i]) /\ (ks[i][1] # "jj" => ks[i] \in judged)
  BY DEF Sec!Keys
<1> QED BY <1>1, ScreenMoves

LEMMA OneKey == ASSUME NEW a PROVE <<a>> \in Seq({a}) /\ Sec!Keys(<<a>>) = {a}
<1>1. <<a>> \in Seq({a}) /\ DOMAIN <<a>> = {1} /\ <<a>>[1] = a
  OBVIOUS
<1> QED BY <1>1 DEF Sec!Keys

LEMMA NoKey == <<>> \in Seq({}) /\ Sec!Keys(<<>>) = {}
BY DEF Sec!Keys

LEMMA TwoKeys == ASSUME NEW a, NEW b PROVE <<a, b>> \in Seq({a, b}) /\ Sec!Keys(<<a, b>>) = {a, b}
<1>1. <<a, b>> \in Seq({a, b}) /\ DOMAIN <<a, b>> = {1, 2} /\ <<a, b>>[1] = a /\ <<a, b>>[2] = b
  OBVIOUS
<1> QED BY <1>1 DEF Sec!Keys

LEMMA ThreeKeys == ASSUME NEW a, NEW b, NEW c PROVE <<a, b, c>> \in Seq({a, b, c}) /\ Sec!Keys(<<a, b, c>>) = {a, b, c}
<1>1. /\ <<a, b, c>> \in Seq({a, b, c}) /\ DOMAIN <<a, b, c>> = {1, 2, 3}
      /\ <<a, b, c>>[1] = a /\ <<a, b, c>>[2] = b /\ <<a, b, c>>[3] = c
  OBVIOUS
<1> QED BY <1>1 DEF Sec!Keys

\* A key that is hit in one case only.
LEMMA MaybeKey ==
    ASSUME NEW p \in BOOLEAN, NEW a
    PROVE  /\ (IF p THEN <<a>> ELSE <<>>) \in Seq({a})
           /\ Sec!Keys(IF p THEN <<a>> ELSE <<>>) \subseteq {a}
<1>1. CASE p
  BY <1>1, OneKey
<1>2. CASE ~p
  <2>1. <<>> \in Seq({a})
    OBVIOUS
  <2> QED BY <1>2, <2>1, NoKey
<1> QED BY <1>1, <1>2

LEMMA Nicked == ASSUME SecTypes, NEW u \in User, Sec!nick(u) PROVE Screens
<1> DEFINE a == <<"nf", u>>
<1>1. Sec!Screened(u, <<a>>, {a})
  BY DEF Sec!nick
<1>2. ~Notice(a)
  BY NotNotice
<1> HIDE DEF a
<1> QED BY Zenon, <1>1, <1>2, OneKey, KeysMove

LEMMA AuthFailed == ASSUME SecTypes, NEW u \in User, Sec!auth_failed(u) PROVE Screens
<1> DEFINE a == <<"af", IpOf(u)>>
<1>1. Sec!Screened(u, <<a>>, {a})
  BY DEF Sec!auth_failed
<1>2. ~Notice(a)
  BY NotNotice
<1> HIDE DEF a
<1> QED BY Zenon, <1>1, <1>2, OneKey, KeysMove

LEMMA Joined == ASSUME SecTypes, NEW u \in User, Sec!join(u) PROVE Screens
<1> DEFINE a == <<"jj", u>>
           b == <<"mj", SubnetOf(u)>>
           c == <<"cw", u>>
<1>1. Sec!Screened(u, <<a, b, c>>, {b, c})
  BY DEF Sec!join
<1>2. ~Notice(a) /\ ~Notice(b) /\ ~Notice(c) /\ a[1] = "jj"
  BY NotNotice
<1> HIDE DEF a, b, c
<1>3. \A k \in {a, b, c} : ~Notice(k) /\ (k[1] # "jj" => k \in {b, c})
  BY <1>2
<1> DEFINE ks == <<a, b, c>>
           T == {a, b, c}
<1>4. ks \in Seq(T) /\ Sec!Keys(ks) = T /\ Sec!Screened(u, ks, {b, c})
  BY <1>1, ThreeKeys
<1>5. \A k \in Sec!Keys(ks) : ~Notice(k) /\ (k[1] # "jj" => k \in {b, c})
  BY <1>3, <1>4
<1> HIDE DEF ks, T
<1> QED BY <1>4, <1>5, KeysMove

LEMMA Parted == ASSUME SecTypes, NEW u \in User, Sec!part(u) PROVE Screens
<1> DEFINE a == <<"cy", u>>
           b == <<"jsp", u>>
           quick == Sec!count(windows, <<"jj", u>>, Life) > 0
           more == IF quick THEN <<b>> ELSE <<>>
<1>1. Sec!Screened(u, <<a>> \o more, {a, b})
  BY DEF Sec!part
<1>2. ~Notice(a) /\ ~Notice(b)
  BY NotNotice
<1>3. quick \in BOOLEAN
  OBVIOUS
<1> HIDE DEF a, b, quick
<1>4. more \in Seq({b}) /\ Sec!Keys(more) \subseteq {b}
  BY Zenon, <1>3, MaybeKey
<1> HIDE DEF more
<1> DEFINE one == <<a>>
           ks == one \o more
<1>5. one \in Seq({a}) /\ Sec!Keys(one) = {a} /\ Sec!Screened(u, ks, {a, b})
  BY <1>1, OneKey
<1> HIDE DEF one
<1>6. Sec!Keys(ks) = Sec!Keys(one) \union Sec!Keys(more)
  BY <1>4, <1>5, KeysOfTwo
<1>7. ks \in Seq({a, b})
  <2>1. one \in Seq({a, b}) /\ more \in Seq({a, b})
    BY <1>4, <1>5
  <2> QED BY <2>1
<1>8. \A k \in Sec!Keys(ks) : ~Notice(k) /\ (k[1] # "jj" => k \in {a, b})
  BY <1>2, <1>4, <1>5, <1>6
<1> HIDE DEF ks
<1> QED BY <1>5, <1>7, <1>8, KeysMove

LEMMA Spoke == ASSUME SecTypes, NEW u \in User, NEW f, Sec!message(u, f) PROVE Screens
<1> DEFINE a == <<"hl", u>>
           b == <<"bu", u>>
           c == <<"rp", "line">>
           x == IF "hl" \in f THEN <<a>> ELSE <<>>
           y == IF "bu" \in f THEN <<b>> ELSE <<>>
           z == IF "rp" \in f THEN <<c>> ELSE <<>>
           ks == x \o y \o z
<1>1. Sec!Screened(u, ks, Sec!Keys(ks))
  BY DEF Sec!message
<1>2. ~Notice(a) /\ ~Notice(b) /\ ~Notice(c)
  BY NotNotice
<1>3. ("hl" \in f) \in BOOLEAN /\ ("bu" \in f) \in BOOLEAN /\ ("rp" \in f) \in BOOLEAN
  OBVIOUS
<1> HIDE DEF a, b, c
<1>4. /\ x \in Seq({a}) /\ Sec!Keys(x) \subseteq {a}
      /\ y \in Seq({b}) /\ Sec!Keys(y) \subseteq {b}
      /\ z \in Seq({c}) /\ Sec!Keys(z) \subseteq {c}
  BY Zenon, <1>3, MaybeKey
<1> HIDE DEF x, y, z
<1>5. x \o y \in Seq({a, b}) /\ Sec!Keys(x \o y) \subseteq {a, b}
  <2>1. x \in Seq({a, b}) /\ y \in Seq({a, b})
    BY <1>4
  <2>2. x \o y \in Seq({a, b})
    BY <2>1
  <2> QED BY <1>4, <2>2, KeysOfTwo
<1>6. ks \in Seq({a, b, c}) /\ Sec!Keys(ks) \subseteq {a, b, c}
  <2> DEFINE xy == x \o y
  <2>1. xy \in Seq({a, b, c}) /\ z \in Seq({a, b, c})
    BY <1>4, <1>5
  <2>2. xy \in Seq({a, b}) /\ Sec!Keys(xy) \subseteq {a, b}
    BY <1>5
  <2> HIDE DEF xy
  <2>3. xy \o z \in Seq({a, b, c})
    BY <2>1
  <2>4. Sec!Keys(xy \o z) = Sec!Keys(xy) \union Sec!Keys(z)
    BY <1>4, <2>2, KeysOfTwo
  <2>5. Sec!Keys(xy \o z) \subseteq {a, b, c}
    BY <1>4, <2>2, <2>4
  <2> QED BY <2>3, <2>5 DEF xy
<1> HIDE DEF ks
<1>7. \A k \in Sec!Keys(ks) : ~Notice(k) /\ (k[1] # "jj" => k \in Sec!Keys(ks))
  BY <1>2, <1>6
<1> QED BY <1>1, <1>6, <1>7, KeysMove

\* What is not screened.
LEMMA Unscreened ==
    ASSUME UNCHANGED <<now, windows, seen, lines>>, acted' = {}, SecTypes'
    PROVE  Screens
BY DEF Screens

\* A user who was matched is acted on although nothing was counted.
LEMMA NoticesHit ==
    ASSUME windows' = Sec!HitAll(windows, hits, Sec!Notices).w, now' = now, seen' = seen,
           lines' = IF Sec!Announces(Len(Sec!Window(windows', Sec!Announcement))) THEN Append(lines, now) ELSE lines
    PROVE  Moved
<1>1. Hitting(<<>>, Sec!Notices)
  BY NoKey, NoticesAre DEF Hitting
<1>2. Fed(Sec!Notices)
  BY NoticesAre, FedAct
<1>3. JudgedKeys(<<>>)
  BY NoKey DEF JudgedKeys
<1> QED BY <1>1, <1>2, <1>3 DEF Moved

\* Keys that are counted, all of them judged.
LEMMA JudgedHit ==
    ASSUME NEW T, NEW ks \in Seq(T), NEW u \in User, NEW over, over \in BOOLEAN, NEW why, NEW all,
           all = ks \o (IF over THEN Sec!Notices ELSE <<>>),
           \A k \in Sec!Keys(ks) : ~Notice(k),
           over <=> \E k \in Sec!Keys(ks) : Tripped(k),
           over => why \in Sec!Keys(ks) /\ Tripped(why),
           windows' = Sec!HitAll(windows, hits, all).w, now' = now, Sec!Record(ks),
           acted' = IF over THEN {<<u, why>>} ELSE {},
           lines' = IF over /\ Sec!Announces(Len(Sec!Window(windows', Sec!Announcement)))
                    THEN Append(lines, now) ELSE lines
    PROVE  Moved
<1>1. /\ ~over => Sec!Keys(all) = Sec!Keys(ks)
      /\ over => Sec!Keys(all) = Sec!Keys(ks) \union {Announce, Cascade}
  <2>1. CASE over
    BY <2>1, WithNotices
  <2>2. CASE ~over
    <3>1. ks \o <<>> = ks
      OBVIOUS
    <3>2. all = ks \o <<>>
      BY <2>2
    <3> QED BY <2>2, <3>1, <3>2
  <2> QED BY <2>1, <2>2
<1>2. Hitting(ks, all)
  <2>1. Sec!Keys(ks) \subseteq Sec!Keys(all) /\ Sec!Keys(all) \subseteq Sec!Keys(ks) \union {Announce, Cascade}
    BY <1>1
  <2> QED BY <2>1 DEF Hitting
<1>3. Fed(all)
  <2>1. CASE over
    <3>1. lines' = IF Sec!Announces(Len(Sec!Window(windows', Sec!Announcement))) THEN Append(lines, now) ELSE lines
      BY <2>1
    <3>2. Announce \in Sec!Keys(all)
      BY <1>1, <2>1
    <3> QED BY <3>1, <3>2, FedAct
  <2>2. CASE ~over
    BY <2>2 DEF Fed
  <2> QED BY <2>1, <2>2
<1>4. JudgedKeys(ks)
  <2>1. CASE over
    BY Zenon, <2>1 DEF JudgedKeys
  <2>2. CASE ~over
    BY <2>2 DEF JudgedKeys
  <2> QED BY <2>1, <2>2
<1> QED BY <1>2, <1>3, <1>4 DEF Moved

LEMMA Connected == ASSUME SecTypes, NEW u \in User, NEW p \in BOOLEAN, Sec!connect(u, p) PROVE Screens
<1> DEFINE ip == <<"cf", IpOf(u)>>
           net == <<"cr", SubnetOf(u)>>
           screened == Sec!on /\ ~Sec!in_netsplit /\ u \notin Exempt
           over == {k \in {ip, net} : Tripped(k)}
           all == IF p THEN Sec!Notices ELSE <<ip, net>> \o (IF over = {} THEN <<>> ELSE Sec!Notices)
           hit == p \/ over # {}
           why == IF p THEN <<"pattern", "">> ELSE IF ip \in over THEN ip ELSE net
<1>1. /\ ~online[u]
      /\ UNCHANGED <<mode, quiet, now, split>>
      /\ IF ~screened
         THEN /\ acted' = {} /\ online' = [online EXCEPT ![u] = TRUE]
              /\ UNCHANGED <<windows, hits, evaded, account, lines, seen>>
         ELSE /\ windows' = Sec!HitAll(windows, hits, all).w
              /\ IF p THEN UNCHANGED seen ELSE Sec!Record(<<ip, net>>)
              /\ acted' = IF hit THEN {<<u, why>>} ELSE {}
              /\ lines' = IF hit /\ Sec!Announces(Len(Sec!Window(windows', Sec!Announcement)))
                          THEN Append(lines, now) ELSE lines
              /\ online' = [online EXCEPT ![u] = ~(hit /\ Sec!enforcing)]
              /\ UNCHANGED <<evaded, account>>
  BY Zenon DEF Sec!connect, Tripped
<1>2. ~Notice(ip) /\ ~Notice(net)
  BY NotNotice
<1> HIDE DEF ip, net
<1>3. SecTypes'
  <2>1. account' = account /\ evaded' = evaded /\ account[u] = None
    BY Zenon, <1>1 DEF SecTypes
  <2>2. \E v \in BOOLEAN : online' = [online EXCEPT ![u] = v]
    <3> HIDE DEF hit, screened
    <3> QED BY Zenon, <1>1
  <2> QED BY Zenon, <1>1, <2>1, <2>2 DEF SecTypes
<1>4. CASE ~screened
  BY <1>1, <1>3, <1>4, Unscreened
<1>5. CASE screened
  <2>1. now >= split
    BY <1>5 DEF Sec!in_netsplit, SecTypes
  <2>2. CASE p
    <3>1. Moved
      BY Zenon, <1>1, <1>5, <2>2, NoticesHit
    <3> QED BY Zenon, <1>1, <1>3, <2>1, <3>1 DEF Screens
  <2>3. CASE ~p
    <3> DEFINE ks == <<ip, net>>
               T == {ip, net}
               trip == over # {}
    <3>1. ks \in Seq(T) /\ Sec!Keys(ks) = T
      BY TwoKeys
    <3>2. /\ windows' = Sec!HitAll(windows, hits, all).w /\ Sec!Record(ks)
          /\ all = ks \o (IF trip THEN Sec!Notices ELSE <<>>)
          /\ acted' = IF trip THEN {<<u, why>>} ELSE {}
          /\ lines' = IF trip /\ Sec!Announces(Len(Sec!Window(windows', Sec!Announcement)))
                      THEN Append(lines, now) ELSE lines
      BY <1>1, <1>5, <2>3
    <3>3. trip => why \in T /\ Tripped(why)
      BY <2>3
    <3>4. trip <=> \E k \in T : Tripped(k)
      OBVIOUS
    <3>5. \A k \in T : ~Notice(k)
      BY <1>2
    <3>6. trip \in BOOLEAN
      OBVIOUS
    <3> HIDE DEF ks, T, trip, why, all
    <3>7. Moved
      BY Zenon, <1>1, <3>1, <3>2, <3>3, <3>4, <3>5, <3>6, JudgedHit
    <3> QED BY <1>1, <1>3, <2>1, <3>7 DEF Screens
  <2> QED BY <2>2, <2>3
<1> QED BY <1>4, <1>5

LEMMA Left == ASSUME SecTypes, NEW u \in User, NEW broken, Sec!quit(u, broken) PROVE Screens
<1> DEFINE k == <<"qf", IpOf(u)>>
           screened == Sec!on /\ broken /\ Sec!Identity(u)
           over == screened /\ Tripped(k)
           all == <<k>> \o (IF over THEN Sec!Notices ELSE <<>>)
<1>1. /\ windows' = IF screened THEN Sec!HitAll(windows, hits, all).w ELSE windows
      /\ IF screened THEN Sec!Record(<<k>>) ELSE UNCHANGED seen
      /\ acted' = IF over THEN {<<u, k>>} ELSE {}
      /\ lines' = IF over /\ Sec!Announces(Len(Sec!Window(windows', Sec!Announcement)))
                  THEN Append(lines, now) ELSE lines
      /\ evaded' = IF over /\ Sec!enforcing /\ account[u] # None THEN Sec!remember_ban(account[u]) ELSE evaded
      /\ online' = [online EXCEPT ![u] = FALSE] /\ account' = [account EXCEPT ![u] = None]
      /\ UNCHANGED <<mode, quiet, now, split>>
  BY DEF Sec!quit, Tripped
<1>2. ~Notice(k)
  BY NotNotice
<1> HIDE DEF k
<1>3. SecTypes'
  <2>1. evaded' \in [Suspect -> 0..(MaxNow["security"] + EvadeTtl)]
    BY <1>1, RememberIs DEF SecTypes
  <2> QED BY Zenon, <1>1, <2>1, ActTypes
<1>4. CASE ~screened
  BY <1>1, <1>3, <1>4, Unscreened
<1>5. CASE screened
  <2>1. now >= split
    BY <1>5 DEF Sec!Identity, Sec!in_netsplit, SecTypes
  <2> DEFINE ks == <<k>>
             T == {k}
             trip == Tripped(k)
  <2>2. ks \in Seq(T) /\ Sec!Keys(ks) = T
    BY OneKey
  <2>3. /\ windows' = Sec!HitAll(windows, hits, all).w /\ Sec!Record(ks)
        /\ all = ks \o (IF trip THEN Sec!Notices ELSE <<>>)
        /\ acted' = IF trip THEN {<<u, k>>} ELSE {}
        /\ lines' = IF trip /\ Sec!Announces(Len(Sec!Window(windows', Sec!Announcement)))
                    THEN Append(lines, now) ELSE lines
    BY <1>1, <1>5
  <2>4. (trip => k \in T /\ Tripped(k)) /\ (trip <=> \E x \in T : Tripped(x)) /\ \A x \in T : ~Notice(x)
    BY <1>2
  <2>5. trip \in BOOLEAN
    BY DEF Tripped
  <2> HIDE DEF ks, T, trip, all
  <2>6. Moved
    BY Zenon, <1>1, <2>2, <2>3, <2>4, <2>5, JudgedHit
  <2> QED BY <1>1, <1>3, <2>1, <2>6 DEF Screens
<1> QED BY <1>4, <1>5

LEMMA LoggedIn == ASSUME SecTypes, NEW u \in User, NEW a \in Suspect, Sec!account_login(u, a) PROVE Screens
<1> DEFINE caught == Sec!enforcing /\ Sec!is_evader(a) /\ Sec!Identity(u)
<1>1. CASE caught
  <2>1. /\ windows' = Sec!HitAll(windows, hits, Sec!Notices).w
        /\ lines' = IF Sec!Announces(Len(Sec!Window(windows', Sec!Announcement))) THEN Append(lines, now) ELSE lines
        /\ evaded' = Sec!remember_ban(a)
        /\ online' = [online EXCEPT ![u] = FALSE] /\ account' = [account EXCEPT ![u] = None]
        /\ UNCHANGED <<mode, quiet, now, seen, split>>
    BY <1>1 DEF Sec!account_login
  <2>2. SecTypes'
    <3>1. evaded' \in [Suspect -> 0..(MaxNow["security"] + EvadeTtl)]
      BY <2>1, RememberIs
    <3> QED BY Zenon, <2>1, <3>1, ActTypes
  <2>3. Moved
    BY <2>1, NoticesHit
  <2>4. now >= split
    BY <1>1 DEF Sec!Identity, Sec!in_netsplit, SecTypes
  <2> QED BY <2>1, <2>2, <2>3, <2>4 DEF Screens
<1>2. CASE ~caught
  <2>1. /\ account' = [account EXCEPT ![u] = a] /\ UNCHANGED online /\ acted' = {} /\ online[u]
        /\ UNCHANGED <<mode, windows, quiet, evaded, now, lines, seen, split>>
    BY <1>2 DEF Sec!account_login, Sec!Nothing
  <2>2. SecTypes'
    BY <2>1 DEF SecTypes
  <2> QED BY <2>1, <2>2, Unscreened
<1> QED BY <1>1, <1>2

LEMMA Quiet ==
    ASSUME SecTypes,
           \/ \E u \in User, a \in Suspect : Sec!own_login(u, a)
           \/ \E u \in User : Sec!logout(u)
           \/ Sec!mark_netsplit
           \/ \E m \in {"off", "report", "armed"} : Sec!configure(m)
    PROVE  Screens
<1>0. EvadeTtl \in Nat /\ Grace \in Nat
  BY Secured DEF SecurityIs
<1>1. CASE \E u \in User, a \in Suspect : Sec!own_login(u, a)
  <2>1. PICK u \in User, a \in Suspect : Sec!own_login(u, a)
    BY <1>1
  <2>2. /\ account' = [account EXCEPT ![u] = a] /\ UNCHANGED online /\ acted' = {} /\ online[u]
        /\ UNCHANGED <<mode, windows, quiet, evaded, now, lines, seen, split>>
    BY <2>1 DEF Sec!own_login, Sec!Nothing
  <2>3. SecTypes'
    BY <2>2 DEF SecTypes
  <2> QED BY <2>2, <2>3, Unscreened
<1>2. CASE \E u \in User : Sec!logout(u)
  <2>1. PICK u \in User : Sec!logout(u)
    BY <1>2
  <2>2. /\ account' = [account EXCEPT ![u] = None] /\ UNCHANGED online /\ acted' = {}
        /\ UNCHANGED <<mode, windows, quiet, evaded, now, lines, seen, split>>
    BY <2>1 DEF Sec!logout, Sec!Nothing
  <2>3. SecTypes'
    BY <2>2 DEF SecTypes
  <2> QED BY <2>2, <2>3, Unscreened
<1>3. CASE Sec!mark_netsplit
  <2>1. /\ quiet' = (IF quiet > now + Grace THEN quiet ELSE now + Grace) /\ split' = now + Grace /\ acted' = {}
        /\ UNCHANGED <<mode, windows, evaded, account, online, now, lines, seen>>
    BY <1>3 DEF Sec!mark_netsplit, Sec!Later
  <2>2. quiet' \in Nat /\ split' \in Nat /\ split' <= quiet'
    BY <1>0, <2>1 DEF SecTypes
  <2>3. SecTypes'
    BY <2>1, <2>2 DEF SecTypes
  <2> QED BY <2>1, <2>3, Unscreened
<1>4. CASE \E m \in {"off", "report", "armed"} : Sec!configure(m)
  <2>1. /\ mode' \in {"off", "report", "armed"} /\ acted' = {}
        /\ UNCHANGED <<windows, quiet, evaded, account, online, now, lines, seen, split>>
    BY <1>4 DEF Sec!configure, Sec!history
  <2>2. SecTypes'
    BY <2>1 DEF SecTypes
  <2> QED BY <2>1, <2>2, Unscreened
<1> QED BY <1>1, <1>2, <1>3, <1>4

SecHolds == SecTypes /\ WindowsShow /\ FeedKept

LEMMA WindowsRest ==
    ASSUME WindowsShow, FeedKept, UNCHANGED <<now, windows, seen, lines>>
    PROVE  WindowsShow' /\ FeedKept'
<1>1. WindowsShow'
  BY DEF WindowsShow, Shows
<1>2. FeedKept'
  BY DEF FeedKept, Feeds
<1> QED BY <1>1, <1>2

LEMMA SecStutter ==
    ASSUME SecHolds, UNCHANGED <<mode, windows, quiet, evaded, account, online, now, lines, seen, split>>
    PROVE  SecHolds'
<1>1. SecTypes'
  BY DEF SecHolds, SecTypes
<1>2. WindowsShow' /\ FeedKept'
  BY WindowsRest DEF SecHolds
<1> QED BY <1>1, <1>2 DEF SecHolds

LEMMA SecTick == ASSUME SecHolds, Sec!Tick PROVE SecHolds'
<1> USE DEF SecHolds
<1>0. /\ Life \in Nat /\ AnnounceLife \in Nat /\ MaxNow["security"] \in Nat /\ now \in Nat
      /\ Windowed(windows) /\ Windowed(seen)
  BY Secured DEF SecurityIs, SecTypes, WindowsShow
<1>1. /\ now < MaxNow["security"] /\ now' = now + 1
      /\ UNCHANGED <<mode, windows, quiet, evaded, account, online, lines, seen, split>>
  BY DEF Sec!Tick, Sec!history
<1>2. SecTypes'
  <2>1. now' \in Nat /\ now' <= MaxNow["security"]
    BY <1>0, <1>1
  <2> QED BY <1>1, <2>1 DEF SecTypes
<1>3. \A x \in Nat : x + Life < now => x + Life < now + 1
  BY <1>0
<1>4. ASSUME NEW k PROVE Sec!Window(windows, k) \in Seq(Nat) /\ Sec!Window(seen, k) \in Seq(Nat)
  BY <1>0, WindowIs
<1>5. ASSUME NEW t \in Seq(Nat), Aged(t, now) PROVE Aged(t, now + 1)
  <2>1. now + 1 \in Nat /\ now <= now + 1
    BY <1>0
  <2> QED BY <1>0, <1>5, <2>1, AgedLater
<1>6. WindowsShow'
  <2>1. \A k \in DOMAIN windows : Aged(windows[k], now + 1)
    BY <1>0, <1>5 DEF WindowsShow, Windowed
  <2>2. \A k \in DOMAIN seen : ~Notice(k) /\ Aged(seen[k], now + 1)
    BY <1>0, <1>5 DEF WindowsShow, Windowed
  <2>3. ASSUME NEW k \in DOMAIN windows \union DOMAIN seen, ~Notice(k)
        PROVE  Shows(Sec!Window(windows, k), Sec!Window(seen, k))'
    <3> DEFINE w == Sec!Window(windows, k)
               s == Sec!Window(seen, k)
    <3>1. Shows(w, s) /\ w \in Seq(Nat) /\ s \in Seq(Nat) /\ Sec!Window(windows', k) = w /\ Sec!Window(seen', k) = s
      BY <1>1, <1>4, <2>3 DEF WindowsShow
    <3> HIDE DEF w, s
    <3>2. \A n \in 1..Len(s) : n > Len(w) => Latest(s, n) + Life < now + 1
      BY <1>3, <3>1, LatestNat DEF Shows
    <3>3. /\ Len(w) <= Len(s) /\ \A n \in 1..Len(w) : Latest(w, n) = Latest(s, n)
      BY <3>1 DEF Shows
    <3> QED BY <1>1, <3>1, <3>2, <3>3 DEF Shows, w, s
  <2> QED BY <1>0, <1>1, <2>1, <2>2, <2>3 DEF WindowsShow
<1>7. FeedKept'
  <2>1. lines \in Seq(Nat) /\ Feeds(lines, Sec!Window(windows, Announce)) /\ (\A n \in 1..Len(lines) : Latest(lines, n) <= now)
        /\ \A i \in 1..Len(lines) : \A j \in 1..i : lines[j] + AnnounceLife >= lines[i] => i - j <= AnnouncePermit
    BY DEF FeedKept
  <2>2. \A n \in 1..Len(lines) : Latest(lines, n) \in Nat
    BY <2>1, LatestNat
  <2>3. \A n \in 1..Len(lines) : Latest(lines, n) <= now + 1
    BY <1>0, <2>1, <2>2
  <2>4. \A n \in 1..Len(lines) : ~(Latest(lines, n) + AnnounceLife < now + 1) => ~(Latest(lines, n) + AnnounceLife < now)
    BY <1>0, <2>2
  <2> DEFINE v == Sec!Window(windows, Announce)
  <2> HIDE DEF v
  <2>5. \A n \in 1..Len(lines) : ~(Latest(lines, n) + AnnounceLife < now + 1) => n <= Len(v) /\ Latest(lines, n) <= Latest(v, n)
    BY <2>1, <2>4 DEF Feeds, v
  <2>6. Feeds(lines, v)'
    BY <1>1, <2>5 DEF Feeds, v
  <2> QED BY <1>1, <2>1, <2>3, <2>6 DEF FeedKept, v
<1> QED BY <1>2, <1>6, <1>7

LEMMA SecInit == ASSUME Sec!Init PROVE SecHolds
<1>0. EvadeTtl \in Nat /\ MaxNow["security"] \in Nat
  BY Secured DEF SecurityIs
<1>1. /\ mode \in {"report", "armed"} /\ windows = <<>> /\ quiet = 0 /\ evaded = [a \in Suspect |-> 0]
      /\ online \in [User -> BOOLEAN] /\ account \in [User -> Suspect \union {None}]
      /\ \A u \in User : account[u] # None => online[u]
      /\ now = 0 /\ lines = <<>> /\ seen = <<>> /\ split = 0
  BY DEF Sec!Init
<1>2. SecTypes
  <2>1. 0 \in 0..(MaxNow["security"] + EvadeTtl)
    BY <1>0
  <2>2. evaded \in [Suspect -> 0..(MaxNow["security"] + EvadeTtl)]
    BY <1>1, <2>1
  <2> QED BY <1>0, <1>1, <2>2 DEF SecTypes
<1>3. Windowed(<<>>) /\ DOMAIN <<>> = {} /\ Len(<<>>) = 0 /\ <<>> \in Seq(Nat)
  BY DEF Windowed
<1>4. WindowsShow
  BY <1>1, <1>3 DEF WindowsShow
<1>5. FeedKept
  BY <1>1, <1>3 DEF FeedKept, Feeds
<1> QED BY <1>2, <1>4, <1>5 DEF SecHolds

\* An event that keeps to the screens.
LEMMA ScreensHold == ASSUME SecHolds, Screens PROVE SecHolds' /\ Sec!ActedOnFloods /\ Sec!QuietAfterSplit
<1> USE DEF SecHolds
<1>0. now \in Nat /\ Windowed(seen)
  BY DEF SecTypes, WindowsShow
<1>1. SecTypes' /\ Sec!QuietAfterSplit
  BY DEF Screens, Sec!QuietAfterSplit
<1>2. CASE UNCHANGED <<now, windows, seen, lines>>
  <2>1. WindowsShow' /\ FeedKept'
    BY <1>2, WindowsRest
  <2>2. \A k \in DOMAIN seen' : seen'[k] = Sec!Window(seen, k)
    BY <1>0, <1>2, WindowIs
  <2>3. Sec!ActedOnFloods
    BY <2>2 DEF Sec!ActedOnFloods
  <2> QED BY <1>1, <2>1, <2>3
<1>3. CASE Moved
  <2>1. PICK ks, all : Hitting(ks, all) /\ Fed(all) /\ JudgedKeys(ks)
    BY <1>3 DEF Moved
  <2>2. WindowsShow' /\ FeedKept'
    BY <1>0, <2>1, HittingShows, HittingFeeds
  <2>3. /\ DOMAIN seen' = DOMAIN seen \union Sec!Keys(ks) /\ Windowed(seen')
        /\ \A k : k \in Sec!Keys(ks) => seen'[k] = Append(Sec!Window(seen, k), now)
        /\ \A k : k \notin Sec!Keys(ks) => Sec!Window(seen', k) = Sec!Window(seen, k)
    BY Zenon, <1>0, <2>1, RecordIs DEF Hitting
  <2>4. ASSUME NEW k \in DOMAIN seen', k[1] # "jj", seen'[k] # Sec!Window(seen, k)
        PROVE  /\ Sec!Cardinality({i \in DOMAIN seen'[k] : seen'[k][i] + Life >= now}) > Permit => acted' # {}
               /\ (\E u \in User : <<u, k>> \in acted') =>
                     Sec!Cardinality({i \in DOMAIN seen'[k] : seen'[k][i] + Life >= now}) > Permit
    <3>1. k \in Sec!Keys(ks)
      <4>1. Sec!Window(seen', k) = seen'[k]
        BY <2>3, <2>4, WindowIs
      <4> QED BY <2>3, <2>4, <4>1
    <3>2. seen'[k] = Append(Sec!Window(seen, k), now) /\ ~Notice(k)
      BY <2>1, <2>3, <3>1 DEF Hitting
    <3> DEFINE t == seen'[k]
               In == {i \in DOMAIN t : t[i] + Life >= now}
    <3>3. t = Append(Sec!Window(seen, k), now)
      BY <3>2
    <3> HIDE DEF t
    <3>4. Sec!Cardinality(In) = Sec!count(windows, k, Life) + 1
      BY Zenon, <1>0, <3>2, <3>3, WithinIs
    <3>5. (Tripped(k) => acted' # {}) /\ ((\E u \in User : <<u, k>> \in acted') => Tripped(k))
      BY <2>1, <2>4, <3>1 DEF JudgedKeys
    <3> QED BY <3>4, <3>5 DEF Tripped, t
  <2>5. Sec!ActedOnFloods
    BY <2>4 DEF Sec!ActedOnFloods
  <2> QED BY <1>1, <2>2, <2>5
<1> QED BY <1>2, <1>3 DEF Screens

LEMMA SecStep == ASSUME SecHolds, Sec!Next PROVE SecHolds' /\ Sec!ActedOnFloods /\ Sec!QuietAfterSplit
<1>1. CASE Sec!Tick
  <2>1. acted' = {} /\ seen' = seen
    BY <1>1 DEF Sec!Tick, Sec!history
  <2>2. \A k \in DOMAIN seen' : seen'[k] = Sec!Window(seen, k)
    BY <2>1, WindowIs DEF SecHolds, WindowsShow
  <2>3. Sec!ActedOnFloods
    BY <2>2 DEF Sec!ActedOnFloods
  <2> QED BY <1>1, <2>1, <2>3, SecTick DEF Sec!QuietAfterSplit
<1>2. CASE ~Sec!Tick
  <2>0. SecTypes
    BY DEF SecHolds
  <2>1. CASE \E u \in User : Sec!Traffic(u)
    <3>1. PICK u \in User : Sec!Traffic(u)
      BY <2>1
    <3> QED BY <2>0, <3>1, Nicked, AuthFailed, Joined, Parted, Spoke, Connected, Left, LoggedIn, Quiet, ScreensHold DEF Sec!Traffic
  <2>2. CASE Sec!mark_netsplit \/ \E m \in {"off", "report", "armed"} : Sec!configure(m)
    BY <2>0, <2>2, Quiet, ScreensHold
  <2> QED BY <1>2, <2>1, <2>2 DEF Sec!Next
<1> QED BY <1>1, <1>2

\* What the screens promise.
LEMMA WindowsAreComplete == SecHolds => Sec!WindowsComplete
<1> SUFFICES ASSUME SecHolds, NEW k \in DOMAIN seen
             PROVE  LET live(times) == {n \in 1..Len(times) : Sec!Back(times, n) + Life >= now}
                        kept == Sec!Window(windows, k)
                    IN  /\ live(seen[k]) = live(kept)
                        /\ \A n \in live(kept) : Sec!Back(seen[k], n) = Sec!Back(kept, n)
  BY DEF Sec!WindowsComplete
<1> DEFINE s == seen[k]
           w == Sec!Window(windows, k)
<1>1. /\ Life \in Nat /\ now \in Nat /\ s \in Seq(Nat) /\ w \in Seq(Nat) /\ Shows(w, s)
  BY SMTT(20), Secured, WindowIs DEF SecurityIs, SecHolds, SecTypes, WindowsShow, Windowed
<1> HIDE DEF s, w
<1>2. /\ Len(w) <= Len(s) /\ \A n \in 1..Len(w) : Latest(w, n) = Latest(s, n)
      /\ \A n \in 1..Len(s) : n > Len(w) => Latest(s, n) + Life < now
      /\ Len(w) \in Nat /\ Len(s) \in Nat
  BY <1>1 DEF Shows
<1>3. \A n \in 1..Len(s) : ~(n > Len(w)) => n \in 1..Len(w)
  BY <1>2
<1>4. \A n \in 1..Len(s) : Latest(s, n) \in Nat
  BY <1>1, LatestNat
<1>5. \A x \in Nat : x + Life < now => ~(x + Life >= now)
  BY <1>1
<1>6. \A n \in 1..Len(s) : Latest(s, n) + Life >= now => n \in 1..Len(w)
  BY <1>2, <1>3, <1>4, <1>5
<1>7. 1..Len(w) \subseteq 1..Len(s)
  BY <1>2
<1>8. /\ {n \in 1..Len(s) : Latest(s, n) + Life >= now} = {n \in 1..Len(w) : Latest(w, n) + Life >= now}
      /\ \A n \in 1..Len(w) : Latest(s, n) = Latest(w, n)
  BY <1>2, <1>6, <1>7
<1> QED BY <1>8, BackIs DEF s, w

LEMMA FeedIsBounded == SecHolds => Sec!FeedBounded
<1> SUFFICES ASSUME SecHolds, NEW i \in DOMAIN lines
             PROVE  Sec!Cardinality({j \in 1..i : lines[j] + AnnounceLife >= lines[i]}) <= AnnouncePermit + 1
  BY DEF Sec!FeedBounded
<1> DEFINE In == {j \in 1..i : lines[j] + AnnounceLife >= lines[i]}
           lo == IF i > AnnouncePermit THEN i - AnnouncePermit ELSE 1
<1>1. AnnouncePermit \in Nat /\ i \in 1..Len(lines) /\ i \in Nat /\ i >= 1
      /\ \A j \in 1..i : lines[j] + AnnounceLife >= lines[i] => i - j <= AnnouncePermit
  BY SMTT(20), Secured DEF SecurityIs, SecHolds, FeedKept
<1>2. lo \in 1..i /\ i - lo + 1 <= AnnouncePermit + 1 /\ \A j \in 1..i : i - j <= AnnouncePermit => j \in lo..i
  BY <1>1
<1>3. In \subseteq lo..i
  BY Zenon, <1>1, <1>2
<1> HIDE DEF In, lo
<1>4. IsFiniteSet(lo..i) /\ Cardinality(lo..i) = i - lo + 1
  <2>1. lo \in Int /\ i \in Int /\ ~(lo > i)
    BY <1>1, <1>2
  <2> QED BY <2>1, FS_Interval
<1>5. Cardinality(In) <= i - lo + 1 /\ Cardinality(In) \in Nat
  <2>1. In \in SUBSET (lo..i)
    BY <1>3
  <2>2. IsFiniteSet(In) /\ Cardinality(In) <= Cardinality(lo..i)
    BY <1>4, <2>1, FS_Subset
  <2>3. Cardinality(In) \in Nat
    BY <2>2, FS_CardinalityType
  <2> QED BY <1>4, <2>2, <2>3
<1>6. Sec!Cardinality(In) = Cardinality(In)
  BY DEF Sec!Cardinality, Cardinality
<1>7. Cardinality(In) <= AnnouncePermit + 1
  BY <1>1, <1>2, <1>5
<1> QED BY <1>6, <1>7 DEF In

LEMMA ScreensTyped == SecHolds => Sec!TypeOK
<1> SUFFICES ASSUME SecHolds PROVE Sec!TypeOK
  OBVIOUS
<1>1. ASSUME NEW k \in DOMAIN windows, NEW i \in DOMAIN windows[k]
      PROVE  windows[k][i] \in 0..now /\ (i > 1 => windows[k][i - 1] <= windows[k][i])
  <2> DEFINE t == windows[k]
  <2>1. t \in Seq(Nat) /\ Aged(t, now) /\ i \in DOMAIN t /\ now \in Nat
    BY DEF SecHolds, SecTypes, WindowsShow, Windowed
  <2> HIDE DEF t
  <2>2. i \in 1..Len(t) /\ t[i] \in Nat /\ Len(t) \in Nat
    BY <2>1
  <2>3. /\ Len(t) + 1 - i \in 1..Len(t) /\ Len(t) + 1 - (Len(t) + 1 - i) = i
    BY <2>2
  <2>4. t[i] <= now
    BY <2>1, <2>3 DEF Aged, Latest
  <2>5. i > 1 => t[i - 1] <= t[i]
    <3> SUFFICES ASSUME i > 1 PROVE t[i - 1] <= t[i]
      OBVIOUS
    <3>1. /\ Len(t) + 1 - (i - 1) \in 1..Len(t) /\ Len(t) + 1 - (Len(t) + 1 - (i - 1)) = i - 1
          /\ Len(t) + 1 - i \in 1..(Len(t) + 1 - (i - 1))
      BY <2>2
    <3>2. Latest(t, Len(t) + 1 - (i - 1)) <= Latest(t, Len(t) + 1 - i)
      BY <2>1, <3>1 DEF Aged
    <3> QED BY <2>3, <3>1, <3>2 DEF Latest
  <2>6. t[i] \in 0..now
    BY <2>1, <2>2, <2>4
  <2> QED BY <2>5, <2>6 DEF t
<1> QED BY <1>1 DEF SecHolds, SecTypes, Sec!TypeOK

-----------------------------------------------------------------------------
(* Limits: what a bucket still holds is what its client has not used.      *)

LimitsAre ==
    /\ Cost \in Nat /\ CmdBurst \in Nat /\ CmdRefill \in Nat /\ RegBurst \in Nat /\ RegRefill \in Nat
    /\ DictBurst \in Nat /\ DictRefill \in Nat /\ WarnEvery \in Nat /\ SweepEvery \in Nat
    /\ Cost <= CmdBurst
    /\ "register" \notin Caller /\ "lookup" \notin Caller /\ None \notin Nat

LEMMA Limited == LimitsAre
BY LimitsAssumption DEF LimitsAre

\* From each use up to the last look at the bucket no more was used than a
\* full bucket and what was refilled, what is left over included.
Meets(tokens, last, times, burst, refill) ==
    \A i \in 1..Len(times) :
        /\ times[i] <= last
        /\ (Len(times) - i + 1) * Cost + tokens <= burst + (last - times[i]) * refill

Within(times, burst, refill) ==
    \A i, j \in 1..Len(times) : i <= j =>
        (j - i + 1) * Cost <= burst + (times[j] - times[i]) * refill

\* For a bucket nobody remembers, a full one comes up with it.
Outlasted(times, at, refill) ==
    \A i \in 1..Len(times) :
        /\ times[i] <= at
        /\ (Len(times) - i + 1) * Cost <= (at - times[i]) * refill

Bucket(burst) == [tokens : 0..burst, last : 0..now]

LimitTypes ==
    /\ now \in Nat
    /\ swept \in {None} \union 0..now
    /\ cmd = [h \in DOMAIN cmd |-> cmd[h]] /\ DOMAIN cmd \subseteq Caller
    /\ \A h \in DOMAIN cmd : cmd[h] \in [tokens : 0..CmdBurst, last : 0..now, warned : {None} \union 0..now]
    /\ reg \in Bucket(RegBurst) /\ dict \in Bucket(DictBurst)
    /\ ran \in [Limit!Client -> Seq(Nat)]
    /\ told \in Seq(Caller \X Nat \X {"warn", "drop"})

BucketsMeet ==
    /\ Meets(reg.tokens, reg.last, ran["register"], RegBurst, RegRefill)
    /\ Meets(dict.tokens, dict.last, ran["lookup"], DictBurst, DictRefill)
    /\ \A h \in Caller :
        /\ h \in DOMAIN cmd => Meets(cmd[h].tokens, cmd[h].last, ran[h], CmdBurst, CmdRefill)
        /\ h \notin DOMAIN cmd => Outlasted(ran[h], now, CmdRefill)

AllWithin ==
    /\ Within(ran["register"], RegBurst, RegRefill)
    /\ Within(ran["lookup"], DictBurst, DictRefill)
    /\ \A h \in Caller : Within(ran[h], CmdBurst, CmdRefill)

-----------------------------------------------------------------------------
(* Arithmetic of refills.                                                  *)

LEMMA RefillAdds ==
    ASSUME NEW t \in Nat, NEW a \in Nat, NEW n \in Nat, NEW r \in Nat
    PROVE  (n - t) * r = (a - t) * r + (n - a) * r
OBVIOUS

LEMMA RefillGrows ==
    ASSUME NEW a \in Nat, NEW n \in Nat, NEW r \in Nat, a <= n
    PROVE  (n - a) * r \in Nat
OBVIOUS

LEMMA OneMore ==
    ASSUME NEW k \in Nat, NEW c \in Nat
    PROVE  (k + 1) * c = k * c + c
OBVIOUS

\* A look at the bucket refills it.
LEMMA MeetsLater ==
    ASSUME NEW times \in Seq(Nat), NEW tokens \in Nat, NEW last \in Nat, NEW at \in Nat, last <= at,
           NEW burst \in Nat, NEW refill \in Nat, NEW level \in Nat,
           level <= tokens + (at - last) * refill, Cost \in Nat,
           Meets(tokens, last, times, burst, refill)
    PROVE  Meets(level, at, times, burst, refill)
<1> SUFFICES ASSUME NEW i \in 1..Len(times)
             PROVE  /\ times[i] <= at
                    /\ (Len(times) - i + 1) * Cost + level <= burst + (at - times[i]) * refill
  BY DEF Meets
<1> DEFINE used == (Len(times) - i + 1) * Cost
           r1 == (last - times[i]) * refill
           r2 == (at - last) * refill
           r3 == (at - times[i]) * refill
<1>1. times[i] \in Nat /\ times[i] <= last /\ used + tokens <= burst + r1
  BY DEF Meets
<1>2. r3 = r1 + r2
  BY <1>1, RefillAdds
<1>3. r2 \in Nat
  BY RefillGrows
<1>4. r1 \in Nat
  BY Zenon, <1>1, RefillGrows
<1>5. used \in Nat
  OBVIOUS
<1>6. level <= tokens + r2
  OBVIOUS
<1> HIDE DEF used, r1, r2, r3
<1>7. used + level <= burst + r3
  BY <1>1, <1>2, <1>3, <1>4, <1>5, <1>6
<1> QED BY <1>1, <1>7 DEF used, r3

\* Letting through takes a token.
LEMMA MeetsUse ==
    ASSUME NEW times \in Seq(Nat), NEW at \in Nat, NEW burst \in Nat, NEW refill \in Nat, NEW level \in Nat,
           level <= burst, Cost \in Nat, Cost <= level,
           Meets(level, at, times, burst, refill), Within(times, burst, refill)
    PROVE  /\ Meets(level - Cost, at, Append(times, at), burst, refill)
           /\ Within(Append(times, at), burst, refill)
<1> DEFINE ts == Append(times, at)
           n == Len(times)
<1>1. /\ n \in Nat /\ Len(ts) = n + 1 /\ ts[n + 1] = at
      /\ \A i \in 1..n : ts[i] = times[i] /\ times[i] \in Nat
  OBVIOUS
<1> HIDE DEF ts
<1>2. ASSUME NEW i \in 1..(n + 1)
      PROVE  /\ ts[i] <= at
             /\ (n + 1 - i + 1) * Cost + (level - Cost) <= burst + (at - ts[i]) * refill
  <2>1. CASE i = n + 1
    BY <1>1, <2>1
  <2>2. CASE i # n + 1
    <3> DEFINE used == (n - i + 1) * Cost
               r == (at - times[i]) * refill
    <3>1. i \in 1..n
      BY <1>1, <2>2
    <3>2. times[i] <= at /\ used + level <= burst + r
      BY <3>1 DEF Meets
    <3>3. (n + 1 - i + 1) * Cost = used + Cost
      <4>1. n - i + 1 \in Nat /\ n + 1 - i + 1 = (n - i + 1) + 1
        BY <1>1, <3>1
      <4> QED BY <4>1, OneMore
    <3>4. used \in Nat
      <4>1. n - i + 1 \in Nat
        BY <1>1, <3>1
      <4> QED BY <4>1
    <3>5. ts[i] = times[i] /\ times[i] \in Nat
      BY <1>1, <3>1
    <3>6. r \in Nat
      BY Zenon, <3>2, <3>5, RefillGrows
    <3> HIDE DEF used
    <3>7. used + Cost + (level - Cost) <= burst + r
      BY <3>2, <3>4, <3>6
    <3> QED BY <3>2, <3>3, <3>5, <3>7
  <2> QED BY <2>1, <2>2
<1>3. Meets(level - Cost, at, ts, burst, refill)
  BY <1>1, <1>2 DEF Meets
<1>4. ASSUME NEW i \in 1..(n + 1), NEW j \in 1..(n + 1), i <= j
      PROVE  (j - i + 1) * Cost <= burst + (ts[j] - ts[i]) * refill
  <2>1. CASE j = n + 1
    <3>1. (n + 1 - i + 1) * Cost + (level - Cost) <= burst + (at - ts[i]) * refill
      BY <1>2
    <3>2. n + 1 - i + 1 \in Nat /\ ts[i] <= at
      BY <1>1, <1>2
    <3>4. ts[i] \in Nat
      <4>1. i = n + 1 \/ i \in 1..n
        BY <1>1
      <4> QED BY Zenon, <1>1, <4>1
    <3>3. (n + 1 - i + 1) * Cost \in Nat /\ (at - ts[i]) * refill \in Nat
      BY <3>2, <3>4, RefillGrows
    <3> QED BY <1>1, <2>1, <3>1, <3>3
  <2>2. CASE j # n + 1
    <3>1. i \in 1..n /\ j \in 1..n
      BY <1>1, <1>4, <2>2
    <3> QED BY <1>1, <1>4, <3>1 DEF Within
  <2> QED BY <2>1, <2>2
<1>5. Within(ts, burst, refill)
  BY <1>1, <1>4 DEF Within
<1> QED BY <1>3, <1>5 DEF ts

\* A full bucket that is forgotten comes up with what was used.
LEMMA MeetsFull ==
    ASSUME NEW times \in Seq(Nat), NEW at \in Nat, NEW burst \in Nat, NEW refill \in Nat, Cost \in Nat,
           Meets(burst, at, times, burst, refill)
    PROVE  Outlasted(times, at, refill)
<1> SUFFICES ASSUME NEW i \in 1..Len(times)
             PROVE  times[i] <= at /\ (Len(times) - i + 1) * Cost <= (at - times[i]) * refill
  BY DEF Outlasted
<1> DEFINE used == (Len(times) - i + 1) * Cost
           r == (at - times[i]) * refill
<1>1. times[i] \in Nat /\ times[i] <= at /\ used + burst <= burst + r
  BY DEF Meets
<1>2. used \in Nat
  <2>1. Len(times) - i + 1 \in Nat
    OBVIOUS
  <2> QED BY <2>1
<1>3. r \in Nat
  BY Zenon, <1>1, RefillGrows
<1> HIDE DEF used, r
<1>4. used <= r
  BY <1>1, <1>2, <1>3
<1> QED BY <1>1, <1>4 DEF used, r

\* A bucket that comes anew is full.
LEMMA OutlastedMeets ==
    ASSUME NEW times \in Seq(Nat), NEW at \in Nat, NEW burst \in Nat, NEW refill \in Nat, Cost \in Nat,
           Outlasted(times, at, refill)
    PROVE  Meets(burst, at, times, burst, refill)
<1> SUFFICES ASSUME NEW i \in 1..Len(times)
             PROVE  times[i] <= at /\ (Len(times) - i + 1) * Cost + burst <= burst + (at - times[i]) * refill
  BY DEF Meets
<1> DEFINE used == (Len(times) - i + 1) * Cost
           r == (at - times[i]) * refill
<1>1. times[i] \in Nat /\ times[i] <= at /\ used <= r
  BY DEF Outlasted
<1>2. used \in Nat
  <2>1. Len(times) - i + 1 \in Nat
    OBVIOUS
  <2> QED BY <2>1
<1>3. r \in Nat
  BY Zenon, <1>1, RefillGrows
<1> HIDE DEF used, r
<1>4. used + burst <= burst + r
  BY <1>1, <1>2, <1>3
<1> QED BY <1>1, <1>4 DEF used, r

\* Forgotten stays forgotten.
LEMMA OutlastedLater ==
    ASSUME NEW times \in Seq(Nat), NEW at \in Nat, NEW then \in Nat, at <= then, NEW refill \in Nat, Cost \in Nat,
           Outlasted(times, at, refill)
    PROVE  Outlasted(times, then, refill)
<1> SUFFICES ASSUME NEW i \in 1..Len(times)
             PROVE  times[i] <= then /\ (Len(times) - i + 1) * Cost <= (then - times[i]) * refill
  BY DEF Outlasted
<1> DEFINE used == (Len(times) - i + 1) * Cost
           r1 == (at - times[i]) * refill
           r2 == (then - at) * refill
<1>1. times[i] \in Nat /\ times[i] <= at /\ used <= r1
  BY DEF Outlasted
<1>2. r1 \in Nat /\ r2 \in Nat
  BY Zenon, <1>1, RefillGrows
<1>3. (then - times[i]) * refill = r1 + r2
  BY <1>1, RefillAdds
<1>4. used \in Nat
  <2>1. Len(times) - i + 1 \in Nat
    OBVIOUS
  <2> QED BY <2>1
<1> HIDE DEF used, r1, r2
<1>5. used <= r1 + r2
  BY <1>1, <1>2, <1>4
<1> QED BY <1>1, <1>3, <1>5 DEF used

\* Whoever was cut off was warned; whoever was warned just now has no token left.
WarnedRight ==
    /\ \A h \in DOMAIN cmd : cmd[h].warned # None =>
          \E i \in 1..Len(told) : told[i] = <<h, cmd[h].warned, "warn">>
    /\ \A i \in 1..Len(told) :
          /\ told[i][2] <= now
          /\ told[i][3] = "warn" /\ told[i][2] = now =>
                /\ told[i][1] \in DOMAIN cmd
                /\ cmd[told[i][1]].warned = now /\ cmd[told[i][1]].last = now
                /\ cmd[told[i][1]].tokens < Cost

ToldRight ==
    \A i \in 1..Len(told) :
        /\ told[i][3] = "drop" =>
              \E j \in 1..Len(told) : /\ j < i /\ told[j][1] = told[i][1] /\ told[j][3] = "warn"
                                      /\ told[j][2] <= told[i][2] /\ told[i][2] < told[j][2] + WarnEvery
        /\ told[i][3] = "warn" =>
              \A j \in 1..Len(told) : j # i /\ told[j][1] = told[i][1] /\ told[j][3] = "warn"
                                      /\ told[i][2] < told[j][2] + WarnEvery => told[j][2] # told[i][2]

LimitHolds == LimitTypes /\ BucketsMeet /\ AllWithin /\ WarnedRight /\ ToldRight

\* A call or a look at a bucket.
LEMMA LevelIs ==
    ASSUME NEW burst \in Nat, NEW refill \in Nat, NEW tokens \in 0..burst, NEW last \in 0..now, now \in Nat,
           NEW b, b.tokens = tokens, b.last = last
    PROVE  /\ Limit!Level(b, refill, burst) \in 0..burst
           /\ Limit!Level(b, refill, burst) <= tokens + (now - last) * refill
<1> DEFINE r == (now - last) * refill
<1>1. r \in Nat
  BY RefillGrows
<1>2. Limit!Level(b, refill, burst) = IF tokens + r < burst THEN tokens + r ELSE burst
  BY DEF Limit!Level, Limit!AtMost
<1> HIDE DEF r
<1>3. /\ (IF tokens + r < burst THEN tokens + r ELSE burst) \in 0..burst
      /\ (IF tokens + r < burst THEN tokens + r ELSE burst) <= tokens + r
  BY <1>1
<1> QED BY <1>2, <1>3 DEF r

\* The two limiters without hosts (RegLimiter, DictLimiter).
LEMMA AllowMeets ==
    ASSUME NEW b \in Bucket(CmdBurst) \union Bucket(RegBurst) \union Bucket(DictBurst), NEW kept, NEW who \in {"register", "lookup"},
           NEW burst \in Nat, NEW refill \in Nat, b \in Bucket(burst), LimitTypes, Cost \in Nat,
           Meets(b.tokens, b.last, ran[who], burst, refill), Within(ran[who], burst, refill),
           Limit!Allow(b, refill, burst, who, kept)
    PROVE  /\ kept \in Bucket(burst)
           /\ ran' \in [Limit!Client -> Seq(Nat)] /\ \A w \in Limit!Client : w # who => ran'[w] = ran[w]
           /\ Meets(kept.tokens, kept.last, ran'[who], burst, refill) /\ Within(ran'[who], burst, refill)
<1> DEFINE level == Limit!Level(b, refill, burst)
<1>1. now \in Nat /\ b.tokens \in 0..burst /\ b.last \in 0..now /\ ran \in [Limit!Client -> Seq(Nat)]
      /\ b = [tokens |-> b.tokens, last |-> b.last]
  BY DEF LimitTypes, Bucket
<1>2. level \in 0..burst /\ level <= b.tokens + (now - b.last) * refill
  BY Zenon, <1>1, LevelIs
<1>3. kept = [b EXCEPT !.tokens = Limit!Spend(level), !.last = now]
  BY DEF Limit!Allow
<1>4. IF level >= Cost THEN ran' = [ran EXCEPT ![who] = Append(@, now)] ELSE ran' = ran
  BY DEF Limit!Allow, Limit!LetThrough
<1>5. who \in Limit!Client /\ ran[who] \in Seq(Nat)
  BY <1>1 DEF Limit!Client
<1> HIDE DEF level
<1>6. Meets(level, now, ran[who], burst, refill)
  <2>1. level \in Nat /\ b.tokens \in Nat /\ b.last \in Nat /\ b.last <= now
    BY <1>1, <1>2
  <2> QED BY Zenon, <1>1, <1>2, <1>5, <2>1, MeetsLater
<1>7. kept.tokens = (IF level >= Cost THEN level - Cost ELSE level) /\ kept.last = now
      /\ kept = [tokens |-> kept.tokens, last |-> kept.last]
  BY Zenon, <1>1, <1>3 DEF Limit!Spend
<1>8. CASE level >= Cost
  <2>1. ran' = [ran EXCEPT ![who] = Append(@, now)] /\ ran'[who] = Append(ran[who], now)
    BY <1>1, <1>4, <1>5, <1>8
  <2>2. Meets(level - Cost, now, Append(ran[who], now), burst, refill) /\ Within(Append(ran[who], now), burst, refill)
    <3>1. level \in Nat /\ level <= burst /\ Cost <= level
      BY <1>2, <1>8
    <3> QED BY <1>1, <1>5, <1>6, <3>1, MeetsUse
  <2>3. kept.tokens = level - Cost /\ kept.tokens \in 0..burst /\ now \in 0..now
    BY <1>1, <1>2, <1>7, <1>8
  <2>4. ran' \in [Limit!Client -> Seq(Nat)] /\ \A w \in Limit!Client : w # who => ran'[w] = ran[w]
    BY <1>1, <1>5, <2>1
  <2> QED BY <1>7, <2>1, <2>2, <2>3, <2>4 DEF Bucket
<1>9. CASE ~(level >= Cost)
  <2>1. ran' = ran
    BY <1>4, <1>9
  <2>2. kept.tokens = level /\ kept.tokens \in 0..burst /\ now \in 0..now
    BY <1>1, <1>2, <1>7, <1>9
  <2> QED BY <1>1, <1>6, <1>7, <2>1, <2>2 DEF Bucket
<1> QED BY <1>8, <1>9

LEMMA AloneStep ==
    ASSUME LimitHolds, \/ \E r \in BOOLEAN : Limit!register(r)
                       \/ Limit!lookup
    PROVE  LimitHolds'
<1> USE DEF LimitHolds
<1>0. LimitsAre /\ {"register", "lookup"} \subseteq Limit!Client /\ Caller \subseteq Limit!Client
  BY Limited DEF Limit!Client
<1>1. UNCHANGED <<cmd, swept, now, told>>
  BY DEF Limit!register, Limit!lookup
<1>2. WarnedRight' /\ ToldRight'
  BY Zenon, <1>1 DEF WarnedRight, ToldRight
<1>3. CASE UNCHANGED <<reg, dict, ran>>
  BY <1>1, <1>2, <1>3 DEF LimitTypes, Bucket, BucketsMeet, AllWithin
<1>4. CASE Limit!Allow(reg, RegRefill, RegBurst, "register", reg') /\ dict' = dict
  <2>1. /\ reg' \in Bucket(RegBurst)
        /\ ran' \in [Limit!Client -> Seq(Nat)] /\ \A w \in Limit!Client : w # "register" => ran'[w] = ran[w]
        /\ Meets(reg'.tokens, reg'.last, ran'["register"], RegBurst, RegRefill) /\ Within(ran'["register"], RegBurst, RegRefill)
    BY Zenon, <1>0, <1>4, AllowMeets DEF LimitsAre, LimitTypes, BucketsMeet, AllWithin
  <2>2. ran'["lookup"] = ran["lookup"] /\ \A h \in Caller : ran'[h] = ran[h]
    BY <1>0, <2>1 DEF LimitsAre
  <2>3. LimitTypes'
    BY <1>1, <1>4, <2>1 DEF LimitTypes, Bucket
  <2>4. BucketsMeet' /\ AllWithin'
    BY <1>1, <1>4, <2>1, <2>2 DEF BucketsMeet, AllWithin
  <2> QED BY <1>2, <2>3, <2>4
<1>5. CASE Limit!Allow(dict, DictRefill, DictBurst, "lookup", dict') /\ reg' = reg
  <2>1. /\ dict' \in Bucket(DictBurst)
        /\ ran' \in [Limit!Client -> Seq(Nat)] /\ \A w \in Limit!Client : w # "lookup" => ran'[w] = ran[w]
        /\ Meets(dict'.tokens, dict'.last, ran'["lookup"], DictBurst, DictRefill) /\ Within(ran'["lookup"], DictBurst, DictRefill)
    BY Zenon, <1>0, <1>5, AllowMeets DEF LimitsAre, LimitTypes, BucketsMeet, AllWithin
  <2>2. ran'["register"] = ran["register"] /\ \A h \in Caller : ran'[h] = ran[h]
    BY <1>0, <2>1 DEF LimitsAre
  <2>3. LimitTypes'
    BY <1>1, <1>5, <2>1 DEF LimitTypes, Bucket
  <2>4. BucketsMeet' /\ AllWithin'
    BY <1>1, <1>5, <2>1, <2>2 DEF BucketsMeet, AllWithin
  <2> QED BY <1>2, <2>3, <2>4
<1> QED BY <1>3, <1>4, <1>5 DEF Limit!register, Limit!lookup

LEMMA LimitTickStep == ASSUME LimitHolds, Limit!Tick PROVE LimitHolds'
<1> USE DEF LimitHolds
<1>1. now' = now + 1 /\ UNCHANGED <<cmd, swept, reg, dict, calls, ran, told>> /\ now \in Nat
  BY DEF Limit!Tick, LimitTypes
<1>2. LimitTypes'
  <2>1. now' \in Nat /\ 0..now \subseteq 0..now'
    BY <1>1
  <2> QED BY <1>1, <2>1 DEF LimitTypes, Bucket
<1>3. ASSUME NEW h \in Caller, h \notin DOMAIN cmd PROVE Outlasted(ran[h], now + 1, CmdRefill)
  <2>1. ran[h] \in Seq(Nat) /\ CmdRefill \in Nat /\ Cost \in Nat
    BY Limited DEF LimitTypes, Limit!Client, LimitsAre
  <2>2. Outlasted(ran[h], now, CmdRefill) /\ now <= now + 1 /\ now + 1 \in Nat
    BY <1>1, <1>3 DEF BucketsMeet
  <2> QED BY <1>1, <2>1, <2>2, OutlastedLater
<1>4. BucketsMeet'
  BY <1>1, <1>3 DEF BucketsMeet
<1>5. AllWithin' /\ ToldRight'
  BY <1>1 DEF AllWithin, ToldRight
<1>6. WarnedRight'
  <2>1. \A i \in 1..Len(told) : told[i][2] \in Nat /\ told[i][2] <= now
    BY DEF WarnedRight, LimitTypes
  <2>2. \A i \in 1..Len(told) : told[i][2] <= now + 1 /\ told[i][2] # now + 1
    BY <1>1, <2>1
  <2> QED BY Zenon, <1>1, <2>2 DEF WarnedRight
<1> QED BY <1>2, <1>4, <1>5, <1>6

\* What a sweep leaves, and what it forgets.
LEMMA SweptIs ==
    ASSUME LimitHolds
    PROVE  /\ DOMAIN Limit!Swept \subseteq DOMAIN cmd
           /\ Limit!Swept = [h \in DOMAIN Limit!Swept |-> cmd[h]]
           /\ \A h \in Caller : h \notin DOMAIN Limit!Swept => Outlasted(ran[h], now, CmdRefill)
           /\ \A h \in DOMAIN cmd : cmd[h].last = now /\ cmd[h].tokens < Cost => h \in DOMAIN Limit!Swept
<1> USE DEF LimitHolds
<1>0. LimitsAre /\ now \in Nat /\ Caller \subseteq Limit!Client
  BY Limited DEF LimitTypes, Limit!Client
<1>1. CASE ~Limit!Due
  BY <1>1 DEF Limit!Swept, LimitTypes, BucketsMeet
<1>2. CASE Limit!Due
  <2>1. Limit!Swept = [h \in {g \in DOMAIN cmd : Limit!Kept(g)} |-> cmd[h]]
    BY <1>2 DEF Limit!Swept
  <2>2. ASSUME NEW h \in DOMAIN cmd
        PROVE  cmd[h].tokens \in 0..CmdBurst /\ cmd[h].last \in 0..now /\ h \in Caller
    BY DEF LimitTypes
  <2>3. ASSUME NEW h \in DOMAIN cmd, ~Limit!Kept(h) PROVE Outlasted(ran[h], now, CmdRefill)
    <3> DEFINE more == (now - cmd[h].last) * CmdRefill
    <3>1. CmdBurst \in Nat /\ CmdRefill \in Nat /\ Cost \in Nat /\ ran[h] \in Seq(Nat) /\ h \in Caller
      BY <1>0, <2>2 DEF LimitsAre, LimitTypes
    <3>2. cmd[h].tokens \in Nat /\ cmd[h].last \in Nat /\ cmd[h].last <= now
      BY <1>0, <2>2, <3>1
    <3>3. more \in Nat
      BY <1>0, <3>1, <3>2, RefillGrows
    <3>4. ~(cmd[h].tokens + more < CmdBurst)
      BY <2>3 DEF Limit!Kept
    <3>5. CmdBurst <= cmd[h].tokens + more
      <4> HIDE DEF more
      <4> QED BY <3>1, <3>2, <3>3, <3>4
    <3>6. Meets(cmd[h].tokens, cmd[h].last, ran[h], CmdBurst, CmdRefill)
      BY <3>1 DEF BucketsMeet
    <3>7. Meets(CmdBurst, now, ran[h], CmdBurst, CmdRefill)
      <4> DEFINE tk == cmd[h].tokens
                 la == cmd[h].last
                 ts == ran[h]
      <4>1. /\ tk \in Nat /\ la \in Nat /\ la <= now /\ ts \in Seq(Nat)
            /\ CmdBurst <= tk + (now - la) * CmdRefill /\ Meets(tk, la, ts, CmdBurst, CmdRefill)
        BY <3>1, <3>2, <3>5, <3>6
      <4> HIDE DEF tk, la, ts, more
      <4>2. Meets(CmdBurst, now, ts, CmdBurst, CmdRefill)
        BY <1>0, <3>1, <4>1, MeetsLater
      <4> QED BY <4>2 DEF ts
    <3> QED BY <1>0, <3>1, <3>7, MeetsFull
  <2>4. ASSUME NEW h \in DOMAIN cmd, cmd[h].last = now, cmd[h].tokens < Cost PROVE Limit!Kept(h)
    <3>1. CmdBurst \in Nat /\ CmdRefill \in Nat /\ Cost \in Nat /\ Cost <= CmdBurst /\ cmd[h].tokens \in Nat
      BY <1>0, <2>2 DEF LimitsAre
    <3>2. (now - now) * CmdRefill = 0
      BY <1>0, <3>1
    <3>3. cmd[h].tokens + 0 < CmdBurst
      BY <2>4, <3>1
    <3> QED BY <2>4, <3>2, <3>3 DEF Limit!Kept
  <2> QED BY <2>1, <2>3, <2>4 DEF BucketsMeet
<1> QED BY <1>1, <1>2

\* A bucket as a command finds it.
Found(b, h) ==
    /\ b \in [tokens : 0..CmdBurst, last : 0..now, warned : {None} \union 0..now]
    /\ Meets(b.tokens, b.last, ran[h], CmdBurst, CmdRefill)
    /\ b.warned # None => \E i \in 1..Len(told) : told[i] = <<h, b.warned, "warn">>
    /\ \A i \in 1..Len(told) : told[i][1] = h /\ told[i][3] = "warn" /\ told[i][2] = now =>
          b.warned = now /\ b.last = now /\ b.tokens < Cost

LEMMA FoundIs ==
    ASSUME LimitHolds, NEW h \in Caller, NEW b,
           b = IF h \in DOMAIN Limit!Swept THEN Limit!Swept[h] ELSE [tokens |-> CmdBurst, last |-> now, warned |-> None]
    PROVE  Found(b, h)
<1> USE DEF LimitHolds
<1>0. LimitsAre /\ now \in Nat /\ Caller \subseteq Limit!Client
  BY Limited DEF LimitTypes, Limit!Client
<1>1. /\ DOMAIN Limit!Swept \subseteq DOMAIN cmd
      /\ Limit!Swept = [g \in DOMAIN Limit!Swept |-> cmd[g]]
      /\ \A g \in Caller : g \notin DOMAIN Limit!Swept => Outlasted(ran[g], now, CmdRefill)
      /\ \A g \in DOMAIN cmd : cmd[g].last = now /\ cmd[g].tokens < Cost => g \in DOMAIN Limit!Swept
  BY SweptIs
<1>2. CASE h \in DOMAIN Limit!Swept
  <2>1. b = cmd[h] /\ h \in DOMAIN cmd
    BY <1>1, <1>2
  <2> QED BY Zenon, <2>1 DEF Found, LimitTypes, BucketsMeet, WarnedRight
<1>3. CASE h \notin DOMAIN Limit!Swept
  <2>1. b = [tokens |-> CmdBurst, last |-> now, warned |-> None]
    BY <1>3
  <2>2. b \in [tokens : 0..CmdBurst, last : 0..now, warned : {None} \union 0..now]
    BY <1>0, <2>1 DEF LimitsAre
  <2>3. Meets(CmdBurst, now, ran[h], CmdBurst, CmdRefill)
    <3>1. ran[h] \in Seq(Nat) /\ CmdBurst \in Nat /\ CmdRefill \in Nat /\ Cost \in Nat
      BY <1>0 DEF LimitTypes, LimitsAre
    <3> QED BY <1>0, <1>1, <1>3, <3>1, OutlastedMeets
  <2>4. \A i \in 1..Len(told) : ~(told[i][1] = h /\ told[i][3] = "warn" /\ told[i][2] = now)
    BY <1>1, <1>3 DEF WarnedRight
  <2> QED BY <2>1, <2>2, <2>3, <2>4 DEF Found
<1> QED BY <1>2, <1>3

\* A bucket looked at: its level is what it meets now.
LEMMA LevelMeets ==
    ASSUME LimitHolds, NEW h \in Caller, NEW b, Found(b, h)
    PROVE  /\ Limit!Level(b, CmdRefill, CmdBurst) \in 0..CmdBurst
           /\ Meets(Limit!Level(b, CmdRefill, CmdBurst), now, ran[h], CmdBurst, CmdRefill)
           /\ b.last = now /\ b.tokens < Cost => Limit!Level(b, CmdRefill, CmdBurst) < Cost
<1> USE DEF LimitHolds
<1> DEFINE level == Limit!Level(b, CmdRefill, CmdBurst)
<1>0. /\ Cost \in Nat /\ CmdBurst \in Nat /\ CmdRefill \in Nat /\ now \in Nat
      /\ ran[h] \in Seq(Nat) /\ b.tokens \in 0..CmdBurst /\ b.last \in 0..now
      /\ Meets(b.tokens, b.last, ran[h], CmdBurst, CmdRefill)
  BY Limited DEF LimitTypes, Limit!Client, LimitsAre, Found
<1>1. level \in 0..CmdBurst /\ level <= b.tokens + (now - b.last) * CmdRefill
  BY Zenon, <1>0, LevelIs
<1> HIDE DEF level
<1>2. Meets(level, now, ran[h], CmdBurst, CmdRefill)
  <2>1. level \in Nat /\ b.tokens \in Nat /\ b.last \in Nat /\ b.last <= now
    BY <1>0, <1>1
  <2> QED BY Zenon, <1>0, <1>1, <2>1, MeetsLater
<1>3. b.last = now /\ b.tokens < Cost => level < Cost
  <2> SUFFICES ASSUME b.last = now, b.tokens < Cost PROVE level < Cost
    OBVIOUS
  <2>1. (now - b.last) * CmdRefill = 0
    BY <1>0
  <2>2. level <= b.tokens + 0 /\ level \in Nat /\ b.tokens \in Nat
    BY <1>0, <1>1, <2>1
  <2> QED BY <1>0, <2>2
<1> QED BY <1>1, <1>2, <1>3 DEF level

\* A command that is let through.
LEMMA LetThroughStep ==
    ASSUME LimitHolds, NEW h \in Caller, NEW b, Found(b, h), NEW level, level = Limit!Level(b, CmdRefill, CmdBurst),
           level >= Cost, Limit!LetThrough(h), UNCHANGED <<told, reg, dict, now>>,
           swept' \in {None} \union 0..now,
           cmd' = [g \in DOMAIN Limit!Swept \union {h} |->
                      IF g = h THEN [b EXCEPT !.tokens = level - Cost, !.last = now] ELSE Limit!Swept[g]]
    PROVE  LimitHolds'
<1> USE DEF LimitHolds
<1> DEFINE sw == Limit!Swept
           next == cmd'
           times == ran'
<1>0. /\ Cost \in Nat /\ CmdBurst \in Nat /\ CmdRefill \in Nat /\ now \in Nat
      /\ Caller \subseteq Limit!Client /\ h \notin {"register", "lookup"} /\ ran \in [Limit!Client -> Seq(Nat)]
      /\ {"register", "lookup"} \subseteq Limit!Client
  BY Zenon, Limited DEF LimitTypes, Limit!Client, LimitsAre
<1>1. /\ DOMAIN sw \subseteq DOMAIN cmd /\ sw = [g \in DOMAIN sw |-> cmd[g]]
      /\ \A g \in Caller : g \notin DOMAIN sw => Outlasted(ran[g], now, CmdRefill)
      /\ \A g \in DOMAIN cmd : cmd[g].last = now /\ cmd[g].tokens < Cost => g \in DOMAIN sw
  BY SweptIs
<1>2. /\ level \in 0..CmdBurst /\ Meets(level, now, ran[h], CmdBurst, CmdRefill)
      /\ b.last = now /\ b.tokens < Cost => level < Cost
  BY LevelMeets
<1>3. /\ DOMAIN next = DOMAIN sw \union {h}
      /\ next[h] = [b EXCEPT !.tokens = level - Cost, !.last = now]
      /\ \A g \in DOMAIN sw : g # h => next[g] = cmd[g]
      /\ next = [g \in DOMAIN next |-> next[g]]
  BY <1>1
<1>4. /\ times = [ran EXCEPT ![h] = Append(@, now)]
      /\ times[h] = Append(ran[h], now) /\ \A w \in Limit!Client : w # h => times[w] = ran[w]
      /\ times \in [Limit!Client -> Seq(Nat)]
  BY <1>0 DEF Limit!LetThrough
<1> HIDE DEF sw, next, times
<1>5. level - Cost \in 0..CmdBurst /\ ~(level < Cost) /\ level \in Nat /\ Cost <= level /\ level <= CmdBurst
  BY <1>0, <1>2
<1>6. /\ next[h] \in [tokens : 0..CmdBurst, last : 0..now, warned : {None} \union 0..now]
      /\ next[h].tokens = level - Cost /\ next[h].last = now /\ next[h].warned = b.warned
  <2>1. b = [tokens |-> b.tokens, last |-> b.last, warned |-> b.warned] /\ b.warned \in {None} \union 0..now
    BY DEF Found
  <2>2. next[h] = [tokens |-> level - Cost, last |-> now, warned |-> b.warned]
    BY Zenon, <1>3, <2>1
  <2>3. now \in 0..now
    BY <1>0
  <2> QED BY <1>5, <2>1, <2>2, <2>3
<1>7. /\ Meets(level - Cost, now, times[h], CmdBurst, CmdRefill) /\ Within(times[h], CmdBurst, CmdRefill)
  <2>1. ran[h] \in Seq(Nat) /\ Within(ran[h], CmdBurst, CmdRefill)
    BY <1>0 DEF AllWithin
  <2> QED BY Zenon, <1>0, <1>2, <1>4, <1>5, <2>1, MeetsUse
<1>8. LimitTypes'
  <2>1. DOMAIN next \subseteq Caller
    BY <1>1, <1>3 DEF LimitTypes
  <2>2. \A g \in DOMAIN next : next[g] \in [tokens : 0..CmdBurst, last : 0..now, warned : {None} \union 0..now]
    BY Zenon, <1>1, <1>3, <1>6 DEF LimitTypes
  <2> QED BY Zenon, <1>3, <1>4, <2>1, <2>2 DEF LimitTypes, Bucket, next, times
<1>9. BucketsMeet'
  <2>1. times["register"] = ran["register"] /\ times["lookup"] = ran["lookup"]
    BY <1>0, <1>4
  <2>2. ASSUME NEW g \in Caller, g \in DOMAIN next
        PROVE  Meets(next[g].tokens, next[g].last, times[g], CmdBurst, CmdRefill)
    <3>1. CASE g = h
      BY <1>6, <1>7, <3>1
    <3>2. CASE g # h
      <4>1. g \in DOMAIN cmd /\ next[g] = cmd[g] /\ times[g] = ran[g]
        BY <1>0, <1>1, <1>3, <1>4, <2>2, <3>2
      <4> QED BY <4>1 DEF BucketsMeet
    <3> QED BY <3>1, <3>2
  <2>3. ASSUME NEW g \in Caller, g \notin DOMAIN next
        PROVE  Outlasted(times[g], now, CmdRefill)
    <3>1. g # h /\ g \notin DOMAIN sw /\ times[g] = ran[g]
      BY <1>0, <1>3, <1>4, <2>3
    <3> QED BY <1>1, <3>1
  <2> QED BY Zenon, <2>1, <2>2, <2>3 DEF BucketsMeet, next, times
<1>10. AllWithin'
  <2>1. times["register"] = ran["register"] /\ times["lookup"] = ran["lookup"]
    BY <1>0, <1>4
  <2>2. \A g \in Caller : Within(times[g], CmdBurst, CmdRefill)
    BY <1>0, <1>4, <1>7 DEF AllWithin
  <2> QED BY <2>1, <2>2 DEF AllWithin, times
<1>11. WarnedRight'
  <2>1. ASSUME NEW g \in DOMAIN next, next[g].warned # None
        PROVE  \E i \in 1..Len(told) : told[i] = <<g, next[g].warned, "warn">>
    <3>1. CASE g = h
      BY <1>6, <2>1, <3>1 DEF Found
    <3>2. CASE g # h
      <4>1. g \in DOMAIN cmd /\ next[g] = cmd[g]
        BY <1>1, <1>3, <3>2
      <4> QED BY Zenon, <2>1, <4>1 DEF WarnedRight
    <3> QED BY <3>1, <3>2
  <2>2. ASSUME NEW i \in 1..Len(told), told[i][3] = "warn", told[i][2] = now
        PROVE  /\ told[i][1] \in DOMAIN next
               /\ next[told[i][1]].warned = now /\ next[told[i][1]].last = now
               /\ next[told[i][1]].tokens < Cost
    <3>1. told[i][1] # h
      BY <1>2, <1>5, <2>2 DEF Found
    <3>2. /\ told[i][1] \in DOMAIN cmd
          /\ cmd[told[i][1]].warned = now /\ cmd[told[i][1]].last = now /\ cmd[told[i][1]].tokens < Cost
      BY <2>2 DEF WarnedRight
    <3>3. told[i][1] \in DOMAIN sw
      BY <1>1, <3>2
    <3> QED BY <1>3, <3>1, <3>2, <3>3
  <2>3. \A i \in 1..Len(told) : told[i][2] <= now
    BY DEF WarnedRight
  <2> QED BY Zenon, <2>1, <2>2, <2>3 DEF WarnedRight, next
<1>12. ToldRight'
  BY DEF ToldRight
<1> QED BY <1>8, <1>9, <1>10, <1>11, <1>12

\* A command that is refused, with a warning or without.
LEMMA RefusedStep ==
    ASSUME LimitHolds, NEW h \in Caller, NEW b, Found(b, h), NEW level, level = Limit!Level(b, CmdRefill, CmdBurst),
           ~(level >= Cost), UNCHANGED <<ran, reg, dict, now>>,
           swept' \in {None} \union 0..now,
           cmd' = [g \in DOMAIN Limit!Swept \union {h} |->
                      IF g = h THEN [b EXCEPT !.tokens = level, !.last = now,
                                              !.warned = IF Limit!MayWarn(b) THEN now ELSE @] ELSE Limit!Swept[g]],
           told' = Append(told, <<h, now, IF Limit!MayWarn(b) THEN "warn" ELSE "drop">>)
    PROVE  LimitHolds'
<1> USE DEF LimitHolds
<1> DEFINE sw == Limit!Swept
           next == cmd'
           tn == told'
           m == Len(told)
           may == Limit!MayWarn(b)
<1>0. /\ Cost \in Nat /\ CmdBurst \in Nat /\ CmdRefill \in Nat /\ now \in Nat /\ WarnEvery \in Nat /\ None \notin Nat
      /\ Caller \subseteq Limit!Client /\ told \in Seq(Caller \X Nat \X {"warn", "drop"})
  BY Limited DEF LimitTypes, Limit!Client, LimitsAre
<1>1. /\ DOMAIN sw \subseteq DOMAIN cmd /\ sw = [g \in DOMAIN sw |-> cmd[g]]
      /\ \A g \in Caller : g \notin DOMAIN sw => Outlasted(ran[g], now, CmdRefill)
      /\ \A g \in DOMAIN cmd : cmd[g].last = now /\ cmd[g].tokens < Cost => g \in DOMAIN sw
  BY SweptIs
<1>2. level \in 0..CmdBurst /\ Meets(level, now, ran[h], CmdBurst, CmdRefill)
  BY LevelMeets
<1>3. /\ DOMAIN next = DOMAIN sw \union {h}
      /\ next[h] = [b EXCEPT !.tokens = level, !.last = now, !.warned = IF may THEN now ELSE @]
      /\ \A g \in DOMAIN sw : g # h => next[g] = cmd[g]
      /\ next = [g \in DOMAIN next |-> next[g]]
  BY <1>1
<1>4. /\ m \in Nat /\ Len(tn) = m + 1 /\ tn[m + 1] = <<h, now, IF may THEN "warn" ELSE "drop">>
      /\ \A i \in 1..m : tn[i] = told[i] /\ told[i] \in Caller \X Nat \X {"warn", "drop"}
      /\ tn \in Seq(Caller \X Nat \X {"warn", "drop"})
  <2>1. <<h, now, IF may THEN "warn" ELSE "drop">> \in Caller \X Nat \X {"warn", "drop"}
    BY <1>0
  <2> QED BY <1>0, <2>1
<1>5. may <=> (b.warned # None => now - b.warned >= WarnEvery)
  BY DEF Limit!MayWarn
<1> HIDE DEF sw, next, tn, may
<1>6. /\ next[h] \in [tokens : 0..CmdBurst, last : 0..now, warned : {None} \union 0..now]
      /\ next[h].tokens = level /\ next[h].last = now
      /\ next[h].warned = IF may THEN now ELSE b.warned
  <2>1. b = [tokens |-> b.tokens, last |-> b.last, warned |-> b.warned] /\ b.warned \in {None} \union 0..now
    BY DEF Found
  <2>2. next[h] = [tokens |-> level, last |-> now, warned |-> IF may THEN now ELSE b.warned]
    BY Zenon, <1>3, <2>1
  <2>3. now \in 0..now
    BY <1>0
  <2> QED BY <1>2, <2>1, <2>2, <2>3
<1>7. level < Cost
  BY <1>0, <1>2
<1>8. LimitTypes'
  <2>1. DOMAIN next \subseteq Caller
    BY <1>1, <1>3 DEF LimitTypes
  <2>2. \A g \in DOMAIN next : next[g] \in [tokens : 0..CmdBurst, last : 0..now, warned : {None} \union 0..now]
    BY Zenon, <1>1, <1>3, <1>6 DEF LimitTypes
  <2> QED BY Zenon, <1>3, <1>4, <2>1, <2>2 DEF LimitTypes, Bucket, next, tn
<1>9. BucketsMeet'
  <2>1. ASSUME NEW g \in Caller, g \in DOMAIN next
        PROVE  Meets(next[g].tokens, next[g].last, ran[g], CmdBurst, CmdRefill)
    <3>1. CASE g = h
      BY <1>2, <1>6, <3>1
    <3>2. CASE g # h
      <4>1. g \in DOMAIN cmd /\ next[g] = cmd[g]
        BY <1>1, <1>3, <2>1, <3>2
      <4> QED BY <4>1 DEF BucketsMeet
    <3> QED BY <3>1, <3>2
  <2>2. \A g \in Caller : g \notin DOMAIN next => Outlasted(ran[g], now, CmdRefill)
    BY <1>1, <1>3
  <2> QED BY Zenon, <2>1, <2>2 DEF BucketsMeet, next
<1>10. AllWithin'
  BY DEF AllWithin
<1>11. \A i \in 1..(m + 1) : i = m + 1 \/ (i \in 1..m /\ i < m + 1)
  BY <1>4
\* A warning this very second is the bucket's.
<1>12. ASSUME NEW i \in 1..m, told[i][1] = h, told[i][3] = "warn", told[i][2] = now
       PROVE  b.warned = now /\ b.warned # None /\ now - now = 0
  <2>1. b.warned = now
    BY <1>12 DEF Found
  <2> QED BY <1>0, <2>1
<1>13. WarnedRight'
  <2>1. ASSUME NEW g \in DOMAIN next, next[g].warned # None
        PROVE  \E i \in 1..(m + 1) : tn[i] = <<g, next[g].warned, "warn">>
    <3>1. CASE g = h /\ may
      <4>1. tn[m + 1] = <<g, next[g].warned, "warn">> /\ m + 1 \in 1..(m + 1)
        BY <1>4, <1>6, <3>1
      <4> QED BY <4>1
    <3>2. CASE g = h /\ ~may
      <4>1. PICK i \in 1..m : told[i] = <<h, b.warned, "warn">>
        BY <1>6, <2>1, <3>2 DEF Found
      <4>2. i \in 1..(m + 1) /\ tn[i] = told[i]
        BY <1>4
      <4> QED BY <1>6, <3>2, <4>1, <4>2
    <3>3. CASE g # h
      <4>1. g \in DOMAIN cmd /\ next[g] = cmd[g]
        BY <1>1, <1>3, <3>3
      <4>2. PICK i \in 1..m : told[i] = <<g, cmd[g].warned, "warn">>
        BY Zenon, <2>1, <4>1 DEF WarnedRight
      <4>3. i \in 1..(m + 1) /\ tn[i] = told[i]
        BY <1>4
      <4> QED BY <4>1, <4>2, <4>3
    <3> QED BY <3>1, <3>2, <3>3
  <2>2. ASSUME NEW i \in 1..(m + 1), tn[i][3] = "warn", tn[i][2] = now
        PROVE  /\ tn[i][1] \in DOMAIN next
               /\ next[tn[i][1]].warned = now /\ next[tn[i][1]].last = now
               /\ next[tn[i][1]].tokens < Cost
    <3>1. CASE i = m + 1
      <4>1. may /\ tn[i][1] = h
        BY <1>4, <2>2, <3>1
      <4> QED BY Zenon, <1>3, <1>6, <1>7, <4>1
    <3>2. CASE i \in 1..m /\ told[i][1] = h
      <4>1. tn[i] = told[i]
        BY <1>4, <3>2
      <4>2. b.warned = now
        BY <1>12, <2>2, <3>2, <4>1
      <4>3. next[h].warned = now
        BY <1>6, <4>2
      <4> QED BY Zenon, <1>3, <1>6, <1>7, <3>2, <4>1, <4>3
    <3>3. CASE i \in 1..m /\ told[i][1] # h
      <4>1. tn[i] = told[i]
        BY <1>4, <3>3
      <4>2. /\ told[i][1] \in DOMAIN cmd
            /\ cmd[told[i][1]].warned = now /\ cmd[told[i][1]].last = now /\ cmd[told[i][1]].tokens < Cost
        BY <2>2, <3>3, <4>1 DEF WarnedRight
      <4>3. told[i][1] \in DOMAIN sw
        BY <1>1, <4>2
      <4> QED BY <1>3, <3>3, <4>1, <4>2, <4>3
    <3> QED BY <1>11, <3>1, <3>2, <3>3
  <2>3. ASSUME NEW i \in 1..(m + 1) PROVE tn[i][2] <= now
    <3>1. CASE i = m + 1
      BY <1>0, <1>4, <3>1
    <3>2. CASE i \in 1..m
      BY <1>4, <3>2 DEF WarnedRight
    <3> QED BY <1>11, <3>1, <3>2
  <2> QED BY ZenonT(40), <1>4, <2>1, <2>2, <2>3 DEF WarnedRight, next, tn
<1>14. ToldRight'
  <2>1. ASSUME NEW i \in 1..(m + 1), tn[i][3] = "drop"
        PROVE  \E j \in 1..(m + 1) : /\ j < i /\ tn[j][1] = tn[i][1] /\ tn[j][3] = "warn"
                                     /\ tn[j][2] <= tn[i][2] /\ tn[i][2] < tn[j][2] + WarnEvery
    <3>1. CASE i = m + 1
      <4>1. ~may /\ tn[i][1] = h /\ tn[i][2] = now
        BY <1>4, <2>1, <3>1
      <4>2. b.warned # None /\ ~(now - b.warned >= WarnEvery)
        BY <1>5, <4>1
      <4>3. b.warned \in 0..now
        BY <4>2 DEF Found
      <4>4. b.warned <= now /\ now < b.warned + WarnEvery
        BY <1>0, <4>2, <4>3
      <4>5. PICK j \in 1..m : told[j] = <<h, b.warned, "warn">>
        BY <4>2 DEF Found
      <4>6. j \in 1..(m + 1) /\ j < m + 1 /\ tn[j] = told[j]
        BY <1>4
      <4>7. tn[j][1] = h /\ tn[j][2] = b.warned /\ tn[j][3] = "warn"
        BY <4>5, <4>6
      <4> QED BY <3>1, <4>1, <4>4, <4>6, <4>7
    <3>2. CASE i \in 1..m
      <4>1. tn[i] = told[i]
        BY <1>4, <3>2
      <4>2. PICK j \in 1..m : /\ j < i /\ told[j][1] = told[i][1] /\ told[j][3] = "warn"
                              /\ told[j][2] <= told[i][2] /\ told[i][2] < told[j][2] + WarnEvery
        BY <2>1, <3>2, <4>1 DEF ToldRight
      <4>3. j \in 1..(m + 1) /\ tn[j] = told[j]
        BY <1>4
      <4> QED BY <4>1, <4>2, <4>3
    <3> QED BY <1>11, <3>1, <3>2
  <2>2. ASSUME NEW i \in 1..(m + 1), tn[i][3] = "warn", NEW j \in 1..(m + 1), j # i, tn[j][1] = tn[i][1],
               tn[j][3] = "warn", tn[i][2] < tn[j][2] + WarnEvery, tn[j][2] = tn[i][2]
        PROVE  FALSE
    <3>1. ASSUME NEW k \in 1..m, told[k][1] = h, told[k][3] = "warn", told[k][2] = now, may,
                 now < now + WarnEvery
          PROVE  FALSE
      <4>1. b.warned = now /\ b.warned # None /\ now - now = 0
        BY <1>12, <3>1
      <4>2. now - now >= WarnEvery
        BY <1>5, <3>1, <4>1
      <4> QED BY <1>0, <3>1, <4>2
    <3>2. CASE i = m + 1
      <4>1. j \in 1..m /\ tn[j] = told[j] /\ may /\ tn[i][1] = h /\ tn[i][2] = now
        BY <1>4, <1>11, <2>2, <3>2
      <4> QED BY <2>2, <3>1, <4>1
    <3>3. CASE j = m + 1
      <4>1. i \in 1..m /\ tn[i] = told[i] /\ may /\ tn[j][1] = h /\ tn[j][2] = now
        BY <1>4, <1>11, <2>2, <3>3
      <4> QED BY <2>2, <3>1, <4>1
    <3>4. CASE i \in 1..m /\ j \in 1..m
      <4>1. tn[i] = told[i] /\ tn[j] = told[j]
        BY Zenon, <1>4, <3>4
      <4> QED BY <2>2, <3>4, <4>1 DEF ToldRight
    <3> QED BY <1>11, <3>2, <3>3, <3>4
  <2> QED BY Zenon, <1>4, <2>1, <2>2 DEF ToldRight, tn
<1> QED BY <1>8, <1>9, <1>10, <1>13, <1>14

LEMMA LimitStutter ==
    ASSUME LimitHolds, UNCHANGED <<cmd, swept, ran, told, reg, dict, now>>
    PROVE  LimitHolds'
<1>1. LimitTypes'
  BY DEF LimitHolds, LimitTypes, Bucket
<1>2. BucketsMeet' /\ AllWithin'
  BY DEF LimitHolds, BucketsMeet, AllWithin
<1>3. WarnedRight' /\ ToldRight'
  BY Zenon DEF LimitHolds, WarnedRight, ToldRight
<1> QED BY <1>1, <1>2, <1>3 DEF LimitHolds

LEMMA CommandStep ==
    ASSUME LimitHolds, NEW h \in Caller, NEW s, Limit!command(h, s)
    PROVE  LimitHolds'
<1>1. CASE s # "anonymous"
  <2>1. UNCHANGED <<cmd, swept, ran, told, reg, dict, now>>
    BY <1>1 DEF Limit!command
  <2> QED BY <2>1, LimitStutter
<1>2. CASE s = "anonymous"
  <2> DEFINE b == IF h \in DOMAIN Limit!Swept THEN Limit!Swept[h]
                  ELSE [tokens |-> CmdBurst, last |-> now, warned |-> None]
             level == Limit!Level(b, CmdRefill, CmdBurst)
             used == [b EXCEPT !.tokens = level, !.last = now]
             put(v) == [g \in DOMAIN Limit!Swept \union {h} |-> IF g = h THEN v ELSE Limit!Swept[g]]
  <2>1. /\ swept' = IF Limit!Due THEN now ELSE swept
        /\ UNCHANGED <<reg, dict, now>>
        /\ IF level >= Cost
           THEN /\ cmd' = put([used EXCEPT !.tokens = Limit!Spend(level)])
                /\ Limit!LetThrough(h) /\ UNCHANGED told
           ELSE /\ cmd' = put([used EXCEPT !.warned = IF Limit!MayWarn(b) THEN now ELSE @])
                /\ told' = Append(told, <<h, now, IF Limit!MayWarn(b) THEN "warn" ELSE "drop">>)
                /\ UNCHANGED ran
    BY <1>2 DEF Limit!command
  <2>2. swept' \in {None} \union 0..now
    BY <2>1 DEF LimitHolds, LimitTypes
  <2>3. Found(b, h)
    BY FoundIs
  <2>4. b = [tokens |-> b.tokens, last |-> b.last, warned |-> b.warned]
    <3> HIDE DEF b
    <3> QED BY <2>3 DEF Found
  <2> HIDE DEF b
  <2>5. CASE level >= Cost
    <3>1. Limit!Spend(level) = level - Cost
      BY <2>5 DEF Limit!Spend
    <3>2. [used EXCEPT !.tokens = Limit!Spend(level)] = [b EXCEPT !.tokens = level - Cost, !.last = now]
      <4> HIDE DEF level
      <4> QED BY Zenon, <2>4, <3>1
    <3>3. cmd' = put([b EXCEPT !.tokens = level - Cost, !.last = now])
      BY <2>1, <2>5, <3>2
    <3> QED BY Zenon, <2>1, <2>2, <2>3, <2>5, <3>3, LetThroughStep
  <2>6. CASE ~(level >= Cost)
    <3>1. [used EXCEPT !.warned = IF Limit!MayWarn(b) THEN now ELSE @]
          = [b EXCEPT !.tokens = level, !.last = now, !.warned = IF Limit!MayWarn(b) THEN now ELSE @]
      <4> HIDE DEF level
      <4> QED BY <2>4
    <3>2. cmd' = put([b EXCEPT !.tokens = level, !.last = now, !.warned = IF Limit!MayWarn(b) THEN now ELSE @])
      BY <2>1, <2>6, <3>1
    <3> QED BY Zenon, <2>1, <2>2, <2>3, <2>6, <3>2, RefusedStep
  <2> QED BY <2>5, <2>6
<1> QED BY <1>1, <1>2

LEMMA LimitInit == ASSUME Limit!Init PROVE LimitHolds
<1> DEFINE none == [who \in Limit!Client |-> <<>>]
<1>0. LimitsAre /\ {"register", "lookup"} \subseteq Limit!Client /\ Caller \subseteq Limit!Client
  BY Limited DEF Limit!Client
<1>1. /\ cmd = <<>> /\ swept = None /\ reg = [tokens |-> RegBurst, last |-> 0]
      /\ dict = [tokens |-> DictBurst, last |-> 0] /\ now = 0 /\ ran = none /\ told = <<>>
  BY DEF Limit!Init, Limit!Full
<1>2. none \in [Limit!Client -> Seq(Nat)] /\ (\A w \in Limit!Client : none[w] = <<>>) /\ Len(<<>>) = 0
  OBVIOUS
<1> HIDE DEF none
<1>3. DOMAIN cmd = {}
  BY <1>1
<1>4. LimitTypes
  <2>1. cmd = [h \in DOMAIN cmd |-> cmd[h]]
    BY <1>1, <1>3
  <2>2. reg \in Bucket(RegBurst) /\ dict \in Bucket(DictBurst)
    BY <1>0, <1>1 DEF Bucket, LimitsAre
  <2>3. told \in Seq(Caller \X Nat \X {"warn", "drop"})
    BY <1>1
  <2> QED BY <1>1, <1>2, <1>3, <2>1, <2>2, <2>3 DEF LimitTypes
<1>5. BucketsMeet /\ AllWithin
  <2>1. \A w \in Limit!Client : ran[w] = <<>>
    BY <1>1, <1>2
  <2> QED BY <1>0, <1>2, <1>3, <2>1 DEF BucketsMeet, AllWithin, Meets, Within, Outlasted
<1>6. WarnedRight /\ ToldRight
  BY <1>1, <1>2, <1>3 DEF WarnedRight, ToldRight
<1> QED BY <1>4, <1>5, <1>6 DEF LimitHolds

LEMMA LimitStep == ASSUME LimitHolds, Limit!Next PROVE LimitHolds'
<1>1. CASE \E r \in BOOLEAN : Limit!register(r)
  BY <1>1, AloneStep
<1>2. CASE Limit!lookup
  BY <1>2, AloneStep
<1>3. CASE Limit!Tick
  BY <1>3, LimitTickStep
<1>4. CASE \E h \in Caller, s \in {"anonymous", "identified", "oper", "ignored"} : Limit!command(h, s)
  BY <1>4, CommandStep
<1> QED BY <1>1, <1>2, <1>3, <1>4 DEF Limit!Next

\* What the limiters promise.
LEMMA LimitsPromise == LimitHolds => Limit!Metered /\ Limit!ToldBeforeDropped
<1> SUFFICES ASSUME LimitHolds PROVE Limit!Metered /\ Limit!ToldBeforeDropped
  OBVIOUS
<1> USE DEF LimitHolds
<1>1. Limit!Metered
  <2>1. \A w \in Limit!Client : DOMAIN ran[w] = 1..Len(ran[w])
    BY DEF LimitTypes
  <2>2. {"register", "lookup"} \subseteq Limit!Client /\ Caller \subseteq Limit!Client
    BY DEF Limit!Client
  <2> QED BY Zenon, <2>1, <2>2 DEF Limit!Metered, AllWithin, Within
<1>2. Limit!ToldBeforeDropped
  <2>1. DOMAIN told = 1..Len(told) /\ \A i \in 1..Len(told) : told[i][2] \in Nat
    BY DEF LimitTypes
  <2>2. ASSUME NEW i \in 1..Len(told), told[i][3] = "drop"
        PROVE  \E j \in 1..Len(told) : /\ told[j][1] = told[i][1] /\ told[j][3] = "warn"
                                       /\ told[j][2] <= told[i][2] /\ told[i][2] < told[j][2] + WarnEvery
                                       /\ j < i
    BY <2>2 DEF ToldRight
  <2>3. ASSUME NEW i \in 1..Len(told), told[i][3] = "warn", NEW j \in 1..Len(told),
               told[j][1] = told[i][1], told[j][3] = "warn",
               told[j][2] <= told[i][2], told[i][2] < told[j][2] + WarnEvery
        PROVE  j = i \/ told[j][2] # told[i][2]
    BY <2>3 DEF ToldRight
  <2> QED BY Zenon, <2>1, <2>2, <2>3 DEF Limit!ToldBeforeDropped
<1> QED BY <1>1, <1>2

LEMMA LimitsTyped == LimitHolds => Limit!TypeOK
BY DEF LimitHolds, LimitTypes, Bucket, Limit!TypeOK

-----------------------------------------------------------------------------
(* The scenes.                                                             *)

\* A step is one of the module the scene names, or changes nothing.
LEMMA SceneSteps ==
    ASSUME [Next]_vars
    PROVE  /\ scene' = scene
           /\ scene = "kickers" => Kick!Next \/ UNCHANGED Kick!vars
           /\ scene = "settings" => Sett!Next \/ UNCHANGED Sett!vars
           /\ scene = "status" => Stat!Next \/ UNCHANGED Stat!vars
           /\ scene = "locks" => Lock!Next \/ UNCHANGED Lock!vars
           /\ scene = "security" => Sec!Next \/ UNCHANGED Sec!vars
           /\ scene = "limits" => Limit!Next \/ UNCHANGED Limit!vars
<1>1. CASE Next
  BY <1>1 DEF Next
<1>2. CASE UNCHANGED vars
  BY <1>2 DEF vars, ofSettings, ofKickers, ofStatus, ofLocks, ofSecurity, ofLimits,
       Kick!vars, Kick!history, Sett!vars, Stat!vars, Stat!channel, Stat!history, Lock!vars, Lock!ircd,
       Sec!vars, Limit!vars
<1> QED BY <1>1, <1>2

StatInv == scene = "status" => StatHolds

LEMMA StatInvInit == Init => StatInv
BY StatHoldsInit DEF Init, InitStatus, StatInv

LEMMA StatInvStep == StatInv /\ [Next]_vars => StatInv'
<1> SUFFICES ASSUME StatInv, [Next]_vars, scene' = "status" PROVE StatHolds'
  BY DEF StatInv
<1>1. CASE Next
  <2>1. scene = "status" /\ Stat!Next
    BY <1>1 DEF Next
  <2> QED BY <2>1, StatHoldsStep DEF StatInv
<1>2. CASE UNCHANGED vars
  <2>1. scene = "status"
    BY <1>2 DEF vars
  <2> QED BY <1>2, <2>1, StatHoldsStutter DEF StatInv
<1> QED BY <1>1, <1>2

SecInv == scene = "security" => SecHolds

LEMMA SecInvInit == Init => SecInv
BY SecInit DEF Init, InitSecurity, SecInv

LEMMA SecInvStep == SecInv /\ [Next]_vars => SecInv'
<1>1. UNCHANGED Sec!vars => UNCHANGED <<mode, windows, quiet, evaded, account, online, now, lines, seen, split>>
  BY DEF Sec!vars
<1> QED BY <1>1, SceneSteps, SecStep, SecStutter DEF SecInv

LimitInv == scene = "limits" => LimitHolds

LEMMA LimitInvInit == Init => LimitInv
BY LimitInit DEF Init, InitLimits, LimitInv

LEMMA LimitInvStep == LimitInv /\ [Next]_vars => LimitInv'
<1>1. UNCHANGED Limit!vars => UNCHANGED <<cmd, swept, ran, told, reg, dict, now>>
  BY DEF Limit!vars
<1> QED BY <1>1, SceneSteps, LimitStep, LimitStutter DEF LimitInv

\* Once the link is quiet the engine knows who is on the channel and who has
\* status there, but for what it changed itself: however joins, parts, kicks,
\* renames and status changes cross what the engine sends (handle_event's
\* picture of a channel's members).
THEOREM PictureIsRight == Spec => []PictureAgrees
<1>1. StatInv => PictureAgrees
  BY QuietPicture DEF StatInv, StatHolds, PictureAgrees
<1> QED BY <1>1, StatInvInit, StatInvStep, PTL DEF Spec

-----------------------------------------------------------------------------
(* Settings: the lists of a channel, and the folds over them; each append  *)
(* keeps memory and disk in agreement.                                     *)

\* A list that names nothing twice.
Named(l) == \A i, j \in 1..Len(l) : l[i] = l[j] => i = j

LEMMA SettMax == \A S : Sett!Max(S) = Max(S)
BY DEF Sett!Max, Max

\* The positions up to i.
LEMMA UpTo ==
    ASSUME NEW n \in Nat, NEW i \in 1..n
    PROVE  /\ i \in Nat /\ i - 1 \in Nat /\ Max(1..i) = i /\ (1..i) \ {i} = 1..(i - 1)
           /\ 1..i \in SUBSET (1..n) /\ 1..i # {} /\ i \in 1..i /\ 1..(i - 1) \in SUBSET (1..n)
<1>1. i \in Nat /\ i \in 1..i /\ 1..i \in SUBSET (1..i)
  OBVIOUS
<1>2. Max(1..i) = i
  BY <1>1, MaxIs
<1>3. (1..i) \ {i} = 1..(i - 1)
  <2>1. \A j : j \in (1..i) \ {i} <=> j \in 1..(i - 1)
    OBVIOUS
  <2> QED BY <2>1
<1>4. i - 1 \in Nat /\ 1..i \in SUBSET (1..n) /\ 1..(i - 1) \in SUBSET (1..n)
  OBVIOUS
<1> QED BY <1>1, <1>2, <1>3, <1>4

\* What is left of a list without m.
Keeps(m, kept, x) == IF x = m THEN kept ELSE Append(kept, x)

LEMMA WithoutUnfolds ==
    ASSUME NEW list, NEW m
    PROVE  Sett!Without(list, m)
             = (CHOOSE g : g = [s \in SUBSET DOMAIN list |->
                                  IF s = {} THEN <<>> ELSE Keeps(m, g[s \ {Max(s)}], list[Max(s)])])[DOMAIN list]
BY Zenon, SettMax DEF Sett!Without, Sett!FoldLeft, Sett!MapThenFoldSet, Keeps

\* What the fold has after the first i.
Filtered(list, m, i, kept) ==
    /\ Len(kept) <= i /\ Named(kept)
    /\ \A a \in 1..Len(kept) : kept[a] # m /\ \E b \in 1..i : kept[a] = list[b]
    /\ (\E b \in 1..i : list[b] = m) => Len(kept) < i

LEMMA KeepsOne ==
    ASSUME NEW T, NEW list \in Seq(T), NEW m, NEW i \in 1..Len(list), Named(list),
           NEW kept \in Seq(T), Filtered(list, m, i - 1, kept)
    PROVE  Keeps(m, kept, list[i]) \in Seq(T) /\ Filtered(list, m, i, Keeps(m, kept, list[i]))
<1> DEFINE x == list[i]
           more == Append(kept, x)
<1>1. i \in Nat /\ i >= 1 /\ x \in T /\ Len(kept) \in Nat /\ Len(list) \in Nat /\ (\A b \in 1..(i - 1) : b \in 1..i /\ b # i)
      /\ \A b \in 1..i : b \in 1..(i - 1) \/ b = i
  OBVIOUS
<1>2. CASE x = m
  <2>1. Keeps(m, kept, x) = kept
    BY <1>2 DEF Keeps
  <2>2. Len(kept) <= i - 1 /\ Len(kept) < i
    BY <1>1 DEF Filtered
  <2> HIDE DEF x
  <2> QED BY <1>1, <2>1, <2>2 DEF Filtered, x
<1>3. CASE x # m
  <2>1. Keeps(m, kept, x) = more
    BY <1>3 DEF Keeps
  <2>2. /\ more \in Seq(T) /\ Len(more) = Len(kept) + 1 /\ more[Len(kept) + 1] = x
        /\ \A a \in 1..Len(kept) : more[a] = kept[a]
    BY <1>1
  <2>3. \A a \in 1..(Len(kept) + 1) : a \in 1..Len(kept) \/ a = Len(kept) + 1
    BY <1>1
  <2>4. \A a \in 1..Len(kept) : kept[a] # x
    <3> SUFFICES ASSUME NEW a \in 1..Len(kept), kept[a] = x PROVE FALSE
      OBVIOUS
    <3>1. PICK b \in 1..(i - 1) : kept[a] = list[b]
      BY DEF Filtered
    <3>2. b \in 1..Len(list) /\ b # i
      BY <1>1
    <3> QED BY Zenon, <3>1, <3>2 DEF Named
  <2> HIDE DEF more
  <2>5. Named(more)
    BY <2>2, <2>3, <2>4 DEF Filtered, Named
  <2>6. Len(more) <= i /\ ((\E b \in 1..i : list[b] = m) => Len(more) < i)
    <3>1. Len(more) <= i
      BY <1>1, <2>2 DEF Filtered
    <3>2. ASSUME NEW b \in 1..i, list[b] = m PROVE Len(more) < i
      <4>1. b \in 1..(i - 1)
        BY <1>1, <1>3, <3>2
      <4>2. Len(kept) < i - 1
        BY <3>2, <4>1 DEF Filtered
      <4> QED BY <1>1, <2>2, <4>2
    <3> QED BY <3>1, <3>2
  <2>7. ASSUME NEW a \in 1..Len(more) PROVE more[a] # m /\ \E b \in 1..i : more[a] = list[b]
    <3>1. CASE a \in 1..Len(kept)
      BY Zenon, <1>1, <2>2, <3>1 DEF Filtered
    <3>2. CASE a = Len(kept) + 1
      <4>1. more[a] = list[i] /\ i \in 1..i
        BY <1>1, <2>2, <3>2
      <4> QED BY <1>3, <4>1
    <3> QED BY <2>2, <2>3, <3>1, <3>2
  <2> QED BY <2>1, <2>2, <2>5, <2>6, <2>7 DEF Filtered
<1> QED BY <1>2, <1>3

LEMMA WithoutIs ==
    ASSUME NEW T, NEW list \in Seq(T), NEW m, Named(list)
    PROVE  Sett!Without(list, m) \in Seq(T) /\ Filtered(list, m, Len(list), Sett!Without(list, m))
<1> DEFINE n == Len(list)
           step == [p \in Seq(T) \X (1..n) |-> Keeps(m, p[1], list[p[2]])]
           g == CHOOSE f : f = [s \in SUBSET DOMAIN list |->
                                  IF s = {} THEN <<>> ELSE Keeps(m, f[s \ {Max(s)}], list[Max(s)])]
           ok == {i \in 0..n : g[1..i] \in Seq(T) /\ Filtered(list, m, i, g[1..i])}
<1>1. n \in Nat /\ DOMAIN list = 1..n /\ <<>> \in Seq(T) /\ \A i \in 1..n : list[i] \in T
  OBVIOUS
<1>2. Sett!Without(list, m) = g[1..n]
  BY Zenon, <1>1, WithoutUnfolds
<1>3. step \in [Seq(T) \X (1..n) -> Seq(T)] /\ \A d \in Seq(T), i \in 1..n : step[<<d, i>>] = Keeps(m, d, list[i])
  <2>1. \A d \in Seq(T), i \in 1..n : Keeps(m, d, list[i]) \in Seq(T)
    BY <1>1 DEF Keeps
  <2> QED BY Zenon, <2>1
<1> HIDE DEF step
<1>4. g = [s \in SUBSET (1..n) |-> IF s = {} THEN <<>> ELSE Keeps(m, g[s \ {Max(s)}], list[Max(s)])]
  <2>1. PICK f \in [SUBSET (1..n) -> Seq(T)] : FoldsBy(f, n, <<>>, step)
    BY Zenon, <1>1, <1>3, FoldExists
  <2>2. ASSUME NEW s \in SUBSET (1..n), s # {}
        PROVE  step[<<f[s \ {Max(s)}], Max(s)>>] = Keeps(m, f[s \ {Max(s)}], list[Max(s)])
    <3>1. Max(s) \in 1..n
      BY Zenon, <1>1, <2>2, MaxOf
    <3>2. f[s \ {Max(s)}] \in Seq(T)
      BY Zenon
    <3> QED BY <1>3, <3>1, <3>2
  <2>3. f = [s \in SUBSET (1..n) |-> IF s = {} THEN <<>> ELSE Keeps(m, f[s \ {Max(s)}], list[Max(s)])]
    BY Zenon, <2>1, <2>2 DEF FoldsBy
  <2> QED BY Zenon, <1>1, <2>3
<1> HIDE DEF g
<1>5. g[1..0] = <<>>
  <2>1. 1..0 = {}
    OBVIOUS
  <2> QED BY <1>4, <2>1
<1>6. 0 \in ok
  <2>1. Filtered(list, m, 0, <<>>)
    BY DEF Filtered, Named
  <2>2. 0 \in 0..n
    BY <1>1
  <2>3. g[1..0] \in Seq(T) /\ Filtered(list, m, 0, g[1..0])
    BY <1>1, <1>5, <2>1
  <2> QED BY <2>2, <2>3
<1>7. ASSUME NEW i \in 0..(n - 1), i \in ok PROVE i + 1 \in ok
  <2> DEFINE j == i + 1
  <2>1. j \in 1..n /\ j - 1 = i /\ j \in 0..n
    BY <1>1
  <2>2. g[1..j] = Keeps(m, g[1..i], list[j])
    <3>1. Max(1..j) = j /\ (1..j) \ {j} = 1..i /\ 1..j \in SUBSET (1..n) /\ 1..j # {}
      BY <1>1, <2>1, UpTo
    <3> HIDE DEF j
    <3> QED BY Zenon, <1>4, <3>1
  <2>3. g[1..i] \in Seq(T) /\ Filtered(list, m, j - 1, g[1..i])
    BY <1>7, <2>1
  <2> HIDE DEF j
  <2>4. Keeps(m, g[1..i], list[j]) \in Seq(T) /\ Filtered(list, m, j, Keeps(m, g[1..i], list[j]))
    BY Zenon, <2>1, <2>3, KeepsOne
  <2>5. j \in ok
    BY <2>1, <2>2, <2>4
  <2> QED BY <2>5 DEF j
<1> HIDE DEF ok
<1>8. 0..n \subseteq ok
  BY Zenon, <1>1, <1>6, <1>7, Upwards
<1>9. n \in ok
  BY <1>1, <1>8
<1> QED BY <1>2, <1>9 DEF ok

\* A list with one thing more, or without its i-th.
LEMMA NamedAppend ==
    ASSUME NEW T, NEW l \in Seq(T), NEW x \in T, Named(l), \A i \in 1..Len(l) : l[i] # x
    PROVE  Append(l, x) \in Seq(T) /\ Named(Append(l, x)) /\ Len(Append(l, x)) = Len(l) + 1
<1> DEFINE q == Append(l, x)
<1>1. q \in Seq(T) /\ Len(q) = Len(l) + 1 /\ q[Len(l) + 1] = x /\ Len(l) \in Nat /\ \A i \in 1..Len(l) : q[i] = l[i]
  OBVIOUS
<1>2. \A i \in 1..(Len(l) + 1) : i \in 1..Len(l) \/ i = Len(l) + 1
  BY <1>1
<1> HIDE DEF q
<1>3. Named(q)
  BY <1>1, <1>2 DEF Named
<1> QED BY <1>1, <1>3 DEF q

LEMMA NamedRemove ==
    ASSUME NEW T, NEW l \in Seq(T), NEW k \in 1..Len(l), Named(l)
    PROVE  Sett!RemoveAt(l, k) \in Seq(T) /\ Named(Sett!RemoveAt(l, k))
<1> DEFINE a == SubSeq(l, 1, k - 1)
           b == SubSeq(l, k + 1, Len(l))
           q == a \o b
<1>1. Len(l) \in Nat /\ k \in Nat /\ k >= 1 /\ k <= Len(l)
  OBVIOUS
<1>2. a \in Seq(T) /\ Len(a) = k - 1 /\ \A i \in 1..(k - 1) : a[i] = l[i]
  BY <1>1
<1>3. b \in Seq(T) /\ Len(b) = Len(l) - k /\ \A i \in 1..(Len(l) - k) : b[i] = l[k + i]
  BY <1>1
<1> HIDE DEF a, b
<1>4. q \in Seq(T) /\ Len(q) = Len(l) - 1
  <2>1. q \in Seq(T) /\ Len(q) = Len(a) + Len(b)
    BY Zenon, <1>2, <1>3, ConcatProperties
  <2> QED BY <1>1, <1>2, <1>3, <2>1
<1>5. \A i \in 1..Len(q) : q[i] = IF i < k THEN l[i] ELSE l[i + 1]
  <2> SUFFICES ASSUME NEW i \in 1..Len(q) PROVE q[i] = IF i < k THEN l[i] ELSE l[i + 1]
    OBVIOUS
  <2>1. CASE i < k
    BY <1>1, <1>2, <1>3, <2>1
  <2>2. CASE i >= k
    <3>1. q[i] = b[i - (k - 1)] /\ i - (k - 1) \in 1..(Len(l) - k) /\ k + (i - (k - 1)) = i + 1
      BY <1>1, <1>2, <1>3, <1>4, <2>2
    <3> QED BY <1>1, <1>3, <2>2, <3>1
  <2> QED BY <1>1, <1>4, <2>1, <2>2
<1> HIDE DEF q
<1>6. Named(q)
  <2> SUFFICES ASSUME NEW i \in 1..Len(q), NEW j \in 1..Len(q), q[i] = q[j] PROVE i = j
    BY DEF Named
  <2> DEFINE at(x) == IF x < k THEN x ELSE x + 1
  <2>1. at(i) \in 1..Len(l) /\ at(j) \in 1..Len(l)
    BY <1>1, <1>4
  <2>2. l[at(i)] = l[at(j)]
    BY <1>5
  <2>3. at(i) = at(j)
    BY <2>1, <2>2 DEF Named
  <2> QED BY <1>1, <1>4, <2>3
<1> QED BY Zenon, <1>4, <1>6 DEF q, a, b, Sett!RemoveAt

-----------------------------------------------------------------------------
(* Settings: a channel, and what a store call makes of it.                 *)

SettingsAre ==
    /\ Mask # {} /\ Pattern # {} /\ MaxList \in Nat /\ MaxList >= 1
    /\ MaxNow["settings"] \in Nat /\ MaxOps["settings"] \in Nat
    /\ None \notin Sett!Rec

LEMMA Settled == SettingsAre
BY SettingsAssumption DEF SettingsAre

\* No mode is locked both ways, and f goes with its value.
Sensible(lock) == lock.on \cap lock.off = {} /\ lock.given = lock.on \cap {"f"}

Wells ==
    {r \in Sett!Rec : /\ r.ts <= MaxNow["settings"] /\ Sensible(r.lock)
                      /\ Named(r.words) /\ Named(r.trigs) /\ Named(r.akick) /\ Len(r.akick) <= MaxList}

Registries == [Chan -> Wells \cup {None}]

\* What a restart would make of a channel: all but the revisions, the setter of
\* no topic, and perhaps the note.
Agree(d, m, lax) ==
    /\ d = None <=> m = None
    /\ m # None =>
          /\ d.ts = m.ts /\ d.lock = m.lock /\ d.akick = m.akick /\ d.op = m.op /\ d.about = m.about
          /\ d.opts = m.opts /\ d.kick = m.kick /\ d.words = m.words /\ d.trigs = m.trigs
          /\ d.frozen = m.frozen
          /\ d.topic.text = m.topic.text /\ (m.topic.text # "" => d.topic = m.topic)
          /\ lax \/ d.note = m.note

Stores == [reg : Registries, disk : Registries, ok : BOOLEAN, fate : Nat, drifted : BOOLEAN]

Sound(st) == st \in Stores /\ \A c \in Chan : Agree(st.disk[c], st.reg[c], st.drifted)

\* A list that is not as it was has a later revision.
Newer(a, b) ==
    /\ b.ts = a.ts /\ b.wordsrev >= a.wordsrev /\ b.trigsrev >= a.trigsrev
    /\ b.wordsrev = a.wordsrev => b.words = a.words
    /\ b.trigsrev = a.trigsrev => b.trigs = a.trigs

Onward(a, b) ==
    \A c \in Chan : /\ a[c] = None <=> b[c] = None
                    /\ a[c] # None => Newer(a[c], b[c])

\* What a field that is set as a whole may be set to.
Fits(f, v) ==
    /\ f \in {"lock", "op", "about", "opts", "kick", "topic", "frozen", "note"}
    /\ f = "lock" => v \in [on : SUBSET Sett!Mode, off : SUBSET Sett!Mode, given : SUBSET {"f"}] /\ Sensible(v)
    /\ f = "op" => v \in {None, "vop"}
    /\ f = "about" => v \in [Sett!Field -> {"", "t"}]
    /\ f = "opts" => v \in SUBSET Sett!Option
    /\ f = "kick" => v \in [on : SUBSET Sett!Kicker, ttb : 0..1]
    /\ f = "topic" => v \in [text : {"", "t"}, by : {"", "op"}]
    /\ f = "frozen" => v \in BOOLEAN
    /\ f = "note" => v \in {"", "t"}

LEMMA WellNotNone == \A r \in Wells : r # None /\ r \in Sett!Rec
BY Settled DEF SettingsAre, Wells

LEMMA WellField ==
    ASSUME NEW r \in Wells, NEW f, NEW v, Fits(f, v)
    PROVE  /\ [r EXCEPT ![f] = v] \in Wells /\ Newer(r, [r EXCEPT ![f] = v])
<1> DEFINE q == [r EXCEPT ![f] = v]
<1>1. q \in Sett!Rec
  BY Zenon DEF Fits, Wells, Sett!Rec
<1>2. /\ q.ts = r.ts /\ q.words = r.words /\ q.trigs = r.trigs /\ q.akick = r.akick
      /\ q.wordsrev = r.wordsrev /\ q.trigsrev = r.trigsrev
  BY Zenon DEF Fits, Wells, Sett!Rec
<1>3. q.lock = IF f = "lock" THEN v ELSE r.lock
  BY Zenon DEF Fits, Wells, Sett!Rec
<1>4. Sensible(q.lock)
  BY Zenon, <1>3 DEF Wells, Fits
<1>5. r.wordsrev \in Nat /\ r.trigsrev \in Nat
  BY Zenon DEF Wells, Sett!Rec
<1> HIDE DEF q
<1>6. /\ r.ts <= MaxNow["settings"] /\ Named(r.words) /\ Named(r.trigs)
      /\ Named(r.akick) /\ Len(r.akick) <= MaxList
  BY DEF Wells
<1>7. q \in Wells
  BY <1>1, <1>2, <1>4, <1>6 DEF Wells
<1>8. Newer(r, q)
  BY <1>2, <1>5 DEF Newer
<1> QED BY <1>7, <1>8 DEF q

LEMMA AgreeField ==
    ASSUME NEW d \in Wells, NEW m \in Wells, NEW f, NEW v, Fits(f, v), NEW lax, Agree(d, m, lax)
    PROVE  Agree([d EXCEPT ![f] = v], [m EXCEPT ![f] = v], lax)
<1> DEFINE d_ == [d EXCEPT ![f] = v]
           m_ == [m EXCEPT ![f] = v]
           Rest == {"ts", "akick", "words", "trigs"}
<1>1. m # None /\ d # None /\ d_ # None /\ m_ # None
  BY WellNotNone, WellField
<1>2. \A g \in {"ts", "lock", "akick", "op", "about", "opts", "kick", "words", "trigs", "topic", "frozen", "note"} :
         d_[g] = (IF g = f THEN v ELSE d[g]) /\ m_[g] = (IF g = f THEN v ELSE m[g])
  BY Zenon DEF Fits, Wells, Sett!Rec
<1> HIDE DEF d_, m_
<1> QED BY ZenonT(40), <1>1, <1>2 DEF Agree, d_, m_

-----------------------------------------------------------------------------
(* Settings: store calls.                                                  *)

LEMMA StrictIs ==
    ASSUME NEW st, st \in Stores, NEW e, NEW becomes, NEW s, s = Sett!Strict(st, e, becomes)
    PROVE  /\ s = [reg |-> s.reg, disk |-> s.disk, ok |-> s.ok, fate |-> s.fate, drifted |-> st.drifted]
           /\ s.fate \in Nat /\ s.ok \in BOOLEAN /\ s.drifted = st.drifted
           /\ s.ok <=> ~Sett!Refused(st)
           /\ s.ok => s.reg = becomes /\ s.disk = Sett!apply(st.disk, e)
           /\ ~s.ok => s.reg = st.reg /\ s.disk = st.disk
<1> DEFINE n == IF st.fate = 0 THEN 0 ELSE st.fate - 1
           later == [st EXCEPT !.fate = IF @ = 0 THEN 0 ELSE @ - 1]
<1>1. n \in Nat
  BY DEF Stores
<1>2. later = [reg |-> st.reg, disk |-> st.disk, ok |-> st.ok, fate |-> n, drifted |-> st.drifted]
  BY DEF Stores
<1> HIDE DEF later, n
<1>3. CASE Sett!Refused(st)
  <2>1. s = [later EXCEPT !.ok = FALSE]
    BY <1>3 DEF Sett!Strict, later
  <2>2. s = [reg |-> st.reg, disk |-> st.disk, ok |-> FALSE, fate |-> n, drifted |-> st.drifted]
    BY Zenon, <1>2, <2>1
  <2> QED BY <1>1, <1>3, <2>2
<1>4. CASE ~Sett!Refused(st)
  <2>1. s = [later EXCEPT !.ok = TRUE, !.disk = Sett!apply(@, e), !.reg = becomes]
    BY <1>4 DEF Sett!Strict, later
  <2>2. s = [reg |-> becomes, disk |-> Sett!apply(st.disk, e), ok |-> TRUE, fate |-> n, drifted |-> st.drifted]
    BY Zenon, <1>2, <2>1
  <2> QED BY <1>1, <1>4, <2>2
<1> QED BY <1>3, <1>4

\* A store call that does the same to a channel in memory and on disk.
LEMMA StrictKeeps ==
    ASSUME NEW st, Sound(st), NEW c \in Chan, st.reg[c] # None, NEW e, NEW d \in Wells, NEW m \in Wells,
           Sett!apply(st.disk, e) = [st.disk EXCEPT ![c] = d], Agree(d, m, st.drifted), Newer(st.reg[c], m),
           NEW s, s = Sett!Strict(st, e, [st.reg EXCEPT ![c] = m])
    PROVE  /\ Sound(s) /\ Onward(st.reg, s.reg) /\ s.drifted = st.drifted
           /\ s.ok => s.reg = [st.reg EXCEPT ![c] = m]
           /\ ~s.ok => s.reg = st.reg
           /\ s.ok <=> ~Sett!Refused(st)
<1> DEFINE becomes == [st.reg EXCEPT ![c] = m]
           disk_ == [st.disk EXCEPT ![c] = d]
<1>1. st \in Stores /\ st.reg \in Registries /\ st.disk \in Registries /\ st.drifted \in BOOLEAN
  BY DEF Sound, Stores
<1>2. /\ s = [reg |-> s.reg, disk |-> s.disk, ok |-> s.ok, fate |-> s.fate, drifted |-> st.drifted]
      /\ s.fate \in Nat /\ s.ok \in BOOLEAN /\ s.drifted = st.drifted
      /\ s.ok <=> ~Sett!Refused(st)
      /\ s.ok => s.reg = becomes /\ s.disk = disk_
      /\ ~s.ok => s.reg = st.reg /\ s.disk = st.disk
  BY <1>1, StrictIs
<1>3. becomes \in Registries /\ disk_ \in Registries
  BY <1>1 DEF Registries
<1>4. \A k \in Chan : becomes[k] = (IF k = c THEN m ELSE st.reg[k]) /\ disk_[k] = (IF k = c THEN d ELSE st.disk[k])
  BY <1>1 DEF Registries
<1> HIDE DEF becomes, disk_
<1>5. s \in Stores
  BY <1>1, <1>2, <1>3 DEF Stores
<1>6. \A k \in Chan : Agree(s.disk[k], s.reg[k], s.drifted)
  BY <1>2, <1>4 DEF Sound
<1>7. \A k \in Chan : st.reg[k] # None => Newer(st.reg[k], st.reg[k])
  <2> SUFFICES ASSUME NEW k \in Chan, st.reg[k] # None PROVE Newer(st.reg[k], st.reg[k])
    OBVIOUS
  <2>1. st.reg[k] \in Wells
    BY <1>1 DEF Registries
  <2>2. st.reg[k].wordsrev \in Nat /\ st.reg[k].trigsrev \in Nat
    BY Zenon, <2>1 DEF Wells, Sett!Rec
  <2> QED BY <2>2 DEF Newer
<1>8. Onward(st.reg, s.reg)
  <2>1. m # None
    BY WellNotNone
  <2> QED BY <1>2, <1>4, <1>7, <2>1 DEF Onward
<1> QED BY <1>2, <1>5, <1>6, <1>8 DEF Sound, becomes

\* What a store call may do: all of it or nothing.
Outcome(st, s) ==
    /\ Sound(s) /\ Onward(st.reg, s.reg) /\ s.drifted = st.drifted
    /\ ~s.ok => s.reg = st.reg

LEMMA SoundIs ==
    ASSUME NEW st, Sound(st)
    PROVE  /\ st \in Stores /\ st.reg \in Registries /\ st.disk \in Registries
           /\ st.ok \in BOOLEAN /\ st.fate \in Nat /\ st.drifted \in BOOLEAN
           /\ \A c \in Chan : Agree(st.disk[c], st.reg[c], st.drifted)
           /\ \A c \in Chan : st.reg[c] # None =>
                 st.reg[c] \in Wells /\ st.disk[c] \in Wells /\ st.disk[c] # None
BY Zenon DEF Sound, Stores, Registries, Agree

LEMMA FieldSet ==
    ASSUME NEW st, Sound(st), NEW c \in Chan, st.reg[c] # None, NEW f, NEW v, Fits(f, v),
           NEW s, s = Sett!set_field(st, c, f, v)
    PROVE  /\ Outcome(st, s)
           /\ s.ok => s.reg = [st.reg EXCEPT ![c] = [st.reg[c] EXCEPT ![f] = v]]
<1> DEFINE m == [st.reg[c] EXCEPT ![f] = v]
           d == [st.disk[c] EXCEPT ![f] = v]
           e == Sett!Ev(c, f, v)
<1>1. st.reg \in Registries /\ st.disk \in Registries /\ st.reg[c] \in Wells /\ st.disk[c] \in Wells /\ st.disk[c] # None
      /\ Agree(st.disk[c], st.reg[c], st.drifted)
  BY SoundIs
<1>2. m \in Wells /\ d \in Wells /\ Newer(st.reg[c], m) /\ Agree(d, m, st.drifted)
  BY Zenon, <1>1, WellField, AgreeField
<1>3. e.chan = c /\ e.field = f /\ e.value = v
      /\ f \notin {"registered", "dropped", "renamed", "akick+", "akick-", "words", "trigs"}
  BY Zenon DEF Sett!Ev, Fits
<1>4. Sett!apply(st.disk, e) = [st.disk EXCEPT ![c] = d]
  <2> HIDE DEF e
  <2>1. Sett!Kept(st.disk[c], e) = d
    BY <1>3 DEF Sett!Kept
  <2>2. Sett!apply(st.disk, e) = [st.disk EXCEPT ![c] = Sett!Kept(st.disk[c], e)]
    BY <1>1, <1>3 DEF Sett!apply, Registries
  <2> QED BY <2>1, <2>2
<1>5. [st.reg EXCEPT ![c][f] = v] = [st.reg EXCEPT ![c] = m]
  BY <1>1 DEF Registries
<1>6. s = Sett!Strict(st, e, [st.reg EXCEPT ![c] = m])
  BY <1>5 DEF Sett!set_field
<1> HIDE DEF m, d, e
<1>7. /\ Sound(s) /\ Onward(st.reg, s.reg) /\ s.drifted = st.drifted
      /\ s.ok => s.reg = [st.reg EXCEPT ![c] = m]
      /\ ~s.ok => s.reg = st.reg
  BY <1>2, <1>4, <1>6, StrictKeeps
<1> QED BY <1>7 DEF Outcome, m

\* A channel, field by field.
RecFields == {"ts", "lock", "akick", "op", "about", "opts", "kick", "words", "wordsrev", "trigs", "trigsrev",
              "topic", "frozen", "note"}

Suits(f, v) ==
    /\ f \in {"ts", "wordsrev", "trigsrev"} => v \in Nat
    /\ f = "lock" => v \in [on : SUBSET Sett!Mode, off : SUBSET Sett!Mode, given : SUBSET {"f"}]
    /\ f = "akick" => v \in Seq(Mask)
    /\ f = "op" => v \in {None, "vop"}
    /\ f = "about" => v \in [Sett!Field -> {"", "t"}]
    /\ f = "opts" => v \in SUBSET Sett!Option
    /\ f = "kick" => v \in [on : SUBSET Sett!Kicker, ttb : 0..1]
    /\ f \in {"words", "trigs"} => v \in Seq(Pattern)
    /\ f = "topic" => v \in [text : {"", "t"}, by : {"", "op"}]
    /\ f = "frozen" => v \in BOOLEAN
    /\ f = "note" => v \in {"", "t"}

LEMMA RecIs ==
    ASSUME NEW r
    PROVE  r \in Sett!Rec <=> r = [f \in RecFields |-> r[f]] /\ \A f \in RecFields : Suits(f, r[f])
BY Zenon DEF Sett!Rec, RecFields, Suits

LEMMA RecSet ==
    ASSUME NEW r \in Sett!Rec, NEW f \in RecFields, NEW v, Suits(f, v)
    PROVE  [r EXCEPT ![f] = v] \in Sett!Rec
<1> DEFINE q == [r EXCEPT ![f] = v]
<1>1. r = [g \in RecFields |-> r[g]] /\ \A g \in RecFields : Suits(g, r[g])
  BY RecIs
<1>2. q = [g \in RecFields |-> q[g]] /\ \A g \in RecFields : q[g] = IF g = f THEN v ELSE r[g]
  BY <1>1
<1> HIDE DEF q
<1>3. \A g \in RecFields : Suits(g, q[g])
  BY <1>1, <1>2
<1>4. q \in Sett!Rec
  BY <1>2, <1>3, RecIs
<1> QED BY <1>4 DEF q

LEMMA WellIs ==
    ASSUME NEW r \in Wells
    PROVE  /\ r # None /\ r \in Sett!Rec /\ r = [g \in RecFields |-> r[g]]
           /\ r.ts \in Nat /\ r.ts <= MaxNow["settings"] /\ r.wordsrev \in Nat /\ r.trigsrev \in Nat
           /\ r.words \in Seq(Pattern) /\ Named(r.words) /\ r.trigs \in Seq(Pattern) /\ Named(r.trigs)
           /\ r.akick \in Seq(Mask) /\ Named(r.akick) /\ Len(r.akick) <= MaxList
           /\ r.lock \in [on : SUBSET Sett!Mode, off : SUBSET Sett!Mode, given : SUBSET {"f"}] /\ Sensible(r.lock)
           /\ r.op \in {None, "vop"} /\ r.about \in [Sett!Field -> {"", "t"}] /\ r.opts \in SUBSET Sett!Option
           /\ r.kick \in [on : SUBSET Sett!Kicker, ttb : 0..1]
           /\ r.topic \in [text : {"", "t"}, by : {"", "op"}] /\ r.frozen \in BOOLEAN /\ r.note \in {"", "t"}
<1>1. r # None /\ r \in Sett!Rec
  BY WellNotNone
<1>2. r = [g \in RecFields |-> r[g]] /\ \A g \in RecFields : Suits(g, r[g])
  BY <1>1, RecIs
<1>3. /\ r.ts <= MaxNow["settings"] /\ Sensible(r.lock)
      /\ Named(r.words) /\ Named(r.trigs) /\ Named(r.akick) /\ Len(r.akick) <= MaxList
  BY DEF Wells
<1>4. /\ r.ts \in Nat /\ r.wordsrev \in Nat /\ r.trigsrev \in Nat
      /\ r.words \in Seq(Pattern) /\ r.trigs \in Seq(Pattern) /\ r.akick \in Seq(Mask)
      /\ r.lock \in [on : SUBSET Sett!Mode, off : SUBSET Sett!Mode, given : SUBSET {"f"}]
      /\ r.op \in {None, "vop"} /\ r.about \in [Sett!Field -> {"", "t"}] /\ r.opts \in SUBSET Sett!Option
      /\ r.kick \in [on : SUBSET Sett!Kicker, ttb : 0..1]
      /\ r.topic \in [text : {"", "t"}, by : {"", "op"}] /\ r.frozen \in BOOLEAN /\ r.note \in {"", "t"}
  BY Zenon, <1>2 DEF RecFields, Suits
<1> QED BY Zenon, <1>1, <1>2, <1>3, <1>4

LEMMA WellNumbers ==
    ASSUME NEW r \in Wells
    PROVE  r.ts \in Nat /\ r.ts <= MaxNow["settings"] /\ r.wordsrev \in Nat /\ r.trigsrev \in Nat
BY Zenon, WellIs

LEMMA WellLists ==
    ASSUME NEW r \in Wells
    PROVE  /\ r.words \in Seq(Pattern) /\ Named(r.words) /\ r.trigs \in Seq(Pattern) /\ Named(r.trigs)
           /\ r.akick \in Seq(Mask) /\ Named(r.akick) /\ Len(r.akick) <= MaxList
BY Zenon, WellIs

LEMMA WellFunction ==
    ASSUME NEW r \in Wells
    PROVE  r # None /\ r \in Sett!Rec /\ r = [g \in RecFields |-> r[g]] /\ Sensible(r.lock)
BY Zenon, WellIs

\* A list and its revision.
Worded(r, list) == [r EXCEPT !.words = list, !.wordsrev = @ + 1]

LEMMA WellWords ==
    ASSUME NEW r \in Wells, NEW list \in Seq(Pattern), Named(list),
           NEW q, q = Worded(r, list)
    PROVE  /\ q \in Wells /\ q.words = list /\ q.wordsrev = r.wordsrev + 1
           /\ \A g \in {"ts", "lock", "akick", "op", "about", "opts", "kick", "trigs",
                 "trigsrev", "topic", "frozen", "note"} : q[g] = r[g]
<1>1. /\ q.words = list /\ q.wordsrev = r.wordsrev + 1
      /\ \A g \in {"ts", "lock", "akick", "op", "about", "opts", "kick", "trigs",
                 "trigsrev", "topic", "frozen", "note"} : q[g] = r[g]
  BY Zenon DEF Wells, Sett!Rec, Worded
<1>2. q \in Sett!Rec
  <2> DEFINE p == [r EXCEPT !.words = list]
             n == r.wordsrev + 1
  <2>1. n \in Nat
    <3>1. r.wordsrev \in Nat
      BY Zenon, RecIs DEF Wells, RecFields, Suits
    <3> QED BY <3>1
  <2>3. p \in Sett!Rec
    BY Zenon, RecSet DEF Wells, Suits, RecFields
  <2>2. q = [p EXCEPT !.wordsrev = n]
    <3>1. r = [g \in RecFields |-> r[g]]
      BY RecIs DEF Wells
    <3>2. q = [p EXCEPT !["wordsrev"] = n]
      BY Zenon, <3>1 DEF Worded, RecFields
    <3> QED BY Zenon, <3>2
  <2> HIDE DEF p, n
  <2> QED BY Zenon, <2>1, <2>2, <2>3, RecSet DEF Suits, RecFields
<1>3. /\ r.ts <= MaxNow["settings"] /\ Sensible(r.lock) /\ Named(r.trigs)
      /\ Named(r.akick) /\ Len(r.akick) <= MaxList
  BY DEF Wells
<1>4. q \in Wells
  BY <1>1, <1>2, <1>3 DEF Wells
<1> QED BY <1>1, <1>4

LEMMA WordsSet ==
    ASSUME NEW st, Sound(st), NEW c \in Chan, st.reg[c] # None, NEW list \in Seq(Pattern), Named(list),
           NEW s, s = Sett!write_badwords(st, c, list)
    PROVE  /\ Outcome(st, s)
           /\ s.ok => s.reg = [st.reg EXCEPT ![c] = Worded(st.reg[c], list)]
<1> DEFINE m == Worded(st.reg[c], list)
           d == Worded(st.disk[c], list)
           e == Sett!Ev(c, "words", list)
<1>1. st.reg \in Registries /\ st.disk \in Registries /\ st.reg[c] \in Wells /\ st.disk[c] \in Wells /\ st.disk[c] # None
      /\ Agree(st.disk[c], st.reg[c], st.drifted)
  BY SoundIs
<1>2. Sett!apply(st.disk, e) = [st.disk EXCEPT ![c] = d]
  BY <1>1 DEF Sett!apply, Sett!Kept, Sett!Ev, Registries, Worded
<1>3. [st.reg EXCEPT ![c].words = list, ![c].wordsrev = @ + 1] = [st.reg EXCEPT ![c] = m]
  BY Zenon, <1>1 DEF Registries, Wells, Sett!Rec, Worded
<1>4. s = Sett!Strict(st, e, [st.reg EXCEPT ![c] = m])
  BY <1>3 DEF Sett!write_badwords
<1>5. m = Worded(st.reg[c], list) /\ d = Worded(st.disk[c], list)
  OBVIOUS
<1> HIDE DEF m, d, e
<1>6. /\ m \in Wells /\ m.words = list /\ m.wordsrev = st.reg[c].wordsrev + 1
      /\ \A g \in {"ts", "lock", "akick", "op", "about", "opts", "kick", "trigs",
                 "trigsrev", "topic", "frozen", "note"} : m[g] = st.reg[c][g]
  BY <1>1, <1>5, WellWords
<1>7. /\ d \in Wells /\ d.words = list
      /\ \A g \in {"ts", "lock", "akick", "op", "about", "opts", "kick", "trigs",
                 "trigsrev", "topic", "frozen", "note"} : d[g] = st.disk[c][g]
  BY <1>1, <1>5, WellWords
<1>8. Newer(st.reg[c], m)
  <2>1. st.reg[c].wordsrev \in Nat /\ st.reg[c].trigsrev \in Nat
    BY Zenon, <1>1 DEF Wells, Sett!Rec
  <2> QED BY <1>6, <2>1 DEF Newer
<1>9. Agree(d, m, st.drifted)
  <2>1. m # None /\ d # None
    BY <1>6, <1>7, WellNotNone
  <2> QED BY Zenon, <1>1, <1>6, <1>7, <2>1 DEF Agree
<1>10. /\ Sound(s) /\ Onward(st.reg, s.reg) /\ s.drifted = st.drifted
       /\ s.ok => s.reg = [st.reg EXCEPT ![c] = m]
       /\ ~s.ok => s.reg = st.reg
  BY <1>2, <1>4, <1>6, <1>7, <1>8, <1>9, StrictKeeps
<1> QED BY <1>10, <1>5 DEF Outcome

Triggered(r, list) == [r EXCEPT !.trigs = list, !.trigsrev = @ + 1]

LEMMA WellTrigs ==
    ASSUME NEW r \in Wells, NEW list \in Seq(Pattern), Named(list),
           NEW q, q = Triggered(r, list)
    PROVE  /\ q \in Wells /\ q.trigs = list /\ q.trigsrev = r.trigsrev + 1
           /\ \A g \in {"ts", "lock", "akick", "op", "about", "opts", "kick", "words",
                 "wordsrev", "topic", "frozen", "note"} : q[g] = r[g]
<1>1. /\ q.trigs = list /\ q.trigsrev = r.trigsrev + 1
      /\ \A g \in {"ts", "lock", "akick", "op", "about", "opts", "kick", "words",
                 "wordsrev", "topic", "frozen", "note"} : q[g] = r[g]
  BY Zenon DEF Wells, Sett!Rec, Triggered
<1>2. q \in Sett!Rec
  <2> DEFINE p == [r EXCEPT !.trigs = list]
             n == r.trigsrev + 1
  <2>1. n \in Nat
    <3>1. r.trigsrev \in Nat
      BY Zenon, RecIs DEF Wells, RecFields, Suits
    <3> QED BY <3>1
  <2>3. p \in Sett!Rec
    BY Zenon, RecSet DEF Wells, Suits, RecFields
  <2>2. q = [p EXCEPT !.trigsrev = n]
    <3>1. r = [g \in RecFields |-> r[g]]
      BY RecIs DEF Wells
    <3>2. q = [p EXCEPT !["trigsrev"] = n]
      BY Zenon, <3>1 DEF Triggered, RecFields
    <3> QED BY Zenon, <3>2
  <2> HIDE DEF p, n
  <2> QED BY Zenon, <2>1, <2>2, <2>3, RecSet DEF Suits, RecFields
<1>3. /\ r.ts <= MaxNow["settings"] /\ Sensible(r.lock) /\ Named(r.words)
      /\ Named(r.akick) /\ Len(r.akick) <= MaxList
  BY DEF Wells
<1>4. q \in Wells
  BY <1>1, <1>2, <1>3 DEF Wells
<1> QED BY <1>1, <1>4

LEMMA TrigsSet ==
    ASSUME NEW st, Sound(st), NEW c \in Chan, st.reg[c] # None, NEW list \in Seq(Pattern), Named(list),
           NEW s, s = Sett!write_triggers(st, c, list)
    PROVE  /\ Outcome(st, s)
           /\ s.ok => s.reg = [st.reg EXCEPT ![c] = Triggered(st.reg[c], list)]
<1> DEFINE m == Triggered(st.reg[c], list)
           d == Triggered(st.disk[c], list)
           e == Sett!Ev(c, "trigs", list)
<1>1. st.reg \in Registries /\ st.disk \in Registries /\ st.reg[c] \in Wells /\ st.disk[c] \in Wells /\ st.disk[c] # None
      /\ Agree(st.disk[c], st.reg[c], st.drifted)
  BY SoundIs
<1>2. Sett!apply(st.disk, e) = [st.disk EXCEPT ![c] = d]
  BY <1>1 DEF Sett!apply, Sett!Kept, Sett!Ev, Registries, Triggered
<1>3. [st.reg EXCEPT ![c].trigs = list, ![c].trigsrev = @ + 1] = [st.reg EXCEPT ![c] = m]
  BY Zenon, <1>1 DEF Registries, Wells, Sett!Rec, Triggered
<1>4. s = Sett!Strict(st, e, [st.reg EXCEPT ![c] = m])
  BY <1>3 DEF Sett!write_triggers
<1>5. m = Triggered(st.reg[c], list) /\ d = Triggered(st.disk[c], list)
  OBVIOUS
<1> HIDE DEF m, d, e
<1>6. /\ m \in Wells /\ m.trigs = list /\ m.trigsrev = st.reg[c].trigsrev + 1
      /\ \A g \in {"ts", "lock", "akick", "op", "about", "opts", "kick", "words",
                 "wordsrev", "topic", "frozen", "note"} : m[g] = st.reg[c][g]
  BY <1>1, <1>5, WellTrigs
<1>7. /\ d \in Wells /\ d.trigs = list
      /\ \A g \in {"ts", "lock", "akick", "op", "about", "opts", "kick", "words",
                 "wordsrev", "topic", "frozen", "note"} : d[g] = st.disk[c][g]
  BY <1>1, <1>5, WellTrigs
<1>8. Newer(st.reg[c], m)
  <2>1. st.reg[c].trigsrev \in Nat /\ st.reg[c].wordsrev \in Nat
    BY Zenon, <1>1 DEF Wells, Sett!Rec
  <2> QED BY <1>6, <2>1 DEF Newer
<1>9. Agree(d, m, st.drifted)
  <2>1. m # None /\ d # None
    BY <1>6, <1>7, WellNotNone
  <2> QED BY Zenon, <1>1, <1>6, <1>7, <2>1 DEF Agree
<1>10. /\ Sound(s) /\ Onward(st.reg, s.reg) /\ s.drifted = st.drifted
       /\ s.ok => s.reg = [st.reg EXCEPT ![c] = m]
       /\ ~s.ok => s.reg = st.reg
  BY <1>2, <1>4, <1>6, <1>7, <1>8, <1>9, StrictKeeps
<1> QED BY <1>10, <1>5 DEF Outcome

\* The masks.
Masked(r, list) == [r EXCEPT !.akick = list]

LEMMA WellMasks ==
    ASSUME NEW r \in Wells, NEW list \in Seq(Mask), Named(list), Len(list) <= MaxList,
           NEW q, q = Masked(r, list)
    PROVE  /\ q \in Wells /\ q.akick = list
           /\ \A g \in RecFields \ {"akick"} : q[g] = r[g]
<1>1. q.akick = list /\ \A g \in RecFields \ {"akick"} : q[g] = r[g]
  <2>1. r = [g \in RecFields |-> r[g]]
    BY WellFunction
  <2> QED BY <2>1 DEF Masked, RecFields
<1>2. q \in Sett!Rec
  <2>1. q = [r EXCEPT !["akick"] = list]
    BY DEF Masked
  <2>2. r \in Sett!Rec /\ "akick" \in RecFields /\ Suits("akick", list)
    BY WellFunction DEF Suits, RecFields
  <2>3. [r EXCEPT !["akick"] = list] \in Sett!Rec
    BY <2>2, RecSet
  <2> QED BY <2>1, <2>3
<1>3. /\ r.ts <= MaxNow["settings"] /\ Sensible(r.lock) /\ Named(r.words) /\ Named(r.trigs)
  BY WellNumbers, WellLists, WellFunction
<1>4. q.ts = r.ts /\ q.lock = r.lock /\ q.words = r.words /\ q.trigs = r.trigs
  BY <1>1 DEF RecFields
<1>5. q \in Wells
  BY <1>1, <1>2, <1>3, <1>4 DEF Wells
<1> QED BY <1>1, <1>5

LEMMA MasksSet ==
    ASSUME NEW st, Sound(st), NEW c \in Chan, st.reg[c] # None, NEW list \in Seq(Mask), Named(list),
           Len(list) <= MaxList, NEW e,
           Sett!apply(st.disk, e) = [st.disk EXCEPT ![c] = Masked(st.disk[c], list)],
           NEW s, s = Sett!Strict(st, e, [st.reg EXCEPT ![c].akick = list])
    PROVE  Outcome(st, s)
<1> DEFINE m == Masked(st.reg[c], list)
           d == Masked(st.disk[c], list)
<1>1. st.reg \in Registries /\ st.disk \in Registries /\ st.reg[c] \in Wells /\ st.disk[c] \in Wells /\ st.disk[c] # None
      /\ Agree(st.disk[c], st.reg[c], st.drifted)
  BY SoundIs
<1>3. [st.reg EXCEPT ![c].akick = list] = [st.reg EXCEPT ![c] = m]
  BY Zenon, <1>1 DEF Registries, Wells, Sett!Rec, Masked
<1>5. m = Masked(st.reg[c], list) /\ d = Masked(st.disk[c], list)
  OBVIOUS
<1> HIDE DEF m, d
<1>6. m \in Wells /\ m.akick = list /\ \A g \in RecFields \ {"akick"} : m[g] = st.reg[c][g]
  BY <1>1, <1>5, WellMasks
<1>7. d \in Wells /\ d.akick = list /\ \A g \in RecFields \ {"akick"} : d[g] = st.disk[c][g]
  BY <1>1, <1>5, WellMasks
<1>8. Newer(st.reg[c], m)
  <2>1. st.reg[c].wordsrev \in Nat /\ st.reg[c].trigsrev \in Nat
    BY <1>1, WellNumbers
  <2> QED BY <1>6, <2>1 DEF Newer, RecFields
<1>9. Agree(d, m, st.drifted)
  <2>1. m # None /\ d # None
    BY <1>6, <1>7, WellNotNone
  <2> QED BY ZenonT(40), <1>1, <1>6, <1>7, <2>1 DEF Agree, RecFields
<1>10. /\ Sound(s) /\ Onward(st.reg, s.reg) /\ s.drifted = st.drifted
       /\ ~s.ok => s.reg = st.reg
  BY <1>3, <1>5, <1>6, <1>7, <1>8, <1>9, StrictKeeps
<1> QED BY <1>10 DEF Outcome

LEMMA NewerSame == \A r \in Wells : Newer(r, r)
BY WellNumbers DEF Newer

LEMMA OnwardSame == \A r \in Registries : Onward(r, r)
BY NewerSame DEF Onward, Registries

\* What changes nothing but how it is said to have gone.
LEMMA OkSet ==
    ASSUME NEW st, Sound(st), NEW b \in BOOLEAN, NEW s, s = [st EXCEPT !.ok = b]
    PROVE  Sound(s) /\ Onward(st.reg, s.reg) /\ s.drifted = st.drifted /\ s.reg = st.reg /\ s.ok = b /\ s.disk = st.disk
<1>1. /\ s = [reg |-> st.reg, disk |-> st.disk, ok |-> b, fate |-> st.fate, drifted |-> st.drifted]
      /\ st.reg \in Registries /\ st.disk \in Registries /\ st.fate \in Nat /\ st.drifted \in BOOLEAN
  BY DEF Sound, Stores
<1>2. s \in Stores
  BY Zenon, <1>1 DEF Stores
<1> QED BY <1>1, <1>2, OnwardSame DEF Sound

LEMMA ContainsIs == \A l, x : Sett!Contains(l, x) <=> \E i \in 1..Len(l) : l[i] = x
BY DEF Sett!Contains

LEMMA AkickAdded ==
    ASSUME NEW st, Sound(st), NEW c \in Chan, st.reg[c] # None, NEW m \in Mask,
           NEW s, s = Sett!akick_add(st, c, m)
    PROVE  Outcome(st, s)
<1> DEFINE old == st.reg[c].akick
           rest == Sett!Without(old, m)
           list == Append(rest, m)
           e == Sett!Ev(c, "akick+", m)
           full == Len(old) >= MaxList /\ ~Sett!Contains(old, m)
<1>1. st.reg \in Registries /\ st.disk \in Registries /\ st.reg[c] \in Wells /\ st.disk[c] \in Wells /\ st.disk[c] # None
      /\ st.disk[c].akick = old
  BY Zenon, SoundIs DEF Agree
<1>2. old \in Seq(Mask) /\ Named(old) /\ Len(old) <= MaxList /\ Len(old) \in Nat /\ MaxList \in Nat
  <2>1. MaxList \in Nat
    BY Settled DEF SettingsAre
  <2>2. old \in Seq(Mask) /\ Named(old) /\ Len(old) <= MaxList
    BY <1>1, WellLists
  <2> QED BY <2>1, <2>2
<1>3. CASE full
  <2>1. s = [st EXCEPT !.ok = FALSE]
    BY <1>3 DEF Sett!akick_add
  <2> QED BY Zenon, <2>1, OkSet DEF Outcome
<1>4. CASE ~full
  <2>1. s = Sett!Strict(st, e, [st.reg EXCEPT ![c].akick = Append(Sett!Without(@, m), m)])
    BY <1>4 DEF Sett!akick_add
  <2>2. [st.reg EXCEPT ![c].akick = Append(Sett!Without(@, m), m)] = [st.reg EXCEPT ![c].akick = list]
    BY Zenon, <1>1 DEF Registries, Wells, Sett!Rec
  <2>3. Sett!apply(st.disk, e) = [st.disk EXCEPT ![c] = Masked(st.disk[c], list)]
    BY Zenon, <1>1 DEF Sett!apply, Sett!Kept, Sett!Ev, Masked, Registries, Wells, Sett!Rec
  <2> HIDE DEF old
  <2>4. rest \in Seq(Mask) /\ Filtered(old, m, Len(old), rest)
    BY <1>2, WithoutIs
  <2>5. (\E i \in 1..Len(old) : old[i] = m) <=> Sett!Contains(old, m)
    BY ContainsIs
  <2> HIDE DEF rest
  <2>6. Named(rest) /\ (\A i \in 1..Len(rest) : rest[i] # m) /\ Len(rest) <= Len(old) /\ Len(rest) \in Nat
    BY <2>4 DEF Filtered
  <2>7. list \in Seq(Mask) /\ Named(list) /\ Len(list) = Len(rest) + 1
    BY <2>4, <2>6, NamedAppend
  <2>8. Len(list) <= MaxList
    <3>1. CASE Sett!Contains(old, m)
      <4>1. Len(rest) < Len(old)
        BY Zenon, <2>4, <2>5, <3>1 DEF Filtered
      <4> QED BY <1>2, <2>6, <2>7, <4>1
    <3>2. CASE ~Sett!Contains(old, m)
      <4>1. ~(Len(old) >= MaxList)
        BY <1>4, <3>2
      <4> QED BY <1>2, <2>6, <2>7, <4>1
    <3> QED BY <3>1, <3>2
  <2> HIDE DEF list, e
  <2>9. s = Sett!Strict(st, e, [st.reg EXCEPT ![c].akick = list])
    BY <2>1, <2>2
  <2> QED BY Zenon, <2>3, <2>7, <2>8, <2>9, MasksSet
<1> QED BY <1>3, <1>4

LEMMA AkickGone ==
    ASSUME NEW st, Sound(st), NEW c \in Chan, st.reg[c] # None, NEW m,
           NEW s, s = Sett!akick_del(st, c, m)
    PROVE  Outcome(st, s)
<1> DEFINE old == st.reg[c].akick
           rest == Sett!Without(old, m)
           e == Sett!Ev(c, "akick-", m)
<1>1. st.reg \in Registries /\ st.disk \in Registries /\ st.reg[c] \in Wells /\ st.disk[c] \in Wells /\ st.disk[c] # None
      /\ st.disk[c].akick = old
  BY Zenon, SoundIs DEF Agree
<1>2. old \in Seq(Mask) /\ Named(old) /\ Len(old) <= MaxList /\ Len(old) \in Nat /\ MaxList \in Nat
  <2>1. MaxList \in Nat
    BY Settled DEF SettingsAre
  <2>2. old \in Seq(Mask) /\ Named(old) /\ Len(old) <= MaxList
    BY <1>1, WellLists
  <2> QED BY <2>1, <2>2
<1>3. CASE ~Sett!Contains(old, m)
  <2>1. s = [st EXCEPT !.ok = FALSE]
    BY <1>3 DEF Sett!akick_del
  <2> QED BY Zenon, <2>1, OkSet DEF Outcome
<1>4. CASE Sett!Contains(old, m)
  <2>1. s = Sett!Strict(st, e, [st.reg EXCEPT ![c].akick = Sett!Without(@, m)])
    BY <1>4 DEF Sett!akick_del
  <2>2. [st.reg EXCEPT ![c].akick = Sett!Without(@, m)] = [st.reg EXCEPT ![c].akick = rest]
    BY Zenon, <1>1 DEF Registries, Wells, Sett!Rec
  <2>3. Sett!apply(st.disk, e) = [st.disk EXCEPT ![c] = Masked(st.disk[c], rest)]
    BY Zenon, <1>1 DEF Sett!apply, Sett!Kept, Sett!Ev, Masked, Registries, Wells, Sett!Rec
  <2> HIDE DEF old
  <2>4. rest \in Seq(Mask) /\ Filtered(old, m, Len(old), rest)
    BY <1>2, WithoutIs
  <2> HIDE DEF rest, e
  <2>5. Named(rest) /\ Len(rest) <= MaxList
    <3>1. Len(rest) \in Nat
      BY <2>4
    <3> QED BY <1>2, <2>4, <3>1 DEF Filtered
  <2>6. s = Sett!Strict(st, e, [st.reg EXCEPT ![c].akick = rest])
    BY <2>1, <2>2
  <2> QED BY Zenon, <2>3, <2>4, <2>5, <2>6, MasksSet
<1> QED BY <1>3, <1>4

\* One store call after another.
Follows(a, b) == Sound(b) /\ Onward(a.reg, b.reg) /\ b.drifted = a.drifted

LEMMA OnwardOn ==
    ASSUME NEW x \in Registries, NEW y \in Registries, NEW z \in Registries, Onward(x, y), Onward(y, z)
    PROVE  Onward(x, z)
<1> SUFFICES ASSUME NEW c \in Chan
             PROVE  (x[c] = None <=> z[c] = None) /\ (x[c] # None => Newer(x[c], z[c]))
  BY DEF Onward
<1>1. (x[c] = None <=> y[c] = None) /\ (y[c] = None <=> z[c] = None)
  BY DEF Onward
<1>2. ASSUME x[c] # None PROVE Newer(x[c], z[c])
  <2>1. x[c] \in Wells /\ y[c] \in Wells /\ z[c] \in Wells /\ Newer(x[c], y[c]) /\ Newer(y[c], z[c])
    BY <1>1, <1>2 DEF Onward, Registries
  <2>2. /\ x[c].wordsrev \in Nat /\ y[c].wordsrev \in Nat /\ z[c].wordsrev \in Nat
        /\ x[c].trigsrev \in Nat /\ y[c].trigsrev \in Nat /\ z[c].trigsrev \in Nat
    BY <2>1, WellNumbers
  <2> QED BY <2>1, <2>2 DEF Newer
<1> QED BY <1>1, <1>2

LEMMA FollowsOn ==
    ASSUME NEW a, NEW b, NEW d, Sound(a), Follows(a, b), Follows(b, d)
    PROVE  Follows(a, d)
<1>1. a.reg \in Registries /\ b.reg \in Registries /\ d.reg \in Registries
  BY SoundIs DEF Follows
<1> QED BY <1>1, OnwardOn DEF Follows

LEMMA FollowsSame == ASSUME NEW a, Sound(a) PROVE Follows(a, a)
BY SoundIs, OnwardSame DEF Follows

\* Whoever is registered stays so.
LEMMA FollowsThere ==
    ASSUME NEW a, NEW b, Follows(a, b), NEW c \in Chan, a.reg[c] # None
    PROVE  b.reg[c] # None
BY DEF Follows, Onward

LEMMA FieldSetIs ==
    ASSUME NEW st, Sound(st), NEW c \in Chan, st.reg[c] # None, NEW f, NEW v, Fits(f, v),
           NEW s, s = Sett!set_field(st, c, f, v)
    PROVE  /\ Follows(st, s) /\ s.reg[c] # None
           /\ \A k \in Chan : k # c => s.reg[k] = st.reg[k]
           /\ ~s.ok => s.reg = st.reg
           /\ s.ok => s.reg[c][f] = v /\ \A g \in RecFields \ {f} : s.reg[c][g] = st.reg[c][g]
<1> DEFINE m == [st.reg[c] EXCEPT ![f] = v]
<1>1. Outcome(st, s) /\ (s.ok => s.reg = [st.reg EXCEPT ![c] = m])
  BY FieldSet
<1>2. st.reg \in Registries /\ st.reg[c] \in Wells
  BY SoundIs
<1>3. m[f] = v /\ \A g \in RecFields \ {f} : m[g] = st.reg[c][g]
  <2>1. st.reg[c] = [g \in RecFields |-> st.reg[c][g]]
    BY <1>2, WellFunction
  <2>2. f \in RecFields
    BY Zenon DEF Fits, RecFields
  <2> QED BY <2>1, <2>2
<1> HIDE DEF m
<1>4. s.ok => s.reg[c] = m /\ \A k \in Chan : k # c => s.reg[k] = st.reg[k]
  BY <1>1, <1>2 DEF Registries
<1>5. Follows(st, s)
  BY <1>1 DEF Outcome, Follows
<1> QED BY <1>1, <1>3, <1>4, <1>5, FollowsThere DEF Outcome

LEMMA OptionSet ==
    ASSUME NEW st, Sound(st), NEW c \in Chan, st.reg[c] # None, NEW o \in Sett!Option, NEW v,
           v = st.reg[c].opts \cup {o} \/ v = st.reg[c].opts \ {o},
           NEW s, s = Sett!set_field(st, c, "opts", v)
    PROVE  /\ Follows(st, s) /\ s.reg[c] # None
           /\ \A k \in Chan : k # c => s.reg[k] = st.reg[k]
           /\ ~s.ok => s.reg = st.reg
           /\ s.ok => s.reg[c].opts = v /\ \A g \in RecFields \ {"opts"} : s.reg[c][g] = st.reg[c][g]
<1>1. st.reg[c].opts \in SUBSET Sett!Option
  BY Zenon, SoundIs, WellIs
<1>2. Fits("opts", v)
  BY <1>1 DEF Fits
<1>3. /\ Follows(st, s) /\ s.reg[c] # None
      /\ \A k \in Chan : k # c => s.reg[k] = st.reg[k]
      /\ ~s.ok => s.reg = st.reg
      /\ s.ok => s.reg[c]["opts"] = v /\ \A g \in RecFields \ {"opts"} : s.reg[c][g] = st.reg[c][g]
  BY <1>2, FieldSetIs
<1> QED BY <1>3

LEMMA WordsSetIs ==
    ASSUME NEW st, Sound(st), NEW c \in Chan, st.reg[c] # None, NEW list \in Seq(Pattern), Named(list),
           NEW s, s = Sett!write_badwords(st, c, list)
    PROVE  /\ Follows(st, s) /\ s.reg[c] # None
           /\ \A k \in Chan : k # c => s.reg[k] = st.reg[k]
           /\ ~s.ok => s.reg = st.reg
           /\ s.ok => s.reg[c].words = list /\ s.reg[c].kick = st.reg[c].kick /\ s.reg[c].opts = st.reg[c].opts
<1> DEFINE m == Worded(st.reg[c], list)
<1>1. Outcome(st, s) /\ (s.ok => s.reg = [st.reg EXCEPT ![c] = m])
  BY WordsSet
<1>2. st.reg \in Registries /\ st.reg[c] \in Wells
  BY SoundIs
<1>3. m = Worded(st.reg[c], list)
  OBVIOUS
<1> HIDE DEF m
<1>4. m.words = list /\ m["kick"] = st.reg[c]["kick"] /\ m["opts"] = st.reg[c]["opts"]
  BY <1>2, <1>3, WellWords
<1>5. s.ok => s.reg[c] = m /\ \A k \in Chan : k # c => s.reg[k] = st.reg[k]
  BY <1>1, <1>2 DEF Registries
<1>6. Follows(st, s)
  BY <1>1 DEF Outcome, Follows
<1> QED BY <1>1, <1>4, <1>5, <1>6, FollowsThere DEF Outcome

\* COPY: four store calls, up to the first that is refused.
LEMMA CopyIs ==
    ASSUME NEW st, Sound(st), NEW src \in Chan, NEW dst \in Chan, st.reg[src] # None, st.reg[dst] # None,
           NEW s, s = Sett!copy_bot_config(st, src, dst)
    PROVE  /\ Follows(st, s)
           /\ \A k \in Chan : k # dst => s.reg[k] = st.reg[k]
           /\ s.ok => Sett!Config(s.reg[dst]) = Sett!Config(st.reg[src])
<1> DEFINE r == st.reg[src]
           greets == "botgreet" \in r.opts
           silent == "nobot" \in r.opts
           s1 == Sett!update_kickers(st, dst, r.kick)
           s2 == IF s1.ok THEN Sett!write_badwords(s1, dst, r.words) ELSE s1
           s3 == IF s2.ok THEN Sett!set_channel_setting(s2, dst, "botgreet", greets) ELSE s2
           s4 == IF s3.ok THEN Sett!set_channel_setting(s3, dst, "nobot", silent) ELSE s3
<1>1. s = s4
  BY DEF Sett!copy_bot_config
<1>2. /\ r.kick \in [on : SUBSET Sett!Kicker, ttb : 0..1] /\ r.words \in Seq(Pattern) /\ Named(r.words)
      /\ r.opts \in SUBSET Sett!Option /\ "botgreet" \in Sett!Option /\ "nobot" \in Sett!Option
      /\ greets \in BOOLEAN /\ silent \in BOOLEAN
  <2>1. r \in Wells
    BY SoundIs
  <2>2. greets \in BOOLEAN /\ silent \in BOOLEAN
    OBVIOUS
  <2> HIDE DEF r, greets, silent
  <2> QED BY Zenon, <2>1, <2>2, WellIs DEF Sett!Option
<1>0. /\ greets <=> "botgreet" \in r.opts
      /\ silent <=> "nobot" \in r.opts
  OBVIOUS
<1> HIDE DEF r, greets, silent
<1>3. /\ Follows(st, s1) /\ s1.reg[dst] # None
      /\ \A k \in Chan : k # dst => s1.reg[k] = st.reg[k]
      /\ s1.ok => s1.reg[dst].kick = r.kick
  <2>1. s1 = Sett!set_field(st, dst, "kick", r.kick) /\ Fits("kick", r.kick)
    BY <1>2 DEF Sett!update_kickers, Fits
  <2> HIDE DEF s1
  <2> QED BY <2>1, FieldSetIs
<1>4. s1 = s1 /\ Sound(s1)
  BY <1>3 DEF Follows
<1> HIDE DEF s1
<1>5. /\ Follows(s1, s2) /\ s2.reg[dst] # None
      /\ \A k \in Chan : k # dst => s2.reg[k] = s1.reg[k]
      /\ s2.ok => s1.ok /\ s2.reg[dst].kick = s1.reg[dst].kick /\ s2.reg[dst].words = r.words
  <2>1. CASE s1.ok
    <3>1. s2 = Sett!write_badwords(s1, dst, r.words)
      BY <2>1
    <3> HIDE DEF s2
    <3> QED BY <1>2, <1>3, <1>4, <2>1, <3>1, WordsSetIs
  <2>2. CASE ~s1.ok
    <3>1. s2 = s1
      BY <2>2
    <3> HIDE DEF s2
    <3> QED BY <1>3, <1>4, <2>2, <3>1, FollowsSame
  <2> QED BY <2>1, <2>2
<1>6. Sound(s2)
  BY <1>5 DEF Follows
<1> HIDE DEF s2
<1>7. /\ Follows(s2, s3) /\ s3.reg[dst] # None
      /\ \A k \in Chan : k # dst => s3.reg[k] = s2.reg[k]
      /\ s3.ok => /\ s2.ok /\ s3.reg[dst].kick = s2.reg[dst].kick /\ s3.reg[dst].words = s2.reg[dst].words
                  /\ "botgreet" \in s3.reg[dst].opts <=> greets
  <2>1. CASE s2.ok
    <3> DEFINE v == IF greets THEN s2.reg[dst].opts \cup {"botgreet"} ELSE s2.reg[dst].opts \ {"botgreet"}
    <3>1. s3 = Sett!set_field(s2, dst, "opts", v)
      BY <2>1 DEF Sett!set_channel_setting
    <3>2. v = s2.reg[dst].opts \cup {"botgreet"} \/ v = s2.reg[dst].opts \ {"botgreet"}
      OBVIOUS
    <3>3. ("botgreet" \in v <=> greets) /\ \A x : x # "botgreet" => (x \in v <=> x \in s2.reg[dst].opts)
      OBVIOUS
    <3> HIDE DEF s3, v
    <3>4. /\ Follows(s2, s3) /\ s3.reg[dst] # None
          /\ \A k \in Chan : k # dst => s3.reg[k] = s2.reg[k]
          /\ s3.ok => s3.reg[dst].opts = v /\ \A g \in RecFields \ {"opts"} : s3.reg[dst][g] = s2.reg[dst][g]
      BY <1>2, <1>5, <1>6, <3>1, <3>2, OptionSet
    <3> QED BY <2>1, <3>3, <3>4 DEF RecFields
  <2>2. CASE ~s2.ok
    <3>1. s3 = s2
      BY <2>2
    <3> HIDE DEF s3
    <3> QED BY <1>5, <1>6, <2>2, <3>1, FollowsSame
  <2> QED BY <2>1, <2>2
<1>8. Sound(s3)
  BY <1>7 DEF Follows
<1> HIDE DEF s3
<1>9. /\ Follows(s3, s4)
      /\ \A k \in Chan : k # dst => s4.reg[k] = s3.reg[k]
      /\ s4.ok => /\ s3.ok /\ s4.reg[dst].kick = s3.reg[dst].kick /\ s4.reg[dst].words = s3.reg[dst].words
                  /\ "nobot" \in s4.reg[dst].opts <=> silent
                  /\ "botgreet" \in s4.reg[dst].opts <=> "botgreet" \in s3.reg[dst].opts
  <2>1. CASE s3.ok
    <3> DEFINE v == IF silent THEN s3.reg[dst].opts \cup {"nobot"} ELSE s3.reg[dst].opts \ {"nobot"}
    <3>1. s4 = Sett!set_field(s3, dst, "opts", v)
      BY <2>1 DEF Sett!set_channel_setting
    <3>2. v = s3.reg[dst].opts \cup {"nobot"} \/ v = s3.reg[dst].opts \ {"nobot"}
      OBVIOUS
    <3>3. ("nobot" \in v <=> silent) /\ \A x : x # "nobot" => (x \in v <=> x \in s3.reg[dst].opts)
      OBVIOUS
    <3> HIDE DEF s4, v
    <3>4. /\ Follows(s3, s4) /\ s4.reg[dst] # None
          /\ \A k \in Chan : k # dst => s4.reg[k] = s3.reg[k]
          /\ s4.ok => s4.reg[dst].opts = v /\ \A g \in RecFields \ {"opts"} : s4.reg[dst][g] = s3.reg[dst][g]
      BY <1>2, <1>7, <1>8, <3>1, <3>2, OptionSet
    <3> QED BY <2>1, <3>3, <3>4 DEF RecFields
  <2>2. CASE ~s3.ok
    <3>1. s4 = s3
      BY <2>2
    <3> HIDE DEF s4
    <3> QED BY <1>7, <1>8, <2>2, <3>1, FollowsSame
  <2> QED BY <2>1, <2>2
<1> HIDE DEF s4
<1>10. Follows(st, s4)
  BY <1>3, <1>4, <1>5, <1>6, <1>7, <1>8, <1>9, FollowsOn
<1>11. \A k \in Chan : k # dst => s4.reg[k] = st.reg[k]
  BY <1>3, <1>5, <1>7, <1>9
<1>12. ASSUME s4.ok PROVE Sett!Config(s4.reg[dst]) = Sett!Config(r)
  <2>1. s4.reg[dst].kick = r.kick /\ s4.reg[dst].words = r.words
    BY <1>3, <1>5, <1>7, <1>9, <1>12
  <2>2. /\ "nobot" \in s4.reg[dst].opts <=> "nobot" \in r.opts
        /\ "botgreet" \in s4.reg[dst].opts <=> "botgreet" \in r.opts
    BY <1>0, <1>7, <1>9, <1>12
  <2>3. s4.reg[dst].opts \cap {"botgreet", "nobot"} = r.opts \cap {"botgreet", "nobot"}
    <3>1. \A x : x \in s4.reg[dst].opts \cap {"botgreet", "nobot"} <=> x \in r.opts \cap {"botgreet", "nobot"}
      BY <2>2
    <3> QED BY <3>1
  <2> QED BY <2>1, <2>3 DEF Sett!Config
<1> QED BY <1>1, <1>10, <1>11, <1>12 DEF r

\* A staff note goes into memory, and is known to have drifted if it went no further.
LEMMA NoteDrifts ==
    ASSUME NEW st, Sound(st), NEW c \in Chan, st.reg[c] # None, NEW text \in {"", "t"},
           NEW q, q = [st.reg[c] EXCEPT !.note = text], NEW r, r = [st.reg EXCEPT ![c] = q],
           NEW s, s = [reg |-> r, disk |-> st.disk, ok |-> TRUE, fate |-> st.fate, drifted |-> TRUE]
    PROVE  Sound(s) /\ Onward(st.reg, s.reg)
<1>1. /\ st.reg \in Registries /\ st.disk \in Registries /\ st.reg[c] \in Wells /\ st.fate \in Nat
      /\ \A k \in Chan : Agree(st.disk[k], st.reg[k], st.drifted)
  BY Zenon, SoundIs
<1>2. Fits("note", text)
  BY Zenon DEF Fits
<1>3. q \in Wells /\ Newer(st.reg[c], q) /\ q # None
  BY Zenon, <1>1, <1>2, WellField, WellNotNone
<1>4. q.note = text /\ \A f \in RecFields \ {"note"} : q[f] = st.reg[c][f]
  <2>1. st.reg[c] = [g \in RecFields |-> st.reg[c][g]]
    BY Zenon, <1>1, WellFunction
  <2>2. "note" \in RecFields
    BY Zenon DEF RecFields
  <2> QED BY Zenon, <2>1, <2>2
<1>5. /\ q.ts = st.reg[c].ts /\ q.lock = st.reg[c].lock /\ q.akick = st.reg[c].akick /\ q.op = st.reg[c].op
      /\ q.about = st.reg[c].about /\ q.opts = st.reg[c].opts /\ q.kick = st.reg[c].kick
      /\ q.words = st.reg[c].words /\ q.trigs = st.reg[c].trigs /\ q.frozen = st.reg[c].frozen
      /\ q.topic = st.reg[c].topic
  BY Zenon, <1>4 DEF RecFields
<1>6. r \in Registries /\ r[c] = q /\ \A k \in Chan : k # c => r[k] = st.reg[k]
  BY Zenon, <1>1, <1>3 DEF Registries
<1>7. ASSUME NEW k \in Chan PROVE Agree(st.disk[k], r[k], TRUE)
  <2>1. Agree(st.disk[k], st.reg[k], st.drifted)
    BY Zenon, <1>1
  <2>2. CASE k = c
    <3> DEFINE d == st.disk[c]
               p == st.reg[c]
    <3>1. /\ d # None
          /\ d.ts = p.ts /\ d.lock = p.lock /\ d.akick = p.akick /\ d.op = p.op /\ d.about = p.about
          /\ d.opts = p.opts /\ d.kick = p.kick /\ d.words = p.words /\ d.trigs = p.trigs /\ d.frozen = p.frozen
          /\ d.topic.text = p.topic.text /\ (p.topic.text # "" => d.topic = p.topic)
      BY Zenon, <2>1, <2>2 DEF Agree
    <3> HIDE DEF d
    <3>2. Agree(d, q, TRUE)
      BY Zenon, <1>3, <1>5, <3>1 DEF Agree
    <3> QED BY Zenon, <1>6, <2>2, <3>2 DEF d
  <2>3. CASE k # c
    BY Zenon, <1>6, <2>1, <2>3 DEF Agree
  <2> QED BY Zenon, <2>2, <2>3
<1>8. s.reg = r /\ s.disk = st.disk /\ s.drifted = TRUE /\ s \in Stores
  BY Zenon, <1>1, <1>6 DEF Stores
<1>9. Onward(st.reg, r)
  <2> SUFFICES ASSUME NEW k \in Chan
               PROVE (st.reg[k] = None <=> r[k] = None) /\ (st.reg[k] # None => Newer(st.reg[k], r[k]))
    BY Zenon DEF Onward
  <2>1. CASE k = c
    BY Zenon, <1>3, <1>6, <2>1
  <2>2. CASE k # c
    <3>1. st.reg[k] # None => st.reg[k] \in Wells
      BY Zenon, <1>1 DEF Registries
    <3> QED BY Zenon, <1>6, <2>2, <3>1, NewerSame
  <2> QED BY Zenon, <2>1, <2>2
<1> QED BY Zenon, <1>7, <1>8, <1>9 DEF Sound

LEMMA NoteSet ==
    ASSUME NEW st, Sound(st), NEW c \in Chan, st.reg[c] # None, NEW text \in {"", "t"},
           NEW s, s = Sett!set_channel_note(st, c, text)
    PROVE  Sound(s) /\ Onward(st.reg, s.reg)
<1> DEFINE s1 == Sett!set_field(st, c, "note", text)
<1>1. Fits("note", text)
  BY Zenon DEF Fits
<1>2. Outcome(st, s1)
  BY Zenon, <1>1, FieldSet
<1>3. s = IF s1.ok THEN s1 ELSE [s1 EXCEPT !.ok = TRUE, !.reg[c].note = text, !.drifted = TRUE]
  BY Zenon DEF Sett!set_channel_note
<1> HIDE DEF s1
<1>4. CASE s1.ok
  BY Zenon, <1>2, <1>3, <1>4 DEF Outcome
<1>5. CASE ~s1.ok
  <2> DEFINE q == [s1.reg[c] EXCEPT !.note = text]
             r == [s1.reg EXCEPT ![c] = q]
  <2>1. Sound(s1) /\ s1.reg = st.reg
    BY Zenon, <1>2, <1>5 DEF Outcome
  <2>2. s1 = [reg |-> s1.reg, disk |-> s1.disk, ok |-> s1.ok, fate |-> s1.fate, drifted |-> s1.drifted]
    BY Zenon, <2>1 DEF Sound, Stores
  <2>3. s = [s1 EXCEPT !.ok = TRUE, !.reg[c].note = text, !.drifted = TRUE]
    BY Zenon, <1>3, <1>5
  <2>4. s = [reg |-> r, disk |-> s1.disk, ok |-> TRUE, fate |-> s1.fate, drifted |-> TRUE]
    BY Zenon, <2>2, <2>3
  <2>6. q = [s1.reg[c] EXCEPT !.note = text] /\ r = [s1.reg EXCEPT ![c] = q]
    BY Zenon
  <2> HIDE DEF q, r
  <2> QED BY Zenon, <2>1, <2>4, <2>6, NoteDrifts
<1> QED BY Zenon, <1>4, <1>5

LEMMA OutcomeFollows == ASSUME NEW st, NEW s, Outcome(st, s) PROVE Follows(st, s)
BY DEF Outcome, Follows

\* Where a fold stays if each step does.
LEMMA FoldIn ==
    ASSUME NEW D, NEW n \in Nat, NEW g, g[1..0] \in D,
           \A i \in 1..n : g[1..(i - 1)] \in D => g[1..i] \in D
    PROVE  g[1..n] \in D
<1> DEFINE In == {i \in 0..n : g[1..i] \in D}
<1>1. 0 \in In
  OBVIOUS
<1>2. ASSUME NEW i \in 0..(n - 1), i \in In PROVE i + 1 \in In
  <2>1. i + 1 \in 1..n /\ i + 1 \in 0..n /\ (i + 1) - 1 = i
    OBVIOUS
  <2>2. g[1..i] \in D
    BY <1>2
  <2>3. g[1..(i + 1)] \in D
    BY <2>1, <2>2
  <2> QED BY <2>1, <2>3
<1> HIDE DEF In
<1>3. 0..n \subseteq In
  BY Zenon, <1>1, <1>2, Upwards
<1> QED BY <1>3 DEF In

LEMMA ClearUnfolds ==
    ASSUME NEW st, NEW c, NEW list
    PROVE  Sett!akick_clear(st, c, list)
             = (CHOOSE g : g = [s \in SUBSET DOMAIN list |->
                                  IF s = {} THEN st ELSE Sett!akick_del(g[s \ {Max(s)}], c, list[Max(s)])])[DOMAIN list]
BY Zenon, SettMax DEF Sett!akick_clear, Sett!FoldLeft, Sett!MapThenFoldSet

LEMMA CloneUnfolds ==
    ASSUME NEW st, NEW c, NEW list
    PROVE  Sett!akick_copy(st, c, list)
             = (CHOOSE g : g = [s \in SUBSET DOMAIN list |->
                                  IF s = {} THEN st ELSE Sett!akick_add(g[s \ {Max(s)}], c, list[Max(s)])])[DOMAIN list]
BY Zenon, SettMax DEF Sett!akick_copy, Sett!FoldLeft, Sett!MapThenFoldSet

\* AKICK CLEAR, mask by mask.
LEMMA ClearIs ==
    ASSUME NEW st, Sound(st), NEW c \in Chan, st.reg[c] # None, NEW list \in Seq(Mask),
           NEW s, s = Sett!akick_clear(st, c, list)
    PROVE  Follows(st, s)
<1> DEFINE n == Len(list)
           D == {x \in Stores : Follows(st, x)}
           step == [p \in D \X (1..n) |-> Sett!akick_del(p[1], c, list[p[2]])]
           g == CHOOSE f : f = [z \in SUBSET DOMAIN list |->
                                  IF z = {} THEN st ELSE Sett!akick_del(f[z \ {Max(z)}], c, list[Max(z)])]
<1>1. n \in Nat /\ DOMAIN list = 1..n /\ \A i \in 1..n : list[i] \in Mask
  OBVIOUS
<1>2. s = g[1..n]
  BY Zenon, <1>1, ClearUnfolds
<1>3. st \in D
  BY SoundIs, FollowsSame
<1>4. ASSUME NEW d \in D, NEW i \in 1..n PROVE Sett!akick_del(d, c, list[i]) \in D
  <2> DEFINE x == list[i]
             e == Sett!akick_del(d, c, x)
  <2>1. Sound(d) /\ d.reg[c] # None /\ Follows(st, d)
    BY FollowsThere DEF Follows
  <2>2. e = Sett!akick_del(d, c, x)
    OBVIOUS
  <2> HIDE DEF x, e
  <2>3. Follows(d, e)
    BY <2>1, <2>2, AkickGone, OutcomeFollows
  <2>4. Follows(st, e) /\ e \in Stores
    BY <2>1, <2>3, FollowsOn, SoundIs DEF Follows
  <2> QED BY <2>4 DEF e, x
<1> HIDE DEF D
<1>5. step \in [D \X (1..n) -> D] /\ \A d \in D, i \in 1..n : step[<<d, i>>] = Sett!akick_del(d, c, list[i])
  BY <1>4
<1> HIDE DEF step
<1>6. g = [z \in SUBSET (1..n) |-> IF z = {} THEN st ELSE Sett!akick_del(g[z \ {Max(z)}], c, list[Max(z)])]
  <2>1. PICK f \in [SUBSET (1..n) -> D] : FoldsBy(f, n, st, step)
    BY Zenon, <1>1, <1>3, <1>5, FoldExists
  <2>2. ASSUME NEW z \in SUBSET (1..n), z # {}
        PROVE  step[<<f[z \ {Max(z)}], Max(z)>>] = Sett!akick_del(f[z \ {Max(z)}], c, list[Max(z)])
    <3>1. Max(z) \in 1..n
      BY Zenon, <1>1, <2>2, MaxOf
    <3>2. f[z \ {Max(z)}] \in D
      BY Zenon
    <3> QED BY <1>5, <3>1, <3>2
  <2>3. f = [z \in SUBSET (1..n) |-> IF z = {} THEN st ELSE Sett!akick_del(f[z \ {Max(z)}], c, list[Max(z)])]
    BY Zenon, <2>1, <2>2 DEF FoldsBy
  <2> QED BY Zenon, <1>1, <2>3
<1> HIDE DEF g
<1>7. g[1..0] \in D
  <2>1. 1..0 = {}
    OBVIOUS
  <2> QED BY <1>3, <1>6, <2>1
<1>8. ASSUME NEW i \in 1..n, g[1..(i - 1)] \in D PROVE g[1..i] \in D
  <2>1. Max(1..i) = i /\ (1..i) \ {i} = 1..(i - 1) /\ 1..i \in SUBSET (1..n) /\ 1..i # {}
    BY <1>1, UpTo
  <2>2. g[1..i] = Sett!akick_del(g[1..(i - 1)], c, list[i])
    BY Zenon, <1>6, <2>1
  <2> QED BY <1>4, <1>8, <2>2
<1>9. g[1..n] \in D
  BY <1>1, <1>7, <1>8, FoldIn
<1> QED BY <1>2, <1>9 DEF D
=============================================================================
