-------------------------------- MODULE Locks ---------------------------------
(***************************************************************************)
(* The modes and the topic of a registered channel against its mode lock,  *)
(* KEEPTOPIC and TOPICLOCK.  What the users do goes up as an event; what   *)
(* the engine sends goes down, is always accepted, and is never told back  *)
(* to it.                                                                  *)
(*                                                                         *)
(* Two modes stand for all: n is plain, f takes a value.  A change, a lock *)
(* and what is sent down are a word on each: "" leaves it alone, "-" takes *)
(* it away, "+" or a value sets it.  A topic is the number of its change,  *)
(* 0 is none.  A founder's commands are acted on as they are sent.         *)
(***************************************************************************)
EXTENDS Naturals, Sequences

CONSTANTS
    None,
    MaxOps         \* bound: changes

VARIABLES
    reg,           \* the channel's registration, or None
    modes, topic,   \* the channel at the ircd
    up, down,
    stray,         \* history: modes changed past the lock by the founder's own MODE
    bad,           \* history: topics set without access since TOPICLOCK is on
    astray,        \* history: the topic may differ from the stored one
    spent          \* how much of MaxOps is spent

ircd == <<modes, topic>>
vars == <<reg, ircd, up, down, stray, bad, astray, spent>>

Value == {"p", "q"}
Change == {[n |-> n, f |-> ""] : n \in {"+", "-"}} \cup {[n |-> "", f |-> f] : f \in Value \cup {"-"}}
Lock == [n : {"", "+", "-"}, f : {"", "-"} \cup Value]
Bare == [n |-> "", f |-> ""]

Fresh == [lock |-> Bare, keep |-> FALSE, tlock |-> FALSE, topic |-> 0]

\* What is left of the modes after a change.
Over(m, c) == [n |-> IF c.n = "" THEN m.n ELSE c.n, f |-> IF c.f = "" THEN m.f ELSE c.f]

Registered == reg # None

-----------------------------------------------------------------------------
(* The engine. *)

lock_modes == <<[do |-> "modes", change |-> reg.lock]>>

\* Mutant: a value is put back only when the mode is taken away.
enforce_bare(c) ==
    LET n == IF c.n # "" /\ reg.lock.n # "" /\ c.n # reg.lock.n THEN reg.lock.n ELSE ""
        f == CASE reg.lock.f \in Value /\ c.f = "-"       -> reg.lock.f
               [] reg.lock.f = "-" /\ c.f \in Value -> "-"
               [] OTHER                              -> ""
    IN  [n |-> n, f |-> f]

\* A plain mode is put back when it was turned round; one with a value
\* whenever it was touched.
enforce(c) ==
    LET n == IF c.n # "" /\ reg.lock.n # "" /\ c.n # reg.lock.n THEN reg.lock.n ELSE ""
        f == CASE reg.lock.f \in Value /\ c.f # ""   -> reg.lock.f
               [] reg.lock.f = "-" /\ c.f \in Value -> "-"
               [] OTHER                              -> ""
    IN  [n |-> n, f |-> f]

ModeChange(e) ==
    /\ LET revert == IF Registered THEN enforce(e.change) ELSE Bare
       IN  down' = IF revert = Bare THEN down ELSE Append(down, [do |-> "modes", change |-> revert])
    /\ UNCHANGED <<reg, stray, astray>>

HasTopic(q) == \E i \in DOMAIN q : q[i].do = "topic"
TopicOnItsWay == HasTopic(Tail(up))

\* Mutant: a topic is remembered before anybody asks who set it.
TopicChange_kept(e) ==
    /\ reg' = IF Registered /\ (reg.keep \/ reg.tlock) THEN [reg EXCEPT !.topic = e.topic] ELSE reg
    /\ down' = IF Registered /\ reg.tlock /\ ~e.access THEN Append(down, [do |-> "topic", topic |-> e.topic]) ELSE down
    /\ astray' = IF Registered /\ reg.tlock /\ ~e.access THEN TopicOnItsWay ELSE astray
    /\ UNCHANGED stray

\* TOPICLOCK puts the stored topic back; else it is stored, if anything asks
\* for that.
TopicChange(e) ==
    LET back == Registered /\ reg.tlock /\ ~e.access
        keep == Registered /\ ~back /\ (reg.keep \/ reg.tlock)
    IN  /\ reg' = IF keep THEN [reg EXCEPT !.topic = e.topic] ELSE reg
        /\ down' = IF back THEN Append(down, [do |-> "topic", topic |-> reg.topic]) ELSE down
        /\ astray' = IF back THEN TopicOnItsWay ELSE astray
        /\ UNCHANGED stray

\* Mutant: the topic comes back only where it is locked too.
Restored_locked == reg.keep /\ reg.tlock /\ reg.topic # 0

Restored == reg.keep /\ reg.topic # 0

\* The lock, and what KEEPTOPIC kept.
ChannelCreate ==
    /\ down' = IF ~Registered THEN down
               ELSE down \o lock_modes \o (IF Restored THEN <<[do |-> "topic", topic |-> reg.topic]>> ELSE <<>>)
    /\ stray' = {}
    /\ astray' = IF Registered /\ reg.keep
                 THEN TopicOnItsWay \/ HasTopic(down) \/ (astray /\ ~Restored)
                 ELSE TRUE
    /\ UNCHANGED reg

Handle ==
    /\ up # <<>>
    /\ up' = Tail(up)
    /\ LET e == Head(up)
       IN  CASE e.do = "modes"  -> ModeChange(e)
             [] e.do = "topic"  -> TopicChange(e)
             [] e.do = "create" -> ChannelCreate
    /\ UNCHANGED <<ircd, bad, spent>>

-----------------------------------------------------------------------------
(* Commands. *)

Spend == spent < MaxOps /\ spent' = spent + 1

Command == Spend /\ UNCHANGED <<ircd, up>>

Register ==
    /\ ~Registered
    /\ reg' = Fresh
    /\ stray' = {} /\ bad' = {} /\ astray' = TRUE
    /\ Command /\ UNCHANGED down

DropChannel ==
    /\ Registered
    /\ reg' = None
    /\ stray' = {} /\ bad' = {} /\ astray' = TRUE
    /\ Command /\ UNCHANGED down

\* Mutant: the lock is stored, and waits for the next change.
Mlock_stored(l) ==
    /\ Registered
    /\ reg' = [reg EXCEPT !.lock = l]
    /\ stray' = {}
    /\ Command /\ UNCHANGED <<down, bad, astray>>

\* Mutant: the value of a lock is not stored with it.
Mlock_bare(l) ==
    /\ Registered
    /\ reg' = [reg EXCEPT !.lock = [l EXCEPT !.f = IF l.f \in Value THEN "+" ELSE l.f]]
    /\ down' = Append(down, [do |-> "modes", change |-> l])
    /\ stray' = {}
    /\ Command /\ UNCHANGED <<bad, astray>>

\* The lock is applied at once.
Mlock(l) ==
    /\ Registered
    /\ reg' = [reg EXCEPT !.lock = l]
    /\ down' = Append(down, [do |-> "modes", change |-> l])
    /\ stray' = {}
    /\ Command /\ UNCHANGED <<bad, astray>>

Enforce ==
    /\ Registered
    /\ down' = down \o lock_modes
    /\ stray' = {}
    /\ Command /\ UNCHANGED <<reg, bad, astray>>

\* The founder's MODE is sent as it is, lock or no lock.
Mode(c) ==
    /\ Registered
    /\ down' = Append(down, [do |-> "modes", change |-> c])
    /\ stray' = stray \cup {m \in {"n", "f"} : c[m] # ""}
    /\ Command /\ UNCHANGED <<reg, bad, astray>>

\* TOPIC: sent and stored.
Topic ==
    /\ Registered
    /\ reg' = [reg EXCEPT !.topic = spent + 1]
    /\ down' = Append(down, [do |-> "topic", topic |-> spent + 1])
    /\ astray' = HasTopic(up)
    /\ Command /\ UNCHANGED <<stray, bad>>

SetKeepTopic(on) ==
    /\ Registered /\ reg.keep # on
    /\ reg' = [reg EXCEPT !.keep = on]
    /\ astray' = TRUE
    /\ Command /\ UNCHANGED <<down, stray, bad>>

SetTopicLock(on) ==
    /\ Registered /\ reg.tlock # on
    /\ reg' = [reg EXCEPT !.tlock = on]
    /\ bad' = {} /\ astray' = TRUE
    /\ Command /\ UNCHANGED <<down, stray>>

-----------------------------------------------------------------------------
(* The ircd. *)

Act(e) == Spend /\ up' = Append(up, e) /\ UNCHANGED <<reg, down, stray>>

UserMode(c) ==
    /\ Over(modes, c) # modes
    /\ modes' = Over(modes, c)
    /\ Act([do |-> "modes", change |-> c])
    /\ UNCHANGED <<topic, bad, astray>>

UserTopic(access) ==
    /\ topic' = spent + 1
    /\ bad' = IF Registered /\ reg.tlock /\ ~access THEN bad \cup {spent + 1} ELSE bad
    /\ Act([do |-> "topic", topic |-> spent + 1, access |-> access])
    /\ astray' = (astray \/ HasTopic(down))
    /\ UNCHANGED modes

\* The last user leaves and takes modes and topic along; the next one finds the
\* defaults.
Recreated ==
    /\ modes' = [n |-> "+", f |-> "-"]
    /\ topic' = 0
    /\ Act([do |-> "create"])
    /\ UNCHANGED <<bad, astray>>

Drain ==
    /\ down # <<>>
    /\ LET a == Head(down)
       IN  /\ modes' = IF a.do = "modes" THEN Over(modes, a.change) ELSE modes
           /\ topic' = IF a.do = "topic" THEN a.topic ELSE topic
    /\ down' = Tail(down)
    /\ UNCHANGED <<reg, up, stray, bad, astray, spent>>

Init ==
    /\ reg \in {None, Fresh,
                [Fresh EXCEPT !.lock = [n |-> "-", f |-> "p"], !.keep = TRUE, !.topic = 0],
                [Fresh EXCEPT !.lock = [n |-> "+", f |-> "-"], !.tlock = TRUE]}
    /\ modes = IF reg = None THEN [n |-> "+", f |-> "-"] ELSE Over([n |-> "+", f |-> "-"], reg.lock)
    /\ topic = 0
    /\ up = <<>> /\ down = <<>>
    /\ stray = {} /\ bad = {} /\ astray = FALSE
    /\ spent = 0

Next ==
    \/ Register \/ DropChannel \/ Enforce \/ Topic \/ Recreated \/ Handle \/ Drain
    \/ \E l \in Lock : Mlock(l)
    \/ \E c \in Change : Mode(c) \/ UserMode(c)
    \/ \E on \in BOOLEAN : SetKeepTopic(on) \/ SetTopicLock(on) \/ UserTopic(on)

Spec == Init /\ [][Next]_vars

-----------------------------------------------------------------------------

\* Modes and lock are of their types; no topic stored or shown is one nobody set.
TypeOK ==
    /\ modes \in [n : {"+", "-"}, f : {"-"} \cup Value]
    /\ Registered => reg.lock \in Lock /\ reg.topic \in 0..spent /\ {reg.keep, reg.tlock} \subseteq BOOLEAN
    /\ topic \in 0..spent /\ bad \subseteq 1..spent /\ spent \in 0..MaxOps

Quiet == up = <<>> /\ down = <<>>

\* Once all is handled and carried out the channel's modes are as its lock has
\* them, its value included, whatever users changed and services sent crossed;
\* but for modes the founder's own MODE changed past the lock.
LockHolds ==
    Quiet /\ Registered => \A m \in {"n", "f"} \ stray : reg.lock[m] # "" => modes[m] = reg.lock[m]

\* A topic set without access while TOPICLOCK is on neither stays nor is kept.
NoForeignTopic ==
    /\ Registered => reg.topic \notin bad
    /\ Quiet => topic \notin bad

\* The topic of a channel that keeps or locks it is the stored one, on a new
\* channel too; but not where TOPICLOCK or KEEPTOPIC came on with another one
\* stored, nor where a topic sent down met one, or a new channel, coming up.
TopicIsStored ==
    Quiet /\ Registered /\ ~astray /\ (reg.keep \/ reg.tlock) => topic = reg.topic
===============================================================================
