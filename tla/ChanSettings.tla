----------------------------- MODULE ChanSettings -----------------------------
(***************************************************************************)
(* What a channel's registration holds besides its people: the settings    *)
(* ChanServ and BotServ change, the log they are rebuilt from, and the     *)
(* pattern lists the engine keeps compiled.                                *)
(*                                                                         *)
(* A command is one action.  Its store calls are functions from store to   *)
(* store, composed in the order the code makes them; each appends one      *)
(* event and is refused when the append is: under lockdown all of them     *)
(* are, and `fate` picks one append of a command that the disk refuses.    *)
(* Of the log only what it replays to is kept.                             *)
(* A caller has the right its command asks for.  Expiry is in Expiry, the  *)
(* access list in Standing, the founder in Federation, the bot in Bots.    *)
(***************************************************************************)
EXTENDS Naturals, Sequences, FiniteSets, SequencesExt

CONSTANTS
    Chan,          \* channel names
    Mask,          \* auto-kick masks
    Pattern,       \* badword and trigger patterns
    None,
    MaxList,       \* MAX_CHAN_LIST (256 in the code)
    MaxNow,        \* bound: seconds
    MaxOps         \* bound: commands

VARIABLES
    mem,           \* the registrations in memory
    disk,          \* what the events on disk replay to
    lockdown,      \* EventLog.readonly
    cache,         \* the engine's compiled pattern lists
    now,
    copied,        \* whether the last command was a COPY that said it was done
    drifted,       \* history: a refused append was ignored
    born,          \* history: when each name was registered
    hurried,       \* history: a name got the time of registration it had before
    ops            \* how much of MaxOps is spent

vars == <<mem, disk, lockdown, cache, now, copied, drifted, born, hurried, ops>>

Mode == {"n", "f"}          \* f is locked with a value
Field == {"desc", "entry"}  \* URL and EMAIL are set as DESC is
Option == {"noautoop", "secureops", "botgreet", "nobot", "signkick", "signlevel"}
Kicker == {"caps", "warn"}  \* WARN alone turns nothing on

Rec ==
    [ts    : Nat,
     lock  : [on : SUBSET Mode, off : SUBSET Mode, given : SUBSET {"f"}],
     akick : Seq(Mask),
     op    : {None, "vop"},
     about : [Field -> {"", "t"}],
     opts  : SUBSET Option,
     kick  : [on : SUBSET Kicker, ttb : 0..1],
     words : Seq(Pattern), wordsrev : Nat,
     trigs : Seq(Pattern), trigsrev : Nat,
     topic : [text : {"", "t"}, by : {"", "op"}],
     frozen : BOOLEAN,
     note  : {"", "t"}]

Fresh(ts) ==
    [ts      |-> ts,
     lock    |-> [on |-> {}, off |-> {}, given |-> {}],
     akick   |-> <<>>,
     op      |-> None,
     about   |-> [f \in Field |-> ""],
     opts    |-> {},
     kick    |-> [on |-> {}, ttb |-> 0],
     words   |-> <<>>, wordsrev |-> 0,
     trigs   |-> <<>>, trigsrev |-> 0,
     topic   |-> [text |-> "", by |-> ""],
     frozen  |-> FALSE,
     note    |-> ""]

Without(list, m) == FoldLeft(LAMBDA kept, x : IF x = m THEN kept ELSE Append(kept, x), <<>>, list)

-----------------------------------------------------------------------------
(* The fold of one event.  A field is set as a whole. *)

Kept(rec, e) ==
    CASE e.field = "akick+" -> [rec EXCEPT !.akick = Append(Without(@, e.value), e.value)]
      [] e.field = "akick-" -> [rec EXCEPT !.akick = Without(@, e.value)]
      [] e.field = "words"  -> [rec EXCEPT !.words = e.value, !.wordsrev = @ + 1]
      [] e.field = "trigs"  -> [rec EXCEPT !.trigs = e.value, !.trigsrev = @ + 1]
      [] OTHER              -> [rec EXCEPT ![e.field] = e.value]

\* A registration starts afresh whatever was there; so does a rename.
apply(reg, e) ==
    CASE e.field = "registered" -> [reg EXCEPT ![e.chan] = Fresh(e.value)]
      [] e.field = "dropped"    -> [reg EXCEPT ![e.chan] = None]
      [] e.field = "renamed"    -> IF reg[e.chan] = None THEN reg
                                   ELSE [reg EXCEPT ![e.chan] = None, ![e.value] = reg[e.chan]]
      [] OTHER                  -> IF reg[e.chan] = None THEN reg
                                   ELSE [reg EXCEPT ![e.chan] = Kept(@, e)]

Ev(c, field, value) == [chan |-> c, field |-> field, value |-> value]

\* Mutant: the kickers are kept only if one of them is on.
Compacted_any(rec) ==
    [rec EXCEPT !.lock     = IF rec.lock.on \cup rec.lock.off = {} THEN Fresh(0).lock ELSE @,
                !.topic    = IF rec.topic.text = "" THEN Fresh(0).topic ELSE @,
                !.kick     = IF "caps" \in rec.kick.on THEN @ ELSE Fresh(0).kick,
                !.wordsrev = IF rec.words = <<>> THEN 0 ELSE 1,
                !.trigsrev = IF rec.trigs = <<>> THEN 0 ELSE 1]

\* What is left of a channel after a compaction, which writes its registration
\* and an event for every field that differs from a fresh one's: a lock is told
\* from none by its modes, a topic by its text, a list is revised once.
Compacted(rec) ==
    [rec EXCEPT !.lock     = IF rec.lock.on \cup rec.lock.off = {} THEN Fresh(0).lock ELSE @,
                !.topic    = IF rec.topic.text = "" THEN Fresh(0).topic ELSE @,
                !.wordsrev = IF rec.words = <<>> THEN 0 ELSE 1,
                !.trigsrev = IF rec.trigs = <<>> THEN 0 ELSE 1]

Snapshot(reg) == [c \in Chan |-> IF reg[c] = None THEN None ELSE Compacted(reg[c])]

-----------------------------------------------------------------------------
(* Store calls. *)

Refused(st) == lockdown \/ st.fate = 1

\* Appends, then changes memory; a refused append changes nothing.
Strict(st, e, reg) ==
    LET later == [st EXCEPT !.fate = IF @ = 0 THEN 0 ELSE @ - 1]
    IN  IF Refused(st) THEN [later EXCEPT !.ok = FALSE]
                       ELSE [later EXCEPT !.ok = TRUE, !.disk = apply(@, e), !.reg = reg]

set_field(st, c, field, value) ==
    Strict(st, Ev(c, field, value), [st.reg EXCEPT ![c][field] = value])

set_mlock(st, c, lock) == set_field(st, c, "lock", lock)

set_level(st, c, role) == set_field(st, c, "op", role)

\* DESC, URL and EMAIL.
set_desc(st, c, text) == set_field(st, c, "about", [st.reg[c].about EXCEPT !["desc"] = text])

set_entrymsg(st, c, text) == set_field(st, c, "about", [st.reg[c].about EXCEPT !["entry"] = text])

set_topic(st, c, topic) == set_field(st, c, "topic", topic)

set_suspended(st, c, on) == set_field(st, c, "frozen", on)

\* Mutant: the revision of the list stays.
write_badwords_same(st, c, list) ==
    Strict(st, Ev(c, "words", list), [st.reg EXCEPT ![c].words = list])

write_badwords(st, c, list) ==
    Strict(st, Ev(c, "words", list), [st.reg EXCEPT ![c].words = list, ![c].wordsrev = @ + 1])

write_triggers(st, c, list) ==
    Strict(st, Ev(c, "trigs", list), [st.reg EXCEPT ![c].trigs = list, ![c].trigsrev = @ + 1])

\* An option is read, changed and written with all the others.
set_channel_setting(st, c, o, on) ==
    set_field(st, c, "opts", IF on THEN st.reg[c].opts \cup {o} ELSE st.reg[c].opts \ {o})

\* So is a kicker.
update_kickers(st, c, kick) == set_field(st, c, "kick", kick)

\* Mutant: a mask that is listed is listed again.
akick_add_twice(st, c, m) ==
    Strict(st, Ev(c, "akick+", m), [st.reg EXCEPT ![c].akick = Append(@, m)])

\* The cap is not for a mask that is listed already.
akick_add(st, c, m) ==
    IF Len(st.reg[c].akick) >= MaxList /\ ~Contains(st.reg[c].akick, m)
    THEN [st EXCEPT !.ok = FALSE]
    ELSE Strict(st, Ev(c, "akick+", m), [st.reg EXCEPT ![c].akick = Append(Without(@, m), m)])

akick_del(st, c, m) ==
    IF ~Contains(st.reg[c].akick, m) THEN [st EXCEPT !.ok = FALSE]
    ELSE Strict(st, Ev(c, "akick-", m), [st.reg EXCEPT ![c].akick = Without(@, m)])

\* One mask after the other, whatever becomes of each.
akick_clear(st, c, masks) == FoldLeft(LAMBDA s, m : akick_del(s, c, m), st, masks)

akick_copy(st, c, masks) == FoldLeft(LAMBDA s, m : akick_add(s, c, m), st, masks)

\* Mutant: the last of the four answers for all.
copy_bot_config_on(st, src, dst) ==
    LET s  == st.reg[src]
        s1 == update_kickers(st, dst, s.kick)
        s2 == write_badwords(s1, dst, s.words)
        s3 == set_channel_setting(s2, dst, "botgreet", "botgreet" \in s.opts)
    IN  set_channel_setting(s3, dst, "nobot", "nobot" \in s.opts)

\* Four appends; the first that is refused ends it, and leaves the others done.
copy_bot_config(st, src, dst) ==
    LET s  == st.reg[src]
        s1 == update_kickers(st, dst, s.kick)
        s2 == IF s1.ok THEN write_badwords(s1, dst, s.words) ELSE s1
        s3 == IF s2.ok THEN set_channel_setting(s2, dst, "botgreet", "botgreet" \in s.opts) ELSE s2
    IN  IF s3.ok THEN set_channel_setting(s3, dst, "nobot", "nobot" \in s.opts) ELSE s3

\* A staff note is changed in memory whatever became of its append.
set_channel_note(st, c, text) ==
    LET s1 == set_field(st, c, "note", text)
    IN  IF s1.ok THEN s1 ELSE [s1 EXCEPT !.ok = TRUE, !.reg[c].note = text, !.drifted = TRUE]

-----------------------------------------------------------------------------
(* MLOCK: modes as <<sign, mode>>, and how many values follow them. *)

\* Mutant: f is locked though its value is missing.
Locked_bare(l, m) ==
    [l EXCEPT !.on = @ \cup {m}, !.off = @ \ {m}, !.given = IF m = "f" /\ l.rest > 0 THEN @ \cup {m} ELSE @ \ {m},
              !.rest = IF m = "f" /\ @ > 0 THEN @ - 1 ELSE @]

\* Takes the next value for f, and locks f only if there is one.
Locked(l, m) ==
    LET given == m = "f" /\ l.rest > 0
    IN  [on    |-> IF m = "f" /\ ~given THEN l.on \ {m} ELSE l.on \cup {m},
         off   |-> l.off \ {m},
         given |-> IF given THEN l.given \cup {m} ELSE l.given \ {m},
         rest  |-> IF given THEN l.rest - 1 ELSE l.rest]

Unlocked(l, m) == [l EXCEPT !.on = @ \ {m}, !.off = @ \cup {m}, !.given = @ \ {m}]

\* The last word on a mode counts; r is the registration's own.
parse_mlock(modes, values) ==
    LET Step(l, x) == IF x[2] = "r" THEN l ELSE IF x[1] = "+" THEN Locked(l, x[2]) ELSE Unlocked(l, x[2])
        l == FoldLeft(Step, [on |-> {}, off |-> {}, given |-> {}, rest |-> values], modes)
    IN  [on |-> l.on, off |-> l.off, given |-> l.given]

Specs == {<< <<"+", "n">>, <<"-", "f">> >>, << <<"-", "n">>, <<"+", "f">> >>,
          << <<"+", "f">>, <<"+", "f">> >>, << <<"+", "r">>, <<"-", "n">>, <<"+", "n">> >>}

-----------------------------------------------------------------------------
(* Commands. *)

Begin(fate) == [reg |-> mem, disk |-> disk, ok |-> TRUE, fate |-> fate, drifted |-> drifted]

Done(op, st) ==
    /\ ops < MaxOps
    /\ ops' = ops + 1
    /\ mem' = st.reg
    /\ disk' = st.disk
    /\ drifted' = st.drifted
    /\ copied' = (op = "copy" /\ st.ok)
    /\ UNCHANGED <<lockdown, cache, now>>

Plain(op, st) == Done(op, st) /\ UNCHANGED <<born, hurried>>

Registered(c) == mem[c] # None

\* ChanServ's commands leave a suspended channel alone; BotServ's do not look.
Open(c) == Registered(c) /\ ~mem[c].frozen

Dated(c, ts) == born' = [born EXCEPT ![c] = @ \cup {ts}] /\ hurried' = (hurried \/ ts \in born[c])

Register(c) ==
    /\ ~Registered(c)
    /\ ~lockdown
    /\ Done("register", Strict(Begin(0), Ev(c, "registered", now), [mem EXCEPT ![c] = Fresh(now)]))
    /\ Dated(c, now)

DropChannel(c) ==
    /\ Registered(c)
    /\ Plain("drop", Strict(Begin(0), Ev(c, "dropped", now), [mem EXCEPT ![c] = None]))

\* RENAME, or a rename on another server.
Rename(c, new) ==
    /\ Open(c)
    /\ ~Registered(new)
    /\ ~lockdown
    /\ Done("rename", Strict(Begin(0), Ev(c, "renamed", new), [mem EXCEPT ![c] = None, ![new] = mem[c]]))
    /\ Dated(new, mem[c].ts)

Mlock(c, modes, values) == Open(c) /\ Plain("mlock", set_mlock(Begin(0), c, parse_mlock(modes, values)))

AkickAdd(c, m) == Open(c) /\ Plain("akick", akick_add(Begin(0), c, m))

AkickDel(c, m) == Open(c) /\ Plain("akick del", akick_del(Begin(0), c, m))

\* The masks are read first; what is refused is passed over, and all is said to be cleared.
AkickClear(c, fate) ==
    /\ Open(c)
    /\ Plain("akick clear", [akick_clear(Begin(fate), c, mem[c].akick) EXCEPT !.ok = TRUE])

\* LEVELS SET and RESET, of the capability OP.
Levels(c, role) == Open(c) /\ mem[c].op # role /\ Plain("levels", set_level(Begin(0), c, role))

Desc(c, text) == Open(c) /\ Plain("about", set_desc(Begin(0), c, text))

EntryMsg(c, text) == Open(c) /\ Plain("about", set_entrymsg(Begin(0), c, text))

\* SET of an option; AUTOOP is stored the other way round.
SetOption(c, o, on) ==
    Open(c) /\ Plain("set", set_channel_setting(Begin(0), c, o, IF o = "noautoop" THEN ~on ELSE on))

\* SET SIGNKICK {ON|OFF|LEVEL}: two options, and only the second one's answer counts.
SetSignKick(c, on, level, fate) ==
    /\ Open(c)
    /\ level => on
    /\ LET s1 == set_channel_setting(Begin(fate), c, "signkick", on)
       IN  Plain("signkick", set_channel_setting(s1, c, "signlevel", level))

\* KICK <type> {ON|OFF}, with its thresholds.
SetKicker(c, k, on) ==
    /\ Registered(c)
    /\ Plain("kick", update_kickers(Begin(0), c, [mem[c].kick EXCEPT !.on = IF on THEN @ \cup {k} ELSE @ \ {k}]))

\* KICK TTB, SET BANEXPIRE and SET VOTEKICK: a number among the kickers.
SetNumber(c, n) == Registered(c) /\ Plain("kick", update_kickers(Begin(0), c, [mem[c].kick EXCEPT !.ttb = n]))

\* SET GREET and SET NOBOT.
SetBotOption(c, o, on) == Registered(c) /\ Plain("set", set_channel_setting(Begin(0), c, o, on))

BadwordAdd(c, p) ==
    /\ Registered(c)
    /\ ~Contains(mem[c].words, p)
    /\ Plain("badwords", write_badwords(Begin(0), c, Append(mem[c].words, p)))

BadwordDel(c, p) ==
    /\ Registered(c)
    /\ Contains(mem[c].words, p)
    /\ Plain("badwords", write_badwords(Begin(0), c, Without(mem[c].words, p)))

BadwordClear(c) ==
    Registered(c) /\ mem[c].words # <<>> /\ Plain("badwords", write_badwords(Begin(0), c, <<>>))

TriggerAdd(c, p) ==
    /\ Registered(c)
    /\ ~Contains(mem[c].trigs, p)
    /\ Plain("trigger", write_triggers(Begin(0), c, Append(mem[c].trigs, p)))

TriggerDel(c, i) ==
    Registered(c) /\ i \in DOMAIN mem[c].trigs /\ Plain("trigger", write_triggers(Begin(0), c, RemoveAt(mem[c].trigs, i)))

TriggerClear(c) ==
    Registered(c) /\ mem[c].trigs # <<>> /\ Plain("trigger", write_triggers(Begin(0), c, <<>>))

\* BotServ COPY; onto itself too.
Copy(src, dst, fate) ==
    Registered(src) /\ Registered(dst) /\ Plain("copy", copy_bot_config(Begin(fate), src, dst))

\* ChanServ CLONE: lock, masks, description and entry message, one by one and
\* whatever becomes of each; neither channel's suspension is looked at.
Clone(src, dst, fate) ==
    /\ Registered(src) /\ Registered(dst)
    /\ LET s  == mem[src]
           s1 == set_mlock(Begin(fate), dst, s.lock)
           s2 == akick_copy(s1, dst, s.akick)
           s3 == set_desc(s2, dst, s.about["desc"])
           s4 == set_entrymsg(s3, dst, s.about["entry"])
       IN  Plain("clone", [s4 EXCEPT !.ok = TRUE])

\* TOPIC, and a topic change the engine remembers.
Topic(c, text) == Open(c) /\ Plain("topic", set_topic(Begin(0), c, [text |-> text, by |-> "op"]))

Suspend(c) == Registered(c) /\ Plain("suspend", set_suspended(Begin(0), c, TRUE))

Unsuspend(c) == Registered(c) /\ mem[c].frozen /\ Plain("unsuspend", set_suspended(Begin(0), c, FALSE))

Note(c, text) == Registered(c) /\ Plain("note", set_channel_note(Begin(0), c, text))

-----------------------------------------------------------------------------
(* The node. *)

\* A compiled list goes by its revision and its channel's registration time.
Compiled_rev(list, rev, ts) == [rev |-> rev, ts |-> 0, list |-> list]

Compiled(list, rev, ts) == [rev |-> rev, ts |-> ts, list |-> list]

Reused(old, fresh) == old # None /\ old.rev = fresh.rev /\ old.ts = fresh.ts

\* A line is said where a bot sits: each list is compiled again unless the
\* compiled one goes by the same revision and time.
Line(c) ==
    /\ Registered(c)
    /\ LET w == Compiled(mem[c].words, mem[c].wordsrev, mem[c].ts)
           t == Compiled(mem[c].trigs, mem[c].trigsrev, mem[c].ts)
           old == cache[c]
           new == [words |-> IF w.list = <<>> \/ Reused(old.words, w) THEN old.words ELSE w,
                   trigs |-> IF t.list = <<>> \/ Reused(old.trigs, t) THEN old.trigs ELSE t]
       IN  new # old /\ cache' = [cache EXCEPT ![c] = new]
    /\ UNCHANGED <<mem, disk, lockdown, now, copied, drifted, born, hurried, ops>>

\* The periodic sweep forgets the channels that are gone.
PruneCaches ==
    /\ cache' = [c \in Chan |-> IF Registered(c) THEN cache[c] ELSE [words |-> None, trigs |-> None]]
    /\ cache' # cache
    /\ UNCHANGED <<mem, disk, lockdown, now, copied, drifted, born, hurried, ops>>

Tick ==
    /\ now < MaxNow
    /\ now' = now + 1
    /\ UNCHANGED <<mem, disk, lockdown, cache, copied, drifted, born, hurried, ops>>

Upkeep == ops < MaxOps /\ ops' = ops + 1 /\ copied' = FALSE /\ UNCHANGED now

SetReadonly ==
    Upkeep /\ lockdown' = ~lockdown /\ UNCHANGED <<mem, disk, cache, drifted, born, hurried>>

Compact ==
    /\ Upkeep
    /\ disk' = Snapshot(mem)
    /\ drifted' = FALSE
    /\ UNCHANGED <<mem, lockdown, cache, born, hurried>>

\* Memory, the compiled lists and the lockdown do not outlive the process.
Restart ==
    /\ Upkeep
    /\ mem' = disk
    /\ cache' = [c \in Chan |-> [words |-> None, trigs |-> None]]
    /\ lockdown' = FALSE
    /\ drifted' = FALSE
    /\ UNCHANGED <<disk, born, hurried>>

\* One channel has something of everything, the others nothing yet.
Busy ==
    [Fresh(0) EXCEPT !.lock = [on |-> {"f"}, off |-> {"n"}, given |-> {"f"}],
                     !.akick = <<CHOOSE m \in Mask : TRUE>>,
                     !.opts = {"signkick", "signlevel", "nobot"},
                     !.kick = [on |-> {"warn"}, ttb |-> 1],
                     !.words = <<CHOOSE p \in Pattern : TRUE>>, !.wordsrev = 1,
                     !.trigs = <<CHOOSE p \in Pattern : TRUE>>, !.trigsrev = 1]

Init ==
    /\ \E b \in Chan : mem = [c \in Chan |-> IF c = b THEN Busy ELSE Fresh(0)]
    /\ disk = Snapshot(mem)
    /\ lockdown = FALSE
    /\ cache = [c \in Chan |-> [words |-> None, trigs |-> None]]
    /\ now = 0
    /\ copied = FALSE
    /\ drifted = FALSE
    /\ born = [c \in Chan |-> {0}]
    /\ hurried = FALSE
    /\ ops = 0

Akick(c) == (\E m \in Mask : AkickAdd(c, m) \/ AkickDel(c, m)) \/ (\E fate \in 0..2 : AkickClear(c, fate))

Set(c) ==
    \/ \E text \in {"", "t"} : Desc(c, text)
    \/ \E on \in BOOLEAN :
          \/ \E o \in {"noautoop", "secureops"} : SetOption(c, o, on)
          \/ \E level \in BOOLEAN, fate \in 0..2 : SetSignKick(c, on, level, fate)

Kick(c) == (\E k \in Kicker, on \in BOOLEAN : SetKicker(c, k, on)) \/ (\E n \in 0..1 : SetNumber(c, n))

BotSet(c) == \E o \in {"botgreet", "nobot"}, on \in BOOLEAN : SetBotOption(c, o, on)

Badwords(c) == (\E p \in Pattern : BadwordAdd(c, p) \/ BadwordDel(c, p)) \/ BadwordClear(c)

Trigger(c) ==
    \/ \E p \in Pattern : TriggerAdd(c, p)
    \/ \E i \in 1..Cardinality(Pattern) : TriggerDel(c, i)
    \/ TriggerClear(c)

Next ==
    \/ \E c \in Chan :
          \/ Register(c) \/ DropChannel(c) \/ Akick(c) \/ Set(c) \/ Suspend(c) \/ Unsuspend(c)
          \/ Kick(c) \/ BotSet(c) \/ Badwords(c) \/ Trigger(c) \/ Line(c)
          \/ \E new \in Chan : Rename(c, new)
          \/ \E modes \in Specs, values \in 0..1 : Mlock(c, modes, values)
          \/ \E role \in {None, "vop"} : Levels(c, role)
          \/ \E text \in {"", "t"} : Topic(c, text) \/ Note(c, text) \/ EntryMsg(c, text)
          \/ \E dst \in Chan, fate \in 0..4 : Copy(c, dst, fate) \/ Clone(c, dst, fate)
    \/ SetReadonly \/ Compact \/ Restart \/ Tick \/ PruneCaches

Spec == Init /\ [][Next]_vars

-----------------------------------------------------------------------------

RecOK(rec) ==
    /\ rec \in Rec /\ rec.ts <= MaxNow
    /\ IsInjective(rec.words) /\ IsInjective(rec.trigs)
    /\ IsInjective(rec.akick) /\ Len(rec.akick) <= MaxList

\* The registrations are of their types; each list names a thing once, and the
\* masks stay within MAX_CHAN_LIST.
TypeOK ==
    /\ \A c \in Chan : mem[c] = None \/ RecOK(mem[c])
    /\ {lockdown, drifted, hurried} \subseteq BOOLEAN
    /\ now \in 0..MaxNow /\ ops \in 0..MaxOps

\* The fold counts revisions again, and a topic's setter goes with its text.
Same(a, b) ==
    IF a = None \/ b = None THEN a = b
    ELSE /\ [a EXCEPT !.wordsrev = 0, !.trigsrev = 0, !.topic = ""] = [b EXCEPT !.wordsrev = 0, !.trigsrev = 0, !.topic = ""]
         /\ a.topic.text = b.topic.text
         /\ a.topic.text # "" => a.topic = b.topic

\* What a restart would read back is what is in memory, compacted or not, half
\* a COPY or a whole one, unless the append of a staff note was ignored.
SettingsReplay == drifted \/ \A c \in Chan : Same(disk[c], mem[c])

\* A compiled list that the engine takes for current is the channel's list: no
\* change of the list, COPY, rename or new registration leaves an old one in
\* use, unless a name has had one time of registration twice.
ListsAreCurrent ==
    ~hurried =>
        \A c \in Chan : Registered(c) =>
            /\ LET w == Compiled(mem[c].words, mem[c].wordsrev, mem[c].ts)
               IN  Reused(cache[c].words, w) => cache[c].words.list = mem[c].words
            /\ LET t == Compiled(mem[c].trigs, mem[c].trigsrev, mem[c].ts)
               IN  Reused(cache[c].trigs, t) => cache[c].trigs.list = mem[c].trigs

\* The same, within a second too: "entries are keyed by (rev, ts) and a
\* re-registered channel gets a fresh ts, so a stale entry can't false-match".
NeverStale ==
    \A c \in Chan : Registered(c) =>
        LET w == Compiled(mem[c].words, mem[c].wordsrev, mem[c].ts)
        IN  Reused(cache[c].words, w) => cache[c].words.list = mem[c].words

\* No mode is locked both ways, f is locked with a value and a value only with
\* f, whatever was cloned, compacted or replayed: a lock without modes is none.
LocksMakeSense ==
    \A c \in Chan : Registered(c) =>
        /\ mem[c].lock.on \cap mem[c].lock.off = {}
        /\ mem[c].lock.given = mem[c].lock.on \cap {"f"}

Config(rec) == <<rec.kick, rec.words, rec.opts \cap {"botgreet", "nobot"}>>

\* A COPY that says it is done has made the bot settings of the second channel
\* those of the first, by four appends; one that was refused part of it says so.
CopiedIsCopied ==
    copied' => \A src, dst \in Chan, fate \in 0..4 :
                   Copy(src, dst, fate) => Config(mem'[dst]) = Config(mem[src])
===============================================================================
