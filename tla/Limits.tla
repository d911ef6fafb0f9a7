------------------------------- MODULE Limits -------------------------------
(***************************************************************************)
(* The token buckets: one for registrations, one for dictionary lookups    *)
(* and one per host for the commands of anonymous senders, which also      *)
(* warns and is swept. Tokens are counted in halves, the least a second    *)
(* refills; what costs a token costs Cost of them.                         *)
(***************************************************************************)
EXTENDS Naturals, Sequences, FiniteSets

CONSTANTS Host, None,
          Cost,                   \* of one token
          CmdBurst, CmdRefill, RegBurst, RegRefill, DictBurst, DictRefill,
          WarnEvery, SweepEvery, MaxNow, MaxCalls

VARIABLES
    cmd,      \* host -> [tokens, last, warned]; hosts never seen are absent
    swept,    \* when cmd was last swept, None before the first command
    reg, dict,    \* [tokens, last]
    now, calls,
    ran,      \* history: when each client was let through
    told      \* history: <<host, when, verdict>> of every refused command

vars == <<cmd, swept, reg, dict, now, calls, ran, told>>

AtMost(a, b) == IF a < b THEN a ELSE b

(* A bucket as it stands now: refilled for the time since it was used.     *)
Level_over(b, refill, burst) == b.tokens + (now - b.last) * refill   \* saves up
Level(b, refill, burst) == AtMost(b.tokens + (now - b.last) * refill, burst)

Full(burst) == [tokens |-> burst, last |-> 0]

Call == calls < MaxCalls /\ calls' = calls + 1

Client == Host \union {"register", "lookup"}
LetThrough(who) == ran' = [ran EXCEPT ![who] = Append(@, now)]

Spend_always(level) == level - Cost   \* goes into debt
Spend(level) == IF level >= Cost THEN level - Cost ELSE level

(* RegLimiter::allow and DictLimiter::allow                                *)
Allow(b, refill, burst, who, kept) ==
    LET level == Level(b, refill, burst)
    IN  /\ kept = [b EXCEPT !.tokens = Spend(level), !.last = now]
        /\ IF level >= Cost THEN LetThrough(who) ELSE UNCHANGED ran

(* pre_register_check and authority_pre_check: an account that may not be  *)
(* made is refused before the limiter and spends nothing.                  *)
register(refused) ==
    /\ Call
    /\ IF refused THEN UNCHANGED <<reg, ran>>
       ELSE Allow(reg, RegRefill, RegBurst, "register", reg')
    /\ UNCHANGED <<cmd, swept, dict, now, told>>

(* apply_dict_limit: each lookup among the actions asks the limiter.       *)
lookup ==
    /\ Call /\ Allow(dict, DictRefill, DictBurst, "lookup", dict')
    /\ UNCHANGED <<cmd, swept, reg, now, told>>

(* CmdLimiter::sweep: buckets that would be full by now are forgotten.     *)
Kept_any(h) == FALSE                     \* forgets every bucket
Kept(h) == cmd[h].tokens + (now - cmd[h].last) * CmdRefill < CmdBurst
Due == swept # None => now - swept >= SweepEvery
Swept == IF Due THEN [h \in {g \in DOMAIN cmd : Kept(g)} |-> cmd[h]] ELSE cmd

MayWarn_again(b) == TRUE
MayWarn(b) == b.warned # None => now - b.warned >= WarnEvery

(* dispatch: opers and identified senders are not clamped, ignored ones    *)
(* are not answered at all, everybody else passes check_at.                *)
command(h, sender) ==
    /\ Call
    /\ IF sender # "anonymous"
       THEN UNCHANGED <<cmd, swept, ran, told>>
       ELSE LET b == IF h \in DOMAIN Swept THEN Swept[h]
                     ELSE [tokens |-> CmdBurst, last |-> now, warned |-> None]
                level == Level(b, CmdRefill, CmdBurst)
                put(v) == [g \in DOMAIN Swept \union {h} |-> IF g = h THEN v ELSE Swept[g]]
                used == [b EXCEPT !.tokens = level, !.last = now]
            IN  /\ swept' = IF Due THEN now ELSE swept
                /\ IF level >= Cost
                   THEN /\ cmd' = put([used EXCEPT !.tokens = Spend(level)])
                        /\ LetThrough(h) /\ UNCHANGED told
                   ELSE /\ cmd' = put([used EXCEPT !.warned = IF MayWarn(b) THEN now ELSE @])
                        /\ told' = Append(told, <<h, now, IF MayWarn(b) THEN "warn" ELSE "drop">>)
                        /\ UNCHANGED ran
    /\ UNCHANGED <<reg, dict, now>>

Tick == /\ now < MaxNow /\ now' = now + 1
        /\ UNCHANGED <<cmd, swept, reg, dict, calls, ran, told>>

Init == /\ cmd = << >> /\ swept = None
        /\ reg = Full(RegBurst) /\ dict = Full(DictBurst)
        /\ now = 0 /\ calls = 0 /\ ran = [who \in Client |-> << >>] /\ told = << >>
Next == \/ \E r \in BOOLEAN : register(r)
        \/ lookup \/ Tick
        \/ \E h \in Host, s \in {"anonymous", "identified", "oper", "ignored"} : command(h, s)
Spec == Init /\ [][Next]_vars

-----------------------------------------------------------------------------
(* Types; no bucket holds more than its burst.                             *)
TypeOK ==
    /\ DOMAIN cmd \subseteq Host
    /\ \A h \in DOMAIN cmd : /\ cmd[h].tokens \in 0..CmdBurst /\ cmd[h].last \in 0..now
                             /\ cmd[h].warned \in {None} \union 0..now
    /\ reg \in [tokens : 0..RegBurst, last : 0..now]
    /\ dict \in [tokens : 0..DictBurst, last : 0..now]
    /\ swept \in {None} \union 0..now

(* What each limiter is for: in any interval no more is let through than a *)
(* full bucket and what the interval refills, although sweeps forget       *)
(* buckets and a reconnect or a nick change does not reset one.            *)
Metered ==
    LET within(who, burst, refill) ==
            \A i, j \in DOMAIN ran[who] : i <= j =>
                (j - i + 1) * Cost <= burst + (ran[who][j] - ran[who][i]) * refill
    IN  /\ within("register", RegBurst, RegRefill)
        /\ within("lookup", DictBurst, DictRefill)
        /\ \A h \in Host : within(h, CmdBurst, CmdRefill)

(* A sender is never cut off without having been told: a command dropped   *)
(* silently follows a warning to its host within the warning period, and   *)
(* nothing is warned twice at the same moment.                             *)
ToldBeforeDropped ==
    LET warned(h, t) == {i \in DOMAIN told : told[i][1] = h /\ told[i][3] = "warn"
                                             /\ told[i][2] <= t /\ t < told[i][2] + WarnEvery}
    IN  \A i \in DOMAIN told :
            /\ told[i][3] = "drop" => \E j \in warned(told[i][1], told[i][2]) : j < i
            /\ told[i][3] = "warn" => \A j \in warned(told[i][1], told[i][2]) :
                                          j = i \/ told[j][2] # told[i][2]

(* The comment on CMD_WARN_EVERY: at most one "slow down" per host in a    *)
(* warning period.                                                         *)
OneWarnPerWindow ==
    \A i, j \in DOMAIN told :
        (i < j /\ told[i][1] = told[j][1] /\ told[i][3] = "warn" /\ told[j][3] = "warn")
        => told[j][2] - told[i][2] >= WarnEvery
=============================================================================
