------------------------------ MODULE Security ------------------------------
(***************************************************************************)
(* The anti-abuse screens (src/src/engine/security): sliding windows of    *)
(* events per detector and subject, and what is done when one overflows.   *)
(* Every detector has the same permit and the same window here; what a     *)
(* line of text looks like is given with the event.                        *)
(*                                                                         *)
(* A detector's key is <<detector, subject>>; its window is the sequence   *)
(* of times at which it was hit, oldest first.                             *)
(***************************************************************************)
EXTENDS Naturals, Sequences, FiniteSets

CONSTANTS User, Account, None,
          Ip(_), Subnet(_),       \* where a user connects from
          Exempt,                \* users behind an exempt address, or opers
          Permit, Life,          \* of every detector
          AnnouncePermit, AnnounceLife, EvadeTtl, Grace, Hour,
          GcEvery,               \* collect the windows every so many hits
          MaxNow, MaxEvents

VARIABLES
    mode,     \* "off", "report" or "armed", as last configured
    windows,  \* key -> times; a key without a window is not in the domain
    hits,     \* hits since the last collection
    quiet,    \* no detector runs before this time
    evaded,   \* account -> when its ban is forgotten (0: not remembered)
    account, online, now, events,
    acted,    \* the users acted on by the last step, with the key that tripped
    lines,    \* history: when something was written to the staff feed
    seen,     \* history: every event screened, by key
    split     \* history: the end of the quiet period after the last split

vars == <<mode, windows, hits, quiet, evaded, account, online, now, events,
          acted, lines, seen, split>>
history == <<seen, split>>

Minus(a, b) == IF a > b THEN a - b ELSE 0
Later(a, b) == IF a > b THEN a ELSE b

(* ---------------------------------------------------------- counter.rs -- *)
Window(w, k) == IF k \in DOMAIN w THEN w[k] ELSE << >>
\* A look at a window pops what is too old off its front.
Popped(times, life) ==
    CHOOSE n \in 0..Len(times) :
        /\ \A i \in 1..n : times[i] < Minus(now, life)
        /\ n < Len(times) => times[n + 1] >= Minus(now, life)
Recent(times, life) == SubSeq(times, Popped(times, life) + 1, Len(times))
count(w, k, life) == Len(Recent(Window(w, k), life))

(* Collected now and then: windows without an event in the last hour go.   *)
Collected_now(w) ==   \* only the windows hit this second stay
    [k \in {j \in DOMAIN w : w[j] # << >> /\ w[j][Len(w[j])] >= now} |-> w[k]]
Collected(w) ==
    [k \in {j \in DOMAIN w : w[j] # << >> /\ w[j][Len(w[j])] >= Minus(now, Hour)} |-> w[k]]

Announcement == <<"announce", "">>
Notices == <<Announcement, <<"cascade", "">> >>   \* hit whenever somebody is acted on
Keys(ks) == {ks[i] : i \in DOMAIN ks}
LifeOf(k) == IF k \in Keys(Notices) THEN AnnounceLife ELSE Life

\* The hits of one event, on different keys; when the collection comes between
\* two of them makes no difference, as no window is longer than an hour.
Hit(w, ks) ==
    [k \in DOMAIN w \union Keys(ks) |->
        IF k \in Keys(ks) THEN Append(Recent(Window(w, k), LifeOf(k)), now) ELSE w[k]]
HitAll(w, n, ks) ==   \* windows and hit count after the hits ks
    [w |-> IF \E i \in DOMAIN ks : (n + i) % GcEvery = 0 THEN Collected(Hit(w, ks)) ELSE Hit(w, ks),
     n |-> (n + Len(ks)) % GcEvery]

(* ------------------------------------------------------- the shared gates *)
on == mode # "off"
enforcing == mode = "armed"
in_netsplit == now < quiet
Identity_always(u) == online[u] /\ u \notin Exempt   \* screens rejoins too
Identity(u) == online[u] /\ u \notin Exempt /\ ~in_netsplit
is_evader(a) == a # None /\ now < evaded[a]

Event == events < MaxEvents /\ events' = events + 1

(* security_act: a line to the feed unless there were too many (the last   *)
(* one says that more are muted), a kill and a ban when armed, and the     *)
(* offender's account remembered.                                          *)
Announces_all(shown) == TRUE
Announces(shown) == shown <= AnnouncePermit + 1

remember_ban(a) ==
    [b \in Account |-> IF b = a THEN now + EvadeTtl
                       ELSE IF evaded[b] > now THEN evaded[b] ELSE 0]

Act(u, why, ev) ==   \* ev: evaded as the caller left it
    /\ acted' = {<<u, why>>}
    /\ lines' = IF Announces(Len(Window(windows', Announcement)))
                THEN Append(lines, now) ELSE lines
    /\ evaded' = IF enforcing /\ account[u] # None THEN remember_ban(account[u]) ELSE ev
    /\ online' = IF enforcing THEN [online EXCEPT ![u] = FALSE] ELSE online
    /\ account' = IF enforcing THEN [account EXCEPT ![u] = None] ELSE account

Record(ks) ==
    seen' = [k \in DOMAIN seen \union Keys(ks) |->
                IF k \in Keys(ks) THEN Append(Window(seen, k), now) ELSE seen[k]]

(* Mutant: the event at the limit is counted as if it were below.          *)
Trips_late(ks, judged) ==
    {i \in DOMAIN ks : ks[i] \in judged /\ count(windows, ks[i], Life) > Permit}

(* A screened event hits the keys of ks one after the other, up to the     *)
(* first that is judged and overflows: that one is acted on.               *)
Trips(ks, judged) ==
    {i \in DOMAIN ks : ks[i] \in judged /\ count(windows, ks[i], Life) + 1 > Permit}
Screen(u, ks, judged) ==
    LET over == Trips(ks, judged)
        stop == IF over = {} THEN Len(ks) ELSE CHOOSE i \in over : \A j \in over : i <= j
        done == SubSeq(ks, 1, stop)
        r == HitAll(windows, hits, IF over = {} THEN done ELSE done \o Notices)
    IN  /\ windows' = r.w /\ hits' = r.n
        /\ Record(done)
        /\ IF over = {} THEN acted' = {} /\ UNCHANGED <<lines, evaded, online, account>>
           ELSE Act(u, ks[stop], evaded)
        /\ UNCHANGED <<mode, quiet, now, split>>

(* ------------------------------------------------------------ the screens *)
Nothing == UNCHANGED <<mode, windows, hits, quiet, evaded, now, lines, seen, split>>
           /\ acted' = {}

(* A connection matched by an operator's pattern is acted on at once; else *)
(* both flood windows are hit and either can trip.                         *)
connect(u, pattern) ==
    /\ Event /\ ~online[u]
    /\ LET ip == <<"cf", Ip(u)>>
           net == <<"cr", Subnet(u)>>
           screened == on /\ ~in_netsplit /\ u \notin Exempt
           over == {k \in {ip, net} : count(windows, k, Life) + 1 > Permit}
           r == HitAll(windows, hits,
                    IF pattern THEN Notices
                    ELSE <<ip, net>> \o (IF over = {} THEN << >> ELSE Notices))
       IN  IF ~screened
           THEN /\ acted' = {} /\ online' = [online EXCEPT ![u] = TRUE]
                /\ UNCHANGED <<windows, hits, evaded, account, lines, seen>>
           ELSE /\ windows' = r.w /\ hits' = r.n
                /\ IF pattern THEN UNCHANGED seen ELSE Record(<<ip, net>>)
                /\ LET hit == pattern \/ over # {}
                   IN  /\ acted' = IF hit THEN {<<u, IF pattern THEN <<"pattern", "">>
                                                     ELSE IF ip \in over THEN ip ELSE net>>} ELSE {}
                       /\ lines' = IF hit /\ Announces(Len(Window(windows', Announcement)))
                                   THEN Append(lines, now) ELSE lines
                       /\ online' = [online EXCEPT ![u] = ~(hit /\ enforcing)]
                /\ UNCHANGED <<evaded, account>>
    /\ UNCHANGED <<mode, quiet, now, split>>

Screened(u, ks, judged) ==
    IF on /\ Identity(u) THEN Screen(u, ks, judged)
    ELSE Nothing /\ UNCHANGED <<online, account>>

nick(u) == /\ Event /\ online[u]
           /\ Screened(u, << <<"nf", u>> >>, {<<"nf", u>>})

join(u) == /\ Event /\ online[u]
           /\ Screened(u, << <<"jj", u>>, <<"mj", Subnet(u)>>, <<"cw", u>> >>,
                       {<<"mj", Subnet(u)>>, <<"cw", u>>})

part(u) == /\ Event /\ online[u]
           /\ LET quick == count(windows, <<"jj", u>>, Life) > 0
              IN  Screened(u, << <<"cy", u>> >> \o
                              (IF quick THEN << <<"jsp", u>> >> ELSE << >>),
                           {<<"cy", u>>, <<"jsp", u>>})

(* A line is judged for the people it pings, for its characters and for    *)
(* being repeated, each where it applies.                                  *)
message(u, flaws) ==
    /\ Event /\ online[u]
    /\ LET when(d, subject) == IF d \in flaws THEN << <<d, subject>> >> ELSE << >>
           ks == when("hl", u) \o when("bu", u) \o when("rp", "line")
       IN  Screened(u, ks, Keys(ks))

auth_failed(u) == /\ Event /\ online[u]
                  /\ Screened(u, << <<"af", Ip(u)>> >>, {<<"af", Ip(u)>>})

(* quit: the screen runs before the user is forgotten; there is nobody     *)
(* left to kill, so the action only bans.                                  *)
quit(u, broken) ==
    /\ Event /\ online[u]
    /\ LET k == <<"qf", Ip(u)>>
           screened == on /\ broken /\ Identity(u)
           over == screened /\ count(windows, k, Life) + 1 > Permit
           r == HitAll(windows, hits, <<k>> \o (IF over THEN Notices ELSE << >>))
       IN  /\ windows' = IF screened THEN r.w ELSE windows
           /\ hits' = IF screened THEN r.n ELSE hits
           /\ IF screened THEN Record(<<k>>) ELSE UNCHANGED seen
           /\ acted' = IF over THEN {<<u, k>>} ELSE {}
           /\ lines' = IF over /\ Announces(Len(Window(windows', Announcement)))
                       THEN Append(lines, now) ELSE lines
           /\ evaded' = IF over /\ enforcing /\ account[u] # None
                        THEN remember_ban(account[u]) ELSE evaded
    /\ online' = [online EXCEPT ![u] = FALSE]
    /\ account' = [account EXCEPT ![u] = None]
    /\ UNCHANGED <<mode, quiet, now, split>>

(* A login the ircd reports is screened for ban evasion ...                *)
account_login(u, a) ==
    /\ Event /\ online[u] /\ account[u] # a
    /\ IF enforcing /\ is_evader(a) /\ Identity(u)
       THEN LET r == HitAll(windows, hits, Notices)
            IN  /\ windows' = r.w /\ hits' = r.n
                /\ acted' = {<<u, <<"evasion", a>> >>}
                /\ lines' = IF Announces(Len(Window(windows', Announcement)))
                            THEN Append(lines, now) ELSE lines
                /\ evaded' = remember_ban(a)
                /\ online' = [online EXCEPT ![u] = FALSE]
                /\ account' = [account EXCEPT ![u] = None]
                /\ UNCHANGED <<mode, quiet, now, seen, split>>
       ELSE /\ account' = [account EXCEPT ![u] = a]
            /\ UNCHANGED online /\ Nothing

(* ... one that services make themselves (IDENTIFY, SASL, REGISTER) is     *)
(* recorded by track_accounts and never comes back from the ircd.          *)
own_login(u, a) ==
    /\ Event /\ online[u] /\ account[u] # a
    /\ account' = [account EXCEPT ![u] = a]
    /\ UNCHANGED online /\ Nothing

logout(u) == /\ Event /\ account[u] # None
             /\ account' = [account EXCEPT ![u] = None]
             /\ UNCHANGED online /\ Nothing

(* A server links or splits.                                               *)
mark_netsplit ==
    /\ Event /\ quiet' = Later(quiet, now + Grace)
    /\ split' = now + Grace /\ acted' = {}
    /\ UNCHANGED <<mode, windows, hits, evaded, account, online, now, lines, seen>>

configure(m) ==
    /\ Event /\ mode # m /\ mode' = m /\ acted' = {}
    /\ UNCHANGED <<windows, hits, quiet, evaded, account, online, now, lines, history>>

Tick == /\ now < MaxNow /\ now' = now + 1 /\ acted' = {}
        /\ UNCHANGED <<mode, windows, hits, quiet, evaded, account, online,
                       events, lines, history>>

Init ==
    /\ mode \in {"report", "armed"}
    /\ windows = << >> /\ hits = 0 /\ quiet = 0
    /\ evaded = [a \in Account |-> 0]
    /\ online \in [User -> BOOLEAN] /\ account \in [User -> Account \union {None}]
    /\ \A u \in User : account[u] # None => online[u]
    /\ now = 0 /\ events = 0 /\ acted = {} /\ lines = << >>
    /\ seen = << >> /\ split = 0

Traffic(u) ==
    \/ \E p \in BOOLEAN : connect(u, p) \/ quit(u, p)
    \/ nick(u) \/ join(u) \/ part(u) \/ auth_failed(u)
    \/ \E f \in SUBSET {"hl", "bu", "rp"} : message(u, f)
    \/ \E a \in Account : account_login(u, a) \/ own_login(u, a)
    \/ logout(u)
Next == \/ \E u \in User : Traffic(u)
        \/ mark_netsplit \/ Tick \/ \E m \in {"off", "report", "armed"} : configure(m)
Spec == Init /\ [][Next]_vars

-----------------------------------------------------------------------------
(* Types; a key's window only holds times that have passed, in order.      *)
TypeOK ==
    /\ mode \in {"off", "report", "armed"}
    /\ \A k \in DOMAIN windows : \A i \in DOMAIN windows[k] :
          windows[k][i] \in 0..now /\ (i > 1 => windows[k][i - 1] <= windows[k][i])
    /\ evaded \in [Account -> 0..(MaxNow + EvadeTtl)]
    /\ account \in [User -> Account \union {None}] /\ online \in [User -> BOOLEAN]
    /\ \A u \in User : account[u] # None => online[u]

(* Counters: trimming on access and the hourly collection lose no event    *)
(* that is still inside its detector's window ("this never discards live   *)
(* state").                                                                *)
Back(times, n) == times[Len(times) + 1 - n]   \* the n-th from the end
WindowsComplete ==
    \A k \in DOMAIN seen :
        LET live(times) == {n \in 1..Len(times) : Back(times, n) + Life >= now}
            kept == Window(windows, k)
        IN  /\ live(seen[k]) = live(kept)
            /\ \A n \in live(kept) : Back(seen[k], n) = Back(kept, n)

(* A flood is acted on exactly when the event that completes it arrives:   *)
(* more than Permit events of one subject within Life seconds.             *)
ActedOnFloods ==
    \A k \in DOMAIN seen' \ {k \in DOMAIN seen' : k[1] = "jj"} :
       LET before == Window(seen, k)
           within == {i \in DOMAIN seen'[k] : seen'[k][i] + Life >= now}
       IN  (seen'[k] # before) =>
           ((Cardinality(within) > Permit) => acted' # {})
           /\ ((\E u \in User : <<u, k>> \in acted') => Cardinality(within) > Permit)

(* A sustained flood cannot spam the staff channel: in any AnnounceLife    *)
(* seconds there are at most AnnouncePermit lines and the one that mutes.  *)
FeedBounded ==
    \A i \in DOMAIN lines :
        Cardinality({j \in 1..i : lines[j] + AnnounceLife >= lines[i]}) <= AnnouncePermit + 1

(* A server link or split silences every screen for the grace period: the  *)
(* rejoining users are not floods.                                         *)
QuietAfterSplit == acted' # {} => now >= split

(* The comment on Security::evaded: until a banned account is forgotten, a *)
(* login to it is acted on.                                                *)
EvadersActedOn ==
    \A u \in User, a \in Account :
       (/\ account[u] # a /\ account'[u] = a
        /\ enforcing /\ is_evader(a) /\ Identity(u)) => acted' # {}
=============================================================================
