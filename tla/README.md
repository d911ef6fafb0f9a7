# Verification of echo services

echo is a set of IRC services (NickServ, ChanServ, ...) written in Rust. One
process holds an `Engine` behind a mutex; an append-only event log is its only
persistent state; several processes ("nodes") replicate account identity to each
other by gossip. This directory holds TLA+ modules that model the parts of it
where order, failure and concurrency matter, TLC configurations that check small
instances of them, and TLAPS proofs about the core.

Paths below are relative to the repository.

## 1. Inventory

| Part | State | Operations | Talks to | What is hard |
|---|---|---|---|---|
| Event log (`src/engine/db/mod.rs`) | lines on disk, `entries`, `versions` (per-origin cursor), own `epoch`, `readonly`, Lamport clock | `open`, `append`, `ingest`, `compact`, `missing_for` | store above, gossip below | restarts, failed or torn writes, compaction resets, out-of-order entries |
| Gossip sessions (`src/gossip.rs`) | per link: a queue, a ticker, a forwarder, a reader | hello/auth handshake, digest, entry, redial | locks the engine per message | loss, duplication, overtaking, lag, stale digests, two readers waiting on each other |
| Store (`src/engine/db/{account,channel,network,event}.rs`) | accounts, channels, grouped nicks, network lists, pending codes | one method per change: append an event, then change memory; `apply` folds on replay and gossip | log below, services above | live state must equal replayed state; conflict resolution; references to accounts that are gone |
| Engine (`src/engine/mod.rs`, `state.rs`) | mirror of the network (users, channels, who is logged in), timers, SASL exchanges, limiters | one handler per IRC event, sweeps, `gossip_ingest` | link, gossip, gRPC, services | several tasks interleave at every `await`; what the engine asks for crosses what users do |
| Login and registration (`register.rs`, `sasl.rs`, `scram.rs`, `link.rs`, `grpc.rs`) | exchanges in progress, throttle, codes | pre-check, derive with the engine unlocked, complete | IRC link, gRPC | what was checked may no longer hold when the work completes |
| Security, kickers (`security/`, `kicker.rs`) | sliding windows, evaders, counters per speaker, votes, bans to lift | count, decide, sweep | engine | windows and counters at their limits; state forgotten at the wrong moment |
| Services (`modules/*`) | none of their own but a few limits and GameServ's games | command handlers over the store | engine | multi-append commands that fail half way; refused appends that change memory |
| APIs, panel, config, import, helpers | none or caches | translation and I/O | engine | - |

## 2. Modules

Across nodes:

| Module | Models |
|---|---|
| `EventLog` | pure part of the log: entries, cursors, acceptance, what a peer is missing, what `open` absorbs, how a compaction stamps |
| `Replication` (extends `EventLog`) | every node's log and the sessions between nodes |
| `Events` | the events of accounts and channels, `apply`, `owns_over`, `purge_account_refs`, the compaction snapshot |
| `Federation` (extends `Events`, instantiates `Replication`) | store and engine on each node: accounts, channels, sessions, handlers that append several events |
| `Ownership` | the abstract specification of a name's owner: claims are made and learnt in any order, the earliest wins; no logs, no gossip |

The file under one node's log: `LogFile` (lines, syncs, torn and failed writes, the
append handle over a compaction, the Lamport clock).

One node's store and services, each with its log or what the log folds to:

| Module | Models |
|---|---|
| `Login` | registration, IDENTIFY, SASL, passwords, reset codes, logouts and accounts going away, with every key derivation that runs while the engine is unlocked |
| `Profile` | account settings, certificates, auto-join lists, and the lines that sessions show at the ircd |
| `Standing` | grouped nicks, groups, channel access, operator grants; what becomes of them with their account |
| `Memos` | mailboxes, receipts, CANCEL, ignores, limits |
| `Bans` | X-lines, forbids, filters, watches, exceptions, ignores, the defence level, and the ircd's copy of the lines |
| `Desks` | bulletins, reports, tickets, jupes |
| `Vhosts` | vhosts, requests, offers, forbidden hosts, the template, and the hosts users show |
| `Expiry` | last-seen stamps, warnings, the expiry sweep, successors |
| `Bots` | BotServ's registry, assignments, and the pseudo-clients on the network |
| `ChanSettings` | channel settings, auto-kicks, badwords, triggers, mode locks as stored, COPY and CLONE, the compiled lists |

What the engine watches, with the link in both directions as queues where they cross:

| Module | Models |
|---|---|
| `Nicks` | nick protection: timers, renames, GHOST and REGAIN |
| `Status` | joins, operator and voice status, auto-kicks, RESTRICTED, SECUREOPS, ChanServ's status commands, the engine's picture of the channel |
| `Locks` | the mode lock, KEEPTOPIC and TOPICLOCK against what users change |
| `Kickers` | kickers, their ladder, bans to lift, votes |
| `Security` | the screens' windows, grace after a split, evaders, what is done on a trip |
| `Limits` | the token buckets |
| `Games`, `Boards`, `Chess` | GameServ's tables and ladder; the referees of its three games |

`Live` puts `ChanSettings`, `Kickers`, `Status`, `Locks`, `Security` and `Limits` side by side: a
behaviour picks a `scene`, and with it the one module it is a behaviour of, and every
module keeps the names of its variables, so that proofs can speak of them. `MCServices` does the same,
for TLC only, with the modules of one node's services (and `LogFile`), whose variables it shares by position.
`MCReplication`, `MCFederation`, `MCLogin`, `MCNicks` and `MCLive` are instances for TLC of the modules
they are named after. In `MCFederation`, which extends `Federation`, a scene is a value of
`sites` (which node exercises which command; it never changes) with its bounds, and `MCSpec` is
`Spec` within them. `ReplicationProofs`, `FederationProofs`, `LoginProofs`, `NicksProofs`, `LogFileProofs`, `StatusProofs` and
`LiveProofs` hold the theorems, `SequenceLemmas` what they need about sequences.

`Replication` treats events as opaque values with a scope; `Federation` gives them
meaning and performs `Replication`'s actions together with the change to the store,
so an operation there is the conjunction of an append and a mutation exactly as in
the code. A handler that appends several events (`release_founded_channels`,
NickServ DROP) is a list of steps in `todo`: the mutex keeps the node's other
actions out, but other nodes and a crash are not kept out.

`Federation` without drops implements `Ownership`, by the refinement mapping `Names`
in `Federation`: `owner[n][a]` is `Owner(n, a)`, the time and home of the account that node
`n` holds, and `claims[a]` the registrations of `a` that are in some node's log or in
flight. A local registration is a `Register`, a delivery that changes the owner a `Learn`; every
other step leaves the owners alone. A compaction writes only the accounts that the store holds, so
a claim that lost may disappear from the logs: that is `Forget`. What `Ownership` rules out is a
store that holds a claim no log has, that takes a later claim over an earlier, or loses one.

`Login` is the same engine seen closer: an action is one stretch of holding the
mutex. The link's loop (`link.rs`) waits for the job it defers, so `link` holds at
most one job and guards every IRC command; gRPC calls and keycard redemptions are
spawned and wait in `tasks` beside it. `sess` is `Network.accounts`, `shown` the
accountname the ircd holds, `queue` the link's inbound channel (`irc_rx`), through
which logouts decided outside the link reach the ircd. An account carries the number of
its registration and of the registration whose holder asked for its credential;
no guard reads either, they let properties tell one holder of a name from the next.

The single-node modules are built alike. A command is one action: the engine's mutex
is held throughout. The store calls it makes are applied in the code's order, each
either strict (a refused append changes nothing and the command stops) or lenient (memory
changes all the same, and the store is marked `drifted` until a compaction or restart).
`log`, or `disk` where only what it folds to matters, is what a restart reads; a compaction
writes the snapshot that `Db::compact` writes. A variable called history in a comment is read by
no guard.

### Correspondence

Actions carry the names of the functions they translate (`gossip_ingest`,
`handle_account_gone`, `complete_register`, `enforce_sweep`,
`sweep_unbans`, ...) or of the commands (`AkillAdd`, `ExceptDel`, ...); `map` in
`PROJECT.json` gives the lines of each. Those where the name does not tell:

| Action | Code |
|---|---|
| `Author` | `EventLog::append` |
| `Ingest`, `IngestFails` | `EventLog::ingest`, and its `persist` failing |
| `Compact`, `CompactFails` | `EventLog::compact`, and an error between the epoch bump and the rename |
| `Restart` | process death, then `EventLog::open` or `Db::open` |
| `Connect`, `Disconnect` | `dial`/`listen`/handshake; end of `session` |
| `SendDigest`, `Lag`, `AnswerDigest` | the session's ticker, forwarder and reader |
| `Register` ... `complete_register` | NickServ REGISTER: `pre_register_check`, `Defer`, derivation, `complete_register` |
| `GrpcRegister` ... `GrpcRegistered` | `AccountsService::register`: `authority_pre_check`, derivation, `authority_register` |
| `SaslStart`, `SaslPlain`, `ScramFirst`/`ScramFinal`/`ScramAck`, `SaslExternal`, `EcdsaName`/`EcdsaSignature`, `SaslKeycard`, `SaslEnd` | the states of `SaslSession` in `sasl.rs`; abort and the idle sweep |
| `Identify`, `SetPassword`, `ResetPassword`, `GrpcSetPassword`, `GrpcAuthenticate` and their completions | the first half in the command or RPC, the second in `complete_*` / `authority_*` |
| `TakeAway`, `GossipSuspend`, `ForceLogout`, `Drain` | drops by peers, the website and expiry; a peer's SUSPEND; `authority_force_logout`; the loop's `irc_rx` branch |
| `Elapse` (`Login`) | lockouts, code cooldowns and deadlines, at any moment |
| `Elapse`, `Sweep`, `Arrive`, `Deliver` (`Nicks`) | the clock, `enforce_sweep`, and one message of the link in either direction |

Abstractions: a verifier is a member of `Cred`, a name stands for its folded key,
`Trust[n]` stands for signature verification (all origins when signing is off),
entries in flight are a set, which allows every overtaking and loss that several
sessions between two nodes allow. The Lamport clock is in `LogFile` only (nothing reads it
for a decision on another node). Logging in is one step in `Federation`; `Login` has the
derivation. In `Login` a job records what the derivation will find (`ok`), which is fixed when
the verifier is fetched; a certificate, a key or a keycard is accepted or refused
by choice. Texts are numbers, and whether a line of text trips a matcher is given with the
line (`Kickers`, `Security`).

## 3. Runs

Every bound is a named constant. `MaxOps` counts commands (in `Replication` and
`Federation` local writes, compactions and lockdown toggles); `MaxFaults` restarts, lost
sessions, lag and I/O errors; `MaxEpoch` compactions of a node; `MaxDigests` digests in
flight; `MaxNow` ticks of a clock. `sites` says which nodes exercise which command, so that an
instance spends its operations on the question it asks. Limits of the code that are
constants of a module (the comment at each gives the code's value) are set to 1 or 2, so
that filling and exceeding them both fit.

| Run | Checks | Bounds and why they suffice |
|---|---|---|
| `replication` | types, unique ids, no gaps, vector = replayed vector, a lagging node can be served, log order | 2 nodes, 2 global and 1 local event, 3 operations, 1 fault, 1 compaction: a local-only compaction, a restart and a new append already fit |
| `converge` | vectors converge | 2 nodes, 2 operations, 1 fault, 1 compaction, fairness below |
| `federation` | scene `channels`: types, nothing refers to a gone account | 2 nodes, 2 accounts, 1 channel, 6 operations, 1 fault, no digests: register twice, log in, found, set successor, drop, with a lost session in between |
| | scene `restarts`: live state = replayed state | 2 nodes, 1 account, 1 channel, 3 operations, a compaction of each node, 1 fault, which may be a crash in the middle of a handler |
| | scene `rivals`: one owner, and `NamesAreOwned`: store and gossip implement `Ownership` | 2 nodes, 1 name (owners of different names never meet), 2 times, 3 operations, a compaction, 1 fault, a digest, no drops |
| `login` | sessions backed and of accounts not suspended, password for owner, never overwritten, frozen means frozen | 1 account, 2 users, 2 passwords, 7 operations: register, log a second user in, start a password change or a rival registration, drop and register again, with the completion of each job anywhere in between |
| `outside` | types and codes, suspended logged out, logouts reach the ircd | 1 account, 2 users, 2 passwords, 4 operations: an account, an exchange of any of the five kinds, and two of a suspension, drop or logout from outside |
| `services` | what is kept, twelve scenes, below | |
| `live` | what is watched, six scenes, below | |
| `nicks` | timers are for the nick held, only the unidentified are renamed, whoever was warned moves on | 2 users, 2 accounts with a nick each, 1 free nick, 4 steps of users and staff, any number of deliveries and sweeps; `NickServ`'s guest counter starts at 3, so that the two counters meet |

The properties of `services` and `live` are one for each idea; each scene contributes
the conjunct that its module states in full:

| Property | What it says, by scene |
|---|---|
| `StoresReplay` | a restart brings back what was in memory: `memos`, `bans`, `desks`, `standing`, `vhosts`, `expiry`, `bots`, `profile`; and every change reported as done (`logfile`) |
| `NumbersStand` | stamps differ and clocks run on (`logfile`); ids name one thing (`desks`) |
| `NothingInherited` | what comes next under a name starts with nothing: `standing`, `bots`, `games` |
| `OneHolder` | a vhost (`vhosts`), a certificate (`profile`) has one holder |
| `IrcdAgrees` | the ircd enforces and shows what services keep: `bans`, `bots`, `profile`, `vhosts` |
| `CountsHold` | receipts, warnings, queues, caps, the ladder: `memos`, `expiry`, `desks`, `games` |
| `RefereesAreRight` | `chess`, `boards` |
| `TakesWhatItShould` | recalls, deletions, pruning, expiry, captures: `memos`, `desks`, `expiry`, `chess` |
| `GivenByRight` | founder rights (`standing`), forbidden vhosts (`vhosts`) |
| `SettingsHold` | replay, compiled lists and stored locks (`settings`) |
| `PictureAgrees` | the engine's picture of a channel (`status`) |
| `RulesHold` | SECUREOPS, auto-kicks, RESTRICTED (`status`); mode lock and topic (`locks`) |
| `EveryBanHasItsEnd` | temporary bans (`kickers`) |
| `CountedRight` | `kickers`, `security`, `limits` |
| `DoneForCause` | votes (`kickers`), REGISTER (`status`), screens (`security`), COPY (`settings`) |

| Scene | Bounds |
|---|---|
| `memos` | 2 accounts, mailboxes of 2, 4 commands: fill a mailbox past its limit, or send, read and delete |
| `bans` | 2 masks, one for an operator's bans and forbids (so that an SQLINE and a FORBID meet), one for a peer's; a second's or permanent bans, clock to 2, 4 steps: ban, peer's ban, lift, expiry, relink |
| `desks` | 2 hosts, a queue of 2, clock to 3, 4 commands, so a third item prunes |
| `standing` | 2 names, 1 group, 4 grants, an access list of 2 |
| `vhosts` | 2 accounts, their users and 2 hosts, clock to 2, 4 commands |
| `expiry` | 2 accounts, 1 channel, a lifetime of 2 days and a warning 2 days before, 4 days, 4 commands |
| `bots` | 2 bots, 2 channels, 2 identities, 6 events |
| `profile` | 2 accounts, users, certificates and channels, 4 commands |
| `logfile` | peers' clocks 1 and 3, 3 changes, 2 compactions, 2 faults |
| `chess`, `boards`, `games` | six positions and 2 half-moves; tic-tac-toe and a 4 by 4 Connect Four to the end; 2 connections, 2 accounts, 8 steps |
| `settings` | 2 channels, 2 masks and patterns, lists of 1, 3 commands, each append of which may be refused |
| `kickers` | 3 users (two of one host), a flood of 2 lines, a ban at the second kick, a vote of 2, clock to 4, 4 steps |
| `status` | 2 users, 2 accounts, 2 events under way; by its plan every command and 2 steps, or REGISTER and +o and 3 steps |
| `locks` | 3 changes, each way of the link holding any of them |
| `security` | 2 users in a subnet, one hit permitted per second, 3 events, clock to 2 |
| `limits` | 1 host, bursts of 1 and 2, clock to 6, 5 calls |

In `vhosts`, `expiry` and others accounts and users are the model values `a1`, `a2` (`u1`, `u2` in
`live`), permuted together by the symmetry; a user starts in the account of his
own name and the template makes an account its own host, so a permutation maps
instances to themselves. Where a snapshot writes a set of equal events as a sequence, their
order is chosen (`SetToSeq`) and no fold looks at it. `converge`, `outside` and `nicks`, which check
liveness, use no symmetry.

Deadlock checking is off but in `Replication`'s runs because a bounded
instance ends: every user may have left and no operation be left to spend.

`PROJECT.json` lists for every property, and for those of several parts for every part, a
mutant: a change to one definition, as a plausible mistake in the code would make it, under which TLC
finds the property violated. The operators for it stand beside the definition they change.

Violation runs show where the code does something other than a comment says
(quoted in `PROJECT.json`, findings):

- `rival_drop`: a drop names the account only by name, so it removes a rival
  registration on the nodes that fold it late;
- `stale_password`: compaction forgets foreign cursors, so old entries are applied
  again over newer state;
- `late_login`: IDENTIFY completes to an account that a peer or the website dropped
  while the password was being verified;
- `lost_line`: a write cut short leaves a line without its end; the next acknowledged
  entry is glued to it and skipped at the next start, or, cut within a character, the
  whole log is read as empty.

### Known exceptions

The passing runs say what holds around these. The instances, or a property's
hypothesis, leave out what is known to break it.

Across nodes and at login:

- `OwnersAgree` and `NamesAreOwned` speak of behaviours in which nobody drops an account
  (`Undropped`): a drop goes astray as in `rival_drop`, and a compaction forgets a drop that a
  peer has not seen. `rivals` does not change a password either, which goes astray in the same way;
- `NothingDangles` speaks of founders and sessions only where nobody crashes or locks the network:
  the release of a gone account's channels is a separate local write that can be refused or cut off,
  and nothing retries it (`src/engine/mod.rs:996`). Successors it speaks of always;
- `login` takes nothing away from outside the link, and no SASL: a SCRAM exchange
  past its proof, or a keycard being redeemed, logs in to an account dropped
  meanwhile, as `late_login` shows for IDENTIFY. No code is issued to an account
  that goes: a reset code outlives its account and resets the password of the next of
  that name (`src/engine/db/account.rs:305`);
- `outside` has no IDENTIFY, which does not look at a suspension again either, and
  does not check `SessionsBacked`. Its `LogoutsReachIrcd` allows a new login to
  come first: a queued logout that crosses a later login takes the user's
  accountname at the ircd while `sess` keeps it;
- two nodes may each add one certificate to a different account (`Profile`).

In the modules of one node, as definitions that state a comment of the code word for
word and that its instances violate (no run checks them):

| Definition | What the code does instead |
|---|---|
| `Memos!FoldDropsNothing` | SENDALL, STAFF and receipts pass the mailbox limit; the fold drops what is over it |
| `Bans!ForbiddenUnusable` | SQLINE DEL of a forbidden nick lifts its Q-line (`modules/operserv/src/xline.rs:85`), and SQLINE ADD with an expiry over it lets it end; the nick is usable until the next link |
| `Bans!SqlineHolds` | FORBID DEL NICK lifts the Q-line of an SQLINE of the same nick (`modules/operserv/src/forbid.rs:42`) |
| `Desks!SidsDistinct` | the counter of jupes restarts at the number of live ones after a compaction and a restart |
| `Standing!OpersForLiving` | operator grants are not purged with their account |
| `Vhosts!NoCollision` | a vhost taken away or expired is still shown by sessions that have it, and may be given to another |
| `Vhosts!CloakStored` | after a relink the mirror has the vhost in the cloak's place |
| `Expiry!WarnedAtAll` | an item that was pinned or suspended during its warning time goes without a warning |
| `Expiry!OccupiedKept` | a channel in use goes with its founder's account |
| `Bots!DefaultIsChosen` | BOT DEL keeps the default in memory: a bot added later under the nick is the default again, until a restart |
| `ChanSettings!NeverStale` | a channel dropped and registered again within a second is matched with the old list |
| `Kickers!UnbansSent` | UserCert returns before `finish`; the bans swept just before are never lifted |
| `Status!RegistersWhatItHolds` | services' own -o and kicks never reach the picture REGISTER looks at |
| `Security!EvadersActedOn` | logins by certificate, SASL or registration are not screened for evaders |
| `Limits!OneWarnPerWindow` | the sweep of idle hosts forgets when a host was told |
| `Games!CapPerIdentity` | ACCEPT does not look at the cap |
| `Nicks!SquattersStayArmed` | only an arrival arms a timer: not the burst, nor a logout on the nick |

Some exceptions are choices of a module's constant `Quirks`, empty in the runs: in `Bans` a
peer's ban that expires between two readings of the clock becomes permanent at the
ircd, and an entry that arrives expired replaces a live ban on the list and leaves the line; in
`Standing` a group dropped and registered again takes over access entries, an entry named by an
alias outlives it, and a peer's late entry finds another account of the name. `Bans!InForce` speaks of no nick
whose line an SQLINE and a FORBID contend for (`record.contested`): neither command looks at the
other list, and only the next link asserts both. The masks that
peers ban in `bans` are not those that operators lift: a ban still queued here when its mask is lifted
would be set after the lift. A kicker's bot stays on its channel in `Kickers`: a lifting sent as a bot that is gone is not covered.

### Fairness

`converge` assumes weak fairness of redialling (`dial` loops for ever), of each
ticker (`session` sends a digest every `TICK`), of answering a digest and of
reading an entry the node would accept (the reader loops for ever and TCP delivers
or ends the session). Faults are not fair; they are bounded by `MaxFaults`.

`outside` assumes weak fairness of the completion of the link's job (a derivation
is a finite computation on a blocking thread and the loop does nothing else until
it ends) and strong fairness of draining `irc_rx` (`tokio::select!` polls its
branches in random order, so a branch that is ready again and again is taken; weak
fairness would not do, as each job the loop awaits disables it). Users, peers and
the website owe no step.

`nicks` assumes weak fairness of both directions of the link, of time, and of
`enforce_sweep` (an interval of five seconds in `main.rs`'s loop). Users and operators owe no step.

## 4. Proofs

`ReplicationProofs` proves, for any number of nodes, links, events, operations,
faults and compactions: `TypeCorrect`, `IdsUnique`, `GapFree`, `VectorDurable`,
`NeverStuck` and `LocalOnly`. All follow from one inductive invariant `IInv`:

- `OwnEpochs`: a node's epoch is at least that of its own entries in its log;
- `Witnessed`: whatever a node has published and still exists anywhere, its own log
  covers with an entry of a later epoch or of the same epoch at a seq at least as
  high. This is what makes unique ids survive a restart: a failed compaction bumps
  the epoch in memory only, a restart forgets it, and only the log can tell which
  ids are taken;
- `CursorIsMax`: a cursor is the newest of the origin's entries in the log;
- `NoGaps`, `UniqueIds`, `LocalStaysLocal` and the types.

`LogsInOrder` adds that within one log an origin's entries stand in increasing order, so none is
applied late: an append gives the next id, an ingest takes only what is past the cursor, and a
compaction numbers its snapshot upwards (`AuthoredInOrder`).

Assumptions: links join nodes, `Trust` maps nodes to sets of nodes, snapshots are
sequences of events, `None` is not a cursor.

`FederationProofs` proves of store and engine on every node, for any accounts, channels, times and
handlers under way (`Sorts`: nodes and times are numbers, names and channels finitely many, `None` is
none of the data; nothing is assumed of `sites`):

- `TypeCorrect`;
- `LiveIsReplay`: memory is what `open` would rebuild. An append folds one more event; the step that
  needs care is a compaction, whose snapshot, in whatever order it lists accounts and channels, must
  fold to the store it was taken of (`ReplaySnapshot`);
- `NoSuccessorIsGone`: at every moment, a handler running or not, and after crashes and refusals,
  because every drop purges in the same fold that removes the account;
- `NobodyDangles`: nor is a founder or a session left behind, without a crash or lockdown. A founder
  does outlive his account while a handler runs, so the invariant (`DanglingInv`) says what is
  left to do: a node is settled, or is cleaning up after one account with a release still to come for
  every channel that is still his, hands channels only to accounts that are there, and ends his
  sessions last (`Cleaning`). Where a crash or a refused append breaks that list nothing makes it good,
  which is why the property excepts them.

The invariant is `Replication`'s `IInv` (through `RP`) with the types, `LiveEqualsReplay` and
`SuccessorsExist`.

It proves further, for behaviours in which nobody drops an account:

- `OneOwner`: nodes with equal version vectors name the same owner of every account;
- `ImplementsOwnership`: `Federation` implements `Ownership`, step by step under the mapping above.

Both rest on `NamesInv`. A node's owner is one of the claims in its log (`Claimed`) and no later than any
other there (`Earliest`). That equal vectors mean equal owners needs to know where a claim can be found
after compactions: whoever wrote one has it, or an earlier one of its own, in its own log (`Vouched`) under its
present epoch (`OwnAreCurrent`), so that a vector which covers the writer covers it. `rival_drop` violates `OwnersConverge`, which is
`OwnersAgree` without that condition.

What `Ownership` promises is proved of its steps and, by the refinement, of `Federation`:

- `SettledAgree`: nodes with nothing left to learn of a name agree on its owner;
- `HeldNamesImprove`: a held name is never lost, and goes to an earlier claim only.

The invariant is that what a node holds is a claim that others may learn (`HeldIsClaimed`); with
the order on claims being total (`EarlierIsTotal`) two settled nodes cannot differ. The code compares
names of nodes where the model compares numbers; any total order does.

`LoginProofs` proves, for any names, users, passwords, tries and operations:

- `LoginTypes`: the types. The lines of interest are that a job, an exchange or a
  code always carries what its completion reads from it, that a kept code has a try
  left, and that what is queued are users;
- `RegistrationsFrozen`: nothing is registered under a freeze. A gRPC registration
  looks at the freeze again, the link's does not; it is right all the same because
  the loop reads no line that could freeze while it waits. That argument is the
  invariant `GateStands` (an awaited registration implies no freeze), which is what
  makes the property inductive, and the lemma `FreezeStep`;
- `NeverReplaced`: no completed derivation replaces an account, whichever of IRC,
  relay and gRPC started it; each completion looks at the name again;
- `SuspensionHolds`, `SessionsEnd`, `PasswordStays`: no session of a suspended account, none of an
  account that is gone, no password but its holder's. Each has a hypothesis on which operations are
  exercised together (`SuspendsInTurn`, `LoginsInTurn`, `PasswordsInTurn`, `NamesInTurn`), since
  the code does not look again when an IDENTIFY or a password change completes (`late_login`).
  They are weaker than what the instances of `login` and `outside` leave out, and say what races: an
  IDENTIFY under derivation with a suspension from outside; a login by password with an account taken
  from outside, and SCRAM, ECDSA and keycards, which log in without looking again, not at all
  beside `SessionsEnd`; a link's password change with an account that goes and comes back by gRPC. A
  password set by code or by gRPC is not checked for its holder (`PasswordsInTurn` leaves both out). The invariants are that what the job under way was checked for still stands
  (`IdentifyStands`, `LoginStands`, `ChangeStands`); `LoginMoves` sums up what a step can do to accounts,
  sessions and the link's job, so that the three proofs go through one case list.

Assumptions: finitely many users (sessions are queued one by one), at least one
try per code, `None` is not an account. `LogoutsReachIrcd` (liveness) stays with TLC.

`NicksProofs` proves, for any users, accounts and nicks:

- `TypeCorrect`;
- `TimersStayCurrent`: at most one armed rename for a uid, for the nick its user wears and was warned
  about in this visit;
- `OnlyThoseAreRenamed`: the sweep's renames are for cause and to guest nicks nobody wears.

A timer is forgotten when services see its user leave. That none outlives the visit therefore needs
that a uid is never introduced again before its QUIT has been read: `InOrder`, which the ircd keeps
and every delivery, rename and relink has to preserve. Assumptions: finitely many users, each
registered nick has an owner or none, being gone is no nick. `WarnedMoveOn` (liveness) stays with TLC.

`LogFileProofs` proves of the file under one node's log, for any number of changes, compactions and
faults:

- `TypeCorrect`;
- `DoneIsDurable`: what was reported as done is read back, unless it was glued to a line that a torn
  write left without its end, or the file is or was no UTF-8;
- `ClocksRunOn`: the Lamport clock runs on through restarts, peers' entries and compactions;
- `StampsAreOnce`: two changes are not offered to peers under one stamp, unless one was reported as failed
  or written behind a line without its end.

These are the properties `DoneIsReadBack`, `ClockRuns` and `StampsDiffer` that `services` checks of its instance
`logfile` (in `StoresReplay` and `NumbersStand`). The invariant speaks of two files with one predicate,
`FileOK`: the one there is and the one a power loss would leave. In either, what a reader understands
is in memory or was reported as failed (a ghost), and what was done and is not lost has a line of its
own with its end, to which nothing can be glued any more. The lemmas follow one write through it
(`WrittenLines`, `WrittenFile`), whatever part of it got there, and a compaction (`SnapshotIs`,
`CompactedRight`); `NextSeqIsPast` is why a stamp is new. Assumption: clocks and the bound on
compactions are numbers.

`StatusProofs` and `LiveProofs` prove what `live` checks, every invariant of it and its action
property, of `Live`: for any users, accounts, nicks, thresholds, lifetimes, limits, lists and bounds.

- `PictureIsRight` (`PictureAgrees`) and the half of `RulesAreKept` that is about `status`. Events on their way up are
  handled in order, so the last that says something of a user decides what the engine will know of
  him (`Told`); the invariant says that this is what the ircd shows, unless services changed it themselves
  (`PictureFollows`), and that who is there or has status against the rules is not judged yet, or what answers him
  is on its way down and nothing behind it undoes it (`IllicitLose`, `UnwelcomeGo`). At rest
  nothing is on its way.
- `RulesAreKept` (`RulesHold`), with the mode lock and the topic: a locked mode ends as locked, or the change against it is still
  to be judged (`LockStands`); a topic set without access is replaced by one that comes down behind it
  (`TopicBad`), and the topic will be the stored one unless one was told of by nobody with access (`TopicKept`).
- `KickerBansEnd` (`EveryBanHasItsEnd`): a banned host, or one whose ban is on its way, is waiting
  in `pending`, or its unban is on its way with no ban behind it, or it is excepted (`EndInSight`). Two bans of
  one host, a sweep between them, and a restart are what the case split is about.
- `CountsAreRight` (`CountedRight`): a speaker's counter counts his last lines, all in the window (`Counts`); a window
  holds the last hits of its key and what it let go counts no more (`WindowsShow`, `FeedKept`); what a bucket holds
  is what its client has left to use of every stretch of time (`BucketsMeet`), from which
  `Metered` follows for stretches over which the bucket was swept away as well (`Outlasted`).
- `SettingsAreKept` (`SettingsHold`): memory and disk agree in all that a restart brings back, whatever is
  refused between two appends of a command (`Agree`, kept by each store call: `Follows`); a compiled list
  is of one of the times at which its channel's name was registered, and as late as its revision says (`Current`).
- `DoneForItsCause` (`DoneForCause`): votes, REGISTER, screens, COPY. A tally's voters have voted against whoever holds the nick
  since it began (`TalliesRun`); who asked for REGISTER without holding status will not be known to hold it
  when that is answered (`AskedPlainly`).
- `TypesHold` (`TypeOK`): the types, in every scene.

Each scene has one invariant (`StatHolds`, `LockHoldsAll`, `KickHolds`, `SecHolds`, `LimitHolds`, `SettHolds`), and
`SceneSteps` reduces a step of `Live` to one of its module. Assumptions, all in `Live` and evaluated by TLC: users and speakers are
finitely many, each speaker has a nick of his own at first; thresholds are positive; bounds, windows and limits are numbers; a
command costs no more than the bucket holds; hosts are not called as the two other buckets are; `None` is none of the
data. `SecurityAssumption` has one that the configuration does not enforce: windows live no longer than an hour, at which
`src/engine/security/counter.rs:54` forgets keys ("Detector windows are all far shorter than an hour").

What a fold computes for every sequence needs an induction over data, which the prover cannot be
given as such. The lemmas in `SequenceLemmas` and the proofs about `FoldLeft` go round it: they
state the claim about prefixes of one sequence as a set of numbers that has 0 and with each number
the next (`Upwards`), for each fold anew. What `ChanSettings` needs of a compaction is stated there in
closed form (`Compacted`) rather than as a fold over the events written.

What stays with TLC: liveness (`VectorsConverge`, `LogoutsReachIrcd`, `WarnedMoveOn`), and the modules of
`services`, of which only `LogFile` is proved about.

## 5. Not modelled

`components` in `PROJECT.json` has the reason part by part. Left out on purpose: parsing and
rendering, configuration, the web panel, import and outside lookups, StatServ, DebugServ, DiceServ.
Left out though they keep state: ChanFix's scores (a sum in memory, read by one command),
confirmation codes and VOUCH, provisioning over gRPC, PROTECT and SETALL, a bot's PRIVATE
flag, the cooldowns of triggers, the incident log. In `LogFile` a rename is on disk when it
returns; that the directory is not synced after it is not modelled. The two readers of a gossip
session that may wait on each other (`src/gossip.rs:344`) are not: whether they block depends
on socket buffers. GameServ's games are lost in a restart, and are modelled up to one.

## 6. Plan

Proofs that are left: the modules of `services`. `Desks`' `QueueBounded` and `OpenKept`, `Vhosts`'
`OneOwner`, `Bans`' `InForce` and `NeverOutlasts` first; they want what `Live` is for the modules of
`live`, a composition with named variables. Their `...Replays` properties can be proved as
`SettingsAreKept` was. Models that are left: the deadlock of two gossip readers, PROTECT and SETALL,
provisioning over gRPC, the coming and going of a kicker's bot.
