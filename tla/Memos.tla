-------------------------------- MODULE Memos --------------------------------
(***************************************************************************)
(* MemoServ: mailboxes, and the log they are rebuilt from.                 *)
(*                                                                         *)
(* A command is one action; the store calls it makes are functions from    *)
(* store to store, composed in the order the code makes them.  An append   *)
(* is refused under lockdown (SET READONLY): memo_send then does nothing,  *)
(* every other call changes memory all the same.                           *)
(*                                                                         *)
(* A memo is numbered when it is sent, in the place of its text and time.  *)
(***************************************************************************)
EXTENDS Naturals, Sequences, FiniteSets, SequencesExt

CONSTANTS
    Name,          \* accounts
    None,
    MaxMemos,      \* the default limit of a mailbox (30 in the code)
    MaxIgnore,     \* the longest ignore list (50 in the code)
    MaxOps         \* bound: commands

VARIABLES
    store,         \* the memos in memory, their log, and two histories
    lockdown,      \* EventLog.readonly
    last,          \* who gave the last command, and which
    spent          \* how much of MaxOps is spent

vars == <<store, lockdown, last, spent>>

Empty == [box     |-> [a \in Name |-> <<>>],
          ignored |-> [a \in Name |-> {}],
          limit   |-> [a \in Name |-> None]]

\* Mutant: numbered from one.
Memo_after(id, from, receipt) == [id |-> id + 1, from |-> from, receipt |-> receipt, read |-> FALSE]

Memo(id, from, receipt) == [id |-> id, from |-> from, receipt |-> receipt, read |-> FALSE]

LimitOf(mem, a) == IF mem.limit[a] = None THEN MaxMemos ELSE mem.limit[a]

-----------------------------------------------------------------------------
(* The fold of one event. *)

Push(mem, a, memo) == [mem EXCEPT !.box[a] = Append(@, memo)]

MarkRead(mem, a, i) == IF i \in DOMAIN mem.box[a] THEN [mem EXCEPT !.box[a][i].read = TRUE] ELSE mem

Drop(mem, a, i) == IF i \in DOMAIN mem.box[a] THEN [mem EXCEPT !.box[a] = RemoveAt(@, i)] ELSE mem

\* The fold, unlike the live memo_send, keeps a mailbox to its limit.
apply(mem, e) ==
    CASE e.type = "sent"     -> IF Len(mem.box[e.to]) < LimitOf(mem, e.to) THEN Push(mem, e.to, e.memo) ELSE mem
      [] e.type = "read"     -> MarkRead(mem, e.to, e.index)
      [] e.type = "deleted"  -> Drop(mem, e.to, e.index)
      [] e.type = "ignore"   -> [mem EXCEPT !.ignored[e.to] = @ \cup {e.target}]
      [] e.type = "unignore" -> [mem EXCEPT !.ignored[e.to] = @ \ {e.target}]
      [] e.type = "limit"    -> [mem EXCEPT !.limit[e.to] = e.limit]
      [] e.type = "snapshot" -> e.mem

Replay(log) == FoldLeft(apply, Empty, log)

-----------------------------------------------------------------------------
(* Store calls. *)

\* A call that ignores whether its append was refused.
Lenient(st, mem, e) ==
    IF lockdown THEN [st EXCEPT !.mem = mem, !.drifted = TRUE]
                ELSE [st EXCEPT !.mem = mem, !.log = Append(@, e)]

\* Appends, then pushes; the limit is its callers' business.
memo_send(st, a, from, receipt) ==
    IF lockdown THEN st
    ELSE LET memo == Memo(st.serial, from, receipt)
         IN  [st EXCEPT !.log = Append(@, [type |-> "sent", to |-> a, memo |-> memo]),
                        !.mem = Push(@, a, memo),
                        !.serial = @ + 1,
                        !.drifted = @ \/ Len(st.mem.box[a]) >= LimitOf(st.mem, a),
                        !.overfull = @ \/ Len(st.mem.box[a]) >= LimitOf(st.mem, a)]

\* Mutant: a memo is marked in memory only.
memo_read_silent(st, a, i) ==
    IF i \notin DOMAIN st.mem.box[a] THEN st ELSE [st EXCEPT !.mem = MarkRead(@, a, i)]

memo_read(st, a, i) ==
    IF i \notin DOMAIN st.mem.box[a] \/ st.mem.box[a][i].read THEN st
    ELSE Lenient(st, MarkRead(st.mem, a, i), [type |-> "read", to |-> a, index |-> i])

memo_del(st, a, i) ==
    IF i \notin DOMAIN st.mem.box[a] THEN st
    ELSE Lenient(st, Drop(st.mem, a, i), [type |-> "deleted", to |-> a, index |-> i])

\* Mutant: the last memo is recalled, read or not.
memo_cancel_read(st, a, sender) ==
    memo_del(st, a, SelectLastInSeq(st.mem.box[a], LAMBDA m : m.from = sender))

\* The last unread memo of the sender's; 0, no index, if there is none.
memo_cancel(st, a, sender) ==
    memo_del(st, a, SelectLastInSeq(st.mem.box[a], LAMBDA m : ~m.read /\ m.from = sender))

\* Mutant: whether the memo was read before is not looked at.
send_receipt_again(st, memo) ==
    IF memo.receipt /\ ~lockdown
    THEN memo_send([st EXCEPT !.receipts = Append(@, memo.id)], memo.from, None, FALSE)
    ELSE st

\* MemoServ tells the sender of an RSEND, the first time it is read; `memo` is
\* as it was before it was read. Under lockdown the receipt is refused as any memo.
send_receipt(st, memo) ==
    IF memo.receipt /\ ~memo.read /\ ~lockdown
    THEN memo_send([st EXCEPT !.receipts = Append(@, memo.id)], memo.from, None, FALSE)
    ELSE st

-----------------------------------------------------------------------------
(* Commands. *)

Command(a, op) == spent < MaxOps /\ spent' = spent + 1 /\ last' = [who |-> a, op |-> op]

\* SEND and RSEND: refused if the mailbox is full, dropped without a word if
\* the sender is ignored.
Send(a, to, receipt) ==
    /\ Command(a, "send")
    /\ Len(store.mem.box[to]) < LimitOf(store.mem, to)
    /\ a \notin store.mem.ignored[to]
    /\ store' = memo_send(store, to, a, receipt)
    /\ UNCHANGED lockdown

\* SENDALL and STAFF: a memo to every account of a list, full or not; so is
\* the memo that tells an account of what was done to it (notify_or_memo).
SendAll(a, names) ==
    /\ Command(a, "sendall")
    /\ store' = FoldLeft(LAMBDA st, to : memo_send(st, to, a, FALSE), store, names)
    /\ UNCHANGED lockdown

\* READ <num>, NEW and ALL: the memos are listed first, then read one by one,
\* each with its receipt.
Read(a, indices) ==
    /\ Command(a, "read")
    /\ indices # <<>>
    /\ store' = FoldLeft(LAMBDA st, i : send_receipt(memo_read(st, a, i), st.mem.box[a][i]),
                         store, indices)
    /\ UNCHANGED lockdown

New(a) == SelectSeq([i \in DOMAIN store.mem.box[a] |-> i], LAMBDA i : ~store.mem.box[a][i].read)

All(a) == [i \in DOMAIN store.mem.box[a] |-> i]

\* DEL <num>.
Del(a, i) ==
    /\ Command(a, "del")
    /\ i \in DOMAIN store.mem.box[a]
    /\ store' = memo_del(store, a, i)
    /\ UNCHANGED lockdown

\* Mutant: from the front, with the indices of before.
Backwards_forwards(a) == All(a)

\* From the end, so that the indices stay valid.
Backwards(a) == Reverse(All(a))

\* DEL ALL.
DelAll(a) ==
    /\ Command(a, "delall")
    /\ store' = FoldLeft(LAMBDA st, i : memo_del(st, a, i), store, Backwards(a))
    /\ UNCHANGED lockdown

\* CANCEL.
Cancel(a, to) ==
    /\ Command(a, "cancel")
    /\ store' = memo_cancel(store, to, a)
    /\ UNCHANGED lockdown

\* IGNORE ADD and DEL.
Ignore(a, target) ==
    /\ Command(a, "ignore")
    /\ Cardinality(store.mem.ignored[a]) < MaxIgnore
    /\ target \notin store.mem.ignored[a]
    /\ store' = Lenient(store, [store.mem EXCEPT !.ignored[a] = @ \cup {target}],
                        [type |-> "ignore", to |-> a, target |-> target])
    /\ UNCHANGED lockdown

Unignore(a, target) ==
    /\ Command(a, "ignore")
    /\ target \in store.mem.ignored[a]
    /\ store' = Lenient(store, [store.mem EXCEPT !.ignored[a] = @ \ {target}],
                        [type |-> "unignore", to |-> a, target |-> target])
    /\ UNCHANGED lockdown

\* SET LIMIT (NOTIFY shares its event).
SetLimit(a, limit) ==
    /\ Command(a, "limit")
    /\ store' = Lenient(store, [store.mem EXCEPT !.limit[a] = limit],
                        [type |-> "limit", to |-> a, limit |-> limit])
    /\ UNCHANGED lockdown

\* OperServ SET READONLY.
SetReadonly ==
    /\ Command(None, "readonly")
    /\ lockdown' = ~lockdown
    /\ UNCHANGED store

\* The accounts are snapshot whole, whatever their mailboxes hold.
Compact ==
    /\ Command(None, "compact")
    /\ store' = [store EXCEPT !.log = <<[type |-> "snapshot", mem |-> store.mem]>>, !.drifted = FALSE]
    /\ UNCHANGED lockdown

Restart ==
    /\ Command(None, "restart")
    /\ store' = [store EXCEPT !.mem = Replay(store.log), !.drifted = FALSE]
    /\ lockdown' = FALSE

-----------------------------------------------------------------------------
Init ==
    /\ store = [mem |-> Empty, log |-> <<>>, serial |-> 0, receipts |-> <<>>,
                 drifted |-> FALSE, overfull |-> FALSE]
    /\ lockdown = FALSE
    /\ last = [who |-> None, op |-> "start"]
    /\ spent = 0

Next ==
    \/ \E a, to \in Name, receipt \in BOOLEAN : Send(a, to, receipt)
    \/ \E a, to \in Name : Cancel(a, to) \/ Ignore(a, to) \/ Unignore(a, to) \/ SendAll(a, <<to>>)
    \/ \E a \in Name : \/ Read(a, New(a)) \/ Read(a, All(a)) \/ DelAll(a)
                       \/ \E i \in DOMAIN store.mem.box[a] : Read(a, <<i>>) \/ Del(a, i)
                       \/ \E limit \in {None, 0, 1} : SetLimit(a, limit)
    \/ SetReadonly \/ Compact \/ Restart

Spec == Init /\ [][Next]_vars

-----------------------------------------------------------------------------
(* Properties. *)

\* Numbers, limits and mailboxes have their types.
TypeOK ==
    /\ lockdown \in BOOLEAN
    /\ store.mem.ignored \in [Name -> SUBSET Name]
    /\ store.mem.limit \in [Name -> 0..MaxMemos \cup {None}]
    /\ \A a \in Name : \A i \in DOMAIN store.mem.box[a] :
         /\ store.mem.box[a][i] \in [id : 0..store.serial, from : Name \cup {None},
                                     receipt : BOOLEAN, read : BOOLEAN]
         /\ store.mem.box[a][i].id < store.serial

Ids(a) == {store.mem.box[a][i].id : i \in DOMAIN store.mem.box[a]}

\* A restart brings back the mailboxes as they were, with their indices
\* (which later events rely on), until a command is carried out under lockdown
\* or a memo is sent past a mailbox's limit.
MailboxReplays == ~store.drifted => Replay(store.log) = store.mem

\* As the fold's comment has it: "Local sends are already capped before the
\* event is logged, so this is a no-op on replay".
FoldDropsNothing == last.op # "readonly" => Replay(store.log) = store.mem

\* An RSEND is answered with at most one receipt, however often it is read and
\* whatever restarts come between, unless a mailbox was overfilled (its replay
\* then forgets what was read).
OneReceipt == ~store.overfull => IsInjective(store.receipts)

\* Only the owner's commands take away a memo that was read, or somebody
\* else's: CANCEL recalls the sender's own, unread.
RecallUnreadOnly ==
    \A a \in Name : last'.op = "cancel" =>
      \A i \in DOMAIN store.mem.box[a] :
         store.mem.box[a][i].id \notin Ids(a)' =>
             ~store.mem.box[a][i].read /\ store.mem.box[a][i].from = last'.who

\* DEL ALL leaves nothing, wherever the indices move meanwhile.
DelAllEmpties == last'.op = "delall" => store'.mem.box[last'.who] = <<>>
=============================================================================
