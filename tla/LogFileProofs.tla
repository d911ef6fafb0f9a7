--------------------------- MODULE LogFileProofs ---------------------------
(***************************************************************************)
(* Proofs about the file under the event log, for any number of changes,   *)
(* compactions and faults: what was reported as done is read back, clocks  *)
(* run on and stamps are not given twice, whatever is written half, lost   *)
(* with a crash or rewritten by a compaction.                              *)
(*                                                                         *)
(* The invariant relates each of the two files there may be, the present   *)
(* one and what a power loss leaves of it, to what is in memory: a file is *)
(* never ahead of memory but for ghosts, and has all that was reported as  *)
(* done on lines of its own that nothing can be glued to any more.         *)
(***************************************************************************)
EXTENDS LogFile, SequenceLemmas

\* Clocks are numbers, and so is the bound on compactions.
Sorts == PeerClocks \subseteq Nat /\ MaxEpoch \in Nat

Entry == [change : Nat, own : BOOLEAN, global : BOOLEAN, epoch : 0..MaxEpoch, seq : Nat, clock : Nat]
Text == {"whole", "torn", "cut"}
Line == Seq([entry : Entry, text : Text])
Stamp == [epoch : Nat, seq : Nat, change : Nat]

Shape(f) ==
    /\ f \in [lines : Seq(Line), ended : BOOLEAN]
    /\ \A i \in 1..Len(f.lines) : Len(f.lines[i]) >= 1
    /\ f.ended \/ Len(f.lines) >= 1

\* The entry that open reads from the i-th line, if it is whole.
At(f, i) == f.lines[i][1].entry

Finished(f, i) == i < Len(f.lines) \/ f.ended

\* Each change is on one line; what open would read is in memory or was
\* reported as failed; what was done and is not lost is on a line with its end;
\* and clocks run on from line to line.
Reads(f, s, done, lost, g) ==
    /\ \A i, j \in 1..Len(f.lines) :
         Whole(f.lines[i]) /\ Whole(f.lines[j]) /\ At(f, i).change = At(f, j).change => i = j
    /\ \A i \in 1..Len(f.lines) :
         Whole(f.lines[i]) => At(f, i).change \in g \/ \E k \in 1..Len(s) : s[k] = At(f, i)
    /\ \A c \in done \ lost : \E i \in 1..Len(f.lines) :
         Whole(f.lines[i]) /\ Finished(f, i) /\ At(f, i).change = c
    /\ \A i, j \in 1..Len(f.lines) :
         /\ i < j /\ Whole(f.lines[i]) /\ Whole(f.lines[j])
         /\ At(f, j).own /\ At(f, j).global /\ At(f, i).change \notin g
         => At(f, i).clock < At(f, j).clock

\* A file f beside the entries s in memory, of n changes.
FileOK(f, s, done, lost, g, n) ==
    /\ Shape(f)
    /\ \A i \in 1..Len(f.lines) : \A k \in 1..Len(f.lines[i]) : f.lines[i][k].entry.change \in 1..n
    /\ Readable(f) => Reads(f, s, done, lost, g)

\* What is in memory: each change once, done or a ghost; all that is done and
\* not lost; with clocks and epochs that stay behind the counters.
Known(s, lam, ep, done, lost, g, n) ==
    /\ s \in Seq(Entry) /\ lam \in Nat /\ ep \in 0..MaxEpoch /\ n \in Nat
    /\ done \cup lost \cup g \subseteq 1..n
    /\ \A i, j \in 1..Len(s) : s[i].change = s[j].change => i = j
    /\ \A i \in 1..Len(s) : s[i].change \in done \cup g
    /\ \A c \in done : c \in lost \/ \E i \in 1..Len(s) : s[i].change = c
    /\ \A i \in 1..Len(s) : s[i].clock <= lam /\ (s[i].own => s[i].epoch <= ep)
    /\ \A i, j \in 1..Len(s) :
         i < j /\ s[j].own /\ s[j].global /\ s[i].change \notin g => s[i].clock < s[j].clock

\* A change is offered under the stamp it has, or had before a compaction.
Follows(x, e) ==
    /\ e.own /\ e.global
    /\ x.epoch < e.epoch \/ (x.epoch = e.epoch /\ x.seq = e.seq)

\* What was offered under one stamp for two changes is a ghost, or was lost and
\* is not in memory either, where a compaction would make it good.
Stamped(s, done, lost, g, o) ==
    /\ o \subseteq Stamp
    /\ \A x \in o : x.change \in done \cup g
    /\ Offers(s) \subseteq o
    /\ \A x \in o : x.change \notin g =>
         \A i \in 1..Len(s) : s[i].change = x.change => Follows(x, s[i])
    /\ \A x, y \in o :
         x.epoch = y.epoch /\ x.seq = y.seq /\ x.change # y.change =>
           \E c \in {x.change, y.change} :
              c \in g \/ (c \in lost /\ \A i \in 1..Len(s) : s[i].change # c)

IInv ==
    /\ FileOK(file, entries, acked, torn, ghosts, changes)
    /\ FileOK(synced, entries, acked, torn, ghosts, changes)
    /\ Known(entries, lamport, epoch, acked, torn, ghosts, changes)
    /\ Stamped(entries, acked, torn, ghosts, offered)
    /\ handle \in {"none", "current"}

-----------------------------------------------------------------------------
(* Reading a file. *)

\* What open reads are the whole lines of a file, in their order.
LEMMA ParsedReads ==
    ASSUME NEW f, Shape(f), Readable(f)
    PROVE  /\ Parsed(f) \in Seq(Entry)
           /\ \E src \in [1..Len(Parsed(f)) -> Nat] :
                /\ \A k \in 1..Len(Parsed(f)) :
                     /\ src[k] \in 1..Len(f.lines) /\ Whole(f.lines[src[k]])
                     /\ Parsed(f)[k] = At(f, src[k])
                /\ \A k, l \in 1..Len(Parsed(f)) : k < l => src[k] < src[l]
           /\ \A i \in 1..Len(f.lines) : Whole(f.lines[i]) =>
                \E k \in 1..Len(Parsed(f)) : Parsed(f)[k] = At(f, i)
<1> DEFINE seqs == [i \in DOMAIN f.lines |-> Understood(f.lines[i])]
           p == FlattenSeq(seqs)
<1>1. f.lines \in Seq(Line) /\ DOMAIN f.lines = 1..Len(f.lines) /\ Len(f.lines) \in Nat
  BY DEF Shape
<1>2. \A i \in 1..Len(f.lines) :
        /\ Whole(f.lines[i]) => At(f, i) \in Entry /\ Understood(f.lines[i]) = <<At(f, i)>>
        /\ ~Whole(f.lines[i]) => Understood(f.lines[i]) = <<>>
  <2> SUFFICES ASSUME NEW i \in 1..Len(f.lines)
               PROVE  /\ Whole(f.lines[i]) => At(f, i) \in Entry /\ Understood(f.lines[i]) = <<At(f, i)>>
                      /\ ~Whole(f.lines[i]) => Understood(f.lines[i]) = <<>>
    OBVIOUS
  <2>1. f.lines[i] \in Seq([entry : Entry, text : Text])
    BY <1>1 DEF Line
  <2>2. Whole(f.lines[i]) => f.lines[i][1] \in [entry : Entry, text : Text]
    <3>1. Whole(f.lines[i]) => Len(f.lines[i]) = 1
      BY DEF Whole
    <3>2. ASSUME NEW T, NEW t \in Seq(T), Len(t) = 1 PROVE t[1] \in T
      BY ONLY <3>2
    <3> QED BY <2>1, <3>1, <3>2
  <2> QED BY <2>2 DEF Whole, Understood, At
<1>3. seqs \in Seq(Seq(Entry)) /\ Len(seqs) = Len(f.lines)
      /\ \A i \in 1..Len(f.lines) : seqs[i] = Understood(f.lines[i])
  <2>1. ASSUME NEW i \in 1..Len(f.lines) PROVE Understood(f.lines[i]) \in Seq(Entry)
    <3>1. CASE Whole(f.lines[i])
      <4>1. At(f, i) \in Entry /\ Understood(f.lines[i]) = <<At(f, i)>>
        BY <1>2, <3>1
      <4> QED BY <4>1
    <3>2. CASE ~Whole(f.lines[i])
      <4>1. Understood(f.lines[i]) = <<>>
        BY <3>2 DEF Understood
      <4> QED BY <4>1
    <3> QED BY <3>1, <3>2
  <2>2. seqs \in [1..Len(f.lines) -> Seq(Entry)]
    BY <1>1, <2>1
  <2> QED BY <1>1, <2>2
<1>4. Parsed(f) = p
  BY DEF Parsed
<1> HIDE DEF seqs
<1>5. p \in Seq(Entry) /\ \E src, pos \in [1..Len(p) -> Nat] : ReadFrom(p, seqs, src, pos) /\ RunsOn(p, src, pos)
  BY <1>3, FlattenInOrder
<1>6. \A i \in 1..Len(seqs) : \A j \in 1..Len(seqs[i]) : \E k \in 1..Len(p) : p[k] = seqs[i][j]
  BY <1>3, FlattenHas
<1> HIDE DEF p
<1>7. PICK src \in [1..Len(p) -> Nat], pos \in [1..Len(p) -> Nat] :
         ReadFrom(p, seqs, src, pos) /\ RunsOn(p, src, pos)
  BY <1>5
<1>8. \A k \in 1..Len(p) : /\ src[k] \in 1..Len(f.lines) /\ Whole(f.lines[src[k]])
                           /\ p[k] = At(f, src[k]) /\ pos[k] = 1
  <2> SUFFICES ASSUME NEW k \in 1..Len(p)
               PROVE  /\ src[k] \in 1..Len(f.lines) /\ Whole(f.lines[src[k]])
                      /\ p[k] = At(f, src[k]) /\ pos[k] = 1
    OBVIOUS
  <2>1. src[k] \in 1..Len(f.lines) /\ pos[k] \in 1..Len(seqs[src[k]]) /\ p[k] = seqs[src[k]][pos[k]]
    BY <1>3, <1>7 DEF ReadFrom
  <2>2. seqs[src[k]] = Understood(f.lines[src[k]])
    BY <1>3, <2>1
  <2>3. Whole(f.lines[src[k]])
    BY <1>2, <2>1, <2>2
  <2>4. seqs[src[k]] = <<At(f, src[k])>>
    BY <1>2, <2>1, <2>2, <2>3
  <2> QED BY <2>1, <2>3, <2>4
<1>9. \A k, l \in 1..Len(p) : k < l => src[k] < src[l]
  BY <1>7, <1>8 DEF RunsOn
<1>10. \A i \in 1..Len(f.lines) : Whole(f.lines[i]) => \E k \in 1..Len(p) : p[k] = At(f, i)
  <2> SUFFICES ASSUME NEW i \in 1..Len(f.lines), Whole(f.lines[i])
               PROVE  \E k \in 1..Len(p) : p[k] = At(f, i)
    OBVIOUS
  <2>1. i \in 1..Len(seqs) /\ seqs[i] = <<At(f, i)>>
    BY <1>2, <1>3
  <2>2. 1 \in 1..Len(seqs[i]) /\ seqs[i][1] = At(f, i)
    BY <2>1
  <2> QED BY <1>6, <2>1, <2>2
<1> QED BY <1>4, <1>5, <1>8, <1>9, <1>10

\* Nothing is read from a file that is not UTF-8.
LEMMA ParsedNothing == ASSUME NEW f, ~Readable(f) PROVE Parsed(f) = <<>>
BY DEF Parsed

-----------------------------------------------------------------------------
(* Writing to a file. *)

\* Where a piece comes to stand.
LEMMA PutLines ==
    ASSUME NEW f, Shape(f), NEW x \in [entry : Entry, text : Text], NEW nl \in BOOLEAN
    PROVE  /\ Shape(Put(f, x, nl)) /\ Put(f, x, nl).ended = nl
           /\ Len(f.lines) \in Nat
           /\ f.ended =>
                /\ Len(Put(f, x, nl).lines) = Len(f.lines) + 1
                /\ \A i \in 1..Len(f.lines) : Put(f, x, nl).lines[i] = f.lines[i]
                /\ Put(f, x, nl).lines[Len(f.lines) + 1] = <<x>>
           /\ ~f.ended =>
                /\ Len(f.lines) >= 1 /\ Len(Put(f, x, nl).lines) = Len(f.lines)
                /\ \A i \in 1..(Len(f.lines) - 1) : Put(f, x, nl).lines[i] = f.lines[i]
                /\ f.lines[Len(f.lines)] \in Line
                /\ Put(f, x, nl).lines[Len(f.lines)] = Append(f.lines[Len(f.lines)], x)
<1> DEFINE h == Put(f, x, nl)
           L == Len(f.lines)
<1>1. f.lines \in Seq(Line) /\ L \in Nat /\ f.ended \in BOOLEAN
      /\ (\A i \in 1..L : f.lines[i] \in Line /\ Len(f.lines[i]) >= 1) /\ (f.ended \/ L >= 1)
  BY DEF Shape
<1>2. CASE f.ended
  <2>1. h = [lines |-> Append(f.lines, <<x>>), ended |-> nl]
    BY <1>2 DEF Put
  <2>2. <<x>> \in Line /\ Len(<<x>>) = 1
    BY DEF Line
  <2>3. /\ h.lines \in Seq(Line) /\ Len(h.lines) = L + 1
        /\ \A i \in 1..L : h.lines[i] = f.lines[i]
        /\ h.lines[L + 1] = <<x>>
    BY <1>1, <2>1, <2>2
  <2>4. ASSUME NEW i \in 1..(L + 1) PROVE Len(h.lines[i]) >= 1
    <3>1. CASE i \in 1..L
      BY <1>1, <2>3, <3>1
    <3>2. CASE i = L + 1
      <4>1. h.lines[i] = <<x>>
        BY <2>3, <3>2
      <4> QED BY ONLY <2>2, <4>1
    <3> QED BY <1>1, <3>1, <3>2
  <2>5. Shape(h) /\ h.ended = nl
    BY <1>1, <2>1, <2>3, <2>4 DEF Shape
  <2> QED BY <1>1, <1>2, <2>3, <2>5
<1>3. CASE ~f.ended
  <2>1. h = [lines |-> [f.lines EXCEPT ![L] = Append(@, x)], ended |-> nl] /\ L \in 1..L
    BY <1>1, <1>3 DEF Put
  <2>2. Append(f.lines[L], x) \in Line /\ Len(Append(f.lines[L], x)) >= 1
    BY <1>1, <2>1 DEF Line
  <2>3. /\ h.lines \in Seq(Line) /\ Len(h.lines) = L
        /\ \A i \in 1..(L - 1) : h.lines[i] = f.lines[i]
        /\ h.lines[L] = Append(f.lines[L], x)
    BY <1>1, <2>1, <2>2
  <2>4. \A i \in 1..L : Len(h.lines[i]) >= 1
    BY <1>1, <2>1, <2>2, <2>3
  <2>5. Shape(h) /\ h.ended = nl
    BY <1>1, <2>1, <2>3, <2>4 DEF Shape
  <2> QED BY <1>1, <1>3, <2>1, <2>3, <2>5
<1> QED BY <1>1, <1>2, <1>3

\* The pieces of h are those of f, where they were, and x.
Pieces(f, x, h) ==
    /\ \A i \in 1..Len(h.lines) : \A k \in 1..Len(h.lines[i]) :
         \/ h.lines[i][k] = x
         \/ i \in 1..Len(f.lines) /\ k \in 1..Len(f.lines[i]) /\ h.lines[i][k] = f.lines[i][k]
    /\ \A i \in 1..Len(f.lines) : \A k \in 1..Len(f.lines[i]) :
         i \in 1..Len(h.lines) /\ k \in 1..Len(h.lines[i]) /\ h.lines[i][k] = f.lines[i][k]
    /\ \E i \in 1..Len(h.lines) : \E k \in 1..Len(h.lines[i]) : h.lines[i][k] = x

\* A write adds its piece and leaves the others.
LEMMA WrittenPieces ==
    ASSUME NEW f, Shape(f), NEW x \in [entry : Entry, text : Text], NEW nl \in BOOLEAN,
           NEW h, h = Put(f, x, nl)
    PROVE  Pieces(f, x, h)
<1> DEFINE L == Len(f.lines)
<1>1. /\ L \in Nat
      /\ f.ended =>
           /\ Len(h.lines) = L + 1
           /\ \A i \in 1..L : h.lines[i] = f.lines[i]
           /\ h.lines[L + 1] = <<x>>
      /\ ~f.ended =>
           /\ L >= 1 /\ Len(h.lines) = L
           /\ \A i \in 1..(L - 1) : h.lines[i] = f.lines[i]
           /\ f.lines[L] \in Line /\ h.lines[L] = Append(f.lines[L], x)
  BY PutLines
<1>2. Len(<<x>>) = 1 /\ <<x>>[1] = x
  OBVIOUS
<1>3. CASE f.ended
  <2>1. ASSUME NEW i \in 1..Len(h.lines), NEW k \in 1..Len(h.lines[i])
        PROVE  \/ h.lines[i][k] = x
               \/ i \in 1..L /\ k \in 1..Len(f.lines[i]) /\ h.lines[i][k] = f.lines[i][k]
    <3>1. CASE i \in 1..L
      BY <1>1, <1>3, <2>1, <3>1
    <3>2. CASE i = L + 1
      <4>1. h.lines[i] = <<x>>
        BY <1>1, <1>3, <3>2
      <4>2. k = 1
        BY <1>2, <2>1, <4>1
      <4> QED BY <1>2, <4>1, <4>2
    <3> QED BY <1>1, <1>3, <2>1, <3>1, <3>2
  <2>2. \A i \in 1..L : i \in 1..Len(h.lines) /\ h.lines[i] = f.lines[i]
    BY <1>1, <1>3
  <2>3. \E i \in 1..Len(h.lines) : \E k \in 1..Len(h.lines[i]) : h.lines[i][k] = x
    <3>1. L + 1 \in 1..Len(h.lines) /\ h.lines[L + 1] = <<x>>
      BY <1>1, <1>3
    <3>2. 1 \in 1..Len(h.lines[L + 1]) /\ h.lines[L + 1][1] = x
      BY <1>2, <3>1
    <3> QED BY <3>1, <3>2
  <2> HIDE DEF L
  <2> QED BY <2>1, <2>2, <2>3 DEF L, Pieces
<1>4. CASE ~f.ended
  <2>0. /\ Len(f.lines[L]) \in Nat /\ Len(h.lines[L]) = Len(f.lines[L]) + 1
        /\ \A k \in 1..Len(f.lines[L]) : h.lines[L][k] = f.lines[L][k]
        /\ h.lines[L][Len(f.lines[L]) + 1] = x
    <3>1. f.lines[L] \in Seq([entry : Entry, text : Text]) /\ h.lines[L] = Append(f.lines[L], x)
      BY <1>1, <1>4 DEF Line
    <3> QED BY <3>1
  <2>1. ASSUME NEW i \in 1..Len(h.lines), NEW k \in 1..Len(h.lines[i])
        PROVE  \/ h.lines[i][k] = x
               \/ i \in 1..L /\ k \in 1..Len(f.lines[i]) /\ h.lines[i][k] = f.lines[i][k]
    <3>1. CASE i \in 1..(L - 1)
      BY <1>1, <1>4, <2>1, <3>1
    <3>2. CASE i = L
      <4>1. k \in 1..(Len(f.lines[L]) + 1)
        BY <2>0, <2>1, <3>2
      <4> QED BY <1>1, <1>4, <2>0, <3>2, <4>1
    <3> QED BY <1>1, <1>4, <2>1, <3>1, <3>2
  <2>2. ASSUME NEW i \in 1..L, NEW k \in 1..Len(f.lines[i])
        PROVE  i \in 1..Len(h.lines) /\ k \in 1..Len(h.lines[i]) /\ h.lines[i][k] = f.lines[i][k]
    <3>1. CASE i \in 1..(L - 1)
      BY <1>1, <1>4, <2>2, <3>1
    <3>2. CASE i = L
      BY <1>1, <1>4, <2>0, <2>2, <3>2
    <3> QED BY <1>1, <1>4, <2>2, <3>1, <3>2
  <2>3. L \in 1..Len(h.lines) /\ Len(h.lines[L]) \in 1..Len(h.lines[L]) /\ h.lines[L][Len(h.lines[L])] = x
    BY <1>1, <1>4, <2>0
  <2> QED BY <2>1, <2>2, <2>3 DEF Pieces
<1> QED BY <1>3, <1>4

\* A piece makes no more of a file than a line of its own, if it is whole and
\* the last line had its end; and leaves what is finished as it was.
LEMMA WrittenLines ==
    ASSUME NEW f, Shape(f), NEW x \in [entry : Entry, text : Text], NEW nl \in BOOLEAN,
           NEW h, h = Put(f, x, nl)
    PROVE  /\ \A i \in 1..Len(h.lines) : Whole(h.lines[i]) =>
                \/ i \in 1..Len(f.lines) /\ Whole(f.lines[i]) /\ At(h, i) = At(f, i)
                \/ i = Len(f.lines) + 1 /\ f.ended /\ x.text = "whole" /\ At(h, i) = x.entry
           /\ \A i \in 1..Len(f.lines) : Whole(f.lines[i]) /\ Finished(f, i) =>
                /\ i \in 1..Len(h.lines) /\ Whole(h.lines[i])
                /\ Finished(h, i) /\ At(h, i) = At(f, i)
           /\ f.ended /\ x.text = "whole" =>
                /\ Len(h.lines) = Len(f.lines) + 1 /\ Whole(h.lines[Len(f.lines) + 1])
                /\ At(h, Len(f.lines) + 1) = x.entry
<1> DEFINE L == Len(f.lines)
<1>1. /\ L \in Nat
      /\ f.ended =>
           /\ Len(h.lines) = L + 1
           /\ \A i \in 1..L : h.lines[i] = f.lines[i]
           /\ h.lines[L + 1] = <<x>>
      /\ ~f.ended =>
           /\ L >= 1 /\ Len(h.lines) = L
           /\ \A i \in 1..(L - 1) : h.lines[i] = f.lines[i]
           /\ f.lines[L] \in Line /\ h.lines[L] = Append(f.lines[L], x)
  BY PutLines
<1>2. Len(<<x>>) = 1 /\ <<x>>[1] = x
  OBVIOUS
<1>3. Whole(<<x>>) <=> x.text = "whole"
  BY <1>2 DEF Whole
<1>4. CASE f.ended
  <2>1. ASSUME NEW i \in 1..Len(h.lines), Whole(h.lines[i])
        PROVE  \/ i \in 1..L /\ Whole(f.lines[i]) /\ At(h, i) = At(f, i)
               \/ i = L + 1 /\ x.text = "whole" /\ At(h, i) = x.entry
    <3>1. CASE i \in 1..L
      BY <1>1, <1>4, <2>1, <3>1 DEF At
    <3>2. CASE i = L + 1
      BY <1>1, <1>2, <1>3, <1>4, <2>1, <3>2 DEF At
    <3> QED BY <1>1, <1>4, <2>1, <3>1, <3>2
  <2>2. ASSUME NEW i \in 1..L, Whole(f.lines[i])
        PROVE  /\ i \in 1..Len(h.lines) /\ Whole(h.lines[i])
               /\ Finished(h, i) /\ At(h, i) = At(f, i)
    <3>1. h.lines[i] = f.lines[i] /\ i \in 1..Len(h.lines) /\ i < Len(h.lines)
      BY <1>1, <1>4, <2>2
    <3> QED BY <2>2, <3>1 DEF At, Finished
  <2>3. x.text = "whole" => Whole(h.lines[L + 1]) /\ At(h, L + 1) = x.entry
    BY <1>1, <1>2, <1>3, <1>4 DEF At
  <2> QED BY <1>1, <1>4, <2>1, <2>2, <2>3
<1>5. CASE ~f.ended
  <2>0. Shape(f)
    OBVIOUS
  <2>1. ~Whole(h.lines[L])
    <3>1. f.lines[L] \in Line /\ Len(f.lines[L]) >= 1
      BY <1>1, <1>5 DEF Shape
    <3>2. Len(Append(f.lines[L], x)) = Len(f.lines[L]) + 1 /\ Len(f.lines[L]) \in Nat
      BY <3>1 DEF Line
    <3> QED BY <1>1, <1>5, <3>1, <3>2 DEF Whole
  <2>2. \A i \in 1..Len(h.lines) : i # L => i \in 1..(L - 1) /\ i \in 1..L
    BY <1>1, <1>5
  <2>3. \A i \in 1..L : Finished(f, i) => i \in 1..(L - 1) /\ i \in 1..Len(h.lines) /\ Finished(h, i)
    BY <1>1, <1>5 DEF Finished
  <2> QED BY <1>1, <1>5, <2>1, <2>2, <2>3 DEF At
<1> QED BY <1>4, <1>5

\* A write of the next change, cut short or not, keeps FileOK: a line of its own
\* is in memory or a ghost, its clock is past, and what is done and not lost
\* besides has its end.
LEMMA WrittenFile ==
    ASSUME NEW s \in Seq(Entry), NEW s2 \in Seq(Entry), NEW n \in Nat,
           NEW done, NEW done2, NEW lost, NEW lost2, NEW g, NEW g2,
           NEW f, FileOK(f, s, done, lost, g, n),
           NEW e \in Entry, e.change = n + 1,
           NEW text \in Text, NEW nl \in BOOLEAN,
           NEW h, h = Put(f, Piece(e, text), nl),
           \A k \in 1..Len(s) : k \in 1..Len(s2) /\ s2[k] = s[k],
           text = "whole" /\ f.ended /\ Readable(h) => n + 1 \in g2 \/ \E k \in 1..Len(s2) : s2[k] = e,
           g \subseteq g2,
           \A c \in done2 \ lost2 : c \in done \ lost \/ (c = n + 1 /\ f.ended /\ text = "whole" /\ nl),
           e.own /\ e.global => \A k \in 1..Len(s) : s[k].clock < e.clock
    PROVE  FileOK(h, s2, done2, lost2, g2, n + 1)
<1> DEFINE x == Piece(e, text)
           L == Len(f.lines)
<1>0. x \in [entry : Entry, text : Text] /\ x.entry = e /\ x.text = text /\ h = Put(f, x, nl)
  BY DEF Piece
<1>1. Shape(f) /\ (Readable(f) => Reads(f, s, done, lost, g))
      /\ \A i \in 1..L : \A k \in 1..Len(f.lines[i]) : f.lines[i][k].entry.change \in 1..n
  BY DEF FileOK
<1> HIDE DEF x
<1>2. Shape(h) /\ h.ended = nl /\ L \in Nat
  BY <1>0, <1>1, PutLines
<1>3. /\ \A i \in 1..Len(h.lines) : \A k \in 1..Len(h.lines[i]) :
           \/ h.lines[i][k] = x
           \/ i \in 1..L /\ k \in 1..Len(f.lines[i]) /\ h.lines[i][k] = f.lines[i][k]
      /\ \A i \in 1..L : \A k \in 1..Len(f.lines[i]) :
           i \in 1..Len(h.lines) /\ k \in 1..Len(h.lines[i]) /\ h.lines[i][k] = f.lines[i][k]
  <2>1. Pieces(f, x, h)
    BY <1>0, <1>1, WrittenPieces
  <2> QED BY <2>1 DEF Pieces
<1>4. /\ \A i \in 1..Len(h.lines) : Whole(h.lines[i]) =>
           \/ i \in 1..L /\ Whole(f.lines[i]) /\ At(h, i) = At(f, i)
           \/ i = L + 1 /\ f.ended /\ text = "whole" /\ At(h, i) = e
      /\ \A i \in 1..L : Whole(f.lines[i]) /\ Finished(f, i) =>
           i \in 1..Len(h.lines) /\ Whole(h.lines[i]) /\ Finished(h, i) /\ At(h, i) = At(f, i)
      /\ f.ended /\ text = "whole" =>
           Len(h.lines) = L + 1 /\ Whole(h.lines[L + 1]) /\ At(h, L + 1) = e
  BY <1>0, <1>1, WrittenLines
<1>5. Len(h.lines) \in Nat /\ L \in Nat
  BY <1>2 DEF Shape
<1>6. \A i \in 1..Len(h.lines) : \A k \in 1..Len(h.lines[i]) : h.lines[i][k].entry.change \in 1..(n + 1)
  <2> SUFFICES ASSUME NEW i \in 1..Len(h.lines), NEW k \in 1..Len(h.lines[i])
               PROVE  h.lines[i][k].entry.change \in 1..(n + 1)
    OBVIOUS
  <2>1. CASE h.lines[i][k] = x
    <3>1. h.lines[i][k].entry.change = n + 1
      BY <1>0, <2>1
    <3> QED BY <3>1
  <2>2. CASE i \in 1..L /\ k \in 1..Len(f.lines[i]) /\ h.lines[i][k] = f.lines[i][k]
    <3>1. h.lines[i][k].entry.change \in 1..n
      BY <1>1, <2>2
    <3> QED BY <3>1
  <2> QED BY <1>3, <2>1, <2>2
<1>7. ASSUME Readable(h) PROVE Reads(h, s2, done2, lost2, g2)
  <2>1. Readable(f)
    <3> SUFFICES ASSUME NEW i \in 1..L, NEW k \in 1..Len(f.lines[i])
                 PROVE  f.lines[i][k].text # "cut"
      <4>1. DOMAIN f.lines = 1..L /\ \A i \in 1..L : DOMAIN f.lines[i] = 1..Len(f.lines[i])
        BY <1>1 DEF Shape, Line
      <4> QED BY <4>1 DEF Readable
    <3>1. i \in 1..Len(h.lines) /\ k \in 1..Len(h.lines[i]) /\ h.lines[i][k] = f.lines[i][k]
      BY <1>3
    <3>2. i \in DOMAIN h.lines /\ k \in DOMAIN h.lines[i]
      BY <1>2, <3>1 DEF Shape, Line
    <3> QED BY <1>7, <3>1, <3>2 DEF Readable
  <2>2. Reads(f, s, done, lost, g)
    BY <1>1, <2>1
  <2>3. \A i \in 1..L : Whole(f.lines[i]) => At(f, i).change \in 1..n
    <3> SUFFICES ASSUME NEW i \in 1..L, Whole(f.lines[i]) PROVE At(f, i).change \in 1..n
      OBVIOUS
    <3>1. 1 \in 1..Len(f.lines[i])
      BY DEF Whole
    <3> QED BY <1>1, <3>1 DEF At
  <2>4. \A i, j \in 1..Len(h.lines) :
          Whole(h.lines[i]) /\ Whole(h.lines[j]) /\ At(h, i).change = At(h, j).change => i = j
    <3> SUFFICES ASSUME NEW i \in 1..Len(h.lines), NEW j \in 1..Len(h.lines), Whole(h.lines[i]),
                        Whole(h.lines[j]), At(h, i).change = At(h, j).change
                 PROVE  i = j
      OBVIOUS
    <3>1. CASE i \in 1..L /\ Whole(f.lines[i]) /\ At(h, i) = At(f, i)
      <4>1. At(h, i).change \in 1..n
        BY <2>3, <3>1
      <4>2. At(h, j) # e
        BY <4>1
      <4>3. j \in 1..L /\ Whole(f.lines[j]) /\ At(h, j) = At(f, j)
        BY <1>4, <4>2
      <4> QED BY <2>2, <3>1, <4>3 DEF Reads
    <3>2. CASE i = L + 1 /\ At(h, i) = e
      <4>1. At(h, j).change = n + 1
        BY <3>2
      <4>2. ~(j \in 1..L /\ Whole(f.lines[j]) /\ At(h, j) = At(f, j))
        BY <2>3, <4>1
      <4> QED BY <1>4, <3>2, <4>2
    <3> QED BY <1>4, <3>1, <3>2
  <2>5. \A i \in 1..Len(h.lines) :
          Whole(h.lines[i]) => At(h, i).change \in g2 \/ \E k \in 1..Len(s2) : s2[k] = At(h, i)
    <3> SUFFICES ASSUME NEW i \in 1..Len(h.lines), Whole(h.lines[i])
                 PROVE  At(h, i).change \in g2 \/ \E k \in 1..Len(s2) : s2[k] = At(h, i)
      OBVIOUS
    <3>1. CASE i \in 1..L /\ Whole(f.lines[i]) /\ At(h, i) = At(f, i)
      <4>1. At(f, i).change \in g \/ \E k \in 1..Len(s) : s[k] = At(f, i)
        BY <2>2, <3>1 DEF Reads
      <4> QED BY <3>1, <4>1
    <3>2. CASE f.ended /\ text = "whole" /\ At(h, i) = e
      BY <1>7, <3>2
    <3> QED BY <1>4, <3>1, <3>2
  <2>6. \A c \in done2 \ lost2 : \E i \in 1..Len(h.lines) :
          Whole(h.lines[i]) /\ Finished(h, i) /\ At(h, i).change = c
    <3> SUFFICES ASSUME NEW c \in done2 \ lost2
                 PROVE  \E i \in 1..Len(h.lines) :
                          Whole(h.lines[i]) /\ Finished(h, i) /\ At(h, i).change = c
      OBVIOUS
    <3>1. CASE c \in done \ lost
      <4>1. PICK i \in 1..L : Whole(f.lines[i]) /\ Finished(f, i) /\ At(f, i).change = c
        BY <2>2, <3>1 DEF Reads
      <4>2. i \in 1..Len(h.lines) /\ Whole(h.lines[i]) /\ Finished(h, i) /\ At(h, i) = At(f, i)
        BY <1>4, <4>1
      <4> QED BY <4>1, <4>2
    <3>2. CASE c = n + 1 /\ f.ended /\ text = "whole" /\ nl
      <4>1. Len(h.lines) = L + 1 /\ Whole(h.lines[L + 1]) /\ At(h, L + 1) = e
        BY <1>4, <3>2
      <4>2. L + 1 \in 1..Len(h.lines)
        BY <1>5, <4>1
      <4>3. Finished(h, L + 1)
        BY <1>2, <3>2, Zenon DEF Finished
      <4> QED BY <3>2, <4>1, <4>2, <4>3
    <3> QED BY <3>1, <3>2
  <2>7. \A i, j \in 1..Len(h.lines) :
          /\ i < j /\ Whole(h.lines[i]) /\ Whole(h.lines[j])
          /\ At(h, j).own /\ At(h, j).global /\ At(h, i).change \notin g2
          => At(h, i).clock < At(h, j).clock
    <3> SUFFICES ASSUME NEW i \in 1..Len(h.lines), NEW j \in 1..Len(h.lines),
                        i < j, Whole(h.lines[i]), Whole(h.lines[j]),
                        At(h, j).own, At(h, j).global, At(h, i).change \notin g2
                 PROVE  At(h, i).clock < At(h, j).clock
      OBVIOUS
    <3>1. Len(h.lines) \in Nat /\ (i = L + 1 => j \notin 1..L)
      BY <1>5
    <3>2. i # L + 1
      <4> SUFFICES ASSUME i = L + 1 PROVE FALSE
        OBVIOUS
      <4>1. j = L + 1
        BY <1>4, <3>1
      <4> QED BY <4>1, <1>5
    <3>3. i \in 1..L /\ Whole(f.lines[i]) /\ At(h, i) = At(f, i)
      BY <1>4, <3>2
    <3>4. CASE j \in 1..L /\ Whole(f.lines[j]) /\ At(h, j) = At(f, j)
      BY <2>2, <3>3, <3>4 DEF Reads
    <3>5. CASE At(h, j) = e
      <4>1. PICK k \in 1..Len(s) : s[k] = At(f, i)
        BY <2>2, <3>3 DEF Reads
      <4> QED BY <3>3, <3>5, <4>1
    <3> QED BY <1>4, <3>4, <3>5
  <2> QED BY <2>4, <2>5, <2>6, <2>7 DEF Reads
<1> QED BY <1>2, <1>6, <1>7 DEF FileOK

\* What was right of a file stays so, when nothing is written.
LEMMA FileStays ==
    ASSUME NEW s, NEW n \in Nat, NEW n2 \in Nat, n <= n2,
           NEW done, NEW lost, NEW lost2, NEW g, NEW g2, lost \subseteq lost2, g \subseteq g2,
           NEW f, FileOK(f, s, done, lost, g, n)
    PROVE  FileOK(f, s, done, lost2, g2, n2)
<1>1. \A i \in 1..Len(f.lines) : \A k \in 1..Len(f.lines[i]) : f.lines[i][k].entry.change \in 1..n2
  <2> SUFFICES ASSUME NEW i \in 1..Len(f.lines), NEW k \in 1..Len(f.lines[i])
               PROVE  f.lines[i][k].entry.change \in 1..n2
    OBVIOUS
  <2>1. f.lines[i][k].entry.change \in 1..n
    BY DEF FileOK
  <2> QED BY <2>1
<1>2. Reads(f, s, done, lost, g) => Reads(f, s, done, lost2, g2)
  BY DEF Reads
<1> QED BY <1>1, <1>2 DEF FileOK

-----------------------------------------------------------------------------
(* What is in memory, and what was offered. *)

\* The stamp an entry carries.
StampOf(e) == [epoch |-> e.epoch, seq |-> e.seq, change |-> e.change]

\* What is offered of a log: the stamps of its node's own Global entries.
LEMMA OffersAre ==
    ASSUME NEW s \in Seq(Entry)
    PROVE  /\ \A x \in Offers(s) : \E i \in 1..Len(s) : s[i].own /\ s[i].global /\ x = StampOf(s[i])
           /\ \A i \in 1..Len(s) : s[i].own /\ s[i].global => StampOf(s[i]) \in Offers(s)
           /\ Offers(s) \subseteq Stamp
<1>1. DOMAIN s = 1..Len(s) /\ \A i \in 1..Len(s) : s[i] \in Entry
  OBVIOUS
<1>2. \A i \in 1..Len(s) : StampOf(s[i]) \in Stamp
  <2>1. \A e \in Entry : e.epoch \in Nat /\ e.seq \in Nat /\ e.change \in Nat
    BY DEF Entry
  <2> QED BY <1>1, <2>1 DEF StampOf, Stamp
<1>3. Offers(s) = {StampOf(s[i]) : i \in {j \in 1..Len(s) : s[j].own /\ s[j].global}}
  BY <1>1 DEF Offers, StampOf
<1> QED BY <1>2, <1>3

\* An entry at the end.
LEMMA Appended ==
    ASSUME NEW s \in Seq(Entry), NEW e \in Entry
    PROVE  /\ Append(s, e) \in Seq(Entry) /\ Len(s) \in Nat /\ Len(Append(s, e)) = Len(s) + 1
           /\ \A i \in 1..Len(s) : i \in 1..Len(Append(s, e)) /\ Append(s, e)[i] = s[i]
           /\ Append(s, e)[Len(s) + 1] = e
           /\ \A i \in 1..Len(Append(s, e)) : i \in 1..Len(s) \/ i = Len(s) + 1
OBVIOUS

\* The next change, done, with a clock that is past if it is the node's own.
LEMMA KnownGrows ==
    ASSUME NEW s, NEW lam, NEW ep, NEW done, NEW lost, NEW g, NEW n,
           Known(s, lam, ep, done, lost, g, n),
           NEW e \in Entry, e.change = n + 1, e.own => e.epoch <= ep,
           e.own /\ e.global => lam < e.clock,
           NEW lam2 \in Nat, lam <= lam2, e.clock <= lam2,
           NEW lost2, lost \subseteq lost2, lost2 \subseteq lost \cup {n + 1}
    PROVE  Known(Append(s, e), lam2, ep, done \cup {n + 1}, lost2, g, n + 1)
<1> DEFINE t == Append(s, e)
<1>1. /\ s \in Seq(Entry) /\ lam \in Nat /\ ep \in 0..MaxEpoch /\ n \in Nat
      /\ done \cup lost \cup g \subseteq 1..n
      /\ \A i, j \in 1..Len(s) : s[i].change = s[j].change => i = j
      /\ \A i \in 1..Len(s) : s[i].change \in done \cup g
      /\ \A c \in done : c \in lost \/ \E i \in 1..Len(s) : s[i].change = c
      /\ \A i \in 1..Len(s) : s[i].clock <= lam /\ (s[i].own => s[i].epoch <= ep)
      /\ \A i, j \in 1..Len(s) :
           i < j /\ s[j].own /\ s[j].global /\ s[i].change \notin g => s[i].clock < s[j].clock
  BY DEF Known
<1>2. /\ t \in Seq(Entry) /\ Len(s) \in Nat /\ Len(t) = Len(s) + 1
      /\ \A i \in 1..Len(s) : i \in 1..Len(t) /\ t[i] = s[i]
      /\ t[Len(s) + 1] = e
      /\ \A i \in 1..Len(t) : i \in 1..Len(s) \/ i = Len(s) + 1
  BY <1>1, Appended
<1>3. \A i \in 1..Len(s) : s[i].change \in 1..n /\ s[i].clock \in Nat /\ s[i].clock <= lam
  <2>1. \A i \in 1..Len(s) : s[i] \in Entry
    BY <1>1
  <2> QED BY <1>1, <2>1 DEF Entry
<1>4. e.clock \in Nat
  BY DEF Entry
<1>5. Len(s) + 1 \in 1..Len(t)
  BY <1>2
<1> HIDE DEF t
<1>6. done \cup {n + 1} \cup lost2 \cup g \subseteq 1..(n + 1)
  <2>1. \A c \in 1..n : c \in 1..(n + 1)
    BY <1>1
  <2>2. n + 1 \in 1..(n + 1)
    BY <1>1
  <2> QED BY <1>1, <2>1, <2>2
<1>7. \A i, j \in 1..Len(t) : t[i].change = t[j].change => i = j
  <2>1. \A i \in 1..Len(s) : s[i].change # n + 1
    BY <1>1, <1>3
  <2> QED BY <1>1, <1>2, <2>1
<1>8. \A i \in 1..Len(t) : t[i].change \in (done \cup {n + 1}) \cup g
  BY <1>1, <1>2
<1>9. \A c \in done \cup {n + 1} : c \in lost2 \/ \E i \in 1..Len(t) : t[i].change = c
  BY <1>1, <1>2, <1>5
<1>10. \A i \in 1..Len(t) : t[i].clock <= lam2 /\ (t[i].own => t[i].epoch <= ep)
  BY <1>1, <1>2, <1>3
<1>11. ASSUME NEW i \in 1..Len(t), NEW j \in 1..Len(t),
              i < j, t[j].own, t[j].global, t[i].change \notin g
       PROVE  t[i].clock < t[j].clock
  <2>1. i \in 1..Len(s) /\ t[i] = s[i]
    BY <1>2, <1>11
  <2>2. CASE j \in 1..Len(s)
    BY <1>1, <1>2, <1>11, <2>1, <2>2
  <2>3. CASE j = Len(s) + 1
    BY <1>1, <1>2, <1>3, <1>4, <1>11, <2>1, <2>3
  <2> QED BY <1>2, <2>2, <2>3
<1> QED BY <1>1, <1>2, <1>6, <1>7, <1>8, <1>9, <1>10, <1>11 DEF Known, t

\* More ghosts, more that is lost, and counters that run on, change nothing.
LEMMA KnownStays ==
    ASSUME NEW s, NEW lam, NEW ep, NEW done, NEW lost, NEW g, NEW n,
           Known(s, lam, ep, done, lost, g, n),
           NEW lam2 \in Nat, lam <= lam2, NEW ep2 \in 0..MaxEpoch, ep <= ep2,
           NEW n2 \in Nat, n <= n2, NEW lost2, lost \subseteq lost2, lost2 \subseteq 1..n2,
           NEW g2, g \subseteq g2, g2 \subseteq 1..n2, MaxEpoch \in Nat
    PROVE  Known(s, lam2, ep2, done, lost2, g2, n2)
<1>1. s \in Seq(Entry) /\ lam \in Nat /\ ep \in Nat /\ ep2 \in Nat /\ n \in Nat
  BY DEF Known
<1>2. done \cup lost2 \cup g2 \subseteq 1..n2
  <2>1. \A c \in 1..n : c \in 1..n2
    BY <1>1
  <2> QED BY <2>1 DEF Known
<1>3. \A i \in 1..Len(s) : s[i].clock <= lam2 /\ (s[i].own => s[i].epoch <= ep2)
  <2> SUFFICES ASSUME NEW i \in 1..Len(s)
               PROVE  s[i].clock <= lam2 /\ (s[i].own => s[i].epoch <= ep2)
    OBVIOUS
  <2>1. s[i] \in Entry
    BY <1>1
  <2>2. s[i].clock \in Nat /\ s[i].epoch \in Nat
    BY <2>1 DEF Entry
  <2>3. s[i].clock <= lam /\ (s[i].own => s[i].epoch <= ep)
    BY DEF Known
  <2> QED BY <1>1, <2>2, <2>3
<1> QED BY <1>1, <1>2, <1>3 DEF Known

\* A change is offered under a stamp nobody has seen, or not at all.
LEMMA StampedGrows ==
    ASSUME NEW s, NEW lam, NEW ep, NEW done, NEW lost, NEW g, NEW n, NEW o,
           Known(s, lam, ep, done, lost, g, n), Stamped(s, done, lost, g, o), MaxEpoch \in Nat,
           NEW e \in Entry, e.change = n + 1,
           e.own /\ e.global => /\ e.epoch = ep
                                /\ \A i \in 1..Len(s) : s[i].own /\ s[i].global /\ s[i].epoch = ep
                                                          => s[i].seq < e.seq,
           NEW lost2, lost \subseteq lost2
    PROVE  Stamped(Append(s, e), done \cup {n + 1}, lost2, g, o \cup Offers(<<e>>))
<1> DEFINE t == Append(s, e)
           new == Offers(<<e>>)
<1>1. /\ s \in Seq(Entry) /\ ep \in Nat /\ n \in Nat /\ done \cup lost \cup g \subseteq 1..n
      /\ \A i \in 1..Len(s) : s[i].change \in done \cup g
      /\ \A c \in done : c \in lost \/ \E i \in 1..Len(s) : s[i].change = c
      /\ \A i \in 1..Len(s) : s[i].own => s[i].epoch <= ep
  BY DEF Known
<1>2. /\ t \in Seq(Entry) /\ Len(s) \in Nat /\ Len(t) = Len(s) + 1
      /\ \A i \in 1..Len(s) : i \in 1..Len(t) /\ t[i] = s[i]
      /\ t[Len(s) + 1] = e
      /\ \A i \in 1..Len(t) : i \in 1..Len(s) \/ i = Len(s) + 1
  BY <1>1, Appended
<1>3. /\ o \subseteq Stamp
      /\ \A x \in o : x.change \in done \cup g
      /\ Offers(s) \subseteq o
      /\ \A x \in o : x.change \notin g =>
           \A i \in 1..Len(s) : s[i].change = x.change => Follows(x, s[i])
      /\ \A x, y \in o :
           x.epoch = y.epoch /\ x.seq = y.seq /\ x.change # y.change =>
             \E c \in {x.change, y.change} :
                c \in g \/ (c \in lost /\ \A i \in 1..Len(s) : s[i].change # c)
  BY DEF Stamped
<1>4. new \subseteq Stamp /\ (\A x \in new : e.own /\ e.global /\ x = StampOf(e))
      /\ (e.own /\ e.global => StampOf(e) \in new)
  <2>1. <<e>> \in Seq(Entry) /\ Len(<<e>>) = 1 /\ <<e>>[1] = e
    OBVIOUS
  <2>2. /\ \A x \in new : \E i \in 1..Len(<<e>>) : <<e>>[i].own /\ <<e>>[i].global /\ x = StampOf(<<e>>[i])
        /\ \A i \in 1..Len(<<e>>) : <<e>>[i].own /\ <<e>>[i].global => StampOf(<<e>>[i]) \in new
        /\ new \subseteq Stamp
    BY <2>1, OffersAre
  <2>3. \A i \in 1..Len(<<e>>) : <<e>>[i] = e
    BY <2>1
  <2>4. 1 \in 1..Len(<<e>>)
    BY <2>1
  <2> QED BY <2>2, <2>3, <2>4
<1>5. StampOf(e).epoch = e.epoch /\ StampOf(e).seq = e.seq /\ StampOf(e).change = n + 1
  BY DEF StampOf
<1>6. Offers(t) \subseteq o \cup new
  <2> SUFFICES ASSUME NEW x \in Offers(t) PROVE x \in o \cup new
    OBVIOUS
  <2>1. PICK i \in 1..Len(t) : t[i].own /\ t[i].global /\ x = StampOf(t[i])
    BY <1>2, OffersAre
  <2>2. CASE i \in 1..Len(s)
    <3>1. StampOf(s[i]) \in Offers(s)
      BY <1>1, <1>2, <2>1, <2>2, OffersAre
    <3> QED BY <1>2, <1>3, <2>1, <2>2, <3>1
  <2>3. CASE i = Len(s) + 1
    BY <1>2, <1>4, <2>1, <2>3
  <2> QED BY <1>2, <2>2, <2>3
<1> HIDE DEF t, new
<1>7. (\A c \in done \cup lost \cup g : c # n + 1) /\ (\A x \in o : x.change # n + 1)
      /\ \A i \in 1..Len(s) : s[i].change # n + 1
  <2>1. n + 1 \notin 1..n
    BY <1>1
  <2> QED BY <1>1, <1>3, <2>1
<1>8. \A x \in o \cup new : x.change \in (done \cup {n + 1}) \cup g
  BY <1>3, <1>4, <1>5
<1>9. ASSUME NEW x \in o \cup new, x.change \notin g, NEW i \in 1..Len(t), t[i].change = x.change
      PROVE  Follows(x, t[i])
  <2>1. CASE i \in 1..Len(s)
    <3>1. x \in o
      BY <1>2, <1>4, <1>5, <1>7, <1>9, <2>1
    <3> QED BY <1>2, <1>3, <1>9, <2>1, <3>1
  <2>2. CASE i = Len(s) + 1
    <3>1. t[i] = e /\ x \in new
      BY <1>2, <1>7, <1>9, <2>2
    <3>2. e.own /\ e.global /\ x = StampOf(e)
      BY <1>4, <3>1
    <3> QED BY <1>5, <3>1, <3>2 DEF Follows
  <2> QED BY <1>2, <2>1, <2>2
<1>10. ASSUME NEW y \in o, e.own, e.global, y.epoch = e.epoch, y.seq = e.seq
       PROVE  y.change \in g \/ (y.change \in lost /\ \A i \in 1..Len(s) : s[i].change # y.change)
  <2> SUFFICES ASSUME y.change \notin g, NEW i \in 1..Len(s), s[i].change = y.change
               PROVE  FALSE
    BY <1>1, <1>3
  <2>1. Follows(y, s[i])
    BY <1>3
  <2>2. s[i].own /\ s[i].global /\ (y.epoch < s[i].epoch \/ (y.epoch = s[i].epoch /\ y.seq = s[i].seq))
    BY <2>1 DEF Follows
  <2>3. s[i].epoch <= ep /\ y.epoch = ep
    BY <1>1, <1>10, <2>2
  <2>4. s[i] \in Entry
    BY <1>1
  <2>5. s[i].epoch \in Nat /\ s[i].seq \in Nat /\ e.seq \in Nat
    BY <2>4 DEF Entry
  <2>6. s[i].epoch = ep /\ s[i].seq = e.seq
    BY <1>1, <1>10, <2>2, <2>3, <2>5
  <2>7. s[i].seq < e.seq
    BY <1>10, <2>2, <2>6
  <2> QED BY <2>5, <2>6, <2>7
<1>11. ASSUME NEW x \in o \cup new, NEW y \in o \cup new,
              x.epoch = y.epoch, x.seq = y.seq, x.change # y.change
       PROVE  \E c \in {x.change, y.change} :
                 c \in g \/ (c \in lost2 /\ \A i \in 1..Len(t) : t[i].change # c)
  <2>1. \A c \in lost : (\A i \in 1..Len(s) : s[i].change # c) =>
              c \in lost2 /\ \A i \in 1..Len(t) : t[i].change # c
    BY <1>2, <1>7
  <2>2. CASE x \in o /\ y \in o
    BY <1>3, <1>11, <2>1, <2>2
  <2>3. CASE x \in new /\ y \in o
    <3>1. e.own /\ e.global /\ x = StampOf(e)
      BY <1>4, <2>3
    <3>2. y.epoch = e.epoch /\ y.seq = e.seq
      BY <1>5, <1>11, <3>1
    <3> QED BY <1>10, <2>1, <2>3, <3>1, <3>2
  <2>4. CASE x \in o /\ y \in new
    <3>1. e.own /\ e.global /\ y = StampOf(e)
      BY <1>4, <2>4
    <3>2. x.epoch = e.epoch /\ x.seq = e.seq
      BY <1>5, <1>11, <3>1
    <3> QED BY <1>10, <2>1, <2>4, <3>1, <3>2
  <2>5. CASE x \in new /\ y \in new
    BY <1>4, <1>11, <2>5
  <2> QED BY <2>2, <2>3, <2>4, <2>5
<1>12. o \cup new \subseteq Stamp
  BY <1>3, <1>4
<1> QED BY <1>6, <1>8, <1>9, <1>11, <1>12 DEF Stamped, t, new

\* Nor do more ghosts, more that is lost, or a shorter list of what was offered
\* that has what is in memory.
LEMMA StampedStays ==
    ASSUME NEW s, NEW done, NEW lost, NEW g, NEW o, Stamped(s, done, lost, g, o),
           NEW lost2, lost \subseteq lost2, NEW g2, g \subseteq g2,
           NEW o2, o2 \subseteq o, Offers(s) \subseteq o2
    PROVE  Stamped(s, done, lost2, g2, o2)
<1>1. o2 \subseteq Stamp /\ \A x \in o2 : x.change \in done \cup g2
  BY DEF Stamped
<1>2. \A x \in o2 : x.change \notin g2 =>
         \A i \in 1..Len(s) : s[i].change = x.change => Follows(x, s[i])
  BY DEF Stamped
<1>3. \A x, y \in o2 :
        x.epoch = y.epoch /\ x.seq = y.seq /\ x.change # y.change =>
          \E c \in {x.change, y.change} :
             c \in g2 \/ (c \in lost2 /\ \A i \in 1..Len(s) : s[i].change # c)
  BY DEF Stamped
<1> QED BY <1>1, <1>2, <1>3 DEF Stamped

-----------------------------------------------------------------------------
(* Clocks, epochs and numbers: the greatest of finitely many. *)

\* Finitely many numbers have a bound.
LEMMA Bounded ==
    ASSUME NEW n \in Nat, NEW v \in [1..n -> Nat]
    PROVE  \E b \in Nat : \A i \in 1..n : v[i] <= b
<1> DEFINE G == {m \in 0..n : \E b \in Nat : \A i \in 1..m : v[i] <= b}
<1>1. 0 \in G
  <2>1. 0 \in 0..n /\ 0 \in Nat /\ \A i \in 1..0 : v[i] <= 0
    OBVIOUS
  <2> QED BY <2>1
<1>2. ASSUME NEW m \in 0..(n - 1), m \in G PROVE m + 1 \in G
  <2>1. PICK b \in Nat : \A i \in 1..m : v[i] <= b
    BY <1>2
  <2>2. m + 1 \in 1..n /\ m + 1 \in 0..n /\ v[m + 1] \in Nat
    OBVIOUS
  <2>3. PICK c \in Nat : b <= c /\ v[m + 1] <= c
    BY <2>2
  <2>4. ASSUME NEW i \in 1..(m + 1) PROVE v[i] <= c
    <3>1. CASE i = m + 1
      BY <2>3, <3>1
    <3>2. CASE i \in 1..m
      <4>1. v[i] <= b /\ v[i] \in Nat
        BY <2>1, <3>2
      <4> QED BY <2>3, <4>1
    <3> QED BY <3>1, <3>2
  <2> QED BY <2>2, <2>4
<1> HIDE DEF G
<1>3. 0..n \subseteq G
  BY <1>1, <1>2, Upwards
<1>4. n \in G
  BY <1>3
<1> QED BY <1>4 DEF G

\* A set of numbers with a bound has a greatest.
LEMMA MaxAmong ==
    ASSUME NEW b \in Nat, NEW S \in SUBSET (0..b), S # {}
    PROVE  Max(S) \in S /\ \A y \in S : y <= Max(S)
<1> DEFINE D == {b - y : y \in S}
<1>1. D \in SUBSET Nat /\ D # {}
  <2>1. \A y \in S : b - y \in Nat
    OBVIOUS
  <2> QED BY <2>1
<1>2. PICK d \in D : \A x \in D : d <= x
  BY <1>1, LeastNatural
<1>3. PICK x \in S : d = b - x
  OBVIOUS
<1>4. \A y \in S : x >= y
  <2>1. \A y \in S : b - x <= b - y
    BY <1>2, <1>3
  <2> QED BY <2>1
<1>5. Max(S) \in S /\ \A y \in S : Max(S) >= y
  BY <1>4 DEF Max
<1> QED BY <1>5

\* What open takes for its clock and its epoch is none of the entries' behind.
LEMMA CountersRead ==
    ASSUME NEW s \in Seq(Entry), MaxEpoch \in Nat
    PROVE  /\ Clock(s) \in Nat /\ \A i \in 1..Len(s) : s[i].clock <= Clock(s)
           /\ Epoch(s) \in 0..MaxEpoch /\ \A i \in 1..Len(s) : s[i].own => s[i].epoch <= Epoch(s)
<1>1. Len(s) \in Nat /\ DOMAIN s = 1..Len(s)
      /\ \A i \in 1..Len(s) : s[i].clock \in Nat /\ s[i].epoch \in 0..MaxEpoch
  <2>1. \A e \in Entry : e.clock \in Nat /\ e.epoch \in 0..MaxEpoch
    BY DEF Entry
  <2> QED BY <2>1
<1>2. Clock(s) \in Nat /\ \A i \in 1..Len(s) : s[i].clock <= Clock(s)
  <2> DEFINE v == [i \in 1..Len(s) |-> s[i].clock]
             S == {0} \cup {s[i].clock : i \in DOMAIN s}
  <2>1. v \in [1..Len(s) -> Nat]
    BY <1>1
  <2> HIDE DEF v
  <2>2. PICK b \in Nat : \A i \in 1..Len(s) : v[i] <= b
    BY <1>1, <2>1, Bounded
  <2>3. \A i \in 1..Len(s) : s[i].clock \in 0..b
    BY <1>1, <2>2 DEF v
  <2>4. S \in SUBSET (0..b) /\ S # {}
    BY <1>1, <2>3
  <2>5. Max(S) \in S /\ \A y \in S : y <= Max(S)
    BY <2>4, MaxAmong
  <2>6. Clock(s) = Max(S)
    BY DEF Clock
  <2>7. \A i \in 1..Len(s) : s[i].clock \in S
    BY <1>1
  <2>8. Max(S) \in Nat
    <3>1. Max(S) \in 0..b
      BY <2>4, <2>5
    <3> QED BY <3>1
  <2> HIDE DEF S
  <2> QED BY <2>5, <2>6, <2>7, <2>8
<1>3. Epoch(s) \in 0..MaxEpoch /\ \A i \in 1..Len(s) : s[i].own => s[i].epoch <= Epoch(s)
  <2> DEFINE S == {0} \cup {s[i].epoch : i \in {j \in DOMAIN s : s[j].own}}
  <2>1. S \in SUBSET (0..MaxEpoch) /\ S # {}
    BY <1>1
  <2>2. Max(S) \in S /\ \A y \in S : y <= Max(S)
    BY <2>1, MaxAmong
  <2>3. Epoch(s) = Max(S)
    BY DEF Epoch
  <2>4. \A i \in 1..Len(s) : s[i].own => s[i].epoch \in S
    BY <1>1
  <2> HIDE DEF S
  <2> QED BY <2>1, <2>2, <2>3, <2>4
<1> QED BY <1>2, <1>3

\* The next number is past those that this node's entries have in this epoch.
LEMMA NextSeqIsPast ==
    ASSUME entries \in Seq(Entry)
    PROVE  /\ next_seq \in Nat
           /\ \A i \in 1..Len(entries) :
                entries[i].own /\ entries[i].global /\ entries[i].epoch = epoch
                => entries[i].seq < next_seq
<1>1. Len(entries) \in Nat /\ DOMAIN entries = 1..Len(entries)
      /\ \A i \in 1..Len(entries) : entries[i].seq \in Nat
  <2>1. \A e \in Entry : e.seq \in Nat
    BY DEF Entry
  <2> QED BY <2>1
<1> DEFINE W == Own(entries, epoch)
           S == {entries[i].seq : i \in W}
           v == [i \in 1..Len(entries) |-> entries[i].seq]
<1>2. /\ W \subseteq 1..Len(entries)
      /\ \A i \in 1..Len(entries) :
           entries[i].own /\ entries[i].global /\ entries[i].epoch = epoch => i \in W
  BY <1>1 DEF Own
<1>3. CASE W = {}
  BY <1>2, <1>3 DEF next_seq
<1>4. CASE W # {}
  <2>1. v \in [1..Len(entries) -> Nat]
    BY <1>1
  <2>2. \A i \in 1..Len(entries) : v[i] = entries[i].seq
    OBVIOUS
  <2> HIDE DEF v
  <2>3. PICK b \in Nat : \A i \in 1..Len(entries) : v[i] <= b
    BY <1>1, <2>1, Bounded
  <2>4. \A i \in 1..Len(entries) : entries[i].seq \in 0..b
    BY <1>1, <2>2, <2>3
  <2>5. S \in SUBSET (0..b) /\ S # {}
    BY <1>2, <1>4, <2>4
  <2>6. Max(S) \in S /\ \A y \in S : y <= Max(S)
    BY <2>5, MaxAmong
  <2>7. next_seq = Max(S) + 1
    BY <1>4 DEF next_seq
  <2>8. \A i \in W : entries[i].seq \in S
    OBVIOUS
  <2>9. Max(S) \in Nat
    BY <2>5, <2>6
  <2> HIDE DEF S, W
  <2>10. next_seq \in Nat
    BY <2>7, <2>9
  <2>11. ASSUME NEW i \in 1..Len(entries),
                entries[i].own, entries[i].global, entries[i].epoch = epoch
         PROVE  entries[i].seq < next_seq
    <3>1. entries[i].seq \in S /\ entries[i].seq \in Nat
      BY <1>1, <1>2, <2>8, <2>11
    <3>2. entries[i].seq <= Max(S)
      BY <2>6, <3>1
    <3> QED BY <2>7, <2>9, <3>1, <3>2
  <2> QED BY <2>10, <2>11
<1> QED BY <1>3, <1>4

-----------------------------------------------------------------------------
(* Opening a file. *)

\* A process that reads a file has in memory what is on its lines, and nothing
\* it had not: all that is done and not lost, and ghosts.
LEMMA OpenRight ==
    ASSUME NEW f, NEW s, NEW lam, NEW ep, NEW done, NEW lost, NEW g, NEW n, NEW o, MaxEpoch \in Nat,
           FileOK(f, s, done, lost, g, n), Known(s, lam, ep, done, lost, g, n),
           Stamped(s, done, lost, g, o), Readable(f)
    PROVE  /\ FileOK(f, Parsed(f), done, lost, g, n)
           /\ Known(Parsed(f), Clock(Parsed(f)), Epoch(Parsed(f)), done, lost, g, n)
           /\ Stamped(Parsed(f), done, lost, g, o \cup Offers(Parsed(f)))
<1> DEFINE p == Parsed(f)
           new == Offers(p)
<1>1. Shape(f) /\ Reads(f, s, done, lost, g)
      /\ \A i \in 1..Len(f.lines) : \A k \in 1..Len(f.lines[i]) : f.lines[i][k].entry.change \in 1..n
  BY DEF FileOK
<1>2. /\ p \in Seq(Entry)
      /\ \E src \in [1..Len(p) -> Nat] :
           /\ \A k \in 1..Len(p) :
                /\ src[k] \in 1..Len(f.lines) /\ Whole(f.lines[src[k]])
                /\ p[k] = At(f, src[k])
           /\ \A k, l \in 1..Len(p) : k < l => src[k] < src[l]
      /\ \A i \in 1..Len(f.lines) : Whole(f.lines[i]) => \E k \in 1..Len(p) : p[k] = At(f, i)
  BY <1>1, ParsedReads
<1>3. /\ Clock(p) \in Nat /\ \A i \in 1..Len(p) : p[i].clock <= Clock(p)
      /\ Epoch(p) \in 0..MaxEpoch /\ \A i \in 1..Len(p) : p[i].own => p[i].epoch <= Epoch(p)
  BY <1>2, CountersRead
<1>4. /\ \A x \in new : \E i \in 1..Len(p) : p[i].own /\ p[i].global /\ x = StampOf(p[i])
      /\ \A i \in 1..Len(p) : p[i].own /\ p[i].global => StampOf(p[i]) \in new
      /\ new \subseteq Stamp
  BY <1>2, OffersAre
<1> HIDE DEF p, new
<1>5. PICK src \in [1..Len(p) -> Nat] :
         /\ \A k \in 1..Len(p) :
              /\ src[k] \in 1..Len(f.lines) /\ Whole(f.lines[src[k]])
              /\ p[k] = At(f, src[k])
         /\ \A k, l \in 1..Len(p) : k < l => src[k] < src[l]
  BY <1>2
<1>6. /\ \A i, j \in 1..Len(f.lines) :
           Whole(f.lines[i]) /\ Whole(f.lines[j]) /\ At(f, i).change = At(f, j).change => i = j
      /\ \A i \in 1..Len(f.lines) :
           Whole(f.lines[i]) => At(f, i).change \in g \/ \E k \in 1..Len(s) : s[k] = At(f, i)
      /\ \A c \in done \ lost : \E i \in 1..Len(f.lines) :
           Whole(f.lines[i]) /\ Finished(f, i) /\ At(f, i).change = c
      /\ \A i, j \in 1..Len(f.lines) :
           /\ i < j /\ Whole(f.lines[i]) /\ Whole(f.lines[j])
           /\ At(f, j).own /\ At(f, j).global /\ At(f, i).change \notin g
           => At(f, i).clock < At(f, j).clock
  BY <1>1 DEF Reads
<1>7. \A k, l \in 1..Len(p) : p[k].change = p[l].change => k = l
  <2> SUFFICES ASSUME NEW k \in 1..Len(p), NEW l \in 1..Len(p), p[k].change = p[l].change
               PROVE  k = l
    OBVIOUS
  <2>0. /\ src[k] \in 1..Len(f.lines) /\ Whole(f.lines[src[k]]) /\ p[k] = At(f, src[k])
        /\ src[l] \in 1..Len(f.lines) /\ Whole(f.lines[src[l]]) /\ p[l] = At(f, src[l])
    BY <1>5
  <2>1. src[k] = src[l]
    BY <1>6, <2>0
  <2>2. src[k] \in Nat /\ ~(k < l) /\ ~(l < k)
    BY <1>5, <2>1
  <2>3. k \in Nat /\ l \in Nat
    BY <1>2
  <2> QED BY <2>2, <2>3
<1>8. \A k \in 1..Len(p) : p[k].change \in g \/ \E i \in 1..Len(s) : s[i] = p[k]
  BY <1>5, <1>6
<1>9. FileOK(f, p, done, lost, g, n)
  <2>1. Reads(f, p, done, lost, g)
    BY <1>2, <1>6 DEF Reads
  <2> QED BY <1>1, <2>1 DEF FileOK
<1>10. /\ n \in Nat /\ done \cup lost \cup g \subseteq 1..n /\ s \in Seq(Entry)
       /\ \A i \in 1..Len(s) : s[i].change \in done \cup g
  BY DEF Known
<1>11. Known(p, Clock(p), Epoch(p), done, lost, g, n)
  <2>1. \A k \in 1..Len(p) : p[k].change \in done \cup g
    BY <1>8, <1>10
  <2>2. \A c \in done : c \in lost \/ \E k \in 1..Len(p) : p[k].change = c
    <3> SUFFICES ASSUME NEW c \in done \ lost PROVE \E k \in 1..Len(p) : p[k].change = c
      OBVIOUS
    <3>1. PICK i \in 1..Len(f.lines) : Whole(f.lines[i]) /\ At(f, i).change = c
      BY <1>6
    <3>2. PICK k \in 1..Len(p) : p[k] = At(f, i)
      BY <1>2, <3>1
    <3> QED BY <3>1, <3>2
  <2>3. ASSUME NEW k \in 1..Len(p), NEW l \in 1..Len(p),
               k < l, p[l].own, p[l].global, p[k].change \notin g
        PROVE  p[k].clock < p[l].clock
    <3>1. /\ src[k] \in 1..Len(f.lines) /\ Whole(f.lines[src[k]]) /\ p[k] = At(f, src[k])
          /\ src[l] \in 1..Len(f.lines) /\ Whole(f.lines[src[l]]) /\ p[l] = At(f, src[l])
          /\ src[k] < src[l]
      BY <1>5, <2>3
    <3>2. At(f, src[l]).own /\ At(f, src[l]).global /\ At(f, src[k]).change \notin g
      BY <2>3, <3>1
    <3> QED BY <1>6, <3>1, <3>2
  <2> QED BY <1>2, <1>3, <1>7, <1>10, <2>1, <2>2, <2>3 DEF Known
<1>12. /\ o \subseteq Stamp
       /\ \A x \in o : x.change \in done \cup g
       /\ Offers(s) \subseteq o
       /\ \A x \in o : x.change \notin g =>
            \A i \in 1..Len(s) : s[i].change = x.change => Follows(x, s[i])
       /\ \A x, y \in o :
            x.epoch = y.epoch /\ x.seq = y.seq /\ x.change # y.change =>
              \E c \in {x.change, y.change} :
                 c \in g \/ (c \in lost /\ \A i \in 1..Len(s) : s[i].change # c)
  BY DEF Stamped
<1>13. \A e : /\ StampOf(e).epoch = e.epoch /\ StampOf(e).seq = e.seq /\ StampOf(e).change = e.change
  BY DEF StampOf
<1>14. \A x \in new : x.change \notin g => x \in o
  <2> SUFFICES ASSUME NEW x \in new, x.change \notin g PROVE x \in o
    OBVIOUS
  <2>1. PICK k \in 1..Len(p) : p[k].own /\ p[k].global /\ x = StampOf(p[k])
    BY <1>4
  <2>2. PICK i \in 1..Len(s) : s[i] = p[k]
    BY <1>8, <1>13, <2>1
  <2>3. StampOf(s[i]) \in Offers(s)
    BY <1>10, <2>1, <2>2, OffersAre
  <2> QED BY <1>12, <2>1, <2>2, <2>3
<1>15. Stamped(p, done, lost, g, o \cup new)
  <2>1. \A x \in o \cup new : x.change \in done \cup g
    BY <1>12, <1>14
  <2>2. ASSUME NEW x \in o \cup new, x.change \notin g, NEW k \in 1..Len(p), p[k].change = x.change
        PROVE  Follows(x, p[k])
    <3>1. PICK i \in 1..Len(s) : s[i] = p[k]
      BY <1>8, <2>2
    <3> QED BY <1>12, <1>14, <2>2, <3>1
  <2>3. ASSUME NEW x \in o \cup new, NEW y \in o \cup new,
               x.epoch = y.epoch, x.seq = y.seq, x.change # y.change
        PROVE  \E c \in {x.change, y.change} :
                  c \in g \/ (c \in lost /\ \A k \in 1..Len(p) : p[k].change # c)
    <3>1. CASE x.change \in g \/ y.change \in g
      BY <3>1
    <3>2. CASE x.change \notin g /\ y.change \notin g
      <4>1. PICK c \in {x.change, y.change} :
              c \in g \/ (c \in lost /\ \A i \in 1..Len(s) : s[i].change # c)
        BY <1>12, <1>14, <2>3, <3>2
      <4>2. \A k \in 1..Len(p) : p[k].change # c
        BY <1>8, <3>2, <4>1
      <4> QED BY <3>2, <4>1, <4>2
    <3> QED BY <3>1, <3>2
  <2>4. o \cup new \subseteq Stamp /\ Offers(p) \subseteq o \cup new
    BY <1>4, <1>12 DEF new
  <2> QED BY <2>1, <2>2, <2>3, <2>4 DEF Stamped
<1> QED BY <1>9, <1>11, <1>15 DEF p, new

\* From a file that is not UTF-8 a process starts with nothing, and all that was
\* ever done or written is lost.
LEMMA OpenWrong ==
    ASSUME NEW f, NEW s, NEW lam, NEW ep, NEW done, NEW lost, NEW g, NEW n, NEW o, MaxEpoch \in Nat,
           FileOK(f, s, done, lost, g, n), Known(s, lam, ep, done, lost, g, n),
           Stamped(s, done, lost, g, o), ~Readable(f),
           NEW lost2, done \cup g \subseteq lost2, lost2 \subseteq 1..n
    PROVE  /\ FileOK(f, Parsed(f), done, lost2, g, n)
           /\ Known(Parsed(f), Clock(Parsed(f)), Epoch(Parsed(f)), done, lost2, g, n)
           /\ Stamped(Parsed(f), done, lost2, g, o \cup Offers(Parsed(f)))
<1> DEFINE p == Parsed(f)
<1>1. p = <<>> /\ p \in Seq(Entry) /\ Len(p) = 0
  <2>1. p = <<>>
    BY ParsedNothing
  <2> QED BY <2>1
<1>2. Clock(p) \in Nat /\ Epoch(p) \in 0..MaxEpoch
  BY <1>1, CountersRead
<1>3. Offers(p) = {}
  <2>1. \A x \in Offers(p) : \E i \in 1..Len(p) : x = StampOf(p[i])
    BY <1>1, OffersAre
  <2> QED BY <1>1, <2>1
<1> HIDE DEF p
<1>4. 1..Len(p) = {}
  BY <1>1
<1>5. FileOK(f, p, done, lost2, g, n)
  BY DEF FileOK
<1>6. Known(p, Clock(p), Epoch(p), done, lost2, g, n)
  BY <1>1, <1>2, <1>4 DEF Known
<1>7. Stamped(p, done, lost2, g, o \cup Offers(p))
  BY <1>3, <1>4 DEF Stamped
<1> QED BY <1>5, <1>6, <1>7 DEF p

-----------------------------------------------------------------------------
(* Compacting. *)

\* What is strictly more has more members.
LEMMA MoreMembers ==
    ASSUME NEW B, IsFiniteSet(B), NEW A \in SUBSET B, NEW x \in B, x \notin A
    PROVE  Cardinality(A) \in Nat /\ Cardinality(B) \in Nat /\ Cardinality(A) < Cardinality(B)
<1>1. IsFiniteSet(A) /\ Cardinality(A) <= Cardinality(B) /\ (Cardinality(B) = Cardinality(A) => B = A)
  BY FS_Subset
<1>2. Cardinality(A) \in Nat /\ Cardinality(B) \in Nat
  BY <1>1, FS_CardinalityType
<1>3. A # B
  OBVIOUS
<1> QED BY <1>1, <1>2, <1>3

\* The snapshot has every entry again, as the node's own of the next epoch, with
\* numbers of their own and clocks that run on.
LEMMA SnapshotIs ==
    ASSUME entries \in Seq(Entry), lamport \in Nat, epoch \in Nat, epoch < MaxEpoch, MaxEpoch \in Nat
    PROVE  /\ Snapshot \in Seq(Entry) /\ Len(Snapshot) = Len(entries)
           /\ Cardinality(Globals(entries)) \in Nat
           /\ \A i \in 1..Len(entries) :
                /\ Snapshot[i].change = entries[i].change /\ Snapshot[i].own
                /\ Snapshot[i].global = entries[i].global /\ Snapshot[i].epoch = epoch + 1
                /\ Snapshot[i].clock <= lamport + Cardinality(Globals(entries))
           /\ \A i, j \in 1..Len(entries) : i < j /\ entries[j].global =>
                /\ Snapshot[i].clock < Snapshot[j].clock
                /\ entries[i].global => Snapshot[i].seq # Snapshot[j].seq
<1> DEFINE N == Len(entries)
           Gs == Globals(entries)
           Below(i) == {k \in Gs : k < i}
           UpTo(i) == {k \in Gs : k <= i}
<1>1. N \in Nat /\ DOMAIN entries = 1..N /\ \A i \in 1..N : entries[i] \in Entry
  OBVIOUS
<1>2. Gs \subseteq 1..N /\ IsFiniteSet(Gs) /\ Cardinality(Gs) \in Nat
      /\ \A i \in 1..N : i \in Gs <=> entries[i].global
  <2>1. Gs \in SUBSET (1..N) /\ \A i \in 1..N : i \in Gs <=> entries[i].global
    BY <1>1 DEF Globals
  <2>2. IsFiniteSet(1..N)
    BY <1>1, FS_Interval
  <2>3. IsFiniteSet(Gs)
    BY <2>1, <2>2, FS_Subset
  <2> QED BY <2>1, <2>3, FS_CardinalityType
<1>3. \A i \in 1..N : /\ Cardinality(Below(i)) \in Nat /\ Cardinality(UpTo(i)) \in Nat
                      /\ Cardinality(UpTo(i)) <= Cardinality(Gs)
  <2> SUFFICES ASSUME NEW i \in 1..N
               PROVE  /\ Cardinality(Below(i)) \in Nat /\ Cardinality(UpTo(i)) \in Nat
                      /\ Cardinality(UpTo(i)) <= Cardinality(Gs)
    OBVIOUS
  <2>1. Below(i) \in SUBSET Gs /\ UpTo(i) \in SUBSET Gs
    OBVIOUS
  <2> HIDE DEF Below, UpTo, Gs
  <2>2. IsFiniteSet(Below(i)) /\ IsFiniteSet(UpTo(i)) /\ Cardinality(UpTo(i)) <= Cardinality(Gs)
    BY <1>2, <2>1, FS_Subset
  <2> QED BY <2>2, FS_CardinalityType
<1>4. ASSUME NEW i \in 1..N, NEW j \in 1..N, i < j, j \in Gs
      PROVE  /\ Cardinality(UpTo(i)) < Cardinality(UpTo(j)) /\ 0 < Cardinality(UpTo(j))
             /\ i \in Gs => Cardinality(Below(i)) < Cardinality(Below(j))
  <2>1. UpTo(i) \in SUBSET UpTo(j) /\ j \in UpTo(j) /\ j \notin UpTo(i) /\ UpTo(j) \in SUBSET Gs
    BY <1>2, <1>4
  <2>2. Below(j) \in SUBSET Gs /\ Below(i) \in SUBSET Below(j) /\ i \notin Below(i)
        /\ (i \in Gs => i \in Below(j))
    BY <1>2, <1>4
  <2> HIDE DEF Below, UpTo, Gs
  <2>3. IsFiniteSet(UpTo(j)) /\ IsFiniteSet(Below(j))
    BY <1>2, <2>1, <2>2, FS_Subset
  <2>4. Cardinality(UpTo(i)) < Cardinality(UpTo(j))
    BY <2>1, <2>3, MoreMembers
  <2>5. i \in Gs => Cardinality(Below(i)) < Cardinality(Below(j))
    BY <2>2, <2>3, MoreMembers
  <2> QED BY <1>3, <2>4, <2>5
<1>5. /\ DOMAIN Snapshot = 1..N
      /\ \A i \in 1..N : Snapshot[i] =
           [change |-> entries[i].change, own |-> TRUE, global |-> entries[i].global, epoch |-> epoch + 1,
            seq |-> IF entries[i].global THEN Cardinality(Below(i)) ELSE 0,
            clock |-> IF entries[i].global THEN lamport + Cardinality(UpTo(i)) ELSE 0]
  BY <1>1 DEF Snapshot
<1> HIDE DEF Below, UpTo, Gs
<1>6. \A i \in 1..N :
        /\ Snapshot[i].change = entries[i].change /\ Snapshot[i].own
        /\ Snapshot[i].global = entries[i].global /\ Snapshot[i].epoch = epoch + 1
        /\ Snapshot[i].seq = IF entries[i].global THEN Cardinality(Below(i)) ELSE 0
        /\ Snapshot[i].clock = IF entries[i].global THEN lamport + Cardinality(UpTo(i)) ELSE 0
  BY <1>5
<1>7. \A i \in 1..N : Snapshot[i] \in Entry
  <2> SUFFICES ASSUME NEW i \in 1..N PROVE Snapshot[i] \in Entry
    OBVIOUS
  <2>1. entries[i].change \in Nat /\ entries[i].global \in BOOLEAN
    BY <1>1 DEF Entry
  <2>2. epoch + 1 \in 0..MaxEpoch
    OBVIOUS
  <2>3. /\ (IF entries[i].global THEN Cardinality(Below(i)) ELSE 0) \in Nat
        /\ (IF entries[i].global THEN lamport + Cardinality(UpTo(i)) ELSE 0) \in Nat
    BY <1>3
  <2>4. \A a \in Nat, b \in BOOLEAN, c \in 0..MaxEpoch, d \in Nat, e \in Nat :
          [change |-> a, own |-> TRUE, global |-> b, epoch |-> c, seq |-> d, clock |-> e] \in Entry
    BY DEF Entry
  <2> QED BY <1>5, <2>1, <2>2, <2>3, <2>4
<1>8. Snapshot \in Seq(Entry) /\ Len(Snapshot) = N
  <2>1. Snapshot \in [1..N -> Entry]
    <3>1. Snapshot = [i \in 1..N |-> Snapshot[i]]
      BY <1>1 DEF Snapshot
    <3> QED BY <1>7, <3>1
  <2> QED BY <1>1, <2>1
<1>9. ASSUME NEW i \in 1..N PROVE Snapshot[i].clock <= lamport + Cardinality(Gs)
  <2>1. Cardinality(UpTo(i)) \in Nat /\ Cardinality(UpTo(i)) <= Cardinality(Gs)
    BY <1>3
  <2>2. Snapshot[i].clock = 0 \/ Snapshot[i].clock = lamport + Cardinality(UpTo(i))
    BY <1>6
  <2> QED BY <1>2, <2>1, <2>2
<1>10. ASSUME NEW i \in 1..N, NEW j \in 1..N, i < j, entries[j].global
       PROVE  /\ Snapshot[i].clock < Snapshot[j].clock
              /\ entries[i].global => Snapshot[i].seq # Snapshot[j].seq
  <2>1. j \in Gs /\ (entries[i].global => i \in Gs)
    BY <1>2, <1>10
  <2>2. /\ Cardinality(UpTo(i)) < Cardinality(UpTo(j)) /\ 0 < Cardinality(UpTo(j))
        /\ entries[i].global => Cardinality(Below(i)) < Cardinality(Below(j))
    BY <1>4, <1>10, <2>1
  <2>3. /\ Cardinality(UpTo(i)) \in Nat /\ Cardinality(UpTo(j)) \in Nat
        /\ Cardinality(Below(i)) \in Nat /\ Cardinality(Below(j)) \in Nat
    BY <1>3
  <2>4. Snapshot[i].clock < Snapshot[j].clock
    BY <1>6, <1>10, <2>2, <2>3
  <2>5. entries[i].global => Snapshot[i].seq # Snapshot[j].seq
    BY <1>6, <1>10, <2>2, <2>3
  <2> QED BY <2>4, <2>5
<1> QED BY <1>2, <1>6, <1>8, <1>9, <1>10 DEF Gs

\* The file that a compaction writes, what it leaves in memory and what it
\* offers are right, and nothing of memory is lost any more.
LEMMA CompactedRight ==
    ASSUME NEW done, NEW lost, NEW g, NEW n, NEW o, MaxEpoch \in Nat, epoch < MaxEpoch,
           Known(entries, lamport, epoch, done, lost, g, n), Stamped(entries, done, lost, g, o)
    PROVE  /\ FileOK(Compacted, Snapshot, done, lost \ Names(entries), g, n) /\ Readable(Compacted)
           /\ Known(Snapshot, lamport + Cardinality(Globals(entries)), epoch + 1, done,
                    lost \ Names(entries), g, n)
           /\ Stamped(Snapshot, done, lost \ Names(entries), g, o \cup Offers(Snapshot))
<1> DEFINE N == Len(entries)
           lost2 == lost \ Names(entries)
           f == Compacted
           new == Offers(Snapshot)
           lam == lamport + Cardinality(Globals(entries))
<1>1. /\ entries \in Seq(Entry) /\ lamport \in Nat /\ epoch \in Nat /\ n \in Nat
      /\ done \cup lost \cup g \subseteq 1..n
      /\ \A i, j \in 1..N : entries[i].change = entries[j].change => i = j
      /\ \A i \in 1..N : entries[i].change \in done \cup g
      /\ \A c \in done : c \in lost \/ \E i \in 1..N : entries[i].change = c
      /\ \A i \in 1..N : entries[i].own => entries[i].epoch <= epoch
  BY DEF Known
<1>2. /\ Snapshot \in Seq(Entry) /\ Len(Snapshot) = N
      /\ Cardinality(Globals(entries)) \in Nat
      /\ \A i \in 1..N :
           /\ Snapshot[i].change = entries[i].change /\ Snapshot[i].own
           /\ Snapshot[i].global = entries[i].global /\ Snapshot[i].epoch = epoch + 1
           /\ Snapshot[i].clock <= lam
      /\ \A i, j \in 1..N : i < j /\ entries[j].global =>
           /\ Snapshot[i].clock < Snapshot[j].clock
           /\ entries[i].global => Snapshot[i].seq # Snapshot[j].seq
  BY <1>1, SnapshotIs
<1>3. N \in Nat /\ DOMAIN entries = 1..N
  BY <1>1
<1>4. \A c : c \in Names(entries) <=> \E i \in 1..N : entries[i].change = c
  BY <1>3 DEF Names
<1>5. /\ f.ended = TRUE /\ Len(f.lines) = N /\ Shape(f)
      /\ \A i \in 1..N : f.lines[i] = <<Piece(Snapshot[i], "whole")>>
  <2>1. f = [lines |-> [i \in 1..N |-> <<Piece(Snapshot[i], "whole")>>], ended |-> TRUE]
    BY <1>3 DEF Compacted
  <2>2. \A i \in 1..N : <<Piece(Snapshot[i], "whole")>> \in Line
    <3> SUFFICES ASSUME NEW i \in 1..N PROVE <<Piece(Snapshot[i], "whole")>> \in Line
      OBVIOUS
    <3>1. Snapshot[i] \in Entry
      BY <1>2
    <3>2. Piece(Snapshot[i], "whole") \in [entry : Entry, text : Text]
      BY <3>1 DEF Piece, Text
    <3> QED BY <3>2 DEF Line
  <2>3. f.lines \in [1..N -> Line] /\ f.ended = TRUE /\ f = [lines |-> f.lines, ended |-> f.ended]
        /\ \A i \in 1..N : f.lines[i] = <<Piece(Snapshot[i], "whole")>>
    BY <2>1, <2>2
  <2> HIDE DEF f
  <2>4. f.lines \in Seq(Line) /\ Len(f.lines) = N
    BY <1>3, <2>3
  <2>5. ASSUME NEW i \in 1..N PROVE Len(f.lines[i]) >= 1
    <3>1. f.lines[i] = <<Piece(Snapshot[i], "whole")>>
      BY <2>3
    <3> QED BY <3>1
  <2>6. f \in [lines : Seq(Line), ended : BOOLEAN]
    BY <2>3, <2>4
  <2> QED BY <2>3, <2>4, <2>5, <2>6 DEF Shape
<1>6. \A i \in 1..N : Len(f.lines[i]) = 1 /\ f.lines[i][1].entry = Snapshot[i] /\ f.lines[i][1].text = "whole"
  <2> SUFFICES ASSUME NEW i \in 1..N
               PROVE  Len(f.lines[i]) = 1 /\ f.lines[i][1].entry = Snapshot[i] /\ f.lines[i][1].text = "whole"
    OBVIOUS
  <2>1. f.lines[i] = <<Piece(Snapshot[i], "whole")>>
    BY <1>5
  <2> QED BY <2>1 DEF Piece
<1> HIDE DEF f, new, lam
<1>7. \A i \in 1..N : Whole(f.lines[i]) /\ Finished(f, i) /\ At(f, i) = Snapshot[i]
  BY <1>5, <1>6 DEF Whole, Finished, At
<1>8. Readable(f)
  <2>1. DOMAIN f.lines = 1..N /\ \A i \in 1..N : DOMAIN f.lines[i] = 1..1
    BY <1>3, <1>5, <1>6 DEF Shape, Line
  <2> QED BY <1>6, <2>1 DEF Readable
<1>9. \A i \in 1..N : \A k \in 1..Len(f.lines[i]) : f.lines[i][k].entry.change \in 1..n
  <2> SUFFICES ASSUME NEW i \in 1..N, NEW k \in 1..Len(f.lines[i])
               PROVE  f.lines[i][k].entry.change \in 1..n
    OBVIOUS
  <2>1. k = 1
    <3>1. Len(f.lines[i]) = 1
      BY <1>6
    <3> QED BY <3>1
  <2>2. f.lines[i][k].entry.change = entries[i].change
    BY <1>2, <1>6, <2>1
  <2> QED BY <1>1, <2>2
<1>10. ASSUME NEW c \in done, c \notin lost2 PROVE \E i \in 1..N : Snapshot[i].change = c
  <2>1. \E i \in 1..N : entries[i].change = c
    BY <1>1, <1>4, <1>10
  <2>2. PICK i \in 1..N : entries[i].change = c
    BY <2>1
  <2>3. Snapshot[i].change = c
    BY <1>2, <2>2
  <2> QED BY <2>3
<1>11. Reads(f, Snapshot, done, lost2, g)
  <2>1. \A i, j \in 1..N : At(f, i).change = At(f, j).change => i = j
    BY <1>1, <1>2, <1>7
  <2>2. \A i \in 1..N : \E k \in 1..Len(Snapshot) : Snapshot[k] = At(f, i)
    BY <1>2, <1>7
  <2>3. \A c \in done \ lost2 : \E i \in 1..N : Whole(f.lines[i]) /\ Finished(f, i) /\ At(f, i).change = c
    BY <1>7, <1>10
  <2>4. \A i, j \in 1..N : i < j /\ At(f, j).global => At(f, i).clock < At(f, j).clock
    BY <1>2, <1>7
  <2> QED BY <1>5, <2>1, <2>2, <2>3, <2>4 DEF Reads
<1>12. FileOK(f, Snapshot, done, lost2, g, n)
  BY <1>5, <1>9, <1>11 DEF FileOK
<1>13. Known(Snapshot, lam, epoch + 1, done, lost2, g, n)
  <2>1. lam \in Nat /\ epoch + 1 \in 0..MaxEpoch
    BY <1>1, <1>2 DEF lam
  <2>2. \A i, j \in 1..N : Snapshot[i].change = Snapshot[j].change => i = j
    BY <1>1, <1>2
  <2>3. \A i \in 1..N : Snapshot[i].change \in done \cup g
    BY <1>1, <1>2
  <2>4. \A i \in 1..N : Snapshot[i].clock <= lam /\ Snapshot[i].epoch <= epoch + 1
    BY <1>1, <1>2 DEF lam
  <2>5. \A i, j \in 1..N : i < j /\ Snapshot[j].global => Snapshot[i].clock < Snapshot[j].clock
    BY <1>2
  <2>6. done \cup lost2 \cup g \subseteq 1..n
    BY <1>1
  <2> QED BY <1>1, <1>2, <1>10, <2>1, <2>2, <2>3, <2>4, <2>5, <2>6 DEF Known
<1>14. /\ o \subseteq Stamp
       /\ \A x \in o : x.change \in done \cup g
       /\ \A x \in o : x.change \notin g =>
            \A i \in 1..N : entries[i].change = x.change => Follows(x, entries[i])
       /\ \A x, y \in o :
            x.epoch = y.epoch /\ x.seq = y.seq /\ x.change # y.change =>
              \E c \in {x.change, y.change} :
                 c \in g \/ (c \in lost /\ \A i \in 1..N : entries[i].change # c)
  BY DEF Stamped
<1>15. /\ \A x \in new : \E i \in 1..N : entries[i].global /\ x = StampOf(Snapshot[i])
       /\ new \subseteq Stamp
  <2>1. /\ \A x \in new : \E i \in 1..Len(Snapshot) : Snapshot[i].global /\ x = StampOf(Snapshot[i])
        /\ new \subseteq Stamp
    BY <1>2, OffersAre DEF new
  <2> QED BY <1>2, <2>1
<1>16. \A i \in 1..N : /\ StampOf(Snapshot[i]).epoch = epoch + 1
                       /\ StampOf(Snapshot[i]).seq = Snapshot[i].seq
                       /\ StampOf(Snapshot[i]).change = entries[i].change
  BY <1>2 DEF StampOf
<1>17. \A x \in o \cup new : x.change \in done \cup g
  BY <1>1, <1>14, <1>15, <1>16
<1>18. ASSUME NEW x \in o, x.change \notin g, NEW i \in 1..N, entries[i].change = x.change
       PROVE  x.epoch < epoch + 1 /\ entries[i].global
  <2>1. Follows(x, entries[i])
    BY <1>14, <1>18
  <2>2. entries[i] \in Entry /\ x \in Stamp
    BY <1>1, <1>14
  <2>3. entries[i].epoch \in Nat /\ x.epoch \in Nat
    BY <2>2 DEF Entry, Stamp
  <2>4. entries[i].own /\ entries[i].global /\ x.epoch <= entries[i].epoch
    BY <2>1, <2>3 DEF Follows
  <2> QED BY <1>1, <2>3, <2>4
<1>19. ASSUME NEW x \in o \cup new, x.change \notin g, NEW i \in 1..N, Snapshot[i].change = x.change
       PROVE  Follows(x, Snapshot[i])
  <2>1. CASE x \in o
    <3>1. x.epoch < epoch + 1 /\ entries[i].global
      BY <1>2, <1>18, <1>19, <2>1
    <3> QED BY <1>2, <3>1 DEF Follows
  <2>2. CASE x \in new
    <3>1. PICK j \in 1..N : entries[j].global /\ x = StampOf(Snapshot[j])
      BY <1>15, <2>2
    <3>2. j = i
      BY <1>1, <1>2, <1>16, <1>19, <3>1
    <3> QED BY <1>2, <1>16, <3>1, <3>2 DEF Follows
  <2> QED BY <2>1, <2>2
<1>20. \A c \in lost : (\A i \in 1..N : entries[i].change # c) =>
           c \in lost2 /\ \A i \in 1..N : Snapshot[i].change # c
  BY <1>2, <1>4
<1>21. ASSUME NEW y \in o, y.epoch = epoch + 1
       PROVE  y.change \in g \/ (y.change \in lost2 /\ \A i \in 1..N : Snapshot[i].change # y.change)
  <2>1. CASE \E i \in 1..N : entries[i].change = y.change
    <3>1. PICK i \in 1..N : entries[i].change = y.change
      BY <2>1
    <3>2. ~(y.epoch < epoch + 1)
      BY <1>1, <1>21
    <3> QED BY <1>18, <3>1, <3>2
  <2>2. CASE ~\E i \in 1..N : entries[i].change = y.change
    BY <1>1, <1>14, <1>20, <2>2
  <2> QED BY <2>1, <2>2
<1>22. ASSUME NEW x \in o \cup new, NEW y \in o \cup new,
              x.epoch = y.epoch, x.seq = y.seq, x.change # y.change
       PROVE  \E c \in {x.change, y.change} :
                 c \in g \/ (c \in lost2 /\ \A i \in 1..N : Snapshot[i].change # c)
  <2>1. CASE x \in o /\ y \in o
    BY <1>14, <1>20, <1>22, <2>1
  <2>2. CASE x \in new /\ y \in o
    <3>1. y.epoch = epoch + 1
      BY <1>15, <1>16, <1>22, <2>2
    <3> QED BY <1>21, <2>2, <3>1
  <2>3. CASE x \in o /\ y \in new
    <3>1. x.epoch = epoch + 1
      BY <1>15, <1>16, <1>22, <2>3
    <3> QED BY <1>21, <2>3, <3>1
  <2>4. CASE x \in new /\ y \in new
    <3>1. PICK i \in 1..N, j \in 1..N :
            entries[i].global /\ x = StampOf(Snapshot[i]) /\ entries[j].global /\ y = StampOf(Snapshot[j])
      BY <1>15, <2>4
    <3>2. i # j /\ Snapshot[i].seq = Snapshot[j].seq
      BY <1>16, <1>22, <3>1
    <3>3. ~(i < j) /\ ~(j < i)
      BY <1>2, <3>1, <3>2
    <3> QED BY <3>2, <3>3
  <2> QED BY <2>1, <2>2, <2>3, <2>4
<1>23. Stamped(Snapshot, done, lost2, g, o \cup new)
  BY <1>2, <1>14, <1>15, <1>17, <1>19, <1>22 DEF Stamped, new
<1> QED BY <1>8, <1>12, <1>13, <1>23 DEF f, lam, new

-----------------------------------------------------------------------------
(* The steps. *)

\* What of the invariant is about memory, by name.
InMemory(g, n) ==
    /\ Known(entries, lamport, epoch, acked, torn, g, n)
    /\ Stamped(entries, acked, torn, g, offered)

\* An entry that may be written next.
Writable(e) ==
    /\ e \in Entry /\ e.change = changes + 1
    /\ e.own => e.epoch <= epoch
    /\ e.own /\ e.global => lamport < e.clock /\ e.epoch = epoch /\ e.seq = next_seq

\* append stamps an entry that may be written.
LEMMA AuthoredWritable ==
    ASSUME Sorts, IInv, NEW global \in BOOLEAN
    PROVE  /\ Writable(Authored(changes + 1, global))
           /\ Authored(changes + 1, global).clock = IF global THEN lamport + 1 ELSE 0
<1>1. /\ entries \in Seq(Entry) /\ lamport \in Nat /\ epoch \in 0..MaxEpoch /\ changes \in Nat
  BY DEF IInv, Known
<1>2. next_seq \in Nat
  BY <1>1, NextSeqIsPast
<1> DEFINE e == Authored(changes + 1, global)
<1>3. /\ e.change = changes + 1 /\ e.own = TRUE /\ e.global = global
      /\ e.epoch = IF global THEN epoch ELSE 0
      /\ e.seq = IF global THEN next_seq ELSE 0
      /\ e.clock = IF global THEN lamport + 1 ELSE 0
  BY DEF Authored
<1>4. MaxEpoch \in Nat /\ 0 \in 0..MaxEpoch
  BY DEF Sorts
<1>5. e \in Entry
  <2>1. \A a \in Nat, b \in BOOLEAN, c \in 0..MaxEpoch, d \in Nat, k \in Nat :
          [change |-> a, own |-> TRUE, global |-> b, epoch |-> c, seq |-> d, clock |-> k] \in Entry
    BY DEF Entry
  <2>2. /\ changes + 1 \in Nat
        /\ (IF global THEN epoch ELSE 0) \in 0..MaxEpoch
        /\ (IF global THEN next_seq ELSE 0) \in Nat
        /\ (IF global THEN lamport + 1 ELSE 0) \in Nat
    BY <1>1, <1>2, <1>4
  <2> QED BY <2>1, <2>2 DEF Authored
<1> HIDE DEF e
<1>6. Writable(e)
  BY <1>1, <1>3, <1>5 DEF Writable
<1> QED BY <1>3, <1>6 DEF e

\* Reported as done: the entry is on a line, or glued to one that has no end.
LEMMA Writes ==
    ASSUME Sorts, IInv, NEW e, Writable(e), Persisted(e),
           lamport' \in Nat, lamport <= lamport', e.clock <= lamport'
    PROVE  IInv'
<1> DEFINE n == changes
<1>1. /\ FileOK(file, entries, acked, torn, ghosts, n)
      /\ Known(entries, lamport, epoch, acked, torn, ghosts, n)
      /\ Stamped(entries, acked, torn, ghosts, offered)
      /\ handle \in {"none", "current"}
  BY DEF IInv
<1>2. /\ entries \in Seq(Entry) /\ lamport \in Nat /\ n \in Nat /\ MaxEpoch \in Nat
      /\ acked \cup torn \cup ghosts \subseteq 1..n
      /\ \A i \in 1..Len(entries) : entries[i] \in Entry /\ entries[i].clock <= lamport
  BY <1>1 DEF Known, Sorts
<1>3. /\ e \in Entry /\ e.change = n + 1 /\ (e.own => e.epoch <= epoch)
      /\ e.own /\ e.global => lamport < e.clock /\ e.epoch = epoch /\ e.seq = next_seq
  BY DEF Writable
<1>4. /\ file' = Put(file, Piece(e, "whole"), TRUE) /\ synced' = file'
      /\ entries' = Append(entries, e) /\ acked' = acked \cup {n + 1}
      /\ offered' = offered \cup Offers(<<e>>)
      /\ torn' = IF file.ended THEN torn ELSE torn \cup {n + 1}
      /\ changes' = n + 1 /\ epoch' = epoch /\ ghosts' = ghosts
      /\ handle' \in {"none", "current"}
  BY <1>1, <1>3 DEF Persisted, Reach, Sync
<1>5. torn \subseteq torn' /\ torn' \subseteq torn \cup {n + 1}
  BY <1>4
<1>6. FileOK(file', entries', acked', torn', ghosts', n + 1)
  <2>1. /\ entries' \in Seq(Entry)
        /\ \A k \in 1..Len(entries) : k \in 1..Len(entries') /\ entries'[k] = entries[k]
        /\ Len(entries) + 1 \in 1..Len(entries') /\ entries'[Len(entries) + 1] = e
    <3>1. /\ Append(entries, e) \in Seq(Entry) /\ Len(entries) \in Nat
          /\ Len(Append(entries, e)) = Len(entries) + 1
          /\ \A i \in 1..Len(entries) : i \in 1..Len(Append(entries, e)) /\ Append(entries, e)[i] = entries[i]
          /\ Append(entries, e)[Len(entries) + 1] = e
      BY <1>2, <1>3, Appended
    <3> QED BY <1>4, <3>1
  <2>2. \A c \in acked' \ torn' : c \in acked \ torn \/ (c = n + 1 /\ file.ended)
    BY <1>4
  <2>3. e.own /\ e.global => \A k \in 1..Len(entries) : entries[k].clock < e.clock
    <3> SUFFICES ASSUME e.own, e.global, NEW k \in 1..Len(entries)
                 PROVE  entries[k].clock < e.clock
      OBVIOUS
    <3>1. entries[k] \in Entry /\ entries[k].clock <= lamport
      BY <1>2
    <3>2. entries[k].clock \in Nat /\ e.clock \in Nat
      BY <1>3, <3>1 DEF Entry
    <3> QED BY <1>2, <1>3, <3>1, <3>2
  <2>4. \E k \in 1..Len(entries') : entries'[k] = e
    BY <2>1
  <2>5. PICK text \in Text, nl \in BOOLEAN : text = "whole" /\ nl = TRUE
    BY DEF Text
  <2>6. \A c \in acked' \ torn' :
          c \in acked \ torn \/ (c = n + 1 /\ file.ended /\ text = "whole" /\ nl)
    BY <2>2, <2>5
  <2>7. text = "whole" /\ file.ended /\ Readable(file') =>
          n + 1 \in ghosts' \/ \E k \in 1..Len(entries') : entries'[k] = e
    BY <2>4
  <2>8. file' = Put(file, Piece(e, text), nl) /\ ghosts \subseteq ghosts'
    BY <1>4, <2>5
  <2> HIDE DEF n
  <2> QED BY <1>1, <1>2, <1>3, <2>1, <2>3, <2>6, <2>7, <2>8, WrittenFile
<1>7. Known(entries', lamport', epoch', acked', torn', ghosts', n + 1)
  BY <1>1, <1>3, <1>4, <1>5, KnownGrows
<1>8. Stamped(entries', acked', torn', ghosts', offered')
  <2>1. \A i \in 1..Len(entries) :
          entries[i].own /\ entries[i].global /\ entries[i].epoch = epoch
          => entries[i].seq < next_seq
    BY <1>2, NextSeqIsPast
  <2> HIDE DEF n
  <2> QED BY <1>1, <1>2, <1>3, <1>4, <1>5, <2>1, StampedGrows
<1> QED BY <1>4, <1>6, <1>7, <1>8 DEF IInv

\* Reported as failed: whatever is in the file, it is a ghost if it can be read.
LEMMA WritesInPart ==
    ASSUME Sorts, IInv, NEW e, Writable(e), NEW f \in Failures(e),
           NEW g2, ghosts \subseteq g2, g2 \subseteq ghosts \cup {changes + 1},
           changes + 1 \in Names(Parsed(f)) => changes + 1 \in g2
    PROVE  /\ FileOK(f, entries, acked, torn, g2, changes + 1)
           /\ FileOK(synced, entries, acked, torn, g2, changes + 1)
           /\ InMemory(g2, changes + 1)
<1> DEFINE n == changes
<1>1. /\ FileOK(file, entries, acked, torn, ghosts, n)
      /\ FileOK(synced, entries, acked, torn, ghosts, n)
      /\ Known(entries, lamport, epoch, acked, torn, ghosts, n)
      /\ Stamped(entries, acked, torn, ghosts, offered)
      /\ handle # "old"
  BY DEF IInv
<1>2. /\ entries \in Seq(Entry) /\ lamport \in Nat /\ n \in Nat /\ MaxEpoch \in Nat
      /\ epoch \in 0..MaxEpoch /\ Offers(entries) \subseteq offered
      /\ acked \cup torn \cup ghosts \subseteq 1..n
      /\ \A i \in 1..Len(entries) : entries[i] \in Entry /\ entries[i].clock <= lamport
  BY <1>1 DEF Known, Stamped, Sorts
<1>3. /\ e \in Entry /\ e.change = n + 1
      /\ e.own /\ e.global => lamport < e.clock
  BY DEF Writable
<1>4. n + 1 \in Nat /\ n <= n + 1 /\ torn \subseteq torn
      /\ torn \subseteq 1..(n + 1) /\ g2 \subseteq 1..(n + 1)
  <2>1. \A c \in 1..n : c \in 1..(n + 1)
    BY <1>2
  <2> QED BY <1>2, <2>1
<1>5. \/ f = file
      \/ \E text \in Text, nl \in BOOLEAN : f = Put(file, Piece(e, text), nl)
  BY <1>1 DEF Failures, Reach, Text
<1>6. FileOK(f, entries, acked, torn, g2, n + 1)
  <2>1. CASE f = file
    BY <1>1, <1>2, <1>4, <2>1, FileStays
  <2>2. CASE \E text \in Text, nl \in BOOLEAN : f = Put(file, Piece(e, text), nl)
    <3>1. PICK text \in Text, nl \in BOOLEAN : f = Put(file, Piece(e, text), nl)
      BY <2>2
    <3>2. text = "whole" /\ file.ended /\ Readable(f) => n + 1 \in g2
      <4> SUFFICES ASSUME text = "whole", file.ended, Readable(f) PROVE n + 1 \in g2
        OBVIOUS
      <4> DEFINE L == Len(file.lines)
      <4>1. Piece(e, text) \in [entry : Entry, text : Text] /\ Piece(e, text).entry = e
            /\ Piece(e, text).text = text
        BY <1>3 DEF Piece
      <4>2. Shape(file)
        BY <1>1 DEF FileOK
      <4>3. Shape(f) /\ L \in Nat
        BY <3>1, <4>1, <4>2, PutLines
      <4>4. Len(f.lines) = L + 1 /\ Whole(f.lines[L + 1]) /\ At(f, L + 1) = e
        BY <3>1, <4>1, <4>2, WrittenLines
      <4>5. L + 1 \in 1..Len(f.lines)
        BY <4>3, <4>4
      <4>6. Parsed(f) \in Seq(Entry) /\ \E k \in 1..Len(Parsed(f)) : Parsed(f)[k] = At(f, L + 1)
        BY <4>3, <4>4, <4>5, ParsedReads
      <4>7. PICK k \in 1..Len(Parsed(f)) : Parsed(f)[k] = e
        BY <4>4, <4>6
      <4>8. k \in DOMAIN Parsed(f) /\ Parsed(f)[k].change = n + 1
        BY <1>3, <4>6, <4>7
      <4> QED BY <4>8 DEF Names
    <3>3. e.own /\ e.global => \A k \in 1..Len(entries) : entries[k].clock < e.clock
      <4> SUFFICES ASSUME e.own, e.global, NEW k \in 1..Len(entries)
                   PROVE  entries[k].clock < e.clock
        OBVIOUS
      <4>1. entries[k] \in Entry /\ entries[k].clock <= lamport
        BY <1>2
      <4>2. entries[k].clock \in Nat /\ e.clock \in Nat
        BY <1>3, <4>1 DEF Entry
      <4> QED BY <1>2, <1>3, <4>1, <4>2
    <3>4. \A c \in acked \ torn : c \in acked \ torn
      OBVIOUS
    <3> HIDE DEF n
    <3> QED BY <1>1, <1>2, <1>3, <3>1, <3>2, <3>3, <3>4, WrittenFile
  <2> QED BY <1>5, <2>1, <2>2
<1>7. FileOK(synced, entries, acked, torn, g2, n + 1)
  BY <1>1, <1>2, <1>4, FileStays
<1>8. Known(entries, lamport, epoch, acked, torn, g2, n + 1)
  <2>1. lamport <= lamport /\ epoch <= epoch
    BY <1>2
  <2> HIDE DEF n
  <2> QED BY <1>1, <1>2, <1>4, <2>1, KnownStays
<1>9. Stamped(entries, acked, torn, g2, offered)
  BY <1>1, <1>2, <1>4, StampedStays
<1> QED BY <1>6, <1>7, <1>8, <1>9 DEF InMemory

\* A failed write leaves the process with a clock that may have ticked.
LEMMA Fails ==
    ASSUME Sorts, IInv, NEW e, Writable(e), Failed(e), lamport' \in Nat, lamport <= lamport'
    PROVE  IInv'
<1>1. /\ file' \in Failures(e) /\ synced' = synced /\ entries' = entries /\ epoch' = epoch
      /\ acked' = acked /\ offered' = offered /\ torn' = torn /\ changes' = changes + 1
      /\ ghosts' = IF e.change \in Names(Parsed(file')) THEN ghosts \cup {e.change} ELSE ghosts
      /\ handle' \in {handle, "current"}
  BY DEF Failed
<1>2. e.change = changes + 1
  BY DEF Writable
<1>3. /\ ghosts \subseteq ghosts' /\ ghosts' \subseteq ghosts \cup {changes + 1}
      /\ changes + 1 \in Names(Parsed(file')) => changes + 1 \in ghosts'
  BY <1>1, <1>2
<1>4. /\ FileOK(file', entries, acked, torn, ghosts', changes + 1)
      /\ FileOK(synced, entries, acked, torn, ghosts', changes + 1)
      /\ InMemory(ghosts', changes + 1)
  BY <1>1, <1>3, WritesInPart
<1>5. Known(entries, lamport', epoch, acked, torn, ghosts', changes + 1)
  <2>1. Known(entries, lamport, epoch, acked, torn, ghosts', changes + 1)
    BY <1>4 DEF InMemory
  <2>2. /\ epoch \in 0..MaxEpoch /\ epoch <= epoch /\ changes + 1 \in Nat
        /\ changes + 1 <= changes + 1 /\ torn \subseteq 1..(changes + 1)
        /\ ghosts' \subseteq 1..(changes + 1) /\ MaxEpoch \in Nat
    BY <2>1 DEF Known, Sorts
  <2> QED BY <2>1, <2>2, KnownStays
<1>6. handle' \in {"none", "current"}
  BY <1>1 DEF IInv
<1> QED BY <1>1, <1>4, <1>5, <1>6 DEF IInv, InMemory

\* A process that opens what there is starts in order.
LEMMA Opens ==
    ASSUME Sorts, NEW f, NEW g, NEW n, FileOK(f, entries, acked, torn, g, n), InMemory(g, n),
           Open(f), acked' = acked, ghosts' = g, changes' = n,
           ~Readable(f) => acked \cup g \subseteq 1..changes /\ 1..changes \subseteq 1..n
    PROVE  IInv'
<1>1. /\ Known(entries, lamport, epoch, acked, torn, g, n)
      /\ Stamped(entries, acked, torn, g, offered) /\ MaxEpoch \in Nat
  BY DEF InMemory, Sorts
<1>2. /\ file' = f /\ synced' = f /\ handle' = "none"
      /\ entries' = Parsed(f)
      /\ lamport' = Clock(Parsed(f)) /\ epoch' = Epoch(Parsed(f))
      /\ offered' = offered \cup Offers(Parsed(f))
      /\ torn' = IF Readable(f) THEN torn ELSE 1..changes
  BY DEF Open
<1>3. /\ FileOK(f, Parsed(f), acked, torn', g, n)
      /\ Known(Parsed(f), Clock(Parsed(f)), Epoch(Parsed(f)), acked, torn', g, n)
      /\ Stamped(Parsed(f), acked, torn', g, offered \cup Offers(Parsed(f)))
  <2>1. CASE Readable(f)
    <3>1. torn' = torn
      BY <1>2, <2>1
    <3> QED BY <1>1, <2>1, <3>1, OpenRight
  <2>2. CASE ~Readable(f)
    <3>1. acked \cup g \subseteq torn' /\ torn' \subseteq 1..n
      BY <1>2, <2>2
    <3> QED BY <1>1, <2>2, <3>1, OpenWrong
  <2> QED BY <2>1, <2>2
<1> QED BY <1>2, <1>3 DEF IInv

\* A crash, between two writes or in the middle of one.
LEMMA Crashes == ASSUME Sorts, IInv, Crash PROVE IInv'
<1>1. changes \in Nat /\ acked \cup torn \cup ghosts \subseteq 1..changes
  BY DEF IInv, Known
<1>2. acked' = acked
  BY DEF Crash
<1>3. CASE \E f \in {file, synced} : Open(f) /\ UNCHANGED <<ghosts, changes>>
  <2>1. PICK f \in {file, synced} : Open(f) /\ UNCHANGED <<ghosts, changes>>
    BY <1>3
  <2>2. FileOK(f, entries, acked, torn, ghosts, changes) /\ InMemory(ghosts, changes)
    BY DEF IInv, InMemory
  <2>3. acked \cup ghosts \subseteq 1..changes /\ 1..changes \subseteq 1..changes
    BY <1>1
  <2> QED BY <1>2, <2>1, <2>2, <2>3, Opens
<1>4. CASE /\ changes' = changes + 1
           /\ \E f \in Failures(Authored(changes + 1, TRUE)) :
                /\ Open(f)
                /\ ghosts' = ghosts \cup ({changes + 1} \cap Names(Parsed(f)))
  <2>1. PICK f \in Failures(Authored(changes + 1, TRUE)) :
          Open(f) /\ ghosts' = ghosts \cup ({changes + 1} \cap Names(Parsed(f)))
    BY <1>4
  <2>2. Writable(Authored(changes + 1, TRUE))
    BY AuthoredWritable
  <2>3. /\ ghosts \subseteq ghosts' /\ ghosts' \subseteq ghosts \cup {changes + 1}
        /\ changes + 1 \in Names(Parsed(f)) => changes + 1 \in ghosts'
    BY <2>1
  <2>4. FileOK(f, entries, acked, torn, ghosts', changes + 1) /\ InMemory(ghosts', changes + 1)
    BY <2>2, <2>3, WritesInPart
  <2>5. ~Readable(f) => acked \cup ghosts' \subseteq 1..changes
    <3>1. ~Readable(f) => Names(Parsed(f)) = {}
      BY ParsedNothing DEF Names
    <3> QED BY <1>1, <2>1, <3>1
  <2>6. 1..changes \subseteq 1..(changes + 1)
    BY <1>1
  <2> QED BY <1>2, <1>4, <2>1, <2>4, <2>5, <2>6, Opens
<1> QED BY <1>3, <1>4 DEF Crash

\* A compaction, done.
LEMMA Compacts == ASSUME Sorts, IInv, Compact PROVE IInv'
<1>1. /\ epoch < MaxEpoch /\ MaxEpoch \in Nat
      /\ Known(entries, lamport, epoch, acked, torn, ghosts, changes)
      /\ Stamped(entries, acked, torn, ghosts, offered)
  BY DEF Compact, IInv, Sorts
<1>2. /\ FileOK(Compacted, Snapshot, acked, torn \ Names(entries), ghosts, changes)
      /\ Known(Snapshot, lamport + Cardinality(Globals(entries)), epoch + 1, acked,
               torn \ Names(entries), ghosts, changes)
      /\ Stamped(Snapshot, acked, torn \ Names(entries), ghosts, offered \cup Offers(Snapshot))
  BY <1>1, CompactedRight
<1>3. /\ file' = Compacted /\ synced' = Compacted /\ handle' = "none" /\ entries' = Snapshot
      /\ epoch' = epoch + 1 /\ lamport' = lamport + Cardinality(Globals(entries))
      /\ torn' = torn \ Names(entries) /\ offered' = offered \cup Offers(Snapshot)
      /\ acked' = acked /\ ghosts' = ghosts /\ changes' = changes
  BY DEF Compact, Closed
<1> QED BY <1>2, <1>3 DEF IInv

\* A compaction that fails before the rename.
LEMMA CompactionFails == ASSUME Sorts, IInv, CompactFails PROVE IInv'
<1>1. /\ epoch < MaxEpoch /\ MaxEpoch \in Nat
      /\ entries \in Seq(Entry) /\ lamport \in Nat /\ epoch \in 0..MaxEpoch /\ changes \in Nat
      /\ torn \subseteq 1..changes /\ ghosts \subseteq 1..changes
  BY DEF CompactFails, IInv, Known, Sorts
<1>2. Cardinality(Globals(entries)) \in Nat
  BY <1>1, SnapshotIs
<1>3. /\ epoch' = epoch + 1 /\ lamport' = lamport + Cardinality(Globals(entries))
      /\ UNCHANGED <<file, synced, handle, entries, acked, offered, ghosts, torn, changes>>
  BY DEF CompactFails
<1>4. /\ lamport' \in Nat /\ lamport <= lamport' /\ epoch' \in 0..MaxEpoch /\ epoch <= epoch'
      /\ changes <= changes /\ torn \subseteq torn /\ ghosts \subseteq ghosts
  BY <1>1, <1>2, <1>3
<1>5. Known(entries, lamport, epoch, acked, torn, ghosts, changes)
  BY DEF IInv
<1>6. Known(entries, lamport', epoch', acked, torn, ghosts, changes)
  BY <1>1, <1>4, <1>5, KnownStays
<1> QED BY <1>3, <1>6 DEF IInv

\* A crash after the rename: the next process reads the new file.
LEMMA CompactionCrashes == ASSUME Sorts, IInv, CompactCrashes PROVE IInv'
<1> DEFINE lost == torn \ Names(entries)
           p == Parsed(Compacted)
<1>1. /\ epoch < MaxEpoch /\ MaxEpoch \in Nat
      /\ Known(entries, lamport, epoch, acked, torn, ghosts, changes)
      /\ Stamped(entries, acked, torn, ghosts, offered)
      /\ changes \in Nat /\ torn \subseteq 1..changes /\ ghosts \subseteq 1..changes
  BY DEF CompactCrashes, IInv, Known, Sorts
<1>2. /\ FileOK(Compacted, Snapshot, acked, lost, ghosts, changes) /\ Readable(Compacted)
      /\ Known(Snapshot, lamport + Cardinality(Globals(entries)), epoch + 1, acked,
               lost, ghosts, changes)
      /\ Stamped(Snapshot, acked, lost, ghosts, offered \cup Offers(Snapshot))
  BY <1>1, CompactedRight
<1>3. /\ FileOK(Compacted, p, acked, lost, ghosts, changes)
      /\ Known(p, Clock(p), Epoch(p), acked, lost, ghosts, changes)
      /\ Stamped(p, acked, lost, ghosts, (offered \cup Offers(Snapshot)) \cup Offers(p))
  BY <1>1, <1>2, OpenRight
<1>4. /\ file' = Compacted /\ synced' = Compacted /\ handle' = "none" /\ entries' = p
      /\ lamport' = Clock(p) /\ epoch' = Epoch(p) /\ offered' = offered \cup Offers(p)
      /\ torn' = torn /\ acked' = acked /\ ghosts' = ghosts /\ changes' = changes
  BY <1>2 DEF CompactCrashes, Open
<1>5. lost \subseteq torn /\ changes <= changes /\ ghosts \subseteq ghosts
  BY <1>1
<1> HIDE DEF p, lost
<1>6. FileOK(Compacted, p, acked, torn, ghosts, changes)
  BY <1>1, <1>3, <1>5, FileStays
<1>7. Known(p, Clock(p), Epoch(p), acked, torn, ghosts, changes)
  <2>1. Clock(p) \in Nat /\ Epoch(p) \in 0..MaxEpoch /\ Clock(p) <= Clock(p) /\ Epoch(p) <= Epoch(p)
    BY <1>1, <1>3 DEF Known
  <2> QED BY <1>1, <1>3, <1>5, <2>1, KnownStays
<1>8. Stamped(p, acked, torn, ghosts, offered \cup Offers(p))
  <2>1. /\ offered \cup Offers(p) \subseteq (offered \cup Offers(Snapshot)) \cup Offers(p)
        /\ Offers(p) \subseteq offered \cup Offers(p)
    OBVIOUS
  <2> QED BY <1>3, <1>5, <2>1, StampedStays
<1> QED BY <1>4, <1>6, <1>7, <1>8 DEF IInv

\* The invariant holds at the start ...
LEMMA InitIInv == ASSUME Sorts, Init PROVE IInv
<1>1. /\ file = Empty /\ synced = Empty /\ handle = "none"
      /\ entries = <<>> /\ lamport = 0 /\ epoch = 0
      /\ acked = {} /\ offered = {} /\ ghosts = {} /\ torn = {} /\ changes = 0
  BY DEF Init
<1>2. entries \in Seq(Entry) /\ 1..Len(entries) = {}
  BY <1>1
<1>3. Shape(Empty) /\ 1..Len(Empty.lines) = {}
  BY DEF Empty, Shape
<1>4. FileOK(Empty, entries, acked, torn, ghosts, changes)
  BY <1>1, <1>3 DEF FileOK, Reads
<1>5. Known(entries, lamport, epoch, acked, torn, ghosts, changes)
  BY <1>1, <1>2 DEF Known, Sorts
<1>6. Stamped(entries, acked, torn, ghosts, offered)
  <2>1. Offers(entries) = {}
    BY <1>2, OffersAre
  <2> QED BY <1>1, <2>1 DEF Stamped
<1> QED BY <1>1, <1>4, <1>5, <1>6 DEF IInv

\* ... and every step keeps it.
LEMMA NextIInv == ASSUME Sorts, IInv, [Next]_vars PROVE IInv'
<1>0. lamport \in Nat /\ changes \in Nat /\ epoch \in 0..MaxEpoch
  BY DEF IInv, Known
<1>1. ASSUME NEW global \in BOOLEAN, append(global) PROVE IInv'
  <2> DEFINE e == Authored(changes + 1, global)
  <2>1. Writable(e) /\ e.clock = IF global THEN lamport + 1 ELSE 0
    BY AuthoredWritable
  <2>2. (Persisted(e) \/ Failed(e)) /\ lamport' = IF global THEN lamport + 1 ELSE lamport
    BY <1>1 DEF append
  <2> HIDE DEF e
  <2>3. lamport' \in Nat /\ lamport <= lamport' /\ e.clock <= lamport'
    BY <1>0, <2>1, <2>2
  <2> QED BY <2>1, <2>2, <2>3, Writes, Fails
<1>2. ASSUME NEW clock \in PeerClocks, ingest(clock) PROVE IInv'
  <2> DEFINE e == [change |-> changes + 1, own |-> FALSE, global |-> TRUE,
                   epoch |-> 0, seq |-> 0, clock |-> clock]
  <2>1. clock \in Nat /\ MaxEpoch \in Nat
    BY DEF Sorts
  <2>2. Writable(e) /\ e.clock = clock
    BY <1>0, <2>1 DEF Writable, Entry
  <2>3. \/ Persisted(e) /\ lamport' = Max({lamport, clock}) + 1
        \/ Failed(e) /\ UNCHANGED lamport
    BY <1>2 DEF ingest
  <2> HIDE DEF e
  <2>4. Max({lamport, clock}) \in Nat /\ lamport <= Max({lamport, clock}) /\ clock <= Max({lamport, clock})
    <3>1. PICK b \in Nat : lamport <= b /\ clock <= b
      BY <1>0, <2>1
    <3>2. {lamport, clock} \in SUBSET (0..b) /\ {lamport, clock} # {}
      BY <1>0, <2>1, <3>1
    <3>3. Max({lamport, clock}) \in {lamport, clock} /\ \A y \in {lamport, clock} : y <= Max({lamport, clock})
      BY <3>2, MaxAmong
    <3> QED BY <1>0, <2>1, <3>3
  <2>5. CASE Persisted(e) /\ lamport' = Max({lamport, clock}) + 1
    <3>1. lamport' \in Nat /\ lamport <= lamport' /\ e.clock <= lamport'
      BY <1>0, <2>1, <2>2, <2>4, <2>5
    <3> QED BY <2>2, <2>5, <3>1, Writes
  <2>6. CASE Failed(e) /\ UNCHANGED lamport
    <3>1. lamport' \in Nat /\ lamport <= lamport'
      BY <1>0, <2>6
    <3> QED BY <2>2, <2>6, <3>1, Fails
  <2> QED BY <2>3, <2>5, <2>6
<1>3. CASE UNCHANGED vars
  BY <1>3 DEF vars, log, IInv
<1> QED BY <1>1, <1>2, <1>3, Crashes, Compacts, CompactionFails, CompactionCrashes DEF Next

-----------------------------------------------------------------------------
(* What follows. *)

\* A change is in memory once, and what was reported was tried (log.entries and
\* what append's callers were told).
THEOREM TypeCorrect == ASSUME Sorts PROVE Spec => []TypeOK
<1>1. ASSUME IInv PROVE TypeOK
  <2>1. Known(entries, lamport, epoch, acked, torn, ghosts, changes) /\ handle \in {"none", "current"}
    BY <1>1 DEF IInv
  <2>2. DOMAIN entries = 1..Len(entries)
    BY <2>1 DEF Known
  <2> QED BY <2>1, <2>2 DEF Known, TypeOK
<1> QED BY <1>1, InitIInv, NextIInv, PTL DEF Spec

\* Whatever is written in part, lost with a crash or rewritten, a change that
\* was reported as done is read back, unless it was written behind a line
\* without its end, or the file is or was no UTF-8 (persist, open: malformed
\* lines are skipped one by one).
THEOREM DoneIsDurable == ASSUME Sorts PROVE Spec => []DoneIsReadBack
<1>1. ASSUME IInv PROVE DoneIsReadBack
  <2> SUFFICES ASSUME Readable(file), NEW c \in acked, c \notin torn
               PROVE  c \in Names(Parsed(file))
    BY DEF DoneIsReadBack
  <2>1. Shape(file) /\ Reads(file, entries, acked, torn, ghosts)
    BY <1>1 DEF IInv, FileOK
  <2>2. PICK i \in 1..Len(file.lines) : Whole(file.lines[i]) /\ At(file, i).change = c
    BY <2>1 DEF Reads
  <2>3. Parsed(file) \in Seq(Entry) /\ \E k \in 1..Len(Parsed(file)) : Parsed(file)[k] = At(file, i)
    BY <2>1, <2>2, ParsedReads
  <2>4. PICK k \in 1..Len(Parsed(file)) : Parsed(file)[k] = At(file, i)
    BY <2>3
  <2>5. k \in DOMAIN Parsed(file) /\ Parsed(file)[k].change = c
    BY <2>2, <2>3, <2>4
  <2> QED BY <2>5 DEF Names
<1> QED BY <1>1, InitIInv, NextIInv, PTL DEF Spec

\* An entry's clock is past those of all entries before it, but for entries that
\* were reported as failed, also across restarts, peers' entries and compactions
\* (append, absorb, ingest, compact).
THEOREM ClocksRunOn == ASSUME Sorts PROVE Spec => []ClockRuns
<1>1. ASSUME IInv PROVE ClockRuns
  <2>1. Known(entries, lamport, epoch, acked, torn, ghosts, changes)
    BY <1>1 DEF IInv
  <2>2. DOMAIN entries = 1..Len(entries)
    BY <2>1 DEF Known
  <2> QED BY <2>1, <2>2 DEF Known, ClockRuns
<1> QED BY <1>1, InitIInv, NextIInv, PTL DEF Spec

\* No two changes are offered to peers under one stamp, unless one was reported
\* as failed or written behind a line without its end, through restarts and
\* compactions that fail or crash (absorb takes the epoch from the file, the
\* next number from what is in memory).
THEOREM StampsAreOnce == ASSUME Sorts PROVE Spec => []StampsDiffer
<1>1. ASSUME IInv PROVE StampsDiffer
  <2>1. Stamped(entries, acked, torn, ghosts, offered)
    BY <1>1 DEF IInv
  <2> QED BY <2>1 DEF Stamped, StampsDiffer
<1> QED BY <1>1, InitIInv, NextIInv, PTL DEF Spec
=============================================================================
