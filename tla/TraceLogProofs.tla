--------------------------- MODULE TraceLogProofs ----------------------------
(***************************************************************************)
(* For any number of runs, writers, events and failures: the numbers of a  *)
(* trace have no hole and no repetition, a writer that is alone never      *)
(* conflicts, and what was acknowledged is there once and in order.        *)
(*                                                                         *)
(* The argument: the rows of a run are numbered 1..n at any time, and what *)
(* a statement computed is at most n + 1, because n only grows.  The       *)
(* unique index then leaves n + 1 as the one number that can be committed, *)
(* to one writer.                                                          *)
(***************************************************************************)
EXTENDS TraceLog, FiniteSetTheorems, FunctionTheorems, TLAPS

Busy == {"insert", "commit", "reply"}

\* What the proofs need of the types.
Typed ==
  /\ rows \subseteq Row
  /\ pc \in [Writers -> PcType]
  /\ seq \in [Writers -> Nat]
  /\ acked \in [Writers -> Nat]
  /\ \A w \in Writers : pc[w] \in Busy => acked[w] < Quota

\* The rows of r are numbered 1..n.
Numbered(r, n) == Seqs(r) = 1..n

Numbers ==
  /\ \A r \in Runs : \E n \in Nat : Numbered(r, n)
  /\ \A x, y \in rows : x.run = y.run /\ x.seq = y.seq => x = y

\* What w computed is at most one more than what is there.
Recent ==
  \A w \in Writers : pc[w] \in {"insert", "commit"} =>
    seq[w] > 0 /\ \A i \in 1..(seq[w] - 1) : i \in Seqs(WriterRun[w])

\* The open transactions hold different free numbers.
Exclusive ==
  \A w \in Writers : pc[w] = "commit" =>
    /\ seq[w] \notin Seqs(WriterRun[w])
    /\ \A v \in Writers \ {w} :
         pc[v] = "commit" /\ WriterRun[v] = WriterRun[w] => seq[v] # seq[w]

Alone ==
  \A w \in Writers : Sole(w) =>
    /\ pc[w] # "conflict"
    /\ pc[w] \in {"insert", "commit"} => seq[w] \notin Seqs(WriterRun[w])

GapInv == Typed /\ Numbers /\ Recent /\ Exclusive /\ Alone

-------------------------------------------------------------------------------
(* The maximum of a trace that is numbered 1..n *)

LEMMA MaxOfInterval ==
  ASSUME NEW n \in Nat
  PROVE  Max({0} \cup 1..n) = n
<1>1. n \in {0} \cup 1..n /\ \A y \in {0} \cup 1..n : n >= y
  OBVIOUS
<1>2. \A x \in {0} \cup 1..n : (\A y \in {0} \cup 1..n : x >= y) => x = n
  BY <1>1
<1> QED BY <1>1, <1>2 DEF Max

LEMMA MaxSeqIsLast ==
  ASSUME NEW r, NEW n \in Nat, Numbered(r, n)
  PROVE  MaxSeq(r) = n
BY MaxOfInterval DEF MaxSeq, Numbered

\* A statement of w reads and writes the rows of w's run only.
LEMMA OtherRunsKept ==
  ASSUME NEW w \in Writers, Commit(w), NEW r, r # WriterRun[w]
  PROVE  Seqs(r)' = Seqs(r)
<1>1. RowsOf(r)' = RowsOf(r)
  BY DEF Commit, RowsOf
<1> QED BY <1>1 DEF Seqs

LEMMA CommitAddsItsNumber ==
  ASSUME NEW w \in Writers, Commit(w)
  PROVE  Seqs(WriterRun[w])' = Seqs(WriterRun[w]) \cup {seq[w]}
<1> DEFINE new == [run |-> WriterRun[w], seq |-> seq[w], event |-> EventOf(w)]
<1>1. RowsOf(WriterRun[w])' = RowsOf(WriterRun[w]) \cup {new}
  BY DEF Commit, RowsOf
<1>2. new.seq = seq[w]
  OBVIOUS
<1> HIDE DEF new
<1> QED BY <1>1, <1>2 DEF Seqs

\* All but Commit leave the rows alone.
LEMMA RowsKept ==
  ASSUME UNCHANGED rows
  PROVE  \A r : Seqs(r)' = Seqs(r)
BY DEF Seqs, RowsOf

-------------------------------------------------------------------------------
LEMMA TypedInit == Init => Typed
BY DEF Init, Typed, PcType, Busy

LEMMA MaxSeqIsNat ==
  ASSUME Numbers, NEW w \in Writers
  PROVE  MaxSeq(WriterRun[w]) \in Nat /\ Numbered(WriterRun[w], MaxSeq(WriterRun[w]))
<1>1. WriterRun[w] \in Runs
  BY WritersAssumption
<1>2. PICK n \in Nat : Numbered(WriterRun[w], n)
  BY <1>1 DEF Numbers
<1> QED BY <1>2, MaxSeqIsLast

LEMMA TypedStep == GapInv /\ [Next]_vars => Typed'
<1> SUFFICES ASSUME GapInv, [Next]_vars PROVE Typed'
  OBVIOUS
<1> USE BoundsAssumption, WritersAssumption DEF GapInv, Typed, PcType, Busy, Goto
<1>1. ASSUME NEW w \in Writers, Snapshot(w) PROVE Typed'
  <2>1. NextSeq(WriterRun[w]) \in Nat
    BY MaxSeqIsNat DEF NextSeq
  <2> QED BY <1>1, <2>1 DEF Snapshot
<1>2. ASSUME NEW w \in Writers, Insert(w) \/ Conflict(w) PROVE Typed'
  BY <1>2 DEF Insert, Conflict
<1>3. ASSUME NEW w \in Writers, Commit(w) PROVE Typed'
  <2>1. acked[w] + 1 \in 1..Quota
    BY <1>3 DEF Commit
  <2>2. [run |-> WriterRun[w], seq |-> seq[w], event |-> EventOf(w)] \in Row
    BY <1>3, <2>1 DEF Commit, Row, Event, EventOf, Recent
  <2> QED BY <1>3, <2>2 DEF Commit
<1>4. ASSUME NEW w \in Writers, Reply(w) PROVE Typed'
  BY <1>4 DEF Reply
<1>5. ASSUME NEW w \in Writers, Lose(w) PROVE Typed'
  BY <1>5 DEF Lose
<1>6. CASE UNCHANGED <<rows, pc, seq, acked>>
  BY <1>6
<1> QED BY <1>1, <1>2, <1>3, <1>4, <1>5, <1>6 DEF Next, Statement, GetTrace, vars

-------------------------------------------------------------------------------
(* Commit: the number is the next one. *)

LEMMA CommitsNext ==
  ASSUME GapInv, NEW w \in Writers, Commit(w), NEW n \in Nat, Numbered(WriterRun[w], n)
  PROVE  seq[w] = n + 1
<1>1. seq[w] \in Nat /\ seq[w] > 0 /\ pc[w] = "commit"
  BY DEF GapInv, Typed, Recent, Commit, Goto
<1>2. seq[w] \notin 1..n
  BY <1>1 DEF GapInv, Exclusive, Numbered
<1>3. \A i \in 1..(seq[w] - 1) : i \in 1..n
  BY <1>1 DEF GapInv, Recent, Numbered
<1>4. ~(seq[w] > n + 1)
  <2> SUFFICES ASSUME seq[w] > n + 1 PROVE FALSE
    OBVIOUS
  <2>1. n + 1 \in 1..(seq[w] - 1)
    BY <1>1
  <2> QED BY <2>1, <1>3
<1> QED BY <1>1, <1>2, <1>4

LEMMA NumbersStep == GapInv /\ [Next]_vars => Numbers'
<1> SUFFICES ASSUME GapInv, [Next]_vars PROVE Numbers'
  OBVIOUS
<1>1. ASSUME NEW w \in Writers, Commit(w) PROVE Numbers'
  <2> DEFINE R == WriterRun[w]
             new == [run |-> R, seq |-> seq[w], event |-> EventOf(w)]
  <2>0. R \in Runs
    BY WritersAssumption
  <2>1. PICK n \in Nat : Numbered(R, n)
    BY <2>0 DEF GapInv, Numbers
  <2>2. seq[w] = n + 1
    BY <1>1, <2>1, CommitsNext
  <2>3. Seqs(R)' = 1..(n + 1)
    <3>1. Seqs(R)' = 1..n \cup {n + 1}
      BY <1>1, <2>1, <2>2, CommitAddsItsNumber DEF Numbered
    <3> QED BY <3>1
  <2>4. \A r \in Runs : \E k \in Nat : Numbered(r, k)'
    <3> TAKE r \in Runs
    <3>1. CASE r = R
      BY <3>1, <2>3 DEF Numbered
    <3>2. CASE r # R
      BY <1>1, <3>2, OtherRunsKept DEF Numbered, GapInv, Numbers
    <3> QED BY <3>1, <3>2
  <2>5. rows' = rows \cup {new}
    BY <1>1 DEF Commit
  <2>6. \A x \in rows : x.run = R => x.seq # seq[w]
    BY <2>1, <2>2 DEF Numbered, Seqs, RowsOf
  <2>7. new.run = R /\ new.seq = seq[w]
    OBVIOUS
  <2> HIDE DEF new, R
  <2>8. \A x, y \in rows' : x.run = y.run /\ x.seq = y.seq => x = y
    BY <2>5, <2>6, <2>7 DEF GapInv, Numbers
  <2> QED BY <2>4, <2>8 DEF Numbers
<1>2. CASE UNCHANGED rows
  BY <1>2, RowsKept DEF GapInv, Numbers, Numbered
<1> QED
  BY <1>1, <1>2 DEF Next, Statement, Snapshot, Insert, Conflict, Reply, Lose, GetTrace, vars

LEMMA RecentStep == GapInv /\ [Next]_vars => Recent'
<1> SUFFICES ASSUME GapInv, [Next]_vars,
                    NEW v \in Writers, pc'[v] \in {"insert", "commit"}
             PROVE  seq'[v] > 0 /\ \A i \in 1..(seq'[v] - 1) : i \in Seqs(WriterRun[v])'
  BY DEF Recent
<1> USE DEF GapInv, Typed, PcType, Goto
<1>1. ASSUME NEW w \in Writers, Snapshot(w), v = w
      PROVE  seq'[v] > 0 /\ \A i \in 1..(seq'[v] - 1) : i \in Seqs(WriterRun[v])'
  <2>1. seq'[w] = MaxSeq(WriterRun[w]) + 1
    BY <1>1 DEF Snapshot, NextSeq
  <2>2. Seqs(WriterRun[w])' = 1..MaxSeq(WriterRun[w]) /\ MaxSeq(WriterRun[w]) \in Nat
    BY <1>1, MaxSeqIsNat, RowsKept DEF Snapshot, Numbered
  <2> QED BY <1>1, <2>1, <2>2
<1>2. ASSUME seq'[v] = seq[v], pc[v] \in {"insert", "commit"},
             Seqs(WriterRun[v]) \subseteq Seqs(WriterRun[v])'
      PROVE  seq'[v] > 0 /\ \A i \in 1..(seq'[v] - 1) : i \in Seqs(WriterRun[v])'
  BY <1>2 DEF Recent
<1>3. ASSUME NEW w \in Writers, Commit(w)
      PROVE  Seqs(WriterRun[v]) \subseteq Seqs(WriterRun[v])'
  BY <1>3, OtherRunsKept, CommitAddsItsNumber
<1>4. ASSUME UNCHANGED rows PROVE Seqs(WriterRun[v]) \subseteq Seqs(WriterRun[v])'
  BY <1>4, RowsKept
<1>5. ASSUME NEW w \in Writers, Snapshot(w), v # w
      PROVE  seq'[v] = seq[v] /\ pc[v] \in {"insert", "commit"} /\ UNCHANGED rows
  BY <1>5 DEF Snapshot
<1>6. ASSUME NEW w \in Writers, Insert(w) \/ Conflict(w) \/ Reply(w) \/ Lose(w)
      PROVE  seq'[v] = seq[v] /\ pc[v] \in {"insert", "commit"} /\ UNCHANGED rows
  BY <1>6 DEF Insert, Conflict, Reply, Lose
<1>7. ASSUME NEW w \in Writers, Commit(w)
      PROVE  seq'[v] = seq[v] /\ pc[v] \in {"insert", "commit"}
  BY <1>7 DEF Commit
<1>8. CASE UNCHANGED <<rows, pc, seq>>
  BY <1>8, <1>2, <1>4
<1> QED
  BY <1>1, <1>2, <1>3, <1>4, <1>5, <1>6, <1>7, <1>8 DEF Next, Statement, GetTrace, vars

\* What a step can do to the pc, the number and the rows seen by v: it takes a
\* snapshot itself, it is about to commit, or nothing of what v relies on
\* changes but for a commit of another.
LEMMA ExclusiveStep == GapInv /\ [Next]_vars => Exclusive'
<1> SUFFICES ASSUME GapInv, [Next]_vars PROVE Exclusive'
  OBVIOUS
<1> USE DEF GapInv, Typed, PcType, Goto
<1>1. ASSUME NEW w \in Writers, Snapshot(w) PROVE Exclusive'
  <2>1. \A v \in Writers : pc'[v] = "commit" => v # w /\ pc[v] = "commit" /\ seq'[v] = seq[v]
    BY <1>1 DEF Snapshot
  <2> QED BY <1>1, <2>1, RowsKept DEF Exclusive, Snapshot
<1>2. ASSUME NEW w \in Writers, Insert(w) PROVE Exclusive'
  <2>1. /\ seq[w] \notin Seqs(WriterRun[w])
        /\ \A v \in Writers \ {w} :
             pc[v] = "commit" /\ WriterRun[v] = WriterRun[w] => seq[v] # seq[w]
    BY <1>2 DEF Insert, Waits, Taken, Holds
  <2>2. \A v \in Writers : pc'[v] = "commit" => v = w \/ pc[v] = "commit"
    BY <1>2 DEF Insert
  <2> QED BY <1>2, <2>1, <2>2, RowsKept DEF Exclusive, Insert
<1>3. ASSUME NEW w \in Writers, Commit(w) PROVE Exclusive'
  <2>1. \A v \in Writers : pc'[v] = "commit" => v # w /\ pc[v] = "commit" /\ seq'[v] = seq[v]
    BY <1>3 DEF Commit
  <2>2. ASSUME NEW v \in Writers, pc'[v] = "commit"
        PROVE  seq'[v] \notin Seqs(WriterRun[v])'
    <3>1. seq[v] \notin Seqs(WriterRun[v])
      BY <2>1, <2>2 DEF Exclusive
    <3>2. CASE WriterRun[v] = WriterRun[w]
      <4>1. seq[v] # seq[w]
        BY <1>3, <2>1, <2>2, <3>2 DEF Exclusive, Commit
      <4> QED BY <1>3, <2>1, <2>2, <3>1, <3>2, <4>1, CommitAddsItsNumber
    <3>3. CASE WriterRun[v] # WriterRun[w]
      BY <1>3, <2>1, <2>2, <3>1, <3>3, OtherRunsKept
    <3> QED BY <3>2, <3>3
  <2> QED BY <2>1, <2>2 DEF Exclusive
<1>4. ASSUME NEW w \in Writers, Conflict(w) \/ Reply(w) \/ Lose(w) PROVE Exclusive'
  <2>1. UNCHANGED <<rows, seq>> /\ \A v \in Writers : pc'[v] = "commit" => pc[v] = "commit"
    BY <1>4 DEF Conflict, Reply, Lose
  <2> QED BY <2>1, RowsKept DEF Exclusive
<1>5. CASE UNCHANGED <<rows, pc, seq>>
  BY <1>5, RowsKept DEF Exclusive
<1> QED BY <1>1, <1>2, <1>3, <1>4, <1>5 DEF Next, Statement, GetTrace, vars

LEMMA AloneStep == GapInv /\ [Next]_vars => Alone'
<1> SUFFICES ASSUME GapInv, [Next]_vars, NEW v \in Writers, Sole(v)
             PROVE  /\ pc'[v] # "conflict"
                    /\ pc'[v] \in {"insert", "commit"} => seq'[v] \notin Seqs(WriterRun[v])'
  BY DEF Alone, Sole
<1> DEFINE Free == pc[v] \in {"insert", "commit"} => seq[v] \notin Seqs(WriterRun[v])
<1>0. pc[v] # "conflict" /\ Free
  BY DEF GapInv, Alone
<1> USE DEF GapInv, Typed, PcType, Goto
<1>1. ASSUME NEW w \in Writers, Snapshot(w) PROVE pc'[v] # "conflict" /\ Free'
  <2>1. CASE v = w
    <3>1. seq'[v] = MaxSeq(WriterRun[v]) + 1
      BY <1>1, <2>1 DEF Snapshot, NextSeq
    <3>2. Seqs(WriterRun[v])' = 1..MaxSeq(WriterRun[v]) /\ MaxSeq(WriterRun[v]) \in Nat
      BY <1>1, MaxSeqIsNat, RowsKept DEF Snapshot, Numbered
    <3> QED BY <1>0, <1>1, <2>1, <3>1, <3>2 DEF Snapshot
  <2>2. CASE v # w
    BY <1>0, <1>1, <2>2, RowsKept DEF Snapshot
  <2> QED BY <2>1, <2>2
<1>2. ASSUME NEW w \in Writers, Conflict(w) PROVE pc'[v] # "conflict" /\ Free'
  <2>1. v # w
    BY <1>0, <1>2 DEF Conflict, Taken
  <2> QED BY <1>0, <1>2, <2>1, RowsKept DEF Conflict
<1>3. ASSUME NEW w \in Writers, Commit(w) PROVE pc'[v] # "conflict" /\ Free'
  <2>1. CASE v = w
    BY <1>0, <1>3, <2>1 DEF Commit
  <2>2. CASE v # w
    <3>1. WriterRun[w] # WriterRun[v]
      BY <2>2 DEF Sole
    <3> QED BY <1>0, <1>3, <2>2, <3>1, OtherRunsKept DEF Commit
  <2> QED BY <2>1, <2>2
<1>4. ASSUME NEW w \in Writers, Insert(w) \/ Reply(w) \/ Lose(w)
      PROVE  pc'[v] # "conflict" /\ Free'
  <2>1. /\ UNCHANGED <<rows, seq>> /\ pc'[v] # "conflict"
        /\ pc'[v] \in {"insert", "commit"} => pc[v] \in {"insert", "commit"}
    BY <1>0, <1>4 DEF Insert, Reply, Lose
  <2> QED BY <1>0, <2>1, RowsKept
<1>5. CASE UNCHANGED <<rows, pc, seq>>
  BY <1>0, <1>5, RowsKept
<1> QED BY <1>1, <1>2, <1>3, <1>4, <1>5 DEF Next, Statement, GetTrace, vars

LEMMA GapInvInit == Init => GapInv
<1> SUFFICES ASSUME Init PROVE GapInv
  OBVIOUS
<1>1. \A r : Seqs(r) = {}
  BY DEF Init, Seqs, RowsOf
<1>2. \A r \in Runs : Numbered(r, 0)
  BY <1>1 DEF Numbered
<1> QED
  BY <1>2, TypedInit
     DEF Init, GapInv, Numbers, Recent, Exclusive, Alone

LEMMA GapInvStep == GapInv /\ [Next]_vars => GapInv'
BY TypedStep, NumbersStep, RecentStep, ExclusiveStep, AloneStep DEF GapInv

LEMMA GapInvariant == Spec => []GapInv
BY GapInvInit, GapInvStep, PTL DEF Spec

\* However many writers race and fail, the rows of a run are numbered 1, 2, 3,
\* ... without a hole and without a repetition: MAX(seq) + 1 of a snapshot and
\* the unique index are enough.
THEOREM TraceGapFree == Spec => []GapFree
<1>1. GapInv => GapFree
  <2> SUFFICES ASSUME GapInv, NEW r \in Runs PROVE Seqs(r) = 1..MaxSeq(r)
    BY DEF GapFree, GapInv, Numbers
  <2>1. PICK n \in Nat : Numbered(r, n)
    BY DEF GapInv, Numbers
  <2> QED BY <2>1, MaxSeqIsLast DEF Numbered
<1> QED BY <1>1, GapInvariant, PTL

\* A writer that has its run for itself never loses an event to the unique
\* constraint, whatever the writers of other runs do.
THEOREM SoleWritersSucceed == Spec => []SoleWriterNeverConflicts
<1>1. GapInv => SoleWriterNeverConflicts
  BY DEF GapInv, Alone, SoleWriterNeverConflicts
<1> QED BY <1>1, GapInvariant, PTL

-------------------------------------------------------------------------------
(* What became of each append *)

\* How many events of w may have a row: the last one's commit may not have been
\* acknowledged, or never will.
Sent(w) == IF pc[w] \in {"reply", "lost"} THEN acked[w] + 1 ELSE acked[w]

Stored(w, i) == \E x \in rows : x.event = <<w, i>>

OwnRows ==
  \A x \in rows :
    x.run = WriterRun[x.event[1]] /\ x.event[2] <= Sent(x.event[1])

AckedStored ==
  \A w \in Writers :
    /\ \A i \in 1..acked[w] : Stored(w, i)
    /\ pc[w] = "reply" => Stored(w, acked[w] + 1)

InOrder ==
  \A x, y \in rows :
    x.event[1] = y.event[1] => (x.seq < y.seq <=> x.event[2] < y.event[2])

LogInv == OwnRows /\ AckedStored /\ InOrder

LEMMA RowTyped ==
  ASSUME Typed, NEW x \in rows
  PROVE  /\ x.event[1] \in Writers /\ x.event[2] \in Nat /\ x.seq \in Nat
         /\ x.event = <<x.event[1], x.event[2]>>
BY BoundsAssumption DEF Typed, Row, Event

LEMMA LogInvStep == GapInv /\ LogInv /\ [Next]_vars => LogInv'
<1> SUFFICES ASSUME GapInv, LogInv, [Next]_vars PROVE LogInv'
  OBVIOUS
<1>0. Typed
  BY DEF GapInv
<1>1. ASSUME NEW w \in Writers, Commit(w) PROVE LogInv'
  <2> DEFINE new == [run |-> WriterRun[w], seq |-> seq[w], event |-> EventOf(w)]
  <2>1. rows' = rows \cup {new} /\ acked' = acked
    BY <1>1 DEF Commit
  <2>2. /\ new.run = WriterRun[w] /\ new.seq = seq[w]
        /\ new.event = <<w, acked[w] + 1>>
        /\ new.event[1] = w /\ new.event[2] = acked[w] + 1
    BY DEF EventOf
  <2> HIDE DEF new
  <2>3. /\ Sent(w) = acked[w] /\ Sent(w)' = acked[w] + 1
        /\ \A v \in Writers \ {w} : Sent(v)' = Sent(v) /\ pc'[v] = pc[v]
    BY <1>0, <1>1 DEF Commit, Goto, Sent, Typed
  <2>4. acked[w] \in Nat
    BY <1>0 DEF Typed
  <2>5. OwnRows'
    <3>1. ASSUME NEW x \in rows
          PROVE  x.run = WriterRun[x.event[1]] /\ x.event[2] <= Sent(x.event[1])'
      BY <1>0, <2>3, <2>4, RowTyped DEF LogInv, OwnRows
    <3> QED BY <2>1, <2>2, <2>3, <2>4, <3>1 DEF OwnRows
  <2>6. AckedStored'
    BY <2>1, <2>2, <2>3 DEF LogInv, AckedStored, Stored
  <2>7. ASSUME NEW x \in rows, x.event[1] = w
        PROVE  x.seq < seq[w] /\ x.event[2] < acked[w] + 1
    <3>1. x.run = WriterRun[w] /\ x.event[2] <= acked[w]
      BY <2>3, <2>7 DEF LogInv, OwnRows
    <3>2. PICK n \in Nat : Numbered(WriterRun[w], n)
      BY WritersAssumption DEF GapInv, Numbers
    <3>3. x.seq \in 1..n
      BY <3>1, <3>2 DEF Numbered, Seqs, RowsOf
    <3>4. seq[w] = n + 1
      BY <1>1, <3>2, CommitsNext
    <3> QED BY <1>0, <2>4, <3>1, <3>3, <3>4, RowTyped
  <2>8. InOrder'
    <3> SUFFICES ASSUME NEW x \in rows', NEW y \in rows', x.event[1] = y.event[1]
                 PROVE  x.seq < y.seq <=> x.event[2] < y.event[2]
      BY DEF InOrder
    <3>1. CASE x \in rows /\ y \in rows
      BY <3>1 DEF LogInv, InOrder
    <3>2. CASE x \in rows /\ y = new
      BY <2>2, <2>7, <3>2
    <3>3. CASE x = new /\ y \in rows
      <4>1. y.seq < seq[w] /\ y.event[2] < acked[w] + 1
        BY <2>2, <2>7, <3>3
      <4>2. y.seq \in Nat /\ y.event[2] \in Nat /\ seq[w] \in Nat
        BY <1>0, <3>3, RowTyped DEF Typed
      <4> QED BY <2>2, <2>4, <3>3, <4>1, <4>2
    <3>4. CASE x = new /\ y = new
      BY <1>0, <2>2, <2>4, <3>4 DEF Typed
    <3> QED BY <2>1, <3>1, <3>2, <3>3, <3>4
  <2> QED BY <2>5, <2>6, <2>8 DEF LogInv
<1>2. ASSUME NEW w \in Writers, Reply(w) PROVE LogInv'
  <2>1. rows' = rows /\ acked' = [acked EXCEPT ![w] = @ + 1] /\ pc[w] = "reply"
    BY <1>2 DEF Reply, Goto
  <2>2. acked[w] \in Nat /\ acked'[w] = acked[w] + 1
    BY <1>0, <2>1 DEF Typed
  <2>3. \A v \in Writers : Sent(v)' = Sent(v)
    BY <1>0, <1>2 DEF Reply, Goto, Sent, Typed
  <2>4. OwnRows'
    BY <1>0, <2>1, <2>3, RowTyped DEF LogInv, OwnRows
  <2>5. AckedStored'
    <3> SUFFICES ASSUME NEW v \in Writers
                 PROVE  /\ \A i \in 1..acked'[v] : Stored(v, i)
                        /\ pc'[v] = "reply" => Stored(v, acked'[v] + 1)
      BY <2>1 DEF AckedStored, Stored
    <3>1. CASE v = w
      <4>1. \A i \in 1..(acked[w] + 1) : i \in 1..acked[w] \/ i = acked[w] + 1
        BY <2>2
      <4>2. pc'[w] # "reply"
        BY <1>0, <1>2 DEF Reply, Goto, Typed
      <4> QED BY <2>1, <2>2, <3>1, <4>1, <4>2 DEF LogInv, AckedStored
    <3>2. CASE v # w
      <4>1. acked'[v] = acked[v] /\ pc'[v] = pc[v]
        BY <1>0, <1>2, <3>2 DEF Reply, Goto, Typed
      <4> QED BY <4>1 DEF LogInv, AckedStored
    <3> QED BY <3>1, <3>2
  <2>6. InOrder'
    BY <2>1 DEF LogInv, InOrder
  <2> QED BY <2>4, <2>5, <2>6 DEF LogInv
<1>3. ASSUME UNCHANGED <<rows, acked>>,
             \A v \in Writers : pc'[v] \in {"reply", "lost"} \/ pc[v] \notin {"reply", "lost"},
             \A v \in Writers : pc'[v] = "reply" => pc[v] = "reply"
      PROVE  LogInv'
  <2>1. \A v \in Writers : Sent(v)' >= Sent(v) /\ Sent(v)' \in Nat /\ Sent(v) \in Nat
    BY <1>0, <1>3 DEF Sent, Typed
  <2>2. OwnRows'
    <3> SUFFICES ASSUME NEW x \in rows
                 PROVE  x.run = WriterRun[x.event[1]] /\ x.event[2] <= Sent(x.event[1])'
      BY <1>3 DEF OwnRows
    <3> QED BY <1>0, <2>1, RowTyped DEF LogInv, OwnRows
  <2>3. AckedStored' /\ InOrder'
    BY <1>3 DEF LogInv, AckedStored, Stored, InOrder
  <2> QED BY <2>2, <2>3 DEF LogInv
<1>4. ASSUME NEW w \in Writers, Snapshot(w) \/ Insert(w) \/ Conflict(w) \/ Lose(w)
      PROVE  LogInv'
  BY <1>0, <1>3, <1>4 DEF Snapshot, Insert, Conflict, Lose, Goto, Typed
<1>5. CASE UNCHANGED <<rows, pc, acked>>
  BY <1>3, <1>5
<1> QED BY <1>1, <1>2, <1>4, <1>5 DEF Next, Statement, GetTrace, vars

LEMMA LogInvariant == Spec => []LogInv
<1>1. Init => LogInv
  BY DEF Init, LogInv, OwnRows, AckedStored, InOrder
<1> QED BY <1>1, LogInvStep, GapInvariant, PTL DEF Spec

\* An append that was acknowledged is in the trace exactly once, and the events
\* of a writer stand there in the order it appended them, however many other
\* writers there are and whatever is lost.
THEOREM AppendsOnceInOrder == Spec => []AppendedOnceInOrder
<1>1. GapInv /\ LogInv => AppendedOnceInOrder
  <2> SUFFICES ASSUME GapInv, LogInv, NEW w \in Writers
               PROVE  /\ \A i \in 1..acked[w] : Cardinality(SeqsOf(<<w, i>>)) = 1
                      /\ \A x, y \in rows :
                           x.event[1] = w /\ y.event[1] = w =>
                             (x.seq < y.seq <=> x.event[2] < y.event[2])
                      /\ \A x \in rows : x.event[1] = w => x.run = WriterRun[w]
    BY DEF AppendedOnceInOrder
  <2>1. ASSUME NEW i \in 1..acked[w] PROVE Cardinality(SeqsOf(<<w, i>>)) = 1
    <3>1. PICK x \in rows : x.event = <<w, i>>
      BY DEF LogInv, AckedStored, Stored
    <3>2. ASSUME NEW y \in rows, y.event = <<w, i>> PROVE y.seq = x.seq
      <4>1. ~(x.seq < y.seq) /\ ~(y.seq < x.seq)
        BY <3>1, <3>2, RowTyped DEF LogInv, InOrder, GapInv
      <4>2. x.seq \in Nat /\ y.seq \in Nat
        BY RowTyped DEF GapInv
      <4> QED BY <4>1, <4>2
    <3>3. SeqsOf(<<w, i>>) = {x.seq}
      BY <3>1, <3>2 DEF SeqsOf
    <3> QED BY <3>3, FS_Singleton
  <2> QED BY <2>1 DEF LogInv, OwnRows, InOrder
<1> QED BY <1>1, LogInvariant, GapInvariant, PTL

-------------------------------------------------------------------------------
(* What get_trace answers *)

\* R is a set of rows numbered 1..n, each number once.
Numbering(R, n) ==
  /\ {x.seq : x \in R} = 1..n
  /\ \A x, y \in R : x.seq = y.seq => x = y

LEMMA NumberedCardinality ==
  ASSUME NEW R, NEW n \in Nat, Numbering(R, n)
  PROVE  Cardinality(R) = n
<1> DEFINE f == [x \in R |-> x.seq]
<1>1. f \in Bijection(R, 1..n)
  <2>1. f \in [R -> 1..n]
    BY DEF Numbering
  <2>2. \A a, b \in R : f[a] = f[b] => a = b
    BY DEF Numbering
  <2>3. \A t \in 1..n : \E s \in R : f[s] = t
    BY DEF Numbering
  <2> QED BY <2>1, <2>2, <2>3, Fun_IsBij
<1>2. ExistsBijection(1..n, R)
  BY <1>1, Fun_ExistsBijSymmetric DEF ExistsBijection
<1> QED BY <1>2, FS_Interval, FS_Bijection

LEMMA PositionIsNumber ==
  ASSUME NEW R, NEW n \in Nat, Numbering(R, n), NEW x \in R
  PROVE  Position(R, x) = x.seq
<1> DEFINE S == {y \in R : y.seq <= x.seq}
<1>1. x.seq \in 1..n /\ \A y \in R : y.seq \in 1..n
  BY DEF Numbering
<1>2. {y.seq : y \in S} = 1..x.seq
  <2>1. \A y \in S : y.seq \in 1..x.seq
    BY <1>1
  <2>2. ASSUME NEW i \in 1..x.seq PROVE \E y \in S : y.seq = i
    <3>1. i \in 1..n /\ i <= x.seq
      BY <1>1
    <3> QED BY <3>1 DEF Numbering
  <2> QED BY <2>1, <2>2
<1>3. Numbering(S, x.seq)
  BY <1>2 DEF Numbering
<1> QED BY <1>1, <1>3, NumberedCardinality DEF Position

\* The row at place i is the one numbered i.
LEMMA RowAtNumber ==
  ASSUME NEW R, NEW n \in Nat, Numbering(R, n), NEW i \in 1..n
  PROVE  RowAt(R, i) \in R /\ RowAt(R, i).seq = i
<1>1. PICK x \in R : x.seq = i
  BY DEF Numbering
<1>2. \E z \in R : Position(R, z) = i
  BY <1>1, PositionIsNumber
<1>3. RowAt(R, i) \in R /\ Position(R, RowAt(R, i)) = i
  BY <1>2 DEF RowAt
<1> QED BY <1>3, PositionIsNumber

Listed(R) == [i \in 1..Cardinality(R) |-> RowAt(R, i).event]

LEMMA ListedEvents ==
  ASSUME NEW R \in SUBSET Row, NEW n \in Nat, Numbering(R, n)
  PROVE  Listed(R) \in Seq(Event) /\ Len(Listed(R)) = n
<1>1. Cardinality(R) = n
  BY NumberedCardinality
<1>2. \A i \in 1..n : RowAt(R, i).event \in Event
  BY RowAtNumber DEF Row
<1>3. Listed(R) \in [1..n -> Event]
  BY <1>1, <1>2 DEF Listed
<1> QED BY <1>3

\* The row with the next number comes last.
LEMMA ListedAppends ==
  ASSUME NEW R \in SUBSET Row, NEW n \in Nat, Numbering(R, n),
         NEW x \in Row, x.seq = n + 1
  PROVE  /\ Numbering(R \cup {x}, n + 1)
         /\ Listed(R \cup {x}) = Append(Listed(R), x.event)
<1> DEFINE Q == R \cup {x}
<1>1. \A y \in R : y.seq \in 1..n
  BY DEF Numbering
<1>2. Numbering(Q, n + 1)
  <2>1. {y.seq : y \in Q} = 1..n \cup {n + 1}
    BY DEF Numbering
  <2>2. 1..n \cup {n + 1} = 1..(n + 1)
    OBVIOUS
  <2>3. \A y, z \in Q : y.seq = z.seq => y = z
    BY <1>1 DEF Numbering
  <2> QED BY <2>1, <2>2, <2>3 DEF Numbering
<1>3. \A i \in 1..n : RowAt(Q, i) = RowAt(R, i)
  <2> TAKE i \in 1..n
  <2>1. RowAt(R, i) \in R /\ RowAt(R, i).seq = i
    BY RowAtNumber
  <2>2. i \in 1..(n + 1) /\ n + 1 \in Nat
    OBVIOUS
  <2>3. RowAt(Q, i) \in Q /\ RowAt(Q, i).seq = i
    BY <1>2, <2>2, RowAtNumber
  <2> QED BY <1>2, <2>1, <2>3 DEF Numbering
<1>4. RowAt(Q, n + 1) = x
  <2>1. n + 1 \in 1..(n + 1) /\ n + 1 \in Nat
    OBVIOUS
  <2>2. RowAt(Q, n + 1) \in Q /\ RowAt(Q, n + 1).seq = n + 1
    BY <1>2, <2>1, RowAtNumber
  <2> QED BY <1>2, <2>2 DEF Numbering
<1>5. Cardinality(R) = n /\ Cardinality(Q) = n + 1
  BY <1>2, NumberedCardinality
<1>6. Q \in SUBSET Row
  OBVIOUS
<1>7. Listed(R) \in Seq(Event) /\ Len(Listed(R)) = n /\ Listed(Q) \in Seq(Event) /\ Len(Listed(Q)) = n + 1
  BY <1>2, <1>6, ListedEvents
<1> HIDE DEF Q
<1>8. /\ \A i \in 1..n : Listed(Q)[i] = Listed(R)[i]
      /\ Listed(Q)[n + 1] = x.event
  BY <1>3, <1>4, <1>5 DEF Listed
<1>9. x.event \in Event
  BY DEF Row
<1>10. Listed(Q) = Append(Listed(R), x.event)
  BY <1>7, <1>8, <1>9
<1> QED BY <1>2, <1>10 DEF Q

\* The rows of a run are a numbering, which get_trace lists.
LEMMA RunListed ==
  ASSUME GapInv, NEW r \in Runs
  PROVE  /\ RowsOf(r) \in SUBSET Row
         /\ \E n \in Nat : Numbering(RowsOf(r), n)
         /\ OrderedTrace(r) = Listed(RowsOf(r))
         /\ OrderedTrace(r) \in Seq(Event)
<1>1. PICK n \in Nat : Numbered(r, n)
  BY DEF GapInv, Numbers
<1>2. Numbering(RowsOf(r), n)
  BY <1>1 DEF GapInv, Numbers, Numbered, Numbering, Seqs, RowsOf
<1>3. RowsOf(r) \in SUBSET Row
  BY DEF GapInv, Typed, RowsOf
<1>4. OrderedTrace(r) = Listed(RowsOf(r))
  BY DEF OrderedTrace, Listed
<1> QED BY <1>2, <1>3, <1>4, ListedEvents

ViewInv ==
  /\ acked \in [Writers -> 0..Quota]
  /\ view \in [Clients -> Seq(Event)]
  /\ faults \in 0..MaxFaults

LEMMA ViewInit == Init => ViewInv
<1> SUFFICES ASSUME Init PROVE ViewInv
  OBVIOUS
<1>1. <<>> \in Seq(Event)
  OBVIOUS
<1> QED BY <1>1, BoundsAssumption DEF Init, ViewInv

LEMMA ViewStep == GapInv /\ ViewInv /\ [Next]_vars => ViewInv'
<1> SUFFICES ASSUME GapInv, ViewInv, [Next]_vars PROVE ViewInv'
  OBVIOUS
<1> USE BoundsAssumption DEF ViewInv
<1>1. ASSUME NEW w \in Writers, Snapshot(w) \/ Insert(w) \/ Conflict(w) \/ Commit(w)
      PROVE  ViewInv'
  BY <1>1 DEF Snapshot, Insert, Conflict, Commit
<1>2. ASSUME NEW w \in Writers, Reply(w) PROVE ViewInv'
  <2>1. acked[w] + 1 \in 0..Quota
    BY <1>2 DEF GapInv, Typed, Busy, Reply, Goto
  <2> QED BY <1>2, <2>1 DEF Reply
<1>3. ASSUME NEW w \in Writers, Lose(w) PROVE ViewInv'
  BY <1>3 DEF Lose
<1>4. ASSUME NEW c \in Clients, GetTrace(c) PROVE ViewInv'
  <2>1. OrderedTrace(Watches[c]) \in Seq(Event)
    BY WritersAssumption, RunListed
  <2> QED BY <1>4, <2>1 DEF GetTrace
<1>5. CASE UNCHANGED vars
  BY <1>5 DEF vars
<1> QED BY <1>1, <1>2, <1>3, <1>4, <1>5 DEF Next, Statement

LEMMA ViewInvariant == Spec => [](GapInv /\ ViewInv)
BY ViewInit, ViewStep, GapInvariant, PTL DEF Spec

\* Every committed row satisfies CHECK (seq > 0), and every answer of get_trace
\* is a sequence of events that were appended.
THEOREM TraceTypes == Spec => []TypeOK
<1>1. GapInv /\ ViewInv => TypeOK
  BY DEF GapInv, Typed, ViewInv, TypeOK
<1> QED BY <1>1, ViewInvariant, PTL

-------------------------------------------------------------------------------
(* The table implements the append-only sequence *)

logBar == [r \in Runs |-> OrderedTrace(r)]

LEMMA LogInitMaps == Init => Log!Init
<1> SUFFICES ASSUME Init PROVE Log!Init
  OBVIOUS
<1>1. ASSUME NEW r \in Runs PROVE OrderedTrace(r) = <<>>
  <2>1. RowsOf(r) = {}
    BY DEF Init, RowsOf
  <2>2. Cardinality(RowsOf(r)) = 0
    BY <2>1, FS_EmptySet
  <2> QED BY <2>2 DEF OrderedTrace
<1>2. [r \in Runs |-> OrderedTrace(r)] = [r \in Runs |-> <<>>]
  BY <1>1
<1> QED BY <1>2 DEF Init, Log!Init

LEMMA CommitWrites ==
  ASSUME GapInv, NEW w \in Writers, Commit(w)
  PROVE  logBar' = [logBar EXCEPT ![WriterRun[w]] = Append(@, EventOf(w))]
<1> DEFINE R == WriterRun[w]
           new == [run |-> R, seq |-> seq[w], event |-> EventOf(w)]
<1>1. R \in Runs
  BY WritersAssumption
<1>2. PICK n \in Nat : Numbering(RowsOf(R), n)
  BY <1>1, RunListed
<1>3. Numbered(R, n)
  BY <1>2 DEF Numbering, Numbered, Seqs
<1>4. new.seq = n + 1 /\ new.run = R /\ new.event = EventOf(w)
  BY <1>3, CommitsNext
<1>5. new \in Row
  <2>1. acked[w] + 1 \in 1..Quota
    BY BoundsAssumption DEF GapInv, Typed, Busy, Commit, Goto
  <2> QED
    BY <1>1, <2>1 DEF GapInv, Typed, Recent, Commit, Goto, Row, Event, EventOf
<1>6. rows' = rows \cup {new}
  BY DEF Commit
<1> HIDE DEF new, R
<1>7. RowsOf(R)' = RowsOf(R) \cup {new}
  BY <1>4, <1>6 DEF RowsOf
<1>8. OrderedTrace(R)' = Append(OrderedTrace(R), EventOf(w))
  <2>1. Listed(RowsOf(R) \cup {new}) = Append(Listed(RowsOf(R)), EventOf(w))
    BY <1>1, <1>2, <1>4, <1>5, RunListed, ListedAppends
  <2>2. OrderedTrace(R)' = Listed(RowsOf(R)')
    BY DEF OrderedTrace, Listed
  <2> QED BY <1>1, <1>7, <2>1, <2>2, RunListed
<1>9. ASSUME NEW r \in Runs, r # R PROVE OrderedTrace(r)' = OrderedTrace(r)
  <2>1. RowsOf(r)' = RowsOf(r)
    BY <1>4, <1>6, <1>9 DEF RowsOf
  <2> QED BY <2>1 DEF OrderedTrace
<1> QED BY <1>1, <1>8, <1>9 DEF logBar, R

LEMMA LogStepMaps == GapInv /\ [Next]_vars => [Log!Next]_(Log!vars)
<1> SUFFICES ASSUME GapInv, [Next]_vars PROVE Log!Next \/ UNCHANGED Log!vars
  OBVIOUS
<1>1. ASSUME UNCHANGED rows PROVE UNCHANGED logBar
  <2>1. \A r \in Runs : RowsOf(r)' = RowsOf(r)
    BY <1>1 DEF RowsOf
  <2> QED BY <2>1 DEF logBar, OrderedTrace
<1>2. ASSUME NEW w \in Writers, Commit(w) PROVE Log!Next
  <2>1. logBar' = [logBar EXCEPT ![WriterRun[w]] = Append(@, EventOf(w))] /\ UNCHANGED view
    BY <1>2, CommitWrites DEF Commit
  <2>2. EventOf(w) \in Event /\ WriterRun[w] \in Runs
    <3>1. acked[w] + 1 \in 1..Quota
      BY <1>2, BoundsAssumption DEF GapInv, Typed, Busy, Commit, Goto
    <3> QED BY <3>1, WritersAssumption DEF Event, EventOf
  <2> QED BY <2>1, <2>2 DEF Log!Next, Log!Write, logBar
<1>3. ASSUME NEW c \in Clients, GetTrace(c) PROVE Log!Next
  <2>1. UNCHANGED logBar
    BY <1>1, <1>3 DEF GetTrace
  <2>2. view' = [view EXCEPT ![c] = logBar[Watches[c]]]
    BY <1>3, WritersAssumption DEF GetTrace, logBar
  <2> QED BY <2>1, <2>2 DEF Log!Next, Log!Read, logBar
<1>4. ASSUME NEW w \in Writers, Snapshot(w) \/ Insert(w) \/ Conflict(w) \/ Reply(w) \/ Lose(w)
      PROVE  UNCHANGED Log!vars
  <2>1. UNCHANGED rows /\ UNCHANGED view
    BY <1>4 DEF Snapshot, Insert, Conflict, Reply, Lose
  <2> QED BY <1>1, <2>1 DEF Log!vars, logBar
<1>5. CASE UNCHANGED vars
  BY <1>1, <1>5 DEF vars, Log!vars, logBar
<1> QED BY <1>2, <1>3, <1>4, <1>5 DEF Next, Statement

\* However many writers race, the numbered table is an append-only sequence to
\* its readers: every commit appends at the end, and every answer of get_trace
\* is that sequence.
THEOREM AppendLogImplemented == Spec => ImplementsAppendLog
BY LogInitMaps, LogStepMaps, GapInvariant, PTL DEF Spec, ImplementsAppendLog, Log!Spec

===============================================================================
