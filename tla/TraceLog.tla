------------------------------ MODULE TraceLog -------------------------------
(***************************************************************************)
(* How an event gets its place in a trace (trace.rs: append_event).  The   *)
(* statement is                                                            *)
(*                                                                         *)
(*   INSERT INTO run_traces ... SELECT ..., COALESCE(MAX(seq), 0) + 1 ...  *)
(*                                                                         *)
(* It is one statement and not one step: PostgreSQL evaluates the SELECT   *)
(* on the rows committed when the statement starts, then inserts, waiting  *)
(* for another open INSERT of the same (run_id, seq) and failing if that   *)
(* one committed, then commits.  append_event hands the error to its       *)
(* caller, which stops: every caller leaves by `?`.                        *)
(*                                                                         *)
(* RunService takes append_event for an atomic append.  That is right as   *)
(* long as a run has one writer at a time, which is the case: the handler  *)
(* first and then the task it spawned.  This module has any number of      *)
(* writers per run, to say what depends on that and what does not.         *)
(***************************************************************************)
EXTENDS Integers, FiniteSets, Sequences, SequencesExt

CONSTANTS
  Runs,
  Writers,      \* handlers and tasks that append to a trace
  WriterRun,    \* WriterRun[w]: the run w writes for
  Clients,      \* pollers of GET /runs/{id}/trace
  Watches,      \* Watches[c]: the run c polls
  Quota,        \* bound: how many events a writer appends
  MaxFaults     \* bound: how many statements meet a failing connection

ASSUME WritersAssumption ==
  WriterRun \in [Writers -> Runs] /\ Watches \in [Clients -> Runs]

ASSUME BoundsAssumption == Quota \in Nat /\ MaxFaults \in Nat

VARIABLES
  rows,         \* the committed rows of run_traces
  pc,           \* pc[w]: where the append of w is
  seq,          \* seq[w]: the value the SELECT of w's statement computed
  acked,        \* acked[w]: how many appends returned Ok to w
  view,         \* view[c]: the last answer c got
  faults

vars == <<rows, pc, seq, acked, view, faults>>

Event == Writers \X (1..Quota)

\* The event w is appending.
EventOf(w) == <<w, acked[w] + 1>>

\* CHECK (seq > 0)
Row == [run : Runs, seq : Nat \ {0}, event : Event]

RowsOf(r) == {x \in rows : x.run = r}
Seqs(r)   == {x.seq : x \in RowsOf(r)}

Init ==
  /\ rows = {}
  /\ pc = [w \in Writers |-> "ready"]
  /\ seq = [w \in Writers |-> 0]
  /\ acked = [w \in Writers |-> 0]
  /\ view = [c \in Clients |-> <<>>]
  /\ faults = 0

Goto(w, from, to) == pc[w] = from /\ pc' = [pc EXCEPT ![w] = to]

\* COALESCE(MAX(seq), 0)
MaxSeq(r) == Max({0} \cup Seqs(r))

\* Seeded defect: without the + 1.
LastSeq(r) == MaxSeq(r)

\* Seeded defect: a counter that also counts what is never committed.
ReservedSeq(r) ==
  Max({MaxSeq(r)} \cup {seq[w] : w \in {v \in Writers : WriterRun[v] = r}}) + 1

NextSeq(r) == MaxSeq(r) + 1

\* The statement starts: its snapshot.
Snapshot(w) ==
  /\ acked[w] < Quota
  /\ Goto(w, "ready", "insert")
  /\ seq' = [seq EXCEPT ![w] = NextSeq(WriterRun[w])]
  /\ UNCHANGED <<rows, acked, view, faults>>

\* Seeded defect: the connection of an append that failed keeps its row locked.
HoldsAfterLoss(v) == pc[v] \in {"commit", "lost"}

\* v has inserted its row and not ended its transaction.
Holds(v) == pc[v] = "commit"

Waits(w) ==
  \E v \in Writers \ {w} :
    Holds(v) /\ WriterRun[v] = WriterRun[w] /\ seq[v] = seq[w]

Taken(w) == seq[w] \in Seqs(WriterRun[w])

\* The unique index admits the row ...
Insert(w) ==
  /\ ~Waits(w) /\ ~Taken(w)
  /\ Goto(w, "insert", "commit")
  /\ UNCHANGED <<rows, seq, acked, view, faults>>

\* Seeded defect: ON CONFLICT DO NOTHING.
ConflictIgnored(w) ==
  /\ Goto(w, "insert", "reply")
  /\ ~Waits(w) /\ Taken(w)
  /\ UNCHANGED <<rows, seq, acked, view, faults>>

\* ... or refuses it, and append_event returns the error.
Conflict(w) ==
  /\ ~Waits(w) /\ Taken(w)
  /\ Goto(w, "insert", "conflict")
  /\ UNCHANGED <<rows, seq, acked, view, faults>>

Commit(w) ==
  /\ Goto(w, "commit", "reply")
  /\ rows' = rows \cup {[run |-> WriterRun[w], seq |-> seq[w], event |-> EventOf(w)]}
  /\ UNCHANGED <<seq, acked, view, faults>>

Reply(w) ==
  /\ Goto(w, "reply", "ready")
  /\ acked' = [acked EXCEPT ![w] = @ + 1]
  /\ UNCHANGED <<rows, seq, view, faults>>

\* The connection fails: before the commit the statement is rolled back, after
\* it only the answer is lost.  The writer sees an error either way.
Lose(w) ==
  /\ faults < MaxFaults
  /\ pc[w] \in {"insert", "commit", "reply"}
  /\ pc' = [pc EXCEPT ![w] = "lost"]
  /\ faults' = faults + 1
  /\ UNCHANGED <<rows, seq, acked, view>>

\* Seeded defect: get_trace without its ORDER BY, rows in any order.
UnorderedTrace(r) ==
  LET s == SetToSeq(RowsOf(r)) IN [i \in DOMAIN s |-> s[Len(s) + 1 - i].event]

\* ORDER BY seq ASC: the place of row x among rows R is the number of rows up to
\* it.  The unique index excludes ties.
Position(R, x) == Cardinality({y \in R : y.seq <= x.seq})

RowAt(R, i) == CHOOSE x \in R : Position(R, x) = i

OrderedTrace(r) ==
  [i \in 1..Cardinality(RowsOf(r)) |-> RowAt(RowsOf(r), i).event]

GetTrace(c) ==
  /\ view' = [view EXCEPT ![c] = OrderedTrace(Watches[c])]
  /\ UNCHANGED <<rows, pc, seq, acked, faults>>

Statement(w) == Snapshot(w) \/ Insert(w) \/ Conflict(w) \/ Commit(w) \/ Reply(w)

Next ==
  \/ \E w \in Writers : Statement(w) \/ Lose(w)
  \/ \E c \in Clients : GetTrace(c)

Spec == Init /\ [][Next]_vars

\* PostgreSQL executes the statements it was sent.
FairSpec == Spec /\ \A w \in Writers : WF_vars(Statement(w))

-------------------------------------------------------------------------------
(* Properties. *)

PcType == {"ready", "insert", "commit", "reply", "conflict", "lost"}

\* In particular no row ever violates CHECK (seq > 0).
TypeOK ==
  /\ rows \subseteq Row
  /\ pc \in [Writers -> PcType]
  /\ seq \in [Writers -> Nat]
  /\ acked \in [Writers -> 0..Quota]
  /\ view \in [Clients -> Seq(Event)]
  /\ faults \in 0..MaxFaults

\* However many writers race and fail, the committed rows of a run are numbered
\* 1, 2, 3, ... without a hole and without a repetition.
GapFree ==
  /\ \A r \in Runs : Seqs(r) = 1..MaxSeq(r)
  /\ \A x, y \in rows : x.run = y.run /\ x.seq = y.seq => x = y

Sole(w) == \A v \in Writers \ {w} : WriterRun[v] # WriterRun[w]

\* A writer that has its run for itself never loses an event to the unique
\* constraint; this is what lets execute_run append without retrying.
SoleWriterNeverConflicts == \A w \in Writers : Sole(w) => pc[w] # "conflict"

SeqsOf(e) == {x.seq : x \in {y \in rows : y.event = e}}

\* An append that returned Ok has exactly one row, an append that returned an
\* error has at most one, and the events of one writer stand in the order it
\* appended them.
AppendedOnceInOrder ==
  \A w \in Writers :
    /\ \A i \in 1..acked[w] : Cardinality(SeqsOf(<<w, i>>)) = 1
    /\ \A x, y \in rows :
         x.event[1] = w /\ y.event[1] = w =>
           (x.seq < y.seq <=> x.event[2] < y.event[2])
    /\ \A x \in rows : x.event[1] = w => x.run = WriterRun[w]

\* No append waits for ever for another's open transaction.
AppendAnswered ==
  \A w \in Writers :
    (pc[w] = "insert") ~> (pc[w] \in {"ready", "conflict", "lost"})

\* The table with its computed numbers implements the append-only sequence, for
\* the readers as well: every answer of get_trace extends the one before.
Log == INSTANCE AppendLog WITH
  Events <- Event,
  log <- [r \in Runs |-> OrderedTrace(r)]

ImplementsAppendLog == Log!Spec

===============================================================================
