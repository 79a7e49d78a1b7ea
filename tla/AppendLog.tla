------------------------------ MODULE AppendLog ------------------------------
(***************************************************************************)
(* What the trace of a run is to everyone who uses it: a sequence that     *)
(* events are appended to, one at a time, and that a client may copy at    *)
(* any moment.  Nothing is inserted in the middle, moved or lost, so each  *)
(* copy a client takes extends the one it took before.  TraceLog is shown  *)
(* to implement this specification.                                        *)
(***************************************************************************)
EXTENDS Sequences

CONSTANTS
  Runs,
  Events,
  Clients      \* each reads the trace of one run
CONSTANT Watches  \* Watches[c]: that run

VARIABLES
  log,         \* log[r]: the trace of r
  view         \* view[c]: the trace as c last read it

vars == <<log, view>>

Init ==
  /\ log = [r \in Runs |-> <<>>]
  /\ view = [c \in Clients |-> <<>>]

Write(r, e) ==
  /\ log' = [log EXCEPT ![r] = Append(@, e)]
  /\ UNCHANGED view

Read(c) ==
  /\ view' = [view EXCEPT ![c] = log[Watches[c]]]
  /\ UNCHANGED log

Next ==
  \/ \E r \in Runs : \E e \in Events : Write(r, e)
  \/ \E c \in Clients : Read(c)

Spec == Init /\ [][Next]_vars

===============================================================================
