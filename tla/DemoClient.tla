----------------------------- MODULE DemoClient ------------------------------
(***************************************************************************)
(* The demo program against the server: users who type `runs start`, `runs *)
(* wait` and `runs trace`, again when a command fails.  Of the server only *)
(* what RunLifecycle promises is used: nothing says that a run ever ends,  *)
(* or when.                                                                *)
(*                                                                         *)
(* A command is a process that sends requests one after the other and ends *)
(* with the first that fails: the client neither repeats a request nor     *)
(* gives up on one that is not answered.                                   *)
(*                                                                         *)
(* Time is counted down: left[c] is what remains until the deadline of     *)
(* wait_for_run, nap[c] until the sleep is over.                           *)
(***************************************************************************)
EXTENDS Integers, FiniteSets

CONSTANTS
  Clients,
  Runs, Unscoped,      \* of RunLifecycle
  RunScope,            \* RunScope[r]: the scope in which r may be created
  Scopes,              \* (tenant, agent, key) of a request with a key
  ScopeOf,             \* ScopeOf[c]: what the user of c gives to `runs start`
  Timeout, Poll,       \* Timeout[c], Poll[c]: --timeout-secs, --poll-secs
  MaxCommands,         \* bound: how many commands a user types
  MaxFaults,           \* bound: how many requests fail
  None                 \* no run, no status

ASSUME ScopeAssumption ==
  /\ Unscoped \notin Scopes
  /\ ScopeOf \in [Clients -> Scopes \cup {Unscoped}]
  /\ RunScope \in [Runs -> Scopes \cup {Unscoped}]

ASSUME TimesAssumption == Timeout \in [Clients -> Nat] /\ Poll \in [Clients -> Nat]

ASSUME BoundsAssumption == MaxCommands \in Nat /\ MaxFaults \in Nat

ASSUME NoneAssumption ==
  /\ None \notin Runs
  /\ None \notin {"none", "pending", "running", "success", "failed", "timed_out"}

VARIABLES
  scope, status, runEnd,   \* the server
  command,     \* command[c]: the command that runs, or ran last
  pc,          \* pc[c]: where it is
  run,         \* run[c]: the run_id that `runs start` printed
  answer,      \* answer[c]: the status in the response on its way
  left, nap,
  outcome,     \* outcome[c]: how the last command ended
  typed,       \* typed[c]: how many commands were typed
  faults,
  adrift,      \* adrift[c]: start requests whose connection failed before the
               \* server had handled them
  made,        \* history: made[c]: the runs that requests of c have created
  stale,       \* history: the run had ended when the last request was sent
  late         \* history: requests of this wait sent at or after its deadline

server  == <<scope, status, runEnd>>
starts  == <<adrift, made>>
history == <<stale, late>>
vars ==
  <<server, command, pc, run, answer, left, nap, outcome, typed, faults, starts, history>>

Server == INSTANCE RunLifecycle

Statuses == {"pending", "running"} \cup Server!Terminal

Init ==
  /\ Server!Init
  /\ scope = RunScope
  /\ command = [c \in Clients |-> "none"]
  /\ pc = [c \in Clients |-> "prompt"]
  /\ run = [c \in Clients |-> None]
  /\ answer = [c \in Clients |-> None]
  /\ left = [c \in Clients |-> 0]
  /\ nap = [c \in Clients |-> 0]
  /\ outcome = [c \in Clients |-> None]
  /\ typed = [c \in Clients |-> 0]
  /\ faults = 0
  /\ adrift = [c \in Clients |-> 0]
  /\ made = [c \in Clients |-> {}]
  /\ stale = [c \in Clients |-> FALSE]
  /\ late = [c \in Clients |-> 0]

-------------------------------------------------------------------------------
(* The user *)

Type(c, cmd) ==
  /\ pc[c] = "prompt" /\ typed[c] < MaxCommands
  /\ command' = [command EXCEPT ![c] = cmd]
  /\ pc' = [pc EXCEPT ![c] = "sent"]
  /\ outcome' = [outcome EXCEPT ![c] = None]
  /\ typed' = [typed EXCEPT ![c] = @ + 1]
  /\ UNCHANGED <<server, run, answer, nap, faults, starts>>

Ended(c) == run[c] # None /\ status[run[c]] \in Server!Terminal

TypeStart(c) ==
  /\ run[c] = None
  /\ Type(c, "start")
  /\ UNCHANGED <<left, history>>

TypeWait(c) ==
  /\ run[c] # None
  /\ Type(c, "wait")
  /\ left' = [left EXCEPT ![c] = Timeout[c]]
  /\ stale' = [stale EXCEPT ![c] = Ended(c)]
  /\ late' = [late EXCEPT ![c] = 0]

TypeTrace(c) ==
  /\ command[c] = "wait" /\ outcome[c] \in Server!Terminal
  /\ Type(c, "trace")
  /\ UNCHANGED <<left, history>>

-------------------------------------------------------------------------------
(* The server: http.rs over what RunLifecycle promises *)

Answers(c, cmd) ==
  /\ pc[c] = "sent" /\ command[c] = cmd
  /\ pc' = [pc EXCEPT ![c] = "answered"]
  /\ UNCHANGED <<command, left, nap, outcome, typed, faults, history>>

\* Seeded defect: the header is not sent.
NoKeyHeader(c) == Unscoped

\* The Idempotency-Key header, of the key that the user gave.
KeyHeader(c) == ScopeOf[c]

\* A start request of c inserts the run r.
Inserts(c, r) ==
  /\ scope[r] = KeyHeader(c)
  /\ Server!Create(r)
  /\ made' = [made EXCEPT ![c] = @ \cup {r}]

\* The answer has the run_id of the run that was inserted; run[c] is the user's
\* once it is printed, which PrintStart is about.
AnswerStart(c) ==
  /\ Answers(c, "start")
  /\ \E r \in Runs : Inserts(c, r) /\ answer' = [answer EXCEPT ![c] = r]
  /\ UNCHANGED <<run, adrift>>

\* An answer that is not 2xx: the agent or the message is refused, or the scope
\* is not free (RepeatIsAnswered of RunClaims); or the run is inserted, and then
\* the scheduler or the database refuses it.
RefuseStart(c) ==
  /\ Answers(c, "start")
  /\ UNCHANGED <<server, made>> \/ \E r \in Runs : Inserts(c, r)
  /\ answer' = [answer EXCEPT ![c] = None]
  /\ UNCHANGED <<run, adrift>>

\* The server handles a request that nobody waits for any more, however many
\* commands later.  (It may also refuse it, or have never received it.)
StartAdrift(c) ==
  /\ adrift[c] > 0
  /\ adrift' = [adrift EXCEPT ![c] = @ - 1]
  /\ \E r \in Runs : Inserts(c, r)
  /\ UNCHANGED <<command, pc, run, answer, left, nap, outcome, typed, faults, history>>

AnswerRun(c) ==
  /\ Answers(c, "wait")
  /\ answer' = [answer EXCEPT ![c] = status[run[c]]]
  /\ UNCHANGED <<server, run, starts>>

\* What the trace says the run ended with, "none" if it has no run_end.
AnswerTrace(c) ==
  /\ Answers(c, "trace")
  /\ answer' = [answer EXCEPT ![c] = runEnd[run[c]]]
  /\ UNCHANGED <<server, run, starts>>

\* The run goes on, and need not.
Execute(r) ==
  /\ \/ Server!Start(r) \/ Server!Succeed(r) \/ Server!Fail(r) \/ Server!Reject(r)
     \/ Server!Publish(r)
  /\ UNCHANGED <<command, pc, run, answer, left, nap, outcome, typed, faults, starts, history>>

-------------------------------------------------------------------------------
(* The program *)

Exit(c, result) ==
  /\ pc' = [pc EXCEPT ![c] = "prompt"]
  /\ outcome' = [outcome EXCEPT ![c] = result]
  /\ answer' = [answer EXCEPT ![c] = None]
  /\ UNCHANGED <<server, command, left, nap, typed, history>>

PrintStart(c) ==
  /\ pc[c] = "answered" /\ command[c] = "start" /\ answer[c] # None
  /\ run' = [run EXCEPT ![c] = answer[c]]
  /\ Exit(c, "started")
  /\ UNCHANGED <<faults, starts>>

PrintRefusal(c) ==
  /\ pc[c] = "answered" /\ command[c] = "start" /\ answer[c] = None
  /\ Exit(c, "error")
  /\ UNCHANGED <<run, faults, starts>>

PrintTrace(c) ==
  /\ pc[c] = "answered" /\ command[c] = "trace"
  /\ Exit(c, answer[c])
  /\ UNCHANGED <<run, faults, starts>>

\* Seeded defect: any status but pending is an end.
SeesStart(c) == answer[c] # "pending"

SeesEnd(c) == answer[c] \notin {"pending", "running"}

\* Seeded defect: > for >=.
DeadlineExceeded(c) == left[c] < 0

DeadlinePassed(c) == left[c] <= 0

Polled(c) == pc[c] = "answered" /\ command[c] = "wait"

ReturnRun(c) ==
  /\ Polled(c) /\ SeesEnd(c)
  /\ Exit(c, answer[c])
  /\ UNCHANGED <<run, faults, starts>>

\* Seeded defect: the deadline is tested before the status.
GiveUpFirst(c) ==
  /\ Polled(c) /\ DeadlinePassed(c)
  /\ Exit(c, "timed_out")
  /\ UNCHANGED <<run, faults, starts>>

GiveUp(c) ==
  /\ Polled(c) /\ ~SeesEnd(c) /\ DeadlinePassed(c)
  /\ Exit(c, "timed_out")
  /\ UNCHANGED <<run, faults, starts>>

\* Seeded defect: the pause is counted from the deadline.
SleepBeyond(c) ==
  /\ Polled(c) /\ ~SeesEnd(c) /\ ~DeadlinePassed(c)
  /\ pc' = [pc EXCEPT ![c] = "asleep"]
  /\ nap' = [nap EXCEPT ![c] = left[c] + Poll[c]]
  /\ answer' = [answer EXCEPT ![c] = None]
  /\ UNCHANGED <<server, command, run, left, outcome, typed, faults, starts, history>>

Sleep(c) ==
  /\ Polled(c) /\ ~SeesEnd(c) /\ ~DeadlinePassed(c)
  /\ pc' = [pc EXCEPT ![c] = "asleep"]
  /\ nap' = [nap EXCEPT ![c] = Poll[c]]
  /\ answer' = [answer EXCEPT ![c] = None]
  /\ UNCHANGED <<server, command, run, left, outcome, typed, faults, starts, history>>

\* Seeded defect: the deadline is computed anew in every turn of the loop.
WakeAnew(c) ==
  /\ pc[c] = "asleep" /\ nap[c] = 0
  /\ pc' = [pc EXCEPT ![c] = "sent"]
  /\ left' = [left EXCEPT ![c] = Timeout[c]]
  /\ stale' = [stale EXCEPT ![c] = Ended(c)]
  /\ UNCHANGED <<server, command, run, answer, nap, outcome, typed, faults, starts, late>>

\* The sleep is not cut short by the deadline: the next request may be late.
Wake(c) ==
  /\ pc[c] = "asleep" /\ nap[c] = 0
  /\ pc' = [pc EXCEPT ![c] = "sent"]
  /\ stale' = [stale EXCEPT ![c] = Ended(c)]
  /\ late' = [late EXCEPT ![c] = IF left[c] <= 0 THEN @ + 1 ELSE @]
  /\ UNCHANGED <<server, command, run, answer, left, nap, outcome, typed, faults, starts>>

\* The connection fails, before or after the server has done its work.
RequestFails(c) ==
  /\ pc[c] \in {"sent", "answered"} /\ faults < MaxFaults
  /\ faults' = faults + 1
  /\ \/ pc[c] = "sent" /\ command[c] = "start"
        /\ adrift' = [adrift EXCEPT ![c] = @ + 1]
     \/ ~(pc[c] = "sent" /\ command[c] = "start") /\ UNCHANGED adrift
  /\ Exit(c, "error")
  /\ UNCHANGED <<run, made>>

-------------------------------------------------------------------------------
Waits(c) == command[c] = "wait" /\ pc[c] # "prompt"

\* -1 stands for every time after the deadline.
Tick ==
  /\ \E c \in Clients : Waits(c) /\ (left[c] >= 0 \/ nap[c] > 0)
  /\ left' = [c \in Clients |-> IF Waits(c) /\ left[c] >= 0 THEN left[c] - 1 ELSE left[c]]
  /\ nap' = [c \in Clients |-> IF nap[c] > 0 THEN nap[c] - 1 ELSE nap[c]]
  /\ UNCHANGED <<server, command, pc, run, answer, outcome, typed, faults, starts, history>>

User(c) == TypeStart(c) \/ TypeWait(c) \/ TypeTrace(c)

Respond(c) == AnswerStart(c) \/ RefuseStart(c) \/ AnswerRun(c) \/ AnswerTrace(c)

Program(c) ==
  \/ PrintStart(c) \/ PrintRefusal(c) \/ PrintTrace(c)
  \/ ReturnRun(c) \/ GiveUp(c) \/ Sleep(c) \/ Wake(c)

\* Nothing runs, and the users type no more.
Terminating == (\A c \in Clients : pc[c] = "prompt") /\ UNCHANGED vars

Next ==
  \/ \E c \in Clients :
       User(c) \/ Respond(c) \/ StartAdrift(c) \/ Program(c) \/ RequestFails(c)
  \/ \E r \in Runs : Execute(r)
  \/ Tick
  \/ Terminating

Spec == Init /\ [][Next]_vars

\* Time passes, a program that can go on does, and a request is answered: of the
\* handlers of the server RequestEnds of RunService says so.  No run need end.
FairSpec ==
  /\ Spec
  /\ WF_vars(Tick)
  /\ \A c \in Clients : WF_vars(Respond(c)) /\ WF_vars(Program(c))

-------------------------------------------------------------------------------
(* Properties. *)

TypeOK ==
  /\ scope = RunScope
  /\ status \in [Runs -> {"absent"} \cup Statuses]
  /\ runEnd \in [Runs -> {"none"} \cup Server!Terminal]
  /\ command \in [Clients -> {"none", "start", "wait", "trace"}]
  /\ pc \in [Clients -> {"prompt", "sent", "answered", "asleep"}]
  /\ run \in [Clients -> Runs \cup {None}]
  /\ answer \in [Clients -> Runs \cup Statuses \cup {"none", None}]
  /\ left \in [Clients -> Int] /\ nap \in [Clients -> Nat]
  /\ \A c \in Clients : left[c] \in -1..Timeout[c] /\ nap[c] <= Poll[c]
  /\ outcome \in [Clients -> Statuses \cup {"none", "started", "timed_out", "error", None}]
  /\ typed \in [Clients -> 0..MaxCommands]
  /\ faults \in 0..MaxFaults
  /\ adrift \in [Clients -> Nat] /\ made \in [Clients -> SUBSET Runs]
  /\ stale \in [Clients -> BOOLEAN]
  /\ late \in [Clients -> Nat]

\* The requests of all users who give the same key for the same agent create one
\* run together, and the run_id that one of them is told is of that run: also when
\* a request or its answer is lost, the command is typed again, and the server
\* handles the lost request after the second one.
SameKeySameRun ==
  \A c, d \in Clients :
    ScopeOf[c] = ScopeOf[d] /\ ScopeOf[c] # Unscoped =>
      /\ \A r \in made[c], s \in made[d] : r = s
      /\ run[c] # None => made[c] = {run[c]}

\* What `runs wait` printed stays true, and a trace that is read after it does
\* not say that the run ended otherwise; it may not say yet that it ended.
WaitedIsFinal ==
  \A c \in Clients :
    /\ command[c] = "wait" /\ outcome[c] \in Statuses =>
         outcome[c] = status[run[c]] /\ outcome[c] \in Server!Terminal
    /\ command[c] = "trace" /\ outcome[c] \in Statuses => outcome[c] = status[run[c]]

\* wait_for_run gives up only after its deadline, and never on a run that had
\* ended when it sent its last request: a run that ends while it sleeps through
\* the deadline is still reported.
NoFalseTimeout ==
  \A c \in Clients :
    outcome[c] = "timed_out" => left[c] <= 0 /\ ~stale[c]

\* At most one request is sent when the deadline has passed, whatever the
\* interval (0 included) and however slow the answers.
OneLateRequest == \A c \in Clients : late[c] <= 1

\* `runs wait` ends although nothing says that the run does.
WaitEnds == \A c \in Clients : Waits(c) ~> pc[c] = "prompt"
===============================================================================
