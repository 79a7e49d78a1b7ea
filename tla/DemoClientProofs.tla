--------------------------- MODULE DemoClientProofs --------------------------
(***************************************************************************)
(* For any users, runs, deadlines, intervals and failures: a key has one   *)
(* run, what `runs wait` prints is final, it never gives up on a run that  *)
(* had ended, and it sends one late request at most.                       *)
(*                                                                         *)
(* The argument: an answer is about the past, but what RunLifecycle says   *)
(* of a run that was created, or has ended, stays true.  So the invariant  *)
(* speaks of one client and the run it knows (Local), and is kept by what  *)
(* every other client and the server do.                                   *)
(***************************************************************************)
EXTENDS DemoClient, TLAPS

Terminal == {"success", "failed"}

\* A trace says the truth about the row, and a scope has one run.
ServerInv ==
  /\ \A r \in Runs : runEnd[r] # "none" => runEnd[r] = status[r] /\ status[r] \in Terminal
  /\ \A r, s \in Runs :
       /\ scope[r] = scope[s] /\ scope[r] # Unscoped
       /\ status[r] # "absent" /\ status[s] # "absent"
       => r = s

\* The run that c has been told of, and what it knows of it.
Knows(c) ==
  /\ \A r \in made[c] : status[r] # "absent" /\ scope[r] = ScopeOf[c]
  /\ run[c] # None => run[c] \in made[c]
  /\ command[c] \in {"wait", "trace"} => run[c] # None
  /\ pc[c] = "answered" /\ command[c] = "start" /\ answer[c] # None =>
       answer[c] \in made[c]
  /\ pc[c] = "answered" /\ command[c] = "wait" =>
       \/ answer[c] \in {"pending", "running"}
       \/ answer[c] \in Terminal /\ answer[c] = status[run[c]]
  /\ pc[c] = "answered" /\ command[c] = "trace" =>
       \/ answer[c] = "none"
       \/ answer[c] \in Terminal /\ answer[c] = status[run[c]]
  /\ command[c] \in {"wait", "trace"} /\ outcome[c] \in Statuses =>
       outcome[c] \in Terminal /\ outcome[c] = status[run[c]]

\* Where c is in its loop, and what the clock says.
Loops(c) ==
  /\ pc[c] # "prompt" => outcome[c] = None
  /\ pc[c] = "asleep" => command[c] = "wait" /\ late[c] = 0
  /\ late[c] <= 1
  /\ Waits(c) /\ late[c] = 1 => left[c] <= 0
  /\ Waits(c) /\ stale[c] => status[run[c]] \in Terminal
  /\ Polled(c) /\ stale[c] => answer[c] \in Terminal
  /\ outcome[c] = "timed_out" => left[c] <= 0 /\ ~stale[c]

Local(c) == Knows(c) /\ Loops(c)

IInv == TypeOK /\ ServerInv /\ \A c \in Clients : Local(c)

-------------------------------------------------------------------------------
(* What others do *)

\* A run that exists goes on existing, and one that ended stays as it ended.
ServerGrows ==
  /\ scope' = scope
  /\ \A r \in Runs : status[r] # "absent" => status'[r] # "absent"
  /\ \A r \in Runs : status[r] \in Terminal => status'[r] = status[r]

\* A step of c.
Others(c) ==
  \A d \in Clients \ {c} :
    /\ command'[d] = command[d] /\ pc'[d] = pc[d] /\ run'[d] = run[d]
    /\ answer'[d] = answer[d] /\ left'[d] = left[d] /\ outcome'[d] = outcome[d]
    /\ stale'[d] = stale[d] /\ late'[d] = late[d] /\ made'[d] = made[d]

LEMMA LocalKept ==
  ASSUME TypeOK, ServerGrows, NEW d \in Clients, Local(d),
         command'[d] = command[d], pc'[d] = pc[d], run'[d] = run[d],
         answer'[d] = answer[d], left'[d] = left[d], outcome'[d] = outcome[d],
         stale'[d] = stale[d], late'[d] = late[d], made'[d] = made[d]
  PROVE  Local(d)'
<1>1. (run[d] # None => run[d] \in Runs) /\ made[d] \subseteq Runs
  BY DEF TypeOK
<1>2. Knows(d)'
  BY <1>1 DEF Local, Knows, ServerGrows, Terminal
<1>3. Loops(d)'
  BY <1>1 DEF Local, Loops, Knows, ServerGrows, Waits, Polled
<1> QED BY <1>2, <1>3 DEF Local

Effects(r) ==
  \/ Server!Create(r) \/ Server!Start(r) \/ Server!Succeed(r) \/ Server!Fail(r)
  \/ Server!Reject(r) \/ Server!Publish(r)

ServerType ==
  /\ scope = RunScope
  /\ status \in [Runs -> {"absent"} \cup Statuses]
  /\ runEnd \in [Runs -> {"none"} \cup Server!Terminal]

LEMMA ServerStep ==
  ASSUME ServerType, ServerInv, UNCHANGED server \/ \E r \in Runs : Effects(r)
  PROVE  ServerType' /\ ServerInv' /\ ServerGrows
<1>1. CASE UNCHANGED server
  BY <1>1 DEF ServerType, ServerInv, ServerGrows, server
<1>2. ASSUME NEW r \in Runs, Effects(r)
      PROVE  ServerType' /\ ServerInv' /\ ServerGrows
  <2> USE DEF ServerType, Statuses, Server!Terminal, Terminal
  <2>1. CASE Server!Create(r)
    <3>1. /\ status[r] = "absent" /\ status' = [status EXCEPT ![r] = "pending"]
          /\ UNCHANGED <<scope, runEnd>>
          /\ \/ scope[r] = Unscoped
             \/ \A p \in Runs : scope[p] = scope[r] => status[p] = "absent"
      BY <2>1 DEF Server!Create, Server!Move, Server!ScopeFree
    <3> QED BY <3>1 DEF ServerInv, ServerGrows
  <2>2. CASE \/ Server!Start(r) \/ Server!Succeed(r) \/ Server!Fail(r)
             \/ Server!Reject(r)
    <3>1. PICK to \in {"running", "success", "failed"} :
            /\ status[r] \in {"pending", "running"} /\ status' = [status EXCEPT ![r] = to]
            /\ UNCHANGED <<scope, runEnd>>
      BY <2>2 DEF Server!Start, Server!Succeed, Server!Fail, Server!Reject, Server!Move
    <3> QED BY <3>1 DEF ServerInv, ServerGrows
  <2>3. CASE Server!Publish(r)
    BY <2>3 DEF Server!Publish, ServerInv, ServerGrows
  <2> QED BY <1>2, <2>1, <2>2, <2>3 DEF Effects
<1> QED BY <1>1, <1>2

-------------------------------------------------------------------------------
(* The steps.  Each leaves the other clients alone, keeps the types, and keeps *)
(* what is said of its own client.                                             *)

Keeps(c) == TypeOK' /\ Others(c) /\ ServerInv' /\ ServerGrows /\ Local(c)'

LEMMA Typed == TypeOK => ServerType
BY DEF TypeOK, ServerType

LEMMA TypeKeeps ==
  ASSUME IInv, NEW c \in Clients, User(c)
  PROVE  Keeps(c)
<1> USE DEF IInv, Local
<1>1. Ended(c) \in BOOLEAN
  BY DEF Ended
<1>2. PICK cmd \in {"start", "wait", "trace"} :
        /\ Type(c, cmd)
        /\ \A d \in Clients \ {c} :
             left'[d] = left[d] /\ stale'[d] = stale[d] /\ late'[d] = late[d]
        /\ \A d \in Clients : left'[d] \in -1..Timeout[d]
        /\ left' \in [Clients -> Int]
        /\ stale' \in [Clients -> BOOLEAN] /\ late' \in [Clients -> Nat]
        /\ cmd # "start" => run[c] # None
        /\ cmd # "wait" => late'[c] = late[c]
        /\ cmd = "wait" => late'[c] = 0 /\ stale'[c] = Ended(c)
  <2>1. CASE TypeStart(c)
    BY <2>1 DEF TypeStart, TypeOK, history
  <2>2. CASE TypeWait(c)
    <3>1. /\ Type(c, "wait") /\ run[c] # None
          /\ left' = [left EXCEPT ![c] = Timeout[c]]
          /\ stale' = [stale EXCEPT ![c] = Ended(c)]
          /\ late' = [late EXCEPT ![c] = 0]
      BY <2>2 DEF TypeWait
    <3>2. /\ left \in [Clients -> Int] /\ stale \in [Clients -> BOOLEAN]
          /\ late \in [Clients -> Nat] /\ Timeout[c] \in Nat
          /\ \A d \in Clients : left[d] \in -1..Timeout[d]
      BY TimesAssumption DEF TypeOK
    <3>3. \A d \in Clients : left'[d] \in -1..Timeout[d]
      BY <3>1, <3>2
    <3> QED BY <1>1, <3>1, <3>2, <3>3
  <2>3. CASE TypeTrace(c)
    BY <2>3 DEF TypeTrace, TypeOK, history, Knows
  <2> QED BY <2>1, <2>2, <2>3 DEF User
<1>3. ServerType' /\ ServerInv' /\ ServerGrows
  BY <1>2, Typed, ServerStep DEF Type
<1>4. TypeOK'
  BY <1>2, <1>3, TimesAssumption, BoundsAssumption DEF Type, TypeOK, ServerType, starts
<1>5. Others(c)
  BY <1>2 DEF Others, Type, TypeOK, starts
<1>6. Knows(c)'
  BY <1>2, NoneAssumption DEF Type, TypeOK, Knows, server, starts, Statuses, Server!Terminal
<1>7. Loops(c)'
  <2>1. pc'[c] = "sent" /\ outcome'[c] = None /\ command'[c] = cmd
        /\ run' = run /\ status' = status
    BY <1>2 DEF Type, TypeOK, server
  <2>2. cmd = "wait" /\ stale'[c] => status[run[c]] \in Terminal
    BY <1>2 DEF Ended, Terminal, Server!Terminal
  <2> QED BY <1>2, <2>1, <2>2, NoneAssumption DEF Loops, Waits, Polled
<1> QED BY <1>3, <1>4, <1>5, <1>6, <1>7 DEF Keeps

\* What a request of c adds to the runs it has made.
MadeGrows(c) ==
  /\ made' \in [Clients -> SUBSET Runs]
  /\ \A d \in Clients \ {c} : made'[d] = made[d]
  /\ made[c] \subseteq made'[c]
  /\ \A r \in made'[c] : status'[r] # "absent" /\ scope'[r] = ScopeOf[c]

LEMMA MadeStep ==
  ASSUME TypeOK, ServerGrows, NEW c \in Clients, Knows(c),
         made' = made \/ \E r \in Runs : Inserts(c, r)
  PROVE  MadeGrows(c)
<1>1. made \in [Clients -> SUBSET Runs]
  BY DEF TypeOK
<1>2. CASE made' = made
  BY <1>1, <1>2 DEF MadeGrows, Knows, ServerGrows
<1>3. ASSUME NEW r \in Runs, Inserts(c, r) PROVE MadeGrows(c)
  <2>1. made' = [made EXCEPT ![c] = @ \cup {r}]
    BY <1>3 DEF Inserts
  <2>2. status'[r] # "absent" /\ scope[r] = ScopeOf[c]
    BY <1>3 DEF Inserts, KeyHeader, Server!Create, Server!Move, TypeOK
  <2>3. made'[c] = made[c] \cup {r} /\ \A d \in Clients \ {c} : made'[d] = made[d]
    BY <1>1, <2>1
  <2>4. \A x \in made[c] : status'[x] # "absent" /\ scope'[x] = ScopeOf[c]
    BY <1>1 DEF Knows, ServerGrows
  <2> QED BY <1>1, <2>1, <2>2, <2>3, <2>4 DEF MadeGrows, ServerGrows
<1> QED BY <1>2, <1>3

LEMMA RespondKeeps ==
  ASSUME IInv, NEW c \in Clients, Respond(c)
  PROVE  Keeps(c)
<1> USE DEF IInv, Local
<1>1. UNCHANGED server \/ \E r \in Runs : Effects(r)
  BY DEF Respond, AnswerStart, RefuseStart, AnswerRun, AnswerTrace, Inserts, Effects, server
<1>2. ServerType' /\ ServerInv' /\ ServerGrows
  BY <1>1, Typed, ServerStep
<1>3. PICK cmd \in {"start", "wait", "trace"} : Answers(c, cmd)
  BY DEF Respond, AnswerStart, RefuseStart, AnswerRun, AnswerTrace
<1>4. PICK a \in Runs \cup Statuses \cup {"none", None} :
        /\ run' = run /\ adrift' = adrift /\ answer' = [answer EXCEPT ![c] = a]
        /\ cmd = "start" /\ a # None => a \in made'[c]
        /\ cmd = "wait" => a = status[run[c]] /\ status' = status
        /\ cmd = "trace" => a = runEnd[run[c]] /\ status' = status
        /\ made' = made \/ \E r \in Runs : Inserts(c, r)
  <2>1. CASE AnswerStart(c)
    <3>1. PICK r \in Runs : /\ Inserts(c, r) /\ adrift' = adrift
                            /\ answer' = [answer EXCEPT ![c] = r] /\ run' = run
      BY <2>1 DEF AnswerStart
    <3> QED BY <1>3, <2>1, <3>1 DEF AnswerStart, Answers, Inserts, TypeOK
  <2>2. CASE RefuseStart(c)
    BY <1>3, <2>2 DEF RefuseStart, Answers
  <2>3. CASE AnswerRun(c)
    <3>1. status[run[c]] \in Statuses
      BY <1>3, <2>3 DEF AnswerRun, Answers, Knows, TypeOK
    <3> QED BY <1>3, <2>3, <3>1 DEF AnswerRun, Answers, server, starts
  <2>4. CASE AnswerTrace(c)
    <3>1. runEnd[run[c]] \in {"none"} \cup Statuses
      BY <1>3, <2>4 DEF AnswerTrace, Answers, Knows, TypeOK, Statuses
    <3> QED BY <1>3, <2>4, <3>1 DEF AnswerTrace, Answers, server, starts
  <2> QED BY <2>1, <2>2, <2>3, <2>4 DEF Respond
<1>10. MadeGrows(c)
  BY <1>2, <1>4, MadeStep
<1>5. TypeOK'
  BY <1>2, <1>3, <1>4, <1>10 DEF TypeOK, ServerType, Answers, history, MadeGrows
<1>6. Others(c)
  BY <1>3, <1>4, <1>10 DEF Others, TypeOK, Answers, history, MadeGrows
<1>7. run[c] # None => run[c] \in Runs
  BY DEF TypeOK
<1>8. Knows(c)'
  <2>1. CASE cmd = "start"
    BY <1>2, <1>3, <1>4, <1>7, <1>10, <2>1 DEF Knows, Answers, TypeOK, ServerGrows, MadeGrows
  <2>2. CASE cmd = "wait"
    BY <1>2, <1>3, <1>4, <1>7, <1>10, <2>2
       DEF Knows, Answers, TypeOK, ServerGrows, MadeGrows, Statuses, Server!Terminal, Terminal
  <2>3. CASE cmd = "trace"
    BY <1>2, <1>3, <1>4, <1>7, <1>10, <2>3
       DEF Knows, Answers, TypeOK, ServerGrows, ServerInv, MadeGrows
  <2> QED BY <2>1, <2>2, <2>3
<1>9. Loops(c)'
  <2>1. stale[c] /\ cmd = "wait" => answer'[c] \in Terminal
    BY <1>3, <1>4 DEF Loops, Waits, Answers, TypeOK
  <2> QED BY <1>2, <1>3, <1>4, <1>7, <2>1
          DEF Loops, Answers, TypeOK, ServerGrows, Waits, Polled, Knows, history
<1> QED BY <1>2, <1>5, <1>6, <1>8, <1>9 DEF Keeps

\* A run appears for c, and nothing else is different.
LEMMA AdriftKeeps ==
  ASSUME IInv, NEW c \in Clients, StartAdrift(c)
  PROVE  Keeps(c)
<1> USE DEF IInv, Local
<1>1. PICK r \in Runs : Inserts(c, r)
  BY DEF StartAdrift
<1>2. ServerType' /\ ServerInv' /\ ServerGrows
  BY <1>1, Typed, ServerStep DEF Inserts, Effects
<1>3. MadeGrows(c)
  BY <1>1, <1>2, MadeStep
<1>4. TypeOK'
  <2>1. adrift' \in [Clients -> Nat]
    BY DEF StartAdrift, TypeOK
  <2>2. /\ UNCHANGED <<command, pc, run, answer, left, nap, outcome, typed, faults, stale, late>>
        /\ made' \in [Clients -> SUBSET Runs]
    BY <1>3 DEF StartAdrift, history, MadeGrows
  <2> QED BY <1>2, <2>1, <2>2 DEF TypeOK, ServerType
<1>5. Others(c)
  BY <1>3 DEF StartAdrift, Others, history, MadeGrows
<1>6. run[c] # None => run[c] \in Runs
  BY DEF TypeOK
<1>7. Knows(c)'
  BY <1>2, <1>3, <1>6 DEF StartAdrift, Knows, ServerGrows, MadeGrows, Terminal
<1>8. Loops(c)'
  BY <1>2, <1>6 DEF StartAdrift, Loops, Knows, ServerGrows, Waits, Polled, history
<1> QED BY <1>2, <1>4, <1>5, <1>7, <1>8 DEF Keeps

LEMMA ServerUntouched ==
  ASSUME TypeOK, ServerInv, UNCHANGED server
  PROVE  ServerType' /\ ServerInv' /\ ServerGrows
BY Typed, ServerStep

\* The command ends, the run_id of a new run is printed.
Prints(c) ==
  \/ run' = run
  \/ /\ command[c] = "start" /\ pc[c] = "answered" /\ answer[c] # None
     /\ run' = [run EXCEPT ![c] = answer[c]]

Counts ==
  /\ faults' = faults \/ (faults < MaxFaults /\ faults' = faults + 1)
  /\ made' = made /\ adrift' \in [Clients -> Nat]

Justified(c, result) ==
  \/ result \in {"started", "error"}
  \/ /\ command[c] \in {"wait", "trace"}
     /\ result = "none" \/ (result \in Terminal /\ result = status[run[c]])
  \/ result = "timed_out" /\ left[c] <= 0 /\ ~stale[c]

LEMMA ExitKeeps ==
  ASSUME IInv, NEW c \in Clients, NEW result, Exit(c, result), pc[c] # "prompt",
         Prints(c), Counts, Justified(c, result)
  PROVE  Keeps(c)
<1> USE DEF IInv, Local, Prints, Counts, Justified
<1>1. UNCHANGED server
  BY DEF Exit
<1>2. ServerType' /\ ServerInv' /\ ServerGrows
  BY <1>1, ServerUntouched
<1>3. result \in Statuses \cup {"none", "started", "timed_out", "error", None}
  BY DEF Statuses, Terminal, Server!Terminal
<1>4. pc[c] = "answered" /\ command[c] = "start" /\ answer[c] # None => answer[c] \in Runs
  BY DEF Knows, TypeOK
<1>5. TypeOK'
  <2>1. run' \in [Clients -> Runs \cup {None}]
    BY <1>4 DEF TypeOK
  <2>2. faults' \in 0..MaxFaults
    BY BoundsAssumption DEF TypeOK
  <2>3. /\ made' \in [Clients -> SUBSET Runs] /\ adrift' \in [Clients -> Nat]
        /\ outcome' \in [Clients -> Statuses \cup {"none", "started", "timed_out", "error", None}]
        /\ pc' \in [Clients -> {"prompt", "sent", "answered", "asleep"}]
        /\ answer' \in [Clients -> Runs \cup Statuses \cup {"none", None}]
    BY <1>3 DEF Exit, TypeOK
  <2>4. UNCHANGED <<command, left, nap, typed, stale, late>>
    BY DEF Exit, history
  <2> HIDE DEF Prints, Counts, Justified
  <2> QED BY <1>2, <2>1, <2>2, <2>3, <2>4 DEF TypeOK, ServerType
<1>6. Others(c)
  BY DEF Others, Exit, TypeOK, history
<1>7. /\ pc'[c] = "prompt" /\ command' = command /\ outcome'[c] = result
      /\ status' = status /\ scope' = scope /\ left' = left /\ stale' = stale /\ late' = late
      /\ made' = made
  BY DEF Counts, Exit, TypeOK, history, server
<1>8. Knows(c)'
  <2>1. CASE run' = run
    BY <1>7, <2>1 DEF Knows, Statuses, Terminal, Server!Terminal
  <2>2. CASE run' # run
    <3>1. run'[c] = answer[c] /\ command[c] = "start"
      BY <2>2 DEF TypeOK
    <3> QED BY <1>7, <2>2, <3>1 DEF Knows
  <2> QED BY <2>1, <2>2
<1>9. Loops(c)'
  BY <1>7, NoneAssumption DEF Loops, Waits, Polled, Terminal
<1> QED BY <1>2, <1>5, <1>6, <1>8, <1>9 DEF Keeps

LEMMA SleepKeeps ==
  ASSUME IInv, NEW c \in Clients, Sleep(c)
  PROVE  Keeps(c)
<1> USE DEF IInv, Local
<1>1. ServerType' /\ ServerInv' /\ ServerGrows
  BY ServerUntouched DEF Sleep
<1>2. TypeOK'
  <2>1. Poll[c] \in Nat
    BY TimesAssumption
  <2>2. /\ left' = left /\ nap' = [nap EXCEPT ![c] = Poll[c]]
        /\ \A d \in Clients : nap'[d] <= Poll[d]
    BY <2>1 DEF Sleep, TypeOK
  <2> QED BY <1>1, <2>1, <2>2 DEF Sleep, TypeOK, ServerType, history, starts
<1>3. Others(c)
  BY DEF Others, Sleep, TypeOK, history, starts
<1>4. /\ pc[c] = "answered" /\ command[c] = "wait" /\ pc'[c] = "asleep"
      /\ ~(left[c] <= 0) /\ command' = command /\ run' = run /\ outcome' = outcome
      /\ status' = status /\ scope' = scope /\ left' = left /\ stale' = stale /\ late' = late
      /\ made' = made
  BY DEF Sleep, TypeOK, history, server, starts, Polled, DeadlinePassed
<1>5. Knows(c)'
  BY <1>4 DEF Knows
<1>6. late[c] = 0
  BY <1>4 DEF Loops, Waits, TypeOK
<1>7. Loops(c)'
  BY <1>4, <1>6 DEF Loops, Waits, Polled
<1> QED BY <1>1, <1>2, <1>3, <1>5, <1>7 DEF Keeps

LEMMA WakeKeeps ==
  ASSUME IInv, NEW c \in Clients, Wake(c)
  PROVE  Keeps(c)
<1> USE DEF IInv, Local
<1>1. ServerType' /\ ServerInv' /\ ServerGrows
  BY ServerUntouched DEF Wake
<1>2. Ended(c) \in BOOLEAN /\ (Ended(c) => status[run[c]] \in Terminal)
  BY DEF Ended, Terminal, Server!Terminal
<1>3. TypeOK'
  BY <1>1, <1>2 DEF Wake, TypeOK, ServerType, starts
<1>4. Others(c)
  BY DEF Others, Wake, TypeOK, starts
<1>5. /\ pc[c] = "asleep" /\ pc'[c] = "sent" /\ command' = command /\ run' = run
      /\ outcome' = outcome /\ status' = status /\ scope' = scope /\ left' = left
      /\ made' = made /\ stale'[c] = Ended(c)
      /\ late'[c] = IF left[c] <= 0 THEN late[c] + 1 ELSE late[c]
  BY <1>2 DEF Wake, TypeOK, server, starts
<1>6. Knows(c)'
  BY <1>5 DEF Knows
<1>7. late[c] = 0 /\ outcome[c] = None
  BY <1>5 DEF Loops
<1>8. Loops(c)'
  BY <1>2, <1>5, <1>7, NoneAssumption DEF Loops, Waits, Polled
<1> QED BY <1>1, <1>3, <1>4, <1>6, <1>8 DEF Keeps

LEMMA ProgramKeeps ==
  ASSUME IInv, NEW c \in Clients, Program(c) \/ RequestFails(c)
  PROVE  Keeps(c)
<1>0. Knows(c) /\ Loops(c)
  BY DEF IInv, Local
<1>8. adrift \in [Clients -> Nat]
  BY DEF IInv, TypeOK
<1> USE <1>8 DEF starts
<1>1. CASE PrintStart(c)
  BY <1>1, ExitKeeps DEF PrintStart, Prints, Counts, Justified
<1>2. CASE PrintRefusal(c)
  BY <1>2, ExitKeeps DEF PrintRefusal, Prints, Counts, Justified
<1>3. CASE PrintTrace(c)
  <2>1. /\ Exit(c, answer[c]) /\ command[c] = "trace" /\ pc[c] = "answered"
        /\ run' = run /\ faults' = faults /\ starts' = starts
    BY <1>3 DEF PrintTrace
  <2>2. answer[c] = "none" \/ (answer[c] \in Terminal /\ answer[c] = status[run[c]])
    BY <1>0, <2>1 DEF Knows
  <2> QED BY <2>1, <2>2, ExitKeeps DEF Prints, Counts, Justified
<1>4. CASE ReturnRun(c)
  <2>1. /\ Exit(c, answer[c]) /\ command[c] = "wait" /\ pc[c] = "answered"
        /\ run' = run /\ faults' = faults /\ starts' = starts /\ answer[c] \notin {"pending", "running"}
    BY <1>4 DEF ReturnRun, Polled, SeesEnd
  <2>2. answer[c] \in Terminal /\ answer[c] = status[run[c]]
    BY <1>0, <2>1 DEF Knows
  <2> QED BY <2>1, <2>2, ExitKeeps DEF Prints, Counts, Justified
<1>5. CASE GiveUp(c)
  <2>1. /\ Exit(c, "timed_out") /\ command[c] = "wait" /\ pc[c] = "answered"
        /\ run' = run /\ faults' = faults /\ starts' = starts /\ left[c] <= 0
        /\ answer[c] \in {"pending", "running"}
    BY <1>5 DEF GiveUp, Polled, SeesEnd, DeadlinePassed
  <2>2. ~stale[c]
    BY <1>0, <2>1 DEF Loops, Polled, Terminal
  <2> QED BY <2>1, <2>2, ExitKeeps DEF Prints, Counts, Justified
<1>6. CASE RequestFails(c)
  BY <1>6, ExitKeeps DEF RequestFails, Prints, Counts, Justified
<1>7. CASE Sleep(c) \/ Wake(c)
  BY <1>7, SleepKeeps, WakeKeeps
<1> QED BY <1>1, <1>2, <1>3, <1>4, <1>5, <1>6, <1>7 DEF Program

LEMMA ExecuteKeeps ==
  ASSUME IInv, NEW r \in Runs, Execute(r)
  PROVE  IInv'
<1>1. Effects(r)
  BY DEF Execute, Effects
<1>2. ServerType' /\ ServerInv' /\ ServerGrows
  BY <1>1, Typed, ServerStep DEF IInv
<1>3. TypeOK'
  BY <1>2 DEF IInv, Execute, TypeOK, ServerType, history, starts
<1>4. ASSUME NEW d \in Clients PROVE Local(d)'
  BY <1>2, LocalKept DEF IInv, Execute, history, starts
<1> QED BY <1>2, <1>3, <1>4 DEF IInv

\* Only the time that is left changes, of those who wait.
LEMMA TickKeeps ==
  ASSUME IInv, Tick
  PROVE  IInv'
<1> USE DEF IInv
<1>1. ServerType' /\ ServerInv' /\ ServerGrows
  BY ServerUntouched DEF Tick
<1>2. \A d \in Clients :
        left'[d] = IF Waits(d) /\ left[d] >= 0 THEN left[d] - 1 ELSE left[d]
  BY DEF Tick
<1>3. TypeOK'
  <2>1. left' \in [Clients -> Int] /\ nap' \in [Clients -> Nat]
    BY DEF Tick, TypeOK
  <2>2. \A d \in Clients : left'[d] \in -1..Timeout[d] /\ nap'[d] <= Poll[d]
    BY TimesAssumption DEF Tick, TypeOK
  <2> QED BY <1>1, <2>1, <2>2 DEF Tick, TypeOK, ServerType, history, starts
<1>4. ASSUME NEW d \in Clients PROVE Local(d)'
  <2>1. /\ status' = status /\ scope' = scope /\ command' = command /\ pc' = pc
        /\ run' = run /\ answer' = answer /\ outcome' = outcome
        /\ stale' = stale /\ late' = late /\ made' = made
    BY DEF Tick, server, history, starts
  <2>2. Knows(d)'
    BY <2>1 DEF Local, Knows
  <2>3. left[d] <= 0 => left'[d] <= 0
    BY <1>2 DEF TypeOK
  <2>4. Loops(d)'
    BY <2>1, <2>3 DEF Local, Loops, Waits, Polled
  <2> QED BY <2>2, <2>4 DEF Local
<1> QED BY <1>1, <1>3, <1>4

LEMMA Inductive == IInv /\ [Next]_vars => IInv'
<1> SUFFICES ASSUME IInv, [Next]_vars PROVE IInv'
  OBVIOUS
<1>1. CASE UNCHANGED vars
  <2>1. ServerType' /\ ServerInv' /\ ServerGrows
    BY <1>1, ServerUntouched DEF IInv, vars
  <2>2. TypeOK'
    BY <1>1, <2>1 DEF IInv, vars, TypeOK, ServerType, history, starts
  <2>3. ASSUME NEW d \in Clients PROVE Local(d)'
    BY <1>1, <2>1, LocalKept DEF IInv, vars, history, starts
  <2> QED BY <2>1, <2>2, <2>3 DEF IInv
<1>2. ASSUME NEW c \in Clients,
             User(c) \/ Respond(c) \/ StartAdrift(c) \/ Program(c) \/ RequestFails(c)
      PROVE  IInv'
  <2>1. Keeps(c)
    BY <1>2, TypeKeeps, RespondKeeps, AdriftKeeps, ProgramKeeps
  <2>2. ASSUME NEW d \in Clients \ {c} PROVE Local(d)'
    <3>1. /\ command'[d] = command[d] /\ pc'[d] = pc[d] /\ run'[d] = run[d]
          /\ answer'[d] = answer[d] /\ left'[d] = left[d] /\ outcome'[d] = outcome[d]
          /\ stale'[d] = stale[d] /\ late'[d] = late[d] /\ made'[d] = made[d] /\ ServerGrows
      BY <2>1, <2>2 DEF Keeps, Others
    <3> QED BY <2>2, <3>1, LocalKept DEF IInv
  <2> QED BY <2>1, <2>2 DEF Keeps, IInv
<1>3. CASE \E r \in Runs : Execute(r)
  BY <1>3, ExecuteKeeps
<1>4. CASE Tick
  BY <1>4, TickKeeps
<1> QED BY <1>1, <1>2, <1>3, <1>4 DEF Next, Terminating

LEMMA Initial == Init => IInv
<1> SUFFICES ASSUME Init PROVE IInv
  OBVIOUS
<1> USE DEF Init, Server!Init
<1>1. TypeOK
  BY TimesAssumption, BoundsAssumption DEF TypeOK, Statuses
<1>2. ServerInv
  BY DEF ServerInv
<1>3. \A c \in Clients : Local(c)
  BY NoneAssumption DEF Local, Knows, Loops, Waits, Polled, Statuses, Server!Terminal
<1> QED BY <1>1, <1>2, <1>3 DEF IInv

LEMMA Invariant == Spec => []IInv
BY Initial, Inductive, PTL DEF Spec

-------------------------------------------------------------------------------
\* Every variable keeps its type; the clock of a wait stays within its flags.
THEOREM ClientTyped == Spec => []TypeOK
<1>1. IInv => TypeOK
  BY DEF IInv
<1> QED BY <1>1, Invariant, PTL

\* However often `runs start` is typed with a key, whatever is lost and however
\* late it arrives, all requests of all users of the key create one run together,
\* and the run_id that any of them is told is of that run.
THEOREM OneRunPerKey == Spec => []SameKeySameRun
<1>1. IInv => SameKeySameRun
  <2> SUFFICES ASSUME IInv, NEW c \in Clients, NEW d \in Clients,
                      ScopeOf[c] = ScopeOf[d], ScopeOf[c] # Unscoped
               PROVE  /\ \A r \in made[c], s \in made[d] : r = s
                      /\ run[c] # None => made[c] = {run[c]}
    BY DEF SameKeySameRun
  <2>1. \A r \in made[c], s \in made[d] : r = s
    <3>1. made[c] \subseteq Runs /\ made[d] \subseteq Runs
      BY DEF IInv, TypeOK
    <3> QED BY <3>1 DEF IInv, Local, Knows, ServerInv
  <2>2. \A r, s \in made[c] : r = s
    <3>1. made[c] \subseteq Runs
      BY DEF IInv, TypeOK
    <3> QED BY <3>1 DEF IInv, Local, Knows, ServerInv
  <2>3. run[c] # None => run[c] \in made[c]
    BY DEF IInv, Local, Knows
  <2> QED BY <2>1, <2>2, <2>3
<1> QED BY <1>1, Invariant, PTL

\* What `runs wait` prints is final, and no later trace contradicts it.
THEOREM PrintedIsFinal == Spec => []WaitedIsFinal
<1>1. IInv => WaitedIsFinal
  BY DEF IInv, Local, Knows, WaitedIsFinal, Terminal, Server!Terminal
<1> QED BY <1>1, Invariant, PTL

\* `runs wait` does not give up on a run that had ended when it asked last.
THEOREM NoWaitInVain == Spec => []NoFalseTimeout
<1>1. IInv => NoFalseTimeout
  BY DEF IInv, Local, Loops, NoFalseTimeout
<1> QED BY <1>1, Invariant, PTL

\* `runs wait` sends one request at most after its deadline.
THEOREM LateOnce == Spec => []OneLateRequest
<1>1. IInv => OneLateRequest
  BY DEF IInv, Local, Loops, OneLateRequest
<1> QED BY <1>1, Invariant, PTL
===============================================================================
