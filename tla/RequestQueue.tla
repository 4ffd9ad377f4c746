---------------------------- MODULE RequestQueue ----------------------------
(***************************************************************************)
(* What SwitchBatch.do_batch promises to its callers, whatever runs it: a  *)
(* FIFO of requests.  A request is executed at least once before it is     *)
(* answered and never after; executions follow the order of submission;    *)
(* the answer is the outcome of the last execution.  A caller may also     *)
(* give up, and its request may then still be executed.                    *)
(***************************************************************************)
EXTENDS Integers, Sequences

CONSTANTS
  Requests,   \* the calls
  Outcomes,   \* what an execution can return
  Failures    \* what a caller that gives up is told

VARIABLES
  next,       \* the next ticket
  ticket,     \* ticket of each request, 0 before it is submitted
  log,        \* executions so far, [batch |-> request, outcome |-> outcome]
  answer      \* what each caller was told

abstractVars == <<next, ticket, log, answer>>

Init ==
  /\ next = 1
  /\ ticket = [r \in Requests |-> 0]
  /\ log = <<>>
  /\ answer = [r \in Requests |-> "none"]

Submit(r) ==
  /\ ticket[r] = 0
  /\ ticket' = [ticket EXCEPT ![r] = next]
  /\ next' = next + 1
  /\ UNCHANGED <<log, answer>>

\* Nothing submitted later has been executed, and nobody has been told.
Execute(r) ==
  /\ ticket[r] # 0
  /\ answer[r] \notin Outcomes
  /\ \A i \in DOMAIN log : ticket[log[i].batch] <= ticket[r]
  /\ \E o \in Outcomes : log' = Append(log, [batch |-> r, outcome |-> o])
  /\ UNCHANGED <<next, ticket, answer>>

\* The last execution of r is the i-th of the log.
IsLastExecution(r, i) ==
  /\ log[i].batch = r
  /\ \A j \in DOMAIN log : log[j].batch = r => j <= i

Answer(r) ==
  /\ answer[r] = "none"
  /\ \E i \in DOMAIN log :
       /\ IsLastExecution(r, i)
       /\ answer' = [answer EXCEPT ![r] = log[i].outcome]
  /\ UNCHANGED <<next, ticket, log>>

GiveUp(r) ==
  /\ ticket[r] # 0
  /\ answer[r] = "none"
  /\ \E f \in Failures : answer' = [answer EXCEPT ![r] = f]
  /\ UNCHANGED <<next, ticket, log>>

Next ==
  \E r \in Requests : Submit(r) \/ Execute(r) \/ Answer(r) \/ GiveUp(r)

Spec == Init /\ [][Next]_abstractVars
=============================================================================
