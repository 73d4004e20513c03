------------------------------- MODULE V2Run -------------------------------
(***************************************************************************)
(* One run of the v2 engine in a fresh directory: the main thread          *)
(* (exactsource/cli.py run_cli, exactsource/runner.py run_tasks) and the   *)
(* threads of its pool, each in _run_one with DefaultTaskSolver.           *)
(*                                                                         *)
(* A workbook is the sequence of the plans applied to the input.  What a   *)
(* thread does between two visible effects is one action.  An I/O error is *)
(* early, before the effect, or late: os.replace succeeded and the chmod   *)
(* after it raised.                                                        *)
(***************************************************************************)
EXTENDS Integers, Sequences, FiniteSets

CONSTANTS
  Task,
  CellTask,          \* the tasks with is_cell_level
  Plan,
  Workers,           \* CONCURRENCY
  SemanticRepairs,   \* SEMANTIC_REPAIRS
  TransportRetries,  \* TRANSPORT_RETRIES
  Late,              \* where a late error may occur
  None

ASSUME RunAssumption ==
  /\ IsFiniteSet(Task) /\ CellTask \subseteq Task
  /\ Workers \in Nat \ {0}
  /\ SemanticRepairs \in Nat /\ TransportRetries \in Nat
  /\ Late \subseteq {"apply", "promote", "fallback", "trace", "predictions"}

VARIABLES
  main,         \* where the main thread is
  impatient,    \* it was interrupted while it waited for the pool
  observed,     \* indexed_results
  predictions,  \* predictions.jsonl
  client,       \* the HTTP client of the solver
  place,        \* where _run_one is
  working,      \* the working copy beside the output
  recovery,     \* is_truncation_recovery
  plan,         \* the plan that was accepted
  calls,        \* what each logical call came to
  before,       \* record_count_before_call
  records,      \* the TraceRecorder
  status,       \* what _run_one made of the task
  outputs,      \* the published workbook
  traces        \* the published trace

solver == <<working, recovery, plan, calls, before, records>>
artefacts == <<status, outputs, traces>>
mains == <<main, impatient, observed, predictions, client>>
vars == <<mains, place, solver, artefacts>>

Place == {"queued", "copy", "answer", "promote", "fallback", "trace", "done",
          "failed"}
Verdict == {"not_reached", "rejected", "accepted"}
Record == [call : Nat, provider : {"success", "retry", "error"},
           recovery : BOOLEAN, terminal : BOOLEAN, plan : Verdict \cup {None},
           task : {"ok", "error", None}]
Workbook == Seq(Plan)

ASSUME NoneAssumption ==
  /\ None \notin Plan \cup Workbook \cup Seq(Record) \cup Verdict \cup {"ok", "error"}
  /\ None \notin [status : {"ok", "error"}, workbook : Workbook]
  /\ None \notin [Task -> {"ok", "error"}]

TypeOK ==
  /\ main \in {"start", "refused", "run", "abandon", "write", "validate",
               "close", "ended", "killed"}
  /\ impatient \in BOOLEAN
  /\ observed \subseteq Task
  /\ predictions \in [Task -> {"ok", "error"}] \cup {None}
  /\ client \in {"none", "open", "closed"}
  /\ place \in [Task -> Place]
  /\ working \in [Task -> Workbook \cup {None}]
  /\ recovery \in [Task -> BOOLEAN]
  /\ plan \in [Task -> Plan \cup {None}]
  /\ calls \in [Task -> Seq(Verdict)]
  /\ before \in [Task -> Nat]
  /\ records \in [Task -> Seq(Record)]
  /\ status \in [Task -> {"ok", "error", None}]
  /\ outputs \in [Task -> Workbook \cup {None}]
  /\ traces \in [Task -> Seq(Record) \cup {None}]

Init ==
  /\ main = "start"
  /\ impatient = FALSE
  /\ observed = {}
  /\ predictions = None
  /\ client = "none"
  /\ place = [t \in Task |-> "queued"]
  /\ working = [t \in Task |-> None]
  /\ recovery = [t \in Task |-> FALSE]
  /\ plan = [t \in Task |-> None]
  /\ calls = [t \in Task |-> <<>>]
  /\ before = [t \in Task |-> 0]
  /\ records = [t \in Task |-> <<>>]
  /\ status = [t \in Task |-> None]
  /\ outputs = [t \in Task |-> None]
  /\ traces = [t \in Task |-> None]

Goto(t, p) == place' = [place EXCEPT ![t] = p]
Finished(t) == place[t] \in {"done", "failed"}
Busy == {t \in Task : place[t] # "queued" /\ ~Finished(t)}

-----------------------------------------------------------------------------
(* A thread of the pool.                                                   *)

(* Mutant: nothing is taken from the queue once the run is given up.       *)
TakeWhileRunning(t) ==
  /\ main = "run"
  /\ place[t] = "queued" /\ Cardinality(Busy) < Workers
  /\ \E p \in {"copy", "failed"} : Goto(t, p)
  /\ UNCHANGED <<mains, solver, artefacts>>

(* The pool takes tasks from its queue until it is empty, also while the   *)
(* main thread leaves it; reserving the name of the working copy may fail. *)
Take(t) ==
  /\ main \notin {"start", "refused", "killed"}
  /\ place[t] = "queued" /\ Cardinality(Busy) < Workers
  /\ \E p \in {"copy", "failed"} : Goto(t, p)
  /\ UNCHANGED <<mains, solver, artefacts>>

Copy(t) ==
  /\ main # "killed" /\ place[t] = "copy"
  /\ working' = [working EXCEPT ![t] = <<>>]
  /\ Goto(t, "answer")
  /\ UNCHANGED <<mains, recovery, plan, calls, before, records, artefacts>>

(* The copy, the context or the messages.                                  *)
CopyFails(t) ==
  /\ main # "killed" /\ place[t] = "copy"
  /\ \E w \in {None, <<>>} : working' = [working EXCEPT ![t] = w]
  /\ Goto(t, "fallback")
  /\ UNCHANGED <<mains, recovery, plan, calls, before, records, artefacts>>

(* The record that on_attempt makes: of which call, how the provider       *)
(* answered, and whether the call recovers from a truncation.              *)
Attempt(t, provider) ==
  [call |-> Len(calls[t]) + 1, provider |-> provider, recovery |-> recovery[t],
   terminal |-> FALSE, plan |-> None, task |-> None]

Attempts(t) == Len(records[t]) - before[t]

(* on_attempt, for an attempt that will be followed by another.            *)
Retried(t) ==
  /\ main # "killed" /\ place[t] = "answer"
  /\ Attempts(t) < TransportRetries
  /\ records' = [records EXCEPT ![t] = Append(@, Attempt(t, "retry"))]
  /\ UNCHANGED <<mains, place, working, recovery, plan, calls, before, artefacts>>

(* trace.update_last, with the verdict on the call.                        *)
Marked(rs, verdict) ==
  [rs EXCEPT ![Len(rs)] = [@ EXCEPT !.terminal = TRUE, !.plan = verdict]]

(* How the last attempt of a call ended: a call that comes to a plan has a *)
(* complete answer.                                                        *)
Ended(verdict) == IF verdict = "not_reached" THEN "error" ELSE "success"

(* The records with those of the attempt that ends the call, unless an     *)
(* error that no handler names ended it.                                   *)
Reported(t, reported, verdict) ==
  IF reported THEN Append(records[t], Attempt(t, Ended(verdict))) ELSE records[t]

(* Mutant: the last record is marked, whichever call it is of.             *)
ClosingAny(t, reported, verdict) ==
  LET rs == Reported(t, reported, verdict)
  IN  IF rs # <<>> THEN Marked(rs, verdict) ELSE rs

(* The records of a call that has ended; its last attempt may be missing.  *)
Closing(t, reported, verdict) ==
  LET rs == Reported(t, reported, verdict)
  IN  IF Len(rs) > before[t] THEN Marked(rs, verdict) ELSE rs

CallEnds(t, reported, verdict) ==
  /\ main # "killed" /\ place[t] = "answer"
  /\ records' = [records EXCEPT ![t] = Closing(t, reported, verdict)]
  /\ calls' = [calls EXCEPT ![t] = Append(@, verdict)]

CallAgain(t) ==
  /\ before' = [before EXCEPT ![t] = Len(records'[t])]
  /\ UNCHANGED place

GiveUp(t) == Goto(t, "fallback") /\ UNCHANGED before

(* The plan is applied to a candidate, which then replaces the copy.       *)
Accepted(t) ==
  /\ CallEnds(t, TRUE, "accepted")
  /\ \E p \in Plan :
       /\ working' = [working EXCEPT ![t] = Append(@, p)]
       /\ plan' = [plan EXCEPT ![t] = p]
  /\ Goto(t, "promote")
  /\ UNCHANGED <<mains, recovery, before, artefacts>>

LastCall(t) == recovery[t] \/ Len(calls[t]) >= SemanticRepairs

(* It cannot be parsed or applied, or the error is a late one.             *)
Rejected(t) ==
  /\ CallEnds(t, TRUE, "rejected")
  /\ \/ UNCHANGED working
     \/ "apply" \in Late /\ \E p \in Plan : working' = [working EXCEPT ![t] = Append(@, p)]
  /\ \/ LastCall(t) /\ GiveUp(t)
     \/ ~LastCall(t) /\ CallAgain(t)
  /\ UNCHANGED <<mains, recovery, plan, artefacts>>

(* Mutant: a truncated repair may be recovered too.                        *)
MayRecoverLater(t) ==
  t \in CellTask /\ SemanticRepairs >= 1 /\ ~recovery[t]

MayRecover(t) ==
  t \in CellTask /\ Len(calls[t]) = 0 /\ SemanticRepairs >= 1 /\ ~recovery[t]

Truncated(t) ==
  /\ CallEnds(t, TRUE, "not_reached")
  /\ \/ MayRecover(t) /\ CallAgain(t) /\ recovery' = [recovery EXCEPT ![t] = TRUE]
     \/ ~MayRecover(t) /\ GiveUp(t) /\ UNCHANGED recovery
  /\ UNCHANGED <<mains, working, plan, artefacts>>

CallFails(t) ==
  /\ \E reported \in BOOLEAN : CallEnds(t, reported, "not_reached")
  /\ GiveUp(t)
  /\ UNCHANGED <<mains, working, recovery, plan, artefacts>>

Promote(t) ==
  /\ main # "killed" /\ place[t] = "promote"
  /\ outputs' = [outputs EXCEPT ![t] = working[t]]
  /\ working' = [working EXCEPT ![t] = None]
  /\ status' = [status EXCEPT ![t] = "ok"]
  /\ Goto(t, "trace")
  /\ UNCHANGED <<mains, recovery, plan, calls, before, records, traces>>

PromoteFails(t) ==
  /\ main # "killed" /\ place[t] = "promote"
  /\ \/ UNCHANGED <<outputs, working>>
     \/ /\ "promote" \in Late
        /\ outputs' = [outputs EXCEPT ![t] = working[t]]
        /\ working' = [working EXCEPT ![t] = None]
  /\ Goto(t, "fallback")
  /\ UNCHANGED <<mains, recovery, plan, calls, before, records, status, traces>>

(* Mutant: what a failed promotion published is left.                      *)
PristineIfMissing(t) ==
  /\ outputs' = [outputs EXCEPT ![t] = IF @ = None THEN <<>> ELSE @]

Pristine(t) ==
  /\ outputs' = [outputs EXCEPT ![t] = <<>>]

Fallback(t) ==
  /\ main # "killed" /\ place[t] = "fallback"
  /\ working' = [working EXCEPT ![t] = None]
  /\ status' = [status EXCEPT ![t] = "error"]
  /\ Pristine(t)
  /\ Goto(t, "trace")
  /\ UNCHANGED <<mains, recovery, plan, calls, before, records, traces>>

(* Removing the working copy, or the copy of the input.                    *)
FallbackFails(t) ==
  /\ main # "killed" /\ place[t] = "fallback"
  /\ \E w \in {None, working[t]} : working' = [working EXCEPT ![t] = w]
  /\ status' = [status EXCEPT ![t] = "error"]
  /\ \/ UNCHANGED outputs
     \/ "fallback" \in Late /\ Pristine(t)
  /\ Goto(t, "failed")
  /\ UNCHANGED <<mains, recovery, plan, calls, before, records, traces>>

(* The last record is given the task's status before the trace is written. *)
Signed(t) ==
  IF records[t] = <<>> THEN <<>>
  ELSE [records[t] EXCEPT ![Len(records[t])] = [@ EXCEPT !.task = status[t]]]

WriteTrace(t) ==
  /\ main # "killed" /\ place[t] = "trace"
  /\ records' = [records EXCEPT ![t] = Signed(t)]
  /\ traces' = [traces EXCEPT ![t] = Signed(t)]
  /\ Goto(t, "done")
  /\ UNCHANGED <<mains, working, recovery, plan, calls, before, status, outputs>>

TraceFails(t) ==
  /\ main # "killed" /\ place[t] = "trace"
  /\ records' = [records EXCEPT ![t] = Signed(t)]
  /\ \/ UNCHANGED traces
     \/ "trace" \in Late /\ traces' = [traces EXCEPT ![t] = Signed(t)]
  /\ Goto(t, "failed")
  /\ UNCHANGED <<mains, working, recovery, plan, calls, before, status, outputs>>

Worker(t) ==
  \/ Take(t) \/ Copy(t) \/ CopyFails(t) \/ Retried(t) \/ Accepted(t)
  \/ Rejected(t) \/ Truncated(t) \/ CallFails(t) \/ Promote(t)
  \/ PromoteFails(t) \/ Fallback(t) \/ FallbackFails(t) \/ WriteTrace(t)
  \/ TraceFails(t)

-----------------------------------------------------------------------------
(* The main thread.                                                        *)

(* What fails before the pool has its tasks is a refusal.                  *)
Start ==
  /\ main = "start"
  /\ \/ main' = "run" /\ client' = "open"
     \/ main' = "refused" /\ UNCHANGED client
  /\ UNCHANGED <<impatient, observed, predictions, place, solver, artefacts>>

(* Mutant: the exception of a worker is not looked at.                     *)
ObserveAnyway(t) ==
  /\ main = "run" /\ Finished(t) /\ t \notin observed
  /\ observed' = observed \cup {t}
  /\ UNCHANGED <<main, impatient, predictions, client, place, solver, artefacts>>

(* as_completed: the first worker that raised ends the loop, ...           *)
Observe(t) ==
  /\ main = "run" /\ Finished(t) /\ t \notin observed
  /\ \/ place[t] = "done" /\ observed' = observed \cup {t} /\ UNCHANGED main
     \/ place[t] = "failed" /\ main' = "abandon" /\ UNCHANGED observed
  /\ UNCHANGED <<impatient, predictions, client, place, solver, artefacts>>

AllObserved ==
  /\ main = "run" /\ observed = Task
  /\ main' = "write"
  /\ UNCHANGED <<impatient, observed, predictions, client, place, solver, artefacts>>

(* ... but the with statement waits for all the others.                    *)
Shutdown ==
  /\ main = "abandon" /\ \A t \in Task : Finished(t)
  /\ main' = "close"
  /\ UNCHANGED <<impatient, observed, predictions, client, place, solver, artefacts>>

WritePredictions ==
  /\ main = "write"
  /\ \/ main' = "validate" /\ predictions' = status
     \/ main' = "close" /\ UNCHANGED predictions
     \/ main' = "close" /\ "predictions" \in Late /\ predictions' = status
  /\ UNCHANGED <<impatient, observed, client, place, solver, artefacts>>

(* The checks of validate_run; the metrics are written, or not, after it.  *)
Valid ==
  \A t \in Task :
    /\ outputs[t] # None /\ traces[t] # None
    /\ traces[t] = <<>> => predictions[t] = "error"

Validate ==
  /\ main = "validate"
  /\ main' = "close"
  /\ UNCHANGED <<impatient, observed, predictions, client, place, solver, artefacts>>

Close ==
  /\ main = "close"
  /\ main' = "ended"
  /\ client' = "closed"
  /\ UNCHANGED <<impatient, observed, predictions, place, solver, artefacts>>

(* KeyboardInterrupt: in the loop it has the pool waited for, and one that *)
(* arrives there ends that, too; one in close may leave the client open.   *)
(* Before the loop it leaves some tasks out of the pool, or all of them:   *)
(* they end like those whose working copy cannot be named.                 *)
Interrupt ==
  /\ \/ main = "start" /\ main' = "abandon" /\ client' = "open" /\ UNCHANGED impatient
     \/ main = "run" /\ main' = "abandon" /\ UNCHANGED <<client, impatient>>
     \/ main = "abandon" /\ main' = "close" /\ impatient' = TRUE /\ UNCHANGED client
     \/ main \in {"write", "validate"} /\ main' = "close" /\ UNCHANGED <<client, impatient>>
     \/ main = "close" /\ main' = "ended" /\ UNCHANGED <<client, impatient>>
  /\ UNCHANGED <<observed, predictions, place, solver, artefacts>>

Kill ==
  /\ main \notin {"refused", "killed"}
  /\ main' = "killed"
  /\ UNCHANGED <<impatient, observed, predictions, client, place, solver, artefacts>>

MainThread ==
  \/ Start \/ AllObserved \/ Shutdown \/ WritePredictions \/ Validate \/ Close
  \/ \E t \in Task : Observe(t)

Next ==
  \/ MainThread \/ Interrupt \/ Kill
  \/ \E t \in Task : Worker(t)

Spec == Init /\ [][Next]_vars

FairSpec == Spec /\ WF_vars(MainThread) /\ \A t \in Task : WF_vars(Worker(t))

-----------------------------------------------------------------------------
(* Properties.                                                             *)

(* The run is all or nothing: what the predictions stand for is settled,   *)
(* whole and final, whatever fails and whenever the process is killed.     *)
Outcome(t) ==
  IF place[t] = "done" THEN [status |-> status[t], workbook |-> outputs[t]] ELSE None

Batch ==
  INSTANCE V2Batch
  WITH settled <- [t \in Task |-> Outcome(t)],
       delivered <- IF predictions = None THEN None
                    ELSE [t \in Task |-> [status |-> predictions[t],
                                          workbook |-> outputs[t]]]
ImplementsBatch == Batch!Spec

(* A workbook that is published as a success has the edits of the accepted *)
(* plan and no others: "rejected work is replaced by a pristine input      *)
(* fallback" (README.md:220).                                              *)
OnlyAcceptedEdits ==
  \A t \in Task :
    place[t] = "done" /\ status[t] = "ok" => outputs[t] = <<plan[t]>>

(* validate_run finds nothing to complain about in what the threads wrote. *)
ValidationAccepts == main = "validate" => Valid

(* A trace tells what became of each call: the last record of a call, and  *)
(* no other, is marked as its end with the verdict; only a call that never *)
(* reached a plan may have no record; the last record has the task's       *)
(* status.                                                                 *)
TraceIsHonest ==
  \A t \in Task : traces[t] # None =>
    LET tr == traces[t]
        Of(n) == {i \in DOMAIN tr : tr[i].call = n}
    IN  /\ \A i \in DOMAIN tr :
             /\ tr[i].terminal <=> \A j \in Of(tr[i].call) : j <= i
             /\ tr[i].plan = IF tr[i].terminal THEN calls[t][tr[i].call] ELSE None
             /\ tr[i].task = IF i = Len(tr) THEN status[t] ELSE None
        /\ \A n \in DOMAIN calls[t] : Of(n) = {} => calls[t][n] = "not_reached"

(* ARCHITECTURE.md:54-57: a second call follows a rejected plan, or the    *)
(* truncated first answer of a cell task; never both, and never a third.   *)
WithinBudget(t) ==
  /\ Len(calls[t]) <= SemanticRepairs + 1
  /\ \A n \in 2 .. Len(calls[t]) :
       calls[t][n - 1] = "rejected" \/ (n = 2 /\ t \in CellTask)
  /\ \A n \in DOMAIN calls[t] :
       n < Len(calls[t]) /\ calls[t][n] = "not_reached" => n + 1 = Len(calls[t])

(* No task's calls exceed that budget, whatever the model answers.         *)
CallBudget == \A t \in Task : WithinBudget(t)

(* The client is closed only when no thread needs it any more, unless the  *)
(* operator does not wait for them.                                        *)
ClosedWhenIdle ==
  client = "closed" /\ ~impatient => \A t \in Task : Finished(t)

(* A run ends unless it is killed, also if workers fail.                   *)
RunEnds == <>(main \in {"refused", "ended", "killed"})
=============================================================================
