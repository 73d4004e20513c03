---------------------------- MODULE RunInvariant ----------------------------
(***************************************************************************)
(* The inductive invariant of RunCoordinator.  Recoverable alone is not    *)
(* inductive: a checkpoint rewrites every record from memory, so it is     *)
(* preserved only because of what each phase of a session knows about the  *)
(* relation between its memory, its workers and the directory.             *)
(***************************************************************************)
EXTENDS RunCoordinator

(* The step of a synchronous section about task t.                         *)
InSection(t, labels) == step # None /\ step.task = t /\ step.at \in labels

Trusting == {"check", "publish_output", "publish_trace", "publish_prediction",
             "unlink_marker"}
Cleaning == {"unlink_payloads", "rmdir"}

PublishPhases == {"run", "drain", "redrain"}

(* Which sections can be under way in which phase.                         *)
PhaseInv ==
  /\ phase \in {"down", "resume", "load", "final"} => step = None
  /\ step # None =>
       /\ step.at \in WriteLabel => phase \in {"run", "cancel"}
       /\ step.at \in CreateLabel => phase = "create"
       /\ step.at \in {"checkpoint", "prepare"} => phase \in PublishPhases
       /\ step.at \in CommitLabel => phase \in PublishPhases \cup {"recover"}
       /\ step.at \in SweepLabel => phase \in {"recover", "undo", "tidy"}

(* When a prepared journal can exist: recovery leaves none, and a run has  *)
(* only those it has begun to commit.                                      *)
PreparedInv ==
  \A t \in Task : Prepared(t) =>
    /\ phase \notin {"load", "create", "undo", "final"}
    /\ phase = "recover" => t \in owned \/ InSection(t, Trusting)
    /\ phase \in RunPhases => t \in retrying \cap commitStarted
    /\ phase = "tidy" => raising

(* How far the publication of a prepared retry has come.                   *)
CommitInv ==
  step # None =>
    LET t == step.task IN
    /\ step.at \in Trusting => Prepared(t)
    /\ step.at \in {"publish_trace", "publish_prediction", "unlink_marker"}
         => outputs[t] = Workbook(meta[t].new)
    /\ step.at \in {"publish_prediction", "unlink_marker"}
         => traces[t] = meta[t].new
    /\ step.at = "unlink_marker" => predictions[t] = meta[t].new
    /\ step.at \in Cleaning \cup SweepLabel \cup {"prepare"} => ~Prepared(t)
    /\ phase # "recover" /\ step.at \in CommitLabel =>
         /\ t \in retrying \cap commitStarted
         /\ Prepared(t) => meta[t].new = answer[t]
         /\ step.at \in Cleaning => predictions[t] = answer[t]

(* Nothing has been remembered or started before run_tasks.                *)
BeforeRunInv ==
  phase \in {"down", "resume", "recover", "load", "create"} =>
    /\ commitStarted = {} /\ published = {}
    /\ \A t \in Task : worker[t] = "none"

(* create_retry_workspace: what the workspaces made so far hold.           *)
CreateInv ==
  /\ phase = "load" => owned = {}
  /\ phase = "create" =>
       /\ results = predictions
       /\ retrying \subseteq Failures
       /\ \A t \in owned : /\ t \in workspace
                           /\ payload[t].old_output = Pristine
                           /\ payload[t].old_trace = traces[t]
       /\ InSection(step.task, CreateLabel) =>
            /\ step.task \in retrying
            /\ step.at # "mkdir" => step.task \in workspace
            /\ step.at = "save_trace" =>
                 payload[step.task].old_output = Pristine

(* A first attempt at t: no record until its artefacts are complete.       *)
FirstAttempt(t) ==
  /\ results[t] = None => predictions[t] = None
  /\ results[t] # None /\ predictions[t] # results[t] =>
       /\ predictions[t] = None
       /\ outputs[t] = Workbook(results[t])
       /\ traces[t] = results[t]
  /\ worker[t] \in {"waiting", "calling", "writing"} => results[t] = None
  /\ worker[t] = "done" => /\ answer[t] # None
                           /\ outputs[t] = Workbook(answer[t])
                           /\ traces[t] = answer[t]
                           /\ results[t] \in {None, answer[t]}
  /\ InSection(t, {"checkpoint"}) => results[t] # None

(* A retry of t: the old record stands until the commit begins.            *)
Retry(t) ==
  /\ t \notin commitStarted \/ InSection(t, {"prepare"}) =>
       /\ predictions[t] = results[t]
       /\ results[t] \in Result \ Success
       /\ t \in workspace
       /\ payload[t].old_output = Pristine
       /\ payload[t].old_trace = traces[t]
       /\ worker[t] = "done" => /\ answer[t] # None
                                /\ payload[t].new_output = Workbook(answer[t])
                                /\ payload[t].new_trace = answer[t]
  /\ worker[t] \in {"waiting", "calling", "writing"} => t \notin commitStarted
  /\ t \in commitStarted /\ Prepared(t) => results[t] = meta[t].old
  /\ t \in commitStarted /\ ~Prepared(t) =>
       predictions[t] = results[t] \/ InSection(t, Cleaning)

WorkInv ==
  phase \in RunPhases =>
    \A t \in Task :
      /\ IF t \in retrying THEN Retry(t) ELSE FirstAttempt(t)
      /\ InSection(t, {"prepare", "checkpoint"} \cup CommitLabel) =>
           worker[t] = "done"
      /\ InSection(t, {"prepare"}) => t \in retrying \cap commitStarted
      /\ InSection(t, {"checkpoint"}) => t \notin retrying
      /\ InSection(t, WriteLabel) =>
           /\ worker[t] = "writing" /\ answer[t] # None
           /\ step.at \in {"write_trace", "fallback_trace"} =>
                IF t \in retrying
                  THEN payload[t].new_output = Workbook(answer[t])
                  ELSE outputs[t] = Workbook(answer[t])

(* The main loop looks at a worker once, leaves no journal behind when it   *)
(* completes, and no worker survives run_tasks.                            *)
LoopInv ==
  /\ phase \in {"drain", "cancel", "redrain"} => raising
  /\ phase \notin {"run", "drain", "cancel"} =>
       \A t \in Task : worker[t] \notin {"waiting", "calling"}
  /\ phase = "run" =>
       \A t \in Task :
         LET committing == InSection(t, {"prepare"} \cup CommitLabel) IN
         /\ t \in commitStarted => t \in published \/ committing
         /\ t \in published => /\ worker[t] = "done"
                               /\ ~Prepared(t) /\ ~committing

IInv ==
  /\ TypeOK
  /\ Recoverable
  /\ PhaseInv
  /\ PreparedInv
  /\ CommitInv
  /\ BeforeRunInv
  /\ CreateInv
  /\ WorkInv
  /\ LoopInv

-----------------------------------------------------------------------------
(* What a session reports, and what the next one finds.                    *)

(* Temporary files stand beside the artefacts only where a first attempt   *)
(* was killed, and its task has no record; a session that finds them       *)
(* changes no record.                                                      *)
LitterInv ==
  /\ phase \notin {"down", "resume", "recover", "load"} => litter = {}
  /\ phase \in {"recover", "load"} => "root" \notin litter
  /\ litter \cap {"outputs", "traces"} # {} => Missing # {}

(* What the main loop is done with is on the disk as it is in memory, and  *)
(* has a record; when the loop is done, so is everything.                  *)
SettleInv ==
  /\ phase = "run" =>
       \A t \in Task :
         /\ worker[t] = "none" \/ t \in published =>
              predictions[t] = results[t] /\ predictions[t] # None
         /\ t \in retrying => predictions[t] # None
  /\ phase = "final" \/ (phase = "tidy" /\ ~raising) =>
       predictions = results /\ Missing = {}

(* A prepared record is replaced only after its workbook and its trace.    *)
OrderInv ==
  \A t \in Task : Prepared(t) /\ predictions[t] = meta[t].new =>
    outputs[t] = Workbook(meta[t].new) /\ traces[t] = meta[t].new

ReportInv == LitterInv /\ SettleInv /\ OrderInv
=============================================================================
