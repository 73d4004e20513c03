--------------------------- MODULE RunCoordinator ---------------------------
(***************************************************************************)
(* One v1 run after another on the same output directory.  A session is a  *)
(* process: the CLI (formulabench/cli.py, _run_owned) recovers prepared    *)
(* retries, validates the directory, and lets run_tasks                    *)
(* (formulabench/runner.py) attempt the missing tasks and, on request, the *)
(* failed ones.  The coordinator is one event-loop thread: while step is   *)
(* not idle it is inside a synchronous section that nothing interleaves    *)
(* with, except the end of the process.  Every durable write is a step, so *)
(* a kill or an I/O error can fall between any two of them.                *)
(*                                                                         *)
(* The first session of a directory (ArtifactLayout.initialise) is the     *)
(* session that finds no records: it has nothing to recover and nothing to *)
(* reject.                                                                 *)
(***************************************************************************)
EXTENDS RetryJournal, Naturals, FiniteSets

CONSTANTS
  Concurrency,  \* --concurrency, the width of the provider semaphore
  Hazard        \* what the environment may do: "kill", "io", "interrupt"

ASSUME CoordinatorAssumption ==
  /\ Concurrency \in Nat \ {0}
  /\ Hazard \subseteq {"kill", "io", "interrupt"}

VARIABLES
  phase,          \* where the session is
  step,           \* the durable step the synchronous section is about to do
  results,        \* results_by_id: the records held in memory
  retrying,       \* retry_task_ids
  owned,          \* the workspaces the current loop or run has still to visit
  worker,         \* the state of each task's asyncio worker
  answer,         \* the outcome a worker is writing or has written
  published,      \* checkpointed_worker_ids
  commitStarted,  \* commit_started_ids
  observed,       \* observed_workers
  raising         \* an exception will leave run_tasks when it is done

memory == <<results, retrying, owned, worker, answer, published,
            commitStarted, observed, raising>>
vars == <<disk, phase, step, memory>>

Phase == {"down", "resume", "recover", "load", "create", "undo", "run", "drain",
          "cancel", "redrain", "tidy", "final"}
WorkerState == {"none", "waiting", "calling", "writing", "done", "failed",
                "cancelled"}
TryLabel == {"write_output", "write_trace"}
FallbackLabel == {"fallback_output", "fallback_trace"}
WriteLabel == TryLabel \cup FallbackLabel
CreateLabel == {"mkdir", "save_output", "save_trace"}
CommitLabel == {"check", "publish_output", "publish_trace",
                "publish_prediction", "unlink_marker", "unlink_payloads",
                "rmdir"}
SweepLabel == {"sweep_payloads", "sweep_rmdir"}
Label == WriteLabel \cup CreateLabel \cup CommitLabel \cup SweepLabel
         \cup {"checkpoint", "prepare"}
Steps == [at : Label, task : Task] \cup {None}

ASSUME StepAssumption == None \notin [at : Label, task : Task]

Idle == step = None
At(l) == step # None /\ step.at = l
Goto(l) == step' = [at |-> l, task |-> step.task]

RunPhases == {"run", "drain", "cancel", "redrain"}
Nobody == [t \in Task |-> None]

TypeOK ==
  /\ DiskTypeOK
  /\ phase \in Phase
  /\ step \in Steps
  /\ results \in [Task -> Result \cup {None}]
  /\ retrying \subseteq Task
  /\ owned \subseteq Task
  /\ worker \in [Task -> WorkerState]
  /\ answer \in [Task -> Result \cup {None}]
  /\ published \subseteq Task
  /\ commitStarted \subseteq Task
  /\ observed \subseteq Task
  /\ raising \in BOOLEAN

Init ==
  /\ DiskInit
  /\ phase = "down"
  /\ step = None
  /\ results = Nobody
  /\ retrying = {}
  /\ owned = {}
  /\ worker = [t \in Task |-> "none"]
  /\ answer = Nobody
  /\ published = {}
  /\ commitStarted = {}
  /\ observed = {}
  /\ raising = FALSE

(* The process ends, and its memory with it.                               *)
Exit ==
  /\ phase' = "down"
  /\ step' = None
  /\ results' = Nobody
  /\ retrying' = {}
  /\ owned' = {}
  /\ worker' = [t \in Task |-> "none"]
  /\ answer' = Nobody
  /\ published' = {}
  /\ commitStarted' = {}
  /\ observed' = {}
  /\ raising' = FALSE

Enter(p) == phase' = p
Begin(l, t) == step' = [at |-> l, task |-> t]

-----------------------------------------------------------------------------
(* Recovery and validation, before any work.                               *)

StartSession ==
  /\ phase = "down"
  /\ Enter("resume")
  /\ UNCHANGED <<disk, step, memory>>

(* ArtifactLayout.resume looks at the names in the root before anything    *)
(* else is done: a temporary file there ends the session.                  *)
RejectRoot ==
  /\ phase = "resume" /\ "root" \in litter
  /\ Exit
  /\ UNCHANGED disk

OpenRoot ==
  /\ phase = "resume" /\ "root" \notin litter
  /\ Enter("recover")
  /\ owned' = workspace
  /\ UNCHANGED <<disk, step, results, retrying, worker, answer, published,
                 commitStarted, observed, raising>>

(* Mutant: recovery commits whatever it finds.                             *)
RecoverUnseen(t) ==
  /\ phase = "recover" /\ Idle
  /\ t \in owned
  /\ owned' = owned \ {t}
  /\ Begin("check", t)
  /\ UNCHANGED <<disk, phase, results, retrying, worker, answer, published,
                 commitStarted, observed, raising>>

(* Mutant: recovery sweeps the scratch and forgets the prepared journals.  *)
RecoverOnlyScratch(t) ==
  /\ phase = "recover" /\ Idle
  /\ t \in owned
  /\ owned' = owned \ {t}
  /\ IF Prepared(t) THEN UNCHANGED step ELSE Begin("sweep_payloads", t)
  /\ UNCHANGED <<disk, phase, results, retrying, worker, answer, published,
                 commitStarted, observed, raising>>

(* recover_retry_transactions visits each workspace once: a prepared one   *)
(* is committed, one without a marker is scratch and is removed.           *)
RecoverNext(t) ==
  /\ phase = "recover" /\ Idle
  /\ t \in owned
  /\ owned' = owned \ {t}
  /\ Begin(IF Prepared(t) THEN "check" ELSE "sweep_payloads", t)
  /\ UNCHANGED <<disk, phase, results, retrying, worker, answer, published,
                 commitStarted, observed, raising>>

RecoverDone ==
  /\ phase = "recover" /\ Idle
  /\ owned = {}
  /\ Enter("load")
  /\ UNCHANGED <<disk, step, memory>>

(* load_resume_state rejects the directory: the session ends untouched.    *)
RejectDirectory ==
  /\ phase = "load" /\ Complaints # {}
  /\ Exit
  /\ UNCHANGED disk

(* Mutant: every recorded task is retried.                                 *)
AllRecorded == {t \in Task : predictions[t] # None}

Missing == {t \in Task : predictions[t] = None}
Failures == {t \in Task : predictions[t] \in Result \ Success}

(* ... or accepts it; retry is the --retry-failures option.                *)
AcceptDirectory(retry) ==
  /\ phase = "load" /\ Complaints = {}
  /\ results' = predictions
  /\ retrying' = IF retry THEN Failures ELSE {}
  /\ Enter(IF Missing \cup retrying' = {} THEN "final" ELSE "create")
  /\ UNCHANGED <<disk, step, owned, worker, answer, published, commitStarted,
                 observed, raising>>

-----------------------------------------------------------------------------
(* run_tasks makes every retry workspace before it starts a worker.        *)

CreateNext(t) ==
  /\ phase = "create" /\ Idle
  /\ t \in retrying \ owned
  /\ IF t \in workspace
       THEN Enter("undo") /\ UNCHANGED step      \* retry_workspace_exists
       ELSE Begin("mkdir", t) /\ UNCHANGED phase
  /\ UNCHANGED <<disk, memory>>

StartWorkers ==
  /\ phase = "create" /\ Idle
  /\ retrying \subseteq owned
  /\ worker' = [t \in Task |-> IF t \in Missing \cup retrying
                                 THEN "waiting" ELSE "none"]
  /\ Enter("run")
  /\ UNCHANGED <<disk, step, results, retrying, owned, answer, published,
                 commitStarted, observed, raising>>

(* A failure above discards the workspaces made so far.                    *)
UndoNext(t) ==
  /\ phase = "undo" /\ Idle
  /\ t \in owned
  /\ owned' = owned \ {t}
  /\ Begin("sweep_payloads", t)
  /\ UNCHANGED <<disk, phase, results, retrying, worker, answer, published,
                 commitStarted, observed, raising>>

UndoDone ==
  /\ phase = "undo" /\ Idle
  /\ owned = {}
  /\ Exit
  /\ UNCHANGED disk

-----------------------------------------------------------------------------
(* The workers: run_task.                                                  *)

CallProvider(t) ==
  /\ phase = "run" /\ Idle
  /\ worker[t] = "waiting"
  /\ Cardinality({u \in Task : worker[u] = "calling"}) < Concurrency
  /\ worker' = [worker EXCEPT ![t] = "calling"]
  /\ UNCHANGED <<disk, phase, step, results, retrying, owned, answer,
                 published, commitStarted, observed, raising>>

(* The worker of t goes on to write outcome r without giving up the loop.  *)
Write(t, r, label) ==
  /\ worker' = [worker EXCEPT ![t] = "writing"]
  /\ answer' = [answer EXCEPT ![t] = r]
  /\ Begin(label, t)
  /\ UNCHANGED <<disk, phase, results, retrying, owned, published,
                 commitStarted, observed, raising>>

(* The prompt could not be built: a fallback, and no provider call.        *)
ContextFails(t, r) ==
  /\ phase = "run" /\ Idle
  /\ worker[t] = "waiting"
  /\ r \notin Success
  /\ Write(t, r, "fallback_output")

(* The provider answers; the contract accepts the answer or it does not.   *)
(* A provider may also finish a call that is being cancelled.              *)
ProviderAnswers(t, r) ==
  /\ phase \in {"run", "cancel"} /\ Idle
  /\ worker[t] = "calling"
  /\ Write(t, r, "write_output")

ProviderFails(t, r) ==
  /\ phase \in {"run", "cancel"} /\ Idle
  /\ worker[t] = "calling"
  /\ r \notin Success
  /\ Write(t, r, "fallback_output")

-----------------------------------------------------------------------------
(* Publication of finished workers: publish_result.                        *)

BeginPublish(t) ==
  /\ IF t \in retrying
       THEN /\ Begin("prepare", t)
            /\ commitStarted' = commitStarted \cup {t}
            /\ UNCHANGED results
       ELSE /\ Begin("checkpoint", t)
            /\ results' = [results EXCEPT ![t] = answer[t]]
            /\ UNCHANGED commitStarted
  /\ UNCHANGED <<disk, phase, retrying, owned, worker, answer, published,
                 raising>>

(* The loop over as_completed.                                             *)
PublishNext(t) ==
  /\ phase = "run" /\ Idle
  /\ worker[t] = "done" /\ t \notin published
  /\ BeginPublish(t)
  /\ UNCHANGED observed

(* The loop is left by an exception: its finally block begins.             *)
LeaveLoop ==
  /\ Enter("drain")
  /\ raising' = TRUE
  /\ UNCHANGED <<results, retrying, owned, worker, answer, published,
                 commitStarted, observed>>

WorkerError(t) ==
  /\ phase = "run" /\ Idle
  /\ worker[t] = "failed"
  /\ LeaveLoop
  /\ UNCHANGED <<disk, step>>

Unpublished == {t \in Task : worker[t] # "none"} \ published

(* A first SIGINT cancels run_tasks where it awaits.                       *)
Interrupt ==
  /\ "interrupt" \in Hazard
  /\ phase = "run" /\ Idle
  /\ Unpublished # {}
  /\ LeaveLoop
  /\ UNCHANGED <<disk, step>>

AllPublished ==
  /\ phase = "run" /\ Idle
  /\ Unpublished = {}
  /\ Enter("tidy")
  /\ UNCHANGED <<disk, step, memory>>

(* Mutant: an interrupted run does not look at its finished workers.       *)
NothingToDrain == {}

(* drain_finished_workers: each finished worker is looked at once, and     *)
(* published unless that was done or begun before.                         *)
Undrained == {t \in Task : worker[t] = "done"}
               \ (observed \cup published \cup commitStarted)

(* Mutant: the drain does not note what it has looked at.                  *)
DrainNextUnnoted(t) ==
  /\ phase \in {"drain", "redrain"} /\ Idle
  /\ t \in Undrained
  /\ UNCHANGED observed
  /\ BeginPublish(t)

DrainNext(t) ==
  /\ phase \in {"drain", "redrain"} /\ Idle
  /\ t \in Undrained
  /\ observed' = observed \cup {t}
  /\ BeginPublish(t)

DrainDone ==
  /\ phase \in {"drain", "redrain"} /\ Idle
  /\ Undrained = {}
  /\ Enter(IF phase = "drain" THEN "cancel" ELSE "tidy")
  /\ UNCHANGED <<disk, step, memory>>

CancelWorker(t) ==
  /\ phase = "cancel" /\ Idle
  /\ worker[t] \in {"waiting", "calling"}
  /\ worker' = [worker EXCEPT ![t] = "cancelled"]
  /\ UNCHANGED <<disk, phase, step, results, retrying, owned, answer,
                 published, commitStarted, observed, raising>>

(* Mutant: no second drain after the cancellation.                         *)
CancelDoneAtOnce ==
  /\ phase = "cancel" /\ Idle
  /\ \A t \in Task : worker[t] \notin {"waiting", "calling"}
  /\ Enter("tidy")
  /\ UNCHANGED <<disk, step, memory>>

CancelDone ==
  /\ phase = "cancel" /\ Idle
  /\ \A t \in Task : worker[t] \notin {"waiting", "calling"}
  /\ Enter("redrain")
  /\ UNCHANGED <<disk, step, memory>>

(* The last loop of run_tasks discards the workspaces without a marker.    *)
TidyNext(t) ==
  /\ phase = "tidy" /\ Idle
  /\ t \in owned
  /\ owned' = owned \ {t}
  /\ IF t \in workspace /\ ~Prepared(t)
       THEN Begin("sweep_payloads", t)
       ELSE UNCHANGED step
  /\ UNCHANGED <<disk, phase, results, retrying, worker, answer, published,
                 commitStarted, observed, raising>>

(* Mutant: the error that left the loop is forgotten.                      *)
TidyDoneQuietly ==
  /\ phase = "tidy" /\ Idle
  /\ owned = {}
  /\ Enter("final")
  /\ UNCHANGED <<disk, step, memory>>

(* run_tasks returns only if its main loop completed and nothing failed    *)
(* after it.                                                               *)
TidyDone ==
  /\ phase = "tidy" /\ Idle
  /\ owned = {}
  /\ IF raising THEN Exit ELSE Enter("final") /\ UNCHANGED <<step, memory>>
  /\ UNCHANGED disk

(* The CLI validates the directory once more and reports.                  *)
Report ==
  /\ phase = "final"
  /\ Exit
  /\ UNCHANGED disk
-----------------------------------------------------------------------------
(* The synchronous sections, one durable step at a time.                   *)

OutputStep == At("write_output") \/ At("fallback_output")
TraceStep == At("write_trace") \/ At("fallback_trace")

(* The effect of the current step on the disk.                             *)
Effect ==
  LET t == step.task IN
  \/ OutputStep /\ t \in retrying    /\ StageOutput(t, answer[t])
  \/ OutputStep /\ t \notin retrying /\ WriteOutput(t, answer[t])
  \/ TraceStep  /\ t \in retrying    /\ StageTrace(t, answer[t])
  \/ TraceStep  /\ t \notin retrying /\ WriteTrace(t, answer[t])
  \/ At("checkpoint")         /\ Checkpoint(results)
  \/ At("mkdir")              /\ MakeWorkspace(t)
  \/ At("save_output")        /\ SaveOldOutput(t)
  \/ At("save_trace")         /\ SaveOldTrace(t)
  \/ At("prepare")            /\ WriteMarker(t, results[t], answer[t])
  \/ At("check")              /\ UNCHANGED disk
  \/ At("publish_output")     /\ PublishOutput(t)
  \/ At("publish_trace")      /\ PublishTrace(t)
  \/ At("publish_prediction") /\ PublishPrediction(t)
  \/ At("unlink_marker")      /\ UnlinkMarker(t)
  \/ At("unlink_payloads")    /\ UnlinkPayloads(t)
  \/ At("sweep_payloads")     /\ UnlinkPayloads(t)
  \/ At("rmdir")              /\ RemoveDirectory(t)
  \/ At("sweep_rmdir")        /\ RemoveDirectory(t)

(* What the code verifies at a step before it changes anything.            *)
Verified ==
  LET t == step.task IN
  /\ At("prepare") => ~Prepared(t) /\ PayloadsValid(t, results[t], answer[t])
  /\ At("check") => Prepared(t) /\ NoConflict(t)

(* Mutant: the marker is removed before the record is replaced.            *)
FollowingMarkerFirst ==
  [ write_output |-> "write_trace",       fallback_output |-> "fallback_trace",
    mkdir |-> "save_output",              save_output |-> "save_trace",
    prepare |-> "check",                  check |-> "publish_output",
    publish_output |-> "publish_trace",   publish_trace |-> "unlink_marker",
    unlink_marker |-> "publish_prediction",
    publish_prediction |-> "unlink_payloads",
    unlink_payloads |-> "rmdir",          sweep_payloads |-> "sweep_rmdir" ]

(* The step that follows each step of a section.                           *)
Following ==
  [ write_output |-> "write_trace",       fallback_output |-> "fallback_trace",
    mkdir |-> "save_output",              save_output |-> "save_trace",
    prepare |-> "check",                  check |-> "publish_output",
    publish_output |-> "publish_trace",
    publish_trace |-> "publish_prediction",
    publish_prediction |-> "unlink_marker",
    unlink_marker |-> "unlink_payloads",  unlink_payloads |-> "rmdir",
    sweep_payloads |-> "sweep_rmdir" ]

Continue ==
  /\ step.at \in DOMAIN Following
  /\ Goto(Following[step.at])
  /\ UNCHANGED <<phase, memory>>

(* The end of run_task: the worker has a result for the coordinator.       *)
FinishWorker(t) ==
  /\ TraceStep
  /\ worker' = [worker EXCEPT ![t] = "done"]
  /\ UNCHANGED <<results, owned, published>>

(* The end of create_retry_workspace.                                      *)
FinishCreate(t) ==
  /\ At("save_trace")
  /\ owned' = owned \cup {t}
  /\ UNCHANGED <<results, worker, published>>

(* The end of publish_result: a committed retry replaces the record held   *)
(* in memory only now.  Recovery commits without any record in memory.     *)
FinishCommit(t) ==
  /\ IF phase = "recover"
       THEN UNCHANGED <<results, published>>
       ELSE /\ results' = [results EXCEPT ![t] = answer[t]]
            /\ published' = published \cup {t}
  /\ UNCHANGED <<owned, worker>>

FinishCheckpoint(t) ==
  /\ At("checkpoint")
  /\ published' = published \cup {t}
  /\ UNCHANGED <<results, owned, worker>>

FinishSweep ==
  /\ At("sweep_rmdir")
  /\ UNCHANGED <<results, owned, worker, published>>

Return ==
  LET t == step.task IN
  /\ \/ FinishWorker(t)
     \/ FinishCreate(t)
     \/ FinishCheckpoint(t)
     \/ At("rmdir") /\ FinishCommit(t)
     \/ FinishSweep
  /\ step' = None
  /\ UNCHANGED <<phase, retrying, answer, commitStarted, observed, raising>>

DoStep == ~Idle /\ Verified /\ Effect /\ (Continue \/ Return)

-----------------------------------------------------------------------------
(* A step raises, with or without its effect: os.replace may have happened *)
(* when the fsync of the directory fails.                                  *)

(* In the try branch of run_task the handler writes a fallback; in the     *)
(* handler itself the exception ends the worker.                           *)
RaiseInWorker(t) ==
  \/ /\ \E l \in TryLabel : At(l)
     /\ \E r \in Result \ Success : answer' = [answer EXCEPT ![t] = r]
     /\ Goto("fallback_output")
     /\ UNCHANGED <<phase, results, retrying, owned, worker, published,
                    commitStarted, observed, raising>>
  \/ /\ \E l \in FallbackLabel : At(l)
     /\ worker' = [worker EXCEPT ![t] = "failed"]
     /\ step' = None
     /\ UNCHANGED <<phase, results, retrying, owned, answer, published,
                    commitStarted, observed, raising>>

(* A workspace that could not be filled is discarded on the spot.          *)
RaiseInCreate(t) ==
  /\ \E l \in CreateLabel : At(l)
  /\ Enter("undo")
  /\ IF At("mkdir") THEN step' = None ELSE Goto("sweep_payloads")
  /\ UNCHANGED memory

(* Publication leaves the main loop, is noted by a drain, and ends the     *)
(* session when it was recovery.                                           *)
RaiseInPublish ==
  \/ phase = "run" /\ step' = None /\ LeaveLoop
  \/ phase \in {"drain", "redrain"} /\ step' = None /\ UNCHANGED <<phase, memory>>
  \/ phase = "recover" /\ Exit

(* Mutant: a cleanup that fails after the marker is gone is an error.      *)
RaiseInAnyCommit(t) ==
  /\ \E l \in CommitLabel : At(l)
  /\ RaiseInPublish

(* Cleanup that fails after the marker is gone is not an error: the commit *)
(* returns, so that no later checkpoint reinstalls the old record.         *)
RaiseInCommit(t) ==
  /\ \E l \in CommitLabel : At(l)
  /\ IF meta'[t] = None
       THEN /\ FinishCommit(t)
            /\ step' = None
            /\ UNCHANGED <<phase, retrying, answer, commitStarted, observed,
                           raising>>
       ELSE RaiseInPublish

RaiseBeforeCommit ==
  /\ At("prepare") \/ At("checkpoint")
  /\ RaiseInPublish

(* Discarding is best effort after a failed creation, reported at the end  *)
(* by run_tasks, and fatal in recovery.                                    *)
RaiseInSweep ==
  /\ \E l \in SweepLabel : At(l)
  /\ \/ phase = "undo" /\ step' = None /\ UNCHANGED <<phase, memory>>
     \/ /\ phase = "tidy" /\ step' = None /\ raising' = TRUE
        /\ UNCHANGED <<phase, results, retrying, owned, worker, answer,
                       published, commitStarted, observed>>
     \/ phase = "recover" /\ Exit

Raise ==
  LET t == step.task IN
  \/ RaiseInWorker(t)
  \/ RaiseInCreate(t)
  \/ RaiseInCommit(t)
  \/ RaiseBeforeCommit
  \/ RaiseInSweep

IOError ==
  /\ "io" \in Hazard
  /\ ~Idle
  /\ (Verified /\ Effect) \/ UNCHANGED disk
  /\ Raise

(* Where a session checks that it may write, before it recovers anything   *)
(* and whenever it loads the directory: then, and at its end.              *)
Checking == {"resume", "load", "final"}

(* Mutant: a commit copies beside the canonical workbook.                  *)
TemporaryBesideWorkbook ==
  LET t == step.task IN
  CASE phase \in Checking              -> {"root"}
    [] OutputStep /\ t \notin retrying  -> {"outputs"}
    [] At("publish_output")            -> {"outputs"}
    [] TraceStep /\ t \notin retrying   -> {"traces"}
    [] At("checkpoint")                -> {"root"}
    [] OTHER                           -> {}

(* Where the temporary file of the current step lies when the process is   *)
(* killed in it: a first attempt writes beside the canonical file, and a   *)
(* checkpoint in the root, where the checks of a session also make their   *)
(* write probe.  A retry writes, and publishes from, its workspace, where  *)
(* recovery removes it.                                                    *)
TemporaryPlace ==
  LET t == step.task IN
  CASE phase \in Checking              -> {"root"}
    [] OutputStep /\ t \notin retrying  -> {"outputs"}
    [] TraceStep /\ t \notin retrying   -> {"traces"}
    [] At("checkpoint")                -> {"root"}
    [] OTHER                           -> {}

(* SIGKILL, or a SIGTERM that the coordinator does not handle.             *)
Kill ==
  /\ "kill" \in Hazard
  /\ phase # "down"
  /\ litter' \in {litter, litter \cup TemporaryPlace}
  /\ Exit
  /\ UNCHANGED <<predictions, outputs, traces, workspace, payload, meta>>

-----------------------------------------------------------------------------
Coordinator ==
  \/ RejectRoot \/ OpenRoot \/ RecoverDone \/ RejectDirectory
  \/ \E retry \in BOOLEAN : AcceptDirectory(retry)
  \/ StartWorkers \/ UndoDone \/ AllPublished \/ DrainDone \/ CancelDone
  \/ TidyDone \/ Report
  \/ \E t \in Task :
       \/ RecoverNext(t) \/ CreateNext(t) \/ UndoNext(t) \/ CallProvider(t)
       \/ PublishNext(t) \/ WorkerError(t) \/ DrainNext(t) \/ CancelWorker(t)
       \/ TidyNext(t)
  \/ DoStep

Provider ==
  \E t \in Task, r \in Result :
    ContextFails(t, r) \/ ProviderAnswers(t, r) \/ ProviderFails(t, r)

Environment == StartSession \/ Interrupt \/ IOError \/ Kill

Next == Coordinator \/ Provider \/ Environment

Spec == Init /\ [][Next]_vars

(* The event loop keeps running: nothing is assumed of the provider, and   *)
(* nothing of the operator.                                                *)
FairSpec == Spec /\ WF_vars(Coordinator)

-----------------------------------------------------------------------------
(* Properties.                                                             *)

(* The outcome of t that the directory stands for: a prepared replacement  *)
(* counts as made, because every later session makes it.                   *)
Settled(t) == IF Prepared(t) THEN meta[t].new ELSE predictions[t]

(* Either the three artefacts of a task belong together, or a journal that *)
(* can still be carried out says what they are to become: the directory is *)
(* repairable at every instant (artifacts.py, commit_retry_transaction).   *)
TaskRecoverable(t) ==
  IF Prepared(t)
    THEN /\ t \in workspace
         /\ NoConflict(t)
         /\ payload[t].new_output = Workbook(meta[t].new)
         /\ payload[t].new_trace = meta[t].new
    ELSE predictions[t] # None => /\ outputs[t] = Workbook(predictions[t])
                                  /\ traces[t] = predictions[t]

Recoverable == \A t \in Task : TaskRecoverable(t)

(* Seen through Settled, any sequence of sessions, kills, errors and       *)
(* partial cleanups is a sequence of whole replacements of failures: no    *)
(* checkpoint, recovery or cleanup ever takes a settled success back.      *)
Ledger == INSTANCE TaskLedger WITH ledger <- [t \in Task |-> Settled(t)]
ImplementsLedger == Ledger!Spec

(* What prepare and commit verify before they touch anything is always     *)
(* true of what the code itself has written: no run and no recovery is     *)
(* stopped by its own journal, however often it was killed before.         *)
ChecksNeverRefuse == ~Idle => Verified

(* A provider call is never paid for a task that is settled with success,  *)
(* not even when its journal was left prepared by an earlier session.      *)
NoCallForSuccess ==
  \A t \in Task : worker[t] = "calling" => Settled(t) \notin Success

(* When its root is clean, a directory is refused after recovery only for  *)
(* the workbook or the trace that an interrupted first attempt left        *)
(* without a record; when every task has its record it is accepted.        *)
(* Retries leave no orphans, no mixed artefacts and no temporary files     *)
(* beside the artefacts (artifacts.py, _publish_retry_file).               *)
RefusesOnlyFirstAttempts ==
  phase = "load" => /\ Complaints \subseteq {"orphan_output", "orphan_trace"}
                    /\ Missing = {} => Complaints = {}

(* What the CLI reports is what the directory holds: a returning run_tasks *)
(* has every record on disk, and no replacement half made.                 *)
ReportMatchesDirectory ==
  phase = "final" => /\ results = predictions
                     /\ Missing = {} /\ Complaints = {}
                     /\ \A t \in Task : ~Prepared(t)

(* Once its main loop is left, run_tasks ends, whatever its providers do.  *)
DrainEnds == (phase = "drain") ~> (phase = "down")

(* Recovery settles every prepared journal, or the session ends.           *)
RecoverySettles ==
  \A t \in Task :
    (phase = "recover" /\ Prepared(t)) ~> (phase = "down" \/ ~Prepared(t))

(* Without I/O errors, what a worker has finished is not lost when the run *)
(* is interrupted: its outcome becomes the settled one.                    *)
FinishedWorkIsKept ==
  \A t \in Task, r \in Result :
    (worker[t] = "done" /\ answer[t] = r) ~> (Settled(t) = r)
=============================================================================
