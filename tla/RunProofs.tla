------------------------------ MODULE RunProofs ------------------------------
(***************************************************************************)
(* RunInvariant's IInv is inductive, for any tasks and outcomes, any       *)
(* concurrency and all hazards; with it the types, the recoverability of   *)
(* the directory, the economy of provider calls, the refinement of         *)
(* TaskLedger, the truth of what a run reports and the agreement of the    *)
(* two validations are theorems of Spec.                                   *)
(*                                                                         *)
(* The proof that a step keeps IInv looks at the disk first (what a durable*)
(* step writes is well formed and leaves the directory recoverable) and    *)
(* then, with that established for the next state, at the memory: one step *)
(* per action.                                                             *)
(*                                                                         *)
(* The last part is about the documents that the workers send, whatever    *)
(* the evidence and the budget: the folds of build_context are followed    *)
(* one element at a time, and the count in the cut record grows with what  *)
(* is told.                                                                *)
(***************************************************************************)
EXTENDS RunDocuments, OutputValidator, FiniteSetTheorems, WellFoundedInduction, TLAPS

(* A new directory is well formed.                                         *)
LEMMA InitTypeOK == Init => TypeOK
<1> SUFFICES ASSUME Init PROVE TypeOK
  OBVIOUS
<1>1. NoPayload \in Payloads
  BY DEF NoPayload, Payloads
<1>2. DiskTypeOK
  BY <1>1 DEF Init, DiskInit, DiskTypeOK
<1>3. QED
  BY <1>2 DEF Init, TypeOK, Nobody, Steps, Phase, WorkerState

(* A workspace keeps its four files whatever is written to one of them.    *)
LEMMA PayloadWritten ==
  ASSUME NEW p \in [Task -> Payloads], NEW t \in Task
  PROVE  /\ \A x \in Content \cup {None} :
              /\ [p EXCEPT ![t].old_output = x] \in [Task -> Payloads]
              /\ [p EXCEPT ![t].new_output = x] \in [Task -> Payloads]
         /\ \A x \in Result \cup {None} :
              /\ [p EXCEPT ![t].old_trace = x] \in [Task -> Payloads]
              /\ [p EXCEPT ![t].new_trace = x] \in [Task -> Payloads]
  BY DEF Payloads

(* A synchronous section is about one of the tasks.                        *)
LEMMA SectionTask == TypeOK /\ ~Idle => step.task \in Task /\ step.at \in Label
  BY DEF TypeOK, Idle, Steps

(* A durable step writes contents and records, never anything else: a      *)
(* commit finds the marker it publishes from.                              *)
LEMMA EffectTypeOK ==
  ASSUME TypeOK, CommitInv, ~Idle, Verified, Effect
  PROVE  DiskTypeOK'
<1> USE ResultAssumption DEF TypeOK, DiskTypeOK
<1> DEFINE t == step.task
<1>t. t \in Task
  BY SectionTask
<1>w. Workbook(answer[t]) \in Content
  BY DEF Workbook, Content
<1>1. CASE StageOutput(t, answer[t])
  BY <1>1, <1>t, <1>w, PayloadWritten DEF StageOutput
<1>2. CASE WriteOutput(t, answer[t])
  BY <1>2, <1>t, <1>w DEF WriteOutput
<1>16. CASE StageTrace(t, answer[t])
  BY <1>16, <1>t, PayloadWritten DEF StageTrace
<1>17. CASE WriteTrace(t, answer[t])
  BY <1>17, <1>t DEF WriteTrace
<1>3. CASE Checkpoint(results)
  BY <1>3 DEF Checkpoint
<1>4. CASE MakeWorkspace(t)
  BY <1>4, <1>t DEF MakeWorkspace
<1>5. CASE SaveOldOutput(t)
  BY <1>5, <1>t, PayloadWritten DEF SaveOldOutput
<1>6. CASE SaveOldTrace(t)
  BY <1>6, <1>t, PayloadWritten DEF SaveOldTrace
<1>7. CASE At("prepare") /\ WriteMarker(t, results[t], answer[t])
  BY <1>7, <1>t DEF WriteMarker, Verified, PayloadsValid
<1>8. CASE UNCHANGED disk
  BY <1>8 DEF disk
<1>9. CASE PublishOutput(t)
  BY <1>9, <1>t DEF PublishOutput, Payloads
<1>10. CASE PublishTrace(t)
  BY <1>10, <1>t DEF PublishTrace, Payloads
<1>11. CASE At("publish_prediction") /\ PublishPrediction(t)
  BY <1>11, <1>t DEF PublishPrediction, CommitInv, Prepared, At, Trusting
<1>12. CASE UnlinkMarker(t)
  BY <1>12, <1>t DEF UnlinkMarker
<1>13. CASE UnlinkPayloads(t)
  BY <1>13, <1>t DEF UnlinkPayloads, NoPayload, Payloads
<1>14. CASE RemoveDirectory(t)
  BY <1>14, <1>t DEF RemoveDirectory
<1>15. QED
  BY <1>1, <1>2, <1>3, <1>4, <1>5, <1>6, <1>7, <1>8, <1>9, <1>10, <1>11, <1>12,
     <1>13, <1>14, <1>16, <1>17
  DEF Effect

(* A task is recoverable whatever happens elsewhere.                       *)
LEMMA SameTask ==
  ASSUME NEW u \in Task, TaskRecoverable(u),
         predictions'[u] = predictions[u], outputs'[u] = outputs[u],
         traces'[u] = traces[u], payload'[u] = payload[u], meta'[u] = meta[u],
         u \in workspace => u \in workspace'
  PROVE  TaskRecoverable(u)'
  BY DEF TaskRecoverable, Prepared, NoConflict, PayloadsValid

(* A durable step leaves every task recoverable: one case for each.        *)
LEMMA EffectRecoverable ==
  ASSUME IInv, ~Idle, Verified, Effect
  PROVE  Recoverable'
<1> USE ResultAssumption DEF IInv, TypeOK, DiskTypeOK, Recoverable
<1>t. PICK t \in Task : t = step.task
  BY SectionTask
<1>1. CASE OutputStep /\ t \in retrying /\ StageOutput(t, answer[t])
  <2>1. phase \in RunPhases /\ worker[t] = "writing" /\ answer[t] # None
    BY <1>1, <1>t DEF PhaseInv, WorkInv, OutputStep, At, WriteLabel, TryLabel,
       FallbackLabel, RunPhases, InSection
  <2>2. ~Prepared(t)
    BY <1>1, <1>t, <2>1 DEF PreparedInv, WorkInv, Retry
  <2>3. TaskRecoverable(t)'
    BY <1>1, <1>t, <2>2 DEF StageOutput, TaskRecoverable, Prepared
  <2>4. QED
    BY <1>1, <1>t, <2>3, SameTask DEF StageOutput
<1>2. CASE OutputStep /\ t \notin retrying /\ WriteOutput(t, answer[t])
  <2>1. phase \in RunPhases /\ worker[t] = "writing" /\ answer[t] # None
    BY <1>2, <1>t DEF PhaseInv, WorkInv, OutputStep, At, WriteLabel, TryLabel,
       FallbackLabel, RunPhases, InSection
  <2>2. ~Prepared(t) /\ predictions[t] = None
    BY <1>2, <1>t, <2>1 DEF PreparedInv, WorkInv, FirstAttempt
  <2>3. TaskRecoverable(t)'
    BY <1>2, <1>t, <2>2 DEF WriteOutput, TaskRecoverable, Prepared
  <2>4. QED
    BY <1>2, <1>t, <2>3, SameTask DEF WriteOutput
<1>3. CASE TraceStep /\ t \in retrying /\ StageTrace(t, answer[t])
  <2>1. phase \in RunPhases /\ worker[t] = "writing" /\ answer[t] # None
    BY <1>3, <1>t DEF PhaseInv, WorkInv, TraceStep, At, WriteLabel, TryLabel,
       FallbackLabel, RunPhases, InSection
  <2>2. ~Prepared(t)
    BY <1>3, <1>t, <2>1 DEF PreparedInv, WorkInv, Retry
  <2>3. TaskRecoverable(t)'
    BY <1>3, <1>t, <2>2 DEF StageTrace, TaskRecoverable, Prepared
  <2>4. QED
    BY <1>3, <1>t, <2>3, SameTask DEF StageTrace
<1>4. CASE TraceStep /\ t \notin retrying /\ WriteTrace(t, answer[t])
  <2>1. phase \in RunPhases /\ worker[t] = "writing" /\ answer[t] # None
    BY <1>4, <1>t DEF PhaseInv, WorkInv, TraceStep, At, WriteLabel, TryLabel,
       FallbackLabel, RunPhases, InSection
  <2>2. ~Prepared(t) /\ predictions[t] = None
    BY <1>4, <1>t, <2>1 DEF PreparedInv, WorkInv, FirstAttempt
  <2>3. TaskRecoverable(t)'
    BY <1>4, <1>t, <2>2 DEF WriteTrace, TaskRecoverable, Prepared
  <2>4. QED
    BY <1>4, <1>t, <2>3, SameTask DEF WriteTrace
<1>5. CASE At("checkpoint") /\ Checkpoint(results)
  <2>1. phase \in PublishPhases /\ phase \in RunPhases
    BY <1>5, <1>t DEF PhaseInv, At, PublishPhases, RunPhases
  <2> SUFFICES ASSUME NEW u \in Task PROVE TaskRecoverable(u)'
    OBVIOUS
  <2>2. CASE u \notin retrying
    <3>1. ~Prepared(u) /\ FirstAttempt(u)
      BY <2>1, <2>2 DEF PreparedInv, WorkInv
    <3>2. QED
      BY <1>5, <3>1 DEF FirstAttempt, TaskRecoverable, Checkpoint, Prepared
  <2>3. CASE u \in retrying
    <3>1. Retry(u) /\ ~InSection(u, {"prepare"}) /\ ~InSection(u, Cleaning)
      BY <1>5, <2>1, <2>3 DEF WorkInv, InSection, At, Cleaning
    <3>2. CASE Prepared(u)
      <4>1. results[u] = meta[u].old
        BY <2>1, <3>1, <3>2 DEF PreparedInv, Retry
      <4>2. QED
        BY <1>5, <3>2, <4>1
        DEF TaskRecoverable, Checkpoint, Prepared, NoConflict, PayloadsValid
    <3>3. CASE ~Prepared(u)
      BY <1>5, <3>1, <3>3 DEF Retry, TaskRecoverable, Checkpoint, Prepared
    <3>4. QED
      BY <3>2, <3>3
  <2>4. QED
    BY <2>2, <2>3
<1>6. CASE At("mkdir") /\ MakeWorkspace(t)
  BY <1>6, SameTask DEF MakeWorkspace
<1>7. CASE At("save_output") /\ SaveOldOutput(t)
  <2>1. ~Prepared(t)
    BY <1>7, <1>t DEF PhaseInv, PreparedInv, At, CreateLabel
  <2>2. TaskRecoverable(t)'
    BY <1>7, <1>t, <2>1 DEF SaveOldOutput, TaskRecoverable, Prepared
  <2>3. QED
    BY <1>7, <1>t, <2>2, SameTask DEF SaveOldOutput
<1>8. CASE At("save_trace") /\ SaveOldTrace(t)
  <2>1. ~Prepared(t)
    BY <1>8, <1>t DEF PhaseInv, PreparedInv, At, CreateLabel
  <2>2. TaskRecoverable(t)'
    BY <1>8, <1>t, <2>1 DEF SaveOldTrace, TaskRecoverable, Prepared
  <2>3. QED
    BY <1>8, <1>t, <2>2, SameTask DEF SaveOldTrace
<1>9. CASE At("prepare") /\ WriteMarker(t, results[t], answer[t])
  <2>1. phase \in RunPhases /\ InSection(t, {"prepare"})
    BY <1>9, <1>t DEF PhaseInv, At, PublishPhases, RunPhases, InSection
  <2>2. Retry(t) /\ worker[t] = "done"
    BY <1>t, <2>1 DEF WorkInv, InSection
  <2>3. /\ predictions[t] = results[t]
        /\ t \in workspace
        /\ payload[t].old_trace = traces[t]
        /\ answer[t] # None
        /\ payload[t].new_output = Workbook(answer[t])
        /\ payload[t].new_trace = answer[t]
    BY <2>1, <2>2 DEF Retry
  <2>4. PayloadsValid(t, results[t], answer[t]) /\ ~Prepared(t)
    BY <1>9, <1>t DEF Verified
  <2>5. outputs[t] = Pristine
    BY <1>t, <2>3, <2>4 DEF TaskRecoverable, Workbook, PayloadsValid
  <2>6. meta'[t] = [old |-> results[t], new |-> answer[t]]
    BY <1>9, <1>t DEF WriteMarker
  <2>7. TaskRecoverable(t)'
    BY <1>9, <1>t, <2>3, <2>4, <2>5, <2>6
    DEF WriteMarker, TaskRecoverable, Prepared, NoConflict, PayloadsValid
  <2>8. QED
    BY <1>9, <1>t, <2>7, SameTask DEF WriteMarker
<1>10. CASE UNCHANGED disk
  BY <1>10, SameTask DEF disk
<1>11. CASE At("publish_output") /\ PublishOutput(t)
  <2>1. Prepared(t)
    BY <1>11, <1>t DEF CommitInv, At, Trusting
  <2>2. TaskRecoverable(t)'
    BY <1>11, <1>t, <2>1
    DEF PublishOutput, TaskRecoverable, Prepared, NoConflict, PayloadsValid
  <2>3. QED
    BY <1>11, <1>t, <2>2, SameTask DEF PublishOutput
<1>12. CASE At("publish_trace") /\ PublishTrace(t)
  <2>1. Prepared(t)
    BY <1>12, <1>t DEF CommitInv, At, Trusting
  <2>2. TaskRecoverable(t)'
    BY <1>12, <1>t, <2>1
    DEF PublishTrace, TaskRecoverable, Prepared, NoConflict, PayloadsValid
  <2>3. QED
    BY <1>12, <1>t, <2>2, SameTask DEF PublishTrace
<1>13. CASE At("publish_prediction") /\ PublishPrediction(t)
  <2>1. Prepared(t)
    BY <1>13, <1>t DEF CommitInv, At, Trusting
  <2>2. TaskRecoverable(t)'
    BY <1>13, <1>t, <2>1
    DEF PublishPrediction, TaskRecoverable, Prepared, NoConflict, PayloadsValid
  <2>3. QED
    BY <1>13, <1>t, <2>2, SameTask DEF PublishPrediction
<1>14. CASE At("unlink_marker") /\ UnlinkMarker(t)
  <2>1. /\ predictions[t] = meta[t].new
        /\ outputs[t] = Workbook(meta[t].new)
        /\ traces[t] = meta[t].new
    BY <1>14, <1>t DEF CommitInv, At
  <2>2. TaskRecoverable(t)'
    BY <1>14, <1>t, <2>1 DEF UnlinkMarker, TaskRecoverable, Prepared
  <2>3. QED
    BY <1>14, <1>t, <2>2, SameTask DEF UnlinkMarker
<1>15. CASE (At("unlink_payloads") \/ At("sweep_payloads")) /\ UnlinkPayloads(t)
  <2>1. ~Prepared(t)
    BY <1>15, <1>t DEF CommitInv, At, Cleaning, SweepLabel
  <2>2. TaskRecoverable(t)'
    BY <1>15, <1>t, <2>1 DEF UnlinkPayloads, TaskRecoverable, Prepared
  <2>3. QED
    BY <1>15, <1>t, <2>2, SameTask DEF UnlinkPayloads
<1>16. CASE (At("rmdir") \/ At("sweep_rmdir")) /\ RemoveDirectory(t)
  <2>1. ~Prepared(t)
    BY <1>16, <1>t DEF CommitInv, At, Cleaning, SweepLabel
  <2>2. TaskRecoverable(t)'
    BY <1>16, <1>t, <2>1 DEF RemoveDirectory, TaskRecoverable, Prepared
  <2>3. QED
    BY <1>16, <1>t, <2>2, SameTask DEF RemoveDirectory
<1>17. QED
  BY <1>1, <1>2, <1>3, <1>4, <1>5, <1>6, <1>7, <1>8, <1>9, <1>10, <1>11, <1>12,
     <1>13, <1>14, <1>15, <1>16, <1>t
  DEF Effect

(* What every step does to the disk.                                       *)
LEMMA DiskKeeps ==
  ASSUME IInv, [Next]_vars
  PROVE  DiskTypeOK' /\ Recoverable'
<1>1. CASE UNCHANGED disk
  BY <1>1, SameTask DEF IInv, TypeOK, DiskTypeOK, Recoverable, disk
<1>2. CASE ~Idle /\ Verified /\ Effect
  BY <1>2, EffectTypeOK, EffectRecoverable DEF IInv
<1>3. CASE Kill
  <2>1. litter' \subseteq Place
    BY <1>3 DEF Kill, TemporaryPlace, Checking, Place, IInv, TypeOK, DiskTypeOK
  <2>2. QED
    BY <1>3, <2>1, SameTask
    DEF Kill, IInv, TypeOK, DiskTypeOK, Recoverable
<1>4. QED
  BY <1>1, <1>2, <1>3
  DEF Next, Coordinator, Provider, Environment, vars, memory,
      RejectRoot, OpenRoot, RecoverDone, RejectDirectory, AcceptDirectory, StartWorkers, UndoDone,
      AllPublished, DrainDone, CancelDone, TidyDone, Report, RecoverNext,
      CreateNext, UndoNext, CallProvider, PublishNext, BeginPublish,
      WorkerError, DrainNext, CancelWorker, TidyNext, DoStep,
      ContextFails, ProviderAnswers, ProviderFails, Write, StartSession,
      Interrupt, IOError

(***************************************************************************)
(* What every step does to the memory.  The definitions of the invariant   *)
(* and of the labels are in force from here on; each leaf adds the action  *)
(* it is about.                                                            *)
(***************************************************************************)
USE ResultAssumption, StepAssumption
    DEF IInv, TypeOK, DiskTypeOK, Recoverable, TaskRecoverable, PhaseInv,
        PreparedInv, CommitInv, BeforeRunInv, CreateInv, WorkInv, LoopInv,
        FirstAttempt, Retry, InSection, Prepared, Missing, Failures,
        Trusting, Cleaning, PublishPhases, RunPhases, Phase, WorkerState,
        TryLabel, FallbackLabel, WriteLabel, CreateLabel, CommitLabel,
        SweepLabel, Label, Steps, Idle, At, Enter, Begin, Goto, disk, memory

(* A session that ends leaves only the disk to speak of.                   *)
LEMMA ExitKeeps ==
  ASSUME IInv, Exit, DiskTypeOK', Recoverable'
  PROVE  IInv'
  BY DEF Exit, Nobody

(* The coordinator and its workers between two synchronous sections.       *)
LEMMA BetweenSectionsKeeps ==
  ASSUME IInv, DiskTypeOK', Recoverable',
         Coordinator \/ Provider \/ StartSession \/ Interrupt, ~DoStep
  PROVE  IInv'
<1>1. CASE StartSession \/ OpenRoot
  BY <1>1 DEF StartSession, OpenRoot
<1>2. ASSUME NEW t \in Task, RecoverNext(t) PROVE IInv'
  <2>1. CASE Prepared(t)
    BY <1>2, <2>1 DEF RecoverNext
  <2>2. CASE ~Prepared(t)
    BY <1>2, <2>2 DEF RecoverNext
  <2>3. QED
    BY <2>1, <2>2
<1>3. CASE RecoverDone
  BY <1>3 DEF RecoverDone
<1>4. CASE RejectRoot \/ RejectDirectory \/ UndoDone \/ Report
  BY <1>4, ExitKeeps DEF RejectRoot, RejectDirectory, UndoDone, Report
<1>5. ASSUME NEW retry \in BOOLEAN, AcceptDirectory(retry) PROVE IInv'
  BY <1>5 DEF AcceptDirectory
<1>6. ASSUME NEW t \in Task, CreateNext(t) PROVE IInv'
  BY <1>6 DEF CreateNext
<1>7. CASE StartWorkers
  BY <1>7 DEF StartWorkers
<1>8. ASSUME NEW t \in Task, UndoNext(t) PROVE IInv'
  BY <1>8 DEF UndoNext
<1>9. ASSUME NEW t \in Task, CallProvider(t) PROVE IInv'
  BY <1>9 DEF CallProvider
<1>10. ASSUME NEW t \in Task, NEW r \in Result, ContextFails(t, r) PROVE IInv'
  BY <1>10 DEF ContextFails, Write
<1>11. ASSUME NEW t \in Task, NEW r \in Result, ProviderAnswers(t, r) PROVE IInv'
  BY <1>11 DEF ProviderAnswers, Write
<1>12. ASSUME NEW t \in Task, NEW r \in Result, ProviderFails(t, r) PROVE IInv'
  BY <1>12 DEF ProviderFails, Write
<1>13. ASSUME NEW t \in Task, PublishNext(t) PROVE IInv'
  <2>1. CASE t \in retrying
    BY <1>13, <2>1 DEF PublishNext, BeginPublish
  <2>2. CASE t \notin retrying
    BY <1>13, <2>2 DEF PublishNext, BeginPublish
  <2>3. QED
    BY <2>1, <2>2
<1>14. ASSUME NEW t \in Task, WorkerError(t) PROVE IInv'
  BY <1>14 DEF WorkerError, LeaveLoop
<1>15. CASE Interrupt
  BY <1>15 DEF Interrupt, LeaveLoop
<1>16. CASE AllPublished
  BY <1>16 DEF AllPublished, Unpublished
<1>17. ASSUME NEW t \in Task, DrainNext(t) PROVE IInv'
  <2>1. CASE t \in retrying
    BY <1>17, <2>1 DEF DrainNext, BeginPublish, Undrained
  <2>2. CASE t \notin retrying
    BY <1>17, <2>2 DEF DrainNext, BeginPublish, Undrained
  <2>3. QED
    BY <2>1, <2>2
<1>18. CASE DrainDone
  BY <1>18 DEF DrainDone
<1>19. ASSUME NEW t \in Task, CancelWorker(t) PROVE IInv'
  BY <1>19 DEF CancelWorker
<1>20. CASE CancelDone
  BY <1>20 DEF CancelDone
<1>21. ASSUME NEW t \in Task, TidyNext(t) PROVE IInv'
  BY <1>21 DEF TidyNext
<1>22. CASE TidyDone
  <2>1. CASE raising
    BY <1>22, <2>1, ExitKeeps DEF TidyDone
  <2>2. CASE ~raising
    BY <1>22, <2>2 DEF TidyDone
  <2>3. QED
    BY <2>1, <2>2
<1> HIDE DEF IInv
<1>23. QED
  BY <1>1, <1>2, <1>3, <1>4, <1>5, <1>6, <1>7, <1>8, <1>9, <1>10, <1>11,
     <1>12, <1>13, <1>14, <1>15, <1>16, <1>17, <1>18, <1>19, <1>20, <1>21, <1>22
  DEF Coordinator, Provider

(* A synchronous section goes on, or returns to the event loop.            *)
LEMMA DoStepKeeps ==
  ASSUME IInv, DiskTypeOK', Recoverable', DoStep
  PROVE  IInv'
<1> USE DEF DoStep, Verified, Effect, OutputStep, TraceStep, Continue, Return,
            Following, FinishWorker, FinishCreate, FinishCheckpoint,
            FinishCommit, FinishSweep
<1>t. PICK t \in Task : t = step.task
  OBVIOUS
<1>1. CASE \E l \in {"write_output", "fallback_output"} : At(l)
  <2>w. phase \in {"run", "cancel"} /\ worker[t] = "writing" /\ answer[t] # None
    BY <1>1, <1>t
  <2>s. /\ step' = [at |-> IF step.at = "write_output" THEN "write_trace"
                                                       ELSE "fallback_trace",
                    task |-> t]
        /\ UNCHANGED <<phase, memory>>
    BY <1>1, <1>t
  <2>1. CASE t \in retrying
    <3>1. StageOutput(t, answer[t])
      BY <1>1, <2>1, <1>t
    <3>2. /\ payload'[t].new_output = Workbook(answer[t])
          /\ payload'[t].old_output = payload[t].old_output
          /\ payload'[t].old_trace = payload[t].old_trace
          /\ \A u \in Task : u # t => payload'[u] = payload[u]
      BY <3>1, <1>t DEF StageOutput, Payloads
    <3>3. UNCHANGED <<predictions, outputs, traces, workspace, meta>>
      BY <3>1 DEF StageOutput
    <3>4. WorkInv'
      BY <2>w, <2>s, <2>1, <3>2, <3>3, <1>t
    <3>5. QED
      BY <2>w, <2>s, <2>1, <3>3, <3>4, <1>t
  <2>2. CASE t \notin retrying
    <3>1. WriteOutput(t, answer[t])
      BY <1>1, <2>2, <1>t
    <3>2. QED
      BY <2>w, <2>s, <2>2, <3>1, <1>t DEF WriteOutput
  <2>3. QED
    BY <2>1, <2>2
<1>2. CASE \E l \in {"write_trace", "fallback_trace"} : At(l)
  <2>w. phase \in {"run", "cancel"} /\ worker[t] = "writing" /\ answer[t] # None
    BY <1>2, <1>t
  <2>s. /\ step' = None
        /\ worker' = [worker EXCEPT ![t] = "done"]
        /\ UNCHANGED <<phase, results, retrying, owned, answer, published,
                       commitStarted, observed, raising>>
    BY <1>2, <1>t
  <2>1. CASE t \in retrying
    <3>1. StageTrace(t, answer[t])
      BY <1>2, <2>1, <1>t
    <3>2. /\ payload'[t].new_trace = answer[t]
          /\ payload'[t].new_output = payload[t].new_output
          /\ payload'[t].old_output = payload[t].old_output
          /\ payload'[t].old_trace = payload[t].old_trace
          /\ \A u \in Task : u # t => payload'[u] = payload[u]
      BY <3>1, <1>t DEF StageTrace, Payloads
    <3>3. UNCHANGED <<predictions, outputs, traces, workspace, meta>>
      BY <3>1 DEF StageTrace
    <3>4. payload[t].new_output = Workbook(answer[t])
      BY <1>2, <2>w, <2>1, <1>t
    <3>5. WorkInv'
      BY <2>w, <2>s, <2>1, <3>2, <3>3, <3>4, <1>t
    <3>6. QED
      BY <2>w, <2>s, <2>1, <3>3, <3>5, <1>t
  <2>2. CASE t \notin retrying
    <3>1. WriteTrace(t, answer[t])
      BY <1>2, <2>2, <1>t
    <3>2. outputs[t] = Workbook(answer[t])
      BY <1>2, <2>w, <2>2, <1>t
    <3>3. QED
      BY <2>w, <2>s, <2>2, <3>1, <3>2, <1>t DEF WriteTrace
  <2>3. QED
    BY <2>1, <2>2
<1>3. CASE At("checkpoint")
  BY <1>3, <1>t DEF Checkpoint
<1>4. CASE At("mkdir")
  BY <1>4, <1>t DEF MakeWorkspace
<1>5. CASE At("save_output")
  <2>1. SaveOldOutput(t) /\ step' = [at |-> "save_trace", task |-> t]
        /\ UNCHANGED <<phase, memory>>
    BY <1>5, <1>t
  <2>2. outputs[t] = Pristine
    BY <1>5, <1>t DEF Workbook
  <2>3. /\ payload'[t].old_output = Pristine
        /\ \A u \in Task : u # t => payload'[u] = payload[u]
    BY <2>1, <2>2, <1>t DEF SaveOldOutput, Payloads
  <2>4. CreateInv'
    BY <1>5, <2>1, <2>3, <1>t DEF SaveOldOutput
  <2>5. QED
    BY <1>5, <2>1, <2>4, <1>t DEF SaveOldOutput
<1>6. CASE At("save_trace")
  <2>1. /\ SaveOldTrace(t) /\ step' = None /\ owned' = owned \cup {t}
        /\ UNCHANGED <<phase, results, retrying, worker, answer, published,
                       commitStarted, observed, raising>>
    BY <1>6, <1>t
  <2>2. /\ payload'[t].old_trace = traces[t]
        /\ payload'[t].old_output = payload[t].old_output
        /\ \A u \in Task : u # t => payload'[u] = payload[u]
    BY <2>1, <1>t DEF SaveOldTrace, Payloads
  <2>3. CreateInv'
    BY <1>6, <2>1, <2>2, <1>t DEF SaveOldTrace
  <2>4. QED
    BY <1>6, <2>1, <2>3, <1>t DEF SaveOldTrace
<1>7. CASE At("prepare")
  <2>1. /\ WriteMarker(t, results[t], answer[t])
        /\ step' = [at |-> "check", task |-> t]
        /\ UNCHANGED <<phase, memory>>
    BY <1>7, <1>t
  <2>2. /\ meta'[t] = [old |-> results[t], new |-> answer[t]]
        /\ \A u \in Task : u # t => meta'[u] = meta[u]
    BY <2>1, <1>t DEF WriteMarker
  <2>p. /\ phase \in PublishPhases /\ t \in retrying /\ worker[t] = "done"
        /\ PayloadsValid(t, results[t], answer[t])
    BY <1>7, <1>t
  <2>r. Retry(t) /\ InSection(t, {"prepare"})
    BY <1>7, <2>p, <1>t
  <2>3. Retry(t) /\ answer[t] # None /\ results[t] \in Result \ Success
    BY <2>p, <2>r
  <2>4. meta'[t] # None
    BY <2>2, <2>3, <2>p, <1>t
  <2>c. t \in commitStarted
    BY <1>7, <2>p, <1>t
  <2>5. PreparedInv' /\ CommitInv'
    BY <1>7, <2>1, <2>2, <2>p, <2>4, <2>c, <1>t DEF WriteMarker
  <2>6. ASSUME NEW u \in Task, u \in retrying PROVE Retry(u)'
    <3>1. CASE u = t
      BY <2>1, <2>2, <2>3, <2>4, <2>c, <2>p, <3>1, <1>t DEF WriteMarker
    <3>2. CASE u # t
      BY <1>7, <2>1, <2>2, <2>6, <2>p, <3>2, <1>t DEF WriteMarker
    <3>3. QED
      BY <3>1, <3>2
  <2>7. QED
    BY <1>7, <2>1, <2>p, <2>3, <2>5, <2>6, <1>t DEF WriteMarker
<1>8. CASE At("check")
  BY <1>8, <1>t
<1>9. CASE At("publish_output")
  BY <1>9, <1>t DEF PublishOutput
<1>10. CASE At("publish_trace")
  BY <1>10, <1>t DEF PublishTrace
<1>11. CASE At("publish_prediction")
  BY <1>11, <1>t DEF PublishPrediction
<1>12. CASE At("unlink_marker")
  BY <1>12, <1>t DEF UnlinkMarker
<1>13. CASE At("unlink_payloads")
  BY <1>13, <1>t DEF UnlinkPayloads
<1>14. CASE At("sweep_payloads")
  BY <1>14, <1>t DEF UnlinkPayloads
<1>15. CASE At("rmdir")
  BY <1>15, <1>t DEF RemoveDirectory
<1>16. CASE At("sweep_rmdir")
  BY <1>16, <1>t DEF RemoveDirectory
<1>17. QED
  BY <1>t, <1>1, <1>2, <1>3, <1>4, <1>5, <1>6, <1>7, <1>8, <1>9, <1>10,
     <1>11, <1>12, <1>13, <1>14, <1>15, <1>16

(* A publication that raises before its retry is committed: the main loop  *)
(* is left, or the drain goes on, with the journal as it is on disk.       *)
LEMMA PublicationFails ==
  ASSUME IInv, DiskTypeOK', Recoverable', NEW t \in Task, t = step.task, ~Idle,
         (Verified /\ Effect) \/ UNCHANGED disk,
         \/ At("prepare") \/ At("checkpoint") \/ At("check")
         \/ At("publish_output") \/ At("publish_trace")
         \/ At("publish_prediction")
         \/ At("unlink_marker") /\ meta'[t] # None,
         RaiseInPublish
  PROVE  IInv'
<1> USE DEF Verified, Effect, OutputStep, TraceStep
<1>0. CASE phase = "recover"
  BY <1>0, ExitKeeps DEF RaiseInPublish
<1> SUFFICES ASSUME phase # "recover" PROVE IInv'
  BY <1>0
<1> DEFINE Left == /\ step' = None
                   /\ UNCHANGED <<results, retrying, owned, worker, answer,
                                  published, commitStarted, observed>>
                   /\ \/ phase = "run" /\ phase' = "drain" /\ raising' = TRUE
                      \/ /\ phase \in {"drain", "redrain"}
                         /\ UNCHANGED <<phase, raising>>
<1>p. Left
  BY DEF RaiseInPublish, LeaveLoop
<1> HIDE DEF Left
<1>1. CASE UNCHANGED disk
  <2>1. CASE phase = "run"
    BY <1>1, <1>p, <2>1 DEF Left
  <2>2. CASE phase # "run"
    BY <1>1, <1>p, <2>2 DEF Left
  <2>3. QED
    BY <2>1, <2>2
<1>2. CASE At("checkpoint") /\ Checkpoint(results)
  <2>1. CASE phase = "run"
    BY <1>2, <1>p, <2>1 DEF Left, Checkpoint
  <2>2. CASE phase # "run"
    BY <1>2, <1>p, <2>2 DEF Left, Checkpoint
  <2>3. QED
    BY <2>1, <2>2
<1>3. CASE At("prepare") /\ Verified /\ WriteMarker(t, results[t], answer[t])
  <2>1. /\ meta'[t] = [old |-> results[t], new |-> answer[t]]
        /\ \A u \in Task : u # t => meta'[u] = meta[u]
    BY <1>3 DEF WriteMarker
  <2>2. t \in retrying /\ t \in commitStarted
    BY <1>3, <1>p DEF Left
  <2>3. ASSUME NEW u \in Task, u \in retrying PROVE Retry(u)'
    <3>1. CASE u = t
      BY <1>3, <1>p, <2>1, <2>2, <3>1 DEF Left, WriteMarker
    <3>2. CASE u # t
      BY <1>3, <1>p, <2>1, <2>3, <3>2 DEF Left, WriteMarker
    <3>3. QED
      BY <3>1, <3>2
  <2>4. CASE phase = "run"
    BY <1>3, <1>p, <2>1, <2>2, <2>3, <2>4 DEF Left, WriteMarker
  <2>5. CASE phase # "run"
    BY <1>3, <1>p, <2>1, <2>2, <2>3, <2>5 DEF Left, WriteMarker
  <2>6. QED
    BY <2>4, <2>5
<1>4. CASE At("publish_output") /\ PublishOutput(t)
  <2>1. CASE phase = "run"
    BY <1>4, <1>p, <2>1 DEF Left, PublishOutput
  <2>2. CASE phase # "run"
    BY <1>4, <1>p, <2>2 DEF Left, PublishOutput
  <2>3. QED
    BY <2>1, <2>2
<1>5. CASE At("publish_trace") /\ PublishTrace(t)
  <2>1. CASE phase = "run"
    BY <1>5, <1>p, <2>1 DEF Left, PublishTrace
  <2>2. CASE phase # "run"
    BY <1>5, <1>p, <2>2 DEF Left, PublishTrace
  <2>3. QED
    BY <2>1, <2>2
<1>6. CASE At("publish_prediction") /\ PublishPrediction(t)
  <2>1. CASE phase = "run"
    BY <1>6, <1>p, <2>1 DEF Left, PublishPrediction
  <2>2. CASE phase # "run"
    BY <1>6, <1>p, <2>2 DEF Left, PublishPrediction
  <2>3. QED
    BY <2>1, <2>2
<1>7. CASE At("unlink_marker") /\ UnlinkMarker(t) /\ meta'[t] # None
  BY <1>7 DEF UnlinkMarker
<1>8. CASE Verified /\ Effect
  <2>1. CASE At("prepare") \/ At("checkpoint")
    BY <1>8, <2>1, <1>2, <1>3
  <2>2. CASE At("check")
    BY <1>8, <2>2, <1>1
  <2>3. CASE At("publish_output") \/ At("publish_trace")
    BY <1>8, <2>3, <1>4, <1>5
  <2>4. CASE At("publish_prediction") \/ (At("unlink_marker") /\ meta'[t] # None)
    BY <1>8, <2>4, <1>6, <1>7
  <2>5. QED
    BY <2>1, <2>2, <2>3, <2>4
<1>9. QED
  BY <1>1, <1>8

(* A cleanup that raises after the marker is gone: the commit returns.     *)
LEMMA CleanupFails ==
  ASSUME IInv, DiskTypeOK', Recoverable', NEW t \in Task, t = step.task, ~Idle,
         (Verified /\ Effect) \/ UNCHANGED disk,
         \E l \in CommitLabel : At(l), meta'[t] = None, RaiseInCommit(t)
  PROVE  IInv'
<1> USE DEF RaiseInCommit, FinishCommit
<1>1. CASE At("unlink_marker") /\ UnlinkMarker(t)
  BY <1>1 DEF UnlinkMarker
<1>2. CASE At("unlink_payloads") /\ UnlinkPayloads(t)
  BY <1>2 DEF UnlinkPayloads
<1>3. CASE At("rmdir") /\ RemoveDirectory(t)
  BY <1>3 DEF RemoveDirectory
<1>4. CASE (\E l \in Cleaning : At(l)) /\ UNCHANGED disk
  BY <1>4
<1>5. At("unlink_marker") \/ At("unlink_payloads") \/ At("rmdir")
  BY DEF Effect, Verified, OutputStep, TraceStep, PublishOutput, PublishTrace,
         PublishPrediction
<1>6. QED
  BY <1>1, <1>2, <1>3, <1>4, <1>5 DEF Effect, OutputStep, TraceStep

(* Any other step that raises.                                             *)
LEMMA RaiseKeeps ==
  ASSUME IInv, DiskTypeOK', Recoverable', ~Idle,
         (Verified /\ Effect) \/ UNCHANGED disk, Raise
  PROVE  IInv'
<1> USE DEF Verified, Effect, OutputStep, TraceStep
<1>t. PICK t \in Task : t = step.task
  OBVIOUS
<1>1. CASE RaiseInWorker(t)
  <2> USE DEF RaiseInWorker
  <2>w. worker[t] = "writing" /\ phase \in {"run", "cancel"}
    BY <1>1, <1>t
  <2>1. CASE UNCHANGED disk
    BY <1>1, <1>t, <2>1
  <2>2. CASE /\ t \notin retrying
             /\ WriteOutput(t, answer[t]) \/ WriteTrace(t, answer[t])
    BY <1>1, <1>t, <2>2, <2>w DEF WriteOutput, WriteTrace
  <2>3. CASE StageOutput(t, answer[t]) \/ StageTrace(t, answer[t])
    <3>1. /\ payload'[t].old_output = payload[t].old_output
          /\ payload'[t].old_trace = payload[t].old_trace
          /\ \A u \in Task : u # t => payload'[u] = payload[u]
          /\ UNCHANGED <<predictions, outputs, traces, workspace, meta>>
      BY <2>3, <1>t DEF StageOutput, StageTrace, Payloads
    <3>2. WorkInv'
      BY <1>1, <1>t, <2>w, <3>1
    <3>3. QED
      BY <1>1, <1>t, <2>w, <3>1, <3>2
  <2>4. OutputStep \/ TraceStep
    BY <1>1, <1>t
  <2>5. CASE UNCHANGED disk
    BY <2>1, <2>5
  <2>6. CASE Verified /\ Effect
    <3>1. CASE t \in retrying
      BY <1>t, <2>3, <2>4, <2>6, <3>1
    <3>2. CASE t \notin retrying
      BY <1>t, <2>2, <2>4, <2>6, <3>2
    <3>3. QED
      BY <3>1, <3>2
  <2>7. QED
    BY <2>5, <2>6
<1>2. CASE RaiseInCreate(t) /\ At("mkdir")
  BY <1>2, <1>t DEF RaiseInCreate, MakeWorkspace
<1>3. CASE RaiseInCreate(t) /\ (At("save_output") \/ At("save_trace"))
  BY <1>3, <1>t DEF RaiseInCreate, SaveOldOutput, SaveOldTrace
<1>4. CASE RaiseInCommit(t) /\ meta'[t] = None
  BY <1>4, <1>t, CleanupFails DEF RaiseInCommit
<1>5. CASE RaiseInCommit(t) /\ meta'[t] # None
  <2>1. ~At("unlink_payloads") /\ ~At("rmdir")
    BY <1>5, <1>t DEF UnlinkPayloads, RemoveDirectory
  <2>2. QED
    BY <1>5, <2>1, <1>t, PublicationFails DEF RaiseInCommit
<1>6. CASE RaiseBeforeCommit
  BY <1>6, <1>t, PublicationFails DEF RaiseBeforeCommit
<1>7. CASE RaiseInSweep /\ phase = "recover"
  BY <1>7, ExitKeeps DEF RaiseInSweep
<1>8. CASE RaiseInSweep /\ phase = "undo"
  BY <1>8, <1>t DEF RaiseInSweep, UnlinkPayloads, RemoveDirectory
<1>9. CASE RaiseInSweep /\ phase = "tidy"
  BY <1>9, <1>t DEF RaiseInSweep, UnlinkPayloads, RemoveDirectory
<1>10. QED
  BY <1>t, <1>1, <1>2, <1>3, <1>4, <1>5, <1>6, <1>7, <1>8, <1>9
  DEF Raise, RaiseInCreate, RaiseInSweep

-----------------------------------------------------------------------------
(* IInv holds at first, and every step keeps it.                           *)
LEMMA InitInv == Init => IInv
  BY InitTypeOK DEF Init, DiskInit

(* The cases of Next, by what they do to the coordinator.                  *)
LEMMA NextKeeps == IInv /\ [Next]_vars => IInv'
<1> SUFFICES ASSUME IInv, [Next]_vars PROVE IInv'
  OBVIOUS
<1>d. DiskTypeOK' /\ Recoverable'
  BY DiskKeeps
<1>1. CASE UNCHANGED vars
  <2>1. UNCHANGED <<disk, phase, step, memory>>
    BY <1>1 DEF vars
  <2>2. TypeOK' /\ PhaseInv' /\ PreparedInv' /\ BeforeRunInv' /\ CreateInv'
    BY <2>1
  <2>3. CommitInv' /\ LoopInv'
    BY <2>1
  <2>4. WorkInv'
    BY <2>1
  <2>5. QED
    BY <1>d, <2>2, <2>3, <2>4
<1>2. CASE DoStep
  BY <1>2, <1>d, DoStepKeeps
<1>3. CASE IOError
  BY <1>3, <1>d, RaiseKeeps DEF IOError
<1>4. CASE Kill
  BY <1>4, <1>d, ExitKeeps DEF Kill
<1>5. CASE /\ Coordinator \/ Provider \/ StartSession \/ Interrupt
           /\ ~DoStep
  BY <1>5, <1>d, BetweenSectionsKeeps
<1>6. QED
  BY <1>1, <1>2, <1>3, <1>4, <1>5 DEF Next, Environment

(***************************************************************************)
(* The theorems.  From here on a leaf again sees only what it cites.       *)
(***************************************************************************)
HIDE DEF IInv, TypeOK, DiskTypeOK, Recoverable, TaskRecoverable, PhaseInv,
         PreparedInv, CommitInv, BeforeRunInv, CreateInv, WorkInv, LoopInv,
         FirstAttempt, Retry, InSection, Prepared, Missing, Failures,
         Trusting, Cleaning, PublishPhases, RunPhases, Phase, WorkerState,
         TryLabel, FallbackLabel, WriteLabel, CreateLabel, CommitLabel,
         SweepLabel, Label, Steps, Idle, At, Enter, Begin, Goto, disk, memory

(* The inductive invariant of the run coordinator.                         *)
THEOREM InvariantHolds == Spec => []IInv
<1>1. QED
  BY InitInv, NextKeeps, PTL DEF Spec

(* Whatever the process suffers, memory and directory stay well formed.    *)
THEOREM TypeCorrect == Spec => []TypeOK
<1>1. IInv => TypeOK
  BY DEF IInv
<1>2. QED
  BY <1>1, InvariantHolds, PTL

(* The directory is repairable at every instant: for every task the three  *)
(* artefacts belong together, or a journal that can be carried out says    *)
(* what they are to become (artifacts.py, commit_retry_transaction).       *)
THEOREM AlwaysRecoverable == Spec => []Recoverable
<1>1. IInv => Recoverable
  BY DEF IInv
<1>2. QED
  BY <1>1, InvariantHolds, PTL

(* No provider call is paid for a task whose settled outcome is a success. *)
THEOREM SuccessIsNotCalledAgain == Spec => []NoCallForSuccess
<1>1. IInv => NoCallForSuccess
  <2> SUFFICES ASSUME IInv, NEW t \in Task, worker[t] = "calling"
               PROVE  Settled(t) \notin Success
    BY DEF NoCallForSuccess
  <2>1. phase \in RunPhases
    BY DEF IInv, LoopInv, RunPhases
  <2>2. CASE t \in retrying
    <3>1. predictions[t] \in Result \ Success /\ t \notin commitStarted
      BY <2>1, <2>2 DEF IInv, WorkInv, Retry
    <3>2. QED
      BY <2>1, <3>1 DEF IInv, PreparedInv, Settled
  <2>3. CASE t \notin retrying
    <3>1. predictions[t] = None
      BY <2>1, <2>3 DEF IInv, WorkInv, FirstAttempt
    <3>2. QED
      BY <2>1, <2>3, <3>1, ResultAssumption DEF IInv, PreparedInv, Settled
  <2>4. QED
    BY <2>2, <2>3
<1>2. QED
  BY <1>1, InvariantHolds, PTL

(* Neither a run nor a recovery is ever stopped by its own checks.         *)
THEOREM ChecksHold == Spec => []ChecksNeverRefuse
<1>1. IInv => ChecksNeverRefuse
  <2> SUFFICES ASSUME IInv, ~Idle PROVE Verified
    BY DEF ChecksNeverRefuse
  <2>t. PICK t \in Task : t = step.task
    BY SectionTask DEF IInv
  <2>1. CASE At("prepare")
    <3>1. phase \in RunPhases /\ InSection(t, {"prepare"})
      BY <2>1, <2>t DEF IInv, PhaseInv, At, PublishPhases, RunPhases, InSection
    <3>2. t \in retrying /\ Retry(t) /\ worker[t] = "done" /\ ~Prepared(t)
      BY <2>1, <2>t, <3>1 DEF IInv, WorkInv, InSection, CommitInv, At
    <3>3. /\ results[t] \in Result \ Success
          /\ answer[t] \in Result
          /\ payload[t].old_output = Pristine
          /\ payload[t].old_trace = traces[t]
          /\ payload[t].new_output = Workbook(answer[t])
          /\ payload[t].new_trace = answer[t]
      BY <3>1, <3>2 DEF Retry, IInv, TypeOK, DiskTypeOK
    <3>4. traces[t] # None /\ Workbook(answer[t]) # None
      BY <3>1, <3>2, <3>3, ResultAssumption
      DEF Retry, IInv, Recoverable, TaskRecoverable, Workbook
    <3>5. QED
      BY <2>1, <2>t, <3>2, <3>3, <3>4, ResultAssumption
      DEF Verified, PayloadsValid, Workbook, At
  <2>2. CASE At("check")
    BY <2>2, <2>t DEF Verified, IInv, CommitInv, Recoverable, TaskRecoverable,
                      Trusting, At
  <2>3. QED
    BY <2>1, <2>2 DEF Verified
<1>2. QED
  BY <1>1, InvariantHolds, PTL

-----------------------------------------------------------------------------
(* The directory implements the ledger.                                    *)

(* What a durable step does to the settled outcome of a task.              *)
MaySettle(u) ==
  Settled(u)' # Settled(u) => Settled(u) \notin Success /\ Settled(u)' # None

(* A checkpoint rewrites every record: it settles first attempts and takes *)
(* nothing back, because memory still holds the old record of a prepared   *)
(* retry and the new record of a committed one.                            *)
LEMMA CheckpointSettles ==
  ASSUME IInv, At("checkpoint"), Checkpoint(results), NEW u \in Task
  PROVE  MaySettle(u)
<1>1. phase \in PublishPhases /\ phase \in RunPhases
  BY DEF IInv, PhaseInv, At, PublishPhases, RunPhases
<1>2. CASE Prepared(u)
  BY <1>2 DEF Checkpoint, MaySettle, Settled, Prepared
<1>3. CASE ~Prepared(u) /\ u \in retrying
  <2>1. Retry(u) /\ ~InSection(u, Cleaning)
    BY <1>1, <1>3 DEF IInv, WorkInv, At, InSection, Cleaning
  <2>2. predictions[u] = results[u]
    BY <1>3, <2>1 DEF Retry
  <2>3. QED
    BY <1>3, <2>2 DEF Checkpoint, MaySettle, Settled, Prepared
<1>4. CASE ~Prepared(u) /\ u \notin retrying
  <2>1. \/ predictions[u] = results[u]
        \/ predictions[u] = None /\ results[u] # None
    BY <1>1, <1>4 DEF IInv, WorkInv, FirstAttempt
  <2>2. QED
    BY <1>4, <2>1, ResultAssumption DEF Checkpoint, MaySettle, Settled, Prepared
<1>5. QED
  BY <1>2, <1>3, <1>4

(* So does any durable step; only the marker settles a retry.              *)
LEMMA EffectSettles ==
  ASSUME IInv, ~Idle, Verified, Effect, NEW u \in Task
  PROVE  MaySettle(u)
<1> USE DEF MaySettle, Settled
<1>t. PICK t \in Task : t = step.task
  BY SectionTask DEF IInv
<1>0. CASE UNCHANGED <<predictions, meta>>
  BY <1>0 DEF Prepared
<1>1. CASE At("checkpoint") /\ Checkpoint(results)
  BY <1>1, CheckpointSettles
<1>2. CASE At("prepare") /\ WriteMarker(t, results[t], answer[t])
  <2>1. phase \in RunPhases /\ InSection(t, {"prepare"})
    BY <1>2, <1>t DEF IInv, PhaseInv, At, PublishPhases, RunPhases, InSection
  <2>2. Retry(t) /\ worker[t] = "done"
    BY <2>1 DEF IInv, WorkInv, InSection
  <2>3. predictions[t] \in Result \ Success /\ answer[t] # None /\ ~Prepared(t)
    BY <1>2, <1>t, <2>1, <2>2 DEF Retry, Verified
  <2>4. /\ meta'[t] = [old |-> results[t], new |-> answer[t]]
        /\ u # t => meta'[u] = meta[u]
        /\ predictions' = predictions
    BY <1>2 DEF WriteMarker, IInv, TypeOK, DiskTypeOK
  <2>5. QED
    BY <2>3, <2>4 DEF Prepared
<1>3. CASE At("publish_prediction") /\ PublishPrediction(t)
  <2>1. Prepared(t)
    BY <1>3, <1>t DEF IInv, CommitInv, At, Trusting
  <2>2. QED
    BY <1>3, <2>1 DEF PublishPrediction, Prepared, IInv, TypeOK, DiskTypeOK
<1>4. CASE At("unlink_marker") /\ UnlinkMarker(t)
  <2>1. predictions[t] = meta[t].new
    BY <1>4, <1>t DEF IInv, CommitInv, At
  <2>2. QED
    BY <1>4, <2>1 DEF UnlinkMarker, Prepared, IInv, TypeOK, DiskTypeOK
<1>5. QED
  BY <1>t, <1>0, <1>1, <1>2, <1>3, <1>4
  DEF Effect, StageOutput, WriteOutput, StageTrace, WriteTrace, MakeWorkspace,
      SaveOldOutput, SaveOldTrace, disk, PublishOutput, PublishTrace,
      UnlinkPayloads, RemoveDirectory

(* All other steps leave the records and the markers alone.                *)
LEMMA NextSettles ==
  ASSUME IInv, [Next]_vars, NEW u \in Task
  PROVE  MaySettle(u)
<1>1. CASE UNCHANGED <<predictions, meta>>
  BY <1>1 DEF MaySettle, Settled, Prepared
<1>2. CASE ~Idle /\ Verified /\ Effect
  BY <1>2, EffectSettles
<1>3. QED
  BY <1>1, <1>2
  DEF Next, Coordinator, Provider, Environment, vars, disk,
      RejectRoot, OpenRoot, RecoverDone, RejectDirectory, AcceptDirectory, StartWorkers, UndoDone,
      AllPublished, DrainDone, CancelDone, TidyDone, Report, RecoverNext,
      CreateNext, UndoNext, CallProvider, PublishNext, BeginPublish,
      WorkerError, DrainNext, CancelWorker, TidyNext, DoStep,
      ContextFails, ProviderAnswers, ProviderFails, Write, StartSession,
      Interrupt, IOError, Kill

(* Seen through Settled, whatever happens is a sequence of whole           *)
(* replacements of failures: nothing takes a settled success back.         *)
THEOREM ImplementationOfLedger == Spec => ImplementsLedger
<1> DEFINE settled == [t \in Task |-> Settled(t)]
<1>1. Init => settled = [t \in Task |-> None]
  BY DEF Init, DiskInit, Settled, Prepared
<1>2. IInv /\ IInv' /\ [Next]_vars => [Ledger!Settle]_settled
  <2> SUFFICES ASSUME IInv, IInv', [Next]_vars PROVE Ledger!Settle
    OBVIOUS
  <2>1. \A u \in Task : MaySettle(u)
    BY NextSettles
  <2>2. \A u \in Task : Settled(u)' \in Result \cup {None}
    BY DEF IInv, TypeOK, DiskTypeOK, Settled, Prepared
  <2>3. QED
    BY <2>1, <2>2 DEF Ledger!Settle, MaySettle
<1>3. QED
  BY <1>1, <1>2, InvariantHolds, PTL DEF Spec, ImplementsLedger, Ledger!Spec, Ledger!Init

-----------------------------------------------------------------------------
(* What a session reports, and what the next one finds (ReportInv).        *)

(* The disk changes by a durable step, by a kill, or not at all.           *)
LEMMA DiskChanges ==
  ASSUME [Next]_vars
  PROVE  UNCHANGED disk \/ (~Idle /\ Verified /\ Effect) \/ Kill
BY DEF Next, Coordinator, Provider, Environment, vars,
      RejectRoot, OpenRoot, RecoverDone, RejectDirectory, AcceptDirectory, StartWorkers,
      UndoDone, AllPublished, DrainDone, CancelDone, TidyDone, Report, RecoverNext,
      CreateNext, UndoNext, CallProvider, PublishNext, BeginPublish,
      WorkerError, DrainNext, CancelWorker, TidyNext, DoStep,
      ContextFails, ProviderAnswers, ProviderFails, Write, StartSession,
      Interrupt, IOError

(* A record is changed by a checkpoint, or by the commit of its journal.   *)
LEMMA RecordChanges ==
  ASSUME IInv, ~Idle, Effect, NEW u \in Task, predictions'[u] # predictions[u]
  PROVE  \/ At("checkpoint") /\ predictions' = results /\ UNCHANGED <<outputs, traces, meta>>
         \/ /\ At("publish_prediction") /\ step.task = u
            /\ PublishPrediction(u)
<1>t. PICK t \in Task : t = step.task
  BY SectionTask DEF IInv
<1>1. predictions \in [Task -> Result \cup {None}]
  BY DEF IInv, TypeOK, DiskTypeOK
<1>2. CASE At("checkpoint") /\ Checkpoint(results)
  BY <1>2 DEF Checkpoint
<1>3. CASE At("publish_prediction") /\ PublishPrediction(t)
  BY <1>t, <1>1, <1>3 DEF PublishPrediction
<1>4. QED
  BY <1>t, <1>2, <1>3
  DEF Effect, StageOutput, WriteOutput, StageTrace, WriteTrace, MakeWorkspace,
      SaveOldOutput, SaveOldTrace, disk, WriteMarker, PublishOutput, PublishTrace,
      UnlinkMarker, UnlinkPayloads, RemoveDirectory

(* Recovery makes no record for a task that has none.                      *)
LEMMA MissingStays ==
  ASSUME IInv, [Next]_vars, phase \in {"down", "resume", "recover", "load"}, Missing # {}
  PROVE  Missing' # {}
<1>1. PICK u \in Task : predictions[u] = None
  BY DEF Missing
<1>2. CASE predictions'[u] = predictions[u]
  BY <1>1, <1>2 DEF Missing
<1>3. CASE predictions'[u] # predictions[u]
  <2>1. ~Idle /\ Effect
    BY <1>3, DiskChanges DEF disk, Kill
  <2>2. ~At("checkpoint")
    BY DEF IInv, PhaseInv, At, PublishPhases
  <2>3. At("publish_prediction") /\ step.task = u
    BY <1>3, <2>1, <2>2, RecordChanges
  <2>4. Prepared(u)
    BY <2>3 DEF IInv, CommitInv, At, Trusting
  <2>5. predictions[u] \in {meta[u].old, meta[u].new} /\ meta[u] \in [old : Result, new : Result]
    BY <2>4 DEF IInv, Recoverable, TaskRecoverable, NoConflict, TypeOK, DiskTypeOK, Prepared
  <2>6. QED
    BY <1>1, <2>5, ResultAssumption
<1>4. QED
  BY <1>2, <1>3

(* A directory that is accepted has no temporary files.                    *)
LEMMA AcceptedIsClean ==
  ASSUME IInv, Complaints = {} PROVE litter = {}
<1>1. litter \subseteq {"root", "outputs", "traces"}
  BY DEF IInv, TypeOK, DiskTypeOK, Place
<1>2. "root" \notin litter /\ "outputs" \notin litter /\ "traces" \notin litter
  BY DEF Complaints
<1>3. QED
  BY <1>1, <1>2

(* A kill is what leaves a temporary file, and a first attempt what is     *)
(* killed beside the artefacts.                                            *)
LEMMA LitterStep ==
  ASSUME IInv, LitterInv, [Next]_vars
  PROVE  LitterInv'
<1>1. CASE Kill
  <2>1. phase' = "down" /\ predictions' = predictions
        /\ litter' \subseteq litter \cup TemporaryPlace
    BY <1>1 DEF Kill, Exit
  <2>2. TemporaryPlace \cap {"outputs", "traces"} # {} => Missing # {}
    <3>1. ASSUME OutputStep \/ TraceStep, step.task \notin retrying
          PROVE  Missing # {}
      <4>1. PICK t \in Task : t = step.task
        BY <3>1, SectionTask DEF IInv, OutputStep, TraceStep, At, Idle
      <4>2. InSection(t, WriteLabel)
        BY <3>1, <4>1 DEF OutputStep, TraceStep, At, InSection, WriteLabel, TryLabel,
                         FallbackLabel
      <4>3. phase \in RunPhases
        BY <4>2 DEF IInv, PhaseInv, InSection, RunPhases
      <4>4. worker[t] = "writing" /\ FirstAttempt(t)
        BY <3>1, <4>1, <4>2, <4>3 DEF IInv, WorkInv
      <4>5. predictions[t] = None
        BY <4>4 DEF FirstAttempt
      <4>6. QED
        BY <4>5 DEF Missing
    <3>2. QED
      BY <3>1 DEF TemporaryPlace, Checking
  <2>3. Missing' = Missing
    BY <2>1 DEF Missing
  <2>4. QED
    BY <2>1, <2>2, <2>3 DEF LitterInv
<1>2. CASE ~Kill
  <2>1. litter' = litter
    <3>1. CASE UNCHANGED disk
      BY <3>1 DEF disk
    <3>2. CASE Effect
      BY <3>2 DEF Effect, StageOutput, WriteOutput, StageTrace, WriteTrace, MakeWorkspace,
           SaveOldOutput, SaveOldTrace, disk, WriteMarker, Checkpoint, PublishOutput,
           PublishTrace, PublishPrediction, UnlinkMarker, UnlinkPayloads, RemoveDirectory
    <3>3. QED
      BY <1>2, <3>1, <3>2, DiskChanges
  <2>2. litter \cap {"outputs", "traces"} # {} => Missing' # {}
    BY MissingStays DEF LitterInv
  <2>3. /\ phase' \notin {"down", "resume", "recover", "load"} =>
             phase \notin {"down", "resume", "recover", "load"} \/ Complaints = {}
        /\ phase' \in {"recover", "load"} => phase \in {"recover", "load"}
                                             \/ "root" \notin litter
    <3>0. IInv /\ [Next]_vars /\ ~Kill
      BY <1>2
    <3>1. CASE phase' = phase
      BY <3>1
    <3>2. CASE Coordinator /\ ~DoStep
      BY <3>2 DEF Coordinator, RejectRoot, OpenRoot, RecoverDone, RejectDirectory,
           AcceptDirectory, StartWorkers, UndoDone, AllPublished, DrainDone, CancelDone,
           TidyDone, Report, RecoverNext, CreateNext, UndoNext, CallProvider, PublishNext,
           BeginPublish, WorkerError, DrainNext, CancelWorker, TidyNext, Enter, Exit, LeaveLoop
    <3>3. CASE DoStep
      BY <3>3 DEF DoStep, Continue, Return
    <3>4. CASE Provider
      BY <3>4 DEF Provider, ContextFails, ProviderAnswers, ProviderFails, Write
    <3>5. CASE StartSession \/ Interrupt
      BY <3>5 DEF StartSession, Interrupt, LeaveLoop, Enter
    <3>6. CASE IOError
      BY <3>6 DEF IOError, Raise, RaiseInWorker, RaiseInCreate, RaiseInCommit, RaiseBeforeCommit,
           RaiseInSweep, RaiseInPublish, LeaveLoop, Enter, Exit, IInv, PhaseInv, At, Idle,
           CreateLabel
    <3>7. QED
      BY <3>0, <3>1, <3>2, <3>3, <3>4, <3>5, <3>6 DEF Next, Environment, vars
  <2>4. QED
    BY <2>1, <2>2, <2>3, AcceptedIsClean DEF LitterInv
<1>3. QED
  BY <1>1, <1>2

-----------------------------------------------------------------------------
(* The records in memory and the journals.                                 *)

(* The order of the publications is kept by every durable step.            *)
LEMMA OrderStep ==
  ASSUME IInv, OrderInv, [Next]_vars
  PROVE  OrderInv'
<1> SUFFICES ASSUME NEW u \in Task, Prepared(u)', predictions'[u] = meta'[u].new
             PROVE  outputs'[u] = Workbook(meta'[u].new) /\ traces'[u] = meta'[u].new
  BY DEF OrderInv
<1> USE DEF Prepared
<1>0. CASE UNCHANGED <<predictions, outputs, traces, meta>>
  BY <1>0 DEF OrderInv
<1>1. CASE ~Idle /\ Verified /\ Effect
  <2>t. PICK t \in Task : t = step.task
    BY <1>1, SectionTask DEF IInv
  <2>d. /\ predictions \in [Task -> Result \cup {None}]
        /\ outputs \in [Task -> Content \cup {None}]
        /\ traces \in [Task -> Result \cup {None}]
        /\ meta \in [Task -> [old : Result, new : Result] \cup {None}]
    BY DEF IInv, TypeOK, DiskTypeOK
  <2>1. CASE OutputStep \/ TraceStep
    <3>1. t \in retrying => UNCHANGED <<predictions, outputs, traces, meta>>
      BY <1>1, <2>1, <2>t DEF Effect, OutputStep, TraceStep, At, StageOutput, StageTrace
    <3>2. ASSUME t \notin retrying PROVE ~Prepared(t)
      <4>1. phase \in {"run", "cancel"} /\ phase \in RunPhases
        BY <2>1, <2>t DEF IInv, PhaseInv, OutputStep, TraceStep, At, WriteLabel, TryLabel,
                          FallbackLabel, RunPhases
      <4>2. QED
        BY <3>2, <4>1 DEF IInv, PreparedInv
    <3>3. t \notin retrying =>
             /\ UNCHANGED <<predictions, meta>>
             /\ u # t => outputs'[u] = outputs[u] /\ traces'[u] = traces[u]
      BY <1>1, <2>1, <2>t, <2>d DEF Effect, OutputStep, TraceStep, At, WriteOutput, WriteTrace
    <3>4. QED
      BY <1>0, <3>1, <3>2, <3>3 DEF OrderInv
  <2>2. CASE At("checkpoint") /\ Checkpoint(results)
    <3>1. phase \in RunPhases /\ UNCHANGED <<outputs, traces, meta>> /\ predictions' = results
      BY <2>2 DEF Checkpoint, IInv, PhaseInv, At, PublishPhases, RunPhases
    <3>2. u \in retrying /\ u \in commitStarted
      BY <3>1 DEF IInv, PreparedInv
    <3>3. results[u] = meta[u].old
      BY <3>1, <3>2 DEF IInv, WorkInv, Retry
    <3>4. predictions[u] = meta[u].new
      BY <3>1, <3>3 DEF IInv, Recoverable, TaskRecoverable, NoConflict
    <3>5. QED
      BY <3>1, <3>4 DEF OrderInv
  <2>3. CASE At("prepare") /\ WriteMarker(t, results[t], answer[t])
    <3>1. /\ UNCHANGED <<predictions, outputs, traces>>
          /\ meta' = [meta EXCEPT ![t] = [old |-> results[t], new |-> answer[t]]]
      BY <2>3 DEF WriteMarker
    <3>2. CASE u # t
      BY <2>d, <3>1, <3>2 DEF OrderInv
    <3>3. CASE u = t
      <4>1. phase \in RunPhases /\ InSection(t, {"prepare"})
        BY <2>3, <2>t DEF IInv, PhaseInv, At, PublishPhases, RunPhases, InSection
      <4>2. Retry(t) /\ ~Prepared(t)
        BY <1>1, <2>3, <2>t, <4>1 DEF IInv, WorkInv, Verified, InSection
      <4>3. predictions[t] # None
        BY <4>1, <4>2, ResultAssumption DEF Retry
      <4>4. outputs[t] = Workbook(predictions[t]) /\ traces[t] = predictions[t]
        BY <4>2, <4>3 DEF IInv, Recoverable, TaskRecoverable
      <4>5. meta'[t].new = predictions[t]
        BY <3>1, <3>3
      <4>6. QED
        BY <3>1, <3>3, <4>4, <4>5
    <3>4. QED
      BY <3>2, <3>3
  <2>4. CASE At("publish_output") /\ PublishOutput(t)
    <3>1. /\ UNCHANGED <<predictions, traces, meta>>
          /\ outputs' = [outputs EXCEPT ![t] = payload[t].new_output]
      BY <2>4 DEF PublishOutput
    <3>2. CASE u # t
      BY <2>d, <3>1, <3>2 DEF OrderInv
    <3>3. CASE u = t
      <4>1. payload[t].new_output = Workbook(meta[t].new)
        BY <3>1, <3>3 DEF IInv, Recoverable, TaskRecoverable
      <4>2. QED
        BY <2>d, <3>1, <3>3, <4>1 DEF OrderInv
    <3>4. QED
      BY <3>2, <3>3
  <2>5. CASE At("publish_trace") /\ PublishTrace(t)
    <3>1. /\ UNCHANGED <<predictions, outputs, meta>>
          /\ traces' = [traces EXCEPT ![t] = payload[t].new_trace]
      BY <2>5 DEF PublishTrace
    <3>2. CASE u # t
      BY <2>d, <3>1, <3>2 DEF OrderInv
    <3>3. CASE u = t
      <4>1. payload[t].new_trace = meta[t].new
        BY <3>1, <3>3 DEF IInv, Recoverable, TaskRecoverable
      <4>2. QED
        BY <2>d, <3>1, <3>3, <4>1 DEF OrderInv
    <3>4. QED
      BY <3>2, <3>3
  <2>6. CASE At("publish_prediction") /\ PublishPrediction(t)
    <3>1. /\ UNCHANGED <<outputs, traces, meta>>
          /\ predictions' = [predictions EXCEPT ![t] = meta[t].new]
      BY <2>6 DEF PublishPrediction
    <3>2. CASE u # t
      BY <2>d, <3>1, <3>2 DEF OrderInv
    <3>3. CASE u = t
      BY <2>6, <2>t, <3>1, <3>3 DEF IInv, CommitInv, At
    <3>4. QED
      BY <3>2, <3>3
  <2>7. CASE At("unlink_marker") /\ UnlinkMarker(t)
    <3>1. /\ UNCHANGED <<predictions, outputs, traces>>
          /\ meta' = [meta EXCEPT ![t] = None]
      BY <2>7 DEF UnlinkMarker
    <3>2. u # t /\ meta'[u] = meta[u]
      BY <2>d, <3>1
    <3>3. QED
      BY <3>1, <3>2 DEF OrderInv
  <2>8. QED
    BY <1>0, <1>1, <2>t, <2>1, <2>2, <2>3, <2>4, <2>5, <2>6, <2>7
    DEF Effect, MakeWorkspace, SaveOldOutput, SaveOldTrace, disk, UnlinkPayloads,
        RemoveDirectory
<1>2. QED
  BY <1>0, <1>1, DiskChanges DEF disk, Kill

(* No record of a retry disappears in the main loop.                       *)
LEMMA LoopKeepsRecords ==
  ASSUME IInv, SettleInv, [Next]_vars, phase = "run", NEW u \in retrying
  PROVE  predictions'[u] # None
<1>1. u \in Task /\ predictions[u] # None
  BY DEF SettleInv, IInv, TypeOK
<1>2. CASE predictions'[u] = predictions[u]
  BY <1>1, <1>2
<1>3. CASE predictions'[u] # predictions[u]
  <2>1. ~Idle /\ Effect
    BY <1>3, DiskChanges DEF disk, Kill
  <2>2. CASE At("checkpoint") /\ predictions' = results
    <3>1. Retry(u) /\ ~InSection(u, Cleaning)
      BY <1>1, <2>2 DEF IInv, WorkInv, At, InSection, Cleaning, RunPhases
    <3>2. results[u] \in Result \/ results[u] = predictions[u]
      BY <1>1, <3>1 DEF Retry, Prepared, IInv, TypeOK, DiskTypeOK
    <3>3. QED
      BY <1>1, <2>2, <3>2, ResultAssumption
  <2>3. CASE At("publish_prediction") /\ step.task = u /\ PublishPrediction(u)
    <3>1. meta[u] \in [old : Result, new : Result]
      BY <1>1, <2>3 DEF IInv, CommitInv, At, Trusting, Prepared, TypeOK, DiskTypeOK
    <3>2. predictions'[u] = meta[u].new
      BY <1>1, <2>3 DEF PublishPrediction, IInv, TypeOK, DiskTypeOK
    <3>3. QED
      BY <3>1, <3>2, ResultAssumption
  <2>4. QED
    BY <1>1, <1>3, <2>1, <2>2, <2>3, RecordChanges
<1>4. QED
  BY <1>2, <1>3

(* In the main loop a record is written when its worker's result is        *)
(* published, and neither memory nor disk changes it afterwards.           *)
LEMMA LoopSettles ==
  ASSUME IInv, SettleInv, [Next]_vars, phase = "run", phase' = "run", NEW u \in Task,
         worker'[u] = "none" \/ u \in published'
  PROVE  predictions'[u] = results'[u] /\ predictions'[u] # None
<1> DEFINE Done == worker[u] = "none" \/ u \in published
<1>d. /\ predictions \in [Task -> Result \cup {None}]
      /\ results \in [Task -> Result \cup {None}]
      /\ worker \in [Task -> WorkerState] /\ step \in Steps
  BY DEF IInv, TypeOK, DiskTypeOK
<1>o. Done => predictions[u] = results[u] /\ predictions[u] # None
  BY DEF SettleInv
<1>1. CASE UNCHANGED <<predictions, results, worker, published>>
  BY <1>1, <1>o
<1>2. ASSUME NEW t \in Task, PublishNext(t)
      PROVE  predictions'[u] = results'[u] /\ predictions'[u] # None
  <2>1. /\ worker[t] = "done" /\ t \notin published
        /\ results' \in {results, [results EXCEPT ![t] = answer[t]]}
        /\ UNCHANGED <<predictions, worker, published>>
    BY <1>2 DEF PublishNext, BeginPublish, disk
  <2>2. u # t
    BY <2>1
  <2>3. QED
    BY <1>d, <1>o, <2>1, <2>2
<1>3. CASE \E t \in Task :
             \/ CallProvider(t)
             \/ \E r \in Result :
                  ContextFails(t, r) \/ ProviderAnswers(t, r) \/ ProviderFails(t, r)
  <2>1. PICK t \in Task : /\ worker[t] \in {"waiting", "calling"}
                          /\ \E w \in {"calling", "writing"} : worker' = [worker EXCEPT ![t] = w]
                          /\ UNCHANGED <<predictions, results, published>>
    BY <1>3 DEF CallProvider, ContextFails, ProviderAnswers, ProviderFails, Write, disk
  <2>2. worker'[u] = "none" => worker[u] = "none"
    BY <1>d, <2>1
  <2>3. QED
    BY <1>o, <2>1, <2>2
<1>4. CASE ~Idle /\ Verified /\ Effect /\ (Continue \/ Return)
  <2>t. PICK t \in Task : t = step.task
    BY <1>4, SectionTask DEF IInv
  <2>1. CASE At("checkpoint")
    <3>1. predictions' = results /\ results' = results /\ worker' = worker
          /\ published' = published \cup {t}
      BY <1>4, <2>1, <2>t DEF Effect, OutputStep, TraceStep, At, Checkpoint, Continue,
           Following, Return, FinishWorker, FinishCreate, FinishCheckpoint, FinishCommit,
           FinishSweep
    <3>2. InSection(t, {"checkpoint"}) /\ phase \in RunPhases
      BY <2>1, <2>t DEF At, InSection, RunPhases
    <3>3. FirstAttempt(t) /\ worker[t] = "done"
      BY <3>2 DEF IInv, WorkInv, InSection
    <3>4. results[t] # None
      BY <3>2, <3>3 DEF FirstAttempt
    <3>5. QED
      BY <1>o, <3>1, <3>3, <3>4
  <2>2. CASE At("publish_prediction")
    <3>1. PublishPrediction(t) /\ UNCHANGED <<results, worker, published>>
      BY <1>4, <2>2, <2>t DEF Effect, OutputStep, TraceStep, At, Continue,
           Following, Return, FinishWorker, FinishCreate, FinishCheckpoint, FinishCommit,
           FinishSweep, memory
    <3>2. InSection(t, {"prepare"} \cup CommitLabel) /\ InSection(t, {"prepare", "checkpoint"} \cup CommitLabel)
          /\ phase \in RunPhases
      BY <2>2, <2>t DEF At, InSection, RunPhases, CommitLabel
    <3>3. t \notin published /\ worker[t] = "done"
      BY <3>2 DEF IInv, LoopInv, WorkInv
    <3>4. u # t
      BY <3>1, <3>3
    <3>5. QED
      BY <1>d, <1>o, <3>1, <3>4 DEF PublishPrediction
  <2>3. CASE At("rmdir")
    <3>1. /\ UNCHANGED <<predictions, worker>>
          /\ results' = [results EXCEPT ![t] = answer[t]]
          /\ published' = published \cup {t}
      BY <1>4, <2>3, <2>t DEF Effect, OutputStep, TraceStep, At, RemoveDirectory, Continue,
           Following, Return, FinishWorker, FinishCreate, FinishCheckpoint, FinishCommit,
           FinishSweep
    <3>2. predictions[t] = answer[t] /\ answer[t] # None
      <4>1. phase \in RunPhases /\ InSection(t, Cleaning) /\ t \in retrying \cap commitStarted
            /\ predictions[t] = answer[t] /\ ~Prepared(t)
        BY <2>3, <2>t DEF IInv, CommitInv, At, CommitLabel, Cleaning, InSection, RunPhases
      <4>2. QED
        BY <4>1 DEF SettleInv
    <3>3. QED
      BY <1>d, <1>o, <3>1, <3>2
  <2>4. CASE ~At("checkpoint") /\ ~At("publish_prediction") /\ ~At("rmdir")
    <3>1. UNCHANGED predictions
      BY <1>4, <2>t, <2>4 DEF Effect, StageOutput, WriteOutput, StageTrace, WriteTrace, MakeWorkspace,
         SaveOldOutput, SaveOldTrace, disk, WriteMarker, PublishOutput, PublishTrace,
         UnlinkMarker, UnlinkPayloads, RemoveDirectory
    <3>2. UNCHANGED <<results, published>>
          /\ (worker' = worker \/ worker' = [worker EXCEPT ![t] = "done"])
      BY <1>4, <2>t, <2>4 DEF Continue, Return, FinishWorker, FinishCreate,
           FinishCheckpoint, FinishCommit, FinishSweep, memory
    <3>3. QED
      BY <1>d, <1>o, <3>1, <3>2
  <2>5. QED
    BY <2>1, <2>2, <2>3, <2>4
<1>5. ASSUME IOError PROVE predictions'[u] = results'[u] /\ predictions'[u] # None
  <2> DEFINE t == step.task
  <2>t. t \in Task
    BY <1>5, SectionTask DEF IInv, IOError
  <2>1. CASE RaiseInWorker(t)
    <3>1. /\ \E l \in WriteLabel : At(l)
          /\ UNCHANGED <<results, published>>
          /\ worker' = worker \/ worker' = [worker EXCEPT ![t] = "failed"]
      BY <2>1 DEF RaiseInWorker, WriteLabel
    <3>2. UNCHANGED predictions
      BY <1>5, <2>t, <3>1 DEF IOError, Effect, OutputStep, TraceStep, At, WriteLabel, TryLabel,
         FallbackLabel, disk, StageOutput, WriteOutput, StageTrace, WriteTrace
    <3>3. QED
      BY <1>d, <1>o, <3>1, <3>2
  <2>2. CASE RaiseInCommit(t) /\ meta'[t] = None
    <3>1. /\ \E l \in CommitLabel : At(l)
          /\ results' = [results EXCEPT ![t] = answer[t]]
          /\ published' = published \cup {t} /\ UNCHANGED worker
      BY <2>2 DEF RaiseInCommit, FinishCommit
    <3>2. t \in retrying \cap commitStarted /\ step.at \in CommitLabel /\ step # None
      BY <3>1, <2>t DEF IInv, CommitInv, At
    <3>3. /\ UNCHANGED predictions
          /\ predictions[t] = answer[t]
      <4>1. CASE step.at \in Cleaning
        <5>1. predictions[t] = answer[t]
          BY <2>t, <3>2, <4>1 DEF IInv, CommitInv
        <5>2. QED
          BY <1>5, <2>t, <4>1, <5>1 DEF IOError, Effect, OutputStep, TraceStep, At, Cleaning,
             disk, UnlinkPayloads, RemoveDirectory
      <4>2. CASE step.at \notin Cleaning
        <5>1. Prepared(t)
          BY <2>t, <3>2, <4>2 DEF IInv, CommitInv, CommitLabel, Trusting, Cleaning
        <5>2. At("unlink_marker") /\ UnlinkMarker(t)
          BY <1>5, <2>2, <2>t, <3>2, <4>2, <5>1
          DEF IOError, Effect, OutputStep, TraceStep, At, Prepared, CommitLabel, Cleaning,
              disk, PublishOutput, PublishTrace, PublishPrediction
        <5>3. meta[t].new = answer[t] /\ predictions[t] = meta[t].new
          BY <2>t, <3>2, <5>1, <5>2 DEF IInv, CommitInv, At
        <5>4. QED
          BY <5>2, <5>3 DEF UnlinkMarker
      <4>3. QED
        BY <4>1, <4>2
    <3>4. predictions[t] # None
      BY <2>t, <3>2 DEF SettleInv
    <3> HIDE DEF t
    <3>5. u = t => results'[u] = predictions[u]
      BY <1>d, <2>t, <3>1, <3>3
    <3>6. u # t => results'[u] = results[u] /\ (u \in published' <=> u \in published)
      BY <1>d, <2>t, <3>1
    <3>7. QED
      BY <1>o, <3>1, <3>3, <3>4, <3>5, <3>6
  <2>3. ~RaiseInPublish /\ ~RaiseInCreate(t) /\ ~RaiseInSweep
    BY DEF RaiseInPublish, LeaveLoop, Enter, Exit, RaiseInCreate, RaiseInSweep
  <2>4. RaiseInCommit(t) => meta'[t] = None
    BY <2>3 DEF RaiseInCommit
  <2>5. Raise
    BY <1>5 DEF IOError
  <2>6. RaiseInWorker(t) \/ RaiseInCommit(t)
    BY <2>3, <2>5 DEF Raise, RaiseBeforeCommit
  <2>7. QED
    BY <2>1, <2>2, <2>4, <2>6
<1>6. QED
  <2>1. CASE UNCHANGED vars
    BY <1>1, <2>1 DEF vars, disk, memory
  <2>2. CASE Coordinator
    BY <1>2, <1>3, <1>4, <2>2 DEF Coordinator, RejectRoot, OpenRoot, RecoverDone,
       RejectDirectory, AcceptDirectory, StartWorkers, UndoDone, AllPublished, DrainDone,
       CancelDone, TidyDone, Report, RecoverNext, CreateNext, UndoNext, WorkerError, DrainNext,
       CancelWorker, TidyNext, DoStep, LeaveLoop, Enter
  <2>3. CASE Provider
    BY <1>3, <2>3 DEF Provider
  <2>4. CASE StartSession \/ Interrupt \/ Kill
    BY <2>4 DEF StartSession, Interrupt, Kill, LeaveLoop, Enter, Exit
  <2>5. QED
    BY <1>5, <2>1, <2>2, <2>3, <2>4 DEF Next, Environment

(* How the main loop is entered and left, and how the report is reached.   *)
LEMMA PhaseChanges ==
  ASSUME IInv, [Next]_vars, phase' # phase, phase' \in {"run", "tidy", "final"}
  PROVE  \/ StartWorkers \/ AllPublished \/ DrainDone \/ TidyDone
         \/ \E retry \in BOOLEAN : AcceptDirectory(retry)
<1>1. CASE Coordinator /\ ~DoStep
  <2>1. ASSUME NEW t \in Task,
               \/ RecoverNext(t) \/ CreateNext(t) \/ UndoNext(t) \/ CallProvider(t)
               \/ PublishNext(t) \/ WorkerError(t) \/ DrainNext(t) \/ CancelWorker(t)
               \/ TidyNext(t)
        PROVE  phase' \notin {"run", "tidy", "final"}
    BY <2>1 DEF RecoverNext, CreateNext, UndoNext, CallProvider, PublishNext, BeginPublish,
       WorkerError, DrainNext, CancelWorker, TidyNext, Enter, LeaveLoop
  <2>2. ~(RejectRoot \/ OpenRoot \/ RecoverDone \/ RejectDirectory \/ UndoDone \/ CancelDone
          \/ Report)
    BY DEF RejectRoot, OpenRoot, RecoverDone, RejectDirectory, UndoDone, CancelDone, Report,
       Enter, Exit
  <2>3. QED
    BY <1>1, <2>1, <2>2 DEF Coordinator
<1>2. CASE DoStep
  BY <1>2 DEF DoStep, Continue, Return
<1>3. CASE Provider
  BY <1>3 DEF Provider, ContextFails, ProviderAnswers, ProviderFails, Write
<1>4. CASE StartSession \/ Interrupt \/ Kill
  BY <1>4 DEF StartSession, Interrupt, LeaveLoop, Enter, Kill, Exit
<1>5. CASE IOError
  BY <1>5 DEF IOError, Raise, RaiseInWorker, RaiseInCreate, RaiseInCommit, RaiseBeforeCommit,
       RaiseInSweep, RaiseInPublish, LeaveLoop, Enter, Exit
<1>6. QED
  BY <1>1, <1>2, <1>3, <1>4, <1>5 DEF Next, Environment, vars

(* In these phases a step takes the selection of tasks as it is, ...       *)
LEMMA SelectionStays ==
  ASSUME IInv, [Next]_vars, phase = "run", phase' = "run"
  PROVE  retrying' = retrying
<1>1. CASE Coordinator /\ ~DoStep
  BY <1>1 DEF Coordinator, RejectRoot, OpenRoot, RecoverDone, RejectDirectory, AcceptDirectory,
       StartWorkers, UndoDone, Report, RecoverNext, CreateNext, UndoNext, CallProvider,
       PublishNext, BeginPublish, WorkerError, DrainNext, DrainDone, CancelWorker, CancelDone,
       TidyNext, TidyDone, AllPublished, Enter, LeaveLoop
<1>2. CASE DoStep
  BY <1>2 DEF DoStep, Continue, Return, memory
<1>3. CASE Provider
  BY <1>3 DEF Provider, ContextFails, ProviderAnswers, ProviderFails, Write
<1>4. CASE StartSession \/ Interrupt \/ Kill
  BY <1>4 DEF StartSession, Interrupt, LeaveLoop, Enter, Kill, Exit
<1>5. CASE IOError
  BY <1>5 DEF IOError, Raise, RaiseInWorker, RaiseInCreate, RaiseInCommit, RaiseBeforeCommit,
       RaiseInSweep, RaiseInPublish, LeaveLoop, Enter, Exit, memory
<1>6. QED
  BY <1>1, <1>2, <1>3, <1>4, <1>5 DEF Next, Environment, vars, memory

(* ... and after the loop it touches no record.                            *)
LEMMA TidyKeeps ==
  ASSUME IInv, [Next]_vars, phase \in {"tidy", "final"}, phase' = phase
  PROVE  UNCHANGED <<predictions, results>> /\ (raising => raising')
<1>1. CASE Coordinator /\ ~DoStep
  <2>1. ASSUME NEW t \in Task,
               \/ RecoverNext(t) \/ CreateNext(t) \/ UndoNext(t) \/ CallProvider(t)
               \/ PublishNext(t) \/ WorkerError(t) \/ DrainNext(t) \/ CancelWorker(t)
               \/ TidyNext(t)
        PROVE  TidyNext(t)
    BY <2>1 DEF RecoverNext, CreateNext, UndoNext, CallProvider, PublishNext, WorkerError,
       DrainNext, CancelWorker
  <2>2. ASSUME NEW t \in Task, TidyNext(t) PROVE UNCHANGED <<predictions, results, raising>>
    BY <2>2 DEF TidyNext, disk
  <2>3. ~ \/ RejectRoot \/ OpenRoot \/ RecoverDone \/ RejectDirectory \/ StartWorkers
          \/ UndoDone \/ AllPublished \/ DrainDone \/ CancelDone
          \/ \E retry \in BOOLEAN : AcceptDirectory(retry)
    BY DEF RejectRoot, OpenRoot, RecoverDone, RejectDirectory, StartWorkers, UndoDone,
       AllPublished, DrainDone, CancelDone, AcceptDirectory
  <2>4. ~TidyDone /\ ~Report
    BY DEF TidyDone, Report, Enter, Exit
  <2>5. QED
    BY <1>1, <2>1, <2>2, <2>3, <2>4 DEF Coordinator
<1>2. CASE DoStep \/ IOError
  <2>1. PICK t \in Task : t = step.task
    BY <1>2, SectionTask DEF IInv, DoStep, IOError
  <2>2. \E l \in SweepLabel : At(l)
    BY <1>2, <2>1, SectionTask DEF DoStep, IOError, Idle, At, IInv, PhaseInv, Label, WriteLabel, TryLabel,
       FallbackLabel, CreateLabel, CommitLabel, PublishPhases
  <2>3. UNCHANGED disk \/ Effect
    BY <1>2 DEF DoStep, IOError
  <2>4. UNCHANGED predictions
    BY <2>2, <2>3 DEF Effect, OutputStep, TraceStep, At, SweepLabel, disk, UnlinkPayloads,
       RemoveDirectory
  <2>5. CASE DoStep
    BY <2>2, <2>4, <2>5 DEF DoStep, Continue, Return, At, SweepLabel, FinishWorker, FinishCreate,
       FinishCheckpoint, FinishSweep, TraceStep, memory
  <2>6. CASE IOError
    BY <2>2, <2>4, <2>6 DEF IOError, Raise, At, SweepLabel, RaiseInWorker, RaiseInCreate, RaiseInCommit,
       RaiseBeforeCommit, RaiseInSweep, TryLabel, FallbackLabel, CreateLabel, CommitLabel, Exit,
       memory
  <2>7. QED
    BY <1>2, <2>5, <2>6
<1>3. CASE Provider
  BY <1>3 DEF Provider, ContextFails, ProviderAnswers, ProviderFails, Write
<1>4. CASE StartSession \/ Interrupt \/ Kill
  BY <1>4 DEF StartSession, Interrupt, Kill, Exit
<1>5. CASE UNCHANGED vars
  BY <1>5 DEF vars, disk, memory
<1>6. QED
  BY <1>1, <1>2, <1>3, <1>4, <1>5 DEF Next, Environment

(* What the loop has settled stays so until the session reports it.        *)
LEMMA SettleStep ==
  ASSUME IInv, SettleInv, [Next]_vars
  PROVE  SettleInv'
<1>d. /\ predictions \in [Task -> Result \cup {None}]
      /\ results \in [Task -> Result \cup {None}]
  BY DEF IInv, TypeOK, DiskTypeOK
<1>1. CASE phase = "run" /\ phase' = "run"
  <2>1. \A u \in retrying' : predictions'[u] # None
    BY <1>1, SelectionStays, LoopKeepsRecords
  <2>2. QED
    BY <1>1, <2>1, LoopSettles DEF SettleInv
<1>2. CASE StartWorkers
  <2>1. /\ phase = "create" /\ phase' = "run"
        /\ worker' = [t \in Task |-> IF t \in Missing \cup retrying THEN "waiting" ELSE "none"]
        /\ UNCHANGED <<predictions, results, retrying, published>>
    BY <1>2 DEF StartWorkers, Enter, disk
  <2>2. results = predictions /\ published = {} /\ retrying \subseteq Failures
    BY <2>1 DEF IInv, CreateInv, BeforeRunInv
  <2>3. \A t \in Task : worker'[t] = "none" => predictions[t] # None
    BY <2>1 DEF Missing
  <2>4. \A t \in retrying : predictions[t] # None
    BY <2>2, ResultAssumption DEF Failures
  <2>5. QED
    BY <2>1, <2>2, <2>3, <2>4 DEF SettleInv
<1>3. CASE AllPublished
  <2>1. /\ phase = "run" /\ phase' = "tidy" /\ Unpublished = {}
        /\ UNCHANGED <<predictions, results>>
    BY <1>3 DEF AllPublished, Enter, disk, memory
  <2>2. \A t \in Task : worker[t] = "none" \/ t \in published
    BY <2>1 DEF Unpublished
  <2>3. \A t \in Task : predictions[t] = results[t] /\ predictions[t] # None
    BY <2>1, <2>2 DEF SettleInv
  <2>4. predictions = results /\ Missing = {}
    BY <1>d, <2>3 DEF Missing
  <2>5. QED
    BY <2>1, <2>4 DEF SettleInv, Missing
<1>4. CASE DrainDone
  BY <1>4 DEF DrainDone, Enter, memory, IInv, LoopInv, SettleInv
<1>5. CASE TidyDone
  <2>1. CASE raising
    BY <1>5, <2>1 DEF TidyDone, Exit, SettleInv
  <2>2. CASE ~raising
    BY <1>5, <2>2 DEF TidyDone, Enter, memory, disk, SettleInv, Missing
  <2>3. QED
    BY <2>1, <2>2
<1>6. ASSUME NEW retry \in BOOLEAN, AcceptDirectory(retry) PROVE SettleInv'
  <2>1. /\ results' = predictions /\ predictions' = predictions
        /\ phase' = IF Missing \cup retrying' = {} THEN "final" ELSE "create"
    BY <1>6 DEF AcceptDirectory, Enter, disk
  <2>2. QED
    BY <2>1 DEF SettleInv, Missing
<1>7. CASE phase \in {"tidy", "final"} /\ phase' = phase
  BY <1>7, TidyKeeps DEF SettleInv, Missing
<1>8. CASE phase' \notin {"run", "tidy", "final"}
  BY <1>8 DEF SettleInv
<1>9. QED
  BY <1>1, <1>2, <1>3, <1>4, <1>5, <1>6, <1>7, <1>8, PhaseChanges

(* The invariant of what a session reports and the next one finds.         *)
LEMMA ReportHolds == Spec => []ReportInv
<1>1. Init => ReportInv
  BY DEF Init, DiskInit, ReportInv, LitterInv, SettleInv, OrderInv, Prepared
<1>2. IInv /\ ReportInv /\ [Next]_vars => ReportInv'
  BY LitterStep, SettleStep, OrderStep DEF ReportInv
<1>3. QED
  BY <1>1, <1>2, InvariantHolds, PTL DEF Spec

(* A record that no journal is to replace has its workbook and its trace.  *)
LEMMA RecordedIsSound ==
  ASSUME IInv, \A t \in Task : ~Prepared(t), NEW t \in Checkpointed
  PROVE  /\ outputs[t] # None /\ traces[t] # None
         /\ predictions[t] \notin Success => outputs[t] = Pristine
         /\ predictions[t] \in Success => HoldsCall(traces[t])
<1>1. t \in Task /\ predictions[t] # None /\ predictions[t] \in Result
  BY DEF Checkpointed, IInv, TypeOK, DiskTypeOK
<1>2. outputs[t] = Workbook(predictions[t]) /\ traces[t] = predictions[t]
  BY <1>1 DEF IInv, Recoverable, TaskRecoverable
<1>3. QED
  BY <1>1, <1>2, ResultAssumption DEF Workbook, HoldsCall

(* So a complete directory without temporary files is accepted.            *)
LEMMA CompleteIsAccepted ==
  ASSUME IInv, \A t \in Task : ~Prepared(t), litter = {}, Missing = {}
  PROVE  Complaints = {}
<1>1. Task \ Checkpointed = {}
  BY DEF Missing, Checkpointed
<1>2. \A t \in Checkpointed :
        /\ outputs[t] # None /\ traces[t] # None
        /\ predictions[t] \notin Success => outputs[t] = Pristine
        /\ predictions[t] \in Success => HoldsCall(traces[t])
  BY RecordedIsSound
<1>3. QED
  BY <1>1, <1>2 DEF Complaints

-----------------------------------------------------------------------------
(* What a run that returns has reported is on the disk: every task has its *)
(* record, the resume validation has no complaint and no journal is left.  *)
THEOREM ReportIsTrue == Spec => []ReportMatchesDirectory
<1>1. ASSUME IInv, ReportInv, phase = "final"
      PROVE  results = predictions /\ Missing = {} /\ Complaints = {} /\ \A t \in Task : ~Prepared(t)
  <2>1. results = predictions /\ Missing = {} /\ litter = {}
    BY <1>1 DEF ReportInv, SettleInv, LitterInv
  <2>2. \A t \in Task : ~Prepared(t)
    BY <1>1 DEF IInv, PreparedInv
  <2>3. QED
    BY <1>1, <2>1, <2>2, CompleteIsAccepted DEF IInv
<1>2. IInv /\ ReportInv => ReportMatchesDirectory
  BY <1>1 DEF ReportMatchesDirectory
<1>3. QED
  BY <1>2, InvariantHolds, ReportHolds, PTL

(* After recovery a directory with a clean root is refused only for what   *)
(* an interrupted first attempt left; a complete one is accepted.          *)
THEOREM OnlyFirstAttemptsAreRefused == Spec => []RefusesOnlyFirstAttempts
<1>1. ASSUME IInv, ReportInv, phase = "load"
      PROVE  /\ Complaints \subseteq {"orphan_output", "orphan_trace"}
             /\ Missing = {} => Complaints = {}
  <2>1. \A t \in Task : ~Prepared(t)
    BY <1>1 DEF IInv, PreparedInv
  <2>2. "root" \notin litter
    BY <1>1 DEF ReportInv, LitterInv
  <2>3. Missing = {} => litter = {}
    <3>1. litter \subseteq {"root", "outputs", "traces"}
      BY <1>1 DEF IInv, TypeOK, DiskTypeOK, Place
    <3>2. QED
      BY <1>1, <2>2, <3>1 DEF ReportInv, LitterInv
  <2>4. Complaints \subseteq {"orphan_output", "orphan_trace"}
    <3>1. \A t \in Checkpointed :
            /\ outputs[t] # None /\ traces[t] # None
            /\ predictions[t] \notin Success => outputs[t] = Pristine
            /\ predictions[t] \in Success => HoldsCall(traces[t])
      BY <1>1, <2>1, RecordedIsSound
    <3>2. QED
      BY <2>2, <3>1 DEF Complaints
  <2>5. QED
    BY <1>1, <2>1, <2>3, <2>4, CompleteIsAccepted DEF IInv
<1>2. IInv /\ ReportInv => RefusesOnlyFirstAttempts
  BY <1>1 DEF RefusesOnlyFirstAttempts
<1>3. QED
  BY <1>2, InvariantHolds, ReportHolds, PTL

(* The validator and the resume validation agree, also on a directory that *)
(* a killed session has left in the middle of a publication.               *)
THEOREM ValidatorsAgree == Spec => []ValidatorAgrees
<1>1. ASSUME IInv, ReportInv, Issues(TRUE) = {}, NEW t \in Task
      PROVE  /\ outputs[t] = Workbook(predictions[t])
             /\ predictions[t] \in Success => traces[t] = predictions[t]
  <2>1. predictions[t] # None /\ predictions[t] \in Result
    BY <1>1 DEF Issues, PredictionIssues, IssueIf, IInv, TypeOK, DiskTypeOK
  <2>2. /\ outputs[t] # None
        /\ predictions[t] \notin Success => outputs[t] \in {None, Pristine}
    BY <1>1, <2>1 DEF Issues, WorkbookIssues, IssueIf, IsMissing, Recorded
  <2>3. CASE predictions[t] \notin Success
    BY <2>2, <2>3 DEF Workbook
  <2>4. CASE predictions[t] \in Success /\ ~Prepared(t)
    BY <1>1, <2>1, <2>4 DEF IInv, Recoverable, TaskRecoverable
  <2>5. CASE predictions[t] \in Success /\ Prepared(t)
    <3>1. predictions[t] = meta[t].new
      BY <1>1, <2>5 DEF IInv, Recoverable, TaskRecoverable, NoConflict, PayloadsValid
    <3>2. QED
      BY <1>1, <2>5, <3>1 DEF ReportInv, OrderInv
  <2>6. QED
    BY <2>3, <2>4, <2>5
<1>2. ASSUME Recorded = Task, Complaints = {} PROVE Issues(TRUE) = {}
  <2>1. \A t \in Task : t \in Checkpointed /\ t \in Recorded /\ predictions[t] # None
    BY <1>2 DEF Recorded, Checkpointed
  <2>2. \A t \in Task :
          /\ outputs[t] # None /\ traces[t] # None
          /\ predictions[t] \notin Success => outputs[t] = Pristine
          /\ predictions[t] \in Success => HoldsCall(traces[t])
    BY <1>2, <2>1 DEF Complaints
  <2>3. PredictionIssues = {} /\ WorkbookIssues = {}
    BY <2>1, <2>2 DEF PredictionIssues, WorkbookIssues, IssueIf, IsMissing, Recorded
  <2>4. TraceIssues(TRUE) = {}
    BY <2>2 DEF TraceIssues, IssueIf, IsMissing, TellsCall, HoldsCall, Recorded
  <2>5. QED
    BY <2>3, <2>4 DEF Issues
<1>3. IInv /\ ReportInv => ValidatorAgrees
  BY <1>1, <1>2 DEF ValidatorAgrees
<1>4. QED
  BY <1>3, InvariantHolds, ReportHolds, PTL

-----------------------------------------------------------------------------
(* The documents.  What is assumed about the records plays no part.        *)

HIDE ResultAssumption
HIDE StepAssumption

-----------------------------------------------------------------------------
(* Induction.                                                              *)

Below == {p \in Nat \X Nat : p[1] < p[2]}

(* Induction over the natural numbers, from the least number outside a     *)
(* set.                                                                    *)
LEMMA BelowIsWellFounded == IsWellFoundedOn(Below, Nat)
  BY NatLessThanWellFounded, Zenon DEF OpToRel, Below

LEMMA SetInduction ==
  ASSUME NEW S, 0 \in S, \A n \in Nat : n \in S => n + 1 \in S
  PROVE Nat \subseteq S
<1> DEFINE T == Nat \ S
<1>1. SUFFICES ASSUME T # {} PROVE FALSE
  OBVIOUS
<1>2. PICK x \in T : \A y \in T : ~ (<<y, x>> \in Below)
  <2>1. T \subseteq Nat
    OBVIOUS
  <2> HIDE DEF T
  <2> QED BY <1>1, <2>1, WFMin, BelowIsWellFounded, Zenon
<1>3. x \in Nat /\ x # 0 /\ x \notin S
  BY <1>2
<1>4. x - 1 \in Nat /\ <<x - 1, x>> \in Below
  BY <1>3 DEF Below
<1> QED BY <1>2, <1>3, <1>4

(* The largest number of a set of the first ones.                          *)
LEMMA MaxOfPrefix ==
  ASSUME NEW n \in Nat, NEW T \in SUBSET (1 .. n + 1), n + 1 \in T
  PROVE  Max(T) = n + 1
<1>1. \A y \in T : y \in Int /\ n + 1 >= y
  OBVIOUS
<1>2. \A x \in T : (\A y \in T : x >= y) => x = n + 1
  BY <1>1
<1> QED BY <1>1, <1>2 DEF Max

LEMMA MaxIsIn ==
  ASSUME NEW n \in Nat, NEW T \in SUBSET (1 .. n), T # {}
  PROVE  Max(T) \in T
<1> DEFINE S == {k \in Nat : \A U \in SUBSET (1 .. k) : U # {} => \E x \in U : \A y \in U : x >= y}
<1>1. 0 \in S
  <2>1. ASSUME NEW U \in SUBSET (1 .. 0) PROVE U = {}
    BY SMT
  <2> QED BY <2>1
<1>2. ASSUME NEW k \in Nat, k \in S PROVE k + 1 \in S
  <2>1. SUFFICES ASSUME NEW U \in SUBSET (1 .. k + 1), U # {}
                 PROVE \E x \in U : \A y \in U : x >= y
    OBVIOUS
  <2>2. CASE k + 1 \in U
    BY <2>2
  <2>3. CASE k + 1 \notin U
    <3>1. ASSUME NEW x \in U PROVE x \in 1 .. k
      <4>1. x \in 1 .. k + 1 /\ x # k + 1
        BY <2>3
      <4> QED BY <4>1
    <3>2. U \in SUBSET (1 .. k)
      BY <3>1
    <3> QED BY <1>2, <2>1, <3>2
  <2> QED BY <2>2, <2>3
<1> HIDE DEF S
<1>3. n \in S
  BY <1>1, <1>2, SetInduction
<1>4. \E x \in T : \A y \in T : x >= y
  BY <1>3 DEF S
<1> QED BY <1>4 DEF Max

-----------------------------------------------------------------------------
(* Folds.  F[k] is what a fold does with the k-th element, from X to X.    *)

FoldsBy(g, base, F, n) ==
  \A T \in SUBSET (1 .. n) :
    g[T] = IF T = {} THEN base ELSE F[Max(T)][g[T \ {Max(T)}]]

LEMMA FoldExists ==
  ASSUME NEW X, NEW base \in X, NEW n \in Nat, NEW F \in [1 .. n -> [X -> X]]
  PROVE  \E g \in [SUBSET (1 .. n) -> X] : FoldsBy(g, base, F, n)
<1> DEFINE C == {k \in Nat : k <= n =>
                   \E g \in [SUBSET (1 .. k) -> X] : FoldsBy(g, base, F, k)}
<1>1. 0 \in C
  <2>1. ASSUME NEW T \in SUBSET (1 .. 0) PROVE T = {}
    BY SMT
  <2> DEFINE g == [T \in SUBSET (1 .. 0) |-> base]
  <2>2. g \in [SUBSET (1 .. 0) -> X] /\ FoldsBy(g, base, F, 0)
    BY <2>1 DEF FoldsBy
  <2> QED BY <2>2
<1>2. ASSUME NEW k \in Nat, k \in C PROVE k + 1 \in C
  <2>1. SUFFICES ASSUME k + 1 <= n
                 PROVE  \E g \in [SUBSET (1 .. k + 1) -> X] : FoldsBy(g, base, F, k + 1)
    <3>1. k + 1 \in Nat
      OBVIOUS
    <3> QED BY <3>1, Zenon
  <2>2. k <= n /\ k + 1 \in 1 .. n
    BY <2>1
  <2>3. PICK f \in [SUBSET (1 .. k) -> X] : FoldsBy(f, base, F, k)
    BY <1>2, <2>2
  <2> DEFINE g == [T \in SUBSET (1 .. k + 1) |->
                     IF k + 1 \in T THEN F[k + 1][f[T \ {k + 1}]] ELSE f[T]]
  <2>4. ASSUME NEW T \in SUBSET (1 .. k + 1)
        PROVE  T \ {k + 1} \in SUBSET (1 .. k) /\ T \ {k + 1} \in SUBSET (1 .. k + 1)
    <3>1. ASSUME NEW x \in T \ {k + 1} PROVE x \in 1 .. k
      <4>1. x \in 1 .. k + 1 /\ x # k + 1
        BY <3>1
      <4> QED BY <4>1
    <3> QED BY <3>1
  <2>5. F[k + 1] \in [X -> X]
    BY <2>2
  <2>6. g \in [SUBSET (1 .. k + 1) -> X]
    <3>1. ASSUME NEW T \in SUBSET (1 .. k + 1), k + 1 \notin T PROVE T \in SUBSET (1 .. k)
      BY <2>4, <3>1
    <3> QED BY <2>3, <2>4, <2>5, <3>1
  <2>7. ASSUME NEW T \in SUBSET (1 .. k + 1)
        PROVE  g[T] = IF T = {} THEN base ELSE F[Max(T)][g[T \ {Max(T)}]]
    <3>1. CASE k + 1 \in T
      <4>1. Max(T) = k + 1
        BY <3>1, MaxOfPrefix
      <4>2. k + 1 \notin T \ {k + 1}
        OBVIOUS
      <4>3. g[T \ {k + 1}] = f[T \ {k + 1}]
        BY <2>4, <4>2
      <4> QED BY <3>1, <4>1, <4>3
    <3>2. CASE k + 1 \notin T /\ T # {}
      <4>1. T \in SUBSET (1 .. k)
        BY <3>2, <2>4
      <4>2. Max(T) \in T
        BY <3>2, <4>1, MaxIsIn
      <4>3. T \ {Max(T)} \in SUBSET (1 .. k + 1) /\ k + 1 \notin T \ {Max(T)}
        BY <3>2
      <4>4. g[T \ {Max(T)}] = f[T \ {Max(T)}]
        BY <4>3
      <4>5. f[T] = F[Max(T)][f[T \ {Max(T)}]]
        BY <2>3, <3>2, <4>1 DEF FoldsBy
      <4> QED BY <3>2, <4>4, <4>5
    <3>3. CASE T = {}
      <4>1. T \in SUBSET (1 .. k)
        BY <3>3
      <4>2. f[T] = base
        BY <2>3, <3>3, <4>1 DEF FoldsBy
      <4> QED BY <3>3, <4>2
    <3> QED BY <3>1, <3>2, <3>3
  <2>8. FoldsBy(g, base, F, k + 1)
    BY <2>7 DEF FoldsBy
  <2> HIDE DEF g
  <2> QED BY <2>6, <2>8
<1> HIDE DEF C
<1>3. n \in C
  BY <1>1, <1>2, SetInduction
<1>4. n <= n
  OBVIOUS
<1> QED BY <1>3, <1>4 DEF C

(* What a function that folds so is after each element.                    *)
LEMMA FoldSteps ==
  ASSUME NEW n \in Nat, NEW k \in 1 .. n
  PROVE  /\ 1 .. k \in SUBSET (1 .. n) /\ 1 .. k # {} /\ Max(1 .. k) = k
         /\ (1 .. k) \ {k} = 1 .. k - 1
         /\ 1 .. 0 = {} /\ 1 .. 0 \in SUBSET (1 .. n)
<1>1. k - 1 \in Nat /\ k - 1 + 1 = k /\ k \in 1 .. k /\ 1 .. k \in SUBSET (1 .. n)
  BY SMT
<1>2. Max(1 .. k) = k
  BY <1>1, MaxOfPrefix
<1>3. (1 .. k) \ {k} = 1 .. k - 1
  BY SMT
<1>4. 1 .. 0 = {} /\ 1 .. 0 \in SUBSET (1 .. n)
  BY SMT
<1> QED BY <1>1, <1>2, <1>3, <1>4

-----------------------------------------------------------------------------
(* The digits of a number: the function that Digits is defined by exists.  *)

More(g, n) == IF n < Radix THEN 1 ELSE 1 + g[n \div Radix]

(* A number is more than the number without its last digit.                *)
LEMMA ShorterIsLess ==
  ASSUME NEW n \in Nat, ~ n < Radix
  PROVE  n \div Radix \in Nat /\ n \div Radix < n
<1>1. Radix \in Nat /\ Radix >= 2
  BY BudgetAssumption
<1> DEFINE q == n \div Radix
<1>2. q \in Nat /\ q * Radix <= n
  BY <1>1
<1> HIDE DEF q
<1>3. q * 2 <= q * Radix
  BY <1>1, <1>2
<1>4. n >= 2 /\ q * Radix \in Nat
  BY <1>1, <1>2
<1>5. q < n
  BY <1>2, <1>3, <1>4
<1> QED BY <1>2, <1>5 DEF q

Counts(g, n) == \A k \in 0 .. n : g[k] = More(g, k)

LEMMA DigitsUpTo ==
  ASSUME NEW n \in Nat
  PROVE  \E g \in [0 .. n -> Nat] : \A k \in 0 .. n : g[k] = More(g, k) /\ g[k] >= 1
<1> DEFINE good(g, m) == \A k \in 0 .. m : g[k] = More(g, k) /\ g[k] >= 1
           C == {m \in Nat : \E g \in [0 .. m -> Nat] : good(g, m)}
<1>1. Radix \in Nat /\ Radix >= 2
  BY BudgetAssumption
<1>2. 0 \in C
  <2> DEFINE g == [k \in 0 .. 0 |-> 1]
  <2>1. g \in [0 .. 0 -> Nat] /\ good(g, 0)
    BY <1>1 DEF More
  <2> QED BY <2>1
<1>3. ASSUME NEW m \in Nat, m \in C PROVE m + 1 \in C
  <2>1. PICK g \in [0 .. m -> Nat] : good(g, m)
    BY <1>3
  <2> DEFINE h == [k \in 0 .. m + 1 |-> IF k <= m THEN g[k] ELSE More(g, k)]
  <2>2. ASSUME NEW k \in 0 .. m + 1, ~ k < Radix PROVE k \div Radix \in 0 .. m
    BY <2>2, ShorterIsLess
  <2>3. ASSUME NEW k \in 0 .. m + 1
        PROVE  More(h, k) = More(g, k) /\ More(g, k) \in Nat /\ More(g, k) >= 1
    <3>1. CASE k < Radix
      BY <3>1 DEF More
    <3>2. CASE ~ k < Radix
      <4> DEFINE q == k \div Radix
      <4>1. q \in 0 .. m
        BY <2>2, <3>2
      <4> HIDE DEF q
      <4>2. h[q] = g[q] /\ g[q] \in Nat
        BY <4>1
      <4> QED BY <3>2, <4>2 DEF More, q
    <3> QED BY <3>1, <3>2
  <2>4. \A k \in 0 .. m + 1 : h[k] = More(h, k) /\ h[k] \in Nat /\ h[k] >= 1
    <3>1. ASSUME NEW k \in 0 .. m + 1 PROVE h[k] = More(g, k)
      <4>1. CASE k <= m
        BY <2>1, <4>1
      <4>2. CASE ~ k <= m
        BY <4>2
      <4> QED BY <4>1, <4>2
    <3> HIDE DEF h
    <3> QED BY <2>3, <3>1
  <2>5. h \in [0 .. m + 1 -> Nat]
    BY <2>4
  <2> HIDE DEF h
  <2>6. good(h, m + 1)
    BY <2>4
  <2>7. m + 1 \in Nat
    OBVIOUS
  <2> QED BY <2>5, <2>6, <2>7
<1> HIDE DEF C
<1>4. n \in C
  BY <1>2, <1>3, SetInduction
<1> QED BY <1>4 DEF C

LEMMA DigitsAgree ==
  ASSUME NEW m \in Nat, NEW n \in Nat, NEW g, NEW h, Counts(g, m), Counts(h, n)
  PROVE  \A k \in Nat : k <= m /\ k <= n => g[k] = h[k]
<1> DEFINE C == {i \in Nat : \A k \in 0 .. i : k <= m /\ k <= n => g[k] = h[k]}
<1>1. Radix \in Nat /\ Radix >= 2
  BY BudgetAssumption
<1>2. 0 \in C
  <2>1. \A k \in 0 .. 0 : k < Radix /\ k = 0
    BY <1>1
  <2> QED BY <2>1 DEF More, Counts
<1>3. ASSUME NEW i \in Nat, i \in C PROVE i + 1 \in C
  <2>1. SUFFICES ASSUME NEW k \in 0 .. i + 1, k <= m, k <= n PROVE g[k] = h[k]
    OBVIOUS
  <2>2. g[k] = More(g, k) /\ h[k] = More(h, k)
    BY <2>1 DEF Counts
  <2>3. CASE k < Radix
    BY <2>2, <2>3 DEF More
  <2>4. CASE ~ k < Radix
    <3>1. k \div Radix \in Nat /\ k \div Radix < k
      BY <2>4, ShorterIsLess
    <3> DEFINE q == k \div Radix
    <3> HIDE DEF q
    <3>2. q \in 0 .. i /\ q <= m /\ q <= n
      BY <2>1, <3>1 DEF q
    <3>3. g[q] = h[q]
      BY <1>3, <3>2
    <3> QED BY <2>2, <2>4, <3>3 DEF More, q
  <2> QED BY <2>3, <2>4
<1> HIDE DEF C
<1>4. ASSUME NEW k \in Nat, k <= m, k <= n PROVE g[k] = h[k]
  <2>1. k \in C
    BY <1>2, <1>3, SetInduction
  <2> QED BY <1>4, <2>1 DEF C
<1> QED BY <1>4

LEMMA DigitsExist == \E g : g = [n \in Nat |-> More(g, n)]
<1> DEFINE upTo(n, g) == g \in [0 .. n -> Nat] /\ \A k \in 0 .. n : g[k] = More(g, k) /\ g[k] >= 1
           at(n) == CHOOSE g : upTo(n, g)
           all == [n \in Nat |-> at(n)[n]]
<1>1. \A n \in Nat : upTo(n, at(n))
  <2>1. \A n \in Nat : \E g : upTo(n, g)
    BY DigitsUpTo
  <2> QED BY <2>1
<1> HIDE DEF at
<1>2. ASSUME NEW n \in Nat PROVE all[n] = More(all, n)
  <2>1. all[n] = More(at(n), n)
    BY <1>1
  <2>2. CASE n < Radix
    BY <2>1, <2>2 DEF More
  <2>3. CASE ~ n < Radix
    <3> DEFINE q == n \div Radix
    <3>1. q \in Nat /\ q < n
      BY <2>3, ShorterIsLess
    <3> HIDE DEF q
    <3>2. at(n)[q] = at(q)[q]
      <4>1. Counts(at(n), n) /\ Counts(at(q), q)
        BY <1>1, <3>1 DEF Counts
      <4>2. q <= n /\ q <= q
        BY <3>1
      <4> HIDE DEF upTo
      <4> QED BY <3>1, <4>1, <4>2, DigitsAgree
    <3>3. all[q] = at(n)[q]
      BY <3>1, <3>2
    <3> HIDE DEF all
    <3> QED BY <2>1, <2>3, <3>3 DEF More, q
  <2> QED BY <2>2, <2>3
<1>3. all = [n \in Nat |-> all[n]]
  OBVIOUS
<1> HIDE DEF all
<1>4. all = [n \in Nat |-> More(all, n)]
  BY <1>2, <1>3
<1> QED BY <1>4

LEMMA DigitsAre ==
  ASSUME NEW n \in Nat
  PROVE  Digits[n] = IF n < Radix THEN 1 ELSE 1 + Digits[n \div Radix]
<1>1. Digits = CHOOSE g : g = [k \in Nat |-> More(g, k)]
  BY DEF Digits, More
<1>2. Digits = [k \in Nat |-> More(Digits, k)]
  BY <1>1, DigitsExist
<1>3. Digits[n] = More(Digits, n)
  BY <1>2
<1> QED BY <1>3 DEF More

LEMMA DigitsAreSome ==
  ASSUME NEW n \in Nat
  PROVE  Digits[n] \in Nat /\ Digits[n] >= 1
<1> DEFINE C == {i \in Nat : \A k \in 0 .. i : Digits[k] \in Nat /\ Digits[k] >= 1}
<1>1. Radix \in Nat /\ Radix >= 2
  BY BudgetAssumption
<1>2. 0 \in C
  <2>1. Digits[0] = 1
    BY <1>1, DigitsAre
  <2> QED BY <2>1
<1>3. ASSUME NEW i \in Nat, i \in C PROVE i + 1 \in C
  <2>1. SUFFICES ASSUME NEW k \in 0 .. i + 1 PROVE Digits[k] \in Nat /\ Digits[k] >= 1
    OBVIOUS
  <2>2. CASE k < Radix
    BY <2>2, DigitsAre
  <2>3. CASE ~ k < Radix
    <3> DEFINE q == k \div Radix
    <3>1. q \in Nat /\ q < k /\ Digits[k] = 1 + Digits[q]
      BY <2>3, ShorterIsLess, DigitsAre
    <3> HIDE DEF q
    <3>2. Digits[q] \in Nat
      BY <1>3, <3>1
    <3> QED BY <3>1, <3>2
  <2> QED BY <2>2, <2>3
<1> HIDE DEF C
<1>4. n \in C
  BY <1>2, <1>3, SetInduction
<1> QED BY <1>4 DEF C

LEMMA Division ==
  ASSUME NEW a \in Nat, NEW n \in Nat, n > 0
  PROVE  /\ a \div n \in Nat
         /\ (a \div n) * n <= a /\ a - (a \div n) * n < n
         /\ \A m \in Nat : m * n <= a => m <= a \div n
<1> DEFINE q == a \div n
<1>1. q \in Nat /\ q * n <= a /\ a < q * n + n
  OBVIOUS
<1> HIDE DEF q
<1>2. ASSUME NEW m \in Nat, m * n <= a, m > q PROVE FALSE
  <2>1. PICK d \in Nat : m = q + 1 + d
    <3>1. m - q - 1 \in Nat /\ m = q + 1 + (m - q - 1)
      BY <1>1, <1>2
    <3> QED BY <3>1
  <2>2. m * n = q * n + n + d * n
    BY <2>1, <1>1
  <2>3. d * n >= 0 /\ d * n \in Int /\ q * n \in Int
    BY <1>1
  <2> QED BY <1>1, <1>2, <2>2, <2>3
<1>3. q * n \in Nat
  BY <1>1
<1>4. a - q * n < n
  BY <1>1, <1>3
<1>5. \A m \in Nat : m * n <= a => m <= q
  BY <1>1, <1>2
<1> QED BY <1>1, <1>4, <1>5 DEF q

(* A larger number has no fewer digits.                                    *)
LEMMA DigitsGrow ==
  ASSUME NEW n \in Nat, NEW m \in Nat, m <= n
  PROVE  Digits[m] <= Digits[n]
<1> DEFINE C == {i \in Nat : \A k \in 0 .. i : \A j \in 0 .. k : Digits[j] <= Digits[k]}
<1>1. Radix \in Nat /\ Radix > 0
  BY BudgetAssumption
<1>2. 0 \in C
  <2>1. Digits[0] \in Nat
    BY DigitsAreSome
  <2>2. \A k \in 0 .. 0 : \A j \in 0 .. k : k = 0 /\ j = 0
    OBVIOUS
  <2> QED BY <2>1, <2>2
<1>3. ASSUME NEW i \in Nat, i \in C PROVE i + 1 \in C
  <2>1. SUFFICES ASSUME NEW k \in 0 .. i + 1, NEW j \in 0 .. k PROVE Digits[j] <= Digits[k]
    OBVIOUS
  <2>2. k \in Nat /\ j \in Nat /\ j <= k
    OBVIOUS
  <2>3. /\ Digits[j] \in Nat /\ Digits[k] \in Nat /\ Digits[k] >= 1
        /\ Digits[j] = (IF j < Radix THEN 1 ELSE 1 + Digits[j \div Radix])
        /\ Digits[k] = (IF k < Radix THEN 1 ELSE 1 + Digits[k \div Radix])
    BY <2>2, DigitsAreSome, DigitsAre
  <2>4. CASE j < Radix
    BY <2>3, <2>4
  <2>5. CASE ~ j < Radix
    <3>1. ~ k < Radix
      BY <1>1, <2>2, <2>5
    <3> DEFINE p == j \div Radix
               q == k \div Radix
    <3>2. p \in Nat /\ p * Radix <= j /\ q \in Nat /\ q < k
          /\ \A x \in Nat : x * Radix <= k => x <= q
      BY <1>1, <2>2, <3>1, Division, ShorterIsLess
    <3>3. Digits[j] = 1 + Digits[p] /\ Digits[k] = 1 + Digits[q]
      BY <2>3, <2>5, <3>1
    <3> HIDE DEF p, q
    <3>4. p * Radix <= k
      <4>1. p * Radix \in Nat
        BY <1>1, <3>2
      <4> QED BY <2>2, <3>2, <4>1
    <3>5. p <= q
      BY <3>2, <3>4
    <3>6. q \in 0 .. i /\ p \in 0 .. q
      BY <2>2, <3>2, <3>5
    <3>7. Digits[p] <= Digits[q]
      BY <1>3, <3>6
    <3>8. Digits[p] \in Nat /\ Digits[q] \in Nat
      BY <3>2, DigitsAreSome
    <3> QED BY <3>3, <3>7, <3>8
  <2> QED BY <2>4, <2>5
<1> HIDE DEF C
<1>4. n \in C
  BY <1>2, <1>3, SetInduction
<1> QED BY <1>4 DEF C

(* Twice a number has at most one digit more.                              *)
LEMMA DigitsOfTwice ==
  ASSUME NEW n \in Nat, n >= 1, NEW m \in Nat, m <= 2 * n
  PROVE  Digits[m] <= Digits[n] + 1
<1>1. Radix \in Nat /\ Radix >= 2 /\ Radix > 0
  BY BudgetAssumption
<1> DEFINE k == n * Radix
           q == k \div Radix
<1>2. k \in Nat /\ 2 * n <= k /\ Radix <= k
  BY <1>1
<1>3. q = n
  <2> HIDE DEF k
  <2>1. q \in Nat /\ q * Radix <= k /\ \A x \in Nat : x * Radix <= k => x <= q
    BY <1>1, <1>2, Division
  <2> HIDE DEF q
  <2>2. n <= q
    <3>1. n * Radix <= k
      BY <1>2 DEF k
    <3> QED BY <2>1, <3>1
  <2>3. ASSUME q > n PROVE FALSE
    <3>1. q >= n + 1 /\ q * Radix >= (n + 1) * Radix
      BY <1>1, <2>1, <2>3
    <3>2. (n + 1) * Radix = k + Radix /\ q * Radix \in Nat
      BY <1>1, <2>1 DEF k
    <3> QED BY <1>1, <1>2, <2>1, <3>1, <3>2
  <2> QED BY <2>1, <2>2, <2>3
<1>4. Digits[k] = 1 + Digits[n]
  <2> HIDE DEF k
  <2>1. ~ k < Radix
    BY <1>1, <1>2
  <2> QED BY <1>2, <1>3, <2>1, DigitsAre
<1> HIDE DEF k
<1>5. Digits[m] <= Digits[k]
  BY <1>2, DigitsGrow
<1> QED BY <1>4, <1>5, DigitsAreSome

(* A number has no more digits than it counts.                             *)
LEMMA DigitsAreFew ==
  ASSUME NEW n \in Nat, n >= 1
  PROVE  Digits[n] <= n
<1> DEFINE C == {i \in Nat : \A k \in 1 .. i : Digits[k] <= k}
<1>1. Radix \in Nat /\ Radix > 0
  BY BudgetAssumption
<1>2. 0 \in C
  OBVIOUS
<1>3. ASSUME NEW i \in Nat, i \in C PROVE i + 1 \in C
  <2>1. SUFFICES ASSUME NEW k \in 1 .. i + 1 PROVE Digits[k] <= k
    OBVIOUS
  <2>2. k \in Nat /\ k >= 1 /\ k <= i + 1
    OBVIOUS
  <2>3. Digits[k] = IF k < Radix THEN 1 ELSE 1 + Digits[k \div Radix]
    BY <2>2, DigitsAre
  <2>4. CASE k < Radix
    BY <2>2, <2>3, <2>4
  <2>5. CASE ~ k < Radix
    <3> DEFINE q == k \div Radix
    <3>1. q \in Nat /\ q < k /\ \A x \in Nat : x * Radix <= k => x <= q
      BY <1>1, <2>2, <2>5, Division, ShorterIsLess
    <3> HIDE DEF q
    <3>2. 1 <= q
      <4>1. 1 * Radix <= k
        BY <1>1, <2>2, <2>5
      <4> QED BY <3>1, <4>1
    <3>3. q \in 1 .. i
      BY <2>2, <3>1, <3>2
    <3>4. Digits[q] <= q /\ Digits[q] \in Nat
      BY <1>3, <3>1, <3>3, DigitsAreSome
    <3> QED BY <2>2, <2>3, <2>5, <3>1, <3>4 DEF q
  <2> QED BY <2>4, <2>5
<1> HIDE DEF C
<1>4. n \in C
  BY <1>2, <1>3, SetInduction
<1>5. n \in 1 .. n
  OBVIOUS
<1> QED BY <1>4, <1>5 DEF C

LEMMA DigitsOfNext ==
  ASSUME NEW n \in Nat
  PROVE  Digits[n + 1] <= Digits[n] + 1
<1>1. CASE n >= 1
  <2>1. n + 1 <= 2 * n /\ n + 1 \in Nat
    BY <1>1
  <2> QED BY <1>1, <2>1, DigitsOfTwice
<1>2. CASE n = 0
  <2>1. 1 < Radix
    BY BudgetAssumption
  <2>2. Digits[1] = 1
    BY <2>1, DigitsAre
  <2> QED BY <1>2, <2>2, DigitsAreSome
<1> QED BY <1>1, <1>2

-----------------------------------------------------------------------------
(* _cut_from_record_chars: the fourth number is right, and stays.          *)

FoldsLengths(g, b) ==
  g = [T \in SUBSET (1 .. 12) |-> IF T = {} THEN 0 ELSE b + Digits[g[T \ {Max(T)}]]]

FinalLength(b) == (CHOOSE g : FoldsLengths(g, b))[1 .. 12]

LEMMA LengthIsFinal ==
  ASSUME NEW chars, NEW included, NEW omitted
  PROVE  DocumentLength(chars, included, omitted) = FinalLength(Counted(chars, included, omitted))
BY DEF DocumentLength, LengthIf, FinalLength, FoldLeft, MapThenFoldSet, FoldsLengths

Fourth(b) == b + Digits[b + Digits[b + Digits[b + 1]]]

LEMMA FourthIsRight ==
  ASSUME NEW b \in Nat, b >= 1
  PROVE  Fourth(b) \in Nat /\ b <= Fourth(b) /\ Fourth(b) = b + Digits[Fourth(b)]
<1> DEFINE d1 == Digits[b + 1]
           d2 == Digits[b + d1]
           d3 == Digits[b + d2]
           d4 == Digits[b + d3]
<1>1. b + 1 \in Nat /\ b + 1 >= 1 /\ d1 \in Nat /\ d1 >= 1 /\ d1 <= b + 1
  BY DigitsAreSome, DigitsAreFew
<1> HIDE DEF d1
<1>2. b + d1 \in Nat /\ b + 1 <= b + d1 /\ b + d1 <= 2 * (b + 1)
  BY <1>1
<1>3. d1 <= d2 /\ d2 <= d1 + 1 /\ d2 \in Nat
  <2>1. Digits[b + 1] <= Digits[b + d1]
    BY <1>1, <1>2, DigitsGrow
  <2>2. Digits[b + d1] <= Digits[b + 1] + 1
    BY <1>1, <1>2, DigitsOfTwice
  <2>3. Digits[b + d1] \in Nat
    BY <1>2, DigitsAreSome
  <2> QED BY <2>1, <2>2, <2>3 DEF d1
<1> HIDE DEF d2
<1>4. b + d2 \in Nat /\ b + d1 <= b + d2 /\ b + d2 <= 2 * (b + 1)
  BY <1>1, <1>3
<1>5. d2 <= d3 /\ d3 <= d1 + 1 /\ d3 \in Nat
  <2>1. Digits[b + d1] <= Digits[b + d2]
    BY <1>2, <1>4, DigitsGrow
  <2>2. Digits[b + d2] <= Digits[b + 1] + 1
    BY <1>1, <1>4, DigitsOfTwice
  <2>3. Digits[b + d2] \in Nat
    BY <1>4, DigitsAreSome
  <2> QED BY <2>1, <2>2, <2>3 DEF d1, d2
<1> HIDE DEF d3
<1>6. b + d3 \in Nat /\ b + d2 <= b + d3 /\ b + d3 <= 2 * (b + 1)
  BY <1>1, <1>3, <1>5
<1>7. d3 <= d4 /\ d4 <= d1 + 1 /\ d4 \in Nat
  <2>1. Digits[b + d2] <= Digits[b + d3]
    BY <1>4, <1>6, DigitsGrow
  <2>2. Digits[b + d3] <= Digits[b + 1] + 1
    BY <1>1, <1>6, DigitsOfTwice
  <2>3. Digits[b + d3] \in Nat
    BY <1>6, DigitsAreSome
  <2> QED BY <2>1, <2>2, <2>3 DEF d1, d3
<1> HIDE DEF d4
<1>8. d4 = d3
  <2>1. CASE d2 = d1
    <3>1. d3 = d2
      BY <2>1 DEF d2, d3
    <3> QED BY <3>1 DEF d3, d4
  <2>2. CASE d2 = d1 + 1
    <3>1. d3 = d2
      BY <1>1, <1>3, <1>5, <2>2
    <3> QED BY <3>1 DEF d3, d4
  <2> QED BY <1>1, <1>3, <2>1, <2>2
<1>9. Fourth(b) = b + d3
  BY DEF Fourth, d1, d2, d3
<1> QED BY <1>1, <1>5, <1>6, <1>8, <1>9 DEF d4

LEMMA FourthGrows ==
  ASSUME NEW a \in Nat, NEW b \in Nat, a <= b
  PROVE  Fourth(a) <= Fourth(b)
<1>1. \A m, n \in Nat : m <= n => Digits[m] \in Nat /\ Digits[n] \in Nat /\ Digits[m] <= Digits[n]
  BY DigitsGrow, DigitsAreSome
<1>2. \A m, n \in Nat : m <= n =>
         a + Digits[m] \in Nat /\ b + Digits[n] \in Nat /\ a + Digits[m] <= b + Digits[n]
  <2>1. ASSUME NEW m \in Nat, NEW n \in Nat, m <= n
        PROVE a + Digits[m] \in Nat /\ b + Digits[n] \in Nat /\ a + Digits[m] <= b + Digits[n]
    <3>1. Digits[m] \in Nat /\ Digits[n] \in Nat /\ Digits[m] <= Digits[n]
      BY <1>1, <2>1
    <3> QED BY <3>1
  <2> QED BY <2>1
<1>3. a + 1 \in Nat /\ b + 1 \in Nat /\ a + 1 <= b + 1
  OBVIOUS
<1> DEFINE x1 == a + Digits[a + 1]
           y1 == b + Digits[b + 1]
           x2 == a + Digits[x1]
           y2 == b + Digits[y1]
<1>4. x1 \in Nat /\ y1 \in Nat /\ x1 <= y1
  BY <1>2, <1>3
<1> HIDE DEF x1, y1
<1>5. x2 \in Nat /\ y2 \in Nat /\ x2 <= y2
  BY <1>2, <1>4
<1> HIDE DEF x2, y2
<1>6. a + Digits[x2] <= b + Digits[y2]
  BY <1>2, <1>5
<1> QED BY <1>6 DEF Fourth, x1, y1, x2, y2

LEMMA FinalIsFourth ==
  ASSUME NEW b \in Nat, b >= 1
  PROVE  FinalLength(b) = Fourth(b)
<1> DEFINE F == [k \in 1 .. 12 |-> [u \in Nat |-> b + Digits[u]]]
           g == CHOOSE h : FoldsLengths(h, b)
           at(k) == g[1 .. k]
<1>1. \A u \in Nat : b + Digits[u] \in Nat
  BY DigitsAreSome
<1>2. F \in [1 .. 12 -> [Nat -> Nat]]
  BY <1>1
<1>3. FoldsLengths(g, b)
  <2>1. 0 \in Nat /\ 12 \in Nat
    OBVIOUS
  <2>2. PICK h \in [SUBSET (1 .. 12) -> Nat] : FoldsBy(h, 0, F, 12)
    <3> HIDE DEF F
    <3> QED BY <1>2, <2>1, FoldExists
  <2>3. ASSUME NEW T \in SUBSET (1 .. 12), T # {}
        PROVE  h[T] = b + Digits[h[T \ {Max(T)}]]
    <3>1. Max(T) \in 1 .. 12
      BY <2>1, <2>3, MaxIsIn
    <3>2. T \ {Max(T)} \in SUBSET (1 .. 12)
      OBVIOUS
    <3>3. h[T \ {Max(T)}] \in Nat
      BY <2>2, <3>2
    <3> QED BY <2>2, <2>3, <3>1, <3>3 DEF FoldsBy
  <2>4. \A T \in SUBSET (1 .. 12) :
          h[T] = IF T = {} THEN 0 ELSE b + Digits[h[T \ {Max(T)}]]
    BY <2>2, <2>3 DEF FoldsBy
  <2>5. h = [T \in SUBSET (1 .. 12) |-> h[T]]
    BY <2>2
  <2>6. FoldsLengths(h, b)
    BY <2>4, <2>5 DEF FoldsLengths
  <2> QED BY <2>6
<1> HIDE DEF g, F
<1>4. at(0) = 0
  <2>1. 1 .. 0 = {} /\ 1 .. 0 \in SUBSET (1 .. 12)
    BY SMT
  <2> QED BY <1>3, <2>1 DEF FoldsLengths
<1>5. \A k \in 1 .. 12 : at(k) = b + Digits[at(k - 1)]
  <2>1. SUFFICES ASSUME NEW k \in 1 .. 12 PROVE at(k) = b + Digits[at(k - 1)]
    OBVIOUS
  <2>2. 12 \in Nat
    OBVIOUS
  <2>3. /\ 1 .. k \in SUBSET (1 .. 12) /\ 1 .. k # {} /\ Max(1 .. k) = k
        /\ (1 .. k) \ {k} = 1 .. k - 1
    BY <2>2, FoldSteps
  <2> QED BY <1>3, <2>3 DEF FoldsLengths
<1> HIDE DEF at
<1>6. at(4) = Fourth(b)
  <2>1. Digits[0] = 1
    <3>1. 0 < Radix
      BY BudgetAssumption
    <3> QED BY <3>1, DigitsAre
  <2>2. at(1) = b + 1
    BY <1>4, <1>5, <2>1
  <2>3. at(2) = b + Digits[b + 1]
    BY <1>5, <2>2
  <2>4. at(3) = b + Digits[b + Digits[b + 1]]
    BY <1>5, <2>3
  <2> QED BY <1>5, <2>4 DEF Fourth
<1> DEFINE C == {k \in Nat : k <= 8 => at(4 + k) = Fourth(b)}
<1>7. 0 \in C
  BY <1>6
<1>8. ASSUME NEW k \in Nat, k \in C PROVE k + 1 \in C
  <2>1. SUFFICES ASSUME k + 1 <= 8 PROVE at(4 + (k + 1)) = Fourth(b)
    BY <1>8
  <2>2. at(4 + k) = Fourth(b) /\ 4 + (k + 1) \in 1 .. 12 /\ 4 + (k + 1) - 1 = 4 + k
    BY <1>8, <2>1
  <2>3. at(4 + (k + 1)) = b + Digits[at(4 + k)]
    BY <1>5, <2>2
  <2> QED BY <2>2, <2>3, FourthIsRight
<1> HIDE DEF C
<1>9. 8 \in C
  BY <1>7, <1>8, SetInduction
<1>10. at(12) = Fourth(b)
  BY <1>9 DEF C
<1> QED BY <1>10 DEF at, g, FinalLength

(* What is counted is something, and settles.                              *)
LEMMA LengthSettles ==
  ASSUME NEW chars \in Nat, NEW included \in Nat, NEW omitted \in Nat
  PROVE  /\ Counted(chars, included, omitted) \in Nat
         /\ DocumentLength(chars, included, omitted) = Fourth(Counted(chars, included, omitted))
         /\ DocumentLength(chars, included, omitted) \in Nat
         /\ Converges(chars, included, omitted)
<1> DEFINE b == Counted(chars, included, omitted)
<1>1. b \in Nat /\ b >= 1
  <2>1. /\ CutChars \in Nat /\ Digits[included] \in Nat /\ Digits[omitted] \in Nat
        /\ Truth(omitted) \in Nat /\ Truth(omitted) >= 1
    BY BudgetAssumption, DigitsAreSome DEF Truth
  <2> QED BY <2>1 DEF Counted
<1> HIDE DEF b
<1>2. DocumentLength(chars, included, omitted) = Fourth(b)
  BY <1>1, LengthIsFinal, FinalIsFourth DEF b
<1>3. Fourth(b) \in Nat /\ Fourth(b) = b + Digits[Fourth(b)]
  BY <1>1, FourthIsRight
<1>4. Converges(chars, included, omitted)
  BY <1>2, <1>3 DEF Converges, LengthIf, b
<1> QED BY <1>1, <1>2, <1>3, <1>4 DEF b

-----------------------------------------------------------------------------
(* What is told, and what would still fit.                                 *)

LEMMA CandidatesAreFinite ==
  ASSUME NEW e, IsEvidence(e)
  PROVE  IsFiniteSet(Candidates(e))
<1> DEFINE n == Len(e.details)
           f == [i \in 1 .. n |-> e.details[i].cell]
<1>1. n \in Nat /\ DOMAIN e.details = 1 .. n
  BY DEF IsEvidence
<1>2. f \in Surjection(1 .. n, Candidates(e))
  BY <1>1 DEF Surjection, Candidates
<1> HIDE DEF f, n
<1>3. IsFiniteSet(1 .. n)
  <2>1. 1 \in Int /\ n \in Int
    BY <1>1
  <2> QED BY <2>1, FS_Interval
<1> QED BY <1>2, <1>3, FS_Surjection

(* A record of one cell, told before or not, makes the document longer:    *)
(* what the smaller counts save is no more than a record has.              *)
LEMMA OneMoreCounts ==
  ASSUME NEW e, IsFiniteSet(Candidates(e)), NEW told, IsFiniteSet(told), NEW x,
         NEW chars \in Nat, NEW more \in Nat \ {0}
  PROVE  Counted(chars, Cardinality(told), Omitted(e, told))
           <= Counted(chars + more, Cardinality(told \cup {x}), Omitted(e, told \cup {x}))
<1> DEFINE rest == Candidates(e) \ told
           i == Cardinality(told)
           j == Cardinality(told \cup {x})
           o == Omitted(e, told)
           p == Omitted(e, told \cup {x})
<1>1. IsFiniteSet(rest) /\ IsFiniteSet(told \cup {x})
  BY FS_Difference, FS_AddElement
<1>2. i \in Nat /\ j \in Nat /\ i <= j
  <2>1. i \in Nat
    BY FS_CardinalityType
  <2>2. j = IF x \in told THEN i ELSE i + 1
    BY FS_AddElement
  <2> HIDE DEF i, j
  <2> QED BY <2>1, <2>2
<1>3. Candidates(e) \ (told \cup {x}) = rest \ {x}
  OBVIOUS
<1>4. o \in Nat /\ p \in Nat /\ (p = o \/ p + 1 = o)
  <2>1. o = Cardinality(rest) /\ p = Cardinality(rest \ {x})
    BY <1>3 DEF Omitted
  <2> HIDE DEF rest
  <2>2. IsFiniteSet(rest \ {x}) /\ Cardinality(rest \ {x}) =
           IF x \in rest THEN Cardinality(rest) - 1 ELSE Cardinality(rest)
    BY <1>1, FS_RemoveElement
  <2>3. Cardinality(rest) \in Nat /\ Cardinality(rest \ {x}) \in Nat
    BY <1>1, <2>2, FS_CardinalityType
  <2> HIDE DEF o, p
  <2> QED BY <2>1, <2>2, <2>3
<1> HIDE DEF i, j, o, p
<1>5. Digits[i] \in Nat /\ Digits[j] \in Nat /\ Digits[i] <= Digits[j]
  BY <1>2, DigitsAreSome, DigitsGrow
<1>6. Digits[o] \in Nat /\ Digits[p] \in Nat /\ Digits[o] <= Digits[p] + 1
  BY <1>4, DigitsAreSome, DigitsOfNext
<1>7. Truth(o) \in Nat /\ Truth(p) \in Nat /\ Truth(o) <= Truth(p)
  BY <1>4 DEF Truth
<1>8. CutChars \in Nat
  BY BudgetAssumption
<1>9. Counted(chars, i, o) <= Counted(chars + more, j, p)
  <2> DEFINE di == Digits[i]
             dj == Digits[j]
             do == Digits[o]
             dp == Digits[p]
             to == Truth(o)
             tp == Truth(p)
  <2>1. di \in Nat /\ dj \in Nat /\ do \in Nat /\ dp \in Nat /\ to \in Nat /\ tp \in Nat
    BY <1>5, <1>6, <1>7
  <2>2. di <= dj /\ do <= dp + 1 /\ to <= tp
    BY <1>5, <1>6, <1>7
  <2>3. Counted(chars, i, o) = chars + CutChars + di + do + to
    BY DEF Counted
  <2>4. Counted(chars + more, j, p) = chars + more + CutChars + dj + dp + tp
    BY DEF Counted
  <2> HIDE DEF di, dj, do, dp, to, tp
  <2> QED BY <1>8, <2>1, <2>2, <2>3, <2>4
<1> QED BY <1>9 DEF i, j, o, p

Docs(U) == {d \in [chars : Nat, told : SUBSET U] : IsFiniteSet(d.told)}

LEMMA CountsAreNat ==
  ASSUME NEW e, IsEvidence(e), NEW told, IsFiniteSet(told)
  PROVE  Cardinality(told) \in Nat /\ Omitted(e, told) \in Nat
<1>1. IsFiniteSet(Candidates(e) \ told)
  BY CandidatesAreFinite, FS_Difference
<1> QED BY <1>1, FS_CardinalityType DEF Omitted

(* What does not fit never fits again.                                     *)
LEMMA NeverFitsAgain ==
  ASSUME NEW e, IsEvidence(e), NEW budget \in Nat, NEW U, NEW doc \in Docs(U),
         NEW chars \in Nat, NEW y, ~Fits(e, budget, doc, chars, {y}),
         NEW more \in Nat \ {0}, NEW x \in U
  PROVE  ~Fits(e, budget, [chars |-> doc.chars + more, told |-> doc.told \cup {x}], chars, {y})
<1> DEFINE next == [chars |-> doc.chars + more, told |-> doc.told \cup {x}]
           told == doc.told \cup {y}
           c == doc.chars + chars
           before == Counted(c, Cardinality(told), Omitted(e, told))
           after == Counted(c + more, Cardinality(told \cup {x}), Omitted(e, told \cup {x}))
<1>1. doc.chars \in Nat /\ IsFiniteSet(doc.told) /\ c \in Nat
  BY DEF Docs
<1>2. IsFiniteSet(told) /\ IsFiniteSet(told \cup {x})
  BY <1>1, FS_AddElement
<1>3. next.told \cup {y} = told \cup {x} /\ next.chars + chars = c + more
  BY <1>1
<1> HIDE DEF told, c
<1>4. before <= after
  BY <1>1, <1>2, CandidatesAreFinite, OneMoreCounts
<1>5. /\ before \in Nat
      /\ DocumentLength(c, Cardinality(told), Omitted(e, told)) = Fourth(before)
      /\ DocumentLength(c, Cardinality(told), Omitted(e, told)) \in Nat
  BY <1>1, <1>2, CountsAreNat, LengthSettles
<1>6. /\ after \in Nat
      /\ DocumentLength(c + more, Cardinality(told \cup {x}), Omitted(e, told \cup {x})) = Fourth(after)
      /\ DocumentLength(c + more, Cardinality(told \cup {x}), Omitted(e, told \cup {x})) \in Nat
  <2>1. c + more \in Nat
    BY <1>1
  <2> QED BY <1>2, <2>1, CountsAreNat, LengthSettles
<1> HIDE DEF before, after
<1>7. Fourth(before) <= Fourth(after)
  BY <1>4, <1>5, <1>6, FourthGrows
<1>8. ~ Fourth(before) <= budget
  BY <1>5 DEF Fits, told, c
<1>9. ~ Fourth(after) <= budget
  BY <1>5, <1>6, <1>7, <1>8
<1>10. Fits(e, budget, next, chars, {y}) <=> Fourth(after) <= budget
  BY <1>3, <1>6 DEF Fits
<1> QED BY <1>9, <1>10

Fitting(e, U, budget) == {d \in Docs(U) : Used(e, d) <= budget}

LEMMA TellKeepsFitting ==
  ASSUME NEW e, NEW U, NEW budget \in Nat, NEW doc \in Fitting(e, U, budget),
         NEW chars \in Nat, NEW cells \in SUBSET U, IsFiniteSet(cells)
  PROVE  Tell(e, budget, doc, chars, cells) \in Fitting(e, U, budget)
<1>1. doc \in Docs(U) /\ doc.chars \in Nat /\ doc.told \in SUBSET U /\ IsFiniteSet(doc.told)
  BY DEF Fitting, Docs
<1>2. CASE ~Fits(e, budget, doc, chars, cells)
  BY <1>2 DEF Tell
<1>3. CASE Fits(e, budget, doc, chars, cells)
  <2> DEFINE told == doc.told \cup cells
             next == [chars |-> doc.chars + chars, told |-> told]
  <2>1. Tell(e, budget, doc, chars, cells) = next
    BY <1>3 DEF Tell
  <2>2. IsFiniteSet(told)
    BY <1>1, FS_Union
  <2>3. next \in Docs(U)
    <3>1. told \in SUBSET U /\ doc.chars + chars \in Nat
      BY <1>1
    <3> HIDE DEF told
    <3> QED BY <2>2, <3>1 DEF Docs
  <2>4. Used(e, next) <= budget
    BY <1>3 DEF Used, Fits
  <2> QED BY <2>1, <2>3, <2>4 DEF Fitting
<1> QED BY <1>2, <1>3

-----------------------------------------------------------------------------
(* The folds of build_context, one element at a time.                      *)

LEMMA StaysIn ==
  ASSUME NEW n \in Nat, NEW a, NEW X, a[0] \in X,
         \A k \in 1 .. n : a[k - 1] \in X => a[k] \in X
  PROVE  \A k \in 0 .. n : a[k] \in X
<1> DEFINE C == {k \in Nat : k <= n => a[k] \in X}
<1>1. 0 \in C
  OBVIOUS
<1>2. ASSUME NEW k \in Nat, k \in C PROVE k + 1 \in C
  <2>1. SUFFICES ASSUME k + 1 <= n PROVE a[k + 1] \in X
    OBVIOUS
  <2>2. k + 1 \in 1 .. n /\ k + 1 - 1 = k /\ a[k] \in X
    BY <1>2, <2>1
  <2> QED BY <2>2
<1> HIDE DEF C
<1>3. Nat \subseteq C
  BY <1>1, <1>2, SetInduction
<1> QED BY <1>3 DEF C

(* The set a fold ends with, over the elements of a sequence.              *)
LEMMA FoldEnds ==
  ASSUME NEW R, NEW s \in Seq(R)
  PROVE  /\ Len(s) \in Nat /\ DOMAIN s = 1 .. Len(s)
         /\ \A k \in 1 .. Len(s) : s[k] \in R
  OBVIOUS

FoldsCompact(g, refs) ==
  g = [T \in SUBSET DOMAIN refs |->
         IF T = {} THEN <<>> ELSE Compacted(g[T \ {Max(T)}], refs[Max(T)])]

LEMMA CompactIsChosen ==
  ASSUME NEW refs
  PROVE  CompactRanges(refs) = (CHOOSE g : FoldsCompact(g, refs))[DOMAIN refs]
  BY DEF CompactRanges, FoldLeft, MapThenFoldSet, FoldsCompact

(* The compact ranges are ranges that were given.                          *)
LEMMA CompactAreRanges ==
  ASSUME NEW refs, IsRanges(refs)
  PROVE  CompactRanges(refs) \in Seq(Range(refs))
<1> DEFINE R == Range(refs)
           X == Seq(R)
           n == Len(refs)
           F == [k \in 1 .. n |-> [s \in X |-> Compacted(s, refs[k])]]
           g == CHOOSE h : FoldsCompact(h, refs)
           a == [k \in 0 .. n |-> g[1 .. k]]
<1>1. n \in Nat /\ DOMAIN refs = 1 .. n /\ \A k \in 1 .. n : refs[k] \in R
  BY FoldEnds DEF IsRanges
<1>2. <<>> \in X
  OBVIOUS
<1>3. ASSUME NEW s \in X, NEW r \in R PROVE Compacted(s, r) \in X
  BY <1>3 DEF Compacted
<1> HIDE DEF n, R, X
<1>4. F \in [1 .. n -> [X -> X]]
  BY <1>1, <1>3
<1>5. FoldsCompact(g, refs)
  <2>1. PICK h \in [SUBSET (1 .. n) -> X] : FoldsBy(h, <<>>, F, n)
    <3> HIDE DEF F
    <3> QED BY <1>1, <1>2, <1>4, FoldExists
  <2>2. ASSUME NEW T \in SUBSET (1 .. n), T # {}
        PROVE  h[T] = Compacted(h[T \ {Max(T)}], refs[Max(T)])
    <3>1. Max(T) \in 1 .. n
      BY <1>1, <2>2, MaxIsIn
    <3>2. T \ {Max(T)} \in SUBSET (1 .. n)
      OBVIOUS
    <3>3. h[T \ {Max(T)}] \in X
      BY <2>1, <3>2
    <3> QED BY <2>1, <2>2, <3>1, <3>3 DEF FoldsBy
  <2>3. \A T \in SUBSET (1 .. n) :
          h[T] = IF T = {} THEN <<>> ELSE Compacted(h[T \ {Max(T)}], refs[Max(T)])
    BY <2>1, <2>2 DEF FoldsBy
  <2>4. h = [T \in SUBSET (1 .. n) |-> h[T]]
    BY <2>1
  <2>5. FoldsCompact(h, refs)
    BY <1>1, <2>3, <2>4 DEF FoldsCompact
  <2> QED BY <2>5
<1> HIDE DEF g, F
<1>6. a[0] = <<>>
  <2>1. 1 .. 0 = {} /\ 1 .. 0 \in SUBSET (1 .. n) /\ 0 \in 0 .. n
    BY <1>1, SMT
  <2> QED BY <1>1, <1>5, <2>1 DEF FoldsCompact
<1>7. ASSUME NEW k \in 1 .. n, a[k - 1] \in X PROVE a[k] \in X
  <2>1. /\ 1 .. k \in SUBSET (1 .. n) /\ 1 .. k # {} /\ Max(1 .. k) = k
        /\ (1 .. k) \ {k} = 1 .. k - 1
    BY <1>1, FoldSteps
  <2>2. g[1 .. k] = Compacted(g[1 .. k - 1], refs[k])
    BY <1>1, <1>5, <2>1 DEF FoldsCompact
  <2>3. k \in 0 .. n /\ k - 1 \in 0 .. n
    BY <1>1
  <2>4. a[k] = g[1 .. k] /\ a[k - 1] = g[1 .. k - 1]
    BY <2>3
  <2> QED BY <1>1, <1>3, <1>7, <2>2, <2>4
<1> HIDE DEF a
<1>8. n \in 0 .. n /\ a[n] \in X
  <2>1. \A k \in 0 .. n : a[k] \in X
    BY <1>1, <1>2, <1>6, <1>7, StaysIn
  <2> QED BY <1>1, <2>1
<1> QED BY <1>1, <1>8, CompactIsChosen DEF a, g, X, R

FoldsTold(g, e, budget, base, rs) ==
  g = [T \in SUBSET DOMAIN rs |->
         IF T = {} THEN base
         ELSE Tell(e, budget, g[T \ {Max(T)}], rs[Max(T)].chars, rs[Max(T)].cells)]

LEMMA ToldIsChosen ==
  ASSUME NEW e, NEW budget, NEW doc, NEW refs
  PROVE  FitRanges(e, budget, doc, refs) =
           LET rs == CompactRanges(refs)
           IN  (CHOOSE g : FoldsTold(g, e, budget, doc, rs))[DOMAIN rs]
  BY DEF FitRanges, FoldLeft, MapThenFoldSet, FoldsTold

(* The cells of ranges are some of U.                                      *)
Within(U, refs) == \A r \in Range(refs) : r.cells \in SUBSET U

(* Whole ranges keep the document within the budget.                       *)
LEMMA RangesKeepFitting ==
  ASSUME NEW e, NEW U, NEW budget \in Nat, NEW doc \in Fitting(e, U, budget),
         NEW refs, IsRanges(refs), Within(U, refs)
  PROVE  FitRanges(e, budget, doc, refs) \in Fitting(e, U, budget)
<1> DEFINE R == Range(refs)
           X == Fitting(e, U, budget)
           rs == CompactRanges(refs)
           n == Len(rs)
           F == [k \in 1 .. n |-> [d \in X |-> Tell(e, budget, d, rs[k].chars, rs[k].cells)]]
           g == CHOOSE h : FoldsTold(h, e, budget, doc, rs)
           a == [k \in 0 .. n |-> g[1 .. k]]
<1>1. n \in Nat /\ DOMAIN rs = 1 .. n /\ \A k \in 1 .. n : rs[k] \in R
  <2>1. rs \in Seq(R)
    BY CompactAreRanges
  <2> HIDE DEF rs, R
  <2> QED BY <2>1, FoldEnds
<1>2. doc \in X
  OBVIOUS
<1>3. ASSUME NEW d \in X, NEW r \in R PROVE Tell(e, budget, d, r.chars, r.cells) \in X
  <2>1. r.chars \in Nat /\ IsFiniteSet(r.cells) /\ r.cells \in SUBSET U
    BY <1>3 DEF IsRanges, Within
  <2> QED BY <1>3, <2>1, TellKeepsFitting
<1> HIDE DEF n, R, X, rs
<1>4. F \in [1 .. n -> [X -> X]]
  BY <1>1, <1>3
<1>5. FoldsTold(g, e, budget, doc, rs)
  <2>1. PICK h \in [SUBSET (1 .. n) -> X] : FoldsBy(h, doc, F, n)
    <3> HIDE DEF F
    <3> QED BY <1>1, <1>2, <1>4, FoldExists
  <2>2. ASSUME NEW T \in SUBSET (1 .. n), T # {}
        PROVE  h[T] = Tell(e, budget, h[T \ {Max(T)}], rs[Max(T)].chars, rs[Max(T)].cells)
    <3>1. Max(T) \in 1 .. n
      BY <1>1, <2>2, MaxIsIn
    <3>2. T \ {Max(T)} \in SUBSET (1 .. n)
      OBVIOUS
    <3>3. h[T \ {Max(T)}] \in X
      BY <2>1, <3>2
    <3> QED BY <2>1, <2>2, <3>1, <3>3 DEF FoldsBy
  <2>3. \A T \in SUBSET (1 .. n) :
          h[T] = IF T = {} THEN doc
                 ELSE Tell(e, budget, h[T \ {Max(T)}], rs[Max(T)].chars, rs[Max(T)].cells)
    BY <2>1, <2>2 DEF FoldsBy
  <2>4. h = [T \in SUBSET (1 .. n) |-> h[T]]
    BY <2>1
  <2>5. FoldsTold(h, e, budget, doc, rs)
    BY <1>1, <2>3, <2>4 DEF FoldsTold
  <2> QED BY <2>5
<1> HIDE DEF g, F
<1>6. a[0] = doc
  <2>1. 1 .. 0 = {} /\ 1 .. 0 \in SUBSET (1 .. n) /\ 0 \in 0 .. n
    BY <1>1, SMT
  <2> QED BY <1>1, <1>5, <2>1 DEF FoldsTold
<1>7. ASSUME NEW k \in 1 .. n, a[k - 1] \in X PROVE a[k] \in X
  <2>1. /\ 1 .. k \in SUBSET (1 .. n) /\ 1 .. k # {} /\ Max(1 .. k) = k
        /\ (1 .. k) \ {k} = 1 .. k - 1
    BY <1>1, FoldSteps
  <2>2. g[1 .. k] = Tell(e, budget, g[1 .. k - 1], rs[k].chars, rs[k].cells)
    BY <1>1, <1>5, <2>1 DEF FoldsTold
  <2>3. k \in 0 .. n /\ k - 1 \in 0 .. n
    BY <1>1
  <2>4. a[k] = g[1 .. k] /\ a[k - 1] = g[1 .. k - 1]
    BY <2>3
  <2> QED BY <1>1, <1>3, <1>7, <2>2, <2>4
<1> HIDE DEF a
<1>8. n \in 0 .. n /\ a[n] \in X
  <2>1. \A k \in 0 .. n : a[k] \in X
    BY <1>1, <1>2, <1>6, <1>7, StaysIn
  <2> QED BY <1>1, <2>1
<1> QED BY <1>1, <1>8, ToldIsChosen DEF a, g, X, rs

-----------------------------------------------------------------------------
(* The single cells, and those that are left out.                          *)

FoldsDetails(g, e, budget, compact, base, ds) ==
  g = [T \in SUBSET DOMAIN ds |->
         IF T = {} THEN base
         ELSE TellDetail(e, budget, compact, g[T \ {Max(T)}], ds[Max(T)])]

LEMMA DetailsAreChosen ==
  ASSUME NEW e, NEW budget, NEW doc
  PROVE  FitDetails(e, budget, doc) =
           (CHOOSE g : FoldsDetails(g, e, budget, doc.told, doc, e.details))[DOMAIN e.details]
  BY DEF FitDetails, FoldLeft, MapThenFoldSet, FoldsDetails

(* A detail is told, or would not fit.                                     *)
Dealt(e, budget, d, c) == c.cell \in d.told \/ ~Fits(e, budget, d, c.chars, {c.cell})

(* Telling one more detail deals with it, and undoes no other.             *)
LEMMA TellDeals ==
  ASSUME NEW e, IsEvidence(e), NEW U, Candidates(e) \in SUBSET U, NEW budget \in Nat,
         NEW doc \in Fitting(e, U, budget), NEW c \in Range(e.details),
         NEW compact \in SUBSET doc.told
  PROVE  LET next == TellDetail(e, budget, compact, doc, c)
         IN  /\ next \in Fitting(e, U, budget)
             /\ compact \in SUBSET next.told
             /\ Dealt(e, budget, next, c)
             /\ \A b \in Range(e.details) : Dealt(e, budget, doc, b) => Dealt(e, budget, next, b)
<1> DEFINE next == TellDetail(e, budget, compact, doc, c)
<1>1. c.chars \in Nat \ {0} /\ c.cell \in U
  BY DEF IsEvidence, Candidates, Range
<1>2. doc \in Docs(U) /\ doc.told \in SUBSET U /\ doc.chars \in Nat
  BY DEF Fitting, Docs
<1>3. CASE c.cell \in compact
  <2>1. next = doc
    BY <1>3 DEF TellDetail
  <2> QED BY <1>3, <2>1 DEF Dealt
<1>4. CASE c.cell \notin compact /\ ~Fits(e, budget, doc, c.chars, {c.cell})
  <2>1. next = doc
    BY <1>4 DEF TellDetail, Tell
  <2> QED BY <1>4, <2>1 DEF Dealt
<1>5. CASE c.cell \notin compact /\ Fits(e, budget, doc, c.chars, {c.cell})
  <2> DEFINE told == [chars |-> doc.chars + c.chars, told |-> doc.told \cup {c.cell}]
  <2>1. next = Tell(e, budget, doc, c.chars, {c.cell}) /\ next = told
    BY <1>5 DEF TellDetail, Tell
  <2>2. next \in Fitting(e, U, budget)
    <3> DEFINE cells == {c.cell}
    <3>1. cells \in SUBSET U /\ IsFiniteSet(cells) /\ c.chars \in Nat
      BY <1>1, FS_Singleton
    <3> HIDE DEF cells
    <3>2. Tell(e, budget, doc, c.chars, cells) \in Fitting(e, U, budget)
      BY <3>1, TellKeepsFitting
    <3> QED BY <2>1, <3>2 DEF cells
  <2>3. c.cell \in next.told /\ doc.told \subseteq next.told
    <3>1. next.told = doc.told \cup {c.cell}
      BY <2>1
    <3> HIDE DEF next, told
    <3> QED BY <3>1
  <2>4. ASSUME NEW b \in Range(e.details), Dealt(e, budget, doc, b) PROVE Dealt(e, budget, next, b)
    <3>1. CASE b.cell \in doc.told
      BY <2>3, <3>1 DEF Dealt
    <3>2. CASE b.cell \notin doc.told
      <4>1. b.chars \in Nat
        BY DEF IsEvidence
      <4>2. ~Fits(e, budget, doc, b.chars, {b.cell})
        BY <2>4, <3>2 DEF Dealt
      <4>3. ~Fits(e, budget, told, b.chars, {b.cell})
        <5> DEFINE y == b.cell
        <5> HIDE DEF y
        <5> QED BY <1>1, <1>2, <4>1, <4>2, NeverFitsAgain DEF y
      <4> QED BY <2>1, <4>3 DEF Dealt
    <3> QED BY <3>1, <3>2
  <2> HIDE DEF next, told
  <2> QED BY <2>2, <2>3, <2>4 DEF Dealt, next
<1> QED BY <1>3, <1>4, <1>5

LEMMA DetailsAreDealt ==
  ASSUME NEW e, IsEvidence(e), NEW U, Candidates(e) \in SUBSET U, NEW budget \in Nat,
         NEW doc \in Fitting(e, U, budget)
  PROVE  /\ FitDetails(e, budget, doc) \in Fitting(e, U, budget)
         /\ \A i \in DOMAIN e.details : Dealt(e, budget, FitDetails(e, budget, doc), e.details[i])
<1> DEFINE R == Range(e.details)
           ds == e.details
           compact == doc.told
           X == {d \in Fitting(e, U, budget) : compact \in SUBSET d.told}
           n == Len(ds)
           F == [k \in 1 .. n |-> [d \in X |-> TellDetail(e, budget, compact, d, ds[k])]]
           g == CHOOSE h : FoldsDetails(h, e, budget, compact, doc, ds)
           a == [k \in 0 .. n |-> g[1 .. k]]
<1>1. n \in Nat /\ DOMAIN ds = 1 .. n /\ \A k \in 1 .. n : ds[k] \in R
  <2>1. ds \in Seq(R)
    BY DEF IsEvidence
  <2> HIDE DEF ds, R
  <2> QED BY <2>1, FoldEnds
<1>2. doc \in X
  OBVIOUS
<1>3. ASSUME NEW d \in X, NEW c \in R
      PROVE /\ TellDetail(e, budget, compact, d, c) \in X
            /\ Dealt(e, budget, TellDetail(e, budget, compact, d, c), c)
            /\ \A b \in R : Dealt(e, budget, d, b) =>
                              Dealt(e, budget, TellDetail(e, budget, compact, d, c), b)
  <2>1. d \in Fitting(e, U, budget) /\ compact \in SUBSET d.told
    BY <1>3
  <2> HIDE DEF compact
  <2> QED BY <1>3, <2>1, TellDeals
<1> HIDE DEF n, R, X, ds, compact
<1>4. F \in [1 .. n -> [X -> X]]
  BY <1>1, <1>3
<1>5. FoldsDetails(g, e, budget, compact, doc, ds)
  <2>1. PICK h \in [SUBSET (1 .. n) -> X] : FoldsBy(h, doc, F, n)
    <3> HIDE DEF F
    <3> QED BY <1>1, <1>2, <1>4, FoldExists
  <2>2. ASSUME NEW T \in SUBSET (1 .. n), T # {}
        PROVE  h[T] = TellDetail(e, budget, compact, h[T \ {Max(T)}], ds[Max(T)])
    <3>1. Max(T) \in 1 .. n
      BY <1>1, <2>2, MaxIsIn
    <3>2. T \ {Max(T)} \in SUBSET (1 .. n)
      OBVIOUS
    <3>3. h[T \ {Max(T)}] \in X
      BY <2>1, <3>2
    <3> QED BY <2>1, <2>2, <3>1, <3>3 DEF FoldsBy
  <2>3. \A T \in SUBSET (1 .. n) :
          h[T] = IF T = {} THEN doc
                 ELSE TellDetail(e, budget, compact, h[T \ {Max(T)}], ds[Max(T)])
    BY <2>1, <2>2 DEF FoldsBy
  <2>4. h = [T \in SUBSET (1 .. n) |-> h[T]]
    BY <2>1
  <2>5. FoldsDetails(h, e, budget, compact, doc, ds)
    BY <1>1, <2>3, <2>4 DEF FoldsDetails
  <2> QED BY <2>5
<1> HIDE DEF g, F
<1>6. a[0] = doc
  <2>1. 1 .. 0 = {} /\ 1 .. 0 \in SUBSET (1 .. n) /\ 0 \in 0 .. n
    BY <1>1, SMT
  <2> QED BY <1>1, <1>5, <2>1 DEF FoldsDetails
<1>7. ASSUME NEW k \in 1 .. n
      PROVE a[k] = TellDetail(e, budget, compact, a[k - 1], ds[k])
  <2>1. /\ 1 .. k \in SUBSET (1 .. n) /\ 1 .. k # {} /\ Max(1 .. k) = k
        /\ (1 .. k) \ {k} = 1 .. k - 1
    BY <1>1, FoldSteps
  <2>2. g[1 .. k] = TellDetail(e, budget, compact, g[1 .. k - 1], ds[k])
    BY <1>1, <1>5, <2>1 DEF FoldsDetails
  <2>3. k \in 0 .. n /\ k - 1 \in 0 .. n
    BY <1>1
  <2>4. a[k] = g[1 .. k] /\ a[k - 1] = g[1 .. k - 1]
    BY <2>3
  <2> QED BY <2>2, <2>4
<1> HIDE DEF a
<1> DEFINE C == {k \in Nat : k <= n =>
                   /\ a[k] \in X
                   /\ \A i \in 1 .. n : i <= k => Dealt(e, budget, a[k], ds[i])}
<1>8. 0 \in C
  <2>1. \A i \in 1 .. n : ~ i <= 0
    OBVIOUS
  <2> QED BY <1>2, <1>6, <2>1
<1>9. ASSUME NEW k \in Nat, k \in C PROVE k + 1 \in C
  <2>1. SUFFICES ASSUME k + 1 <= n
                 PROVE  /\ a[k + 1] \in X
                        /\ \A i \in 1 .. n : i <= k + 1 => Dealt(e, budget, a[k + 1], ds[i])
    OBVIOUS
  <2>2. k + 1 \in 1 .. n /\ k + 1 - 1 = k /\ k <= n
    BY <1>1, <2>1
  <2>3. a[k + 1] = TellDetail(e, budget, compact, a[k], ds[k + 1])
    BY <1>7, <2>2
  <2>4. a[k] \in X /\ \A i \in 1 .. n : i <= k => Dealt(e, budget, a[k], ds[i])
    BY <1>9, <2>2
  <2>5. ds[k + 1] \in R
    BY <1>1, <2>2
  <2>6. /\ a[k + 1] \in X
        /\ Dealt(e, budget, a[k + 1], ds[k + 1])
        /\ \A b \in R : Dealt(e, budget, a[k], b) => Dealt(e, budget, a[k + 1], b)
    BY <1>3, <2>3, <2>4, <2>5
  <2>7. ASSUME NEW i \in 1 .. n, i <= k + 1 PROVE Dealt(e, budget, a[k + 1], ds[i])
    <3>1. ds[i] \in R
      BY <1>1
    <3>2. CASE i = k + 1
      BY <2>6, <3>2
    <3>3. CASE i <= k
      BY <2>4, <2>6, <3>1, <3>3
    <3> QED BY <1>1, <2>7, <3>2, <3>3
  <2> QED BY <2>6, <2>7
<1> HIDE DEF C
<1>10. n \in C
  BY <1>1, <1>8, <1>9, SetInduction
<1>11. a[n] \in X /\ \A i \in 1 .. n : Dealt(e, budget, a[n], ds[i])
  BY <1>1, <1>10 DEF C
<1>12. n \in 0 .. n
  BY <1>1
<1>13. FitDetails(e, budget, doc) = a[n]
  <2>1. a[n] = g[1 .. n]
    BY <1>12 DEF a
  <2>2. FitDetails(e, budget, doc) = g[DOMAIN ds]
    BY DetailsAreChosen DEF g, ds, compact
  <2> QED BY <1>1, <2>1, <2>2
<1> QED BY <1>1, <1>11, <1>13 DEF X, ds

-----------------------------------------------------------------------------
(* The whole document.                                                     *)

LEMMA DocumentFitsItsBudget ==
  ASSUME NEW e, IsEvidence(e), NEW budget \in Nat, MandatoryFits(e, budget)
  PROVE  DocumentIsRight(e, budget, Document(e, budget))
<1> DEFINE U == Candidates(e) \cup Claimed(e.answers) \cup Claimed(e.data)
           bare == [chars |-> e.mandatory, told |-> {}]
           answered == FitRanges(e, budget, bare, e.answers)
           sourced == FitRanges(e, budget, answered, e.data)
           doc == FitDetails(e, budget, sourced)
<1>1. bare \in Fitting(e, U, budget)
  <2>1. IsFiniteSet({}) /\ Cardinality({}) = 0
    BY FS_EmptySet
  <2>2. bare \in Docs(U)
    BY <2>1 DEF IsEvidence, Docs
  <2>3. Omitted(e, {}) = Cardinality(Candidates(e))
    <3>1. Candidates(e) \ {} = Candidates(e)
      OBVIOUS
    <3> QED BY <3>1 DEF Omitted
  <2>4. Used(e, bare) <= budget
    BY <2>1, <2>3 DEF Used, MandatoryFits
  <2> QED BY <2>2, <2>4 DEF Fitting
<1>2. Within(U, e.answers) /\ Within(U, e.data) /\ Candidates(e) \in SUBSET U
  BY DEF Within, Claimed, Range
<1>3. IsRanges(e.answers) /\ IsRanges(e.data)
  BY DEF IsEvidence
<1> HIDE DEF U, bare
<1>4. answered \in Fitting(e, U, budget)
  BY <1>1, <1>2, <1>3, RangesKeepFitting
<1> HIDE DEF answered
<1>5. sourced \in Fitting(e, U, budget)
  BY <1>2, <1>3, <1>4, RangesKeepFitting
<1> HIDE DEF sourced
<1>6. /\ doc \in Fitting(e, U, budget)
      /\ \A i \in DOMAIN e.details : Dealt(e, budget, doc, e.details[i])
  BY <1>2, <1>5, DetailsAreDealt
<1>7. doc = Document(e, budget)
  BY DEF Document, doc, sourced, answered, bare
<1> HIDE DEF doc
<1>8. doc.chars \in Nat /\ IsFiniteSet(doc.told) /\ Used(e, doc) <= budget
  BY <1>6 DEF Fitting, Docs
<1>9. Converges(doc.chars, Cardinality(doc.told), Omitted(e, doc.told))
  BY <1>8, CountsAreNat, LengthSettles
<1> QED BY <1>6, <1>7, <1>8, <1>9 DEF DocumentIsRight, Dealt

(* Every document fits, is counted right and uses its budget: the counts   *)
(* of a document only grow with it, so a cell that does not fit never fits *)
(* later.                                                                  *)
LEMMA AllDocumentsFit == EveryDocumentFits
<1>1. ASSUME NEW e \in Evidence, NEW budget \in CharBudgets, MandatoryFits(e, budget)
      PROVE  DocumentIsRight(e, budget, Document(e, budget))
  BY <1>1, EvidenceAssumption, BudgetAssumption, DocumentFitsItsBudget
<1> QED BY <1>1 DEF EveryDocumentFits

(* The document of a worker that calls the provider fits its budget, its   *)
(* count is right, and no cell that it leaves out would still fit.         *)
THEOREM DocumentsFit == Spec => []DocumentFits
<1>1. DocumentFits
  BY AllDocumentsFit DEF DocumentFits
<1> QED BY <1>1, PTL
=============================================================================
