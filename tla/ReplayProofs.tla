---------------------------- MODULE ReplayProofs ----------------------------
(***************************************************************************)
(* Runs and replays on one directory, for any set of tasks and outcomes:   *)
(* the directory stays recoverable, a replay repairs failed writes and     *)
(* nothing else, what it reports is on the disk, and all sessions together *)
(* implement TaskLedger.  The parts of a session that come before the loop *)
(* of a replay are those of a run, so the invariant of RunInvariant is     *)
(* kept there by the lemmas of RunProofs; ReplayInv adds what the loop of  *)
(* a replay, and the undoing after an error in it, rely on.                *)
(*                                                                         *)
(* The loop has at most one candidate under way, and only that one can     *)
(* have a marker: every other task is as its last session left it, or      *)
(* waits in its workspace.  The lemmas about a durable step say what it    *)
(* does to the candidate (CandidateAfter) and that it does nothing to the  *)
(* others (CandidateFrame); those about the memory use only that.          *)
(***************************************************************************)
EXTENDS ReplaySession, RunProofs

(* What a replay is doing to t, one of its candidates.                     *)
ReplayLabel == {"write_output", "write_trace", "prepare"} \cup CommitLabel \cup SweepLabel

(* A workspace that was made for the replay of t: the old record stands.   *)
Scratch(t) ==
  /\ predictions[t] \in Replayable
  /\ t \in workspace /\ ~Prepared(t)
  /\ payload[t].old_output = Pristine
  /\ payload[t].old_trace = traces[t]
Waiting(t) == Scratch(t) /\ results[t] = predictions[t]

(* The candidate of the current section, by how far the section is.        *)
Candidate(t) ==
  /\ step.at \in ReplayLabel
  /\ t \in retrying \ published
  /\ step.at \in {"write_output", "write_trace", "prepare"} => Waiting(t) /\ answer[t] \in Result
  /\ step.at \in {"write_trace", "prepare"} =>
       answer[t] \in Success /\ payload[t].new_output = Workbook(answer[t])
  /\ step.at = "prepare" => payload[t].new_trace = answer[t]
  /\ step.at \in Trusting =>
       /\ Prepared(t) /\ meta[t].new = answer[t] /\ answer[t] \in Success
       /\ meta[t].old \in Replayable
  /\ step.at \in {"publish_trace", "publish_prediction", "unlink_marker"} =>
       outputs[t] = Workbook(answer[t])
  /\ step.at \in {"publish_prediction", "unlink_marker"} => traces[t] = answer[t]
  /\ step.at \in {"unlink_marker"} \cup Cleaning => predictions[t] = answer[t]
  /\ step.at \in Cleaning => answer[t] \in Success
  /\ step.at \in Cleaning \cup SweepLabel => ~Prepared(t)
  /\ step.at \in SweepLabel => predictions[t] \in Replayable

(* The loop: only the candidate of the current section can be prepared,    *)
(* and those that come wait in their workspaces.                           *)
LoopOfReplay ==
  /\ step # None => Candidate(step.task)
  /\ \A t \in Task :
       /\ Prepared(t) => InSection(t, Trusting)
       /\ predictions[t] # None
       /\ t \in retrying => predictions[t] \in Replayable \cup Success
       /\ t \in retrying \ published /\ (Idle \/ step.task # t) => Waiting(t)

(* The workspaces that are given up have no marker.                        *)
Undoing ==
  /\ step # None => step.at \in SweepLabel /\ ~Prepared(step.task)
  /\ \A t \in owned : ~Prepared(t)

ReplayInv ==
  /\ TypeOK /\ Recoverable
  /\ phase \in {"resume", "recover", "load", "create", "undo", "run", "final"}
  /\ commitStarted = {}
  /\ \A t \in Task : worker[t] = "none"
  /\ phase \notin {"run", "undo"} => IInv
  /\ phase = "create" => retrying \subseteq Eligible /\ Missing = {}
  /\ phase = "run" => LoopOfReplay
  /\ phase = "undo" => Undoing
  /\ phase = "final" =>
       /\ results = predictions /\ Missing = {}
       /\ \A t \in retrying : predictions[t] \in Replayable \cup Success

SessionInv == IF replaying THEN ReplayInv ELSE IInv

-----------------------------------------------------------------------------
(* Before the loop, a replay session takes steps of a run.                 *)

LEMMA SharedIsNext ==
  ASSUME Shared PROVE Next
BY DEF Shared, Next, Coordinator

(* A step of the preparation changes no record.                            *)
LEMMA CreationKeepsRecords ==
  ASSUME IInv, phase = "create", (~Idle /\ Effect) \/ UNCHANGED disk
  PROVE  UNCHANGED <<predictions, outputs, traces, litter, meta>>
<1>1. CASE UNCHANGED disk
  BY <1>1 DEF disk
<1>2. CASE ~Idle /\ Effect
  <2>1. step.at \in CreateLabel
    BY <1>2 DEF IInv, TypeOK, PhaseInv, Idle, Steps, Label, PublishPhases, CreateLabel
  <2>2. \/ MakeWorkspace(step.task) \/ SaveOldOutput(step.task) \/ SaveOldTrace(step.task)
    BY <1>2, <2>1 DEF Effect, OutputStep, TraceStep, At, CreateLabel
  <2> QED BY <2>2 DEF MakeWorkspace, SaveOldOutput, SaveOldTrace
<1> QED BY <1>1, <1>2

LEMMA SharedKeeps ==
  ASSUME ReplayInv, Shared, phase \notin {"run", "undo"}
  PROVE  IInv' /\ (phase' # "down" => ReplayInv')
<1>1. IInv /\ TypeOK /\ commitStarted = {} /\ \A t \in Task : worker[t] = "none"
  BY DEF ReplayInv
<1>2. [Next]_vars
  BY SharedIsNext
<1>3. IInv' /\ TypeOK' /\ Recoverable'
  <2>1. IInv'
    BY <1>1, <1>2, NextKeeps
  <2> QED BY <2>1 DEF IInv
<1>4. CASE RejectRoot \/ RejectDirectory \/ UndoDone \/ Report
  <2>1. phase' = "down"
    BY <1>4 DEF RejectRoot, RejectDirectory, UndoDone, Report, Exit
  <2> QED BY <1>3, <2>1
<1>5. CASE OpenRoot \/ RecoverDone
  <2>1. phase' \in {"recover", "load"} /\ UNCHANGED <<commitStarted, worker>>
    BY <1>5 DEF OpenRoot, RecoverDone, Enter, memory
  <2> QED BY <1>1, <1>3, <2>1 DEF ReplayInv
<1>6. CASE \E t \in Task : RecoverNext(t)
  <2>1. phase' = "recover" /\ UNCHANGED <<commitStarted, worker>>
    BY <1>6 DEF RecoverNext
  <2> QED BY <1>1, <1>3, <2>1 DEF ReplayInv
<1>7. CASE \E t \in Task : CreateNext(t)
  <2>1. phase = "create" /\ Idle /\ UNCHANGED <<disk, memory>> /\ phase' \in {"create", "undo"}
    BY <1>7 DEF CreateNext, Enter
  <2>2. \A t \in Task : ~Prepared(t)
    BY <1>1, <2>1 DEF IInv, PreparedInv
  <2>3. retrying \subseteq Eligible /\ Missing = {}
    BY <2>1 DEF ReplayInv
  <2>4. retrying' \subseteq Eligible' /\ Missing' = {}
    BY <2>1, <2>3 DEF Eligible, Missing, disk, memory
  <2>5. phase' = "undo" => Undoing'
    <3>1. phase' = "undo" => step' = step
      BY <1>7 DEF CreateNext, Begin
    <3>2. \A t \in owned' : t \in Task /\ ~Prepared(t)'
      BY <1>1, <2>1, <2>2 DEF disk, memory, Prepared, TypeOK
    <3> QED BY <2>1, <3>1, <3>2 DEF Undoing, Idle
  <2> QED BY <1>1, <1>3, <2>1, <2>4, <2>5 DEF ReplayInv, memory
<1>8. CASE DoStep
  <2>1. ~Idle /\ Effect /\ phase' = phase /\ UNCHANGED <<commitStarted, retrying>>
    BY <1>8 DEF DoStep, Continue, Return, memory
  <2>2. phase \in {"recover", "create"}
    BY <2>1, <1>1 DEF ReplayInv, IInv, PhaseInv, Idle
  <2>3. \A t \in Task : worker'[t] = "none"
    <3>1. BeforeRunInv'
      BY <1>3 DEF IInv
    <3> QED BY <2>1, <2>2, <3>1 DEF BeforeRunInv
  <2>4. phase = "create" => retrying' \subseteq Eligible' /\ Missing' = {}
    <3>1. phase = "create" => retrying \subseteq Eligible /\ Missing = {}
      BY DEF ReplayInv
    <3>2. phase = "create" => predictions' = predictions
      BY <1>1, <2>1, CreationKeepsRecords
    <3> QED BY <2>1, <3>1, <3>2 DEF Eligible, Missing
  <2> QED BY <1>1, <1>3, <2>1, <2>2, <2>3, <2>4 DEF ReplayInv
<1>9. ~ \E t \in Task : UndoNext(t)
  BY DEF UndoNext
<1> QED
  BY <1>4, <1>5, <1>6, <1>7, <1>8, <1>9 DEF Shared

(* A run that replays has a record for every task.                         *)
LEMMA AcceptKeeps ==
  ASSUME ReplayInv, AcceptReplay
  PROVE  ReplayInv'
<1>1. IInv /\ TypeOK /\ commitStarted = {} /\ \A t \in Task : worker[t] = "none"
  BY DEF ReplayInv, AcceptReplay
<1>2. /\ phase = "load" /\ Missing = {} /\ UNCHANGED <<disk, step, owned, worker, answer, published,
                                       commitStarted, observed, raising>>
      /\ results' = predictions /\ retrying' = Eligible /\ phase' \in {"final", "create"}
      /\ phase' = "final" => Eligible = {}
  BY DEF AcceptReplay, Enter
<1>3. step = None /\ owned = {} /\ \A t \in Task : ~Prepared(t)
  BY <1>1, <1>2 DEF IInv, PhaseInv, CreateInv, PreparedInv
<1>4. Eligible \subseteq Failures
  BY <1>1, ReplayAssumption DEF Eligible, Failures, IInv, TypeOK, DiskTypeOK
<1>5. TypeOK'
  BY <1>1, <1>2 DEF TypeOK, DiskTypeOK, disk, Phase, Eligible
<1>6. Recoverable'
  BY <1>1, <1>2 DEF IInv, Recoverable, TaskRecoverable, Prepared, NoConflict,
     PayloadsValid, disk
<1>7. IInv'
  <2>1. PhaseInv' /\ CommitInv' /\ PreparedInv'
    BY <1>2, <1>3 DEF PhaseInv, CommitInv, PreparedInv, Prepared, disk, RunPhases
  <2>2. BeforeRunInv'
    BY <1>1, <1>2 DEF BeforeRunInv, IInv
  <2>3. CreateInv'
    BY <1>2, <1>3, <1>4 DEF CreateInv, Failures, disk, InSection
  <2>4. WorkInv'
    BY <1>2 DEF WorkInv, RunPhases
  <2>5. LoopInv'
    BY <1>1, <1>2 DEF LoopInv
  <2> QED BY <1>5, <1>6, <2>1, <2>2, <2>3, <2>4, <2>5 DEF IInv
<1>8. Eligible' = Eligible /\ Missing' = Missing /\ predictions' = predictions
  BY <1>2 DEF Eligible, Missing, disk
<1> QED BY <1>1, <1>2, <1>5, <1>6, <1>7, <1>8 DEF ReplayInv

(* Every workspace is made and holds the artefacts of a failed write.      *)
LEMMA LoadKeeps ==
  ASSUME ReplayInv, LoadSources \/ SourceUnreadable
  PROVE  ReplayInv'
<1>1. /\ phase = "create" /\ step = None /\ retrying \subseteq owned
      /\ UNCHANGED <<disk, step, memory>> /\ phase' \in {"run", "undo"}
  BY DEF LoadSources, SourceUnreadable, Idle, Enter
<1>2. /\ IInv /\ TypeOK /\ Recoverable /\ commitStarted = {}
      /\ \A t \in Task : worker[t] = "none"
      /\ retrying \subseteq Eligible /\ Missing = {}
  BY <1>1 DEF ReplayInv
<1>3. \A t \in Task : ~Prepared(t)
  BY <1>1, <1>2 DEF IInv, PreparedInv
<1>4. /\ results = predictions
      /\ \A t \in owned : /\ t \in workspace
                          /\ payload[t].old_output = Pristine
                          /\ payload[t].old_trace = traces[t]
  BY <1>1, <1>2 DEF IInv, CreateInv
<1>5. TypeOK'
  BY <1>1, <1>2 DEF TypeOK, DiskTypeOK, disk, memory, Phase
<1>6. Recoverable'
  BY <1>1, <1>2 DEF Recoverable, TaskRecoverable, Prepared, NoConflict, PayloadsValid,
     disk
<1>7. LoopOfReplay'
  <2>1. ASSUME NEW t \in Task
        PROVE  /\ ~Prepared(t)' /\ predictions'[t] # None
               /\ t \in retrying' => predictions'[t] \in Replayable
               /\ t \in retrying' => Waiting(t)'
    BY <1>1, <1>2, <1>3, <1>4
       DEF disk, memory, Prepared, Missing, Eligible, Waiting, Scratch
  <2>2. step' = None
    BY <1>1
  <2> QED BY <2>1, <2>2 DEF LoopOfReplay
<1>8. Undoing'
  BY <1>1, <1>2, <1>3 DEF Undoing, disk, memory, Prepared, TypeOK
<1> QED BY <1>1, <1>2, <1>5, <1>6, <1>7, <1>8 DEF ReplayInv, memory

(* The workspaces are given up, one after the other.                       *)
LEMMA UndoKeeps ==
  ASSUME ReplayInv, phase = "undo",
         (\E t \in Task : UndoNext(t)) \/ DoStep \/ (~Idle /\ ((Verified /\ Effect) \/ UNCHANGED disk) /\ Raise)
  PROVE  ReplayInv'
<1>1. /\ TypeOK /\ Recoverable /\ Undoing /\ commitStarted = {}
      /\ \A t \in Task : worker[t] = "none"
  BY DEF ReplayInv
<1>2. ASSUME NEW t \in Task, UndoNext(t) PROVE ReplayInv'
  <2>1. /\ t \in owned /\ owned' = owned \ {t} /\ step' = [at |-> "sweep_payloads", task |-> t]
        /\ phase' = phase
        /\ UNCHANGED <<disk, results, retrying, worker, answer, published,
                       commitStarted, observed, raising>>
    BY <1>2 DEF UndoNext, Begin
  <2>2. step' \in Steps /\ step' # None /\ step'.at = "sweep_payloads" /\ step'.task = t
    BY <2>1, StepAssumption DEF Steps, Label, SweepLabel
  <2>3. TypeOK'
    BY <1>1, <2>1, <2>2 DEF TypeOK, DiskTypeOK, disk
  <2>4. Recoverable'
    BY <1>1, <2>1 DEF Recoverable, TaskRecoverable, Prepared, NoConflict,
       PayloadsValid, disk
  <2>5. Undoing'
    BY <1>1, <2>1, <2>2 DEF Undoing, Prepared, disk, SweepLabel
  <2> QED BY <1>1, <2>1, <2>3, <2>4, <2>5 DEF ReplayInv
<1>3. ASSUME ~Idle, (Verified /\ Effect) \/ UNCHANGED disk, DoStep \/ Raise PROVE ReplayInv'
  <2> DEFINE t == step.task
  <2>1. t \in Task /\ step.at \in SweepLabel /\ ~Prepared(t)
    BY <1>1, <1>3 DEF Undoing, Idle, TypeOK, Steps
  <2>2. UnlinkPayloads(t) \/ RemoveDirectory(t) \/ UNCHANGED disk
    BY <1>3, <2>1 DEF Effect, OutputStep, TraceStep, At, SweepLabel
  <2>3. /\ UNCHANGED <<predictions, outputs, traces, litter, meta>>
        /\ \A u \in Task : u # t => payload'[u] = payload[u] /\ (u \in workspace' <=> u \in workspace)
        /\ payload' \in [Task -> Payloads] /\ workspace' \subseteq Task
    BY <1>1, <2>1, <2>2 DEF UnlinkPayloads, RemoveDirectory, disk, TypeOK, DiskTypeOK,
       NoPayload, Payloads
  <2>4. Recoverable'
    BY <1>1, <2>1, <2>3 DEF Recoverable, TaskRecoverable, Prepared, NoConflict,
       PayloadsValid
  <2>5. /\ phase' = phase
        /\ UNCHANGED <<results, retrying, owned, worker, answer, published, commitStarted,
                       observed, raising>>
        /\ step' = None \/ (step' = [at |-> "sweep_rmdir", task |-> t] /\ step' # None)
    <3>1. CASE DoStep
      BY <2>1, <3>1, StepAssumption DEF DoStep, Continue, Return, Goto, At, SweepLabel,
         memory, Following,
         FinishWorker, FinishCreate, FinishCheckpoint, FinishSweep, TraceStep, Label
    <3>2. CASE Raise
      BY <2>1, <3>2 DEF Raise, RaiseInWorker, RaiseInCreate, RaiseInCommit,
         RaiseBeforeCommit, RaiseInSweep,
         At, SweepLabel, memory, TryLabel, FallbackLabel, CreateLabel, CommitLabel
    <3> QED BY <1>3, <3>1, <3>2
  <2>6. TypeOK'
    BY <1>1, <2>1, <2>3, <2>5 DEF TypeOK, DiskTypeOK, Steps, Label, SweepLabel
  <2>7. Undoing'
    BY <1>1, <2>1, <2>3, <2>5 DEF Undoing, Prepared, SweepLabel
  <2> QED BY <1>1, <2>4, <2>5, <2>6, <2>7 DEF ReplayInv
<1> QED BY <1>2, <1>3 DEF DoStep

-----------------------------------------------------------------------------
(* The loop of a replay, one durable step at a time.                       *)

(* The durable step of a candidate, by its label.                          *)
LEMMA CandidateEffect ==
  ASSUME TypeOK, phase = "run", LoopOfReplay, ~Idle, Effect
  PROVE  LET t == step.task IN
         \/ step.at = "write_output" /\ StageOutput(t, answer[t])
         \/ step.at = "write_trace" /\ StageTrace(t, answer[t])
         \/ step.at = "prepare" /\ WriteMarker(t, results[t], answer[t])
         \/ step.at = "check" /\ UNCHANGED disk
         \/ step.at = "publish_output" /\ PublishOutput(t)
         \/ step.at = "publish_trace" /\ PublishTrace(t)
         \/ step.at = "publish_prediction" /\ PublishPrediction(t)
         \/ step.at = "unlink_marker" /\ UnlinkMarker(t)
         \/ step.at \in {"unlink_payloads", "sweep_payloads"} /\ UnlinkPayloads(t)
         \/ step.at \in {"rmdir", "sweep_rmdir"} /\ RemoveDirectory(t)
<1> DEFINE t == step.task
<1>1. step.at \in ReplayLabel /\ t \in retrying
  BY DEF LoopOfReplay, Candidate, Idle
<1>2. /\ step.at \notin {"fallback_output", "fallback_trace", "checkpoint", "mkdir",
                         "save_output", "save_trace"}
  BY <1>1 DEF ReplayLabel, CommitLabel, SweepLabel
<1> QED BY <1>1, <1>2 DEF Effect, OutputStep, TraceStep, At

(* It touches nothing of the other tasks.                                  *)
LEMMA CandidateFrame ==
  ASSUME TypeOK, phase = "run", LoopOfReplay, ~Idle, Effect,
         NEW u \in Task, u # step.task
  PROVE  /\ predictions'[u] = predictions[u] /\ outputs'[u] = outputs[u]
         /\ traces'[u] = traces[u] /\ payload'[u] = payload[u] /\ meta'[u] = meta[u]
         /\ u \in workspace' <=> u \in workspace
BY CandidateEffect DEF StageOutput, StageTrace, WriteMarker, PublishOutput, PublishTrace,
   PublishPrediction, UnlinkMarker, UnlinkPayloads, RemoveDirectory, disk, TypeOK,
   DiskTypeOK

(* What the directory holds for the candidate after it, and what its       *)
(* section relies on at the next step.                                     *)
CandidateAfter(t) ==
  /\ DiskTypeOK' /\ TaskRecoverable(t)' /\ predictions'[t] \in Replayable \cup Success
  /\ step.at \in {"write_output", "write_trace"} =>
       payload'[t].new_output = Workbook(answer[t]) /\ Scratch(t)' /\ predictions'[t] = predictions[t]
  /\ step.at = "write_trace" => payload'[t].new_trace = answer[t]
  /\ step.at = "prepare" => meta'[t] = [old |-> results[t], new |-> answer[t]]
  /\ step.at \in {"check", "publish_output", "publish_trace", "publish_prediction"} =>
       meta'[t] = meta[t]
  /\ step.at \in {"publish_output", "publish_trace", "publish_prediction"} =>
       outputs'[t] = Workbook(answer[t])
  /\ step.at \in {"publish_trace", "publish_prediction"} => traces'[t] = answer[t]
  /\ step.at \in {"publish_prediction", "unlink_marker"} \cup Cleaning => predictions'[t] = answer[t]
  /\ step.at \in {"unlink_marker"} \cup Cleaning \cup SweepLabel => meta'[t] = None
  /\ step.at \in SweepLabel => predictions'[t] = predictions[t]

LEMMA CandidateDisk ==
  ASSUME TypeOK, Recoverable, phase = "run", LoopOfReplay, ~Idle, Verified, Effect,
         NEW t \in Task, t = step.task
  PROVE  CandidateAfter(t)
<1>t. Candidate(t) /\ t \in retrying
  BY DEF Idle, LoopOfReplay, Candidate
<1>r. TaskRecoverable(t) /\ predictions[t] \in Replayable \cup Success
  BY <1>t DEF Recoverable, LoopOfReplay
<1>d. DiskTypeOK /\ results[t] \in Result \cup {None} /\ answer[t] \in Result \cup {None}
  BY DEF TypeOK
<1>m. /\ Replayable \subseteq Result \ Success /\ None \notin Result /\ Success \subseteq Result
      /\ Pristine # None /\ Pristine \notin Result
  BY ReplayAssumption, ResultAssumption
<1>p. step.at \notin Trusting => meta[t] = None
  BY DEF LoopOfReplay, InSection, Prepared
<1>0. \A r \in Result : Workbook(r) \in Content
  BY DEF Workbook, Content
<1>1. CASE step.at = "write_output" /\ StageOutput(t, answer[t])
  <2>1. /\ UNCHANGED <<predictions, outputs, traces, litter, workspace, meta>>
        /\ payload' = [payload EXCEPT ![t].new_output = Workbook(answer[t])]
    BY <1>1 DEF StageOutput
  <2>2. Scratch(t) /\ answer[t] \in Result
    BY <1>1, <1>t DEF Candidate, Waiting
  <2>3. /\ payload' \in [Task -> Payloads] /\ payload'[t].new_output = Workbook(answer[t])
        /\ payload'[t].old_output = payload[t].old_output /\ payload'[t].old_trace = payload[t].old_trace
    <3>1. payload \in [Task -> Payloads] /\ Workbook(answer[t]) \in Content
      BY <1>d, <1>0, <2>2 DEF DiskTypeOK
    <3>2. payload' \in [Task -> Payloads]
      BY <2>1, <3>1, PayloadWritten
    <3> QED BY <2>1, <3>1, <3>2 DEF Payloads
  <2>4. DiskTypeOK'
    BY <1>d, <2>1, <2>3 DEF DiskTypeOK
  <2>5. Scratch(t)'
    BY <2>1, <2>2, <2>3 DEF Scratch, Prepared
  <2>6. TaskRecoverable(t)'
    BY <1>1, <1>p, <1>r, <2>1 DEF TaskRecoverable, Prepared, Trusting
  <2> QED BY <1>1, <1>r, <2>1, <2>3, <2>4, <2>5, <2>6 DEF CandidateAfter, Cleaning,
     SweepLabel, Trusting
<1>2. CASE step.at = "write_trace" /\ StageTrace(t, answer[t])
  <2>1. /\ UNCHANGED <<predictions, outputs, traces, litter, workspace, meta>>
        /\ payload' = [payload EXCEPT ![t].new_trace = answer[t]]
    BY <1>2 DEF StageTrace
  <2>2. Scratch(t) /\ answer[t] \in Result /\ payload[t].new_output = Workbook(answer[t])
    BY <1>2, <1>t DEF Candidate, Waiting
  <2>3. /\ payload' \in [Task -> Payloads] /\ payload'[t].new_trace = answer[t]
        /\ payload'[t].new_output = payload[t].new_output
        /\ payload'[t].old_output = payload[t].old_output /\ payload'[t].old_trace = payload[t].old_trace
    <3>1. payload \in [Task -> Payloads]
      BY <1>d DEF DiskTypeOK
    <3>2. payload' \in [Task -> Payloads]
      BY <2>1, <2>2, <3>1, PayloadWritten
    <3> QED BY <2>1, <2>2, <3>1, <3>2 DEF Payloads
  <2>4. DiskTypeOK'
    BY <1>d, <2>1, <2>3 DEF DiskTypeOK
  <2>5. Scratch(t)'
    BY <2>1, <2>2, <2>3 DEF Scratch, Prepared
  <2>6. TaskRecoverable(t)'
    BY <1>2, <1>p, <1>r, <2>1 DEF TaskRecoverable, Prepared, Trusting
  <2> QED BY <1>2, <1>r, <2>1, <2>2, <2>3, <2>4, <2>5, <2>6 DEF CandidateAfter,
     Cleaning, SweepLabel, Trusting
<1>3. CASE step.at = "prepare" /\ WriteMarker(t, results[t], answer[t])
  <2>1. /\ UNCHANGED <<predictions, outputs, traces, litter, workspace, payload>>
        /\ meta' = [meta EXCEPT ![t] = [old |-> results[t], new |-> answer[t]]]
    BY <1>3 DEF WriteMarker
  <2>2. /\ Waiting(t) /\ answer[t] \in Success /\ payload[t].new_output = Workbook(answer[t])
        /\ payload[t].new_trace = answer[t] /\ PayloadsValid(t, results[t], answer[t])
    BY <1>3, <1>t DEF Candidate, Verified, At, Idle
  <2>3. /\ predictions[t] = results[t] /\ predictions[t] \in Result \ Success
        /\ outputs[t] = Pristine /\ payload[t].old_output = Pristine /\ t \in workspace
        /\ payload[t].old_trace = traces[t] /\ ~Prepared(t)
    BY <1>m, <1>r, <2>2 DEF Waiting, Scratch, TaskRecoverable, Workbook
  <2>4. /\ meta' \in [Task -> [old : Result, new : Result] \cup {None}]
        /\ meta'[t] = [old |-> results[t], new |-> answer[t]] /\ meta'[t] # None
    BY <1>d, <1>m, <2>1, <2>2, <2>3, ResultAssumption DEF DiskTypeOK
  <2>5. DiskTypeOK'
    BY <1>d, <2>1, <2>4 DEF DiskTypeOK
  <2>6. TaskRecoverable(t)'
    BY <2>1, <2>2, <2>3, <2>4 DEF TaskRecoverable, Prepared, NoConflict, PayloadsValid
  <2> QED BY <1>3, <1>r, <2>1, <2>4, <2>5, <2>6 DEF CandidateAfter, Cleaning,
     SweepLabel, Trusting
<1>4. CASE step.at = "check" /\ UNCHANGED disk
  <2>1. UNCHANGED <<predictions, outputs, traces, litter, workspace, payload, meta>>
    BY <1>4 DEF disk
  <2>2. DiskTypeOK' /\ TaskRecoverable(t)'
    BY <1>r, <1>d, <2>1 DEF DiskTypeOK, TaskRecoverable, Prepared, NoConflict,
       PayloadsValid
  <2> QED BY <1>4, <1>r, <2>1, <2>2 DEF CandidateAfter, Cleaning, SweepLabel, Trusting
<1>c. step.at \in Trusting =>
        /\ meta[t] # None /\ meta[t].new = answer[t] /\ answer[t] \in Success
        /\ meta[t].old \in Replayable
        /\ t \in workspace /\ NoConflict(t)
        /\ payload[t].new_output = Workbook(answer[t]) /\ payload[t].new_trace = answer[t]
  BY <1>t, <1>r DEF Candidate, Prepared, TaskRecoverable
<1>5. CASE step.at = "publish_output" /\ PublishOutput(t)
  <2>1. /\ UNCHANGED <<predictions, traces, litter, workspace, payload, meta>>
        /\ outputs' = [outputs EXCEPT ![t] = payload[t].new_output]
    BY <1>5 DEF PublishOutput
  <2>2. outputs' \in [Task -> Content \cup {None}] /\ outputs'[t] = Workbook(answer[t])
        /\ outputs'[t] = payload[t].new_output
    BY <1>5, <1>c, <1>d, <1>0, <1>m, <2>1 DEF DiskTypeOK, Trusting
  <2>3. DiskTypeOK'
    BY <1>d, <2>1, <2>2 DEF DiskTypeOK
  <2>4. TaskRecoverable(t)'
    BY <1>5, <1>c, <2>1, <2>2 DEF TaskRecoverable, Prepared, NoConflict, PayloadsValid,
       Trusting
  <2> QED BY <1>5, <1>r, <2>1, <2>2, <2>3, <2>4 DEF CandidateAfter, Cleaning,
     SweepLabel, Trusting
<1>6. CASE step.at = "publish_trace" /\ PublishTrace(t)
  <2>1. /\ UNCHANGED <<predictions, outputs, litter, workspace, payload, meta>>
        /\ traces' = [traces EXCEPT ![t] = payload[t].new_trace]
    BY <1>6 DEF PublishTrace
  <2>2. /\ traces' \in [Task -> Result \cup {None}] /\ traces'[t] = answer[t]
        /\ traces'[t] = payload[t].new_trace /\ outputs[t] = Workbook(answer[t])
    BY <1>6, <1>c, <1>d, <1>m, <1>t, <2>1 DEF DiskTypeOK, Trusting, Candidate
  <2>3. DiskTypeOK'
    BY <1>d, <2>1, <2>2 DEF DiskTypeOK
  <2>4. TaskRecoverable(t)'
    BY <1>6, <1>c, <2>1, <2>2 DEF TaskRecoverable, Prepared, NoConflict, PayloadsValid,
       Trusting
  <2> QED BY <1>6, <1>r, <2>1, <2>2, <2>3, <2>4 DEF CandidateAfter, Cleaning,
     SweepLabel, Trusting
<1>7. CASE step.at = "publish_prediction" /\ PublishPrediction(t)
  <2>1. /\ UNCHANGED <<outputs, traces, litter, workspace, payload, meta>>
        /\ predictions' = [predictions EXCEPT ![t] = meta[t].new]
    BY <1>7 DEF PublishPrediction
  <2>2. /\ predictions' \in [Task -> Result \cup {None}] /\ predictions'[t] = answer[t]
        /\ answer[t] \in Success /\ predictions'[t] = meta[t].new
        /\ outputs[t] = Workbook(answer[t]) /\ traces[t] = answer[t]
    BY <1>7, <1>c, <1>d, <1>m, <1>t, <2>1 DEF DiskTypeOK, Trusting, Candidate
  <2>3. DiskTypeOK'
    BY <1>d, <2>1, <2>2 DEF DiskTypeOK
  <2>4. TaskRecoverable(t)'
    BY <1>7, <1>c, <2>1, <2>2 DEF TaskRecoverable, Prepared, NoConflict, PayloadsValid,
       Trusting
  <2> QED BY <1>7, <2>1, <2>2, <2>3, <2>4 DEF CandidateAfter, Cleaning, SweepLabel,
     Trusting
<1>8. CASE step.at = "unlink_marker" /\ UnlinkMarker(t)
  <2>1. /\ UNCHANGED <<predictions, outputs, traces, litter, workspace, payload>>
        /\ meta' = [meta EXCEPT ![t] = None]
    BY <1>8 DEF UnlinkMarker
  <2>2. /\ meta' \in [Task -> [old : Result, new : Result] \cup {None}] /\ meta'[t] = None
    BY <1>d, <2>1 DEF DiskTypeOK
  <2>3. predictions[t] = answer[t] /\ outputs[t] = Workbook(answer[t]) /\ traces[t] = answer[t]
    BY <1>8, <1>t DEF Candidate
  <2>4. DiskTypeOK'
    BY <1>d, <2>1, <2>2 DEF DiskTypeOK
  <2>5. TaskRecoverable(t)'
    BY <2>1, <2>2, <2>3 DEF TaskRecoverable, Prepared
  <2> QED BY <1>8, <1>r, <2>1, <2>2, <2>3, <2>4, <2>5 DEF CandidateAfter, Cleaning,
     SweepLabel, Trusting
<1>9. CASE step.at \in {"unlink_payloads", "sweep_payloads"} /\ UnlinkPayloads(t)
  <2>1. /\ UNCHANGED <<predictions, outputs, traces, litter, workspace, meta>>
        /\ payload' = [payload EXCEPT ![t] = NoPayload]
    BY <1>9 DEF UnlinkPayloads
  <2>2. NoPayload \in Payloads
    BY DEF NoPayload, Payloads
  <2>3. DiskTypeOK'
    BY <1>d, <2>1, <2>2 DEF DiskTypeOK
  <2>4. meta[t] = None /\ (step.at \in Cleaning => predictions[t] = answer[t])
    BY <1>9, <1>p, <1>t DEF Trusting, Candidate
  <2>5. TaskRecoverable(t)'
    BY <1>r, <2>1, <2>4 DEF TaskRecoverable, Prepared
  <2> QED BY <1>9, <1>r, <2>1, <2>3, <2>4, <2>5 DEF CandidateAfter, Cleaning,
     SweepLabel, Trusting
<1>10. CASE step.at \in {"rmdir", "sweep_rmdir"} /\ RemoveDirectory(t)
  <2>1. /\ UNCHANGED <<predictions, outputs, traces, litter, payload, meta>>
        /\ workspace' = workspace \ {t}
    BY <1>10 DEF RemoveDirectory
  <2>3. DiskTypeOK'
    BY <1>d, <2>1 DEF DiskTypeOK
  <2>4. meta[t] = None /\ (step.at \in Cleaning => predictions[t] = answer[t])
    BY <1>10, <1>p, <1>t DEF Trusting, Candidate
  <2>5. TaskRecoverable(t)'
    BY <1>r, <2>1, <2>4 DEF TaskRecoverable, Prepared
  <2> QED BY <1>10, <1>r, <2>1, <2>3, <2>4, <2>5 DEF CandidateAfter, Cleaning,
     SweepLabel, Trusting
<1> QED BY <1>1, <1>2, <1>3, <1>4, <1>5, <1>6, <1>7, <1>8, <1>9, <1>10, CandidateEffect

(* The order of the steps of a candidate.                                  *)
LEMMA ReplayOrder ==
  ASSUME NEW r
  PROVE  /\ NextLabel("write_output", r) = AfterWrite(r)
         /\ NextLabel("write_trace", r) = "prepare"
         /\ NextLabel("prepare", r) = "check"
         /\ NextLabel("check", r) = "publish_output"
         /\ NextLabel("publish_output", r) = "publish_trace"
         /\ NextLabel("publish_trace", r) = "publish_prediction"
         /\ NextLabel("publish_prediction", r) = "unlink_marker"
         /\ NextLabel("unlink_marker", r) = "unlink_payloads"
         /\ NextLabel("unlink_payloads", r) = "rmdir"
         /\ NextLabel("sweep_payloads", r) = "sweep_rmdir"
<1>1. /\ NextLabel("write_output", r) = AfterWrite(r)
      /\ NextLabel("write_trace", r) = "prepare"
  BY DEF NextLabel
<1>2. ASSUME NEW l, l # "write_output", l # "write_trace" PROVE NextLabel(l, r) = Following[l]
  BY <1>2 DEF NextLabel
<1>3. /\ Following["prepare"] = "check" /\ Following["check"] = "publish_output"
      /\ Following["publish_output"] = "publish_trace"
      /\ Following["publish_trace"] = "publish_prediction"
      /\ Following["publish_prediction"] = "unlink_marker"
      /\ Following["unlink_marker"] = "unlink_payloads"
      /\ Following["unlink_payloads"] = "rmdir"
      /\ Following["sweep_payloads"] = "sweep_rmdir"
  BY DEF Following
<1> QED BY <1>1, <1>2, <1>3

(* What the loop knows of the tasks that are not the candidate.            *)
OtherTask(u) ==
  /\ ~Prepared(u) /\ predictions[u] # None
  /\ u \in retrying => predictions[u] \in Replayable \cup Success
  /\ u \in retrying \ published => Waiting(u)

LEMMA OthersWait ==
  ASSUME TypeOK, phase = "run", LoopOfReplay, ~Idle, Effect \/ UNCHANGED disk,
         NEW u \in Task, u # step.task,
         results'[u] = results[u], retrying' = retrying, published \subseteq published'
  PROVE  OtherTask(u)'
<1>1. OtherTask(u)
  BY DEF LoopOfReplay, OtherTask, InSection, Idle
<1>2. /\ predictions'[u] = predictions[u] /\ outputs'[u] = outputs[u]
      /\ traces'[u] = traces[u] /\ payload'[u] = payload[u] /\ meta'[u] = meta[u]
      /\ u \in workspace' <=> u \in workspace
  BY CandidateFrame DEF disk
<1> QED BY <1>1, <1>2 DEF OtherTask, Prepared, Waiting, Scratch

(* A candidate goes on to its next step.                                   *)
LEMMA CandidateGoesOn ==
  ASSUME TypeOK, phase = "run", LoopOfReplay, ~Idle, Verified, NEW t \in Task, t = step.task,
         CandidateAfter(t), ReplayContinue
  PROVE  /\ Candidate(t)' /\ (Prepared(t)' => InSection(t, Trusting)')
         /\ step' \in Steps /\ step' # None
<1>1. /\ step' = [at |-> NextLabel(step.at, answer[t]), task |-> t]
      /\ UNCHANGED <<retrying, published, answer, results>>
      /\ step.at # "rmdir" /\ step.at # "sweep_rmdir"
  BY DEF ReplayContinue, Goto, memory, At, Idle
<1>2. Candidate(t) /\ answer[t] \in Result \cup {None}
  BY DEF LoopOfReplay, Idle, TypeOK
<1>3. step'.at = NextLabel(step.at, answer[t]) /\ step'.task = t
  BY <1>1
<1>n. step'.at \in Label => step' \in Steps /\ step' # None
  BY <1>1, StepAssumption DEF Steps
<1>4. step.at \in ReplayLabel /\ t \in retrying \ published /\ t \in retrying' \ published'
  BY <1>1, <1>2 DEF Candidate
<1> USE DEF ReplayLabel, CommitLabel, SweepLabel, Trusting, Cleaning, Label, WriteLabel, TryLabel
<1>5. CASE step.at = "write_output"
  <2>1. /\ Scratch(t)' /\ predictions'[t] = predictions[t] /\ results[t] = predictions[t]
        /\ payload'[t].new_output = Workbook(answer[t]) /\ answer[t] \in Result
    BY <1>2, <1>5 DEF CandidateAfter, Candidate, Waiting
  <2>2. Waiting(t)' /\ ~Prepared(t)' /\ predictions'[t] \in Replayable
    BY <1>1, <2>1 DEF Waiting, Scratch
  <2>3. \/ answer[t] \in Success /\ step'.at = "write_trace"
        \/ step'.at = "sweep_payloads"
    BY <1>3, <1>5, ReplayOrder DEF AfterWrite
  <2> QED BY <1>1, <1>n, <1>3, <1>4, <2>1, <2>2, <2>3 DEF Candidate
<1>6. CASE step.at = "write_trace"
  <2>1. /\ Scratch(t)' /\ predictions'[t] = predictions[t] /\ results[t] = predictions[t]
        /\ payload'[t].new_output = Workbook(answer[t]) /\ payload'[t].new_trace = answer[t]
        /\ answer[t] \in Result /\ answer[t] \in Success
    BY <1>2, <1>6 DEF CandidateAfter, Candidate, Waiting
  <2>2. Waiting(t)' /\ ~Prepared(t)' /\ step'.at = "prepare"
    BY <1>1, <1>3, <1>6, <2>1, ReplayOrder DEF Waiting, Scratch
  <2> QED BY <1>1, <1>n, <1>3, <1>4, <2>1, <2>2 DEF Candidate
<1>7. CASE step.at = "prepare"
  <2>1. /\ meta'[t] = [old |-> results[t], new |-> answer[t]] /\ results[t] \in Replayable
        /\ answer[t] \in Success
    BY <1>2, <1>7 DEF CandidateAfter, Candidate, Waiting, Scratch
  <2>2. meta'[t] # None /\ meta'[t].new = answer[t] /\ meta'[t].old \in Replayable
    BY <2>1, ResultAssumption, ReplayAssumption
  <2>3. step'.at = "check"
    BY <1>3, <1>7, ReplayOrder
  <2> QED BY <1>1, <1>n, <1>3, <1>4, <2>1, <2>2, <2>3 DEF Candidate, Prepared, InSection
<1>8. CASE step.at \in {"check", "publish_output", "publish_trace", "publish_prediction"}
  <2>1. /\ meta'[t] = meta[t] /\ meta[t] # None /\ meta[t].new = answer[t]
        /\ meta[t].old \in Replayable /\ answer[t] \in Success
    BY <1>2, <1>8 DEF CandidateAfter, Candidate, Prepared
  <2>2. CASE step.at = "check"
    <3>1. step'.at = "publish_output"
      BY <1>3, <2>2, ReplayOrder
    <3> QED BY <1>1, <1>n, <1>3, <1>4, <2>1, <3>1 DEF Candidate, Prepared, InSection
  <2>3. CASE step.at = "publish_output"
    <3>1. step'.at = "publish_trace" /\ outputs'[t] = Workbook(answer[t])
      BY <1>3, <2>3, ReplayOrder DEF CandidateAfter
    <3> QED BY <1>1, <1>n, <1>3, <1>4, <2>1, <3>1 DEF Candidate, Prepared, InSection
  <2>4. CASE step.at = "publish_trace"
    <3>1. step'.at = "publish_prediction" /\ outputs'[t] = Workbook(answer[t]) /\ traces'[t] = answer[t]
      BY <1>3, <2>4, ReplayOrder DEF CandidateAfter
    <3> QED BY <1>1, <1>n, <1>3, <1>4, <2>1, <3>1 DEF Candidate, Prepared, InSection
  <2>5. CASE step.at = "publish_prediction"
    <3>1. /\ step'.at = "unlink_marker" /\ outputs'[t] = Workbook(answer[t]) /\ traces'[t] = answer[t]
          /\ predictions'[t] = answer[t]
      BY <1>3, <2>5, ReplayOrder DEF CandidateAfter
    <3> QED BY <1>1, <1>n, <1>3, <1>4, <2>1, <3>1 DEF Candidate, Prepared, InSection
  <2> QED BY <1>8, <2>2, <2>3, <2>4, <2>5
<1>9. CASE step.at \in {"unlink_marker", "unlink_payloads"}
  <2>1. meta'[t] = None /\ predictions'[t] = answer[t] /\ answer[t] \in Success
    BY <1>2, <1>9 DEF CandidateAfter, Candidate
  <2>2. step'.at \in Cleaning
    BY <1>3, <1>9, ReplayOrder
  <2> QED BY <1>1, <1>n, <1>3, <1>4, <2>1, <2>2 DEF Candidate, Prepared
<1>10. CASE step.at = "sweep_payloads"
  <2>1. meta'[t] = None /\ predictions'[t] = predictions[t] /\ predictions[t] \in Replayable
    BY <1>2, <1>10 DEF CandidateAfter, Candidate
  <2>2. step'.at = "sweep_rmdir"
    BY <1>3, <1>10, ReplayOrder
  <2> QED BY <1>1, <1>n, <1>3, <1>4, <2>1, <2>2 DEF Candidate, Prepared
<1> QED BY <1>1, <1>4, <1>5, <1>6, <1>7, <1>8, <1>9, <1>10

(* The loop stands as long as every task does, candidate or not.           *)
LEMMA LoopStands ==
  ASSUME TypeOK, phase = "run", LoopOfReplay, ~Idle, Verified, Effect, NEW t \in Task, t = step.task,
         UNCHANGED retrying, published \subseteq published',
         \A u \in Task : u # t => results'[u] = results[u],
         CandidateAfter(t),
         \/ Candidate(t)' /\ step'.task = t /\ step' # None /\ (Prepared(t)' => InSection(t, Trusting)')
         \/ step' = None /\ t \in published' /\ ~Prepared(t)'
  PROVE  LoopOfReplay'
<1>1. ASSUME NEW u \in Task, u # t PROVE OtherTask(u)'
  BY <1>1, OthersWait
<1>2. predictions'[t] # None /\ predictions'[t] \in Replayable \cup Success
  BY ResultAssumption, ReplayAssumption DEF CandidateAfter
<1>3. ASSUME NEW u \in Task
      PROVE  /\ (Prepared(u) => InSection(u, Trusting))'
             /\ predictions'[u] # None
             /\ u \in retrying' => predictions'[u] \in Replayable \cup Success
             /\ u \in retrying' \ published' /\ (step' = None \/ step'.task # u) => Waiting(u)'
  <2>1. CASE u = t
    BY <1>2, <2>1 DEF InSection
  <2>2. CASE u # t
    BY <1>1, <2>2 DEF OtherTask
  <2> QED BY <2>1, <2>2
<1> QED BY <1>3 DEF LoopOfReplay, Idle

(* No task loses its record.                                               *)
LEMMA CandidateRecoverable ==
  ASSUME TypeOK, Recoverable, phase = "run", LoopOfReplay, ~Idle, Verified, Effect
  PROVE  Recoverable' /\ DiskTypeOK'
<1>t. PICK t \in Task : t = step.task
  BY SectionTask
<1>1. CandidateAfter(t)
  BY <1>t, CandidateDisk
<1>2. ASSUME NEW u \in Task, u # t PROVE TaskRecoverable(u)'
  BY <1>t, <1>2, CandidateFrame, SameTask DEF Recoverable
<1> QED BY <1>1, <1>2 DEF Recoverable, CandidateAfter

(* The candidate is done with.                                             *)
LEMMA CandidateFinished ==
  ASSUME ReplayInv, phase = "run", ~Idle, Verified, Effect, NEW t \in Task, t = step.task,
         \/ step.at \in {"unlink_marker"} \cup Cleaning /\ FinishCommit(t)
         \/ /\ step.at \in SweepLabel /\ published' = published \cup {t}
            /\ UNCHANGED <<results, owned, worker>>,
         step' = None, UNCHANGED <<phase, retrying, answer, commitStarted, observed, raising>>
  PROVE  ReplayInv'
<1>1. /\ TypeOK /\ Recoverable /\ LoopOfReplay /\ commitStarted = {}
      /\ \A u \in Task : worker[u] = "none"
  BY DEF ReplayInv
<1>2. CandidateAfter(t) /\ Recoverable' /\ DiskTypeOK'
  BY <1>1, CandidateDisk, CandidateRecoverable
<1>3. ~Prepared(t)'
  BY <1>2 DEF CandidateAfter, Prepared
<1>4. /\ published' = published \cup {t} /\ UNCHANGED <<owned, worker>>
      /\ results' = results \/ results' = [results EXCEPT ![t] = answer[t]]
  BY DEF FinishCommit
<1>5. \A u \in Task : u # t => results'[u] = results[u]
  BY <1>1, <1>4 DEF TypeOK
<1>6. LoopOfReplay'
  BY <1>1, <1>2, <1>3, <1>4, <1>5, LoopStands
<1>7. TypeOK'
  BY <1>1, <1>2, <1>4 DEF TypeOK, Steps
<1> QED BY <1>1, <1>2, <1>4, <1>6, <1>7 DEF ReplayInv

LEMMA ReplayStepKeeps ==
  ASSUME ReplayInv, ReplayStep
  PROVE  ReplayInv'
<1>1. /\ TypeOK /\ Recoverable /\ LoopOfReplay /\ commitStarted = {} /\ phase = "run" /\ ~Idle
      /\ Verified /\ Effect /\ \A u \in Task : worker[u] = "none"
  BY DEF ReplayInv, ReplayStep
<1>t. PICK t \in Task : t = step.task
  BY <1>1, SectionTask
<1>2. CandidateAfter(t) /\ Recoverable' /\ DiskTypeOK'
  BY <1>1, <1>t, CandidateDisk, CandidateRecoverable
<1>3. CASE ReplayContinue
  <2>1. /\ Candidate(t)' /\ (Prepared(t)' => InSection(t, Trusting)')
        /\ step' \in Steps /\ step' # None /\ step'.task = t
    BY <1>1, <1>t, <1>2, <1>3, CandidateGoesOn DEF ReplayContinue, Goto
  <2>2. UNCHANGED <<phase, memory>>
    BY <1>3 DEF ReplayContinue
  <2>3. LoopOfReplay'
    BY <1>1, <1>t, <1>2, <2>1, <2>2, LoopStands DEF memory
  <2>4. TypeOK'
    BY <1>1, <1>2, <2>1, <2>2 DEF TypeOK, memory
  <2> QED BY <1>1, <1>2, <2>2, <2>3, <2>4 DEF ReplayInv, memory
<1>4. CASE ReplayReturn
  BY <1>1, <1>t, <1>4, CandidateFinished
     DEF ReplayReturn, CandidateDone, At, Cleaning, SweepLabel
<1> QED BY <1>3, <1>4 DEF ReplayStep

(* The writer is given the next stored response.                           *)
LEMMA ReplayNextKeeps ==
  ASSUME ReplayInv, NEW t \in Task, NEW r \in Result, ReplayNext(t, r)
  PROVE  ReplayInv'
<1>1. /\ TypeOK /\ Recoverable /\ LoopOfReplay /\ commitStarted = {} /\ phase = "run" /\ Idle
      /\ \A u \in Task : worker[u] = "none"
      /\ t \in retrying \ published
  BY DEF ReplayInv, ReplayNext
<1>2. /\ answer' = [answer EXCEPT ![t] = r] /\ step' = [at |-> "write_output", task |-> t]
      /\ UNCHANGED <<disk, phase, results, retrying, owned, worker, published,
                     commitStarted, observed, raising>>
  BY DEF ReplayNext, Begin
<1>3. step' \in Steps /\ step' # None /\ step'.at = "write_output" /\ step'.task = t
  BY <1>2, StepAssumption DEF Steps, Label, WriteLabel, TryLabel
<1>4. TypeOK' /\ Recoverable'
  BY <1>1, <1>2, <1>3 DEF TypeOK, DiskTypeOK, disk, Recoverable, TaskRecoverable,
     Prepared,
     NoConflict, PayloadsValid
<1>5. ASSUME NEW u \in Task PROVE OtherTask(u)' \/ (u = t /\ Waiting(t)' /\ ~Prepared(t)')
  <2>1. ~Prepared(u) /\ predictions[u] # None
    BY <1>1 DEF LoopOfReplay, InSection, Idle
  <2> QED BY <1>1, <1>2, <2>1 DEF LoopOfReplay, OtherTask, Waiting, Scratch, Prepared,
     disk
<1>6. Waiting(t)' /\ answer'[t] \in Result /\ t \in retrying' \ published'
  BY <1>1, <1>2 DEF LoopOfReplay, Waiting, Scratch, Prepared, disk, TypeOK
<1>7. Candidate(t)'
  BY <1>3, <1>6 DEF Candidate, ReplayLabel, Trusting, Cleaning, SweepLabel
<1>8. LoopOfReplay'
  <2>1. ASSUME NEW u \in Task
        PROVE  ~Prepared(u)' /\ predictions'[u] # None
               /\ (u \in retrying' => predictions'[u] \in Replayable \cup Success)
               /\ (u \in retrying' \ published' => Waiting(u)')
    BY <1>5, <1>6, ResultAssumption, ReplayAssumption DEF OtherTask, Waiting, Scratch
  <2> QED BY <1>3, <1>7, <2>1 DEF LoopOfReplay
<1> QED BY <1>1, <1>2, <1>4, <1>8 DEF ReplayInv

-----------------------------------------------------------------------------
(* The ends of a replay, and what goes wrong in it.                        *)

(* The process ends: the directory remains.                                *)
LEMMA SessionExits ==
  ASSUME TypeOK, Recoverable, Exit, litter' \subseteq Place,
         UNCHANGED <<predictions, outputs, traces, workspace, payload, meta>>
  PROVE  IInv' /\ phase' = "down"
<1>1. /\ phase' = "down" /\ step' = None /\ owned' = {} /\ commitStarted' = {} /\ published' = {}
      /\ worker' = [t \in Task |-> "none"] /\ results' = Nobody /\ answer' = Nobody /\ raising' = FALSE
      /\ retrying' = {} /\ observed' = {}
  BY DEF Exit
<1>2. TypeOK'
  BY <1>1 DEF TypeOK, DiskTypeOK, Nobody, Phase, WorkerState, Steps
<1>3. Recoverable'
  BY DEF Recoverable, TaskRecoverable, Prepared, NoConflict, PayloadsValid
<1>4. PhaseInv' /\ CommitInv' /\ BeforeRunInv' /\ CreateInv'
  BY <1>1 DEF PhaseInv, CommitInv, BeforeRunInv, CreateInv
<1>5. PreparedInv' /\ WorkInv' /\ LoopInv'
  BY <1>1 DEF PreparedInv, WorkInv, LoopInv, RunPhases
<1> QED BY <1>1, <1>2, <1>3, <1>4, <1>5 DEF IInv

(* The loop is done: nothing is prepared, and every candidate has an       *)
(* outcome.                                                                *)
LEMMA ReplayDoneKeeps ==
  ASSUME ReplayInv, ReplayDone
  PROVE  IInv' /\ (phase' # "down" => ReplayInv')
<1>1. /\ TypeOK /\ Recoverable /\ LoopOfReplay /\ commitStarted = {} /\ phase = "run" /\ Idle
      /\ \A u \in Task : worker[u] = "none"
      /\ UNCHANGED disk
  BY DEF ReplayInv, ReplayDone
<1>2. \A t \in Task : ~Prepared(t) /\ predictions[t] # None
  BY <1>1 DEF LoopOfReplay, InSection, Idle
<1>3. CASE Exit
  BY <1>1, <1>3, SessionExits DEF disk, TypeOK, DiskTypeOK
<1>4. CASE ~Exit
  <2>1. /\ phase' = "final" /\ results' = predictions
        /\ UNCHANGED <<step, retrying, owned, worker, answer, published,
                       commitStarted, observed, raising>>
    BY <1>4 DEF ReplayDone, Enter
  <2>2. TypeOK' /\ Recoverable'
    BY <1>1, <2>1 DEF TypeOK, DiskTypeOK, disk, Phase, Recoverable, TaskRecoverable,
       Prepared,
       NoConflict, PayloadsValid
  <2>3. PhaseInv' /\ CommitInv' /\ BeforeRunInv' /\ CreateInv'
    BY <1>1, <2>1 DEF PhaseInv, CommitInv, BeforeRunInv, CreateInv, Idle
  <2>4. PreparedInv' /\ WorkInv' /\ LoopInv'
    BY <1>1, <1>2, <2>1 DEF PreparedInv, Prepared, WorkInv, LoopInv, RunPhases, disk
  <2>5. Missing' = {} /\ \A t \in retrying' : predictions'[t] \in Replayable \cup Success
    BY <1>1, <1>2, <2>1 DEF Missing, disk, LoopOfReplay, TypeOK
  <2>6. results' = predictions'
    BY <1>1, <2>1 DEF disk
  <2> QED BY <1>1, <2>1, <2>2, <2>3, <2>4, <2>5, <2>6 DEF IInv, ReplayInv
<1> QED BY <1>3, <1>4

(* An exception in the loop: the workspaces without a marker are given up. *)
LEMMA ReplayRaiseKeeps ==
  ASSUME ReplayInv, phase = "run", ~Idle, (Verified /\ Effect) \/ UNCHANGED disk, ReplayRaise
  PROVE  ReplayInv'
<1>1. /\ TypeOK /\ Recoverable /\ LoopOfReplay /\ commitStarted = {}
      /\ \A u \in Task : worker[u] = "none"
  BY DEF ReplayInv
<1>t. PICK t \in Task : t = step.task
  BY <1>1, SectionTask
<1>2. Recoverable' /\ DiskTypeOK'
  <2>1. CASE Verified /\ Effect
    BY <1>1, <2>1, CandidateRecoverable
  <2>2. CASE UNCHANGED disk
    BY <1>1, <2>2 DEF disk, TypeOK, DiskTypeOK, Recoverable, TaskRecoverable, Prepared,
       NoConflict, PayloadsValid
  <2> QED BY <2>1, <2>2
<1>3. CASE LeaveReplay
  <2>1. /\ phase' = "undo" /\ step' = None /\ owned' = Unprepared
        /\ UNCHANGED <<results, retrying, worker, answer, published, commitStarted, observed, raising>>
    BY <1>3 DEF LeaveReplay, Enter
  <2>2. owned' \subseteq Task /\ \A u \in owned' : ~Prepared(u)'
    BY <1>1, <2>1 DEF Unprepared, Prepared, TypeOK
  <2>3. Undoing'
    BY <2>1, <2>2 DEF Undoing
  <2>4. TypeOK'
    BY <1>1, <1>2, <2>1, <2>2 DEF TypeOK, Phase, Steps
  <2> QED BY <1>1, <1>2, <2>1, <2>3, <2>4 DEF ReplayInv
<1>4. CASE ~LeaveReplay
  <2>1. /\ step.at \in CommitLabel /\ meta'[t] = None /\ FinishCommit(t) /\ step' = None
        /\ UNCHANGED <<phase, retrying, answer, commitStarted, observed, raising>>
    BY <1>t, <1>4 DEF ReplayRaise
  <2>2. Candidate(t) /\ (step.at \in Trusting => meta[t] # None)
    BY <1>1, <1>t DEF LoopOfReplay, Idle, Candidate, Prepared
  <2>3. CASE Verified /\ Effect
    <3>1. CandidateAfter(t)
      BY <1>1, <1>t, <2>3, CandidateDisk
    <3>2. step.at \notin {"check", "publish_output", "publish_trace", "publish_prediction"}
      BY <2>1, <2>2, <3>1 DEF CandidateAfter, Trusting
    <3>3. step.at \in {"unlink_marker"} \cup Cleaning
      BY <2>1, <3>2 DEF CommitLabel, Cleaning
    <3> QED BY <1>t, <2>1, <2>3, <3>3, CandidateFinished
  <2>4. CASE UNCHANGED disk
    <3>1. meta'[t] = meta[t] /\ ~Prepared(t) /\ ~Prepared(t)'
      BY <2>1, <2>4 DEF disk, Prepared
    <3>2. step.at \in Cleaning /\ predictions[t] = answer[t] /\ answer[t] \in Success
      BY <2>1, <2>2, <3>1 DEF Candidate, CommitLabel, Cleaning, Trusting, Prepared
    <3>3. /\ published' = published \cup {t} /\ UNCHANGED <<owned, worker>>
          /\ results' = [results EXCEPT ![t] = answer[t]]
      BY <2>1 DEF FinishCommit
    <3>4. ASSUME NEW u \in Task, u # t PROVE OtherTask(u)'
      <4>1. results'[u] = results[u]
        BY <1>1, <3>3, <3>4 DEF TypeOK
      <4> QED BY <1>1, <1>t, <2>1, <2>4, <3>3, <3>4, <4>1, OthersWait
    <3>5. predictions'[t] \in Success /\ predictions'[t] # None /\ t \in published'
      BY <3>2, <3>3, <2>4, ResultAssumption DEF disk
    <3>6. ASSUME NEW u \in Task
          PROVE  ~Prepared(u)' /\ predictions'[u] # None
                 /\ (u \in retrying' => predictions'[u] \in Replayable \cup Success)
                 /\ (u \in retrying' \ published' => Waiting(u)')
      BY <3>1, <3>4, <3>5 DEF OtherTask
    <3>7. LoopOfReplay'
      BY <2>1, <3>6 DEF LoopOfReplay
    <3>8. TypeOK'
      BY <1>1, <1>2, <2>1, <3>3 DEF TypeOK, Steps
    <3> QED BY <1>1, <1>2, <2>1, <3>3, <3>7, <3>8 DEF ReplayInv
  <2> QED BY <2>3, <2>4
<1> QED BY <1>3, <1>4

(* An exception before the loop, in a section that a run has as well.      *)
LEMMA SharedRaiseKeeps ==
  ASSUME ReplayInv, phase \notin {"run", "undo"}, ~Idle,
         (Verified /\ Effect) \/ UNCHANGED disk, Raise
  PROVE  IInv' /\ (phase' # "down" => ReplayInv')
<1>1. IInv /\ TypeOK /\ commitStarted = {} /\ \A t \in Task : worker[t] = "none"
  BY DEF ReplayInv
<1>2. phase \in {"recover", "create"}
  BY <1>1 DEF ReplayInv, IInv, PhaseInv, Idle
<1>3. DiskTypeOK' /\ Recoverable'
  <2>1. CASE Verified /\ Effect
    BY <1>1, <2>1, EffectTypeOK, EffectRecoverable DEF IInv
  <2>2. CASE UNCHANGED disk
    BY <1>1, <2>2 DEF disk, IInv, TypeOK, DiskTypeOK, Recoverable, TaskRecoverable,
       Prepared,
       NoConflict, PayloadsValid
  <2> QED BY <2>1, <2>2
<1>4. IInv'
  BY <1>1, <1>3, RaiseKeeps
<1>5. step.at \in CreateLabel \cup CommitLabel \cup SweepLabel
  BY <1>1, <1>2 DEF IInv, TypeOK, PhaseInv, Idle, Steps, Label, PublishPhases
<1>6. ~RaiseInWorker(step.task) /\ ~RaiseBeforeCommit
  BY <1>5 DEF RaiseInWorker, RaiseBeforeCommit, At, CreateLabel, CommitLabel,
     SweepLabel, TryLabel,
     FallbackLabel
<1>7. \/ phase' = "down"
      \/ /\ phase = "recover" /\ phase' = "recover" /\ UNCHANGED <<commitStarted, worker>>
      \/ /\ phase' = "undo" /\ UNCHANGED <<commitStarted, worker, owned>>
         /\ step' = None \/ step' = [at |-> "sweep_payloads", task |-> step.task]
  <2>1. CASE RaiseInCreate(step.task)
    BY <2>1 DEF RaiseInCreate, Enter, Goto, memory
  <2>2. CASE RaiseInCommit(step.task)
    <3>1. phase = "recover"
      BY <1>1, <1>2, <2>2 DEF RaiseInCommit, At, IInv, PhaseInv, PublishPhases
    <3> QED BY <2>2, <3>1 DEF RaiseInCommit, RaiseInPublish, FinishCommit, Exit
  <2>3. CASE RaiseInSweep
    BY <1>2, <2>3 DEF RaiseInSweep, Exit
  <2> QED BY <1>6, <2>1, <2>2, <2>3 DEF Raise
<1>8. phase' = "undo" => Undoing'
  <2> SUFFICES ASSUME phase' = "undo" PROVE Undoing'
    OBVIOUS
  <2>1. \A t \in Task : ~Prepared(t)'
    BY <1>4 DEF IInv, PreparedInv
  <2>2. owned' \subseteq Task /\ (step' # None => step'.task \in Task)
    BY <1>4 DEF IInv, TypeOK, Steps
  <2>3. step' # None => step'.at \in SweepLabel
    BY <1>2, <1>7 DEF SweepLabel
  <2> QED BY <2>1, <2>2, <2>3 DEF Undoing, Prepared
<1> QED BY <1>1, <1>3, <1>4, <1>7, <1>8 DEF ReplayInv, IInv

-----------------------------------------------------------------------------
(* Every step of every session.                                            *)

(* A replay goes on, or its process has ended.                             *)
Continued == (phase' = "down" /\ IInv') \/ (phase' # "down" /\ ReplayInv')

LEMMA ProgressKeeps ==
  ASSUME ReplayInv, ReplayProgress
  PROVE  Continued
<1>e. TypeOK /\ Recoverable /\ litter \subseteq Place
  BY DEF ReplayInv, TypeOK, DiskTypeOK
<1>p. ReplayInv' => phase' # "down"
  BY DEF ReplayInv
<1>1. CASE Shared /\ phase \notin {"run", "undo"}
  BY <1>1, SharedKeeps DEF Continued
<1>2. CASE Shared /\ phase = "run"
  BY <1>2 DEF Shared, RejectRoot, OpenRoot, RecoverDone, RejectDirectory, UndoDone,
     Report,
     RecoverNext, CreateNext, UndoNext
<1>3. CASE Shared /\ phase = "undo"
  <2>1. UndoDone \/ (\E t \in Task : UndoNext(t)) \/ DoStep
    BY <1>3 DEF Shared, RejectRoot, OpenRoot, RecoverDone, RejectDirectory, Report,
       RecoverNext, CreateNext
  <2>2. CASE UndoDone
    BY <1>e, <2>2, SessionExits DEF UndoDone, disk, Continued
  <2> QED BY <1>p, <1>3, <2>1, <2>2, UndoKeeps DEF Continued
<1>4. CASE RejectIncomplete
  BY <1>e, <1>4, SessionExits DEF RejectIncomplete, disk, Continued
<1>5. CASE AcceptReplay \/ LoadSources
  BY <1>p, <1>5, AcceptKeeps, LoadKeeps DEF Continued
<1>6. CASE ReplayDone
  BY <1>6, ReplayDoneKeeps DEF Continued
<1>7. CASE ReplayStep
  BY <1>p, <1>7, ReplayStepKeeps DEF Continued
<1>8. CASE \E t \in Task, r \in Result : ReplayNext(t, r)
  BY <1>p, <1>8, ReplayNextKeeps DEF Continued
<1> QED BY <1>1, <1>2, <1>3, <1>4, <1>5, <1>6, <1>7, <1>8 DEF ReplayProgress

LEMMA ReplayErrorKeeps ==
  ASSUME ReplayInv, ReplayError
  PROVE  Continued
<1>1. ~Idle /\ ((Verified /\ Effect) \/ UNCHANGED disk)
  BY DEF ReplayError
<1>p. ReplayInv' => phase' # "down"
  BY DEF ReplayInv
<1>2. CASE phase = "run"
  <2>1. ReplayRaise
    BY <1>2 DEF ReplayError
  <2> QED BY <1>p, <1>1, <1>2, <2>1, ReplayRaiseKeeps DEF Continued
<1>3. CASE phase # "run"
  <2>1. Raise
    BY <1>3 DEF ReplayError
  <2>2. CASE phase = "undo"
    BY <1>p, <1>1, <2>1, <2>2, UndoKeeps DEF Continued
  <2>3. CASE phase # "undo"
    BY <1>1, <1>3, <2>1, <2>3, SharedRaiseKeeps DEF Continued
  <2> QED BY <2>2, <2>3
<1> QED BY <1>2, <1>3

LEMMA SessionInitInv == SessionInit => SessionInv
  BY InitInv DEF SessionInit, SessionInv

LEMMA SessionKeeps == SessionInv /\ [SessionNext]_sessionVars => SessionInv'
<1> SUFFICES ASSUME SessionInv, [SessionNext]_sessionVars PROVE SessionInv'
  OBVIOUS
<1>1. CASE Running(Next)
  <2>1. IInv /\ ~replaying /\ ~replaying' /\ [Next]_vars
    BY <1>1 DEF Running, SessionInv
  <2>2. IInv'
    BY <2>1, NextKeeps
  <2> QED BY <2>1, <2>2 DEF SessionInv
<1>2. CASE StartReplay
  <2>1. StartSession /\ replaying' /\ phase = "down" /\ phase' = "resume"
        /\ UNCHANGED <<commitStarted, worker>>
    BY <1>2 DEF StartReplay, StartSession, Enter, memory
  <2>2. IInv
    BY <2>1 DEF SessionInv, ReplayInv
  <2>3. [Next]_vars
    BY <2>1 DEF Next, Environment
  <2>4. IInv'
    BY <2>2, <2>3, NextKeeps
  <2>5. commitStarted = {} /\ \A t \in Task : worker[t] = "none"
    BY <2>1, <2>2 DEF IInv, BeforeRunInv
  <2>6. TypeOK' /\ Recoverable'
    BY <2>4 DEF IInv
  <2> QED BY <2>1, <2>4, <2>5, <2>6 DEF SessionInv, ReplayInv
<1>3. CASE replaying /\ replaying' = (phase' # "down") /\ Continued
  BY <1>3 DEF SessionInv, Continued
<1>4. ASSUME replaying PROVE ReplayInv
  BY <1>4 DEF SessionInv
<1>5. CASE Replaying(ReplayProgress)
  BY <1>3, <1>4, <1>5, ProgressKeeps DEF Replaying
<1>6. CASE Replaying(SourceUnreadable)
  <2>1. ReplayInv' /\ replaying /\ replaying' = (phase' # "down")
    BY <1>4, <1>6, LoadKeeps DEF Replaying
  <2>2. Continued
    BY <2>1 DEF Continued, ReplayInv
  <2> QED BY <1>3, <2>1, <2>2
<1>7. CASE Replaying(ReplayError)
  BY <1>3, <1>4, <1>7, ReplayErrorKeeps DEF Replaying
<1>8. CASE Replaying(ReplayKill)
  <2>1. ReplayInv /\ ReplayKill /\ replaying /\ replaying' = (phase' # "down")
    BY <1>4, <1>8 DEF Replaying
  <2>2. litter' \subseteq Place /\ TypeOK /\ Recoverable
    BY <2>1 DEF ReplayInv, ReplayKill, TypeOK, DiskTypeOK, Place, TemporaryPlace, Checking
  <2>3. IInv' /\ phase' = "down"
    BY <2>1, <2>2, SessionExits DEF ReplayKill
  <2> QED BY <2>1, <2>3 DEF SessionInv
<1>9. CASE UNCHANGED sessionVars
  <2>1. replaying' = replaying /\ [Next]_vars /\ UNCHANGED vars
    BY <1>9 DEF sessionVars
  <2>2. IInv => IInv'
    BY <2>1, NextKeeps
  <2>3. ReplayInv => ReplayInv'
    <3> SUFFICES ASSUME ReplayInv PROVE ReplayInv'
      OBVIOUS
    <3> USE <2>1 DEF vars, memory, disk, Prepared
    <3>1. TypeOK' /\ Recoverable'
      BY DEF ReplayInv, TypeOK, DiskTypeOK, Recoverable, TaskRecoverable, NoConflict,
         PayloadsValid
    <3>2. LoopOfReplay => LoopOfReplay'
      BY DEF LoopOfReplay, Candidate, Waiting, Scratch, InSection, Idle
    <3>3. Undoing => Undoing'
      BY DEF Undoing
    <3>4. Eligible' = Eligible /\ Missing' = Missing
      BY DEF Eligible, Missing
    <3> QED BY <2>2, <3>1, <3>2, <3>3, <3>4 DEF ReplayInv
  <2> QED BY <2>1, <2>2, <2>3 DEF SessionInv
<1> QED BY <1>1, <1>2, <1>5, <1>6, <1>7, <1>8, <1>9 DEF SessionNext

(* The invariant of the sessions: while a replay is under way, ReplayInv;  *)
(* otherwise, what a run relies on.                                        *)
THEOREM SessionsAreSound == SessionSpec => []SessionInv
<1> QED BY SessionInitInv, SessionKeeps, PTL DEF SessionSpec

(* Memory and directory stay well formed, replays or not.                  *)
THEOREM SessionTypes == SessionSpec => []TypeOK
<1>1. SessionInv => TypeOK
  BY DEF SessionInv, ReplayInv, IInv
<1> QED BY <1>1, SessionsAreSound, PTL

(* The directory is repairable at every instant of every session: a replay *)
(* that is killed or fails between any two of its durable steps leaves no  *)
(* artefacts that do not belong together without the journal that says     *)
(* what they are to become (artifacts.py, commit_retry_transaction;        *)
(* replay.py, replay_stored_responses).                                    *)
THEOREM SessionsAreRecoverable == SessionSpec => []Recoverable
<1>1. SessionInv => Recoverable
  BY DEF SessionInv, ReplayInv, IInv
<1> QED BY <1>1, SessionsAreSound, PTL

(* What a replay reports is on the disk, with no candidate half done       *)
(* (replay.py, replay_stored_responses; cli.py, _run_owned).               *)
THEOREM ReplaysReportTheDirectory == SessionSpec => []ReplayReports
<1>1. SessionInv => ReplayReports
  <2> SUFFICES ASSUME SessionInv, replaying, phase = "final"
               PROVE  /\ results = predictions /\ Missing = {}
                      /\ \A t \in Task : ~Prepared(t)
                      /\ \A t \in retrying : predictions[t] \in Replayable \cup Success
    BY DEF ReplayReports
  <2>1. ReplayInv /\ IInv
    BY DEF SessionInv, ReplayInv
  <2>2. \A t \in Task : ~Prepared(t)
    BY <2>1 DEF IInv, PreparedInv
  <2> QED BY <2>1, <2>2 DEF ReplayInv
<1> QED BY <1>1, SessionsAreSound, PTL

-----------------------------------------------------------------------------
(* What a replay may change.                                               *)

Canonical == <<predictions, outputs, traces, meta>>

(* A replay session changes records and artefacts by durable steps only.   *)
LEMMA ReplayChanges ==
  ASSUME SessionInv, [SessionNext]_sessionVars, replaying
  PROVE  UNCHANGED Canonical \/ (~Idle /\ Verified /\ Effect)
<1>1. ReplayInv /\ phase # "down"
  BY DEF SessionInv, ReplayInv
<1>2. CASE Shared
  BY <1>2 DEF Shared, RejectRoot, OpenRoot, RecoverDone, RejectDirectory, UndoDone,
     Report,
     RecoverNext, CreateNext, UndoNext, DoStep, disk, Canonical
<1>3. CASE RejectIncomplete \/ AcceptReplay \/ LoadSources \/ SourceUnreadable \/ ReplayDone
  BY <1>3 DEF RejectIncomplete, AcceptReplay, LoadSources, SourceUnreadable,
     ReplayDone, disk, Canonical
<1>4. CASE ReplayStep \/ (\E t \in Task, r \in Result : ReplayNext(t, r)) \/ ReplayError \/ ReplayKill
  BY <1>4 DEF ReplayStep, ReplayNext, ReplayError, ReplayKill, disk, Canonical
<1>5. CASE UNCHANGED sessionVars
  BY <1>5 DEF sessionVars, vars, disk, Canonical
<1>6. ~StartReplay /\ ~Running(Next)
  BY <1>1 DEF StartReplay, StartSession, Running
<1> QED BY <1>2, <1>3, <1>4, <1>5, <1>6 DEF SessionNext, Replaying, ReplayProgress

(* Recovery settles nothing: what it publishes was settled by its marker.  *)
LEMMA RecoveryKeepsSettled ==
  ASSUME IInv, phase = "recover", ~Idle, Verified, Effect, NEW u \in Task
  PROVE  Settled(u)' = Settled(u)
<1>t. PICK t \in Task : t = step.task
  BY SectionTask DEF IInv
<1>1. step.at \in CommitLabel \cup SweepLabel
  BY DEF IInv, TypeOK, PhaseInv, Idle, Steps, Label, PublishPhases
<1>2. CASE At("publish_prediction") /\ PublishPrediction(t)
  <2>1. Prepared(t) /\ meta' = meta /\ (u # t => predictions'[u] = predictions[u])
    BY <1>2, <1>t DEF IInv, CommitInv, At, Trusting, PublishPrediction, TypeOK, DiskTypeOK
  <2> QED BY <2>1 DEF Settled, Prepared
<1>3. CASE At("unlink_marker") /\ UnlinkMarker(t)
  <2>1. /\ predictions[t] = meta[t].new /\ Prepared(t) /\ predictions' = predictions
        /\ meta'[t] = None /\ (u # t => meta'[u] = meta[u])
    BY <1>3, <1>t DEF IInv, CommitInv, At, Trusting, UnlinkMarker, TypeOK, DiskTypeOK
  <2> QED BY <2>1 DEF Settled, Prepared
<1>4. CASE UNCHANGED <<predictions, meta>>
  BY <1>4 DEF Settled, Prepared
<1> QED
  BY <1>t, <1>1, <1>2, <1>3, <1>4
     DEF Effect, OutputStep, TraceStep, At, CommitLabel, SweepLabel, disk,
     PublishOutput, PublishTrace,
         UnlinkPayloads, RemoveDirectory

(* The loop settles its candidate, by the marker, and touches the          *)
(* canonical workbook and trace only of one that is settled.               *)
LEMMA CandidateSettles ==
  ASSUME TypeOK, Recoverable, phase = "run", LoopOfReplay, ~Idle, Verified, Effect, NEW u \in Task
  PROVE  /\ Settled(u)' # Settled(u) => Settled(u) \in Replayable /\ Settled(u)' \in Success
         /\ <<outputs[u], traces[u]>>' # <<outputs[u], traces[u]>> => Settled(u) \in Success
<1>1. CASE u # step.task
  BY <1>1, CandidateFrame DEF Settled, Prepared
<1>2. CASE u = step.task
  <2>1. Candidate(u) /\ (step.at \notin Trusting => ~Prepared(u))
    BY <1>2 DEF LoopOfReplay, Idle, InSection
  <2>2. CASE step.at = "prepare" /\ WriteMarker(u, results[u], answer[u])
    <3>1. /\ ~Prepared(u) /\ predictions[u] \in Replayable /\ answer[u] \in Success
      BY <2>1, <2>2 DEF Candidate, Waiting, Scratch
    <3>2. /\ meta'[u] = [old |-> results[u], new |-> answer[u]] /\ meta'[u] # None
          /\ UNCHANGED <<outputs, traces>>
      BY <1>2, <2>1, <2>2, <3>1, ResultAssumption, ReplayAssumption, CandidateDisk
         DEF CandidateAfter, WriteMarker, Candidate, Waiting, Scratch
    <3> QED BY <3>1, <3>2 DEF Settled, Prepared
  <2>3. CASE step.at \in {"publish_output", "publish_trace", "publish_prediction"}
    <3>1. Prepared(u) /\ meta[u].new = answer[u] /\ answer[u] \in Success /\ meta'[u] = meta[u]
      BY <1>2, <2>1, <2>3, CandidateDisk DEF Candidate, CandidateAfter, Trusting
    <3> QED BY <3>1 DEF Settled, Prepared
  <2>4. CASE step.at = "unlink_marker" /\ UnlinkMarker(u)
    <3>1. /\ Prepared(u) /\ meta[u].new = answer[u] /\ predictions[u] = answer[u]
          /\ meta'[u] = None /\ UNCHANGED <<predictions, outputs, traces>>
      BY <1>2, <2>1, <2>4, CandidateDisk DEF Candidate, CandidateAfter, Trusting,
         UnlinkMarker
    <3> QED BY <3>1 DEF Settled, Prepared
  <2>5. CASE UNCHANGED Canonical
    BY <2>5 DEF Canonical, Settled, Prepared
  <2> QED BY <1>2, <2>2, <2>3, <2>4, <2>5, CandidateEffect
          DEF Canonical, StageOutput, StageTrace, UnlinkPayloads, RemoveDirectory, disk
<1> QED BY <1>1, <1>2

(* A replay repairs, and does nothing else.                                *)
LEMMA ReplayRepairs ==
  ASSUME SessionInv, [SessionNext]_sessionVars, replaying, NEW u \in Task
  PROVE  /\ Settled(u)' # Settled(u) => Settled(u) \in Replayable /\ Settled(u)' \in Success
         /\ phase # "recover" /\ <<outputs[u], traces[u]>>' # <<outputs[u], traces[u]>> =>
              Settled(u) \in Success
<1>1. ReplayInv /\ TypeOK /\ Recoverable
  BY DEF SessionInv, ReplayInv
<1>2. CASE UNCHANGED Canonical
  BY <1>2 DEF Canonical, Settled, Prepared
<1>3. CASE ~Idle /\ Verified /\ Effect
  <2>1. CASE phase = "run"
    BY <1>1, <1>3, <2>1, CandidateSettles DEF ReplayInv
  <2>2. CASE phase = "recover"
    BY <1>1, <1>3, <2>2, RecoveryKeepsSettled DEF ReplayInv
  <2>3. CASE phase = "create"
    <3>1. UNCHANGED Canonical
      BY <1>1, <1>3, <2>3, CreationKeepsRecords DEF ReplayInv, Canonical
    <3> QED BY <3>1 DEF Canonical, Settled, Prepared
  <2>4. CASE phase = "undo"
    <3>1. step.at \in SweepLabel
      BY <1>1, <1>3, <2>4 DEF ReplayInv, Undoing, Idle
    <3>2. UNCHANGED Canonical
      BY <1>3, <3>1 DEF Effect, OutputStep, TraceStep, At, SweepLabel, UnlinkPayloads,
         RemoveDirectory, Canonical
    <3> QED BY <3>2 DEF Canonical, Settled, Prepared
  <2>5. CASE phase \notin {"run", "recover", "create", "undo"}
    BY <1>1, <1>3, <2>5 DEF ReplayInv, IInv, PhaseInv, Idle
  <2> QED BY <2>1, <2>2, <2>3, <2>4, <2>5
<1> QED BY <1>2, <1>3, ReplayChanges

(* A replay replaces failed writes by successes and changes nothing else,  *)
(* wherever it is killed or fails; only recovery, at its start, publishes  *)
(* for another session (replay.py, replay_stored_responses).               *)
THEOREM ReplaysOnlyRepair == SessionSpec => ReplayOnlyRepairs
<1>1. SessionInv /\ [SessionNext]_sessionVars =>
        [replaying =>
          \A t \in Task :
            /\ Settled(t)' # Settled(t) => Settled(t) \in Replayable /\ Settled(t)' \in Success
            /\ phase # "recover" /\ <<outputs[t], traces[t]>>' # <<outputs[t], traces[t]>> =>
                 Settled(t) \in Success]_sessionVars
  BY ReplayRepairs
<1> QED BY <1>1, SessionsAreSound, PTL DEF SessionSpec, ReplayOnlyRepairs

(* Runs and replays, killed or not, are together one sequence of whole     *)
(* replacements of failures: no replay takes a settled success back, and   *)
(* no run takes back what a replay has settled.                            *)
THEOREM SessionsImplementLedger == SessionSpec => ImplementsLedger
<1> DEFINE settled == [t \in Task |-> Settled(t)]
<1>1. SessionInit => settled = [t \in Task |-> None]
  BY DEF SessionInit, Init, DiskInit, Settled, Prepared
<1>2. SessionInv /\ SessionInv' /\ [SessionNext]_sessionVars => [Ledger!Settle]_settled
  <2> SUFFICES ASSUME SessionInv, SessionInv', [SessionNext]_sessionVars PROVE [Ledger!Settle]_settled
    OBVIOUS
  <2>1. \A u \in Task : MaySettle(u)
    <3> SUFFICES ASSUME NEW u \in Task PROVE MaySettle(u)
      OBVIOUS
    <3>1. CASE replaying
      BY <3>1, ReplayRepairs, ResultAssumption, ReplayAssumption DEF MaySettle
    <3>2. CASE ~replaying
      <4>1. IInv
        BY <3>2 DEF SessionInv
      <4>2. [Next]_vars
        BY <3>2 DEF SessionNext, Running, Replaying, StartReplay, Next, Environment,
           sessionVars
      <4> QED BY <4>1, <4>2, NextSettles
    <3> QED BY <3>1, <3>2
  <2>2. TypeOK'
    BY DEF SessionInv, ReplayInv, IInv
  <2>3. \A u \in Task : Settled(u)' \in Result \cup {None}
    BY <2>2 DEF TypeOK, DiskTypeOK, Settled, Prepared
  <2> QED BY <2>1, <2>3 DEF Ledger!Settle, MaySettle
<1> QED BY <1>1, <1>2, SessionsAreSound, PTL DEF SessionSpec, ImplementsLedger,
   Ledger!Spec, Ledger!Init

-----------------------------------------------------------------------------
(* Where runs end by themselves or by SIGINT, no session stands in the way *)
(* of the next one.                                                        *)

(* An artefact without a record.                                           *)
Orphan(t) == predictions[t] = None /\ (outputs[t] # None \/ traces[t] # None)

(* A first attempt that the loop, or a drain, has still to publish.        *)
Pending(t) ==
  /\ phase \in RunPhases
  /\ worker[t] \in {"writing", "done"}
  /\ t \notin published \cup retrying
  /\ t \in observed => InSection(t, {"checkpoint"})

SaveInv ==
  /\ litter \subseteq {"root"}
  /\ commitStarted \subseteq retrying
  /\ phase \in {"down", "resume", "recover", "load", "create"} => observed = {}
  /\ \A t \in Task :
       /\ worker[t] = "writing" => InSection(t, WriteLabel)
       /\ worker[t] \in {"waiting", "calling", "writing"} => t \notin published \cup observed
       /\ Orphan(t) => Pending(t)

(* Only a first attempt that is being written makes an orphan.             *)
LEMMA EffectOrphans ==
  ASSUME IInv, SaveInv, ~Idle, Verified, Effect, NEW u \in Task, Orphan(u)'
  PROVE  /\ ~InSection(u, {"checkpoint"})
         /\ Orphan(u) \/ (InSection(u, WriteLabel) /\ u \notin retrying)
<1>t. PICK t \in Task : t = step.task
  BY SectionTask DEF IInv
<1>d. /\ DiskTypeOK /\ TaskRecoverable(t)
      /\ Prepared(t) => meta[t].new \in Result /\ meta[t].old \in Result
  BY <1>t DEF IInv, TypeOK, Recoverable, DiskTypeOK, Prepared
<1>n. None \notin Result
  BY ResultAssumption
<1>1. CASE OutputStep /\ t \notin retrying /\ WriteOutput(t, answer[t])
  <2>1. /\ ~InSection(u, {"checkpoint"}) /\ (u = t => InSection(u, WriteLabel) /\ u \notin retrying)
        /\ predictions' = predictions /\ traces' = traces /\ (u # t => outputs'[u] = outputs[u])
    BY <1>1, <1>t, <1>d DEF InSection, OutputStep, At, WriteOutput, DiskTypeOK,
       WriteLabel, TryLabel, FallbackLabel
  <2> QED BY <2>1 DEF Orphan
<1>2. CASE TraceStep /\ t \notin retrying /\ WriteTrace(t, answer[t])
  <2>1. /\ ~InSection(u, {"checkpoint"}) /\ (u = t => InSection(u, WriteLabel) /\ u \notin retrying)
        /\ predictions' = predictions /\ outputs' = outputs /\ (u # t => traces'[u] = traces[u])
    BY <1>2, <1>t, <1>d DEF InSection, TraceStep, At, WriteTrace, DiskTypeOK,
       WriteLabel, TryLabel, FallbackLabel
  <2> QED BY <2>1 DEF Orphan
<1>3. CASE At("checkpoint") /\ Checkpoint(results)
  <2>1. phase \in RunPhases
    BY <1>3 DEF IInv, PhaseInv, At, PublishPhases, RunPhases
  <2>2. predictions' = results /\ UNCHANGED <<outputs, traces>> /\ results[u] = None
    BY <1>3 DEF Checkpoint, Orphan
  <2>3. CASE u \in retrying
    <3>1. Retry(u) /\ ~InSection(u, {"prepare"}) /\ ~InSection(u, Cleaning)
      BY <1>3, <2>1, <2>3 DEF IInv, WorkInv, InSection, At, Cleaning
    <3>2. ~Prepared(u)
      <4>1. Prepared(u) => u \in commitStarted /\ meta[u].old \in Result
        BY <2>1, <1>d DEF IInv, PreparedInv, DiskTypeOK, Prepared
      <4> QED BY <1>n, <2>2, <3>1, <4>1 DEF Retry
    <3>3. predictions[u] = None
      BY <1>n, <2>2, <3>1, <3>2 DEF Retry
    <3>4. Orphan(u)
      BY <2>2, <3>3 DEF Orphan
    <3> QED BY <2>3, <3>4 DEF SaveInv, Pending
  <2>4. CASE u \notin retrying
    <3>1. FirstAttempt(u)
      BY <2>1, <2>4 DEF IInv, WorkInv
    <3> QED BY <2>2, <3>1 DEF FirstAttempt, Orphan
  <2> QED BY <2>3, <2>4
<1>4. CASE \/ At("publish_output") /\ PublishOutput(t)
           \/ At("publish_trace") /\ PublishTrace(t)
           \/ At("publish_prediction") /\ PublishPrediction(t)
  <2>1. /\ Prepared(t) /\ ~InSection(u, {"checkpoint"})
    BY <1>4, <1>t DEF IInv, CommitInv, At, Trusting, InSection
  <2>2. predictions[t] # None
    BY <1>d, <1>n, <2>1 DEF TaskRecoverable, NoConflict
  <2>3. /\ predictions'[t] # None
        /\ u # t => predictions'[u] = predictions[u] /\ outputs'[u] = outputs[u] /\ traces'[u] = traces[u]
    BY <1>4, <1>d, <1>n, <2>1, <2>2 DEF PublishOutput, PublishTrace, PublishPrediction,
       DiskTypeOK
  <2> QED BY <2>1, <2>3 DEF Orphan
<1>5. CASE ~At("checkpoint") /\ UNCHANGED <<predictions, outputs, traces>>
  BY <1>5 DEF Orphan, InSection, At
<1> QED
  BY <1>t, <1>1, <1>2, <1>3, <1>4, <1>5
     DEF Effect, OutputStep, TraceStep, At, StageOutput, StageTrace, MakeWorkspace,
     SaveOldOutput, SaveOldTrace,
         WriteMarker, disk, UnlinkMarker, UnlinkPayloads, RemoveDirectory

(* A durable step of a run publishes what is pending, or leaves it so.     *)
LEMMA DoStepSaves ==
  ASSUME IInv, SaveInv, DoStep
  PROVE  SaveInv'
<1>e. ~Idle /\ Verified /\ Effect
  BY DEF DoStep
<1>t. PICK t \in Task : t = step.task
  BY <1>e, SectionTask DEF IInv
<1>l. step.at \in Label
  BY <1>e DEF IInv, TypeOK, Idle, Steps
<1>1. litter' = litter /\ phase' = phase /\ UNCHANGED <<retrying, commitStarted, observed>>
  BY <1>e DEF DoStep, Continue, Return, memory, Effect, StageOutput, WriteOutput,
     StageTrace, WriteTrace,
     Checkpoint, MakeWorkspace, SaveOldOutput, SaveOldTrace, WriteMarker, disk,
     PublishOutput,
     PublishTrace, PublishPrediction, UnlinkMarker, UnlinkPayloads, RemoveDirectory
<1>2. ASSUME NEW u \in Task, Orphan(u)'
      PROVE  /\ phase \in RunPhases /\ worker[u] \in {"writing", "done"}
             /\ u \notin published \cup retrying
             /\ u \notin observed /\ ~InSection(u, {"checkpoint"})
             /\ InSection(u, WriteLabel) => worker[u] = "writing"
  <2>1. ~InSection(u, {"checkpoint"}) /\ (Orphan(u) \/ (InSection(u, WriteLabel) /\ u \notin retrying))
    BY <1>2, <1>e, EffectOrphans
  <2>2. InSection(u, WriteLabel) => phase \in {"run", "cancel"} /\ worker[u] = "writing"
    BY DEF IInv, PhaseInv, WorkInv, InSection, RunPhases
  <2>3. CASE Orphan(u)
    BY <2>1, <2>2, <2>3 DEF SaveInv, Pending
  <2>4. CASE InSection(u, WriteLabel) /\ u \notin retrying
    BY <2>1, <2>2, <2>4 DEF SaveInv, RunPhases
  <2> QED BY <2>1, <2>3, <2>4
<1>3. CASE Continue
  <2>1. /\ step.at \in DOMAIN Following /\ step' = [at |-> Following[step.at], task |-> t]
        /\ UNCHANGED <<worker, published>>
    BY <1>t, <1>3 DEF Continue, Goto, memory
  <2>2. step' # None /\ (step.at \in WriteLabel => step'.at \in WriteLabel) /\ step'.task = t
    BY <2>1, StepAssumption DEF Following, WriteLabel, TryLabel, FallbackLabel, Label,
       CommitLabel, CreateLabel, SweepLabel
  <2>3. ASSUME NEW u \in Task, worker'[u] = "writing" PROVE InSection(u, WriteLabel)'
    BY <2>1, <2>2, <2>3, <1>t DEF SaveInv, InSection
  <2>5. ASSUME NEW u \in Task, worker'[u] \in {"waiting", "calling", "writing"}
        PROVE  u \notin published' \cup observed'
    BY <1>1, <2>1, <2>5 DEF SaveInv
  <2>4. ASSUME NEW u \in Task, Orphan(u)' PROVE Pending(u)'
    BY <1>1, <1>2, <2>1, <2>4 DEF Pending
  <2> QED BY <1>1, <2>3, <2>4, <2>5 DEF SaveInv
<1>4. CASE Return
  <2>1. step' = None
    BY <1>4 DEF Return
  <2>2. \/ /\ TraceStep /\ worker' = [worker EXCEPT ![t] = "done"] /\ published' = published
        \/ /\ ~TraceStep /\ ~OutputStep /\ worker' = worker
           /\ \/ published' = published
              \/ published' = published \cup {t} /\ At("checkpoint")
              \/ published' = published \cup {t} /\ At("rmdir") /\ phase # "recover"
    BY <1>t, <1>4 DEF Return, FinishWorker, FinishCreate, FinishCheckpoint,
       FinishCommit, FinishSweep, TraceStep,
       OutputStep, At
  <2>3. ASSUME NEW u \in Task, worker'[u] = "writing" PROVE FALSE
    <3>1. worker[u] = "writing" => step.task = u /\ step.at \in WriteLabel
      BY DEF SaveInv, InSection
    <3>2. worker'[u] = (IF TraceStep /\ u = t THEN "done" ELSE worker[u])
      BY <2>2 DEF IInv, TypeOK
    <3>3. worker[u] = "writing" /\ u = t /\ (TraceStep \/ OutputStep)
      BY <1>e, <1>t, <2>3, <3>1, <3>2 DEF TraceStep, OutputStep, At, WriteLabel,
         TryLabel, FallbackLabel, Idle
    <3>4. ~OutputStep
      BY <2>2 DEF TraceStep, OutputStep, At
    <3> QED BY <2>3, <3>2, <3>3, <3>4
  <2>5. ASSUME NEW u \in Task, worker'[u] \in {"waiting", "calling", "writing"}
        PROVE  u \notin published' \cup observed'
    <3>1. worker'[u] = (IF TraceStep /\ u = t THEN "done" ELSE worker[u])
      BY <2>2 DEF IInv, TypeOK
    <3>2. worker[u] \in {"waiting", "calling", "writing"} /\ u \notin published \cup observed
      BY <2>5, <3>1 DEF SaveInv
    <3>3. At("checkpoint") \/ (At("rmdir") /\ phase # "recover") => worker[t] = "done"
      <4>1. At("checkpoint") \/ (At("rmdir") /\ phase # "recover") => phase \in RunPhases
        BY DEF At, IInv, PhaseInv, PublishPhases, RunPhases, CommitLabel
      <4> QED BY <1>t, <4>1 DEF At, IInv, WorkInv, InSection, CommitLabel
    <3> QED BY <1>1, <2>2, <3>2, <3>3
  <2>4. ASSUME NEW u \in Task, Orphan(u)' PROVE Pending(u)'
    <3>1. /\ phase \in RunPhases /\ worker[u] \in {"writing", "done"}
          /\ u \notin published \cup retrying /\ u \notin observed /\ ~InSection(u, {"checkpoint"})
      BY <1>2, <2>4
    <3>2. worker'[u] \in {"writing", "done"}
      BY <2>2, <3>1 DEF IInv, TypeOK
    <3>3. u \notin published'
      <4>1. At("rmdir") /\ phase # "recover" => t \in retrying
        BY <1>t DEF IInv, CommitInv, At, CommitLabel
      <4>2. At("checkpoint") => u # t
        BY <1>t, <3>1 DEF At, InSection
      <4> QED BY <2>2, <3>1, <4>1, <4>2
    <3> QED BY <1>1, <3>1, <3>2, <3>3 DEF Pending
  <2> QED BY <1>1, <2>3, <2>4, <2>5 DEF SaveInv
<1> QED BY <1>3, <1>4 DEF DoStep

(* Between the sections the directory stands, and its orphans with it.     *)
LEMMA OrphansStand ==
  ASSUME SaveInv, UNCHANGED disk, phase' \in RunPhases, NEW u \in Task, Orphan(u)'
  PROVE  Pending(u)
BY DEF SaveInv, Orphan, disk

(* Between the sections, the loop and the drains miss no pending attempt.  *)
LEMMA BetweenSectionsSaves ==
  ASSUME IInv, SaveInv, Coordinator \/ Provider \/ StartSession \/ Interrupt, ~DoStep
  PROVE  SaveInv'
<1> USE DEF SaveInv, Pending, Orphan, InSection, disk, memory, RunPhases
<1>1. CASE StartSession \/ OpenRoot \/ RecoverDone
  BY <1>1 DEF StartSession, OpenRoot, RecoverDone, Enter, Idle
<1>2. CASE RejectRoot \/ RejectDirectory \/ UndoDone \/ Report
  BY <1>2 DEF RejectRoot, RejectDirectory, UndoDone, Report, Exit, Idle, IInv, PhaseInv
<1>3. CASE \E retry \in BOOLEAN : AcceptDirectory(retry)
  BY <1>3 DEF AcceptDirectory, Enter, IInv, BeforeRunInv
<1>4. CASE StartWorkers
  BY <1>4 DEF StartWorkers, Enter, IInv, BeforeRunInv, Idle
<1>5. CASE AllPublished
  BY <1>5 DEF AllPublished, Enter, Unpublished, Idle
<1>6. CASE DrainDone
  BY <1>6 DEF DrainDone, Enter, Undrained, Idle
<1>7. CASE CancelDone
  BY <1>7 DEF CancelDone, Enter, Idle
<1>8. CASE TidyDone
  BY <1>8 DEF TidyDone, Enter, Exit, Idle
<1>9. CASE \E t \in Task : RecoverNext(t) \/ UndoNext(t) \/ TidyNext(t)
  BY <1>9 DEF RecoverNext, UndoNext, TidyNext, Begin, Idle
<1>10. CASE \E t \in Task : CreateNext(t)
  BY <1>10 DEF CreateNext, Begin, Enter, Idle
<1>11. CASE \E t \in Task : CallProvider(t)
  BY <1>11 DEF CallProvider, Idle, IInv, TypeOK
<1>12. CASE \E t \in Task : PublishNext(t)
  BY <1>12 DEF PublishNext, BeginPublish, Begin, Idle
<1>13. CASE \E t \in Task : DrainNext(t)
  <2>1. PICK t \in Task : DrainNext(t)
    BY <1>13
  <2>2. /\ step = None /\ worker[t] = "done" /\ t \notin published
        /\ observed' = observed \cup {t} /\ phase \in RunPhases
        /\ UNCHANGED <<disk, phase, retrying, worker, published>>
    BY <2>1 DEF DrainNext, Undrained, BeginPublish, Idle
  <2>3. t \notin retrying => step' = [at |-> "checkpoint", task |-> t]
    BY <2>1 DEF DrainNext, BeginPublish, Begin
  <2>4. step' = [at |-> "checkpoint", task |-> t] => InSection(t, {"checkpoint"})'
    BY StepAssumption DEF Label
  <2>5. commitStarted' \subseteq retrying'
    BY <2>1, <2>2 DEF DrainNext, BeginPublish
  <2>6. ASSUME NEW u \in Task
        PROVE  /\ worker'[u] # "writing"
               /\ worker'[u] \in {"waiting", "calling"} => u \notin published' \cup observed'
               /\ Orphan(u)' => Pending(u)'
    BY <2>2, <2>3, <2>4, <2>6
  <2> QED BY <2>2, <2>5, <2>6
<1>14. CASE \E t \in Task : WorkerError(t)
  BY <1>14 DEF WorkerError, LeaveLoop, Enter, Idle
<1>15. CASE Interrupt
  BY <1>15 DEF Interrupt, LeaveLoop, Enter, Idle
<1>16. CASE \E t \in Task : CancelWorker(t)
  BY <1>16 DEF CancelWorker, Idle, IInv, TypeOK
<1>17. CASE Provider
  <2>1. PICK t \in Task, r \in Result, l \in {"write_output", "fallback_output"} :
          step = None /\ worker[t] \in {"waiting", "calling"} /\ phase \in RunPhases /\ Write(t, r, l)
    BY <1>17 DEF Provider, ContextFails, ProviderAnswers, ProviderFails, Idle
  <2>2. /\ worker' = [worker EXCEPT ![t] = "writing"] /\ step' = [at |-> l, task |-> t]
        /\ UNCHANGED <<disk, phase, retrying, published, commitStarted, observed>>
    BY <2>1 DEF Write, Begin
  <2>3. InSection(t, WriteLabel)'
    BY <2>2, StepAssumption DEF Label, WriteLabel, TryLabel, FallbackLabel
  <2>4. worker'[t] = "writing" /\ \A u \in Task : u # t => worker'[u] = worker[u]
    BY <2>2 DEF IInv, TypeOK
  <2>5. ASSUME NEW u \in Task
        PROVE  /\ worker'[u] = "writing" => InSection(u, WriteLabel)'
               /\ worker'[u] \in {"waiting", "calling", "writing"} => u \notin published' \cup observed'
               /\ Orphan(u)' => Pending(u)'
    <3>1. worker[u] # "writing" /\ (Orphan(u)' => Pending(u))
      BY <2>1, <2>2
    <3>2. u # t => (Orphan(u)' => Pending(u)')
      BY <2>1, <2>2, <2>4, <3>1
    <3>3. u = t => ~Orphan(u)'
      BY <2>1, <3>1
    <3> QED BY <2>1, <2>2, <2>3, <2>4, <3>1, <3>2, <3>3
  <2> QED BY <2>1, <2>2, <2>5
<1> QED
  BY <1>1, <1>2, <1>3, <1>4, <1>5, <1>6, <1>7, <1>8, <1>9, <1>10, <1>11, <1>12, <1>13,
     <1>14, <1>15, <1>16, <1>17
     DEF Coordinator

(* What a replay session leaves alone, besides the canonical artefacts.    *)
Early == {"down", "resume", "recover", "load", "create"}

LEMMA ReplayKeepsObserved ==
  ASSUME SessionInv, [SessionNext]_sessionVars, replaying, phase' \in Early, observed' # {}
  PROVE  observed' = observed /\ phase \in Early
<1>1. ReplayInv /\ phase # "down"
  BY DEF SessionInv, ReplayInv
<1>2. CASE RejectRoot \/ RejectDirectory \/ UndoDone \/ Report \/ RejectIncomplete \/ ReplayKill
  BY <1>2 DEF RejectRoot, RejectDirectory, UndoDone, Report, RejectIncomplete,
     ReplayKill, Exit
<1>3. CASE OpenRoot \/ RecoverDone \/ AcceptReplay \/ LoadSources \/ SourceUnreadable
  BY <1>3 DEF OpenRoot, RecoverDone, AcceptReplay, LoadSources, SourceUnreadable,
     memory, Early
<1>4. CASE \E t \in Task : RecoverNext(t) \/ CreateNext(t) \/ UndoNext(t)
  BY <1>4 DEF RecoverNext, CreateNext, UndoNext, memory, Early
<1>5. CASE DoStep
  BY <1>5 DEF DoStep, Continue, Return, memory
<1>6. CASE ReplayDone \/ ReplayStep \/ (\E t \in Task, r \in Result : ReplayNext(t, r))
  BY <1>6 DEF ReplayDone, ReplayStep, ReplayContinue, ReplayReturn, ReplayNext, memory,
     Enter, Exit, Early
<1>7. CASE ReplayError /\ phase = "run"
  <2>1. ReplayRaise
    BY <1>7 DEF ReplayError
  <2> QED BY <1>7, <2>1 DEF ReplayRaise, LeaveReplay, Enter, Early
<1>8. CASE ReplayError /\ phase # "run"
  <2>1. Raise
    BY <1>8 DEF ReplayError
  <2>2. /\ RaiseInWorker(step.task) => observed' = observed /\ phase' = phase
        /\ RaiseInCreate(step.task) => phase' = "undo"
        /\ RaiseInSweep => observed' = {} \/ (observed' = observed /\ phase' = phase)
    BY DEF RaiseInWorker, RaiseInCreate, RaiseInSweep, Enter, Exit, memory
  <2>3. RaiseInPublish => observed' = {} \/ (observed' = observed /\ phase' \in {phase, "drain"})
    BY DEF RaiseInPublish, LeaveLoop, Enter, Exit, memory
  <2>4. /\ RaiseInCommit(step.task) =>
             RaiseInPublish \/ (observed' = observed /\ phase' = phase)
        /\ RaiseBeforeCommit => RaiseInPublish
    BY DEF RaiseInCommit, RaiseBeforeCommit
  <2> QED BY <2>1, <2>2, <2>3, <2>4 DEF Raise, Early
<1>9. CASE UNCHANGED sessionVars
  BY <1>9 DEF sessionVars, vars, memory
<1>10. ~StartReplay /\ ~Running(Next)
  BY <1>1 DEF StartReplay, StartSession, Running
<1> QED BY <1>2, <1>3, <1>4, <1>5, <1>6, <1>7, <1>8, <1>9, <1>10 DEF SessionNext,
   Replaying, ReplayProgress, Shared

LEMMA ReplayKeepsLitter ==
  ASSUME SessionInv, [SessionNext]_sessionVars, replaying
  PROVE  litter' \subseteq litter \cup {"root"}
<1>1. ReplayInv /\ phase # "down"
  BY DEF SessionInv, ReplayInv
<1>e. Effect => litter' = litter
  BY DEF Effect, StageOutput, WriteOutput, StageTrace, WriteTrace,
     Checkpoint, MakeWorkspace, SaveOldOutput, SaveOldTrace, WriteMarker, disk,
     PublishOutput,
     PublishTrace, PublishPrediction, UnlinkMarker, UnlinkPayloads, RemoveDirectory
<1>2. CASE Shared
  BY <1>e, <1>2 DEF Shared, RejectRoot, OpenRoot, RecoverDone, RejectDirectory,
     UndoDone, Report,
     RecoverNext, CreateNext, UndoNext, DoStep, disk
<1>3. CASE RejectIncomplete \/ AcceptReplay \/ LoadSources \/ SourceUnreadable \/ ReplayDone
  BY <1>3 DEF RejectIncomplete, AcceptReplay, LoadSources, SourceUnreadable,
     ReplayDone, disk
<1>4. CASE ReplayStep \/ (\E t \in Task, r \in Result : ReplayNext(t, r)) \/ ReplayError
  BY <1>e, <1>4 DEF ReplayStep, ReplayNext, ReplayError, disk
<1>5. CASE ReplayKill
  <2>1. (OutputStep \/ TraceStep) => step.task \in retrying
    <3>1. CASE phase = "run"
      BY <1>1, <3>1 DEF ReplayInv, LoopOfReplay, Candidate, OutputStep, TraceStep, At
    <3>2. CASE phase = "undo"
      BY <1>1, <3>2 DEF ReplayInv, Undoing, OutputStep, TraceStep, At, SweepLabel
    <3>3. CASE phase \notin {"run", "undo"}
      BY <1>1, <3>3 DEF ReplayInv, IInv, PhaseInv, OutputStep, TraceStep, At,
         WriteLabel, TryLabel, FallbackLabel
    <3> QED BY <3>1, <3>2, <3>3
  <2>2. TemporaryPlace \subseteq {"root"}
    BY <2>1 DEF TemporaryPlace, Checking
  <2> QED BY <1>5, <2>2 DEF ReplayKill
<1>6. CASE UNCHANGED sessionVars
  BY <1>6 DEF sessionVars, vars, disk
<1>7. ~StartReplay /\ ~Running(Next)
  BY <1>1 DEF StartReplay, StartSession, Running
<1> QED BY <1>2, <1>3, <1>4, <1>5, <1>6, <1>7 DEF SessionNext, Replaying, ReplayProgress

(* A replay makes no orphan: what it publishes has a record.               *)
LEMMA ReplayMakesNoOrphan ==
  ASSUME SessionInv, SessionInv', [SessionNext]_sessionVars, replaying, NEW u \in Task, Orphan(u)'
  PROVE  Orphan(u)
<1>1. ReplayInv /\ TypeOK /\ Recoverable /\ TypeOK' /\ Recoverable'
  BY DEF SessionInv, ReplayInv, IInv
<1>n. None \notin Result /\ None \notin Success
  BY ResultAssumption
<1>2. ~Prepared(u)' /\ Settled(u)' = None
  <2>1. Prepared(u)' => NoConflict(u)' /\ meta'[u].old \in Result /\ meta'[u].new \in Result
    BY <1>1 DEF Recoverable, TaskRecoverable, TypeOK, DiskTypeOK, Prepared
  <2>2. ~Prepared(u)'
    BY <1>n, <2>1 DEF NoConflict, Orphan
  <2> QED BY <2>2 DEF Settled, Orphan
<1>3. Settled(u) = None
  BY <1>n, <1>2, ReplayRepairs
<1>4. ~Prepared(u) /\ predictions[u] = None
  BY <1>1, <1>n, <1>3 DEF Settled, Prepared, TypeOK, DiskTypeOK
<1>5. outputs'[u] = outputs[u] /\ traces'[u] = traces[u]
  <2>1. CASE phase # "recover"
    BY <1>n, <1>3, <2>1, ReplayRepairs
  <2>2. CASE UNCHANGED Canonical
    BY <2>2 DEF Canonical
  <2>3. CASE phase = "recover" /\ ~Idle /\ Verified /\ Effect
    <3>1. IInv /\ step.at \in CommitLabel \cup SweepLabel
      BY <1>1, <2>3 DEF ReplayInv, IInv, TypeOK, PhaseInv, Idle, Steps, Label,
         PublishPhases
    <3>2. At("publish_output") \/ At("publish_trace") => u # step.task
      BY <1>4, <3>1 DEF IInv, CommitInv, At, Trusting
    <3> QED BY <1>1, <2>3, <3>1, <3>2
            DEF Effect, OutputStep, TraceStep, At, CommitLabel, SweepLabel, disk,
            PublishOutput, PublishTrace,
                PublishPrediction, UnlinkMarker, UnlinkPayloads, RemoveDirectory,
                TypeOK, DiskTypeOK
  <2> QED BY <2>1, <2>2, <2>3, ReplayChanges
<1> QED BY <1>4, <1>5 DEF Orphan

LEMMA ReplaySaves ==
  ASSUME SessionInv, SessionInv', SaveInv, [SessionNext]_sessionVars, replaying
  PROVE  SaveInv'
<1>1. ReplayInv
  BY DEF SessionInv
<1>2. commitStarted' = {} /\ \A u \in Task : worker'[u] = "none"
  <2>1. CASE replaying'
    BY <2>1 DEF SessionInv, ReplayInv
  <2>2. CASE ~replaying'
    <3>1. phase' = "down" /\ IInv'
      BY <1>1, <2>2 DEF SessionInv, SessionNext, Replaying, Running, StartReplay,
         sessionVars
    <3> QED BY <3>1 DEF IInv, BeforeRunInv
  <2> QED BY <2>1, <2>2
<1>3. ASSUME NEW u \in Task PROVE ~Orphan(u)'
  <2>1. ~Orphan(u)
    BY <1>1 DEF SaveInv, Pending, ReplayInv
  <2> QED BY <2>1, ReplayMakesNoOrphan
<1>4. litter' \subseteq {"root"}
  BY ReplayKeepsLitter DEF SaveInv
<1>5. phase' \in Early => observed' = {}
  BY ReplayKeepsObserved DEF SaveInv, Early
<1> QED BY <1>2, <1>3, <1>4, <1>5 DEF SaveInv, Early

LEMMA SessionSaves ==
  ASSUME Hazard \subseteq {"interrupt"}, SessionInv, SessionInv', SaveInv, [SessionNext]_sessionVars
  PROVE  SaveInv'
<1>1. CASE replaying
  BY <1>1, ReplaySaves
<1>2. CASE UNCHANGED sessionVars
  BY <1>2 DEF sessionVars, vars, disk, memory, SaveInv, Orphan, Pending, InSection
<1>3. CASE ~replaying /\ (Next \/ StartSession)
  <2>1. IInv
    BY <1>3 DEF SessionInv
  <2>2. ~IOError /\ ~Kill
    BY DEF IOError, Kill
  <2> QED BY <1>3, <2>1, <2>2, DoStepSaves, BetweenSectionsSaves DEF Next, Environment
<1> QED BY <1>1, <1>2, <1>3 DEF SessionNext, Running, Replaying, StartReplay

(* Where runs end by themselves or by SIGINT, and replays are killed or    *)
(* fail anywhere, the next session accepts the directory once nothing is   *)
(* left to recover, but for the write probe of a killed one (artifacts.py, *)
(* load_resume_state).                                                     *)
THEOREM ReplaysLeaveResumable ==
  ASSUME Hazard \subseteq {"interrupt"}
  PROVE  SessionSpec => []Resumable
<1>1. SessionInit => SaveInv
  BY DEF SessionInit, Init, DiskInit, SaveInv, Orphan
<1>2. SessionInv /\ SessionInv' /\ SaveInv /\ [SessionNext]_sessionVars => SaveInv'
  BY SessionSaves
<1>3. SessionInv /\ SaveInv => Resumable
  <2> SUFFICES ASSUME SessionInv, SaveInv, phase \in {"down", "resume", "load"},
                      phase = "load" \/ \A t \in Task : ~Prepared(t)
               PROVE  Complaints \subseteq {"unexpected_root_entry"}
    BY DEF Resumable
  <2>1. IInv
    BY DEF SessionInv, ReplayInv
  <2>2. \A t \in Task : ~Prepared(t)
    BY <2>1 DEF IInv, PreparedInv
  <2>3. ASSUME NEW t \in Checkpointed
        PROVE  /\ outputs[t] # None /\ traces[t] # None
               /\ predictions[t] \notin Success => outputs[t] = Pristine
               /\ predictions[t] \in Success => HoldsCall(traces[t])
    BY <2>1, <2>2, RecordedIsSound
  <2>4. ASSUME NEW t \in Task \ Checkpointed PROVE outputs[t] = None /\ traces[t] = None
    BY DEF SaveInv, Orphan, Pending, Checkpointed, RunPhases
  <2>5. "outputs" \notin litter /\ "traces" \notin litter
    BY DEF SaveInv
  <2> QED BY <2>3, <2>4, <2>5 DEF Complaints
<1> QED BY <1>1, <1>2, <1>3, SessionsAreSound, PTL DEF SessionSpec
=============================================================================
