---------------------------- MODULE RetryJournal ----------------------------
(***************************************************************************)
(* The output directory of one v1 run, as formulabench/artifacts.py reads  *)
(* and writes it: the predictions checkpoint, one workbook and one trace   *)
(* per task, and the .retry journal that makes the replacement of a failed *)
(* record recoverable.  This module has the durable state and the effect   *)
(* of every single durable step on it; RunCoordinator decides which step   *)
(* is taken when, and what a crash or an I/O error between two of them     *)
(* leaves behind.                                                          *)
(*                                                                         *)
(* A Result stands for the outcome of one attempt at a task: its           *)
(* prediction record, its trace and the workbook it produced.  A failed    *)
(* attempt publishes a byte-identical copy of the input workbook.          *)
(***************************************************************************)

CONSTANTS
  Task,      \* the selected tasks
  Result,    \* the outcomes an attempt can have
  Success,   \* the outcomes whose prediction has status "ok"
  Pristine,  \* the bytes of a task's input workbook
  None       \* no record, no file

ASSUME ResultAssumption ==
  /\ Success \subseteq Result
  /\ None \notin Result \cup [old : Result, new : Result]
  /\ Pristine \notin Result
  /\ Pristine # None

VARIABLES
  predictions,  \* predictions.jsonl: the record of each task
  outputs,      \* outputs/<task>.xlsx
  traces,       \* traces/<task>.jsonl
  litter,       \* places where an interrupted write left a temporary file
  workspace,    \* the tasks with a directory .retry/<task>
  payload,      \* the four payload files of each workspace
  meta          \* .retry/<task>/meta.json, the marker of a prepared retry

disk == <<predictions, outputs, traces, litter, workspace, payload, meta>>

Content == Success \cup {Pristine}
Payloads == [old_output : Content \cup {None}, old_trace : Result \cup {None},
             new_output : Content \cup {None}, new_trace : Result \cup {None}]
Place == {"root", "outputs", "traces"}

NoPayload == [old_output |-> None, old_trace |-> None,
              new_output |-> None, new_trace |-> None]

(* The bytes of the workbook that an attempt with outcome r leaves.        *)
Workbook(r) == IF r \in Success THEN r ELSE Pristine

DiskTypeOK ==
  /\ predictions \in [Task -> Result \cup {None}]
  /\ outputs \in [Task -> Content \cup {None}]
  /\ traces \in [Task -> Result \cup {None}]
  /\ litter \subseteq Place
  /\ workspace \subseteq Task
  /\ payload \in [Task -> Payloads]
  /\ meta \in [Task -> [old : Result, new : Result] \cup {None}]

DiskInit ==
  /\ predictions = [t \in Task |-> None]
  /\ outputs = [t \in Task |-> None]
  /\ traces = [t \in Task |-> None]
  /\ litter = {}
  /\ workspace = {}
  /\ payload = [t \in Task |-> NoPayload]
  /\ meta = [t \in Task |-> None]

Prepared(t) == meta[t] # None

-----------------------------------------------------------------------------
(* What the code verifies before it trusts the directory.                  *)

(* _validate_retry_payloads: the payloads of t can carry the replacement   *)
(* of the record old by the record new.                                    *)
PayloadsValid(t, old, new) ==
  /\ old \in Result \ Success
  /\ new \in Result
  /\ None \notin {payload[t].old_output, payload[t].old_trace,
                  payload[t].new_output, payload[t].new_trace}
  /\ payload[t].old_output = Pristine
  /\ new \notin Success => payload[t].new_output = Pristine
  /\ new \in Success => payload[t].new_trace \in Success

(* commit_retry_transaction: what stands in the canonical places is the    *)
(* old or the new version of each of the three artefacts.                  *)
NoConflict(t) ==
  /\ PayloadsValid(t, meta[t].old, meta[t].new)
  /\ predictions[t] \in {meta[t].old, meta[t].new}
  /\ outputs[t] \in {payload[t].old_output, payload[t].new_output}
  /\ traces[t] \in {payload[t].old_trace, payload[t].new_trace}

(* _validate_resume_prediction: the tasks that have a record.  A session   *)
(* writes it whole, with failure codes that agree with its status.         *)
Checkpointed == {t \in Task : predictions[t] # None}

(* _validate_resume_trace: a record has a response and no error.  That an  *)
(* attempt's one record has its fields, its step and the run's model is    *)
(* left out: it is written so, and whole.                                  *)
HoldsCall(trace) == trace \in Success

(* load_resume_state: the error codes the directory deserves.  It is       *)
(* accepted when there is none.                                            *)
Complaints ==
  LET recorded == Checkpointed
      code(broken, name) == IF broken THEN {name} ELSE {}
  IN  code("root" \in litter, "unexpected_root_entry")
      \cup code(\/ "outputs" \in litter
                \/ \E t \in Task \ recorded : outputs[t] # None,
                "orphan_output")
      \cup code(\/ "traces" \in litter
                \/ \E t \in Task \ recorded : traces[t] # None,
                "orphan_trace")
      \cup code(\E t \in recorded : outputs[t] = None, "workbook_missing")
      \cup code(\E t \in recorded : traces[t] = None, "trace_missing")
      \cup code(\E t \in recorded : /\ predictions[t] \notin Success
                                    /\ outputs[t] # Pristine,
                "failure_fallback_hash")
      \cup code(\E t \in recorded : /\ predictions[t] \in Success
                                    /\ ~HoldsCall(traces[t]),
                "trace_without_call")

-----------------------------------------------------------------------------
(* The durable steps.                                                      *)

(* The output, and then the trace, of an attempt at t with outcome r: a    *)
(* first attempt writes in the canonical places, a retry in its workspace. *)
WriteOutput(t, r) ==
  /\ outputs' = [outputs EXCEPT ![t] = Workbook(r)]
  /\ UNCHANGED <<predictions, traces, litter, workspace, payload, meta>>

WriteTrace(t, r) ==
  /\ traces' = [traces EXCEPT ![t] = r]
  /\ UNCHANGED <<predictions, outputs, litter, workspace, payload, meta>>

StageOutput(t, r) ==
  /\ payload' = [payload EXCEPT ![t].new_output = Workbook(r)]
  /\ UNCHANGED <<predictions, outputs, traces, litter, workspace, meta>>

StageTrace(t, r) ==
  /\ payload' = [payload EXCEPT ![t].new_trace = r]
  /\ UNCHANGED <<predictions, outputs, traces, litter, workspace, meta>>

(* checkpoint(): the records held in memory replace the whole file.        *)
Checkpoint(records) ==
  /\ predictions' = records
  /\ UNCHANGED <<outputs, traces, litter, workspace, payload, meta>>

(* create_retry_workspace: .retry/<t>, then the two old artefacts.         *)
MakeWorkspace(t) ==
  /\ workspace' = workspace \cup {t}
  /\ UNCHANGED <<predictions, outputs, traces, litter, payload, meta>>

SaveOldOutput(t) ==
  /\ payload' = [payload EXCEPT ![t].old_output = outputs[t]]
  /\ UNCHANGED <<predictions, outputs, traces, litter, workspace, meta>>

SaveOldTrace(t) ==
  /\ payload' = [payload EXCEPT ![t].old_trace = traces[t]]
  /\ UNCHANGED <<predictions, outputs, traces, litter, workspace, meta>>

(* prepare_retry_transaction: meta.json appears, complete or not at all.   *)
WriteMarker(t, old, new) ==
  /\ meta' = [meta EXCEPT ![t] = [old |-> old, new |-> new]]
  /\ UNCHANGED <<predictions, outputs, traces, litter, workspace, payload>>

(* commit_retry_transaction: the three publications, each one os.replace   *)
(* of a copy made inside the workspace.                                    *)
PublishOutput(t) ==
  /\ outputs' = [outputs EXCEPT ![t] = payload[t].new_output]
  /\ UNCHANGED <<predictions, traces, litter, workspace, payload, meta>>

PublishTrace(t) ==
  /\ traces' = [traces EXCEPT ![t] = payload[t].new_trace]
  /\ UNCHANGED <<predictions, outputs, litter, workspace, payload, meta>>

PublishPrediction(t) ==
  /\ predictions' = [predictions EXCEPT ![t] = meta[t].new]
  /\ UNCHANGED <<outputs, traces, litter, workspace, payload, meta>>

(* _remove_retry_workspace: the marker first, then the files it vouched    *)
(* for (nothing reads them without it, so their removal is one step), then *)
(* the directory.                                                          *)
UnlinkMarker(t) ==
  /\ meta' = [meta EXCEPT ![t] = None]
  /\ UNCHANGED <<predictions, outputs, traces, litter, workspace, payload>>

UnlinkPayloads(t) ==
  /\ payload' = [payload EXCEPT ![t] = NoPayload]
  /\ UNCHANGED <<predictions, outputs, traces, litter, workspace, meta>>

RemoveDirectory(t) ==
  /\ workspace' = workspace \ {t}
  /\ UNCHANGED <<predictions, outputs, traces, litter, payload, meta>>
=============================================================================
