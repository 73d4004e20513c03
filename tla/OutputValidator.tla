--------------------------- MODULE OutputValidator ---------------------------
(***************************************************************************)
(* What formulabench/validate_out.py says of an output directory.  The     *)
(* validator is the CLI's last word on a run and a program of its own that *)
(* may be started at any time, also on the directory of a session that has *)
(* been killed.  It reads and changes nothing; so the module is functions  *)
(* of the disk of RetryJournal.  It knows neither the retry journal nor    *)
(* the temporary files, which the resume validation (Complaints) knows.    *)
(*                                                                         *)
(* What no session can leave (symbolic links, malformed records, unknown   *)
(* task ids, a missing run.log, secrets in artefacts) is left out.         *)
(***************************************************************************)
EXTENDS RetryJournal

Recorded == {t \in Task : predictions[t] # None}

IssueIf(broken, name) == IF broken THEN {name} ELSE {}

(* _resolve_required_file: nothing is at the canonical path.               *)
IsMissing(file) == file = None

(* _validate_trace_records: a record without an error and with a response. *)
TellsCall(trace) == trace \in Success

(* A record for every task of the dataset, not only for those selected.    *)
PredictionIssues ==
  IssueIf(\E t \in Task : predictions[t] = None, "prediction_missing")

(* Mutant: a failure may have any workbook.                                *)
WorkbookMissing ==
  IssueIf(\E t \in Recorded : outputs[t] = None, "workbook_missing_or_unsafe")

(* The bytes of a workbook are compared with the input's for a failure     *)
(* only; that a success has its own workbook nobody can look up.           *)
WorkbookIssues ==
  IssueIf(\E t \in Recorded : IsMissing(outputs[t]), "workbook_missing_or_unsafe")
  \cup IssueIf(\E t \in Recorded : /\ predictions[t] \notin Success
                                   /\ outputs[t] \notin {None, Pristine},
               "failure_fallback_hash")

(* A trace for every task, recorded or not, unless traces are optional     *)
(* (--optional-traces); a success needs a successful call in its trace.    *)
TraceIssues(required) ==
  IssueIf(required /\ \E t \in Task : IsMissing(traces[t]), "trace_missing")
  \cup IssueIf(required /\ \E t \in Recorded : /\ predictions[t] \in Success
                                               /\ ~IsMissing(traces[t])
                                               /\ ~TellsCall(traces[t]),
               "trace_no_successful_call")

(* validate_output: the directory is valid when there is none.             *)
Issues(required) == PredictionIssues \cup WorkbookIssues \cup TraceIssues(required)

-----------------------------------------------------------------------------
(* The validator may be started while a journal is prepared, or in the     *)
(* middle of a publication, by a kill: what it then passes has for every   *)
(* record the workbook that the record stands for, and for every success   *)
(* the trace of its call.  And it passes every complete directory that a   *)
(* resumed session accepts, so that no run is finished, resumed, and       *)
(* refused only at its end.                                                *)
ValidatorAgrees ==
  /\ Issues(TRUE) = {} => \A t \in Task : /\ outputs[t] = Workbook(predictions[t])
                                          /\ predictions[t] \in Success =>
                                               traces[t] = predictions[t]
  /\ Recorded = Task /\ Complaints = {} => Issues(TRUE) = {}
=============================================================================
