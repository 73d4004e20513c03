------------------------------ MODULE RunMetrics ------------------------------
(***************************************************************************)
(* The figures of a v2 run (exactsource/metrics.py, build_run_metrics).    *)
(* They are worked out from the traces alone, after the threads have gone, *)
(* and say how many calls were made, what became of them, which were       *)
(* repairs and how often the transport tried again.  Durations, tokens and *)
(* characters, which are summed as they were recorded, are left out.       *)
(***************************************************************************)
EXTENDS V2Run

(* The records of all traces, as a set of places.                          *)
Places == UNION {{<<t, i>> : i \in DOMAIN traces[t]} : t \in Task}
RecordAt(p) == traces[p[1]][p[2]]

(* Mutant: every record is a call of its own.                              *)
CallKeyOfRecord(p) == p

(* call_key: the records of a task with the same semantic_attempt.         *)
CallKey(p) == <<p[1], RecordAt(p).call>>

CallKeys == {CallKey(p) : p \in Places}
RecordsOf(key) == {p \in Places : CallKey(p) = key}

(* records[-1], the last one of the call.                                  *)
TerminalOf(key) ==
  RecordAt(CHOOSE p \in RecordsOf(key) : \A q \in RecordsOf(key) : q[2] <= p[2])

(* _plan_status: a record without one never came to a plan.                *)
PlanStatus(record) == IF record.plan = None THEN "not_reached" ELSE record.plan

CallsWith(verdict) ==
  Cardinality({key \in CallKeys : PlanStatus(TerminalOf(key)) = verdict})

(* A call after the first is a repair, of a truncation if it says so.      *)
Repairs(truncated) ==
  Cardinality({key \in CallKeys : key[2] > 1 /\ TerminalOf(key).recovery = truncated})

Metrics ==
  [tasks |-> Cardinality(Task),
   succeeded |-> Cardinality({t \in Task : predictions[t] = "ok"}),
   calls |-> Cardinality(CallKeys),
   attempts |-> Cardinality(Places),
   transport_retries |->
     Cardinality({p \in Places : RecordAt(p).provider = "retry"}),
   plan_status_counts |-> [v \in Verdict |-> CallsWith(v)],
   ordinary |-> Repairs(FALSE),
   max_tokens_recovery |-> Repairs(TRUE)]

-----------------------------------------------------------------------------
(* Properties.                                                             *)

Made == {c \in Task \X (1 .. SemanticRepairs + 1) : c[2] \in DOMAIN calls[c[1]]}
CameTo(verdict) == {c \in Made : calls[c[1]][c[2]] = verdict}
After(verdict) == {c \in Made : c[2] > 1 /\ calls[c[1]][c[2] - 1] = verdict}

(* Only a call that failed before its first report is missing.             *)
Untold == Made \ CallKeys

(* The figures are those of the calls that the solver made, although they  *)
(* are taken from records that a later step of the same thread amends and  *)
(* from which a failed call may be missing (metrics.py: "Logical model     *)
(* calls are grouped by task and semantic_attempt"): accepted and rejected *)
(* plans are counted exactly, a repair is told from a recovery by what     *)
(* went before it, each attempt either ends a call or was retried, and a   *)
(* success had a plan that was accepted.                                   *)
MetricsTellTheRun ==
  main = "validate" =>
    LET m == Metrics IN
    /\ Untold \subseteq CameTo("not_reached")
    /\ m.calls = Cardinality(Made) - Cardinality(Untold)
    /\ \A v \in {"accepted", "rejected"} :
         m.plan_status_counts[v] = Cardinality(CameTo(v))
    /\ m.ordinary = Cardinality(After("rejected") \ Untold)
    /\ m.max_tokens_recovery = Cardinality(After("not_reached") \ Untold)
    /\ m.attempts - m.transport_retries \in
         (m.calls - Cardinality(CameTo("not_reached"))) .. m.calls
    /\ m.succeeded <= m.plan_status_counts["accepted"]
=============================================================================
