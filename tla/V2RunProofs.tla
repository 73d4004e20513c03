---------------------------- MODULE V2RunProofs ----------------------------
(***************************************************************************)
(* The v2 run for any tasks, threads and repairs: the batch is delivered   *)
(* whole or not at all, nothing is delivered that a failed plan wrote, and *)
(* traces and metrics tell what was done.                                  *)
(***************************************************************************)
EXTENDS RunMetrics, FiniteSetTheorems, TLAPS

(* Where a task is says what it has published.                             *)
TaskInv(t) ==
  /\ place[t] \in {"queued", "copy", "answer", "promote"} => status[t] = None
  /\ place[t] \in {"queued", "copy", "answer", "promote", "fallback", "trace"}
       => traces[t] = None
  /\ place[t] = "answer" =>
       working[t] \in Workbook /\ ("apply" \notin Late => working[t] = <<>>)
  /\ place[t] = "promote" =>
       /\ plan[t] \in Plan /\ records[t] # <<>>
       /\ working[t] \in Workbook
       /\ "apply" \notin Late => working[t] = <<plan[t]>>
  /\ place[t] \in {"trace", "done"} =>
       \/ /\ status[t] = "ok"
          /\ plan[t] \in Plan /\ records[t] # <<>>
          /\ outputs[t] \in Workbook
          /\ "apply" \notin Late => outputs[t] = <<plan[t]>>
       \/ status[t] = "error" /\ outputs[t] = <<>>
  /\ place[t] = "done" => traces[t] = records[t]

(* What the main thread has seen of the others.                            *)
MainInv ==
  /\ \A t \in observed : place[t] = "done"
  /\ main \in {"write", "validate"} => \A t \in Task : place[t] = "done"
  /\ main = "close" /\ ~impatient => \A t \in Task : Finished(t)
  /\ client = "closed" /\ ~impatient => \A t \in Task : Finished(t)
  /\ main = "validate" => predictions # None
  /\ main \in {"start", "refused", "run", "abandon", "write"} => predictions = None
  /\ predictions # None =>
       /\ \A t \in Task : place[t] = "done"
       /\ predictions = status

IInv == TypeOK /\ (\A t \in Task : TaskInv(t)) /\ MainInv

(* The records of a call keep their type, and one that was reported is     *)
(* among them.                                                             *)
LEMMA MarkedType ==
  ASSUME NEW rs \in Seq(Record), rs # <<>>, NEW v \in Verdict
  PROVE  Marked(rs, v) \in Seq(Record) /\ Marked(rs, v) # <<>>
<1>1. Len(rs) \in DOMAIN rs
  OBVIOUS
<1>2. rs[Len(rs)] \in Record
  BY <1>1
<1>3. [rs[Len(rs)] EXCEPT !.terminal = TRUE, !.plan = v] \in Record
  BY <1>2 DEF Record
<1>4. Marked(rs, v) = [rs EXCEPT ![Len(rs)] =
                         [rs[Len(rs)] EXCEPT !.terminal = TRUE, !.plan = v]]
  BY DEF Marked
<1>5. QED
  BY <1>1, <1>3, <1>4

LEMMA ClosingType ==
  ASSUME TypeOK, NEW t \in Task, NEW r \in BOOLEAN, NEW v \in Verdict
  PROVE  /\ Closing(t, r, v) \in Seq(Record)
         /\ r => Closing(t, r, v) # <<>>
<1>1. Len(calls[t]) + 1 \in Nat /\ records[t] \in Seq(Record) /\ before[t] \in Nat
  BY DEF TypeOK
<1>2. Ended(v) \in {"success", "error"} /\ recovery[t] \in BOOLEAN
  BY DEF Ended, TypeOK
<1> DEFINE rs == Reported(t, r, v)
           last == Attempt(t, Ended(v))
<1>3. last \in Record
  BY <1>1, <1>2 DEF Attempt, Record
<1> HIDE DEF last
<1>4. rs = IF r THEN Append(records[t], last) ELSE records[t]
  BY DEF Reported, last
<1>5. rs \in Seq(Record) /\ (r => rs # <<>>)
  BY <1>1, <1>3, <1>4
<1>6. Closing(t, r, v) = IF Len(rs) > before[t] THEN Marked(rs, v) ELSE rs
  BY DEF Closing
<1> HIDE DEF rs
<1>7. CASE Len(rs) > before[t]
  <2>1. rs # <<>>
    BY <1>1, <1>5, <1>7
  <2>2. Marked(rs, v) \in Seq(Record) /\ Marked(rs, v) # <<>>
    BY <1>5, <2>1, MarkedType
  <2>3. QED
    BY <1>6, <1>7, <2>2
<1>8. CASE ~(Len(rs) > before[t])
  BY <1>1, <1>5, <1>6, <1>8
<1>9. QED
  BY <1>7, <1>8

LEMMA SignedType ==
  ASSUME TypeOK, NEW t \in Task, status[t] \in {"ok", "error"}
  PROVE  Signed(t) \in Seq(Record) /\ (Signed(t) = <<>> <=> records[t] = <<>>)
<1>1. records[t] \in Seq(Record)
  BY DEF TypeOK
<1>2. CASE records[t] # <<>>
  <2> DEFINE n == Len(records[t])
  <2>1. n \in DOMAIN records[t] /\ records[t][n] \in Record
    BY <1>1, <1>2
  <2>2. [records[t][n] EXCEPT !.task = status[t]] \in Record
    BY <2>1 DEF Record
  <2>3. Signed(t) = [records[t] EXCEPT ![n] = [records[t][n] EXCEPT !.task = status[t]]]
    BY <1>2 DEF Signed
  <2>4. QED
    BY <1>1, <1>2, <2>1, <2>2, <2>3
<1>3. CASE records[t] = <<>>
  BY <1>1, <1>3 DEF Signed
<1>4. QED
  BY <1>2, <1>3

-----------------------------------------------------------------------------
(* Types.                                                                  *)

(* What any end of a call does to the records and the calls.               *)
LEMMA CallEndsType ==
  ASSUME TypeOK, NEW t \in Task, NEW r \in BOOLEAN, NEW v \in Verdict,
         CallEnds(t, r, v)
  PROVE  /\ calls' \in [Task -> Seq(Verdict)]
         /\ records' \in [Task -> Seq(Record)]
         /\ r => records'[t] # <<>>
         /\ \A u \in Task \ {t} : records'[u] = records[u]
<1>1. Closing(t, r, v) \in Seq(Record) /\ (r => Closing(t, r, v) # <<>>)
  BY ClosingType
<1>2. calls[t] \in Seq(Verdict) /\ Append(calls[t], v) \in Seq(Verdict)
  BY DEF TypeOK
<1>3. /\ calls' = [calls EXCEPT ![t] = Append(calls[t], v)]
      /\ records' = [records EXCEPT ![t] = Closing(t, r, v)]
  BY DEF CallEnds
<1>4. QED
  BY <1>1, <1>2, <1>3 DEF TypeOK

LEMMA AgainType ==
  ASSUME TypeOK, NEW t \in Task, records' \in [Task -> Seq(Record)],
         CallAgain(t) \/ GiveUp(t)
  PROVE  before' \in [Task -> Nat] /\ place' \in [Task -> Place]
<1>1. Len(records'[t]) \in Nat
  OBVIOUS
<1>2. QED
  BY <1>1 DEF TypeOK, CallAgain, GiveUp, Goto, Place

LEMMA TypeStep ==
  ASSUME TypeOK, \A t \in Task : TaskInv(t), MainInv, [Next]_vars
  PROVE  TypeOK'
<1> USE DEF TypeOK, Place, mains, solver, artefacts
<1>1. CASE UNCHANGED vars
  BY <1>1 DEF vars
<1>2. CASE MainThread \/ Interrupt \/ Kill
  <2>1. CASE WritePredictions
    <3>1. status \in [Task -> {"ok", "error"}]
      BY <2>1 DEF WritePredictions, MainInv, TaskInv
    <3>2. QED
      BY <2>1, <3>1 DEF WritePredictions
  <2>2. CASE Start
    BY <2>2 DEF Start
  <2>3. CASE AllObserved \/ Shutdown \/ Validate \/ Close
    BY <2>3 DEF AllObserved, Shutdown, Validate, Close
  <2>4. ASSUME NEW t \in Task, Observe(t) PROVE TypeOK'
    BY <2>4 DEF Observe
  <2>5. CASE Interrupt \/ Kill
    BY <2>5 DEF Interrupt, Kill
  <2>6. QED
    BY <1>2, <2>1, <2>2, <2>3, <2>4, <2>5 DEF MainThread
<1>3. ASSUME NEW t \in Task, Take(t) PROVE TypeOK'
  BY <1>3 DEF Take, Goto
<1>4. ASSUME NEW t \in Task, Copy(t) \/ CopyFails(t) PROVE TypeOK'
  <2>1. <<>> \in Workbook
    BY DEF Workbook
  <2>2. PICK w \in Workbook \cup {None} : working' = [working EXCEPT ![t] = w]
    BY <1>4, <2>1 DEF Copy, CopyFails
  <2>3. working' \in [Task -> Workbook \cup {None}]
    BY <2>2
  <2>4. place' \in [Task -> Place]
    BY <1>4 DEF Copy, CopyFails, Goto
  <2>5. QED
    BY <1>4, <2>3, <2>4 DEF Copy, CopyFails
<1>5. ASSUME NEW t \in Task, Retried(t) PROVE TypeOK'
  <2>1. Len(calls[t]) + 1 \in Nat /\ records[t] \in Seq(Record)
    OBVIOUS
  <2>2. Attempt(t, "retry") \in Record
    BY <2>1 DEF Attempt, Record
  <2>3. Append(records[t], Attempt(t, "retry")) \in Seq(Record)
    BY <2>1, <2>2
  <2>4. records' = [records EXCEPT ![t] = Append(records[t], Attempt(t, "retry"))]
    BY <1>5 DEF Retried
  <2>5. QED
    BY <1>5, <2>3, <2>4 DEF Retried
<1>6. ASSUME NEW t \in Task, Accepted(t) PROVE TypeOK'
  <2>1. calls' \in [Task -> Seq(Verdict)] /\ records' \in [Task -> Seq(Record)]
    BY <1>6, CallEndsType DEF Accepted, Verdict
  <2>2. PICK p \in Plan : /\ working' = [working EXCEPT ![t] = Append(working[t], p)]
                          /\ plan' = [plan EXCEPT ![t] = p]
    BY <1>6 DEF Accepted
  <2>3. Append(working[t], p) \in Workbook
    BY <1>6, <2>2 DEF Accepted, CallEnds, TaskInv, Workbook
  <2>4. QED
    BY <1>6, <2>1, <2>2, <2>3 DEF Accepted, Goto
<1>7. ASSUME NEW t \in Task, Rejected(t) PROVE TypeOK'
  <2>1. calls' \in [Task -> Seq(Verdict)] /\ records' \in [Task -> Seq(Record)]
    BY <1>7, CallEndsType DEF Rejected, Verdict
  <2>2. before' \in [Task -> Nat] /\ place' \in [Task -> Place]
    BY <1>7, <2>1, AgainType DEF Rejected
  <2>3. working' \in [Task -> Workbook \cup {None}]
    <3>1. ASSUME NEW p \in Plan PROVE Append(working[t], p) \in Workbook
      BY <1>7, <3>1 DEF Rejected, CallEnds, TaskInv, Workbook
    <3>2. QED
      BY <1>7, <3>1 DEF Rejected
  <2>4. QED
    BY <1>7, <2>1, <2>2, <2>3 DEF Rejected
<1>8. ASSUME NEW t \in Task, Truncated(t) PROVE TypeOK'
  <2>1. calls' \in [Task -> Seq(Verdict)] /\ records' \in [Task -> Seq(Record)]
    BY <1>8, CallEndsType DEF Truncated, Verdict
  <2>2. before' \in [Task -> Nat] /\ place' \in [Task -> Place]
    BY <1>8, <2>1, AgainType DEF Truncated
  <2>3. recovery' \in [Task -> BOOLEAN]
    BY <1>8 DEF Truncated
  <2>4. QED
    BY <1>8, <2>1, <2>2, <2>3 DEF Truncated
<1>9. ASSUME NEW t \in Task, CallFails(t) PROVE TypeOK'
  <2>1. calls' \in [Task -> Seq(Verdict)] /\ records' \in [Task -> Seq(Record)]
    BY <1>9, CallEndsType DEF CallFails, Verdict
  <2>2. before' \in [Task -> Nat] /\ place' \in [Task -> Place]
    BY <1>9, <2>1, AgainType DEF CallFails
  <2>3. QED
    BY <1>9, <2>1, <2>2 DEF CallFails
<1>10. ASSUME NEW t \in Task, Promote(t) \/ PromoteFails(t) PROVE TypeOK'
  BY <1>10 DEF Promote, PromoteFails, Goto
<1>11. ASSUME NEW t \in Task, Fallback(t) \/ FallbackFails(t) PROVE TypeOK'
  <2>1. <<>> \in Workbook
    BY DEF Workbook
  <2>2. outputs' \in [Task -> Workbook \cup {None}]
    BY <1>11, <2>1 DEF Fallback, FallbackFails, Pristine
  <2>3. place' \in [Task -> Place]
    BY <1>11 DEF Fallback, FallbackFails, Goto
  <2>4. PICK w \in {None, working[t]} : working' = [working EXCEPT ![t] = w]
    BY <1>11 DEF Fallback, FallbackFails
  <2>5. working' \in [Task -> Workbook \cup {None}]
    BY <2>4
  <2>6. status' \in [Task -> {"ok", "error", None}]
    BY <1>11 DEF Fallback, FallbackFails
  <2>7. QED
    BY <1>11, <2>2, <2>3, <2>5, <2>6 DEF Fallback, FallbackFails
<1>12. ASSUME NEW t \in Task, WriteTrace(t) \/ TraceFails(t) PROVE TypeOK'
  <2>1. status[t] \in {"ok", "error"}
    BY <1>12 DEF WriteTrace, TraceFails, TaskInv
  <2>2. Signed(t) \in Seq(Record)
    BY <2>1, SignedType
  <2>3. /\ records' = [records EXCEPT ![t] = Signed(t)]
        /\ traces' = traces \/ traces' = [traces EXCEPT ![t] = Signed(t)]
    BY <1>12 DEF WriteTrace, TraceFails
  <2>4. records' \in [Task -> Seq(Record)] /\ traces' \in [Task -> Seq(Record) \cup {None}]
    BY <2>2, <2>3
  <2>5. place' \in [Task -> Place]
    BY <1>12 DEF WriteTrace, TraceFails, Goto
  <2>6. QED
    BY <1>12, <2>4, <2>5 DEF WriteTrace, TraceFails
<1>13. QED
  BY <1>1, <1>2, <1>3, <1>4, <1>5, <1>6, <1>7, <1>8, <1>9, <1>10, <1>11, <1>12
  DEF Next, Worker

-----------------------------------------------------------------------------
(* The invariant.                                                          *)

(* A step of one thread leaves the others' tasks as they are.              *)
LEMMA OthersKept ==
  ASSUME TypeOK, NEW t \in Task, Worker(t), NEW u \in Task \ {t}
  PROVE  /\ place'[u] = place[u] /\ working'[u] = working[u] /\ plan'[u] = plan[u]
         /\ records'[u] = records[u] /\ status'[u] = status[u]
         /\ outputs'[u] = outputs[u] /\ traces'[u] = traces[u]
<1> USE DEF TypeOK, Goto, artefacts
<1>1. CASE Take(t) \/ Copy(t) \/ CopyFails(t) \/ Retried(t)
  BY <1>1 DEF Take, Copy, CopyFails, Retried, solver
<1>2. CASE Accepted(t)
  BY <1>2 DEF Accepted, CallEnds
<1>3. CASE Rejected(t)
  BY <1>3 DEF Rejected, CallEnds, CallAgain, GiveUp
<1>4. CASE Truncated(t) \/ CallFails(t)
  BY <1>4 DEF Truncated, CallFails, CallEnds, CallAgain, GiveUp
<1>5. CASE Promote(t) \/ PromoteFails(t)
  BY <1>5 DEF Promote, PromoteFails
<1>6. CASE Fallback(t) \/ FallbackFails(t)
  BY <1>6 DEF Fallback, FallbackFails, Pristine
<1>7. CASE WriteTrace(t) \/ TraceFails(t)
  BY <1>7 DEF WriteTrace, TraceFails
<1>8. QED
  BY <1>1, <1>2, <1>3, <1>4, <1>5, <1>6, <1>7 DEF Worker

(* A thread keeps its own task's part of the invariant.                    *)
LEMMA OwnStep ==
  ASSUME TypeOK, NEW t \in Task, TaskInv(t), Worker(t)
  PROVE  TaskInv(t)'
<1> USE DEF TypeOK, TaskInv, Goto, artefacts
<1>1. CASE Take(t)
  BY <1>1 DEF Take, solver
<1>2. CASE Copy(t) \/ CopyFails(t)
  <2>1. /\ place[t] = "copy"
        /\ \/ place'[t] = "answer" /\ working'[t] = <<>>
           \/ place'[t] = "fallback"
        /\ status'[t] = status[t] /\ traces'[t] = traces[t]
    BY <1>2 DEF Copy, CopyFails
  <2>2. <<>> \in Workbook
    BY DEF Workbook
  <2>3. QED
    BY <2>1, <2>2
<1>3. CASE Retried(t)
  BY <1>3 DEF Retried
<1>4. CASE Accepted(t)
  <2>1. records'[t] # <<>>
    BY <1>4, CallEndsType DEF Accepted, Verdict
  <2>2. PICK p \in Plan : /\ working' = [working EXCEPT ![t] = Append(working[t], p)]
                          /\ plan' = [plan EXCEPT ![t] = p]
    BY <1>4 DEF Accepted
  <2>3. place[t] = "answer" /\ place' = [place EXCEPT ![t] = "promote"]
    BY <1>4 DEF Accepted, CallEnds
  <2>4. Append(working[t], p) \in Workbook
    BY <2>3 DEF Workbook
  <2>5. "apply" \notin Late => Append(working[t], p) = <<p>>
    BY <2>3
  <2>6. plan'[t] = p /\ working'[t] = Append(working[t], p) /\ place'[t] = "promote"
    BY <2>2, <2>3
  <2>7. status'[t] = None /\ traces'[t] = None
    BY <1>4, <2>3 DEF Accepted
  <2>8. QED
    BY <2>1, <2>4, <2>5, <2>6, <2>7
<1>5. CASE Rejected(t)
  <2>1. place[t] = "answer"
    BY <1>5 DEF Rejected, CallEnds
  <2>2. working'[t] \in Workbook /\ ("apply" \notin Late => working'[t] = working[t])
    <3>1. ASSUME NEW p \in Plan PROVE Append(working[t], p) \in Workbook
      BY <2>1, <3>1 DEF Workbook
    <3>2. QED
      BY <1>5, <2>1, <3>1 DEF Rejected
  <2>3. place'[t] \in {"answer", "fallback"}
    BY <1>5, <2>1 DEF Rejected, CallAgain, GiveUp
  <2>4. status'[t] = None /\ traces'[t] = None
    BY <1>5, <2>1 DEF Rejected
  <2>5. QED
    BY <2>1, <2>2, <2>3, <2>4
<1>6. CASE Truncated(t) \/ CallFails(t)
  <2>1. place[t] = "answer"
    BY <1>6 DEF Truncated, CallFails, CallEnds
  <2>2. place'[t] \in {"answer", "fallback"}
    BY <1>6, <2>1 DEF Truncated, CallFails, CallAgain, GiveUp
  <2>3. working'[t] = working[t] /\ status'[t] = None /\ traces'[t] = None
    BY <1>6, <2>1 DEF Truncated, CallFails
  <2>4. QED
    BY <2>1, <2>2, <2>3
<1>7. CASE Promote(t)
  BY <1>7 DEF Promote
<1>8. CASE PromoteFails(t)
  BY <1>8 DEF PromoteFails
<1>9. CASE Fallback(t)
  BY <1>9 DEF Fallback, Pristine
<1>10. CASE FallbackFails(t)
  BY <1>10 DEF FallbackFails
<1>11. CASE WriteTrace(t)
  <2>1. status[t] \in {"ok", "error"}
    BY <1>11 DEF WriteTrace
  <2>2. Signed(t) = <<>> <=> records[t] = <<>>
    BY <2>1, SignedType
  <2>3. /\ place'[t] = "done" /\ records'[t] = Signed(t) /\ traces'[t] = Signed(t)
        /\ UNCHANGED <<plan, status, outputs>>
    BY <1>11 DEF WriteTrace
  <2>4. QED
    BY <1>11, <2>2, <2>3 DEF WriteTrace
<1>12. CASE TraceFails(t)
  BY <1>12 DEF TraceFails
<1>13. QED
  BY <1>1, <1>2, <1>3, <1>4, <1>5, <1>6, <1>7, <1>8, <1>9, <1>10, <1>11, <1>12
  DEF Worker

LEMMA TaskStep ==
  ASSUME IInv, [Next]_vars, NEW u \in Task PROVE TaskInv(u)'
<1>1. CASE \E t \in Task : Worker(t)
  <2>1. PICK t \in Task : Worker(t)
    BY <1>1
  <2>2. CASE u = t
    BY <2>1, <2>2, OwnStep DEF IInv
  <2>3. CASE u # t
    BY <2>1, <2>3, OthersKept DEF IInv, TaskInv
  <2>4. QED
    BY <2>2, <2>3
<1>2. CASE ~\E t \in Task : Worker(t)
  <2>1. UNCHANGED <<place, solver, artefacts>>
    BY <1>2 DEF Next, vars, MainThread, Interrupt, Kill, Start, AllObserved, Shutdown,
                WritePredictions, Validate, Close, Observe
  <2>2. QED
    BY <2>1 DEF IInv, TaskInv, solver, artefacts
<1>3. QED
  BY <1>1, <1>2

(* Threads only ever finish, and change no status after that.              *)
LEMMA WorkerProgress ==
  ASSUME IInv, NEW t \in Task, Worker(t)
  PROVE  /\ ~Finished(t) /\ UNCHANGED mains
         /\ main \notin {"start", "refused", "killed"} \/ place[t] # "queued"
BY DEF IInv, Finished, Worker, Take, Copy, CopyFails, Retried, Accepted, Rejected,
       Truncated, CallFails, CallEnds, Promote, PromoteFails, Fallback, FallbackFails,
       WriteTrace, TraceFails

LEMMA MainStep == ASSUME IInv, [Next]_vars PROVE MainInv'
<1> USE DEF MainInv, Finished
<1>1. CASE \E t \in Task : Worker(t)
  <2>1. PICK t \in Task : Worker(t)
    BY <1>1
  <2>2. ~Finished(t) /\ UNCHANGED mains
    BY <2>1, WorkerProgress
  <2>3. \A u \in Task : Finished(u) => place'[u] = place[u] /\ status'[u] = status[u]
    BY <2>1, <2>2, OthersKept DEF IInv
  <2>4. CASE predictions = None
    <3>1. observed \subseteq Task
      BY DEF IInv, TypeOK
    <3>2. \A u \in observed : place'[u] = "done"
      BY <2>3, <3>1 DEF IInv
    <3>3. main \notin {"write", "validate"}
      BY <2>2 DEF IInv
    <3>4. ~impatient => main # "close" /\ client # "closed"
      BY <2>2 DEF IInv
    <3>5. QED
      BY <2>2, <2>4, <3>2, <3>3, <3>4 DEF IInv, mains
  <2>5. CASE predictions # None
    BY <2>2, <2>5 DEF IInv
  <2>6. QED
    BY <2>4, <2>5
<1>2. CASE ~\E t \in Task : Worker(t)
  <2>1. UNCHANGED <<place, status>>
    BY <1>2 DEF Next, vars, MainThread, Interrupt, Kill, Start, AllObserved, Shutdown,
                WritePredictions, Validate, Close, Observe, artefacts
  <2>2. CASE Start \/ AllObserved \/ Shutdown \/ Validate \/ Close
    BY <2>1, <2>2 DEF IInv, Start, AllObserved, Shutdown, Validate, Close, TypeOK
  <2>3. CASE WritePredictions
    <3>1. status \in [Task -> {"ok", "error"}]
      BY <2>3 DEF WritePredictions, IInv, TaskInv, TypeOK
    <3>2. status # None
      BY <3>1, NoneAssumption
    <3>3. QED
      BY <2>1, <2>3, <3>2 DEF IInv, WritePredictions
  <2>4. ASSUME NEW t \in Task, Observe(t) PROVE MainInv'
    BY <2>1, <2>4 DEF IInv, Observe
  <2>5. CASE Interrupt \/ Kill
    BY <2>1, <2>5 DEF IInv, Interrupt, Kill
  <2>6. CASE UNCHANGED vars
    BY <2>6 DEF vars, mains, IInv, artefacts
  <2>7. QED
    BY <1>2, <2>2, <2>3, <2>4, <2>5, <2>6 DEF Next, MainThread
<1>3. QED
  BY <1>1, <1>2

(* The invariant holds in every reachable state, with any kills, errors    *)
(* and interrupts.                                                         *)
THEOREM InvariantHolds == Spec => []IInv
<1>1. Init => IInv
  <2>1. ASSUME Init PROVE TypeOK
    <3>1. <<>> \in Seq(Verdict) /\ <<>> \in Seq(Record)
      OBVIOUS
    <3>2. QED
      BY <2>1, <3>1 DEF Init, TypeOK, Place
  <2>2. ASSUME Init PROVE (\A t \in Task : TaskInv(t)) /\ MainInv
    BY <2>2 DEF Init, TaskInv, MainInv
  <2>3. QED
    BY <2>1, <2>2 DEF IInv
<1>2. IInv /\ [Next]_vars => IInv'
  BY TypeStep, TaskStep, MainStep DEF IInv
<1>3. QED
  BY <1>1, <1>2, PTL DEF Spec

-----------------------------------------------------------------------------
(* What follows from it.                                                   *)

(* Every variable keeps its type: no thread signs, marks or publishes a    *)
(* thing that is not there.                                                *)
THEOREM TypesHold == Spec => []TypeOK
BY InvariantHolds, PTL DEF IInv

(* The HTTP client outlives the threads, unless the operator interrupts    *)
(* the wait for them.                                                      *)
THEOREM ClientOutlivesThreads == Spec => []ClosedWhenIdle
<1>1. IInv => ClosedWhenIdle
  BY DEF IInv, MainInv, ClosedWhenIdle
<1>2. QED
  BY <1>1, InvariantHolds, PTL

(* A run whose predictions are written passes its own validation.          *)
THEOREM ValidationNeverComplains == Spec => []ValidationAccepts
<1>1. ASSUME IInv, main = "validate", NEW t \in Task
      PROVE  /\ outputs[t] # None /\ traces[t] # None
             /\ traces[t] = <<>> => predictions[t] = "error"
  <2>1. place[t] = "done" /\ predictions = status
    BY <1>1 DEF IInv, MainInv
  <2>2. TaskInv(t) /\ records[t] \in Seq(Record)
    BY <1>1 DEF IInv, TypeOK
  <2>3. traces[t] = records[t] /\ traces[t] # None
    BY <2>1, <2>2, NoneAssumption DEF TaskInv
  <2>4. outputs[t] \in Workbook
    <3>1. <<>> \in Workbook
      BY DEF Workbook
    <3>2. QED
      BY <2>1, <2>2, <3>1 DEF TaskInv
  <2>5. outputs[t] # None
    BY <2>4, NoneAssumption
  <2>6. traces[t] = <<>> => status[t] = "error"
    BY <2>1, <2>2, <2>3 DEF TaskInv
  <2>7. QED
    BY <2>1, <2>3, <2>5, <2>6
<1>2. IInv => ValidationAccepts
  BY <1>1 DEF ValidationAccepts, Valid
<1>3. QED
  BY <1>2, InvariantHolds, PTL

(* Unless the chmod of an applied candidate raises, a success has the      *)
(* edits of the accepted plan and no others.                               *)
THEOREM SuccessIsTheAcceptedPlan ==
  ASSUME "apply" \notin Late PROVE Spec => []OnlyAcceptedEdits
<1>1. ASSUME IInv, NEW t \in Task, place[t] = "done", status[t] = "ok"
      PROVE  outputs[t] = <<plan[t]>>
  BY <1>1 DEF IInv, TaskInv
<1>2. IInv => OnlyAcceptedEdits
  BY <1>1 DEF OnlyAcceptedEdits
<1>3. QED
  BY <1>2, InvariantHolds, PTL

-----------------------------------------------------------------------------
(* Calls.                                                                  *)

(* Another call is due: the repair of rejected plans, or the recovery of   *)
(* the first answer.                                                       *)
CallDue(t) ==
  IF recovery[t]
  THEN calls[t] = <<"not_reached">> /\ t \in CellTask /\ SemanticRepairs >= 1
  ELSE /\ Len(calls[t]) <= SemanticRepairs
       /\ \A n \in DOMAIN calls[t] : calls[t][n] = "rejected"

(* Nothing was asked before the thread waits for an answer; while it waits *)
(* there was room for the call.                                            *)
BudgetInv(t) ==
  /\ place[t] \in {"queued", "copy"} => calls[t] = <<>> /\ ~recovery[t]
  /\ place[t] = "answer" => CallDue(t)
  /\ WithinBudget(t)

(* Nor does the thread touch the calls of another task.                    *)
LEMMA OtherCallsKept ==
  ASSUME TypeOK, NEW t \in Task, Worker(t), NEW u \in Task \ {t}
  PROVE  /\ recovery'[u] = recovery[u] /\ calls'[u] = calls[u]
         /\ before'[u] = before[u]
<1> USE DEF TypeOK, solver
<1>1. CASE Take(t) \/ Copy(t) \/ CopyFails(t) \/ Retried(t)
  BY <1>1 DEF Take, Copy, CopyFails, Retried
<1>2. CASE Accepted(t)
  BY <1>2 DEF Accepted, CallEnds
<1>3. CASE Rejected(t)
  BY <1>3 DEF Rejected, CallEnds, CallAgain, GiveUp
<1>4. CASE Truncated(t) \/ CallFails(t)
  BY <1>4 DEF Truncated, CallFails, CallEnds, CallAgain, GiveUp
<1>5. CASE Promote(t) \/ PromoteFails(t) \/ Fallback(t) \/ FallbackFails(t)
  BY <1>5 DEF Promote, PromoteFails, Fallback, FallbackFails
<1>6. CASE WriteTrace(t) \/ TraceFails(t)
  BY <1>6 DEF WriteTrace, TraceFails
<1>7. QED
  BY <1>1, <1>2, <1>3, <1>4, <1>5, <1>6 DEF Worker

(* A call that is due is within the budget, whatever it comes to.          *)
LEMMA DueWithinBudget ==
  ASSUME TypeOK, NEW t \in Task, CallDue(t), NEW v \in Verdict,
         calls' = [calls EXCEPT ![t] = Append(calls[t], v)]
  PROVE  WithinBudget(t)'
<1>1. calls[t] \in Seq(Verdict) /\ SemanticRepairs \in Nat
  BY RunAssumption DEF TypeOK
<1>2. calls'[t] = Append(calls[t], v)
  BY DEF TypeOK
<1>3. CASE recovery[t]
  BY <1>1, <1>2, <1>3 DEF CallDue, WithinBudget
<1>4. CASE ~recovery[t]
  <2>1. /\ Len(calls'[t]) = Len(calls[t]) + 1
        /\ \A n \in 1 .. Len(calls[t]) : calls'[t][n] = "rejected"
    BY <1>1, <1>2, <1>4 DEF CallDue
  <2>2. Len(calls[t]) <= SemanticRepairs /\ Len(calls[t]) \in Nat
    BY <1>1, <1>4 DEF CallDue
  <2>3. \A n \in 2 .. Len(calls'[t]) : calls'[t][n - 1] = "rejected"
    BY <2>1, <2>2
  <2>4. \A n \in DOMAIN calls'[t] : n < Len(calls'[t]) => calls'[t][n] = "rejected"
    BY <1>1, <1>2, <2>1, <2>2
  <2>5. QED
    BY <1>1, <2>1, <2>2, <2>3, <2>4 DEF WithinBudget
<1>5. QED
  BY <1>3, <1>4

(* What the end of a call leaves of the budget.                            *)
LEMMA BudgetStep ==
  ASSUME TypeOK, NEW t \in Task, BudgetInv(t), Worker(t)
  PROVE  BudgetInv(t)'
<1> USE DEF TypeOK, solver
<1>1. CASE Take(t)
  BY <1>1 DEF Take, Goto, BudgetInv, WithinBudget
<1>2. CASE Copy(t) \/ CopyFails(t)
  <2>1. /\ calls'[t] = <<>> /\ recovery'[t] = FALSE
        /\ place'[t] \in {"answer", "fallback"}
    BY <1>2 DEF Copy, CopyFails, Goto, BudgetInv
  <2>2. CallDue(t)' /\ WithinBudget(t)'
    BY <2>1, RunAssumption DEF CallDue, WithinBudget
  <2>3. QED
    BY <2>1, <2>2 DEF BudgetInv
<1>3. CASE Retried(t)
  BY <1>3 DEF Retried, BudgetInv, CallDue, WithinBudget
<1>4. CASE Accepted(t)
  <2>1. /\ place[t] = "answer" /\ place'[t] = "promote"
        /\ calls' = [calls EXCEPT ![t] = Append(calls[t], "accepted")]
    BY <1>4 DEF Accepted, CallEnds, Goto
  <2>2. QED
    BY <2>1, DueWithinBudget DEF BudgetInv, Verdict
<1>5. CASE Rejected(t)
  <2>1. /\ place[t] = "answer"
        /\ calls' = [calls EXCEPT ![t] = Append(calls[t], "rejected")]
        /\ UNCHANGED recovery
    BY <1>5 DEF Rejected, CallEnds
  <2>2. CallDue(t) /\ WithinBudget(t)'
    BY <2>1, DueWithinBudget DEF BudgetInv, Verdict
  <2>3. CASE LastCall(t) /\ GiveUp(t)
    BY <2>1, <2>2, <2>3 DEF GiveUp, Goto, BudgetInv
  <2>4. CASE ~LastCall(t) /\ CallAgain(t)
    <3>1. ~recovery[t] /\ ~(Len(calls[t]) >= SemanticRepairs)
      BY <2>4 DEF LastCall
    <3>2. /\ calls[t] \in Seq(Verdict) /\ calls'[t] = Append(calls[t], "rejected")
          /\ \A n \in DOMAIN calls[t] : calls[t][n] = "rejected"
      BY <2>1, <2>2, <3>1 DEF CallDue
    <3>3. CallDue(t)'
      BY <2>1, <3>1, <3>2, RunAssumption DEF CallDue
    <3>4. place'[t] = "answer"
      BY <2>1, <2>4 DEF CallAgain
    <3>5. QED
      BY <2>2, <3>3, <3>4 DEF BudgetInv
  <2>5. QED
    BY <1>5, <2>3, <2>4 DEF Rejected
<1>6. CASE Truncated(t)
  <2>1. /\ place[t] = "answer"
        /\ calls' = [calls EXCEPT ![t] = Append(calls[t], "not_reached")]
    BY <1>6 DEF Truncated, CallEnds
  <2>2. CallDue(t) /\ WithinBudget(t)'
    BY <2>1, DueWithinBudget DEF BudgetInv, Verdict
  <2>3. CASE MayRecover(t) /\ CallAgain(t) /\ recovery' = [recovery EXCEPT ![t] = TRUE]
    <3>1. calls[t] = <<>> /\ calls'[t] = <<"not_reached">> /\ recovery'[t] = TRUE
      BY <2>1, <2>3 DEF MayRecover
    <3>2. CallDue(t)'
      BY <2>3, <3>1 DEF MayRecover, CallDue
    <3>3. place'[t] = "answer"
      BY <2>1, <2>3 DEF CallAgain
    <3>4. QED
      BY <2>2, <3>2, <3>3 DEF BudgetInv
  <2>4. CASE GiveUp(t)
    BY <2>2, <2>4 DEF GiveUp, Goto, BudgetInv
  <2>5. QED
    BY <1>6, <2>3, <2>4 DEF Truncated
<1>7. CASE CallFails(t)
  <2>1. /\ place[t] = "answer" /\ place'[t] = "fallback"
        /\ calls' = [calls EXCEPT ![t] = Append(calls[t], "not_reached")]
    BY <1>7 DEF CallFails, CallEnds, GiveUp, Goto
  <2>2. QED
    BY <2>1, DueWithinBudget DEF BudgetInv, Verdict
<1>8. CASE Promote(t) \/ PromoteFails(t) \/ Fallback(t) \/ FallbackFails(t)
           \/ WriteTrace(t) \/ TraceFails(t)
  <2>1. /\ place'[t] \in {"fallback", "trace", "done", "failed"}
        /\ UNCHANGED calls
    BY <1>8 DEF Promote, PromoteFails, Fallback, FallbackFails, WriteTrace, TraceFails, Goto
  <2>2. QED
    BY <2>1 DEF BudgetInv, WithinBudget
<1>9. QED
  BY <1>1, <1>2, <1>3, <1>4, <1>5, <1>6, <1>7, <1>8 DEF Worker

LEMMA BudgetHolds == Spec => [](\A t \in Task : BudgetInv(t))
<1>1. Init => \A t \in Task : BudgetInv(t)
  BY RunAssumption DEF Init, BudgetInv, WithinBudget
<1>2. ASSUME IInv, [Next]_vars, \A t \in Task : BudgetInv(t)
      PROVE  (\A t \in Task : BudgetInv(t))'
  <2>1. CASE \E t \in Task : Worker(t)
    <3>1. PICK t \in Task : Worker(t)
      BY <2>1
    <3>2. BudgetInv(t)'
      BY <1>2, <3>1, BudgetStep DEF IInv
    <3>3. ASSUME NEW u \in Task, u # t PROVE BudgetInv(u)'
      <4>1. /\ recovery'[u] = recovery[u] /\ calls'[u] = calls[u]
            /\ place'[u] = place[u]
        BY <1>2, <3>1, <3>3, OthersKept, OtherCallsKept DEF IInv
      <4>2. QED
        BY <1>2, <4>1 DEF BudgetInv, CallDue, WithinBudget
    <3>4. QED
      BY <3>2, <3>3
  <2>2. CASE ~\E t \in Task : Worker(t)
    <3>1. UNCHANGED <<place, solver>>
      BY <1>2, <2>2 DEF Next, vars, MainThread, Interrupt, Kill, Start, AllObserved,
           Shutdown, WritePredictions, Validate, Close, Observe
    <3>2. QED
      BY <1>2, <3>1 DEF solver, BudgetInv, CallDue, WithinBudget
  <2>3. QED
    BY <2>1, <2>2
<1>3. QED
  BY <1>1, <1>2, InvariantHolds, PTL DEF Spec

(* However the model answers, a task has SemanticRepairs calls after the   *)
(* first, each for a rejected plan, or one that recovers the first.        *)
THEOREM CallsAreBudgeted == Spec => []CallBudget
<1>1. (\A t \in Task : BudgetInv(t)) => CallBudget
  BY DEF BudgetInv, WithinBudget, CallBudget
<1>2. QED
  BY <1>1, BudgetHolds, PTL

-----------------------------------------------------------------------------
(* Traces.                                                                 *)

(* The first b records tell what became of the calls: ...                  *)
Told(rs, cs, b) ==
  /\ \A i \in 1 .. b :
       /\ rs[i].call \in DOMAIN cs
       /\ rs[i].terminal <=> \A j \in 1 .. b : rs[j].call = rs[i].call => j <= i
       /\ rs[i].plan = IF rs[i].terminal THEN cs[rs[i].call] ELSE None
  /\ \A n \in DOMAIN cs :
       (\A i \in 1 .. b : rs[i].call # n) => cs[n] = "not_reached"

(* ... the others are of call k, which has not ended, ...                  *)
Pending(rs, b, k) ==
  \A i \in b + 1 .. Len(rs) :
    rs[i].call = k /\ rs[i].terminal = FALSE /\ rs[i].plan = None

(* ... and none has the status of the task.                                *)
Unsigned(rs) == \A i \in DOMAIN rs : rs[i].task = None

(* The thread waits for an answer of the call after those that ended.      *)
Waiting(t) ==
  /\ before[t] <= Len(records[t])
  /\ Told(records[t], calls[t], before[t])
  /\ Pending(records[t], before[t], Len(calls[t]) + 1)
  /\ Unsigned(records[t])

(* What the records tell, by where the task is, and what the trace tells.  *)
TraceInv(t) ==
  /\ place[t] \in {"queued", "copy"} =>
       records[t] = <<>> /\ calls[t] = <<>> /\ before[t] = 0
  /\ place[t] = "answer" => Waiting(t)
  /\ place[t] \in {"promote", "fallback", "trace"} =>
       Told(records[t], calls[t], Len(records[t])) /\ Unsigned(records[t])
  /\ place[t] \in {"done", "failed"} /\ traces[t] # None =>
       /\ Told(traces[t], calls[t], Len(traces[t]))
       /\ \A i \in DOMAIN traces[t] :
            traces[t][i].task = IF i = Len(traces[t]) THEN status[t] ELSE None

(* The end of a call makes the trace tell of it: the last of its records   *)
(* is marked, and a call without one has not come to a plan.               *)
LEMMA MarkedTells ==
  ASSUME NEW rs \in Seq(Record), NEW cs \in Seq(Verdict), NEW b \in Nat,
         b <= Len(rs), Told(rs, cs, b), Pending(rs, b, Len(cs) + 1), Unsigned(rs),
         NEW v \in Verdict, Len(rs) = b => v = "not_reached",
         NEW new, new = IF Len(rs) > b THEN Marked(rs, v) ELSE rs
  PROVE  Told(new, Append(cs, v), Len(new)) /\ Unsigned(new)
<1> DEFINE cs2 == Append(cs, v)
<1>1. /\ cs2 \in Seq(Verdict) /\ Len(cs2) = Len(cs) + 1 /\ cs2[Len(cs) + 1] = v
      /\ \A n \in DOMAIN cs : n \in DOMAIN cs2 /\ cs2[n] = cs[n] /\ n # Len(cs) + 1
      /\ \A n \in DOMAIN cs2 : n \in DOMAIN cs \/ n = Len(cs) + 1
  OBVIOUS
<1> HIDE DEF cs2
<1>2. CASE Len(rs) > b
  <2> DEFINE z == Len(rs)
  <2>1. z \in DOMAIN rs /\ z \in b + 1 .. Len(rs) /\ rs[z] \in Record
    BY <1>2
  <2>2. new = [rs EXCEPT ![z] = [rs[z] EXCEPT !.terminal = TRUE, !.plan = v]]
    BY <1>2 DEF Marked
  <2>3. /\ Len(new) = z /\ DOMAIN new = 1 .. z
        /\ \A i \in 1 .. z : i # z => new[i] = rs[i]
        /\ new[z] = [rs[z] EXCEPT !.terminal = TRUE, !.plan = v]
    BY <2>1, <2>2
  <2>4. /\ new[z].call = rs[z].call /\ new[z].terminal = TRUE /\ new[z].plan = v
        /\ new[z].task = rs[z].task
    BY <2>1, <2>3 DEF Record
  <2>5. \A i \in 1 .. z : new[i].call = rs[i].call /\ new[i].task = rs[i].task
    BY <2>3, <2>4
  <2>6. \A i \in b + 1 .. z : new[i].call = Len(cs) + 1
    BY <2>5 DEF Pending
  <2>7. \A i \in 1 .. b : new[i].call \in DOMAIN cs /\ new[i] = rs[i]
    BY <1>2, <2>3 DEF Told
  <2>8. ASSUME NEW i \in 1 .. z
        PROVE  /\ new[i].call \in DOMAIN cs2
               /\ new[i].terminal <=> \A j \in 1 .. z : new[j].call = new[i].call => j <= i
               /\ new[i].plan = IF new[i].terminal THEN cs2[new[i].call] ELSE None
    <3>1. CASE i \in 1 .. b
      <4>1. \A j \in 1 .. z : new[j].call = new[i].call => j \in 1 .. b
        BY <1>1, <2>6, <2>7, <3>1
      <4>2. /\ new[i].terminal <=> \A j \in 1 .. b : new[j].call = new[i].call => j <= i
            /\ new[i].plan = IF new[i].terminal THEN cs[new[i].call] ELSE None
        BY <2>7, <3>1 DEF Told
      <4>3. new[i].terminal <=> \A j \in 1 .. z : new[j].call = new[i].call => j <= i
        BY <1>2, <4>1, <4>2
      <4>4. QED
        BY <1>1, <2>7, <3>1, <4>2, <4>3
    <3>2. CASE i \in b + 1 .. z /\ i # z
      <4>1. new[i].terminal = FALSE /\ new[i].plan = None
        BY <2>3, <3>2 DEF Pending
      <4>2. new[z].call = new[i].call /\ ~(z <= i)
        BY <2>1, <2>6, <3>2
      <4>3. QED
        BY <1>1, <2>6, <2>1, <3>2, <4>1, <4>2
    <3>3. CASE i = z
      <4>1. \A j \in 1 .. z : j <= i
        BY <3>3
      <4>2. QED
        BY <1>1, <2>1, <2>4, <2>6, <3>3, <4>1
    <3>4. QED
      BY <3>1, <3>2, <3>3
  <2>9. ASSUME NEW n \in DOMAIN cs2, \A i \in 1 .. z : new[i].call # n
        PROVE  cs2[n] = "not_reached"
    <3>1. n \in DOMAIN cs
      BY <1>1, <2>1, <2>6, <2>9
    <3>2. \A i \in 1 .. b : rs[i].call # n
      BY <1>2, <2>7, <2>9
    <3>3. QED
      BY <1>1, <3>1, <3>2 DEF Told
  <2>10. Unsigned(new)
    BY <2>3, <2>5 DEF Unsigned
  <2>11. QED
    BY <2>3, <2>8, <2>9, <2>10 DEF Told, cs2
<1>3. CASE Len(rs) = b
  <2>1. new = rs /\ v = "not_reached"
    BY <1>3
  <2>2. Told(rs, cs2, b)
    BY <1>1, <2>1 DEF Told
  <2>3. QED
    BY <1>3, <2>1, <2>2 DEF cs2
<1>4. QED
  BY <1>2, <1>3

(* A report of the last attempt is one more record of the call.            *)
LEMMA ReportPends ==
  ASSUME NEW rs \in Seq(Record), NEW cs, NEW b \in Nat, NEW k, NEW r \in Record,
         b <= Len(rs), Told(rs, cs, b), Pending(rs, b, k), Unsigned(rs),
         r.call = k, r.terminal = FALSE, r.plan = None, r.task = None
  PROVE  /\ Append(rs, r) \in Seq(Record) /\ b < Len(Append(rs, r))
         /\ Told(Append(rs, r), cs, b) /\ Pending(Append(rs, r), b, k)
         /\ Unsigned(Append(rs, r))
<1> DEFINE new == Append(rs, r)
<1>1. /\ new \in Seq(Record) /\ Len(new) = Len(rs) + 1 /\ new[Len(rs) + 1] = r
      /\ \A i \in DOMAIN rs : new[i] = rs[i]
      /\ \A i \in DOMAIN new : i \in DOMAIN rs \/ i = Len(rs) + 1
  OBVIOUS
<1> HIDE DEF new
<1>2. \A i \in 1 .. b : new[i] = rs[i]
  BY <1>1
<1>3. Told(new, cs, b)
  BY <1>2 DEF Told
<1>4. Pending(new, b, k)
  <2>1. ASSUME NEW i \in b + 1 .. Len(new)
        PROVE  new[i].call = k /\ new[i].terminal = FALSE /\ new[i].plan = None
    <3>1. i \in b + 1 .. Len(rs) \/ i = Len(rs) + 1
      BY <1>1
    <3>2. i \in b + 1 .. Len(rs) => new[i] = rs[i]
      BY <1>1
    <3>3. QED
      BY <1>1, <3>1, <3>2 DEF Pending
  <2>2. QED
    BY <2>1 DEF Pending
<1>5. Unsigned(new)
  BY <1>1 DEF Unsigned
<1>6. QED
  BY <1>1, <1>3, <1>4, <1>5 DEF new

(* So is what on_attempt makes of it.                                      *)
LEMMA AttemptPends ==
  ASSUME TypeOK, NEW t \in Task, Waiting(t), NEW p \in {"success", "retry", "error"},
         NEW new, new = Append(records[t], Attempt(t, p))
  PROVE  /\ new \in Seq(Record) /\ before[t] < Len(new)
         /\ Told(new, calls[t], before[t])
         /\ Pending(new, before[t], Len(calls[t]) + 1)
         /\ Unsigned(new)
<1>1. /\ records[t] \in Seq(Record) /\ before[t] \in Nat /\ recovery[t] \in BOOLEAN
      /\ Len(calls[t]) + 1 \in Nat
  BY DEF TypeOK
<1> DEFINE r == Attempt(t, p)
<1>2. /\ r \in Record /\ r.call = Len(calls[t]) + 1 /\ r.terminal = FALSE
      /\ r.plan = None /\ r.task = None
  BY <1>1 DEF Attempt, Record
<1> HIDE DEF r
<1>3. new = Append(records[t], r)
  BY DEF r
<1> DEFINE rs == records[t]
           b == before[t]
           cs == calls[t]
           k == Len(calls[t]) + 1
<1>4. /\ rs \in Seq(Record) /\ b \in Nat /\ b <= Len(rs)
      /\ Told(rs, cs, b) /\ Pending(rs, b, k) /\ Unsigned(rs)
      /\ r \in Record /\ r.call = k /\ r.terminal = FALSE /\ r.plan = None /\ r.task = None
  BY <1>1, <1>2 DEF Waiting
<1> HIDE DEF rs, b, cs, k
<1>5. /\ Append(rs, r) \in Seq(Record) /\ b < Len(Append(rs, r))
      /\ Told(Append(rs, r), cs, b) /\ Pending(Append(rs, r), b, k)
      /\ Unsigned(Append(rs, r))
  BY <1>4, ReportPends
<1>6. new = Append(rs, r)
  BY <1>3 DEF rs
<1>7. QED
  BY <1>5, <1>6 DEF rs, b, cs, k

(* Whatever ends a call, and whether it was reported, the records tell.    *)
LEMMA CallEndsTells ==
  ASSUME TypeOK, NEW t \in Task, Waiting(t), NEW r \in BOOLEAN, NEW v \in Verdict,
         r \/ v = "not_reached", CallEnds(t, r, v)
  PROVE  Told(records'[t], calls'[t], Len(records'[t])) /\ Unsigned(records'[t])
<1>1. /\ records[t] \in Seq(Record) /\ before[t] \in Nat /\ calls[t] \in Seq(Verdict)
      /\ records'[t] = Closing(t, r, v) /\ calls'[t] = Append(calls[t], v)
  BY DEF TypeOK, CallEnds
<1> DEFINE rs == Reported(t, r, v)
<1>2. records'[t] = IF Len(rs) > before[t] THEN Marked(rs, v) ELSE rs
  BY <1>1 DEF Closing
<1>3. /\ rs \in Seq(Record) /\ before[t] <= Len(rs)
      /\ Told(rs, calls[t], before[t])
      /\ Pending(rs, before[t], Len(calls[t]) + 1)
      /\ Unsigned(rs)
      /\ Len(rs) = before[t] => v = "not_reached"
  <2>1. CASE r = TRUE
    <3>1. rs = Append(records[t], Attempt(t, Ended(v)))
      BY <2>1 DEF Reported
    <3>2. Ended(v) \in {"success", "retry", "error"}
      BY DEF Ended
    <3> HIDE DEF rs
    <3>3. /\ rs \in Seq(Record) /\ before[t] < Len(rs)
          /\ Told(rs, calls[t], before[t])
          /\ Pending(rs, before[t], Len(calls[t]) + 1)
          /\ Unsigned(rs)
      BY <3>1, <3>2, AttemptPends
    <3>4. QED
      BY <1>1, <3>3
  <2>2. CASE r = FALSE
    BY <1>1, <2>2 DEF Reported, Waiting
  <2>3. QED
    BY <2>1, <2>2
<1> HIDE DEF rs
<1>4. QED
  BY <1>1, <1>2, <1>3, MarkedTells

(* After the call the next one may follow.                                 *)
LEMMA AgainWaits ==
  ASSUME TypeOK, NEW t \in Task, calls' \in [Task -> Seq(Verdict)],
         records' \in [Task -> Seq(Record)], CallAgain(t),
         Told(records'[t], calls'[t], Len(records'[t])), Unsigned(records'[t])
  PROVE  Waiting(t)'
<1>1. before'[t] = Len(records'[t]) /\ Len(records'[t]) \in Nat
  BY DEF CallAgain, TypeOK
<1>2. Pending(records'[t], before'[t], Len(calls'[t]) + 1)
  BY <1>1 DEF Pending
<1>3. QED
  BY <1>1, <1>2 DEF Waiting

(* The signature changes the last record's status and nothing else.        *)
LEMMA SignedTells ==
  ASSUME TypeOK, NEW t \in Task, status[t] \in {"ok", "error"},
         Told(records[t], calls[t], Len(records[t])), Unsigned(records[t])
  PROVE  /\ Told(Signed(t), calls[t], Len(Signed(t)))
         /\ \A i \in DOMAIN Signed(t) :
              Signed(t)[i].task = IF i = Len(Signed(t)) THEN status[t] ELSE None
<1> DEFINE rs == records[t]
           new == Signed(t)
<1>1. rs \in Seq(Record)
  BY DEF TypeOK
<1>2. CASE rs = <<>>
  <2>1. new = rs
    BY <1>2 DEF Signed
  <2>2. QED
    BY <1>2, <2>1
<1>3. CASE rs # <<>>
  <2> DEFINE z == Len(rs)
  <2>1. z \in DOMAIN rs /\ rs[z] \in Record
    BY <1>1, <1>3
  <2>2. new = [rs EXCEPT ![z] = [rs[z] EXCEPT !.task = status[t]]]
    BY <1>3 DEF Signed
  <2>3. /\ Len(new) = z /\ DOMAIN new = 1 .. z /\ DOMAIN rs = 1 .. z
        /\ \A i \in 1 .. z : i # z => new[i] = rs[i]
        /\ new[z] = [rs[z] EXCEPT !.task = status[t]]
    BY <1>1, <2>1, <2>2
  <2>4. /\ new[z].call = rs[z].call /\ new[z].terminal = rs[z].terminal
        /\ new[z].plan = rs[z].plan /\ new[z].task = status[t]
    BY <2>1, <2>3 DEF Record
  <2> HIDE DEF new, rs, z
  <2>5. \A i \in 1 .. z : /\ new[i].call = rs[i].call /\ new[i].terminal = rs[i].terminal
                          /\ new[i].plan = rs[i].plan
    BY <2>3, <2>4
  <2>6. Told(rs, calls[t], z)
    BY DEF rs, z
  <2>7. Told(new, calls[t], z)
    BY <2>5, <2>6 DEF Told
  <2>8. \A i \in 1 .. z : i # z => new[i].task = None
    BY <2>3 DEF Unsigned, rs
  <2>9. QED
    BY <2>3, <2>4, <2>7, <2>8 DEF new
<1>4. QED
  BY <1>2, <1>3

(* A thread keeps what the records and the trace of its task tell.         *)
LEMMA TraceStep ==
  ASSUME TypeOK, NEW t \in Task, TaskInv(t), TraceInv(t), Worker(t), TypeOK'
  PROVE  TraceInv(t)'
<1> USE DEF TypeOK, artefacts
<1>1. CASE Take(t)
  BY <1>1 DEF Take, Goto, TraceInv, TaskInv, solver
<1>2. CASE Copy(t) \/ CopyFails(t)
  <2>1. /\ calls'[t] = <<>> /\ records'[t] = <<>> /\ before'[t] = 0
        /\ place'[t] \in {"answer", "fallback"}
    BY <1>2 DEF Copy, CopyFails, Goto, TraceInv
  <2>2. Told(<<>>, <<>>, 0) /\ Pending(<<>>, 0, 1) /\ Unsigned(<<>>)
    BY DEF Told, Pending, Unsigned
  <2>3. QED
    BY <2>1, <2>2 DEF TraceInv, Waiting
<1>3. CASE Retried(t)
  <2>1. /\ place[t] = "answer" /\ place'[t] = "answer"
        /\ records'[t] = Append(records[t], Attempt(t, "retry"))
        /\ calls'[t] = calls[t] /\ before'[t] = before[t]
    BY <1>3 DEF Retried
  <2>2. Waiting(t)
    BY <2>1 DEF TraceInv
  <2>3. Len(records'[t]) \in Nat /\ before[t] \in Nat
    OBVIOUS
  <2>4. /\ before[t] < Len(records'[t])
        /\ Told(records'[t], calls[t], before[t])
        /\ Pending(records'[t], before[t], Len(calls[t]) + 1)
        /\ Unsigned(records'[t])
    BY <2>1, <2>2, AttemptPends
  <2>5. Waiting(t)'
    BY <2>1, <2>3, <2>4 DEF Waiting
  <2>6. QED
    BY <2>1, <2>5 DEF TraceInv
<1>4. CASE Accepted(t)
  <2>1. /\ place[t] = "answer" /\ place'[t] = "promote"
        /\ CallEnds(t, TRUE, "accepted")
    BY <1>4 DEF Accepted, CallEnds, Goto
  <2>2. QED
    BY <2>1, CallEndsTells DEF TraceInv, Verdict
<1>5. CASE Rejected(t)
  <2>1. place[t] = "answer" /\ CallEnds(t, TRUE, "rejected")
    BY <1>5 DEF Rejected, CallEnds
  <2>2. Told(records'[t], calls'[t], Len(records'[t])) /\ Unsigned(records'[t])
    BY <2>1, CallEndsTells DEF TraceInv, Verdict
  <2>3. CASE GiveUp(t)
    BY <2>1, <2>2, <2>3 DEF GiveUp, Goto, TraceInv
  <2>4. CASE CallAgain(t)
    <3>1. place'[t] = "answer"
      BY <2>1, <2>4 DEF CallAgain
    <3>2. QED
      BY <2>2, <2>4, <3>1, AgainWaits DEF TraceInv
  <2>5. QED
    BY <1>5, <2>3, <2>4 DEF Rejected
<1>6. CASE Truncated(t)
  <2>1. place[t] = "answer" /\ CallEnds(t, TRUE, "not_reached")
    BY <1>6 DEF Truncated, CallEnds
  <2>2. Told(records'[t], calls'[t], Len(records'[t])) /\ Unsigned(records'[t])
    BY <2>1, CallEndsTells DEF TraceInv, Verdict
  <2>3. CASE GiveUp(t)
    BY <2>1, <2>2, <2>3 DEF GiveUp, Goto, TraceInv
  <2>4. CASE CallAgain(t)
    <3>1. place'[t] = "answer"
      BY <2>1, <2>4 DEF CallAgain
    <3>2. QED
      BY <2>2, <2>4, <3>1, AgainWaits DEF TraceInv
  <2>5. QED
    BY <1>6, <2>3, <2>4 DEF Truncated
<1>7. CASE CallFails(t)
  <2>1. PICK r \in BOOLEAN : CallEnds(t, r, "not_reached")
    BY <1>7 DEF CallFails
  <2>2. place[t] = "answer" /\ place'[t] = "fallback"
    BY <1>7 DEF CallFails, CallEnds, GiveUp, Goto
  <2>3. QED
    BY <2>1, <2>2, CallEndsTells DEF TraceInv, Verdict
<1>8. CASE Promote(t) \/ PromoteFails(t) \/ Fallback(t)
  <2>1. /\ place[t] \in {"promote", "fallback"} /\ place'[t] \in {"fallback", "trace"}
        /\ calls'[t] = calls[t] /\ records'[t] = records[t]
    BY <1>8 DEF Promote, PromoteFails, Fallback, Goto
  <2>2. QED
    BY <2>1 DEF TraceInv
<1>9. CASE FallbackFails(t)
  <2>1. place[t] = "fallback" /\ place'[t] = "failed" /\ traces'[t] = traces[t]
    BY <1>9 DEF FallbackFails, Goto
  <2>2. QED
    BY <2>1 DEF TraceInv, TaskInv
<1>10. CASE WriteTrace(t) \/ TraceFails(t)
  <2>1. /\ place[t] = "trace" /\ place'[t] \in {"done", "failed"}
        /\ calls'[t] = calls[t] /\ status'[t] = status[t]
        /\ traces'[t] \in {traces[t], Signed(t)}
    BY <1>10 DEF WriteTrace, TraceFails, Goto
  <2>2. traces[t] = None /\ status[t] \in {"ok", "error"}
    BY <2>1 DEF TaskInv
  <2>3. /\ Told(Signed(t), calls[t], Len(Signed(t)))
        /\ \A i \in DOMAIN Signed(t) :
             Signed(t)[i].task = IF i = Len(Signed(t)) THEN status[t] ELSE None
    BY <2>1, <2>2, SignedTells DEF TraceInv
  <2>4. CASE traces'[t] = Signed(t)
    BY <2>1, <2>3, <2>4 DEF TraceInv
  <2>5. CASE traces'[t] = None
    BY <2>1, <2>5 DEF TraceInv
  <2>6. QED
    BY <2>1, <2>2, <2>4, <2>5
<1>11. QED
  BY <1>1, <1>2, <1>3, <1>4, <1>5, <1>6, <1>7, <1>8, <1>9, <1>10 DEF Worker

(* What the first records tell of the calls is what an honest trace tells. *)
LEMMA ToldIsHonest ==
  ASSUME TypeOK, NEW t \in Task, TraceInv(t), TaskInv(t), traces[t] # None,
         NEW tr, tr = traces[t]
  PROVE  LET Of(n) == {i \in DOMAIN tr : tr[i].call = n}
         IN  /\ \A i \in DOMAIN tr :
                  /\ tr[i].terminal <=> \A j \in Of(tr[i].call) : j <= i
                  /\ tr[i].plan = IF tr[i].terminal THEN calls[t][tr[i].call] ELSE None
                  /\ tr[i].task = IF i = Len(tr) THEN status[t] ELSE None
             /\ \A n \in DOMAIN calls[t] : Of(n) = {} => calls[t][n] = "not_reached"
<1>1. place[t] \in {"done", "failed"}
  BY DEF TaskInv, TypeOK, Place
<1>2. tr \in Seq(Record) /\ DOMAIN tr = 1 .. Len(tr)
  BY DEF TypeOK
<1>3. /\ Told(tr, calls[t], Len(tr))
      /\ \A i \in DOMAIN tr : tr[i].task = IF i = Len(tr) THEN status[t] ELSE None
  BY <1>1 DEF TraceInv
<1>4. QED
  BY <1>2, <1>3 DEF Told

LEMMA TracesHold == Spec => [](\A t \in Task : TraceInv(t))
<1>1. Init => \A t \in Task : TraceInv(t)
  BY DEF Init, TraceInv
<1>2. ASSUME IInv, IInv', [Next]_vars, \A t \in Task : TraceInv(t)
      PROVE  (\A t \in Task : TraceInv(t))'
  <2>1. CASE \E t \in Task : Worker(t)
    <3>1. PICK t \in Task : Worker(t)
      BY <2>1
    <3>2. TraceInv(t)'
      BY <1>2, <3>1, TraceStep DEF IInv
    <3>3. ASSUME NEW u \in Task, u # t PROVE TraceInv(u)'
      <4>1. /\ records'[u] = records[u] /\ calls'[u] = calls[u] /\ before'[u] = before[u]
            /\ place'[u] = place[u] /\ traces'[u] = traces[u] /\ status'[u] = status[u]
        BY <1>2, <3>1, <3>3, OthersKept, OtherCallsKept DEF IInv
      <4>2. QED
        BY <1>2, <4>1 DEF TraceInv, Waiting
    <3>4. QED
      BY <3>2, <3>3
  <2>2. CASE ~\E t \in Task : Worker(t)
    <3>1. UNCHANGED <<place, solver, artefacts>>
      BY <1>2, <2>2 DEF Next, vars, MainThread, Interrupt, Kill, Start, AllObserved,
           Shutdown, WritePredictions, Validate, Close, Observe
    <3>2. QED
      BY <1>2, <3>1 DEF solver, artefacts, TraceInv, Waiting
  <2>3. QED
    BY <2>1, <2>2
<1>3. QED
  BY <1>1, <1>2, InvariantHolds, PTL DEF Spec

(* A published trace tells, of every call, what became of it.              *)
THEOREM TracesAreHonest == Spec => []TraceIsHonest
<1>1. IInv /\ (\A t \in Task : TraceInv(t)) => TraceIsHonest
  BY ToldIsHonest DEF IInv, TraceIsHonest
<1>2. QED
  BY <1>1, InvariantHolds, TracesHold, PTL

-----------------------------------------------------------------------------
(* Figures.                                                                *)

(* The records of the calls that have ended: an attempt that was not       *)
(* retried ended its call, one that was retried ends it only if the last   *)
(* report was lost, and every call with a record has an end.               *)
Ending(rs, cs, b) ==
  \A i \in 1 .. b :
    /\ rs[i].provider # "retry" => rs[i].terminal
    /\ rs[i].terminal /\ rs[i].provider = "retry" => cs[rs[i].call] = "not_reached"
    /\ \E j \in 1 .. b : rs[j].call = rs[i].call /\ rs[j].terminal

Retrying(rs, b) == \A i \in b + 1 .. Len(rs) : rs[i].provider = "retry"

(* A record says that its call recovers from a truncation if the call      *)
(* before did not come to a plan.                                          *)
Recovers(rs, cs) ==
  \A i \in DOMAIN rs :
    rs[i].recovery <=> rs[i].call > 1 /\ cs[rs[i].call - 1] = "not_reached"

(* While a task waits for an answer the ended calls are told, the other    *)
(* attempts were retried, and all say whether they recover.                *)
Counting(t) ==
  /\ Ending(records[t], calls[t], before[t]) /\ Retrying(records[t], before[t])
  /\ Recovers(records[t], calls[t])

(* Only the last call of a task may be accepted, and a success has one.    *)
AcceptedLast(t) ==
  /\ \A n \in DOMAIN calls[t] : calls[t][n] = "accepted" => n = Len(calls[t])
  /\ place[t] = "promote" \/ status[t] = "ok" =>
       \E n \in DOMAIN calls[t] : calls[t][n] = "accepted"

(* What is known of a task on the way to the figures.                     *)
FigureInv(t) ==
  /\ AcceptedLast(t)
  /\ place[t] = "answer" => Counting(t)
  /\ place[t] \in {"promote", "fallback", "trace"} =>
       Ending(records[t], calls[t], Len(records[t])) /\ Recovers(records[t], calls[t])
  /\ place[t] \in {"done", "failed"} /\ traces[t] # None =>
       Ending(traces[t], calls[t], Len(traces[t])) /\ Recovers(traces[t], calls[t])

(* What a run knows when its figures are worked out: every trace is there  *)
(* and tells of the calls.                                                 *)
Figured ==
  /\ TypeOK
  /\ \A t \in Task :
       /\ traces[t] \in Seq(Record)
       /\ Told(traces[t], calls[t], Len(traces[t]))
       /\ Ending(traces[t], calls[t], Len(traces[t])) /\ Recovers(traces[t], calls[t])
       /\ AcceptedLast(t) /\ WithinBudget(t)
  /\ predictions = status

LEMMA PlacesAre ==
  ASSUME Figured, NEW p \in Places
  PROVE  /\ p = <<p[1], p[2]>> /\ p[1] \in Task
         /\ p[2] \in 1 .. Len(traces[p[1]]) /\ p[2] \in Nat
         /\ RecordAt(p) \in Record
         /\ CallKey(p) = <<p[1], RecordAt(p).call>>
<1>1. PICK t \in Task : \E i \in DOMAIN traces[t] : p = <<t, i>>
  BY DEF Places
<1>2. PICK i \in DOMAIN traces[t] : p = <<t, i>>
  BY <1>1
<1>3. traces[t] \in Seq(Record) /\ p[1] = t /\ p[2] = i
  BY <1>2 DEF Figured
<1>4. i \in 1 .. Len(traces[t]) /\ traces[t][i] \in Record
  BY <1>3
<1>5. QED
  BY <1>2, <1>3, <1>4 DEF RecordAt, CallKey

LEMMA PlaceOf ==
  ASSUME Figured, NEW t \in Task, NEW i \in 1 .. Len(traces[t])
  PROVE  /\ <<t, i>> \in Places /\ RecordAt(<<t, i>>) = traces[t][i]
         /\ CallKey(<<t, i>>) = <<t, traces[t][i].call>>
<1>1. DOMAIN traces[t] = 1 .. Len(traces[t])
  BY DEF Figured
<1>2. <<t, i>> \in Places
  BY <1>1 DEF Places
<1>3. QED
  BY <1>2 DEF RecordAt, CallKey

LEMMA PlacesFinite == ASSUME Figured PROVE IsFiniteSet(Places)
<1> DEFINE Of(t) == {<<t, i>> : i \in DOMAIN traces[t]}
           f == [t \in Task |-> Of(t)]
           S == {Of(t) : t \in Task}
<1>1. ASSUME NEW t \in Task PROVE IsFiniteSet(Of(t))
  <2> DEFINE D == 1 .. Len(traces[t])
             g == [i \in D |-> <<t, i>>]
  <2>1. D = DOMAIN traces[t] /\ Len(traces[t]) \in Nat
    BY DEF Figured
  <2>2. IsFiniteSet(D)
    BY <2>1, FS_Interval
  <2>3. g \in Surjection(D, Of(t))
    BY <2>1 DEF Surjection
  <2> HIDE DEF g, D, Of
  <2>4. QED
    BY <2>2, <2>3, FS_Surjection
<1>2. f \in Surjection(Task, S)
  BY DEF Surjection
<1>3. IsFiniteSet(S)
  <2> HIDE DEF f, S
  <2>1. QED
    BY <1>2, RunAssumption, FS_Surjection
<1>4. \A T \in S : IsFiniteSet(T)
  BY <1>1
<1>5. Places = UNION S
  BY DEF Places
<1> HIDE DEF S
<1>6. QED
  BY <1>3, <1>4, <1>5, FS_UNION

LEMMA MadeFinite == ASSUME Figured PROVE IsFiniteSet(Made)
<1>1. IsFiniteSet(1 .. SemanticRepairs + 1)
  BY RunAssumption, FS_Interval
<1>2. IsFiniteSet(Task \X (1 .. SemanticRepairs + 1))
  BY <1>1, RunAssumption, FS_Product
<1>3. Made \subseteq Task \X (1 .. SemanticRepairs + 1)
  BY DEF Made
<1>4. QED
  BY <1>2, <1>3, FS_Subset

(* The call of a record was made, ...                                      *)
LEMMA KeysAreMade == ASSUME Figured PROVE CallKeys \subseteq Made
<1>1. SUFFICES ASSUME NEW p \in Places PROVE CallKey(p) \in Made
  BY DEF CallKeys
<1> DEFINE t == p[1]
           n == RecordAt(p).call
<1>2. /\ t \in Task /\ p[2] \in 1 .. Len(traces[t])
      /\ CallKey(p) = <<t, n>>
  BY PlacesAre
<1>3. n \in DOMAIN calls[t]
  BY <1>2 DEF Figured, Told, RecordAt
<1>4. calls[t] \in Seq(Verdict) /\ Len(calls[t]) <= SemanticRepairs + 1
  BY <1>2 DEF Figured, TypeOK, WithinBudget
<1>5. n \in 1 .. SemanticRepairs + 1
  BY <1>3, <1>4, RunAssumption
<1>6. QED
  BY <1>2, <1>3, <1>5 DEF Made

(* ... and a call that came to a plan has a record.                        *)
LEMMA MadeIsTold ==
  ASSUME Figured, NEW c \in Made, calls[c[1]][c[2]] # "not_reached"
  PROVE  c \in CallKeys
<1>1. /\ c = <<c[1], c[2]>> /\ c[1] \in Task /\ c[2] \in DOMAIN calls[c[1]]
  BY DEF Made
<1>2. PICK i \in 1 .. Len(traces[c[1]]) : traces[c[1]][i].call = c[2]
  BY <1>1 DEF Figured, Told
<1>3. <<c[1], i>> \in Places /\ CallKey(<<c[1], i>>) = c
  BY <1>1, <1>2, PlaceOf
<1>4. QED
  BY <1>3 DEF CallKeys

(* The last record of a call is the one that is marked as its end.         *)
LastOf(key) ==
  CHOOSE p \in RecordsOf(key) : \A q \in RecordsOf(key) : q[2] <= p[2]

LEMMA LastIsTerminal ==
  ASSUME Figured, NEW key \in CallKeys
  PROVE  /\ LastOf(key) \in Places /\ CallKey(LastOf(key)) = key
         /\ TerminalOf(key) = RecordAt(LastOf(key))
         /\ TerminalOf(key).terminal
<1>1. PICK p \in Places : CallKey(p) = key
  BY DEF CallKeys
<1> DEFINE t == p[1]
           n == Len(traces[t])
<1>2. /\ p = <<t, p[2]>> /\ t \in Task /\ p[2] \in 1 .. n /\ key = <<t, RecordAt(p).call>>
  BY <1>1, PlacesAre
<1>3. RecordAt(p).call = traces[t][p[2]].call
  BY DEF RecordAt
<1>4. PICK j \in 1 .. n : traces[t][j].call = traces[t][p[2]].call /\ traces[t][j].terminal
  BY <1>2 DEF Figured, Ending
<1>5. <<t, j>> \in RecordsOf(key) /\ RecordAt(<<t, j>>).terminal
  BY <1>2, <1>3, <1>4, PlaceOf DEF RecordsOf
<1>6. \A q \in RecordsOf(key) :
        /\ q \in Places /\ q = <<t, q[2]>> /\ q[2] \in 1 .. n
        /\ traces[t][q[2]].call = traces[t][j].call
        /\ RecordAt(q) = traces[t][q[2]]
  BY <1>2, <1>3, <1>4, PlacesAre DEF RecordsOf, RecordAt
<1>7. \A q \in RecordsOf(key) : q[2] <= j
  <2>1. Told(traces[t], calls[t], n)
    BY <1>2 DEF Figured
  <2>2. QED
    BY <1>4, <1>6, <2>1 DEF Told
<1>8. \E q \in RecordsOf(key) : \A r \in RecordsOf(key) : r[2] <= q[2]
  <2>1. <<t, j>>[2] = j
    OBVIOUS
  <2>2. QED
    BY <1>5, <1>7, <2>1
<1>9. /\ LastOf(key) \in RecordsOf(key)
      /\ \A r \in RecordsOf(key) : r[2] <= LastOf(key)[2]
  BY <1>8 DEF LastOf
<1>10. LastOf(key)[2] = j
  <2>1. j <= LastOf(key)[2]
    BY <1>5, <1>9
  <2>2. LastOf(key)[2] <= j /\ LastOf(key)[2] \in 1 .. n
    BY <1>6, <1>7, <1>9
  <2>3. QED
    BY <2>1, <2>2
<1>11. LastOf(key) = <<t, j>>
  BY <1>6, <1>9, <1>10
<1>12. TerminalOf(key) = RecordAt(LastOf(key))
  BY DEF TerminalOf, LastOf
<1>13. QED
  BY <1>5, <1>9, <1>11, <1>12 DEF RecordsOf

(* What that record tells.                                                 *)
LEMMA TerminalTells ==
  ASSUME Figured, NEW key \in CallKeys
  PROVE  /\ PlanStatus(TerminalOf(key)) = calls[key[1]][key[2]]
         /\ TerminalOf(key).recovery \in BOOLEAN
         /\ TerminalOf(key).recovery <=> key[2] > 1 /\ calls[key[1]][key[2] - 1] = "not_reached"
         /\ TerminalOf(key).provider = "retry" => calls[key[1]][key[2]] = "not_reached"
<1> DEFINE p == LastOf(key)
           t == p[1]
           i == p[2]
<1>1. /\ p \in Places /\ CallKey(p) = key
      /\ TerminalOf(key) = RecordAt(p) /\ TerminalOf(key).terminal
  BY LastIsTerminal
<1>2. /\ t \in Task /\ i \in 1 .. Len(traces[t]) /\ key = <<t, RecordAt(p).call>>
      /\ RecordAt(p) \in Record
  BY <1>1, PlacesAre
<1>3. RecordAt(p) = traces[t][i]
  BY DEF RecordAt
<1> HIDE DEF t, i
<1> DEFINE r == traces[t][i]
<1>4. r \in Record /\ TerminalOf(key) = r /\ r.terminal /\ key[1] = t /\ key[2] = r.call
  BY <1>1, <1>2, <1>3
<1>5. /\ r.call \in DOMAIN calls[t] /\ r.plan = calls[t][r.call]
  BY <1>2, <1>4 DEF Figured, Told
<1>6. calls[t][r.call] \in Verdict
  BY <1>2, <1>5 DEF Figured, TypeOK
<1>7. r.recovery <=> r.call > 1 /\ calls[t][r.call - 1] = "not_reached"
  <2>1. i \in DOMAIN traces[t]
    BY <1>2 DEF Figured
  <2>2. QED
    BY <1>2, <2>1 DEF Figured, Recovers
<1>8. r.provider = "retry" => calls[t][r.call] = "not_reached"
  BY <1>2, <1>4 DEF Figured, Ending
<1>9. PlanStatus(r) = calls[t][r.call]
  BY <1>5, <1>6, NoneAssumption DEF PlanStatus
<1>10. r.recovery \in BOOLEAN
  BY <1>4 DEF Record
<1> HIDE DEF r
<1>11. QED
  BY <1>4, <1>7, <1>8, <1>9, <1>10

(* The sets that are counted.                                              *)
LEMMA SetsAgree ==
  ASSUME Figured
  PROVE  /\ \A v \in {"accepted", "rejected"} :
              {key \in CallKeys : PlanStatus(TerminalOf(key)) = v} = CameTo(v)
         /\ {key \in CallKeys : key[2] > 1 /\ TerminalOf(key).recovery = FALSE}
              = After("rejected") \ Untold
         /\ {key \in CallKeys : key[2] > 1 /\ TerminalOf(key).recovery = TRUE}
              = After("not_reached") \ Untold
         /\ Untold \subseteq CameTo("not_reached")
         /\ CallKeys = Made \ Untold
<1>1. CallKeys \subseteq Made
  BY KeysAreMade
<1>2. ASSUME NEW v \in {"accepted", "rejected"}
      PROVE  {key \in CallKeys : PlanStatus(TerminalOf(key)) = v} = CameTo(v)
  <2>1. ASSUME NEW key
        PROVE  key \in CallKeys /\ PlanStatus(TerminalOf(key)) = v <=> key \in CameTo(v)
    <3>1. ASSUME key \in CallKeys PROVE key \in Made /\ PlanStatus(TerminalOf(key)) = calls[key[1]][key[2]]
      BY <1>1, <3>1, TerminalTells
    <3>2. ASSUME key \in CameTo(v) PROVE key \in CallKeys /\ calls[key[1]][key[2]] = v
      BY <1>2, <3>2, MadeIsTold DEF CameTo
    <3>3. QED
      BY <3>1, <3>2 DEF CameTo
  <2>2. QED
    BY <2>1
<1>3. ASSUME NEW key \in CallKeys, key[2] > 1
      PROVE  calls[key[1]][key[2] - 1] \in {"rejected", "not_reached"}
  <2>1. key[1] \in Task /\ key[2] \in DOMAIN calls[key[1]]
    BY <1>1 DEF Made
  <2> DEFINE cs == calls[key[1]]
             n == key[2] - 1
  <2>2. cs \in Seq(Verdict) /\ n \in DOMAIN cs /\ n # Len(cs)
    BY <1>3, <2>1 DEF Figured, TypeOK
  <2>3. cs[n] \in Verdict /\ cs[n] # "accepted"
    BY <2>1, <2>2 DEF Figured, AcceptedLast
  <2> HIDE DEF cs, n
  <2>4. cs[n] \in {"rejected", "not_reached"}
    BY <2>3 DEF Verdict
  <2>5. QED
    BY <2>4 DEF cs, n
<1>4. \A key \in CallKeys :
        /\ TerminalOf(key).recovery \in BOOLEAN
        /\ TerminalOf(key).recovery <=> key[2] > 1 /\ calls[key[1]][key[2] - 1] = "not_reached"
  BY TerminalTells
<1>5. ASSUME NEW key
      PROVE  /\ key \in CallKeys /\ key[2] > 1 /\ TerminalOf(key).recovery = FALSE
                  <=> key \in After("rejected") \ Untold
             /\ key \in CallKeys /\ key[2] > 1 /\ TerminalOf(key).recovery = TRUE
                  <=> key \in After("not_reached") \ Untold
  <2>1. key \in Made \ Untold <=> key \in CallKeys
    BY <1>1 DEF Untold
  <2>2. CASE key \in CallKeys
    <3>1. key[2] > 1 => calls[key[1]][key[2] - 1] \in {"rejected", "not_reached"}
      BY <1>3, <2>2
    <3>2. TerminalOf(key).recovery = TRUE
            <=> key[2] > 1 /\ calls[key[1]][key[2] - 1] = "not_reached"
      BY <1>4, <2>2
    <3>3. TerminalOf(key).recovery = FALSE <=> ~(TerminalOf(key).recovery = TRUE)
      BY <1>4, <2>2
    <3>4. QED
      BY <2>1, <2>2, <3>1, <3>2, <3>3 DEF After
  <2>3. CASE key \notin CallKeys
    BY <2>1, <2>3 DEF After
  <2>4. QED
    BY <2>2, <2>3
<1>6. Untold \subseteq CameTo("not_reached")
  BY MadeIsTold DEF Untold, CameTo
<1>7. CallKeys = Made \ Untold
  BY <1>1 DEF Untold
<1>8. QED
  <2>1. {key \in CallKeys : key[2] > 1 /\ TerminalOf(key).recovery = FALSE}
          = After("rejected") \ Untold
    BY <1>5
  <2>2. {key \in CallKeys : key[2] > 1 /\ TerminalOf(key).recovery = TRUE}
          = After("not_reached") \ Untold
    BY <1>5
  <2>3. QED
    BY <1>2, <1>6, <1>7, <2>1, <2>2

(* Attempts that were not retried end calls, one each, and the calls that  *)
(* came to a plan ended so.                                                *)
LEMMA AttemptsCount ==
  ASSUME Figured
  PROVE  LET Retries == {p \in Places : RecordAt(p).provider = "retry"} IN
         Cardinality(Places) - Cardinality(Retries) \in
           (Cardinality(CallKeys) - Cardinality(CameTo("not_reached"))) .. Cardinality(CallKeys)
<1> DEFINE R == {p \in Places : RecordAt(p).provider = "retry"}
           N == Places \ R
           K == {key \in CallKeys : TerminalOf(key).provider # "retry"}
           f == [p \in N |-> CallKey(p)]
           g == [key \in K |-> LastOf(key)]
<1>1. /\ IsFiniteSet(Places) /\ IsFiniteSet(CallKeys) /\ IsFiniteSet(CameTo("not_reached"))
      /\ IsFiniteSet(R) /\ IsFiniteSet(N) /\ IsFiniteSet(K)
  <2>1. IsFiniteSet(Places) /\ IsFiniteSet(Made)
    BY PlacesFinite, MadeFinite
  <2>2. CallKeys \subseteq Made /\ CameTo("not_reached") \subseteq Made
    BY KeysAreMade DEF CameTo
  <2>3. R \subseteq Places /\ N \subseteq Places
    OBVIOUS
  <2>4. IsFiniteSet(CallKeys) /\ IsFiniteSet(CameTo("not_reached"))
    BY <2>1, <2>2, FS_Subset
  <2>5. IsFiniteSet(R) /\ IsFiniteSet(N)
    BY <2>1, <2>3, FS_Subset
  <2>6. IsFiniteSet(K)
    BY <2>4, FS_Subset
  <2>7. QED
    BY <2>1, <2>4, <2>5, <2>6
<1>2. Cardinality(N) = Cardinality(Places) - Cardinality(R)
  <2>1. Places \cap R = R
    OBVIOUS
  <2> HIDE DEF R
  <2>2. QED
    BY <1>1, <2>1, FS_Difference
<1>3. Cardinality(N) <= Cardinality(CallKeys)
  <2>1. \A p \in N : CallKey(p) \in CallKeys
    BY DEF CallKeys
  <2>2. ASSUME NEW p \in N, NEW q \in N, CallKey(p) = CallKey(q) PROVE p = q
    <3> DEFINE t == p[1]
               i == p[2]
               j == q[2]
    <3>1. /\ p = <<t, i>> /\ t \in Task /\ i \in 1 .. Len(traces[t])
          /\ CallKey(p) = <<t, RecordAt(p).call>>
      BY PlacesAre
    <3>2. /\ q = <<q[1], j>> /\ j \in 1 .. Len(traces[q[1]])
          /\ CallKey(q) = <<q[1], RecordAt(q).call>>
      BY PlacesAre
    <3>3. q[1] = t /\ RecordAt(q).call = RecordAt(p).call
      <4>1. <<q[1], RecordAt(q).call>> = <<p[1], RecordAt(p).call>>
        BY <2>2, <3>1, <3>2
      <4>2. QED
        BY <4>1
    <3>4. RecordAt(p) = traces[t][i] /\ RecordAt(q) = traces[t][j]
      BY <3>3 DEF RecordAt
    <3>5. Ending(traces[t], calls[t], Len(traces[t])) /\ Told(traces[t], calls[t], Len(traces[t]))
      BY <3>1 DEF Figured
    <3>6. traces[t][i].terminal /\ traces[t][j].terminal
      BY <3>1, <3>2, <3>3, <3>4, <3>5 DEF Ending
    <3>7. j <= i /\ i <= j
      BY <3>1, <3>2, <3>3, <3>4, <3>5, <3>6 DEF Told
    <3>8. i = j
      BY <3>1, <3>2, <3>3, <3>7
    <3>9. QED
      BY <3>1, <3>2, <3>3, <3>8
  <2>3. f \in Injection(N, CallKeys)
    BY <2>1, <2>2 DEF Injection, IsInjective
  <2> HIDE DEF f, N
  <2>4. QED
    BY <1>1, <2>3, FS_Injection
<1>4. Cardinality(K) <= Cardinality(N)
  <2>1. \A key \in K : LastOf(key) \in N
    BY LastIsTerminal
  <2>2. \A key \in K : CallKey(LastOf(key)) = key
    BY LastIsTerminal
  <2>3. \A k1 \in K : \A k2 \in K : LastOf(k1) = LastOf(k2) => k1 = k2
    BY <2>2
  <2> HIDE DEF K, N
  <2>4. g \in Injection(K, N)
    BY <2>1, <2>3 DEF Injection, IsInjective
  <2> HIDE DEF g
  <2>5. QED
    BY <1>1, <2>4, FS_Injection
<1>5. Cardinality(CallKeys) - Cardinality(K) <= Cardinality(CameTo("not_reached"))
  <2>1. CallKeys \ K \subseteq CameTo("not_reached")
    BY KeysAreMade, TerminalTells DEF CameTo
  <2>2. CallKeys \cap K = K
    OBVIOUS
  <2> HIDE DEF K
  <2>3. Cardinality(CallKeys \ K) = Cardinality(CallKeys) - Cardinality(K)
    BY <1>1, <2>2, FS_Difference
  <2>4. Cardinality(CallKeys \ K) <= Cardinality(CameTo("not_reached"))
    BY <1>1, <2>1, FS_Subset
  <2>5. QED
    BY <2>3, <2>4
<1>6. /\ Cardinality(Places) \in Nat /\ Cardinality(R) \in Nat /\ Cardinality(N) \in Nat
      /\ Cardinality(K) \in Nat /\ Cardinality(CallKeys) \in Nat
      /\ Cardinality(CameTo("not_reached")) \in Nat
  BY <1>1, FS_CardinalityType
<1> HIDE DEF R, N, K
<1>7. Cardinality(Places) - Cardinality(R) \in
        (Cardinality(CallKeys) - Cardinality(CameTo("not_reached"))) .. Cardinality(CallKeys)
  BY <1>2, <1>3, <1>4, <1>5, <1>6
<1>8. QED
  BY <1>7 DEF R

(* Every success had a call of its own that was accepted.                  *)
LEMMA SuccessesCount ==
  ASSUME Figured
  PROVE  Cardinality({t \in Task : predictions[t] = "ok"}) <= Cardinality(CameTo("accepted"))
<1> DEFINE S == {t \in Task : predictions[t] = "ok"}
           f == [t \in S |-> <<t, Len(calls[t])>>]
<1>1. ASSUME NEW t \in S PROVE <<t, Len(calls[t])>> \in CameTo("accepted")
  <2>1. t \in Task /\ status[t] = "ok" /\ calls[t] \in Seq(Verdict)
    BY DEF Figured, TypeOK
  <2>2. PICK n \in DOMAIN calls[t] : calls[t][n] = "accepted"
    BY <2>1 DEF Figured, AcceptedLast
  <2>3. n = Len(calls[t])
    BY <2>1, <2>2 DEF Figured, AcceptedLast
  <2>4. n \in 1 .. SemanticRepairs + 1
    BY <2>1, <2>2, <2>3, RunAssumption DEF Figured, WithinBudget
  <2>5. QED
    BY <2>1, <2>2, <2>3, <2>4 DEF CameTo, Made
<1>2. f \in Injection(S, CameTo("accepted"))
  BY <1>1 DEF Injection, IsInjective
<1>3. IsFiniteSet(CameTo("accepted"))
  BY MadeFinite, FS_Subset DEF CameTo
<1> HIDE DEF f, S
<1>4. Cardinality(S) <= Cardinality(CameTo("accepted"))
  BY <1>2, <1>3, FS_Injection
<1>5. QED
  BY <1>4 DEF S

LEMMA FiguresFollow ==
  ASSUME Figured PROVE MetricsTellTheRun
<1> DEFINE m == Metrics
<1>1. /\ m.calls = Cardinality(CallKeys) /\ m.attempts = Cardinality(Places)
      /\ m.transport_retries = Cardinality({p \in Places : RecordAt(p).provider = "retry"})
      /\ \A v \in Verdict : m.plan_status_counts[v] = CallsWith(v)
      /\ m.ordinary = Repairs(FALSE) /\ m.max_tokens_recovery = Repairs(TRUE)
      /\ m.succeeded = Cardinality({t \in Task : predictions[t] = "ok"})
  BY DEF Metrics
<1>2. Cardinality(CallKeys) = Cardinality(Made) - Cardinality(Untold)
  <2>1. CallKeys = Made \ Untold /\ Made \cap Untold = Untold
    BY SetsAgree DEF Untold
  <2>2. QED
    BY <2>1, MadeFinite, FS_Difference
<1>3. \A v \in {"accepted", "rejected"} : m.plan_status_counts[v] = Cardinality(CameTo(v))
  BY <1>1, SetsAgree DEF CallsWith, Verdict
<1>4. m.ordinary = Cardinality(After("rejected") \ Untold)
  BY <1>1, SetsAgree DEF Repairs
<1>5. m.max_tokens_recovery = Cardinality(After("not_reached") \ Untold)
  BY <1>1, SetsAgree DEF Repairs
<1>6. m.attempts - m.transport_retries \in
        (m.calls - Cardinality(CameTo("not_reached"))) .. m.calls
  BY <1>1, AttemptsCount
<1>7. m.succeeded <= m.plan_status_counts["accepted"]
  BY <1>1, <1>3, SuccessesCount
<1>8. Untold \subseteq CameTo("not_reached")
  BY SetsAgree
<1> HIDE DEF m
<1>9. QED
  BY <1>1, <1>2, <1>3, <1>4, <1>5, <1>6, <1>7, <1>8 DEF MetricsTellTheRun, m

(* The end of a call: its last record is marked, if it has any.            *)
LEMMA MarkedEnds ==
  ASSUME NEW rs \in Seq(Record), NEW cs \in Seq(Verdict), NEW b \in Nat,
         b <= Len(rs), Told(rs, cs, b), Pending(rs, b, Len(cs) + 1),
         Ending(rs, cs, b), Recovers(rs, cs),
         \A i \in b + 1 .. Len(rs) - 1 : rs[i].provider = "retry",
         NEW v \in Verdict,
         Len(rs) > b /\ rs[Len(rs)].provider = "retry" => v = "not_reached",
         NEW new, new = IF Len(rs) > b THEN Marked(rs, v) ELSE rs
  PROVE  Ending(new, Append(cs, v), Len(new)) /\ Recovers(new, Append(cs, v))
<1> DEFINE cs2 == Append(cs, v)
<1>1. /\ cs2 \in Seq(Verdict) /\ Len(cs2) = Len(cs) + 1 /\ cs2[Len(cs) + 1] = v
      /\ \A n \in DOMAIN cs : n \in DOMAIN cs2 /\ cs2[n] = cs[n] /\ n # Len(cs) + 1
      /\ DOMAIN cs = 1 .. Len(cs) /\ Len(cs) \in Nat
  OBVIOUS
<1> HIDE DEF cs2
<1>2. \A i \in 1 .. Len(rs) :
        \/ i \in 1 .. b /\ rs[i].call \in DOMAIN cs
        \/ i \in b + 1 .. Len(rs) /\ rs[i].call = Len(cs) + 1
  BY DEF Told, Pending
<1>3. Recovers(rs, cs2)
  <2>1. ASSUME NEW i \in DOMAIN rs
        PROVE  rs[i].recovery <=> rs[i].call > 1 /\ cs2[rs[i].call - 1] = "not_reached"
    <3>1. rs[i].call \in 1 .. Len(cs) + 1
      BY <1>1, <1>2
    <3>2. rs[i].call > 1 => cs2[rs[i].call - 1] = cs[rs[i].call - 1]
      BY <1>1, <3>1
    <3>3. QED
      BY <3>2 DEF Recovers
  <2>2. QED
    BY <2>1 DEF Recovers
<1>4. CASE Len(rs) > b
  <2> DEFINE z == Len(rs)
  <2>1. z \in DOMAIN rs /\ z \in b + 1 .. Len(rs) /\ rs[z] \in Record
    BY <1>4
  <2>2. new = [rs EXCEPT ![z] = [rs[z] EXCEPT !.terminal = TRUE, !.plan = v]]
    BY <1>4 DEF Marked
  <2>3. /\ Len(new) = z /\ DOMAIN new = 1 .. z /\ DOMAIN rs = 1 .. z
        /\ \A i \in 1 .. z : i # z => new[i] = rs[i]
        /\ new[z] = [rs[z] EXCEPT !.terminal = TRUE, !.plan = v]
    BY <2>1, <2>2
  <2>4. /\ new[z].call = rs[z].call /\ new[z].terminal = TRUE
        /\ new[z].provider = rs[z].provider /\ new[z].recovery = rs[z].recovery
    BY <2>1, <2>3 DEF Record
  <2>5. \A i \in 1 .. z : /\ new[i].call = rs[i].call /\ new[i].provider = rs[i].provider
                          /\ new[i].recovery = rs[i].recovery
    BY <2>3, <2>4
  <2>6. Recovers(new, cs2)
    BY <1>3, <2>3, <2>5 DEF Recovers
  <2>7. ASSUME NEW i \in 1 .. z
        PROVE  /\ new[i].provider # "retry" => new[i].terminal
               /\ new[i].terminal /\ new[i].provider = "retry"
                    => cs2[new[i].call] = "not_reached"
               /\ \E j \in 1 .. z : new[j].call = new[i].call /\ new[j].terminal
    <3>1. CASE i \in 1 .. b
      <4>1. /\ new[i] = rs[i] /\ rs[i].call \in DOMAIN cs
            /\ cs2[rs[i].call] = cs[rs[i].call]
        BY <1>1, <1>2, <1>4, <2>3, <3>1
      <4>2. PICK j \in 1 .. b : rs[j].call = rs[i].call /\ rs[j].terminal
        BY <3>1 DEF Ending
      <4>3. j \in 1 .. z /\ new[j] = rs[j]
        BY <1>4, <2>3, <4>2
      <4>4. \E k \in 1 .. z : new[k].call = new[i].call /\ new[k].terminal
        BY <4>1, <4>2, <4>3
      <4>5. /\ rs[i].provider # "retry" => rs[i].terminal
            /\ rs[i].terminal /\ rs[i].provider = "retry" => cs[rs[i].call] = "not_reached"
        BY <3>1 DEF Ending
      <4>6. QED
        BY <4>1, <4>4, <4>5
    <3>2. CASE i \in b + 1 .. z /\ i # z
      <4>1. i \in b + 1 .. z - 1
        BY <1>1, <3>2
      <4>2. new[i] = rs[i] /\ rs[i].provider = "retry" /\ rs[i].terminal = FALSE
        BY <2>3, <3>2, <4>1 DEF Pending
      <4>3. new[z].call = new[i].call
        BY <2>1, <2>5, <3>2 DEF Pending
      <4>4. QED
        BY <2>1, <2>3, <2>4, <4>2, <4>3
    <3>3. CASE i = z
      <4>1. new[z].call = Len(cs) + 1
        BY <2>1, <2>5 DEF Pending
      <4>2. QED
        BY <1>1, <1>4, <2>4, <3>3, <4>1
    <3>4. QED
      BY <3>1, <3>2, <3>3
  <2>8. Ending(new, cs2, Len(new))
    BY <2>3, <2>7 DEF Ending
  <2>9. QED
    BY <2>6, <2>8 DEF cs2
<1>5. CASE Len(rs) = b
  <2>1. new = rs
    BY <1>5
  <2>2. Ending(rs, cs2, b)
    <3>1. \A i \in 1 .. b : cs2[rs[i].call] = cs[rs[i].call]
      BY <1>1, <1>2, <1>5
    <3>2. QED
      BY <3>1 DEF Ending
  <2>3. QED
    BY <1>3, <1>5, <2>1, <2>2 DEF cs2
<1>6. QED
  BY <1>4, <1>5

(* A report of an attempt keeps this while its call goes on.               *)
LEMMA AttemptCounts ==
  ASSUME TypeOK, NEW t \in Task, CallDue(t), Waiting(t), Counting(t),
         NEW p \in {"success", "retry", "error"},
         NEW new, new = Append(records[t], Attempt(t, p))
  PROVE  /\ Ending(new, calls[t], before[t]) /\ Recovers(new, calls[t])
<1> DEFINE rs == records[t]
           b == before[t]
           cs == calls[t]
           r == Attempt(t, p)
<1>1. rs \in Seq(Record) /\ b \in Nat /\ b <= Len(rs) /\ cs \in Seq(Verdict)
  BY DEF TypeOK, Waiting
<1>2. r.call = Len(cs) + 1 /\ r.provider = p /\ (r.recovery <=> recovery[t])
  BY DEF Attempt
<1>3. recovery[t] <=> Len(cs) + 1 > 1 /\ cs[Len(cs)] = "not_reached"
  <2>1. CASE recovery[t]
    <3>1. cs = <<"not_reached">>
      BY <2>1 DEF CallDue
    <3>2. Len(cs) = 1 /\ cs[1] = "not_reached"
      BY <3>1
    <3> HIDE DEF cs
    <3>3. QED
      BY <2>1, <3>2
  <2>2. CASE ~recovery[t]
    <3>1. \A n \in DOMAIN cs : cs[n] = "rejected"
      BY <2>2 DEF CallDue
    <3>2. Len(cs) + 1 > 1 => Len(cs) \in DOMAIN cs
      BY <1>1
    <3>3. QED
      BY <2>2, <3>1, <3>2
  <2>3. QED
    BY <2>1, <2>2
<1>4. r.recovery <=> r.call > 1 /\ cs[r.call - 1] = "not_reached"
  <2>1. Len(cs) + 1 - 1 = Len(cs)
    BY <1>1
  <2>2. QED
    BY <1>2, <1>3, <2>1
<1> HIDE DEF r
<1>5. /\ Len(new) = Len(rs) + 1 /\ new[Len(rs) + 1] = r
      /\ \A i \in 1 .. Len(rs) : new[i] = rs[i]
      /\ DOMAIN new = 1 .. Len(rs) + 1 /\ DOMAIN rs = 1 .. Len(rs)
      /\ Len(rs) \in Nat
  <2>1. new = Append(rs, r)
    BY DEF r
  <2>2. QED
    BY <1>1, <2>1
<1>6. Ending(rs, cs, b) /\ Retrying(rs, b) /\ Recovers(rs, cs)
  BY DEF Counting
<1> HIDE DEF rs, cs, b
<1>7. Ending(new, cs, b)
  <2>1. \A i \in 1 .. b : new[i] = rs[i]
    BY <1>1, <1>5
  <2>2. ASSUME NEW i \in 1 .. b
        PROVE  /\ new[i].provider # "retry" => new[i].terminal
               /\ new[i].terminal /\ new[i].provider = "retry"
                    => cs[new[i].call] = "not_reached"
               /\ \E j \in 1 .. b : new[j].call = new[i].call /\ new[j].terminal
    <3>1. PICK j \in 1 .. b : rs[j].call = rs[i].call /\ rs[j].terminal
      BY <1>6 DEF Ending
    <3>2. new[i] = rs[i] /\ new[j] = rs[j]
      BY <2>1
    <3>3. /\ rs[i].provider # "retry" => rs[i].terminal
          /\ rs[i].terminal /\ rs[i].provider = "retry" => cs[rs[i].call] = "not_reached"
      BY <1>6 DEF Ending
    <3>4. QED
      BY <3>1, <3>2, <3>3
  <2>3. QED
    BY <2>2 DEF Ending
<1>8. Recovers(new, cs)
  <2>1. ASSUME NEW i \in DOMAIN new
        PROVE  new[i].recovery <=> new[i].call > 1 /\ cs[new[i].call - 1] = "not_reached"
    <3>1. CASE i \in DOMAIN rs
      <4>1. new[i] = rs[i]
        BY <1>5, <3>1
      <4>2. QED
        BY <1>6, <3>1, <4>1 DEF Recovers
    <3>2. CASE i \notin DOMAIN rs
      <4>1. new[i] = r
        BY <1>5, <3>2
      <4>2. QED
        BY <1>4, <4>1
    <3>3. QED
      BY <3>1, <3>2
  <2>2. QED
    BY <2>1 DEF Recovers
<1>9. QED
  BY <1>7, <1>8 DEF rs, cs, b

(* Whatever ends a call.                                                   *)
LEMMA CallEndsCounts ==
  ASSUME TypeOK, NEW t \in Task, CallDue(t), Waiting(t), Counting(t),
         NEW r \in BOOLEAN, NEW v \in Verdict,
         r \/ v = "not_reached", CallEnds(t, r, v)
  PROVE  /\ Ending(records'[t], calls'[t], Len(records'[t]))
         /\ Recovers(records'[t], calls'[t])
<1>1. /\ records[t] \in Seq(Record) /\ before[t] \in Nat /\ calls[t] \in Seq(Verdict)
      /\ records'[t] = Closing(t, r, v) /\ calls'[t] = Append(calls[t], v)
  BY DEF TypeOK, CallEnds
<1> DEFINE rs == Reported(t, r, v)
<1>2. records'[t] = IF Len(rs) > before[t] THEN Marked(rs, v) ELSE rs
  BY <1>1 DEF Closing
<1>3. /\ rs \in Seq(Record) /\ before[t] <= Len(rs)
      /\ Told(rs, calls[t], before[t])
      /\ Pending(rs, before[t], Len(calls[t]) + 1)
      /\ Ending(rs, calls[t], before[t]) /\ Recovers(rs, calls[t])
      /\ \A i \in before[t] + 1 .. Len(rs) - 1 : rs[i].provider = "retry"
      /\ Len(rs) > before[t] /\ rs[Len(rs)].provider = "retry" => v = "not_reached"
  <2>1. CASE r = TRUE
    <3>1. rs = Append(records[t], Attempt(t, Ended(v)))
      BY <2>1 DEF Reported
    <3>2. Ended(v) \in {"success", "retry", "error"} /\ Ended(v) # "retry"
      BY DEF Ended
    <3> HIDE DEF rs
    <3>3. /\ rs \in Seq(Record) /\ before[t] < Len(rs)
          /\ Told(rs, calls[t], before[t])
          /\ Pending(rs, before[t], Len(calls[t]) + 1)
      BY <3>1, <3>2, AttemptPends
    <3>4. /\ Ending(rs, calls[t], before[t]) /\ Recovers(rs, calls[t])
          /\ \A i \in before[t] + 1 .. Len(rs) - 1 : rs[i].provider = "retry"
          /\ rs[Len(rs)].provider # "retry"
      <4>1. PICK q \in {"success", "error"} : q = Ended(v)
        BY DEF Ended
      <4>2. rs = Append(records[t], Attempt(t, q))
        BY <3>1, <4>1
      <4>3. q \in {"success", "retry", "error"} /\ q # "retry"
        OBVIOUS
      <4>4. Ending(rs, calls[t], before[t])
        BY <4>2, <4>3, AttemptCounts
      <4>5. Recovers(rs, calls[t])
        BY <4>2, <4>3, AttemptCounts
      <4>6. rs[Len(rs)].provider # "retry"
        <5> DEFINE a == Attempt(t, q)
        <5>1. a.provider = q
          BY DEF Attempt
        <5> HIDE DEF a
        <5>2. rs[Len(rs)] = a
          BY <1>1, <4>2 DEF a
        <5>3. QED
          BY <4>3, <5>1, <5>2
      <4>7. \A i \in before[t] + 1 .. Len(rs) - 1 : rs[i].provider = "retry"
        <5> DEFINE a == Attempt(t, q)
        <5> HIDE DEF a
        <5>1. rs = Append(records[t], a)
          BY <4>2 DEF a
        <5>2. \A i \in before[t] + 1 .. Len(rs) - 1 :
                i \in before[t] + 1 .. Len(records[t]) /\ rs[i] = records[t][i]
          BY <1>1, <5>1
        <5>3. QED
          BY <5>2 DEF Counting, Retrying
      <4>8. QED
        BY <4>4, <4>5, <4>6, <4>7
    <3>5. QED
      BY <1>1, <3>3, <3>4
  <2>2. CASE r = FALSE
    <3>1. rs = records[t] /\ v = "not_reached"
      BY <2>2 DEF Reported
    <3>2. \A i \in before[t] + 1 .. Len(rs) - 1 : rs[i].provider = "retry"
      BY <1>1, <3>1 DEF Counting, Retrying
    <3> HIDE DEF rs
    <3>3. QED
      BY <1>1, <3>1, <3>2 DEF Waiting, Counting
  <2>3. QED
    BY <2>1, <2>2
<1> HIDE DEF rs
<1>4. QED
  BY <1>1, <1>2, <1>3, MarkedEnds

LEMMA MoreRetrying ==
  ASSUME NEW rs \in Seq(Record), NEW b \in Nat, Retrying(rs, b), NEW a, a.provider = "retry"
  PROVE  Retrying(Append(rs, a), b)
<1> DEFINE new == Append(rs, a)
<1>1. /\ Len(new) = Len(rs) + 1 /\ Len(rs) \in Nat /\ new[Len(rs) + 1] = a
      /\ \A i \in 1 .. Len(rs) : new[i] = rs[i]
  OBVIOUS
<1> HIDE DEF new
<1>2. ASSUME NEW i \in b + 1 .. Len(new) PROVE new[i].provider = "retry"
  <2>1. CASE i = Len(rs) + 1
    BY <1>1, <2>1
  <2>2. CASE i # Len(rs) + 1
    <3>1. i \in b + 1 .. Len(rs) /\ i \in 1 .. Len(rs)
      BY <1>1, <2>2
    <3>2. QED
      BY <1>1, <3>1 DEF Retrying
  <2>3. QED
    BY <2>1, <2>2
<1>3. QED
  BY <1>2 DEF Retrying, new

(* The next call, if there is one, has no records yet.                     *)
LEMMA AgainCounts ==
  ASSUME TypeOK, NEW t \in Task, records' \in [Task -> Seq(Record)], CallAgain(t),
         Ending(records'[t], calls'[t], Len(records'[t])),
         Recovers(records'[t], calls'[t])
  PROVE  Counting(t)'
<1>1. before'[t] = Len(records'[t]) /\ Len(records'[t]) \in Nat
  BY DEF CallAgain, TypeOK
<1>2. Retrying(records'[t], before'[t])
  BY <1>1 DEF Retrying
<1>3. QED
  BY <1>1, <1>2 DEF Counting

(* The signature of the task's status does not touch what is counted.      *)
LEMMA SignedEnds ==
  ASSUME TypeOK, NEW t \in Task, NEW cs,
         Ending(records[t], cs, Len(records[t])), Recovers(records[t], cs)
  PROVE  Ending(Signed(t), cs, Len(Signed(t))) /\ Recovers(Signed(t), cs)
<1> DEFINE rs == records[t]
           new == Signed(t)
<1>1. rs \in Seq(Record)
  BY DEF TypeOK
<1>2. CASE rs = <<>>
  <2>1. new = rs
    BY <1>2 DEF Signed
  <2>2. QED
    BY <2>1
<1>3. CASE rs # <<>>
  <2> DEFINE z == Len(rs)
  <2>1. z \in DOMAIN rs /\ rs[z] \in Record
    BY <1>1, <1>3
  <2>2. new = [rs EXCEPT ![z] = [rs[z] EXCEPT !.task = status[t]]]
    BY <1>3 DEF Signed
  <2>3. /\ Len(new) = z /\ DOMAIN new = 1 .. z /\ DOMAIN rs = 1 .. z
        /\ \A i \in 1 .. z : i # z => new[i] = rs[i]
        /\ new[z] = [rs[z] EXCEPT !.task = status[t]]
    BY <1>1, <2>1, <2>2
  <2>4. /\ new[z].call = rs[z].call /\ new[z].terminal = rs[z].terminal
        /\ new[z].provider = rs[z].provider /\ new[z].recovery = rs[z].recovery
    BY <2>1, <2>3 DEF Record
  <2>5. Ending(rs, cs, z) /\ Recovers(rs, cs)
    OBVIOUS
  <2> HIDE DEF new, rs, z
  <2>6. \A i \in 1 .. z : /\ new[i].call = rs[i].call /\ new[i].terminal = rs[i].terminal
                          /\ new[i].provider = rs[i].provider
                          /\ new[i].recovery = rs[i].recovery
    BY <2>3, <2>4
  <2>7. Ending(new, cs, z)
    BY <2>5, <2>6 DEF Ending
  <2>8. Recovers(new, cs)
    BY <2>3, <2>5, <2>6 DEF Recovers
  <2>9. QED
    BY <2>3, <2>7, <2>8 DEF new
<1>4. QED
  BY <1>2, <1>3

(* No call before the one that ends was accepted.                          *)
LEMMA AcceptedEnds ==
  ASSUME TypeOK, NEW t \in Task, CallDue(t), NEW v \in Verdict,
         calls'[t] = Append(calls[t], v)
  PROVE  /\ \A n \in DOMAIN calls'[t] :
              calls'[t][n] = "accepted" => n = Len(calls'[t])
         /\ v = "accepted" => \E n \in DOMAIN calls'[t] : calls'[t][n] = "accepted"
<1>1. calls[t] \in Seq(Verdict)
  BY DEF TypeOK
<1>2. \A n \in DOMAIN calls[t] : calls[t][n] # "accepted"
  BY DEF CallDue
<1> DEFINE cs == calls[t]
           new == Append(cs, v)
<1> HIDE DEF cs
<1>3. /\ Len(new) = Len(cs) + 1 /\ new[Len(new)] = v /\ Len(new) \in DOMAIN new
      /\ \A n \in DOMAIN new : n # Len(new) => n \in DOMAIN cs /\ new[n] = cs[n]
  BY <1>1 DEF cs
<1> HIDE DEF new
<1>4. calls'[t] = new
  BY DEF new, cs
<1>5. QED
  BY <1>2, <1>3, <1>4 DEF cs

(* The end of a call, as the figures see it.                               *)
LEMMA FigureEnds ==
  ASSUME TypeOK, NEW t \in Task, place[t] = "answer", TaskInv(t), BudgetInv(t),
         TraceInv(t), FigureInv(t), NEW r \in BOOLEAN, NEW v \in Verdict,
         r \/ v = "not_reached", CallEnds(t, r, v), status'[t] = status[t],
         place'[t] = "promote" => v = "accepted"
  PROVE  /\ Ending(records'[t], calls'[t], Len(records'[t]))
         /\ Recovers(records'[t], calls'[t])
         /\ AcceptedLast(t)'
<1>1. CallDue(t) /\ Waiting(t) /\ Counting(t) /\ status[t] = None
  BY DEF BudgetInv, TraceInv, FigureInv, TaskInv
<1>2. calls'[t] = Append(calls[t], v)
  BY DEF CallEnds, TypeOK
<1>3. /\ \A n \in DOMAIN calls'[t] : calls'[t][n] = "accepted" => n = Len(calls'[t])
      /\ v = "accepted" => \E n \in DOMAIN calls'[t] : calls'[t][n] = "accepted"
  BY <1>1, <1>2, AcceptedEnds
<1>4. status'[t] # "ok"
  BY <1>1, NoneAssumption
<1>5. AcceptedLast(t)'
  BY <1>3, <1>4 DEF AcceptedLast
<1>6. QED
  BY <1>1, <1>5, CallEndsCounts

(* A thread keeps what the figures are worked out from.                    *)
LEMMA FigureStep ==
  ASSUME TypeOK, NEW t \in Task, TaskInv(t), BudgetInv(t), TraceInv(t), FigureInv(t),
         Worker(t), TypeOK'
  PROVE  FigureInv(t)'
<1> USE DEF TypeOK, artefacts
<1>1. CASE Take(t)
  <2>1. /\ place'[t] \in {"copy", "failed"} /\ calls'[t] = calls[t]
        /\ status'[t] = None /\ traces'[t] = None /\ status[t] = None
    BY <1>1 DEF Take, Goto, TaskInv, solver
  <2>2. QED
    BY <2>1 DEF FigureInv, AcceptedLast
<1>2. CASE Copy(t) \/ CopyFails(t)
  <2>1. /\ calls'[t] = <<>> /\ records'[t] = <<>> /\ before'[t] = 0
        /\ place'[t] \in {"answer", "fallback"} /\ status'[t] = None
    BY <1>2 DEF Copy, CopyFails, Goto, TraceInv, TaskInv
  <2>2. Ending(<<>>, <<>>, 0) /\ Retrying(<<>>, 0) /\ Recovers(<<>>, <<>>)
    BY DEF Ending, Retrying, Recovers
  <2>3. AcceptedLast(t)'
    BY <2>1, NoneAssumption DEF AcceptedLast
  <2>4. QED
    BY <2>1, <2>2, <2>3 DEF FigureInv, Counting
<1>3. CASE Retried(t)
  <2>1. /\ place[t] = "answer" /\ place'[t] = "answer"
        /\ records'[t] = Append(records[t], Attempt(t, "retry"))
        /\ calls'[t] = calls[t] /\ before'[t] = before[t] /\ status'[t] = status[t]
    BY <1>3 DEF Retried
  <2>2. CallDue(t) /\ Waiting(t) /\ Counting(t)
    BY <2>1 DEF BudgetInv, TraceInv, FigureInv
  <2>3. Ending(records'[t], calls[t], before[t])
    BY <2>1, <2>2, AttemptCounts
  <2>4. Recovers(records'[t], calls[t])
    BY <2>1, <2>2, AttemptCounts
  <2>5. Retrying(records'[t], before[t])
    <3> DEFINE rs == records[t]
               a == Attempt(t, "retry")
               b == before[t]
    <3>1. a.provider = "retry" /\ rs \in Seq(Record) /\ b \in Nat
      BY DEF Attempt
    <3> HIDE DEF a
    <3>2. records'[t] = Append(rs, a) /\ Retrying(rs, b)
      BY <2>1, <2>2 DEF a, Counting
    <3> HIDE DEF rs, b
    <3>3. Retrying(Append(rs, a), b)
      BY <3>1, <3>2, MoreRetrying
    <3>4. QED
      BY <2>1, <3>2, <3>3 DEF b
  <2>6. Counting(t)'
    BY <2>1, <2>3, <2>4, <2>5 DEF Counting
  <2>7. QED
    BY <2>1, <2>6 DEF FigureInv, AcceptedLast
<1>4. CASE Accepted(t)
  <2>1. /\ place[t] = "answer" /\ place'[t] = "promote" /\ status'[t] = status[t]
        /\ CallEnds(t, TRUE, "accepted")
    BY <1>4 DEF Accepted, CallEnds, Goto
  <2>2. QED
    BY <2>1, FigureEnds DEF FigureInv, Verdict
<1>5. CASE Rejected(t)
  <2>1. /\ place[t] = "answer" /\ CallEnds(t, TRUE, "rejected") /\ status'[t] = status[t]
        /\ CallAgain(t) \/ GiveUp(t)
    BY <1>5 DEF Rejected, CallEnds
  <2>2. place'[t] \in {"answer", "fallback"} /\ (GiveUp(t) => place'[t] = "fallback")
    BY <2>1 DEF CallAgain, GiveUp, Goto
  <2>3. /\ Ending(records'[t], calls'[t], Len(records'[t]))
        /\ Recovers(records'[t], calls'[t]) /\ AcceptedLast(t)'
    BY <2>1, <2>2, FigureEnds DEF Verdict
  <2>4. CallAgain(t) => Counting(t)'
    BY <2>3, AgainCounts
  <2>5. QED
    BY <2>1, <2>2, <2>3, <2>4 DEF FigureInv
<1>6. CASE Truncated(t)
  <2>1. /\ place[t] = "answer" /\ CallEnds(t, TRUE, "not_reached") /\ status'[t] = status[t]
        /\ CallAgain(t) \/ GiveUp(t)
    BY <1>6 DEF Truncated, CallEnds
  <2>2. place'[t] \in {"answer", "fallback"} /\ (GiveUp(t) => place'[t] = "fallback")
    BY <2>1 DEF CallAgain, GiveUp, Goto
  <2>3. /\ Ending(records'[t], calls'[t], Len(records'[t]))
        /\ Recovers(records'[t], calls'[t]) /\ AcceptedLast(t)'
    BY <2>1, <2>2, FigureEnds DEF Verdict
  <2>4. CallAgain(t) => Counting(t)'
    BY <2>3, AgainCounts
  <2>5. QED
    BY <2>1, <2>2, <2>3, <2>4 DEF FigureInv
<1>7. CASE CallFails(t)
  <2>1. PICK r \in BOOLEAN : CallEnds(t, r, "not_reached")
    BY <1>7 DEF CallFails
  <2>2. place[t] = "answer" /\ place'[t] = "fallback" /\ status'[t] = status[t]
    BY <1>7 DEF CallFails, CallEnds, GiveUp, Goto
  <2>3. QED
    BY <2>1, <2>2, FigureEnds DEF FigureInv, Verdict
<1>8. CASE Promote(t)
  <2>1. /\ place[t] = "promote" /\ place'[t] = "trace"
        /\ calls'[t] = calls[t] /\ records'[t] = records[t]
    BY <1>8 DEF Promote, Goto
  <2>2. QED
    BY <2>1 DEF FigureInv, AcceptedLast
<1>9. CASE PromoteFails(t) \/ Fallback(t)
  <2>1. /\ place[t] \in {"promote", "fallback"} /\ place'[t] \in {"fallback", "trace"}
        /\ calls'[t] = calls[t] /\ records'[t] = records[t]
        /\ status'[t] = status[t] \/ status'[t] = "error"
    BY <1>9 DEF PromoteFails, Fallback, Goto
  <2>2. AcceptedLast(t)'
    BY <2>1 DEF FigureInv, AcceptedLast
  <2>3. QED
    BY <2>1, <2>2 DEF FigureInv
<1>10. CASE FallbackFails(t)
  <2>1. /\ place[t] = "fallback" /\ place'[t] = "failed" /\ traces'[t] = traces[t]
        /\ calls'[t] = calls[t] /\ status'[t] = "error"
    BY <1>10 DEF FallbackFails, Goto
  <2>2. AcceptedLast(t)'
    BY <2>1 DEF FigureInv, AcceptedLast
  <2>3. QED
    BY <2>1, <2>2 DEF FigureInv, TaskInv
<1>11. CASE WriteTrace(t) \/ TraceFails(t)
  <2>1. /\ place[t] = "trace" /\ place'[t] \in {"done", "failed"}
        /\ calls'[t] = calls[t] /\ status'[t] = status[t]
        /\ traces'[t] \in {traces[t], Signed(t)}
    BY <1>11 DEF WriteTrace, TraceFails, Goto
  <2>2. traces[t] = None
    BY <2>1 DEF TaskInv
  <2>3. Ending(Signed(t), calls[t], Len(Signed(t))) /\ Recovers(Signed(t), calls[t])
    BY <2>1, SignedEnds DEF FigureInv
  <2>4. AcceptedLast(t)'
    BY <2>1 DEF FigureInv, AcceptedLast
  <2>5. CASE traces'[t] = Signed(t)
    BY <2>1, <2>3, <2>4, <2>5 DEF FigureInv
  <2>6. CASE traces'[t] = None
    BY <2>1, <2>4, <2>6 DEF FigureInv
  <2>7. QED
    BY <2>1, <2>2, <2>5, <2>6
<1>12. QED
  BY <1>1, <1>2, <1>3, <1>4, <1>5, <1>6, <1>7, <1>8, <1>9, <1>10, <1>11 DEF Worker

LEMMA FiguresHold == Spec => [](\A t \in Task : FigureInv(t))
<1>1. Init => \A t \in Task : FigureInv(t)
  BY NoneAssumption DEF Init, FigureInv, AcceptedLast
<1>2. ASSUME IInv, IInv', [Next]_vars, \A t \in Task : BudgetInv(t),
             \A t \in Task : TraceInv(t), \A t \in Task : FigureInv(t)
      PROVE  (\A t \in Task : FigureInv(t))'
  <2>1. CASE \E t \in Task : Worker(t)
    <3>1. PICK t \in Task : Worker(t)
      BY <2>1
    <3>2. FigureInv(t)'
      BY <1>2, <3>1, FigureStep DEF IInv
    <3>3. ASSUME NEW u \in Task, u # t PROVE FigureInv(u)'
      <4>1. /\ records'[u] = records[u] /\ calls'[u] = calls[u] /\ before'[u] = before[u]
            /\ place'[u] = place[u] /\ traces'[u] = traces[u] /\ status'[u] = status[u]
        BY <1>2, <3>1, <3>3, OthersKept, OtherCallsKept DEF IInv
      <4>2. QED
        BY <1>2, <4>1 DEF FigureInv, Counting, AcceptedLast
    <3>4. QED
      BY <3>2, <3>3
  <2>2. CASE ~\E t \in Task : Worker(t)
    <3>1. UNCHANGED <<place, solver, artefacts>>
      BY <1>2, <2>2 DEF Next, vars, MainThread, Interrupt, Kill, Start, AllObserved,
           Shutdown, WritePredictions, Validate, Close, Observe
    <3>2. QED
      BY <1>2, <3>1 DEF solver, artefacts, FigureInv, Counting, AcceptedLast
  <2>3. QED
    BY <2>1, <2>2
<1>3. QED
  BY <1>1, <1>2, InvariantHolds, BudgetHolds, TracesHold, PTL DEF Spec

(* When the figures are worked out, every thread has left a trace.         *)
LEMMA RunIsFigured ==
  ASSUME IInv, main = "validate", \A t \in Task : BudgetInv(t),
         \A t \in Task : TraceInv(t), \A t \in Task : FigureInv(t)
  PROVE  Figured
<1>1. predictions = status
  BY DEF IInv, MainInv
<1>2. ASSUME NEW t \in Task
      PROVE  place[t] = "done" /\ traces[t] \in Seq(Record) /\ traces[t] # None
  <2>1. place[t] = "done" /\ TaskInv(t) /\ records[t] \in Seq(Record)
    BY DEF IInv, MainInv, TypeOK
  <2>2. QED
    BY <2>1, NoneAssumption DEF TaskInv
<1>3. \A t \in Task :
        /\ Told(traces[t], calls[t], Len(traces[t]))
        /\ Ending(traces[t], calls[t], Len(traces[t])) /\ Recovers(traces[t], calls[t])
        /\ AcceptedLast(t) /\ WithinBudget(t)
  BY <1>2 DEF TraceInv, FigureInv, BudgetInv
<1>4. QED
  BY <1>1, <1>2, <1>3 DEF Figured, IInv

(* The metrics of a run that ended say what its solver did: no call is     *)
(* counted twice or under another verdict, and only those that failed      *)
(* before their first report are missing.                                  *)
THEOREM FiguresAreTrue == Spec => []MetricsTellTheRun
<1>1. /\ IInv /\ (\A t \in Task : BudgetInv(t))
      /\ (\A t \in Task : TraceInv(t)) /\ (\A t \in Task : FigureInv(t))
      => MetricsTellTheRun
  <2>1. main # "validate" => MetricsTellTheRun
    BY DEF MetricsTellTheRun
  <2>2. QED
    BY <2>1, RunIsFigured, FiguresFollow
<1>2. QED
  BY <1>1, InvariantHolds, BudgetHolds, TracesHold, FiguresHold, PTL

-----------------------------------------------------------------------------
(* The run implements the batch.                                           *)

Settled == [t \in Task |-> Outcome(t)]
Delivered ==
  IF predictions = None THEN None
  ELSE [t \in Task |-> [status |-> predictions[t], workbook |-> outputs[t]]]

(* A task that is done has one of the two outcomes.                        *)
LEMMA OutcomeIsOne ==
  ASSUME "apply" \notin Late, IInv, NEW t \in Task, place[t] \in {"trace", "done"}
  PROVE  /\ [status |-> status[t], workbook |-> outputs[t]] \in Batch!Outcome
         /\ [status |-> status[t], workbook |-> outputs[t]] # None
<1>1. \/ /\ status[t] = "ok" /\ plan[t] \in Plan
         /\ outputs[t] \in Workbook /\ outputs[t] = <<plan[t]>>
      \/ status[t] = "error" /\ outputs[t] = <<>>
  BY DEF IInv, TaskInv
<1>2. <<>> \in Workbook
  BY DEF Workbook
<1>3. [status |-> status[t], workbook |-> outputs[t]]
        \in [status : {"ok", "error"}, workbook : Workbook]
  BY <1>1, <1>2
<1>4. [status |-> status[t], workbook |-> outputs[t]] \in Batch!Outcome
  BY <1>1 DEF Batch!Outcome
<1>5. QED
  BY <1>3, <1>4, NoneAssumption

(* Finished is final: a step that is no WriteTrace settles nothing.        *)
LEMMA SettledKept ==
  ASSUME IInv, NEW t \in Task, Worker(t), ~WriteTrace(t)
  PROVE  Settled' = Settled /\ Delivered' = Delivered
<1>1. place[t] # "done" /\ UNCHANGED mains
  BY WorkerProgress DEF Finished
<1>2. place'[t] # "done"
  BY DEF IInv, TypeOK, Worker, Take, Copy, CopyFails, Retried, Accepted, Rejected,
         Truncated, CallFails, CallEnds, CallAgain, GiveUp, Goto, Promote, PromoteFails,
         Fallback, FallbackFails, TraceFails
<1>3. \A u \in Task : Outcome(u)' = Outcome(u)
  <2>1. ASSUME NEW u \in Task, u # t PROVE Outcome(u)' = Outcome(u)
    BY <2>1, OthersKept DEF IInv, Outcome
  <2>2. Outcome(t)' = Outcome(t)
    BY <1>1, <1>2 DEF Outcome
  <2>3. QED
    BY <2>1, <2>2
<1>4. predictions = None
  BY <1>1 DEF IInv, MainInv
<1>5. QED
  BY <1>1, <1>3, <1>4 DEF Settled, Delivered, mains

LEMMA TraceSettles ==
  ASSUME "apply" \notin Late, IInv, NEW t \in Task, WriteTrace(t)
  PROVE  Batch!Settle(t)
<1>1. /\ place[t] = "trace" /\ place' = [place EXCEPT ![t] = "done"]
      /\ UNCHANGED <<mains, status, outputs>>
  BY DEF WriteTrace, Goto
<1>2. Settled[t] = None
  BY <1>1 DEF Settled, Outcome
<1>3. Settled' = [Settled EXCEPT ![t] = [status |-> status[t], workbook |-> outputs[t]]]
  <2>1. \A u \in Task : Outcome(u)' = IF u = t THEN [status |-> status[t], workbook |-> outputs[t]]
                                      ELSE Outcome(u)
    BY <1>1 DEF Outcome, IInv, TypeOK
  <2>2. QED
    BY <2>1 DEF Settled
<1>4. predictions = None /\ predictions' = None
  BY <1>1 DEF IInv, MainInv, mains
<1>5. Delivered' = Delivered
  BY <1>4 DEF Delivered
<1>6. [status |-> status[t], workbook |-> outputs[t]] \in Batch!Outcome
  BY <1>1, OutcomeIsOne
<1>7. QED
  BY <1>2, <1>3, <1>5, <1>6 DEF Batch!Settle, Settled, Delivered

(* The predictions deliver what is settled, and nothing else the main      *)
(* thread does shows.                                                      *)
LEMMA MainDelivers ==
  ASSUME "apply" \notin Late, IInv, MainThread \/ Interrupt \/ Kill \/ UNCHANGED vars
  PROVE  Batch!Deliver \/ (Settled' = Settled /\ Delivered' = Delivered)
<1>1. UNCHANGED <<place, status, outputs>>
  BY DEF vars, MainThread, Interrupt, Kill, Start, AllObserved, Shutdown,
         WritePredictions, Validate, Close, Observe, artefacts
<1>2. Settled' = Settled
  BY <1>1 DEF Settled, Outcome
<1>3. CASE predictions' = predictions
  BY <1>1, <1>2, <1>3 DEF Delivered
<1>4. CASE predictions' # predictions
  <2>1. WritePredictions /\ predictions' = status
    BY <1>4 DEF vars, mains, MainThread, Interrupt, Kill, Start, AllObserved, Shutdown,
                WritePredictions, Validate, Close, Observe
  <2>2. predictions = None /\ (\A t \in Task : place[t] = "done")
    BY <2>1 DEF WritePredictions, IInv, MainInv
  <2>3. predictions' # None
    BY <1>4, <2>2
  <2>4. Delivered = None
    BY <2>2 DEF Delivered
  <2>5. \A t \in Task : Settled[t] = [status |-> status[t], workbook |-> outputs[t]]
    BY <2>2 DEF Settled, Outcome
  <2>6. \A t \in Task : Settled[t] # None
    BY <2>2, <2>5, OutcomeIsOne
  <2>7. Delivered' = [t \in Task |-> [status |-> status[t], workbook |-> outputs[t]]]
    BY <1>1, <2>1, <2>3 DEF Delivered
  <2>8. Delivered' = Settled
    BY <2>2, <2>7 DEF Settled, Outcome
  <2>9. QED
    BY <1>2, <2>4, <2>6, <2>8 DEF Batch!Deliver, Settled, Delivered
<1>5. QED
  BY <1>3, <1>4

(* All or nothing: every task is settled once, whole and for good, and the *)
(* predictions appear once, when all are.                                  *)
THEOREM RunImplementsBatch ==
  ASSUME "apply" \notin Late PROVE Spec => ImplementsBatch
<1>1. Init => Batch!Init
  BY DEF Init, Batch!Init, Outcome
<1>2. ASSUME IInv, [Next]_vars
      PROVE  [Batch!Next]_<<Settled, Delivered>>
  <2>1. CASE MainThread \/ Interrupt \/ Kill \/ UNCHANGED vars
    BY <1>2, <2>1, MainDelivers DEF Batch!Next
  <2>2. ASSUME NEW t \in Task, WriteTrace(t)
        PROVE  [Batch!Next]_<<Settled, Delivered>>
    BY <1>2, <2>2, TraceSettles DEF Batch!Next
  <2>3. ASSUME NEW t \in Task, Worker(t), ~WriteTrace(t)
        PROVE  [Batch!Next]_<<Settled, Delivered>>
    BY <1>2, <2>3, SettledKept
  <2>4. QED
    BY <1>2, <2>1, <2>2, <2>3 DEF Next
<1>3. QED
  BY <1>1, <1>2, InvariantHolds, PTL DEF Spec, ImplementsBatch, Batch!Spec, Settled, Delivered
=============================================================================
