--------------------------- MODULE ProviderProofs ---------------------------
(***************************************************************************)
(* The provider for any calls, any concurrency, with and without a         *)
(* checkpoint: one client is made, few calls overrun an open circuit, and  *)
(* what is not given up is drained.                                        *)
(***************************************************************************)
EXTENDS ProviderGateway, FiniteSetTheorems, TLAPS

Lost(t) == result[t] \in {"cancelled"} \cup Undrained
Making(t) == t \in pollers \/ thread[t] = "sampler"
Pending == At({"waiting", "service", "sampler", "undo"})

(* One call at a time makes clients, and none once there is one.           *)
LockInv ==
  /\ \A t, u \in Holding : t = u
  /\ stage = "run" /\ sampler # None => Holding = {}
  /\ stage # "run" => \A t \in Task : place[t] \in {"undo", "ended"}
  /\ stage \in {"closed", "unclosed"} => \A t \in Task : place[t] = "ended"
  /\ ~checkpoint => service = None /\ At({"service", "undo"}) = {}

(* A thread is waited for by its call, unless that has been given up.      *)
ThreadInv ==
  \A t \in Task :
    /\ thread[t] # "none" => place[t] = thread[t] \/ Lost(t)
    /\ thread[t] # "none" /\ stage = "run" => place[t] = thread[t]
    /\ thread[t] # "none" /\ place[t] = thread[t] => result[t] = "none"
    /\ Lost(t) => place[t] \in {"undo", "ended"}

(* A sampler has an owner: the call that makes it, or _sampling_client.    *)
OwnedInv ==
  \A t \in Task : stage = "run" /\ Making(t) =>
    \/ sampler = t
    \/ place[t] = "sampler" /\ (thread[t] = "sampler" \/ result[t] = "made")

AloneInv == \A t, u \in Task : Making(t) /\ Making(u) => t = u

(* So has a service.                                                       *)
ServiceInv ==
  /\ \A t \in Task :
       /\ place[t] = "undo" => service = t
       /\ place[t] = "sampler" /\ checkpoint => service = t
       /\ service = t => sampler = t \/ place[t] \in {"sampler", "undo"}
       /\ sampler = t => place[t] \in {"sampling", "ended"}

(* What has no owner has been given up.                                    *)
OwnerInv ==
  \A t \in Task : stage # "unclosed" /\ ~Lost(t) =>
    /\ t \in pollers =>
         \/ sampler = t /\ stage # "closed"
         \/ place[t] = "sampler" /\ result[t] = "made"
    /\ t \in services =>
         \/ service = t /\ stage # "closed"
         \/ place[t] = "service" /\ result[t] = "made"

(* With the circuit open, no more than the calls already admitted send.    *)
CircuitInv ==
  /\ Cardinality(Calling) <= Concurrency
  /\ fatal = "none" => late = {}
  /\ fatal # "none" => Cardinality(late \cup Pending) < Concurrency

(* The circuit is open exactly if a call has ended with a non-retryable    *)
(* status, and who was refused met it open.  A status that a thread raises *)
(* opens nothing before its call has drained, nor if that is given up.     *)
OpenedByFatal ==
  /\ fatal # "none" <=> \E t \in At({"ended"}) : result[t] \in Fatal
  /\ \A t \in Task : result[t] = "refused" => fatal # "none"

IInv == TypeOK /\ LockInv /\ ThreadInv /\ OwnedInv /\ AloneInv /\ ServiceInv
        /\ OwnerInv /\ CircuitInv /\ OpenedByFatal
-----------------------------------------------------------------------------
(* Every step keeps it.                                                    *)

LEMMA NoneIsNoTask == None \notin Task
BY ProviderAssumption

LEMMA TypeStep == ASSUME IInv, [Next]_vars PROVE TypeOK'
<1> USE DEF IInv, TypeOK, Fatal, Undrained, calls, clients, undrained, sent, Admitted, Ends, Sample, Make, First, Hears, At, Holding, Over, Forget
<1>1. ASSUME NEW t \in Task, Refuse(t) PROVE TypeOK'
  BY <1>1 DEF Refuse
<1>2. ASSUME NEW t \in Task, Unrendered(t) PROVE TypeOK'
  BY <1>2 DEF Unrendered
<1>3. ASSUME NEW t \in Task, Begin(t) PROVE TypeOK'
  BY <1>3 DEF Begin
<1>4. ASSUME NEW t \in Task, Enter(t) PROVE TypeOK'
  BY <1>4 DEF Enter
<1>5. ASSUME NEW t \in Task, TakeService(t) PROVE TypeOK'
  BY <1>5 DEF TakeService
<1>6. ASSUME NEW t \in Task, TakeSampler(t) PROVE TypeOK'
  BY <1>6 DEF TakeSampler
<1>7. ASSUME NEW t \in Task, MakingFails(t) PROVE TypeOK'
  BY <1>7 DEF MakingFails
<1>8. ASSUME NEW t \in Task, Undone(t) PROVE TypeOK'
  BY <1>8 DEF Undone
<1>9. ASSUME NEW t \in Task, UndoFails(t) PROVE TypeOK'
  BY <1>9 DEF UndoFails
<1>10. ASSUME NEW t \in Task, ThreadMakes(t) PROVE TypeOK'
  BY <1>10 DEF ThreadMakes
<1>11. ASSUME NEW t \in Task, ThreadFails(t) PROVE TypeOK'
  BY <1>11 DEF ThreadFails
<1>12. ASSUME NEW t \in Task, Answered(t) PROVE TypeOK'
  BY <1>12 DEF Answered
<1>13. CASE Cancel
  BY <1>13 DEF Cancel
<1>14. CASE CloseNothing
  BY <1>14 DEF CloseNothing
<1>15. CASE Close
  BY <1>15 DEF Close
<1>16. CASE CloseFails
  BY <1>16 DEF CloseFails
<1>17. CASE UNCHANGED vars
  BY <1>17 DEF vars
<1>18. QED
  BY <1>1, <1>2, <1>3, <1>4, <1>5, <1>6, <1>7, <1>8, <1>9, <1>10, <1>11, <1>12, <1>13, <1>14, <1>15, <1>16, <1>17
  DEF Next, Call, Thread

LEMMA LockStep == ASSUME IInv, [Next]_vars PROVE LockInv'
<1> USE DEF IInv, TypeOK, Fatal, Undrained, calls, clients, undrained, sent, Admitted, Ends, Sample, Make, First, Hears, At, Holding, Over, Forget, LockInv, ServiceInv
<1>1. ASSUME NEW t \in Task, Refuse(t) PROVE LockInv'
  BY <1>1, NoneIsNoTask DEF Refuse
<1>2. ASSUME NEW t \in Task, Unrendered(t) PROVE LockInv'
  BY <1>2, NoneIsNoTask DEF Unrendered
<1>3. ASSUME NEW t \in Task, Begin(t) PROVE LockInv'
  BY <1>3, NoneIsNoTask DEF Begin
<1>4. ASSUME NEW t \in Task, Enter(t) PROVE LockInv'
  BY <1>4, NoneIsNoTask DEF Enter
<1>5. ASSUME NEW t \in Task, TakeService(t) PROVE LockInv'
  BY <1>5, NoneIsNoTask DEF TakeService
<1>6. ASSUME NEW t \in Task, TakeSampler(t) PROVE LockInv'
  BY <1>6, NoneIsNoTask DEF TakeSampler
<1>7. ASSUME NEW t \in Task, MakingFails(t) PROVE LockInv'
  BY <1>7, NoneIsNoTask DEF MakingFails
<1>8. ASSUME NEW t \in Task, Undone(t) PROVE LockInv'
  BY <1>8, NoneIsNoTask DEF Undone
<1>9. ASSUME NEW t \in Task, UndoFails(t) PROVE LockInv'
  BY <1>9, NoneIsNoTask DEF UndoFails
<1>10. ASSUME NEW t \in Task, ThreadMakes(t) PROVE LockInv'
  BY <1>10, NoneIsNoTask DEF ThreadMakes
<1>11. ASSUME NEW t \in Task, ThreadFails(t) PROVE LockInv'
  BY <1>11, NoneIsNoTask DEF ThreadFails
<1>12. ASSUME NEW t \in Task, Answered(t) PROVE LockInv'
  BY <1>12, NoneIsNoTask DEF Answered
<1>13. CASE Cancel
  BY <1>13, NoneIsNoTask DEF Cancel
<1>14. CASE CloseNothing
  BY <1>14, NoneIsNoTask DEF CloseNothing
<1>15. CASE Close
  BY <1>15, NoneIsNoTask DEF Close
<1>16. CASE CloseFails
  BY <1>16, NoneIsNoTask DEF CloseFails
<1>17. CASE UNCHANGED vars
  BY <1>17, NoneIsNoTask DEF vars
<1>18. QED
  BY <1>1, <1>2, <1>3, <1>4, <1>5, <1>6, <1>7, <1>8, <1>9, <1>10, <1>11, <1>12, <1>13, <1>14, <1>15, <1>16, <1>17
  DEF Next, Call, Thread

LEMMA ThreadStep == ASSUME IInv, [Next]_vars PROVE ThreadInv'
<1> USE DEF IInv, TypeOK, Fatal, Undrained, calls, clients, undrained, sent, Admitted, Ends, Sample, Make, First, Hears, At, Holding, Over, Forget, ThreadInv, Lost
<1>1. ASSUME NEW t \in Task, Refuse(t) PROVE ThreadInv'
  BY <1>1, NoneIsNoTask DEF Refuse
<1>2. ASSUME NEW t \in Task, Unrendered(t) PROVE ThreadInv'
  BY <1>2, NoneIsNoTask DEF Unrendered
<1>3. ASSUME NEW t \in Task, Begin(t) PROVE ThreadInv'
  BY <1>3, NoneIsNoTask DEF Begin
<1>4. ASSUME NEW t \in Task, Enter(t) PROVE ThreadInv'
  BY <1>4, NoneIsNoTask DEF Enter
<1>5. ASSUME NEW t \in Task, TakeService(t) PROVE ThreadInv'
  BY <1>5, NoneIsNoTask DEF TakeService
<1>6. ASSUME NEW t \in Task, TakeSampler(t) PROVE ThreadInv'
  BY <1>6, NoneIsNoTask DEF TakeSampler
<1>7. ASSUME NEW t \in Task, MakingFails(t) PROVE ThreadInv'
  BY <1>7, NoneIsNoTask DEF MakingFails
<1>8. ASSUME NEW t \in Task, Undone(t) PROVE ThreadInv'
  BY <1>8, NoneIsNoTask DEF Undone
<1>9. ASSUME NEW t \in Task, UndoFails(t) PROVE ThreadInv'
  BY <1>9, NoneIsNoTask DEF UndoFails
<1>10. ASSUME NEW t \in Task, ThreadMakes(t) PROVE ThreadInv'
  BY <1>10, NoneIsNoTask DEF ThreadMakes
<1>11. ASSUME NEW t \in Task, ThreadFails(t) PROVE ThreadInv'
  BY <1>11, NoneIsNoTask DEF ThreadFails
<1>12. ASSUME NEW t \in Task, Answered(t) PROVE ThreadInv'
  BY <1>12, NoneIsNoTask DEF Answered
<1>13. CASE Cancel
  BY <1>13, NoneIsNoTask DEF Cancel
<1>14. CASE CloseNothing
  BY <1>14, NoneIsNoTask DEF CloseNothing
<1>15. CASE Close
  BY <1>15, NoneIsNoTask DEF Close
<1>16. CASE CloseFails
  BY <1>16, NoneIsNoTask DEF CloseFails
<1>17. CASE UNCHANGED vars
  BY <1>17, NoneIsNoTask DEF vars
<1>18. QED
  BY <1>1, <1>2, <1>3, <1>4, <1>5, <1>6, <1>7, <1>8, <1>9, <1>10, <1>11, <1>12, <1>13, <1>14, <1>15, <1>16, <1>17
  DEF Next, Call, Thread

LEMMA OwnedStep == ASSUME IInv, [Next]_vars PROVE OwnedInv'
<1> USE DEF IInv, TypeOK, Fatal, Undrained, calls, clients, undrained, sent, Admitted, Ends, Sample, Make, First, Hears, At, Holding, Over, Forget, LockInv, ThreadInv, OwnedInv, ServiceInv, Making, Lost
<1>1. ASSUME NEW t \in Task, Refuse(t) PROVE OwnedInv'
  BY <1>1, NoneIsNoTask DEF Refuse
<1>2. ASSUME NEW t \in Task, Unrendered(t) PROVE OwnedInv'
  BY <1>2, NoneIsNoTask DEF Unrendered
<1>3. ASSUME NEW t \in Task, Begin(t) PROVE OwnedInv'
  BY <1>3, NoneIsNoTask DEF Begin
<1>4. ASSUME NEW t \in Task, Enter(t) PROVE OwnedInv'
  BY <1>4, NoneIsNoTask DEF Enter
<1>5. ASSUME NEW t \in Task, TakeService(t) PROVE OwnedInv'
  BY <1>5, NoneIsNoTask DEF TakeService
<1>6. ASSUME NEW t \in Task, TakeSampler(t) PROVE OwnedInv'
  BY <1>6, NoneIsNoTask DEF TakeSampler
<1>7. ASSUME NEW t \in Task, MakingFails(t) PROVE OwnedInv'
  BY <1>7, NoneIsNoTask DEF MakingFails
<1>8. ASSUME NEW t \in Task, Undone(t) PROVE OwnedInv'
  BY <1>8, NoneIsNoTask DEF Undone
<1>9. ASSUME NEW t \in Task, UndoFails(t) PROVE OwnedInv'
  BY <1>9, NoneIsNoTask DEF UndoFails
<1>10. ASSUME NEW t \in Task, ThreadMakes(t) PROVE OwnedInv'
  BY <1>10, NoneIsNoTask DEF ThreadMakes
<1>11. ASSUME NEW t \in Task, ThreadFails(t) PROVE OwnedInv'
  BY <1>11, NoneIsNoTask DEF ThreadFails, OwnerInv
<1>12. ASSUME NEW t \in Task, Answered(t) PROVE OwnedInv'
  BY <1>12, NoneIsNoTask DEF Answered
<1>13. CASE Cancel
  BY <1>13, NoneIsNoTask DEF Cancel
<1>14. CASE CloseNothing
  BY <1>14, NoneIsNoTask DEF CloseNothing
<1>15. CASE Close
  BY <1>15, NoneIsNoTask DEF Close
<1>16. CASE CloseFails
  BY <1>16, NoneIsNoTask DEF CloseFails
<1>17. CASE UNCHANGED vars
  BY <1>17, NoneIsNoTask DEF vars
<1>18. QED
  BY <1>1, <1>2, <1>3, <1>4, <1>5, <1>6, <1>7, <1>8, <1>9, <1>10, <1>11, <1>12, <1>13, <1>14, <1>15, <1>16, <1>17
  DEF Next, Call, Thread

LEMMA AloneStep == ASSUME IInv, [Next]_vars PROVE AloneInv'
<1> USE DEF IInv, TypeOK, Fatal, Undrained, calls, clients, undrained, sent, Admitted, Ends, Sample, Make, First, Hears, At, Holding, Over, Forget, LockInv, ThreadInv, OwnedInv, AloneInv, ServiceInv, Making, Lost
<1>1. ASSUME NEW t \in Task, Refuse(t) PROVE AloneInv'
  BY <1>1, NoneIsNoTask DEF Refuse
<1>2. ASSUME NEW t \in Task, Unrendered(t) PROVE AloneInv'
  BY <1>2, NoneIsNoTask DEF Unrendered
<1>3. ASSUME NEW t \in Task, Begin(t) PROVE AloneInv'
  BY <1>3, NoneIsNoTask DEF Begin
<1>4. ASSUME NEW t \in Task, Enter(t) PROVE AloneInv'
  BY <1>4, NoneIsNoTask DEF Enter
<1>5. ASSUME NEW t \in Task, TakeService(t) PROVE AloneInv'
  BY <1>5, NoneIsNoTask DEF TakeService
<1>6. ASSUME NEW t \in Task, TakeSampler(t) PROVE AloneInv'
  BY <1>6, NoneIsNoTask DEF TakeSampler
<1>7. ASSUME NEW t \in Task, MakingFails(t) PROVE AloneInv'
  BY <1>7, NoneIsNoTask DEF MakingFails
<1>8. ASSUME NEW t \in Task, Undone(t) PROVE AloneInv'
  BY <1>8, NoneIsNoTask DEF Undone
<1>9. ASSUME NEW t \in Task, UndoFails(t) PROVE AloneInv'
  BY <1>9, NoneIsNoTask DEF UndoFails
<1>10. ASSUME NEW t \in Task, ThreadMakes(t) PROVE AloneInv'
  BY <1>10, NoneIsNoTask DEF ThreadMakes
<1>11. ASSUME NEW t \in Task, ThreadFails(t) PROVE AloneInv'
  BY <1>11, NoneIsNoTask DEF ThreadFails
<1>12. ASSUME NEW t \in Task, Answered(t) PROVE AloneInv'
  BY <1>12, NoneIsNoTask DEF Answered
<1>13. CASE Cancel
  BY <1>13, NoneIsNoTask DEF Cancel
<1>14. CASE CloseNothing
  BY <1>14, NoneIsNoTask DEF CloseNothing
<1>15. CASE Close
  BY <1>15, NoneIsNoTask DEF Close
<1>16. CASE CloseFails
  BY <1>16, NoneIsNoTask DEF CloseFails
<1>17. CASE UNCHANGED vars
  BY <1>17, NoneIsNoTask DEF vars
<1>18. QED
  BY <1>1, <1>2, <1>3, <1>4, <1>5, <1>6, <1>7, <1>8, <1>9, <1>10, <1>11, <1>12, <1>13, <1>14, <1>15, <1>16, <1>17
  DEF Next, Call, Thread

LEMMA ServiceStep == ASSUME IInv, [Next]_vars PROVE ServiceInv'
<1> USE DEF IInv, TypeOK, Fatal, Undrained, calls, clients, undrained, sent, Admitted, Ends, Sample, Make, First, Hears, At, Holding, Over, Forget, LockInv, ThreadInv, ServiceInv, Lost
<1>1. ASSUME NEW t \in Task, Refuse(t) PROVE ServiceInv'
  BY <1>1, NoneIsNoTask DEF Refuse
<1>2. ASSUME NEW t \in Task, Unrendered(t) PROVE ServiceInv'
  BY <1>2, NoneIsNoTask DEF Unrendered
<1>3. ASSUME NEW t \in Task, Begin(t) PROVE ServiceInv'
  BY <1>3, NoneIsNoTask DEF Begin
<1>4. ASSUME NEW t \in Task, Enter(t) PROVE ServiceInv'
  BY <1>4, NoneIsNoTask DEF Enter
<1>5. ASSUME NEW t \in Task, TakeService(t) PROVE ServiceInv'
  BY <1>5, NoneIsNoTask DEF TakeService
<1>6. ASSUME NEW t \in Task, TakeSampler(t) PROVE ServiceInv'
  BY <1>6, NoneIsNoTask DEF TakeSampler
<1>7. ASSUME NEW t \in Task, MakingFails(t) PROVE ServiceInv'
  BY <1>7, NoneIsNoTask DEF MakingFails
<1>8. ASSUME NEW t \in Task, Undone(t) PROVE ServiceInv'
  BY <1>8, NoneIsNoTask DEF Undone
<1>9. ASSUME NEW t \in Task, UndoFails(t) PROVE ServiceInv'
  BY <1>9, NoneIsNoTask DEF UndoFails
<1>10. ASSUME NEW t \in Task, ThreadMakes(t) PROVE ServiceInv'
  BY <1>10, NoneIsNoTask DEF ThreadMakes
<1>11. ASSUME NEW t \in Task, ThreadFails(t) PROVE ServiceInv'
  BY <1>11, NoneIsNoTask DEF ThreadFails
<1>12. ASSUME NEW t \in Task, Answered(t) PROVE ServiceInv'
  BY <1>12, NoneIsNoTask DEF Answered
<1>13. CASE Cancel
  BY <1>13, NoneIsNoTask DEF Cancel
<1>14. CASE CloseNothing
  BY <1>14, NoneIsNoTask DEF CloseNothing
<1>15. CASE Close
  BY <1>15, NoneIsNoTask DEF Close
<1>16. CASE CloseFails
  BY <1>16, NoneIsNoTask DEF CloseFails
<1>17. CASE UNCHANGED vars
  BY <1>17, NoneIsNoTask DEF vars
<1>18. QED
  BY <1>1, <1>2, <1>3, <1>4, <1>5, <1>6, <1>7, <1>8, <1>9, <1>10, <1>11, <1>12, <1>13, <1>14, <1>15, <1>16, <1>17
  DEF Next, Call, Thread

LEMMA OwnerStep == ASSUME IInv, [Next]_vars PROVE OwnerInv'
<1> USE DEF IInv, TypeOK, Fatal, Undrained, calls, clients, undrained, sent, Admitted, Ends, Sample, Make, First, Hears, At, Holding, Over, Forget, LockInv, ThreadInv, ServiceInv, OwnerInv, Lost
<1>1. ASSUME NEW t \in Task, Refuse(t) PROVE OwnerInv'
  BY <1>1, NoneIsNoTask DEF Refuse
<1>2. ASSUME NEW t \in Task, Unrendered(t) PROVE OwnerInv'
  BY <1>2, NoneIsNoTask DEF Unrendered
<1>3. ASSUME NEW t \in Task, Begin(t) PROVE OwnerInv'
  BY <1>3, NoneIsNoTask DEF Begin
<1>4. ASSUME NEW t \in Task, Enter(t) PROVE OwnerInv'
  BY <1>4, NoneIsNoTask DEF Enter
<1>5. ASSUME NEW t \in Task, TakeService(t) PROVE OwnerInv'
  BY <1>5, NoneIsNoTask DEF TakeService
<1>6. ASSUME NEW t \in Task, TakeSampler(t) PROVE OwnerInv'
  BY <1>6, NoneIsNoTask DEF TakeSampler
<1>7. ASSUME NEW t \in Task, MakingFails(t) PROVE OwnerInv'
  BY <1>7, NoneIsNoTask DEF MakingFails
<1>8. ASSUME NEW t \in Task, Undone(t) PROVE OwnerInv'
  BY <1>8, NoneIsNoTask DEF Undone
<1>9. ASSUME NEW t \in Task, UndoFails(t) PROVE OwnerInv'
  BY <1>9, NoneIsNoTask DEF UndoFails
<1>10. ASSUME NEW t \in Task, ThreadMakes(t) PROVE OwnerInv'
  BY <1>10, NoneIsNoTask DEF ThreadMakes
<1>11. ASSUME NEW t \in Task, ThreadFails(t) PROVE OwnerInv'
  BY <1>11, NoneIsNoTask DEF ThreadFails
<1>12. ASSUME NEW t \in Task, Answered(t) PROVE OwnerInv'
  BY <1>12, NoneIsNoTask DEF Answered
<1>13. CASE Cancel
  BY <1>13, NoneIsNoTask DEF Cancel
<1>14. CASE CloseNothing
  BY <1>14, NoneIsNoTask DEF CloseNothing
<1>15. CASE Close
  BY <1>15, NoneIsNoTask DEF Close
<1>16. CASE CloseFails
  BY <1>16, NoneIsNoTask DEF CloseFails
<1>17. CASE UNCHANGED vars
  BY <1>17, NoneIsNoTask DEF vars
<1>18. QED
  BY <1>1, <1>2, <1>3, <1>4, <1>5, <1>6, <1>7, <1>8, <1>9, <1>10, <1>11, <1>12, <1>13, <1>14, <1>15, <1>16, <1>17
  DEF Next, Call, Thread

(* Only Begin adds to the calls, and there must be room.                   *)
LEMMA CallingGrows ==
  ASSUME IInv, [Next]_vars
  PROVE  \/ Calling' \subseteq Calling
         \/ \E t \in Task : Calling' \subseteq Calling \cup {t} /\ Cardinality(Calling) < Concurrency
<1> DEFINE Grows == \/ Calling' \subseteq Calling
                   \/ \E t \in Task : Calling' \subseteq Calling \cup {t} /\ Cardinality(Calling) < Concurrency
<1> USE DEF IInv, TypeOK, Fatal, Undrained, calls, clients, undrained, sent, Admitted, Ends, Sample, Make, First, Hears, At, Over, Forget, Calling, Pending
<1>1. ASSUME NEW t \in Task, Refuse(t) PROVE Grows
  BY <1>1 DEF Refuse
<1>2. ASSUME NEW t \in Task, Unrendered(t) PROVE Grows
  BY <1>2 DEF Unrendered
<1>3. ASSUME NEW t \in Task, Begin(t) PROVE Grows
  BY <1>3 DEF Begin
<1>4. ASSUME NEW t \in Task, Enter(t) PROVE Grows
  BY <1>4 DEF Enter
<1>5. ASSUME NEW t \in Task, TakeService(t) PROVE Grows
  BY <1>5 DEF TakeService
<1>6. ASSUME NEW t \in Task, TakeSampler(t) PROVE Grows
  BY <1>6 DEF TakeSampler
<1>7. ASSUME NEW t \in Task, MakingFails(t) PROVE Grows
  BY <1>7 DEF MakingFails
<1>8. ASSUME NEW t \in Task, Undone(t) PROVE Grows
  BY <1>8 DEF Undone
<1>9. ASSUME NEW t \in Task, UndoFails(t) PROVE Grows
  BY <1>9 DEF UndoFails
<1>10. ASSUME NEW t \in Task, ThreadMakes(t) PROVE Grows
  BY <1>10 DEF ThreadMakes
<1>11. ASSUME NEW t \in Task, ThreadFails(t) PROVE Grows
  BY <1>11 DEF ThreadFails
<1>12. ASSUME NEW t \in Task, Answered(t) PROVE Grows
  BY <1>12 DEF Answered
<1>13. CASE Cancel \/ CloseNothing \/ Close \/ CloseFails
  BY <1>13 DEF Cancel, CloseNothing, Close, CloseFails
<1>14. CASE UNCHANGED vars
  BY <1>14 DEF vars
<1>15. QED
  BY <1>1, <1>2, <1>3, <1>4, <1>5, <1>6, <1>7, <1>8, <1>9, <1>10, <1>11, <1>12, <1>13, <1>14
  DEF Next, Call, Thread

(* With the circuit open nobody comes to those that may still send.        *)
LEMMA OverrunShrinks ==
  ASSUME IInv, [Next]_vars, fatal # "none"
  PROVE  (late \cup Pending)' \subseteq late \cup Pending /\ fatal' # "none"
<1> DEFINE Shrinks == (late \cup Pending)' \subseteq late \cup Pending /\ fatal' # "none"
<1> USE DEF IInv, TypeOK, Fatal, Undrained, calls, clients, undrained, sent, Admitted, Ends, Sample, Make, First, Hears, At, Over, Forget, Calling, Pending
<1>1. ASSUME NEW t \in Task, Refuse(t) PROVE Shrinks
  BY <1>1 DEF Refuse
<1>2. ASSUME NEW t \in Task, Unrendered(t) PROVE Shrinks
  BY <1>2 DEF Unrendered
<1>3. ASSUME NEW t \in Task, Begin(t) PROVE Shrinks
  BY <1>3 DEF Begin
<1>4. ASSUME NEW t \in Task, Enter(t) PROVE Shrinks
  BY <1>4 DEF Enter
<1>5. ASSUME NEW t \in Task, TakeService(t) PROVE Shrinks
  BY <1>5 DEF TakeService
<1>6. ASSUME NEW t \in Task, TakeSampler(t) PROVE Shrinks
  BY <1>6 DEF TakeSampler
<1>7. ASSUME NEW t \in Task, MakingFails(t) PROVE Shrinks
  BY <1>7 DEF MakingFails
<1>8. ASSUME NEW t \in Task, Undone(t) PROVE Shrinks
  BY <1>8 DEF Undone
<1>9. ASSUME NEW t \in Task, UndoFails(t) PROVE Shrinks
  BY <1>9 DEF UndoFails
<1>10. ASSUME NEW t \in Task, ThreadMakes(t) PROVE Shrinks
  BY <1>10 DEF ThreadMakes
<1>11. ASSUME NEW t \in Task, ThreadFails(t) PROVE Shrinks
  BY <1>11 DEF ThreadFails
<1>12. ASSUME NEW t \in Task, Answered(t) PROVE Shrinks
  BY <1>12 DEF Answered
<1>13. CASE Cancel \/ CloseNothing \/ Close \/ CloseFails
  BY <1>13 DEF Cancel, CloseNothing, Close, CloseFails
<1>14. CASE UNCHANGED vars
  BY <1>14 DEF vars
<1>15. QED
  BY <1>1, <1>2, <1>3, <1>4, <1>5, <1>6, <1>7, <1>8, <1>9, <1>10, <1>11, <1>12, <1>13, <1>14
  DEF Next, Call, Thread

(* The call that opens the circuit sends no more.                          *)
LEMMA CircuitOpens ==
  ASSUME IInv, [Next]_vars, fatal = "none"
  PROVE  /\ late' = {}
         /\ fatal' # "none" => \E t \in Calling : Pending' \subseteq Calling \ {t}
<1> DEFINE Opens ==
             /\ late' = {}
             /\ fatal' # "none" => \E t \in Calling : Pending' \subseteq Calling \ {t}
<1> USE DEF CircuitInv, IInv, TypeOK, Fatal, Undrained, calls, clients, undrained, sent, Admitted, Ends, Sample, Make, First, Hears, At, Over, Forget, Calling, Pending
<1>1. ASSUME NEW t \in Task, Refuse(t) PROVE Opens
  BY <1>1 DEF Refuse
<1>2. ASSUME NEW t \in Task, Unrendered(t) PROVE Opens
  BY <1>2 DEF Unrendered
<1>3. ASSUME NEW t \in Task, Begin(t) PROVE Opens
  BY <1>3 DEF Begin
<1>4. ASSUME NEW t \in Task, Enter(t) PROVE Opens
  BY <1>4 DEF Enter
<1>5. ASSUME NEW t \in Task, TakeService(t) PROVE Opens
  BY <1>5 DEF TakeService
<1>6. ASSUME NEW t \in Task, TakeSampler(t) PROVE Opens
  BY <1>6 DEF TakeSampler
<1>7. ASSUME NEW t \in Task, MakingFails(t) PROVE Opens
  BY <1>7 DEF MakingFails
<1>8. ASSUME NEW t \in Task, Undone(t) PROVE Opens
  BY <1>8 DEF Undone
<1>9. ASSUME NEW t \in Task, UndoFails(t) PROVE Opens
  BY <1>9 DEF UndoFails
<1>10. ASSUME NEW t \in Task, ThreadMakes(t) PROVE Opens
  BY <1>10 DEF ThreadMakes
<1>11. ASSUME NEW t \in Task, ThreadFails(t) PROVE Opens
  BY <1>11 DEF ThreadFails
<1>12. ASSUME NEW t \in Task, Answered(t) PROVE Opens
  BY <1>12 DEF Answered
<1>13. CASE Cancel \/ CloseNothing \/ Close \/ CloseFails
  BY <1>13 DEF Cancel, CloseNothing, Close, CloseFails
<1>14. CASE UNCHANGED vars
  BY <1>14 DEF vars
<1>15. QED
  BY <1>1, <1>2, <1>3, <1>4, <1>5, <1>6, <1>7, <1>8, <1>9, <1>10, <1>11, <1>12, <1>13, <1>14
  DEF Next, Call, Thread

(* Only a call that ends with such a status opens the circuit.             *)
LEMMA OpenedStep == ASSUME IInv, [Next]_vars PROVE OpenedByFatal'
<1> USE DEF IInv, TypeOK, Fatal, Undrained, calls, clients, undrained, sent, Admitted, Ends, Sample, Make, First, Hears, At, Holding, Over, Forget, OpenedByFatal, ThreadInv, Lost
<1>1. ASSUME NEW t \in Task, Refuse(t) PROVE OpenedByFatal'
  BY <1>1 DEF Refuse
<1>2. ASSUME NEW t \in Task, Unrendered(t) PROVE OpenedByFatal'
  BY <1>2 DEF Unrendered
<1>3. ASSUME NEW t \in Task, Begin(t) PROVE OpenedByFatal'
  BY <1>3 DEF Begin
<1>4. ASSUME NEW t \in Task, Enter(t) PROVE OpenedByFatal'
  BY <1>4 DEF Enter
<1>5. ASSUME NEW t \in Task, TakeService(t) PROVE OpenedByFatal'
  BY <1>5 DEF TakeService
<1>6. ASSUME NEW t \in Task, TakeSampler(t) PROVE OpenedByFatal'
  BY <1>6 DEF TakeSampler
<1>7. ASSUME NEW t \in Task, MakingFails(t) PROVE OpenedByFatal'
  BY <1>7 DEF MakingFails
<1>8. ASSUME NEW t \in Task, Undone(t) PROVE OpenedByFatal'
  BY <1>8 DEF Undone
<1>9. ASSUME NEW t \in Task, UndoFails(t) PROVE OpenedByFatal'
  BY <1>9 DEF UndoFails
<1>10. ASSUME NEW t \in Task, ThreadMakes(t) PROVE OpenedByFatal'
  BY <1>10 DEF ThreadMakes
<1>11. ASSUME NEW t \in Task, ThreadFails(t) PROVE OpenedByFatal'
  BY <1>11 DEF ThreadFails
<1>12. ASSUME NEW t \in Task, Answered(t) PROVE OpenedByFatal'
  BY <1>12 DEF Answered
<1>13. CASE Cancel
  BY <1>13 DEF Cancel
<1>14. CASE CloseNothing
  BY <1>14 DEF CloseNothing
<1>15. CASE Close
  BY <1>15 DEF Close
<1>16. CASE CloseFails
  BY <1>16 DEF CloseFails
<1>17. CASE UNCHANGED vars
  BY <1>17 DEF vars
<1>18. QED
  BY <1>1, <1>2, <1>3, <1>4, <1>5, <1>6, <1>7, <1>8, <1>9, <1>10, <1>11, <1>12, <1>13, <1>14, <1>15, <1>16, <1>17
  DEF Next, Call, Thread

LEMMA SubsetsAreSmaller ==
  ASSUME NEW S, NEW T \in SUBSET Task, S \subseteq T
  PROVE  /\ IsFiniteSet(S) /\ IsFiniteSet(T)
         /\ Cardinality(S) \in Nat /\ Cardinality(T) \in Nat
         /\ Cardinality(S) <= Cardinality(T)
<1>1. IsFiniteSet(T)
  BY FS_Subset, ProviderAssumption
<1>2. IsFiniteSet(S) /\ Cardinality(S) <= Cardinality(T)
  BY <1>1, FS_Subset
<1>3. QED
  BY <1>1, <1>2, FS_CardinalityType

LEMMA CircuitStep == ASSUME IInv, [Next]_vars PROVE CircuitInv'
<1>1. Calling \in SUBSET Task /\ Pending \subseteq Calling /\ late \in SUBSET Task
  BY DEF Calling, Pending, At, IInv, TypeOK
<1>2. Concurrency \in Nat /\ Cardinality(Calling) <= Concurrency
  BY ProviderAssumption DEF IInv, CircuitInv
<1>3. Cardinality(Calling)' <= Concurrency
  <2>1. CASE Calling' \subseteq Calling
    <3>1. Cardinality(Calling') <= Cardinality(Calling)
          /\ Cardinality(Calling') \in Nat /\ Cardinality(Calling) \in Nat
      BY <1>1, <2>1, SubsetsAreSmaller
    <3>2. QED
      BY <1>2, <3>1
  <2>2. ASSUME NEW t \in Task, Calling' \subseteq Calling \cup {t},
               Cardinality(Calling) < Concurrency
        PROVE  Cardinality(Calling)' <= Concurrency
    <3>1. IsFiniteSet(Calling) /\ Cardinality(Calling) \in Nat
      BY <1>1, SubsetsAreSmaller
    <3>2. Cardinality(Calling \cup {t}) <= Cardinality(Calling) + 1
      BY <3>1, FS_AddElement
    <3>3. Calling \cup {t} \in SUBSET Task
      BY <1>1
    <3>4. Cardinality(Calling') <= Cardinality(Calling \cup {t})
          /\ Cardinality(Calling') \in Nat /\ Cardinality(Calling \cup {t}) \in Nat
      BY <2>2, <3>3, SubsetsAreSmaller
    <3>5. QED
      BY <1>2, <2>2, <3>1, <3>2, <3>4
  <2>3. QED
    BY <2>1, <2>2, CallingGrows
<1>4. CASE fatal = "none"
  <2>1. late' = {}
    BY <1>4, CircuitOpens
  <2>2. ASSUME fatal' # "none" PROVE Cardinality(late \cup Pending)' < Concurrency
    <3>1. PICK t \in Calling : Pending' \subseteq Calling \ {t}
      BY <1>4, <2>2, CircuitOpens
    <3>2. IsFiniteSet(Calling) /\ Cardinality(Calling) \in Nat
      BY <1>1, SubsetsAreSmaller
    <3>3. Cardinality(Calling \ {t}) = Cardinality(Calling) - 1
      BY <3>2, FS_RemoveElement
    <3>4. Calling \ {t} \in SUBSET Task
      BY <1>1
    <3>5. Cardinality(Pending') <= Cardinality(Calling \ {t}) /\ Cardinality(Pending') \in Nat
      BY <3>1, <3>4, SubsetsAreSmaller
    <3>6. (late \cup Pending)' = Pending'
      BY <2>1
    <3>7. QED
      BY <1>2, <3>2, <3>3, <3>5, <3>6
  <2>3. QED
    BY <1>3, <2>1, <2>2 DEF CircuitInv
<1>5. CASE fatal # "none"
  <2>1. (late \cup Pending)' \subseteq late \cup Pending /\ fatal' # "none"
    BY <1>5, OverrunShrinks
  <2>2. late \cup Pending \in SUBSET Task
    BY <1>1
  <2>3. Cardinality((late \cup Pending)') <= Cardinality(late \cup Pending)
        /\ Cardinality((late \cup Pending)') \in Nat /\ Cardinality(late \cup Pending) \in Nat
    BY <2>1, <2>2, SubsetsAreSmaller
  <2>4. Cardinality(late \cup Pending) < Concurrency
    BY <1>5 DEF IInv, CircuitInv
  <2>5. QED
    BY <1>2, <1>3, <2>1, <2>3, <2>4 DEF CircuitInv
<1>6. QED
  BY <1>4, <1>5

-----------------------------------------------------------------------------
(* The results.                                                            *)

(* The invariant, whatever fails and whenever the run is cancelled.        *)
THEOREM InvariantHolds == Spec => []IInv
<1>1. ASSUME Init PROVE IInv
  <2>1. TypeOK /\ LockInv /\ ThreadInv /\ OwnedInv /\ AloneInv /\ ServiceInv /\ OwnerInv
    /\ OpenedByFatal
    BY <1>1, NoneIsNoTask
    DEF Init, TypeOK, LockInv, ThreadInv, OwnedInv, AloneInv, ServiceInv, OwnerInv,
        OpenedByFatal, Holding, At, Making, Lost, Fatal, Undrained
  <2>2. Calling = {}
    BY <1>1 DEF Init, Calling, At
  <2>3. CircuitInv
    BY <1>1, <2>2, FS_EmptySet, ProviderAssumption DEF Init, CircuitInv
  <2>4. QED
    BY <2>1, <2>3 DEF IInv
<1>2. IInv /\ [Next]_vars => IInv'
  BY TypeStep, LockStep, ThreadStep, OwnedStep, AloneStep, ServiceStep, OwnerStep,
     CircuitStep, OpenedStep DEF IInv
<1>3. QED
  BY <1>1, <1>2, PTL DEF Spec

(* The calls, their threads and the clients stay well formed.              *)
THEOREM ProviderTypes == Spec => []TypeOK
BY InvariantHolds, PTL DEF IInv

(* The circuit opens if, and only if, some call ends with a non-retryable  *)
(* status (provider.py:679-694), be it of a making, of a sample or of a    *)
(* drain: retryable errors, drains that follow them and cancelled calls    *)
(* leave it closed, and it never refuses a call without such a cause.      *)
THEOREM CircuitHasACause == Spec => []OpenedByFatal
BY InvariantHolds, PTL DEF IInv

(* A run makes one sampler, however many calls arrive together.            *)
THEOREM OneClientIsMade == Spec => []OneClient
<1>1. ASSUME IInv PROVE OneClient
  <2> DEFINE S == {t \in Task : t \in pollers \/ thread[t] = "sampler"}
  <2>1. \A t, u \in S : t = u
    BY <1>1 DEF IInv, AloneInv, Making
  <2>2. S = {} \/ \E t \in Task : S = {t}
    BY <2>1
  <2> HIDE DEF S
  <2>3. CASE S = {}
    BY <2>3, FS_EmptySet DEF OneClient, S
  <2>4. ASSUME NEW t \in Task, S = {t} PROVE OneClient
    <3>1. Cardinality({t}) = 1
      BY FS_Singleton
    <3>2. QED
      BY <2>4, <3>1 DEF OneClient, S
  <2>5. QED
    BY <2>2, <2>3, <2>4
<1>2. QED
  BY <1>1, InvariantHolds, PTL

(* With the circuit open fewer calls than the concurrency are still sent.  *)
THEOREM OverrunHasABound == Spec => []OverrunIsBounded
<1>1. ASSUME IInv PROVE OverrunIsBounded
  <2>1. late \cup Pending \in SUBSET Task /\ Concurrency \in Nat \ {0}
    BY <1>1, ProviderAssumption DEF IInv, TypeOK, Pending, At
  <2>2. CASE fatal = "none"
    BY <1>1, <2>1, <2>2, FS_EmptySet DEF IInv, CircuitInv, OverrunIsBounded
  <2>3. CASE fatal # "none"
    <3>1. Cardinality(late) <= Cardinality(late \cup Pending)
          /\ Cardinality(late) \in Nat /\ Cardinality(late \cup Pending) \in Nat
      BY <2>1, SubsetsAreSmaller
    <3>2. QED
      BY <1>1, <2>1, <2>3, <3>1 DEF IInv, CircuitInv, OverrunIsBounded
  <2>4. QED
    BY <2>2, <2>3
<1>2. QED
  BY <1>1, InvariantHolds, PTL

(* A run that closes without a cancelled call or a failed drain leaves     *)
(* neither sampler nor service behind.                                     *)
THEOREM ClosedIsDrained == Spec => []NothingIsLeft
<1>1. ASSUME IInv PROVE NothingIsLeft
  BY <1>1 DEF IInv, TypeOK, LockInv, OwnerInv, Lost, Fatal, Undrained, NothingIsLeft
<1>2. QED
  BY <1>1, InvariantHolds, PTL
=============================================================================
