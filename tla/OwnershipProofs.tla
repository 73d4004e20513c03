-------------------------- MODULE OwnershipProofs --------------------------
(***************************************************************************)
(* Runs launched through the supervisor never share a directory and never  *)
(* lose a record, and neither do runs of v2, for any number of processes.  *)
(* The inductive invariants are SupervisedInv (whoever is past the         *)
(* supervisor's lock holds it alone, so that what it has seen of           *)
(* predictions.jsonl is still so) and V2Inv (the same of the directory,    *)
(* which it has found empty).                                              *)
(***************************************************************************)
EXTENDS OutputOwnership, TLAPS

(* A function that is changed at one place.                                *)
LEMMA ChangedThere ==
  ASSUME NEW S, NEW f \in [S -> BOOLEAN], NEW s \in S, NEW b
  PROVE  [f EXCEPT ![s] = b][s] = b
BY Zenon

USE DEF At, Goto, Continue, Place, ChildAt, SupervisorAt, CliOwnerAt,
        V2OwnerAt, V2LockedAt, V2At, OwnerAt, root, private, TypeOK

(* The invariant holds of an empty directory that nobody uses.             *)
LEMMA CapturedInit == Init => SupervisedInv
BY NoneAssumption
DEF Init, SupervisedInv, LogInv, LockInv, RecordsInv, RecordsKnown

(* A process that ends keeps the types.                                    *)
LEMMA GoneTypes ==
  ASSUME TypeOK, NEW p \in Process, Gone(p), litter' \in BOOLEAN,
         UNCHANGED <<log, dirs, records, works>>
  PROVE  TypeOK'
BY DEF Gone

(* Every step keeps the types; what a resumed run loads is never None,     *)
(* because it equals the set of workbooks.                                 *)
LEMMA TypeStep == ASSUME TypeOK, [Next]_vars PROVE TypeOK'
<1>1. CASE UNCHANGED vars
  BY <1>1 DEF vars
<1>2. ASSUME NEW p \in Process, Start(p) PROVE TypeOK'
  BY <1>2 DEF Start, FirstPlace
<1>3. ASSUME NEW p \in Process, Dies(p) PROVE TypeOK'
  BY <1>3, GoneTypes DEF Dies
<1>4. ASSUME NEW p \in Process, Required(p), Step(p) PROVE TypeOK'
  <2>1. CASE SupervisorChecks(p)
    BY <1>4, <2>1, NoneAssumption DEF SupervisorChecks
  <2>2. CASE SupervisorProbes(p)
    BY <1>4, <2>2, NoneAssumption DEF SupervisorProbes
  <2>3. CASE SupervisorCreatesLog(p)
    BY <1>4, <2>3, NoneAssumption DEF SupervisorCreatesLog, NewInode,
       LogRequired, Required
  <2>4. CASE SupervisorOpensLog(p)
    BY <1>4, <2>4, NoneAssumption DEF SupervisorOpensLog, OpenLog,
       LogRequired, Required
  <2>5. CASE SupervisorLocks(p)
    BY <1>4, <2>5, NoneAssumption DEF SupervisorLocks, Flock, Busy,
       LogRequired, Required
  <2>6. CASE ChecksRoot(p)
    BY <1>4, <2>6, NoneAssumption DEF ChecksRoot, EmptyRoot, RootRequired,
       Required
  <2>7. CASE Probes(p)
    BY <1>4, <2>7, NoneAssumption DEF Probes
  <2>8. CASE MakesDirectory(p, "outputs", "traces")
    BY <1>4, <2>8, NoneAssumption DEF MakesDirectory
  <2>9. CASE MakesDirectory(p, "traces", "predictions")
    BY <1>4, <2>9, NoneAssumption DEF MakesDirectory
  <2>10. CASE Looks(p)
    BY <1>4, <2>10, NoneAssumption DEF Looks
  <2>11. CASE CompletesDirectories(p)
    BY <1>4, <2>11, NoneAssumption DEF CompletesDirectories
  <2>12. CASE WritesEmptyPredictions(p)
    BY <1>4, <2>12, NoneAssumption DEF WritesEmptyPredictions
  <2>13. CASE ChecksAgain(p)
    BY <1>4, <2>13, NoneAssumption DEF ChecksAgain
  <2>14. CASE ProbesAgain(p)
    BY <1>4, <2>14, NoneAssumption DEF ProbesAgain
  <2>15. CASE LooksForLog(p)
    BY <1>4, <2>15, NoneAssumption DEF LooksForLog
  <2>16. CASE BeginsLog(p)
    BY <1>4, <2>16, NoneAssumption DEF BeginsLog
  <2>17. CASE WritesLog(p)
    BY <1>4, <2>17, NoneAssumption DEF WritesLog, NewInode
  <2>18. CASE Inherits(p)
    BY <1>4, <2>18, NoneAssumption DEF Inherits
  <2>19. CASE Opens(p)
    BY <1>4, <2>19, NoneAssumption DEF Opens, OpenLog, LogRequired
  <2>20. CASE Compares(p)
    BY <1>4, <2>20, NoneAssumption DEF Compares
  <2>21. CASE Locks(p)
    BY <1>4, <2>21, NoneAssumption DEF Locks, Flock, Busy, LogRequired
  <2>22. CASE Loads(p)
    <3>1. CASE mode[p] = "resume"
      <4>1. records = works
        BY <3>1, <1>4, <2>22 DEF Loads, Required
      <4>2. QED
        BY <3>1, <4>1, <2>22 DEF Loads
    <3>2. CASE mode[p] # "resume"
      BY <3>2, <2>22 DEF Loads
    <3>3. QED
      BY <3>1, <3>2
  <2>23. CASE \E t \in Task : FinishesTask(p, t)
    BY <1>4, <2>23, NoneAssumption DEF FinishesTask
  <2>24. CASE Checkpoints(p)
    BY <1>4, <2>24, NoneAssumption DEF Checkpoints
  <2>25. CASE Finishes(p)
    BY <2>25, GoneTypes DEF Finishes, End
  <2>26. CASE V2Opens(p)
    BY <1>4, <2>26 DEF V2Opens
  <2>27. CASE V2Locks(p)
    BY <1>4, <2>27 DEF V2Locks, Flock
  <2>28. CASE V2Checks(p)
    BY <1>4, <2>28 DEF V2Checks
  <2>29. CASE V2Probes(p)
    BY <1>4, <2>29 DEF V2Probes
  <2>30. CASE V2Prepares(p)
    BY <1>4, <2>30 DEF V2Prepares
  <2>31. CASE V2WritesLog(p)
    BY <1>4, <2>31 DEF V2WritesLog, NewInode
  <2>32. CASE \E t \in Task : V2FinishesTask(p, t)
    BY <1>4, <2>32 DEF V2FinishesTask
  <2>33. CASE V2BeginsToPublish(p)
    BY <1>4, <2>33 DEF V2BeginsToPublish
  <2>34. CASE V2WritesPredictions(p)
    BY <1>4, <2>34 DEF V2WritesPredictions
  <2>35. QED
    BY <1>4, <2>1, <2>2, <2>3, <2>4, <2>5, <2>6, <2>7, <2>8, <2>9, <2>10,
       <2>11, <2>12, <2>13, <2>14, <2>15, <2>16, <2>17, <2>18, <2>19, <2>20,
       <2>21, <2>22, <2>23, <2>24, <2>25, <2>26, <2>27, <2>28, <2>29, <2>30,
       <2>31, <2>32, <2>33, <2>34 DEF Step
<1>5. ASSUME NEW p \in Process, Fails(p) PROVE TypeOK'
  BY <1>5, GoneTypes DEF Fails, End
<1>6. QED
  BY <1>1, <1>2, <1>3, <1>4, <1>5 DEF Next

(* A captured process that ends leaves the others as they are.             *)
LEMMA GoneKeeps ==
  ASSUME SupervisedInv, TypeOK', NEW p \in Process, Gone(p),
         UNCHANGED <<log, dirs, records, works>>
  PROVE  SupervisedInv'
<1> USE DEF SupervisedInv, LogInv, LockInv, RecordsInv, RecordsKnown, Gone
<1>1. \A q \in Process : q # p =>
        /\ pc'[q] = pc[q] /\ launch'[q] = launch[q] /\ mode'[q] = mode[q]
        /\ fd'[q] = fd[q] /\ holding'[q] = holding[q] /\ absent'[q] = absent[q]
        /\ memory'[q] = memory[q]
  OBVIOUS
<1>2. /\ pc'[p] = "down" /\ ~holding'[p] /\ mode'[p] = None
  OBVIOUS
<1>3. LogInv'
  BY <1>1, <1>2
<1>4. LockInv'
  BY <1>1, <1>2
<1>5. RecordsInv'
  BY <1>1, <1>2, NoneAssumption
<1>6. QED
  BY <1>3, <1>4, <1>5

(* Every step of captured runs keeps the invariant: a supervisor leaves    *)
(* the records alone, and only one child runs at a time.                   *)
LEMMA CapturedStep ==
  ASSUME SupervisedOnly, SupervisedInv, [Next]_vars
  PROVE  SupervisedInv'
<1> USE DEF SupervisedInv, LogInv, LockInv, RecordsInv, RecordsKnown
<1>0. TypeOK'
  BY TypeStep
<1>1. CASE UNCHANGED vars
  BY <1>1, <1>0 DEF vars
<1>2. ASSUME NEW p \in Process, Start(p) PROVE SupervisedInv'
  <2>1. PICK m \in {"fresh", "resume"} :
          /\ launch' = [launch EXCEPT ![p] = "captured"]
          /\ mode' = [mode EXCEPT ![p] = m]
          /\ pc' = [pc EXCEPT ![p] = "sup_check"]
    BY <1>2 DEF Start, FirstPlace, SupervisedOnly
  <2>2. UNCHANGED <<root, fd, holding, absent, memory>> /\ pc[p] = "down"
    BY <1>2 DEF Start
  <2>3. LogInv'
    BY <2>1, <2>2, NoneAssumption
  <2>4. LockInv'
    BY <2>1, <2>2
  <2>5. RecordsInv'
    BY <2>1, <2>2
  <2>6. QED
    BY <1>0, <2>3, <2>4, <2>5
<1>3. ASSUME NEW p \in Process, Dies(p) PROVE SupervisedInv'
  BY <1>3, <1>0, GoneKeeps DEF Dies
<1>4. ASSUME NEW p \in Process, Required(p), Step(p) PROVE SupervisedInv'
  <2>1. CASE SupervisorChecks(p)
    BY <1>4, <2>1, <1>0, NoneAssumption DEF SupervisorChecks
  <2>2. CASE SupervisorProbes(p)
    BY <1>4, <2>2, <1>0, NoneAssumption DEF SupervisorProbes
  <2>3. CASE SupervisorCreatesLog(p)
    <3> USE <1>0, <1>4, <2>3, NoneAssumption DEF SupervisorCreatesLog,
            NewInode, LogRequired, Required
    <3>1. LogInv'
      OBVIOUS
    <3>2. LockInv'
      OBVIOUS
    <3>3. RecordsKnown(p)'
      OBVIOUS
    <3>4. ASSUME NEW q \in Process \ {p} PROVE RecordsKnown(q)'
      OBVIOUS
    <3>5. RecordsInv'
      BY <3>3, <3>4
    <3>6. QED
      BY <3>1, <3>2, <3>5
  <2>4. CASE SupervisorOpensLog(p)
    <3> USE <1>0, <1>4, <2>4, NoneAssumption DEF SupervisorOpensLog, OpenLog,
            LogRequired, Required
    <3>1. LogInv'
      OBVIOUS
    <3>2. LockInv'
      OBVIOUS
    <3>3. RecordsKnown(p)'
      OBVIOUS
    <3>4. ASSUME NEW q \in Process \ {p} PROVE RecordsKnown(q)'
      OBVIOUS
    <3>5. RecordsInv'
      BY <3>3, <3>4
    <3>6. QED
      BY <3>1, <3>2, <3>5
  <2>5. CASE SupervisorLocks(p)
    <3> USE <1>0, <1>4, <2>5, NoneAssumption DEF SupervisorLocks, Flock, Busy,
            LogRequired, Required
    <3>1. LogInv'
      OBVIOUS
    <3>2. LockInv'
      OBVIOUS
    <3>3. RecordsKnown(p)'
      OBVIOUS
    <3>4. ASSUME NEW q \in Process \ {p} PROVE RecordsKnown(q)'
      OBVIOUS
    <3>5. RecordsInv'
      BY <3>3, <3>4
    <3>6. QED
      BY <3>1, <3>2, <3>5
  <2>6. CASE ChecksRoot(p)
    <3> USE <1>0, <1>4, <2>6, NoneAssumption DEF ChecksRoot, EmptyRoot,
            RootRequired, Required
    <3>1. LogInv'
      OBVIOUS
    <3>2. LockInv'
      OBVIOUS
    <3>3. RecordsKnown(p)'
      OBVIOUS
    <3>4. ASSUME NEW q \in Process \ {p} PROVE RecordsKnown(q)'
      OBVIOUS
    <3>5. RecordsInv'
      BY <3>3, <3>4
    <3>6. QED
      BY <3>1, <3>2, <3>5
  <2>7. CASE Probes(p)
    BY <1>4, <2>7, <1>0, NoneAssumption DEF Probes
  <2>8. CASE MakesDirectory(p, "outputs", "traces")
    <3> USE <1>0, <1>4, <2>8, NoneAssumption DEF MakesDirectory
    <3>1. LogInv'
      OBVIOUS
    <3>2. LockInv'
      OBVIOUS
    <3>3. RecordsKnown(p)'
      OBVIOUS
    <3>4. ASSUME NEW q \in Process \ {p} PROVE RecordsKnown(q)'
      OBVIOUS
    <3>5. RecordsInv'
      BY <3>3, <3>4
    <3>6. QED
      BY <3>1, <3>2, <3>5
  <2>9. CASE MakesDirectory(p, "traces", "predictions")
    <3> USE <1>0, <1>4, <2>9, NoneAssumption DEF MakesDirectory
    <3>1. LogInv'
      OBVIOUS
    <3>2. LockInv'
      OBVIOUS
    <3>3. RecordsKnown(p)'
      OBVIOUS
    <3>4. ASSUME NEW q \in Process \ {p} PROVE RecordsKnown(q)'
      OBVIOUS
    <3>5. RecordsInv'
      BY <3>3, <3>4
    <3>6. QED
      BY <3>1, <3>2, <3>5
  <2>10. CASE Looks(p)
    <3>0. absent'[p] = (records = None)
      <4>1. absent \in [Process -> BOOLEAN]
        BY DEF SupervisedInv
      <4>2. absent' = [absent EXCEPT ![p] = (records = None)]
        BY <2>10 DEF Looks
      <4>3. [absent EXCEPT ![p] = (records = None)][p] = (records = None)
        BY <4>1, ChangedThere
      <4>4. QED
        BY <4>2, <4>3, Zenon
    <3> USE <1>0, <1>4, <2>10, NoneAssumption DEF Looks
    <3>1. LogInv'
      OBVIOUS
    <3>2. LockInv'
      OBVIOUS
    <3>3. RecordsKnown(p)'
      <4>1. /\ mode[p] = "resume" /\ mode' = mode
            /\ pc'[p] = "mkdirs" /\ records' = records
        OBVIOUS
      <4>2. QED
        BY <3>0, <4>1 DEF RecordsKnown
    <3>4. ASSUME NEW q \in Process \ {p} PROVE RecordsKnown(q)'
      OBVIOUS
    <3>5. RecordsInv'
      BY <3>3, <3>4
    <3>6. QED
      BY <3>1, <3>2, <3>5
  <2>11. CASE CompletesDirectories(p)
    <3> USE <1>0, <1>4, <2>11, NoneAssumption DEF CompletesDirectories
    <3>1. LogInv'
      OBVIOUS
    <3>2. LockInv'
      OBVIOUS
    <3>3. RecordsKnown(p)'
      OBVIOUS
    <3>4. ASSUME NEW q \in Process \ {p} PROVE RecordsKnown(q)'
      OBVIOUS
    <3>5. RecordsInv'
      BY <3>3, <3>4
    <3>6. QED
      BY <3>1, <3>2, <3>5
  <2>12. CASE WritesEmptyPredictions(p)
    BY <1>4, <2>12, <1>0, NoneAssumption DEF WritesEmptyPredictions
  <2>13. CASE ChecksAgain(p)
    BY <1>4, <2>13, <1>0, NoneAssumption DEF ChecksAgain
  <2>14. CASE ProbesAgain(p)
    <3> USE <1>0, <1>4, <2>14, NoneAssumption DEF ProbesAgain
    <3>1. LogInv'
      OBVIOUS
    <3>2. LockInv'
      OBVIOUS
    <3>3. RecordsKnown(p)'
      OBVIOUS
    <3>4. ASSUME NEW q \in Process \ {p} PROVE RecordsKnown(q)'
      OBVIOUS
    <3>5. RecordsInv'
      BY <3>3, <3>4
    <3>6. QED
      BY <3>1, <3>2, <3>5
  <2>15. CASE LooksForLog(p)
    <3> USE <1>0, <1>4, <2>15, NoneAssumption DEF LooksForLog
    <3>1. LogInv'
      OBVIOUS
    <3>2. LockInv'
      OBVIOUS
    <3>3. RecordsKnown(p)'
      OBVIOUS
    <3>4. ASSUME NEW q \in Process \ {p} PROVE RecordsKnown(q)'
      OBVIOUS
    <3>5. RecordsInv'
      BY <3>3, <3>4
    <3>6. QED
      BY <3>1, <3>2, <3>5
  <2>16. CASE BeginsLog(p)
    BY <1>4, <2>16, <1>0, NoneAssumption DEF BeginsLog
  <2>17. CASE WritesLog(p)
    BY <1>4, <2>17, <1>0, NoneAssumption DEF WritesLog, NewInode
  <2>18. CASE Inherits(p)
    BY <1>4, <2>18, <1>0, NoneAssumption DEF Inherits
  <2>19. CASE Opens(p)
    BY <1>4, <2>19, <1>0, NoneAssumption DEF Opens, OpenLog, LogRequired
  <2>20. CASE Compares(p)
    BY <1>4, <2>20, <1>0, NoneAssumption DEF Compares
  <2>21. CASE Locks(p)
    BY <1>4, <2>21, <1>0, NoneAssumption DEF Locks, Flock, Busy, LogRequired
  <2>22. CASE Loads(p)
    BY <1>4, <2>22, <1>0, NoneAssumption DEF Loads, Required
  <2>23. CASE \E t \in Task : FinishesTask(p, t)
    BY <1>4, <2>23, <1>0, NoneAssumption DEF FinishesTask
  <2>24. CASE Checkpoints(p)
    BY <1>4, <2>24, <1>0, NoneAssumption DEF Checkpoints
  <2>25. CASE Finishes(p)
    BY <2>25, <1>0, GoneKeeps DEF Finishes, End
  <2>26. CASE \/ V2Opens(p) \/ V2Locks(p) \/ V2Checks(p) \/ V2Probes(p)
               \/ V2Prepares(p) \/ V2WritesLog(p) \/ V2BeginsToPublish(p)
               \/ V2WritesPredictions(p) \/ \E t \in Task : V2FinishesTask(p, t)
    BY <2>26 DEF V2Opens, V2Locks, V2Checks, V2Probes, V2Prepares, V2WritesLog,
       V2BeginsToPublish, V2WritesPredictions, V2FinishesTask
  <2>27. QED
    BY <1>4, <2>1, <2>2, <2>3, <2>4, <2>5, <2>6, <2>7, <2>8, <2>9, <2>10,
       <2>11, <2>12, <2>13, <2>14, <2>15, <2>16, <2>17, <2>18, <2>19, <2>20,
       <2>21, <2>22, <2>23, <2>24, <2>25, <2>26 DEF Step
<1>5. ASSUME NEW p \in Process, Fails(p) PROVE SupervisedInv'
  BY <1>5, <1>0, GoneKeeps DEF Fails, End
<1>6. QED
  BY <1>1, <1>2, <1>3, <1>4, <1>5 DEF Next

(* How runs are started in a directory is the operator's choice, and does  *)
(* not change.                                                             *)
LEMMA LaunchesStay == ASSUME [Next]_vars PROVE UNCHANGED launches
BY DEF vars, Next, Step, Start, Fails, End, Gone, Dies, SupervisorChecks,
   SupervisorProbes, SupervisorCreatesLog, SupervisorOpensLog,
   SupervisorLocks, ChecksRoot, Probes, MakesDirectory, Looks,
   CompletesDirectories, WritesEmptyPredictions, ChecksAgain, ProbesAgain,
   LooksForLog, BeginsLog, WritesLog, Inherits, Opens, OpenLog, Compares,
   Locks, Flock, Loads, FinishesTask, Checkpoints, Finishes, V2Opens, V2Locks, V2Checks, V2Probes, V2Prepares,
   V2WritesLog, V2FinishesTask, V2BeginsToPublish, V2WritesPredictions

(* A run of v2 finds nothing of any other run where it looks, and while it *)
(* holds the directory nobody else gets past its lock.                     *)
LEMMA V2Step ==
  ASSUME V2Only, TypeOK, V2Inv, [Next]_vars
  PROVE  V2Inv'
<1> USE DEF V2Inv
<1>1. CASE UNCHANGED vars
  BY <1>1 DEF vars
<1>2. ASSUME NEW p \in Process, Start(p) PROVE V2Inv'
  <2>1. pc' = [pc EXCEPT ![p] = "v2_open"] /\ pc[p] = "down"
    BY <1>2 DEF Start, FirstPlace, V2Only
  <2>2. QED
    BY <1>2, <2>1 DEF Start
<1>3. ASSUME NEW p \in Process, Gone(p), UNCHANGED records PROVE V2Inv'
  BY <1>3 DEF Gone
<1>4. ASSUME NEW p \in Process, Required(p), Step(p), ~Finishes(p) PROVE V2Inv'
  <2>1. \/ V2Opens(p) \/ V2Locks(p) \/ V2Checks(p) \/ V2Probes(p) \/ V2Prepares(p)
        \/ V2WritesLog(p) \/ (\E t \in Task : V2FinishesTask(p, t))
        \/ V2BeginsToPublish(p) \/ V2WritesPredictions(p)
    BY <1>4 DEF Step, SupervisorChecks, SupervisorProbes, SupervisorCreatesLog,
       SupervisorOpensLog, SupervisorLocks, ChecksRoot, Probes, MakesDirectory, Looks,
       CompletesDirectories, WritesEmptyPredictions, ChecksAgain, ProbesAgain,
       LooksForLog, BeginsLog, WritesLog, Inherits, Opens, Compares, Locks, Loads,
       FinishesTask, Checkpoints
  <2>2. CASE V2Opens(p)
    BY <2>2 DEF V2Opens
  <2>3. CASE V2Locks(p)
    <3>1. ~Busy(p)
      BY <1>4, <2>3 DEF V2Locks, Required, LogRequired
    <3>2. \A q \in Process : ~holding[q]
      BY <2>3, <3>1 DEF V2Locks, Busy
    <3>3. QED
      BY <2>3, <3>2 DEF V2Locks, Flock
  <2>4. CASE V2Checks(p)
    <3>1. records = None
      BY <1>4, <2>4 DEF V2Checks, Required, RootRequired, EmptyRoot
    <3>2. QED
      BY <2>4, <3>1 DEF V2Checks
  <2>5. CASE V2Probes(p) \/ V2Prepares(p) \/ V2WritesLog(p) \/ V2BeginsToPublish(p)
    BY <2>5 DEF V2Probes, V2Prepares, V2WritesLog, V2BeginsToPublish
  <2>6. CASE \E t \in Task : V2FinishesTask(p, t)
    BY <2>6 DEF V2FinishesTask
  <2>7. CASE V2WritesPredictions(p)
    BY <2>7 DEF V2WritesPredictions
  <2>8. QED
    BY <2>1, <2>2, <2>3, <2>4, <2>5, <2>6, <2>7
<1>5. QED
  BY <1>1, <1>2, <1>3, <1>4 DEF Next, Fails, Dies, Finishes, End

(* The invariant of captured runs holds in every reachable state of a      *)
(* directory in which runs are captured.                                   *)
THEOREM CapturedInvariant == Spec => []CapturedInv
<1>1. Init => CapturedInv
  BY CapturedInit DEF SupervisedInv, CapturedInv
<1>2. ASSUME CapturedInv, [Next]_vars PROVE CapturedInv'
  <2>1. TypeOK'
    BY <1>2, TypeStep DEF CapturedInv
  <2>2. UNCHANGED launches
    BY <1>2, LaunchesStay
  <2>3. ASSUME SupervisedOnly' PROVE SupervisedInv'
    BY <1>2, <2>2, <2>3, CapturedStep DEF CapturedInv, SupervisedOnly
  <2>4. QED
    BY <2>1, <2>3 DEF CapturedInv
<1>3. QED
  BY <1>1, <1>2, PTL DEF Spec

(* The invariant of v2 holds in every reachable state of a directory in    *)
(* which runs are of v2.                                                   *)
THEOREM V2Invariant == Spec => []FreshInv
<1>1. Init => FreshInv
  BY CapturedInit, NoneAssumption DEF SupervisedInv, FreshInv, V2Inv, Init
<1>2. ASSUME FreshInv, [Next]_vars PROVE FreshInv'
  <2>1. TypeOK'
    BY <1>2, TypeStep DEF FreshInv
  <2>2. UNCHANGED launches
    BY <1>2, LaunchesStay
  <2>3. ASSUME V2Only' PROVE V2Inv'
    BY <1>2, <2>2, <2>3, V2Step DEF FreshInv, V2Only
  <2>4. QED
    BY <2>1, <2>3 DEF FreshInv
<1>3. QED
  BY <1>1, <1>2, PTL DEF Spec

(* However many runs of v2 are started in a directory, one at a time runs  *)
(* tasks there, and none after one has.                                    *)
THEOREM V2RunsAreAlone == Spec => [](V2Only => OneOwner)
<1>1. FreshInv => (V2Only => OneOwner)
  BY DEF FreshInv, V2Inv, OneOwner
<1>2. QED
  BY V2Invariant, <1>1, PTL

(* However many captured runs are started in a directory, one at a time    *)
(* runs tasks there: the lock of cli.py excludes every other.              *)
THEOREM CapturedRunsAreAlone == Spec => [](SupervisedOnly => OneOwner)
<1>1. CapturedInv => (SupervisedOnly => OneOwner)
  BY DEF CapturedInv, SupervisedInv, LogInv, LockInv, OneOwner
<1>2. QED
  BY CapturedInvariant, <1>1, PTL

(* The lock the owner holds is the lock of the file at run.log: nobody has *)
(* put another file there since (artifacts.py, exclusive_output_lock).     *)
THEOREM CapturedOwnersHoldTheLog == Spec => [](SupervisedOnly => OwnerHoldsLog)
<1>1. CapturedInv => (SupervisedOnly => OwnerHoldsLog)
  BY DEF CapturedInv, SupervisedInv, LockInv, LogInv, OwnerHoldsLog
<1>2. QED
  BY CapturedInvariant, <1>1, PTL

(* No step of a captured run takes a record away, neither the empty file   *)
(* that prepares a directory nor a checkpoint; and no run of v2 writes     *)
(* where there are records.                                                *)
THEOREM LockedRunsKeepRecords == Spec => RecordsAreKept
<1>1. CapturedInv /\ FreshInv /\ [Next]_vars =>
        [(SupervisedOnly \/ V2Only) /\ records # None =>
           records' # None /\ records \subseteq records']_records
  <2>1. SUFFICES ASSUME CapturedInv, FreshInv, SupervisedOnly \/ V2Only, Next,
                        records' # records, records # None
                 PROVE  records' # None /\ records \subseteq records'
    BY DEF vars
  <2>2. PICK p \in Process : \/ WritesEmptyPredictions(p) \/ Checkpoints(p)
                             \/ V2WritesPredictions(p)
    BY <2>1 DEF Next, Step, Start, Fails, End, Gone, Dies, SupervisorChecks,
       SupervisorProbes, SupervisorCreatesLog, SupervisorOpensLog,
       SupervisorLocks, ChecksRoot, Probes, MakesDirectory, Looks,
       CompletesDirectories, ChecksAgain, ProbesAgain, LooksForLog, BeginsLog,
       WritesLog, Inherits, Opens, OpenLog, Compares, Locks, Flock, Loads,
       FinishesTask, Finishes, V2Opens, V2Locks, V2Checks, V2Probes, V2Prepares,
       V2WritesLog, V2FinishesTask, V2BeginsToPublish
  <2>3. CASE SupervisedOnly
    <3> USE <2>1, <2>3 DEF CapturedInv, SupervisedInv, RecordsInv, RecordsKnown, LogInv
    <3>1. CASE WritesEmptyPredictions(p)
      BY <3>1 DEF WritesEmptyPredictions
    <3>2. CASE Checkpoints(p)
      BY <3>2, NoneAssumption DEF Checkpoints
    <3>3. CASE V2WritesPredictions(p)
      BY <3>3 DEF V2WritesPredictions
    <3>4. QED
      BY <2>2, <3>1, <3>2, <3>3
  <2>4. CASE V2Only
    BY <2>1, <2>2, <2>4 DEF FreshInv, V2Inv, WritesEmptyPredictions, Checkpoints,
       V2WritesPredictions
  <2>5. QED
    BY <2>1, <2>3, <2>4
<1>2. QED
  BY CapturedInvariant, V2Invariant, <1>1, PTL DEF RecordsAreKept, Spec
=============================================================================
