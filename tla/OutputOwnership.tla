-------------------------- MODULE OutputOwnership --------------------------
(***************************************************************************)
(* Who may write into an output directory.  A run is launched through the  *)
(* capture supervisor (formulabench/capture.py), which locks run.log       *)
(* before it starts the command line and lends it the locked descriptor,   *)
(* or directly (formulabench/cli.py, _run), which prepares the directory   *)
(* first and locks run.log afterwards; a run of v2 (formulabench/v2.py)    *)
(* locks the directory itself, before it looks at it.  The supervisor and  *)
(* its child are one process here: they share the open file, so the lock   *)
(* lasts until both are gone, and only the child writes.                   *)
(*                                                                         *)
(* A file created, checked or replaced is one step; whatever happens       *)
(* between two system calls can be interleaved with the other processes.   *)
(* What a run does under the lock is reduced to adding records (see        *)
(* RunCoordinator for the rest).                                           *)
(***************************************************************************)
EXTENDS FiniteSets

CONSTANTS
  Process,  \* concurrent attempts to use the directory
  Launches, \* in which ways runs are started in one directory
  Task,     \* the selected tasks
  Inode,    \* identities of the file run.log
  None      \* no file

ASSUME LaunchAssumption == Launches \subseteq SUBSET {"captured", "direct", "v2"}
ASSUME NoneAssumption ==
  /\ None \notin Inode \cup {"captured", "direct", "v2", "fresh", "resume", "root"}
  /\ "root" \notin Inode
  /\ \A done \in SUBSET Task : done # None

VARIABLES
  log,      \* the file at run.log
  dirs,     \* which of outputs/ and traces/ exist
  records,  \* the records in predictions.jsonl
  works,    \* the tasks with a workbook and a trace
  litter,   \* a killed process left a temporary file in the root
  pc,       \* where each process is
  launches, \* the ways in which runs are started in this directory
  launch,   \* how a process was started
  mode,     \* "fresh", or "resume" with --resume
  fd,       \* the run.log it has open, or for v2 "root", the directory
  holding,  \* it holds the lock of that file
  absent,   \* it has seen that predictions.jsonl does not exist
  memory    \* the records it holds in memory

root == <<log, dirs, records, works, litter>>
private == <<launches, launch, mode, fd, holding, absent, memory>>
vars == <<root, pc, private>>

(* While it is at one of these, a process has a temporary file or a write  *)
(* probe in the root.                                                      *)
TemporaryAt == {"sup_probe", "probe", "reprobe", "predictions", "write_log",
                "checkpoint", "v2_probe", "v2_log", "v2_publish"}
V2OwnerAt == {"v2_prepare", "v2_log", "v2_own", "v2_publish", "v2_done"}
V2LockedAt == {"v2_check", "v2_probe"} \cup V2OwnerAt
V2At == {"v2_open", "v2_flock"} \cup V2LockedAt
CliOwnerAt == {"load", "own", "checkpoint"}
OwnerAt == CliOwnerAt \cup V2OwnerAt
ChildAt == {"check", "probe", "outputs", "traces", "look", "mkdirs",
            "predictions", "recheck", "reprobe", "look_log", "no_log",
            "write_log", "open", "compare", "flock"} \cup CliOwnerAt
SupervisorAt == {"sup_check", "sup_probe", "sup_open", "sup_flock"}
Place == {"down"} \cup SupervisorAt \cup ChildAt \cup V2At

TypeOK ==
  /\ log \in Inode \cup {None}
  /\ dirs \subseteq {"outputs", "traces"}
  /\ records \in (SUBSET Task) \cup {None}
  /\ works \subseteq Task
  /\ litter \in BOOLEAN
  /\ pc \in [Process -> Place]
  /\ launches \in Launches
  /\ launch \in [Process -> launches \cup {None}]
  /\ mode \in [Process -> {"fresh", "resume", None}]
  /\ fd \in [Process -> Inode \cup {None, "root"}]
  /\ holding \in [Process -> BOOLEAN]
  /\ absent \in [Process -> BOOLEAN]
  /\ memory \in [Process -> SUBSET Task]

Init ==
  /\ log = None
  /\ dirs = {}
  /\ records = None
  /\ works = {}
  /\ litter = FALSE
  /\ pc = [p \in Process |-> "down"]
  /\ launches \in Launches
  /\ launch = [p \in Process |-> None]
  /\ mode = [p \in Process |-> None]
  /\ fd = [p \in Process |-> None]
  /\ holding = [p \in Process |-> FALSE]
  /\ absent = [p \in Process |-> FALSE]
  /\ memory = [p \in Process |-> {}]

At(p, place) == pc[p] = place
Goto(p, place) == pc' = [pc EXCEPT ![p] = place]

(* The process ends; its descriptors are closed and its lock released.     *)
Gone(p) ==
  /\ Goto(p, "down")
  /\ launch' = [launch EXCEPT ![p] = None]
  /\ mode' = [mode EXCEPT ![p] = None]
  /\ fd' = [fd EXCEPT ![p] = None]
  /\ holding' = [holding EXCEPT ![p] = FALSE]
  /\ absent' = [absent EXCEPT ![p] = FALSE]
  /\ memory' = [memory EXCEPT ![p] = {}]
  /\ UNCHANGED launches

End(p) == Gone(p) /\ UNCHANGED root

Continue(p, next) == Goto(p, next) /\ UNCHANGED <<root, private>>

(* The names in the root, apart from the four canonical entries.           *)
Unexpected == litter \/ \E p \in Process : pc[p] \in TemporaryAt

(* require_writable_directory, with or without the supervisor's run.log,   *)
(* and require_resume_directory.                                           *)
EmptyRoot == ~Unexpected /\ dirs = {} /\ records = None
ResumableRoot == ~Unexpected /\ log # None

FirstPlace(l) ==
  IF l = "captured" THEN "sup_check" ELSE IF l = "v2" THEN "v2_open" ELSE "check"

Start(p) ==
  /\ At(p, "down")
  /\ \E l \in launches, m \in {"fresh", "resume"} :
       /\ launch' = [launch EXCEPT ![p] = l]
       /\ mode' = [mode EXCEPT ![p] = m]
       /\ l = "v2" => m = "fresh"
       /\ Goto(p, FirstPlace(l))
  /\ UNCHANGED <<root, launches, fd, holding, absent, memory>>

-----------------------------------------------------------------------------
(* What the code requires at each place; if it does not hold the process   *)
(* ends there with an error, having changed nothing.                       *)

(* Mutant: the lock is shared.                                             *)
BusyNever(p) == FALSE

Busy(p) == \E q \in Process \ {p} : holding[q] /\ fd[q] = fd[p]

(* ArtifactLayout.resume: a file that is missing beside task artefacts.    *)
Incomplete ==
  \/ records = None /\ works # {}
  \/ dirs # {"outputs", "traces"} /\ (records \notin {None, {}} \/ works # {})

RootRequired(p) ==
  LET fresh == mode[p] = "fresh" IN
  /\ At(p, "sup_check") =>
       IF fresh THEN EmptyRoot /\ log = None ELSE ResumableRoot
  /\ At(p, "check") => IF fresh THEN EmptyRoot ELSE ResumableRoot
  /\ At(p, "outputs") => "outputs" \notin dirs
  /\ At(p, "traces") => "traces" \notin dirs
  /\ At(p, "look") => ~Incomplete
  /\ At(p, "recheck") => ResumableRoot
  /\ At(p, "v2_check") => EmptyRoot /\ log = None

LogRequired(p) ==
  /\ At(p, "sup_open") => (mode[p] = "fresh" <=> log = None)
  /\ At(p, "sup_flock") \/ At(p, "flock") \/ At(p, "v2_flock") => ~Busy(p)
  /\ At(p, "open") /\ launch[p] = "direct" => log # None
  /\ At(p, "compare") => fd[p] = log

Required(p) ==
  /\ RootRequired(p)
  /\ LogRequired(p)
  /\ At(p, "load") /\ mode[p] = "resume" => records = works

Fails(p) == ~At(p, "down") /\ ~Required(p) /\ End(p)

-----------------------------------------------------------------------------
(* capture.run_captured: the log is created or opened, and locked, before  *)
(* the child exists.                                                       *)

SupervisorChecks(p) == At(p, "sup_check") /\ Continue(p, "sup_probe")
SupervisorProbes(p) == At(p, "sup_probe") /\ Continue(p, "sup_open")

(* A file that no descriptor refers to any more may be reused.             *)
NewInode == Inode \ ({log} \cup {fd[q] : q \in Process})

SupervisorCreatesLog(p) ==
  /\ At(p, "sup_open") /\ mode[p] = "fresh"
  /\ log' \in NewInode
  /\ fd' = [fd EXCEPT ![p] = log']
  /\ Goto(p, "sup_flock")
  /\ UNCHANGED <<dirs, records, works, litter, launches, launch, mode, holding, absent,
                 memory>>

OpenLog(p, next) ==
  /\ fd' = [fd EXCEPT ![p] = log]
  /\ Goto(p, next)
  /\ UNCHANGED <<root, launches, launch, mode, holding, absent, memory>>

SupervisorOpensLog(p) ==
  At(p, "sup_open") /\ mode[p] = "resume" /\ OpenLog(p, "sup_flock")

(* flock(LOCK_EX | LOCK_NB).                                               *)
Flock(p, next) ==
  /\ holding' = [holding EXCEPT ![p] = TRUE]
  /\ Goto(p, next)
  /\ UNCHANGED <<root, launches, launch, mode, fd, absent, memory>>

SupervisorLocks(p) == At(p, "sup_flock") /\ Flock(p, "check")

-----------------------------------------------------------------------------
(* cli._run: ArtifactLayout.initialise or ArtifactLayout.resume ...        *)

ChecksRoot(p) == At(p, "check") /\ Continue(p, "probe")

Probes(p) ==
  At(p, "probe") /\ Continue(p, IF mode[p] = "fresh" THEN "outputs" ELSE "look")

(* initialise makes the directories and does not accept existing ones.     *)
MakesDirectory(p, name, next) ==
  /\ At(p, name)
  /\ dirs' = dirs \cup {name}
  /\ Goto(p, next)
  /\ UNCHANGED <<log, records, works, litter, private>>

(* resume: what is missing is remembered ...                               *)
Looks(p) ==
  /\ At(p, "look")
  /\ absent' = [absent EXCEPT ![p] = (records = None)]
  /\ Goto(p, "mkdirs")
  /\ UNCHANGED <<root, launches, launch, mode, fd, holding, memory>>

(* ... and completed.                                                      *)
CompletesDirectories(p) ==
  /\ At(p, "mkdirs")
  /\ dirs' = {"outputs", "traces"}
  /\ Goto(p, IF absent[p] THEN "predictions" ELSE "recheck")
  /\ UNCHANGED <<log, records, works, litter, private>>

(* Both write an empty predictions.jsonl with os.replace.                  *)
WritesEmptyPredictions(p) ==
  /\ At(p, "predictions")
  /\ records' = {}
  /\ Goto(p, IF mode[p] = "fresh" THEN "look_log" ELSE "recheck")
  /\ UNCHANGED <<log, dirs, works, litter, private>>

ChecksAgain(p) == At(p, "recheck") /\ Continue(p, "reprobe")
ProbesAgain(p) == At(p, "reprobe") /\ Continue(p, "open")

(* initialise writes a run.log if it sees none.                            *)
LooksForLog(p) ==
  At(p, "look_log") /\ Continue(p, IF log = None THEN "no_log" ELSE "open")

BeginsLog(p) == At(p, "no_log") /\ Continue(p, "write_log")

WritesLog(p) ==
  /\ At(p, "write_log")
  /\ log' \in NewInode
  /\ Goto(p, "open")
  /\ UNCHANGED <<dirs, records, works, litter, private>>

(* ... then exclusive_output_lock: the descriptor is inherited or opened,  *)
(* compared with the path, and locked.                                     *)
Inherits(p) ==
  At(p, "open") /\ launch[p] = "captured" /\ Continue(p, "compare")

Opens(p) == At(p, "open") /\ launch[p] = "direct" /\ OpenLog(p, "compare")
Compares(p) == At(p, "compare") /\ Continue(p, "flock")
Locks(p) == At(p, "flock") /\ Flock(p, "load")

-----------------------------------------------------------------------------
(* _run_owned.                                                             *)

(* Mutant: a resumed run forgets the records it has loaded.                *)
LoadsNothing(p) ==
  /\ At(p, "load")
  /\ Goto(p, "own")
  /\ memory' = [memory EXCEPT ![p] = {}]
  /\ UNCHANGED <<root, launches, launch, mode, fd, holding, absent>>

(* A fresh run starts from nothing, a resumed one from the records.        *)
Loads(p) ==
  /\ At(p, "load")
  /\ Goto(p, "own")
  /\ memory' = [memory EXCEPT ![p] = IF mode[p] = "resume" THEN records ELSE {}]
  /\ UNCHANGED <<root, launches, launch, mode, fd, holding, absent>>

FinishesTask(p, t) ==
  /\ At(p, "own")
  /\ t \notin memory[p]
  /\ works' = works \cup {t}
  /\ memory' = [memory EXCEPT ![p] = @ \cup {t}]
  /\ Goto(p, "checkpoint")
  /\ UNCHANGED <<log, dirs, records, litter, launches, launch, mode, fd, holding, absent>>

Checkpoints(p) ==
  /\ At(p, "checkpoint")
  /\ records' = memory[p]
  /\ Goto(p, "own")
  /\ UNCHANGED <<log, dirs, works, litter, private>>

Finishes(p) == (At(p, "own") \/ At(p, "v2_done")) /\ End(p)

-----------------------------------------------------------------------------
(* v2.main: the directory is opened and locked, and then it must be empty. *)
(* Nobody replaces it while it is open.                                    *)

V2Opens(p) ==
  /\ At(p, "v2_open")
  /\ fd' = [fd EXCEPT ![p] = "root"]
  /\ Goto(p, "v2_flock")
  /\ UNCHANGED <<root, launches, launch, mode, holding, absent, memory>>

V2Locks(p) == At(p, "v2_flock") /\ Flock(p, "v2_check")
V2Checks(p) == At(p, "v2_check") /\ Continue(p, "v2_probe")
V2Probes(p) == At(p, "v2_probe") /\ Continue(p, "v2_prepare")

(* run_cli: prepare_output accepts directories that exist, and a run.log   *)
(* is replaced.                                                            *)
V2Prepares(p) ==
  /\ At(p, "v2_prepare")
  /\ dirs' = {"outputs", "traces"}
  /\ Goto(p, "v2_log")
  /\ UNCHANGED <<log, records, works, litter, private>>

V2WritesLog(p) ==
  /\ At(p, "v2_log")
  /\ log' \in NewInode
  /\ Goto(p, "v2_own")
  /\ UNCHANGED <<dirs, records, works, litter, private>>

V2FinishesTask(p, t) ==
  /\ At(p, "v2_own")
  /\ t \notin memory[p]
  /\ works' = works \cup {t}
  /\ memory' = [memory EXCEPT ![p] = @ \cup {t}]
  /\ UNCHANGED <<log, dirs, records, litter, pc, launches, launch, mode, fd, holding,
                 absent>>

(* The records are written at once, when every task is done.               *)
V2BeginsToPublish(p) ==
  At(p, "v2_own") /\ memory[p] = Task /\ Continue(p, "v2_publish")

V2WritesPredictions(p) ==
  /\ At(p, "v2_publish")
  /\ records' = memory[p]
  /\ Goto(p, "v2_done")
  /\ UNCHANGED <<log, dirs, works, litter, private>>

(* Killed, or stopped by an error, anywhere.                               *)
Dies(p) ==
  /\ ~At(p, "down")
  /\ litter' \in {litter, litter \/ pc[p] \in TemporaryAt}
  /\ Gone(p)
  /\ UNCHANGED <<log, dirs, records, works>>

-----------------------------------------------------------------------------
Step(p) ==
  \/ SupervisorChecks(p) \/ SupervisorProbes(p) \/ SupervisorCreatesLog(p)
  \/ SupervisorOpensLog(p) \/ SupervisorLocks(p)
  \/ ChecksRoot(p) \/ Probes(p)
  \/ MakesDirectory(p, "outputs", "traces")
  \/ MakesDirectory(p, "traces", "predictions")
  \/ Looks(p) \/ CompletesDirectories(p) \/ WritesEmptyPredictions(p)
  \/ ChecksAgain(p) \/ ProbesAgain(p) \/ LooksForLog(p) \/ BeginsLog(p)
  \/ WritesLog(p)
  \/ Inherits(p) \/ Opens(p) \/ Compares(p) \/ Locks(p) \/ Loads(p)
  \/ \E t \in Task : FinishesTask(p, t)
  \/ Checkpoints(p) \/ Finishes(p)
  \/ V2Opens(p) \/ V2Locks(p) \/ V2Checks(p) \/ V2Probes(p) \/ V2Prepares(p)
  \/ V2WritesLog(p) \/ (\E t \in Task : V2FinishesTask(p, t))
  \/ V2BeginsToPublish(p) \/ V2WritesPredictions(p)

Next ==
  \E p \in Process :
    Start(p) \/ (Required(p) /\ Step(p)) \/ Fails(p) \/ Dies(p)

Spec == Init /\ [][Next]_vars

-----------------------------------------------------------------------------
(* Properties.                                                             *)

(* At most one process runs tasks in a directory (ARCHITECTURE.md: "One    *)
(* output-root lock prevents multiple processes from publishing into the   *)
(* same run"; of v2, "A second cooperating v2 process therefore fails").   *)
OneOwner ==
  \A p, q \in Process : pc[p] \in OwnerAt /\ pc[q] \in OwnerAt => p = q

SupervisedOnly == launches \subseteq {"captured"}
V2Only == launches \subseteq {"v2"}

(* Where every run takes its lock before it looks, no step takes a record  *)
(* away: neither an empty file or a first one written over it, nor a file  *)
(* rewritten from a memory that does not have it (ArtifactLayout.resume:   *)
(* "existing files are never overwritten"; v2 "accepts only a fresh, empty *)
(* output root").                                                          *)
RecordsAreKept ==
  [][(SupervisedOnly \/ V2Only) /\ records # None =>
       records' # None /\ records \subseteq records']_records

(* The owner holds the lock of the file that is at run.log, so that the    *)
(* next process meets the lock there.                                      *)
OwnerHoldsLog ==
  \A p \in Process : pc[p] \in CliOwnerAt => holding[p] /\ fd[p] = log

-----------------------------------------------------------------------------
(* Why captured runs are safe: whoever is past the supervisor's lock holds  *)
(* it alone, and knows what the file holds since then.                      *)

LogInv ==
  \A p \in Process :
    /\ pc[p] # "down" => launch[p] = "captured" /\ mode[p] # None
    /\ pc[p] \in {"sup_flock"} \cup ChildAt => fd[p] # None /\ fd[p] = log
    /\ pc[p] \notin {"no_log", "write_log"} \cup V2At

LockInv ==
  /\ \A p \in Process : pc[p] \in ChildAt => holding[p]
  /\ \A p \in Process : holding[p] => pc[p] \in ChildAt
  /\ \A p, q \in Process : holding[p] /\ holding[q] => p = q

RecordsKnown(p) ==
  /\ pc[p] \in {"outputs", "traces", "look_log"} => mode[p] = "fresh"
  /\ pc[p] \in {"look", "mkdirs", "recheck", "reprobe"} => mode[p] = "resume"
  /\ mode[p] = "fresh" =>
       /\ pc[p] \in {"probe", "outputs", "traces", "predictions"}
            => records = None
       /\ pc[p] \in {"look_log", "open", "compare", "flock", "load"}
            => records = {}
  /\ mode[p] = "resume" =>
       /\ pc[p] \in {"mkdirs", "predictions"} => (absent[p] <=> records = None)
       /\ pc[p] = "predictions" => absent[p]
       /\ pc[p] \in {"recheck", "reprobe", "open", "compare", "flock", "load"}
            => records # None
  /\ pc[p] \in {"own", "checkpoint"} =>
       records # None /\ records \subseteq memory[p]

RecordsInv == \A p \in Process : RecordsKnown(p)

SupervisedInv == TypeOK /\ LogInv /\ LockInv /\ RecordsInv

CapturedInv == TypeOK /\ (SupervisedOnly => SupervisedInv)

(* Why runs of v2 are: the one that holds the directory found it empty,    *)
(* and nobody else has written since.                                      *)
V2Inv ==
  /\ \A p \in Process :
       /\ pc[p] \in {"down"} \cup V2At
       /\ pc[p] \in {"v2_flock"} \cup V2LockedAt => fd[p] = "root"
       /\ holding[p] <=> pc[p] \in V2LockedAt
       /\ pc[p] \in {"v2_probe", "v2_prepare", "v2_log", "v2_own", "v2_publish"}
            => records = None
  /\ \A p, q \in Process : holding[p] /\ holding[q] => p = q

FreshInv == TypeOK /\ (V2Only => V2Inv)
=============================================================================
