-------------------------- MODULE PlanApplication --------------------------
(***************************************************************************)
(* DefaultTaskSolver._apply_plan (exactsource/runner.py) on the working    *)
(* copy of one task, for the plans that the model proposes one after the   *)
(* other.  The operations route edits the workbook in memory               *)
(* (exactsource/plans.py); the python route has a child process run the    *)
(* generated transform (exactsource/sandbox.py), and the child is an actor *)
(* of its own.                                                             *)
(*                                                                         *)
(* A file is missing, unreadable or a workbook.  The parent's steps end    *)
(* where it touches a file or the child.                                   *)
(***************************************************************************)
EXTENDS PlanOperations

CONSTANTS
  Task,       \* what a task declares: [cell : BOOLEAN, answers : sets of ranges]
  Source,     \* the workbooks a task may come with
  Session,    \* the sequences of plans that may be proposed for a task
  Fault,      \* "io": a file operation may fail; "late": after it had its effect
  Absent,
  Torn,       \* not a workbook: empty or written in part
  None

(* A python plan stands for what its code is found to be: whether the      *)
(* screening passes, the workbook it makes, whether the formulas,          *)
(* metadata and links it changed are safe, and whether it is too big.      *)
IsPlan(p) ==
  \/ p \in [route : {"operations"}, operations : Seq(PlanOperation)]
  \/ /\ p.route = "python"
     /\ p.screened \in BOOLEAN /\ p.safe \in BOOLEAN /\ p.big \in BOOLEAN
     /\ IsWorkbook(p.result)

Plan == UNION {{s[i] : i \in DOMAIN s} : s \in Session}

ASSUME FaultAssumption == Fault \subseteq {"io", "late"}

ASSUME TaskAssumption ==
  \A t \in Task : /\ t.cell \in BOOLEAN
                  /\ IsFiniteSet(t.answers)
                  /\ \A a \in t.answers : a.cells \in [top : Nat, left : Nat,
                                                      bottom : Nat, right : Nat]

ASSUME SessionAssumption ==
  /\ \A b \in Source : IsWorkbook(b)
  /\ Session \subseteq Seq(Plan)
  /\ \A p \in Plan : IsPlan(p)
  /\ None \notin Plan

ASSUME FileAssumption ==
  /\ Absent # Torn
  /\ \A f \in {Absent, Torn, None} : ~IsWorkbook(f)
  /\ None \notin {"accepted", "rejected", "ok"}

VARIABLES
  task,
  replies,    \* the plans still to come
  plan,       \* the one that is being applied
  verdict,    \* what became of it
  phase,      \* where _apply_plan is
  disk,       \* the files beside the working copy, and the working copy
  book,       \* the workbook in memory
  next,       \* the operation that comes next
  child,      \* where the worker process is
  limited,    \* its resource limits could be set
  input,      \* input.xlsx in its private directory
  staged,     \* output.xlsx
  report,     \* what it printed
  exit        \* its exit status

memory == <<book, next>>
worker == <<child, limited, input, staged, report, exit>>
vars == <<task, replies, plan, verdict, phase, disk, memory, worker>>

Phase == {"idle", "make", "operations", "edit", "save", "python", "wait",
          "judge", "promote", "inspect", "cleanup"}

ChildPlace == {"none", "load", "execute", "check", "save", "report", "return",
               "fail", "gone"}

IsFile(f) == f \in {Absent, Torn} \/ IsWorkbook(f)

TypeOK ==
  /\ task \in Task
  /\ replies \in Seq(Plan)
  /\ plan \in Plan \cup {None}
  /\ verdict \in {"accepted", "rejected", None}
  /\ phase \in Phase
  /\ DOMAIN disk = {"working", "candidate", "temporary"}
  /\ IsWorkbook(disk.working) /\ IsFile(disk.candidate) /\ IsFile(disk.temporary)
  /\ book = None \/ IsWorkbook(book)
  /\ next \in Nat
  /\ child \in ChildPlace
  /\ limited \in BOOLEAN
  /\ IsFile(input) /\ IsFile(staged)
  /\ report \in {"ok", "error", None}
  /\ exit \in {"0", "2", "killed", None}

Init ==
  /\ task \in Task
  /\ replies \in Session
  /\ plan = None /\ verdict = None
  /\ phase = "idle"
  /\ \E b \in Source :
       disk = [working |-> b, candidate |-> Absent, temporary |-> Absent]
  /\ book = None /\ next = 1
  /\ child = "none" /\ limited = TRUE
  /\ input = Absent /\ staged = Absent
  /\ report = None /\ exit = None

May(f) == f \in Fault

Goto(p) == phase' = p /\ UNCHANGED verdict

(* An exception: the candidate is removed on the way out.                  *)
Raise == phase' = "cleanup" /\ verdict' = "rejected"

RemoveWorkDirectory == input' = Absent /\ staged' = Absent

-----------------------------------------------------------------------------
(* _apply_plan.                                                            *)

Reply ==
  /\ phase = "idle" /\ verdict # "accepted" /\ replies # <<>>
  /\ plan' = Head(replies) /\ replies' = Tail(replies)
  /\ verdict' = None /\ phase' = "make"
  /\ UNCHANGED <<task, disk, memory, worker>>

RouteRefused == plan.route = "python" /\ task.cell

MakeCandidate ==
  /\ phase = "make" /\ ~RouteRefused
  /\ disk' = [disk EXCEPT !.candidate = Torn]
  /\ Goto(plan.route)
  /\ UNCHANGED <<task, replies, plan, memory, worker>>

NoCandidate ==
  /\ phase = "make" /\ (RouteRefused \/ May("io"))
  /\ phase' = "idle" /\ verdict' = "rejected"
  /\ UNCHANGED <<task, replies, plan, disk, memory, worker>>

(* _validate_answer_sheets.                                                *)
AnswerSheetsPresent(t, b) == \A a \in t.answers : a.sheet \in DOMAIN b

Presentable(t, f) ==
  f \notin {Absent, Torn} /\ DOMAIN f # {} /\ AnswerSheetsPresent(t, f)

(* Mutant: a candidate that is not what was asked for is published.        *)
PublishReadable ==
  /\ phase = "inspect" /\ disk.candidate \notin {Absent, Torn}
  /\ disk' = [disk EXCEPT !.working = disk.candidate, !.candidate = Absent]
  /\ phase' = "idle" /\ verdict' = "accepted"
  /\ UNCHANGED <<task, replies, plan, memory, worker>>

(* The last checks, and os.replace onto the working copy.                  *)
Publish ==
  /\ phase = "inspect" /\ Presentable(task, disk.candidate)
  /\ disk' = [disk EXCEPT !.working = disk.candidate, !.candidate = Absent]
  /\ phase' = "idle" /\ verdict' = "accepted"
  /\ UNCHANGED <<task, replies, plan, memory, worker>>

PublishFails ==
  /\ phase = "inspect"
  /\ \/ (~Presentable(task, disk.candidate) \/ May("io")) /\ UNCHANGED disk
     \/ /\ May("late") /\ Presentable(task, disk.candidate)
        /\ disk' = [disk EXCEPT !.working = disk.candidate, !.candidate = Absent]
  /\ Raise
  /\ UNCHANGED <<task, replies, plan, memory, worker>>

Cleanup ==
  /\ phase = "cleanup"
  /\ disk' = [disk EXCEPT !.candidate = Absent]
  /\ Goto("idle")
  /\ UNCHANGED <<task, replies, plan, memory, worker>>

-----------------------------------------------------------------------------
(* The operations route: apply_operations.                                 *)

InScopeThroughout(t, b, ops) == \A i \in DOMAIN ops : InScope(b, t.answers, ops[i])

PlanChecks(b) ==
  WithinLimits(plan.operations) /\ InScopeThroughout(task, b, plan.operations)

LoadWorking ==
  /\ phase = "operations" /\ PlanChecks(disk.working)
  /\ book' = disk.working /\ next' = 1
  /\ Goto("edit")
  /\ UNCHANGED <<task, replies, plan, disk, worker>>

LoadRefused ==
  /\ phase = "operations" /\ (~PlanChecks(disk.working) \/ May("io"))
  /\ Raise
  /\ UNCHANGED <<task, replies, plan, disk, memory, worker>>

Operation == plan.operations[next]

More == next <= Len(plan.operations)

Edit ==
  /\ phase = "edit" /\ More /\ Applies(book, Operation)
  /\ book' = Applied(book, Operation)
  /\ next' = next + 1
  /\ Goto("edit")
  /\ UNCHANGED <<task, replies, plan, disk, worker>>

EditFails ==
  /\ phase = "edit" /\ More /\ ~Applies(book, Operation)
  /\ Raise
  /\ UNCHANGED <<task, replies, plan, disk, memory, worker>>

(* _save_atomic: a temporary beside the candidate, then os.replace.        *)
BeginSave ==
  /\ phase = "edit" /\ ~More
  /\ disk' = [disk EXCEPT !.temporary = Torn]
  /\ Goto("save")
  /\ UNCHANGED <<task, replies, plan, memory, worker>>

Save ==
  /\ phase = "save"
  /\ disk' = [disk EXCEPT !.candidate = book, !.temporary = Absent]
  /\ Goto("inspect")
  /\ UNCHANGED <<task, replies, plan, memory, worker>>

(* Mutant: the temporary is left when the workbook cannot be saved.        *)
SaveFailsUntidily ==
  /\ phase = "save" /\ May("io")
  /\ Raise
  /\ UNCHANGED <<task, replies, plan, disk, memory, worker>>

SaveFails ==
  /\ phase = "save"
  /\ \/ May("io") /\ disk' = [disk EXCEPT !.temporary = Absent]
     \/ May("late") /\ disk' = [disk EXCEPT !.candidate = book, !.temporary = Absent]
  /\ Raise
  /\ UNCHANGED <<task, replies, plan, memory, worker>>

-----------------------------------------------------------------------------
(* The python route: run_transform and the worker process.                 *)

StartWorker ==
  /\ phase = "python" /\ plan.screened
  /\ input' = disk.working /\ staged' = Absent
  /\ child' = "load" /\ limited' \in BOOLEAN
  /\ report' = None /\ exit' = None
  /\ Goto("wait")
  /\ UNCHANGED <<task, replies, plan, disk, memory>>

(* The screening, the private directory, or the start of the process.      *)
WorkerRefused ==
  /\ phase = "python" /\ (~plan.screened \/ May("io"))
  /\ Raise
  /\ UNCHANGED <<task, replies, plan, disk, memory, worker>>

ChildGoes(from, to) ==
  /\ child = from /\ child' = to
  /\ UNCHANGED <<task, replies, plan, verdict, phase, disk, memory, limited, input>>

ChildLoads == ChildGoes("load", "execute") /\ UNCHANGED <<staged, report, exit>>

ChildExecutes == ChildGoes("execute", "check") /\ UNCHANGED <<staged, report, exit>>

(* What the transform changed is checked, and the save begins.             *)
ChildChecks ==
  /\ ChildGoes("check", "save") /\ plan.safe
  /\ staged' = Torn
  /\ UNCHANGED <<report, exit>>

(* RLIMIT_FSIZE stops a file that is too big.                              *)
ChildSaves ==
  /\ ChildGoes("save", "report") /\ ~(plan.big /\ limited)
  /\ staged' = plan.result
  /\ UNCHANGED <<report, exit>>

ChildReports ==
  /\ ChildGoes("report", "return") /\ report' = "ok"
  /\ UNCHANGED <<staged, exit>>

ChildRaises ==
  /\ \E p \in {"load", "execute", "check", "save"} : ChildGoes(p, "fail")
  /\ report' = "error"
  /\ UNCHANGED <<staged, exit>>

ChildExits ==
  /\ \/ ChildGoes("return", "gone") /\ exit' = "0"
     \/ ChildGoes("fail", "gone") /\ exit' = "2"
  /\ UNCHANGED <<staged, report>>

(* The processor limit, the memory of the machine or a crash.              *)
ChildDies ==
  /\ \E p \in ChildPlace \ {"none", "gone"} : ChildGoes(p, "gone")
  /\ exit' = "killed"
  /\ UNCHANGED <<staged, report>>

Child ==
  \/ ChildLoads \/ ChildExecutes \/ ChildChecks \/ ChildSaves \/ ChildReports
  \/ ChildRaises \/ ChildExits \/ ChildDies

WorkerEnds ==
  /\ phase = "wait" /\ child = "gone"
  /\ Goto("judge")
  /\ UNCHANGED <<task, replies, plan, disk, memory, worker>>

(* Mutant: the time is up only for a child that has ended.                 *)
TimeOutLate ==
  /\ phase = "wait" /\ child = "gone"
  /\ exit' = "killed"
  /\ RemoveWorkDirectory
  /\ Raise
  /\ UNCHANGED <<task, replies, plan, disk, memory, child, limited, report>>

(* subprocess.run kills the child and waits for it before it raises; the   *)
(* child may have ended by itself in the meantime.                         *)
TimeOut ==
  /\ phase = "wait"
  /\ child' = "gone"
  /\ exit' = IF child = "gone" THEN exit ELSE "killed"
  /\ RemoveWorkDirectory
  /\ Raise
  /\ UNCHANGED <<task, replies, plan, disk, memory, limited, report>>

Vouched ==
  /\ exit = "0" /\ report = "ok"
  /\ staged \notin {Absent, Torn} /\ ~plan.big

(* The checks of the parent; then _promote_atomic begins.                  *)
Judge ==
  /\ phase = "judge" /\ Vouched
  /\ disk' = [disk EXCEPT !.temporary = Torn]
  /\ Goto("promote")
  /\ UNCHANGED <<task, replies, plan, memory, worker>>

JudgeRefuses ==
  /\ phase = "judge" /\ (~Vouched \/ May("io"))
  /\ RemoveWorkDirectory
  /\ Raise
  /\ UNCHANGED <<task, replies, plan, disk, memory, child, limited, report, exit>>

CopyOut ==
  /\ phase = "promote"
  /\ disk' = [disk EXCEPT !.candidate = staged, !.temporary = Absent]
  /\ RemoveWorkDirectory
  /\ Goto("inspect")
  /\ UNCHANGED <<task, replies, plan, memory, child, limited, report, exit>>

CopyOutFails ==
  /\ phase = "promote"
  /\ \/ May("io") /\ disk' = [disk EXCEPT !.temporary = Absent]
     \/ May("late") /\ disk' = [disk EXCEPT !.candidate = staged, !.temporary = Absent]
  /\ RemoveWorkDirectory
  /\ Raise
  /\ UNCHANGED <<task, replies, plan, memory, child, limited, report, exit>>

-----------------------------------------------------------------------------
Parent ==
  \/ MakeCandidate \/ NoCandidate \/ Publish \/ PublishFails \/ Cleanup
  \/ LoadWorking \/ LoadRefused \/ Edit \/ EditFails \/ BeginSave \/ Save \/ SaveFails
  \/ StartWorker \/ WorkerRefused \/ WorkerEnds \/ TimeOut \/ Judge \/ JudgeRefuses
  \/ CopyOut \/ CopyOutFails

Next == Reply \/ Parent \/ Child

Spec == Init /\ [][Next]_vars

(* Nothing is assumed of the child.                                        *)
FairSpec == Spec /\ WF_vars(Parent)

-----------------------------------------------------------------------------
(* Properties.                                                             *)

(* What a plan may make of a workbook: all its operations, in their order, *)
(* each on what the ones before it left; or what the transform made, if it *)
(* was found safe and small enough and keeps the answer sheets.            *)
Goes(b, ops) ==
  LET after[i \in 0 .. Len(ops)] ==
        IF i = 0 THEN b
        ELSE IF after[i - 1] # None /\ Applies(after[i - 1], ops[i])
        THEN Applied(after[i - 1], ops[i])
        ELSE None
  IN  after[Len(ops)]

Outcome(t, p, b) ==
  IF p.route = "python"
  THEN {w \in {p.result} : /\ ~t.cell /\ p.screened /\ p.safe /\ ~p.big
                           /\ Presentable(t, w)}
  ELSE IF WithinLimits(p.operations) /\ InScopeThroughout(t, b, p.operations)
  THEN {Goes(b, p.operations)} \ {None}
  ELSE {}

Promise ==
  INSTANCE PlanPromise
  WITH file <- disk.working, Late <- May("late")

(* A plan is applied to the working copy as a whole or not at all: a       *)
(* rejected one, a failed save, a worker that dies at any point or is      *)
(* killed by the time limit leave the copy that the repair starts from.    *)
ImplementsPromise == Promise!Spec

(* Operations change the declared answer cells and no others               *)
(* (_validate_operation_scope), whatever the operations before did.        *)
Declared(sheet) == UNION {CellsOf(r) : r \in AnswerBounds(task.answers, sheet)}

OnlyDeclaredCellsChange ==
  [][plan # None /\ plan.route = "operations" =>
       /\ DOMAIN disk'.working = DOMAIN disk.working
       /\ \A s \in DOMAIN disk.working : \A c \in Cell \ Declared(s) :
            disk'.working[s][c] = disk.working[s][c]]_vars

(* The walk over the sorted intervals accepts a destination exactly when   *)
(* each of its cells is in some declared range (_rectangle_is_covered).    *)
CoverIsExact ==
  phase = "operations" => \A i \in DOMAIN plan.operations :
    LET op == plan.operations[i]
    IN  Addressable(op) =>
          (RectangleIsCovered(Destination(op), AnswerBounds(task.answers, op.sheet))
             <=> CellsOf(Destination(op)) \subseteq Declared(op.sheet))

Anchored(b) ==
  \A s \in DOMAIN b : \A c \in Cell :
    IsArray(b[s][c]) => TopLeft(b[s][c].ref) = c /\ CellsOf(b[s][c].ref) \subseteq Cell

(* Every array formula of the working copy is anchored at the top left     *)
(* cell of its ref, and the ref lies in the grid, also after any number of *)
(* copies of arrays, of parts of the sheet and of copies.                  *)
ArraysAnchored == Anchored(disk.working)

(* When _apply_plan has returned or raised, no worker runs and no          *)
(* candidate, temporary or private directory is left.                      *)
NothingLeftBehind ==
  phase = "idle" =>
    /\ child \in {"none", "gone"}
    /\ disk.candidate = Absent /\ disk.temporary = Absent
    /\ input = Absent /\ staged = Absent

(* The application of a plan ends, whatever the transform does.            *)
ApplicationEnds == phase = "make" ~> phase = "idle"
=============================================================================
