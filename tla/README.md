# FormulaBench, specified in TLA+

This directory holds a model of the parts of FormulaBench whose correctness
depends on order: what happens when a run is killed, interrupted, retried, or
meets an error half way. Modules (`*.tla`) are checked with TLC on small
instances (`MC*.tla`, `*.cfg`) and the main safety results are proved with TLAPS
for every value of the constants. `PROJECT.json` maps every definition to the
lines it stands for.

## 1. The system

FormulaBench answers spreadsheet tasks: for each task it asks a model for
formulas or values, writes them into a copy of the input workbook and records a
prediction and a trace. Two engines live side by side.

| Component | Source | State it keeps | Operations |
|---|---|---|---|
| Artefact store, retry journal | `formulabench/artifacts.py` | `predictions.jsonl`, `outputs/`, `traces/`, `.retry/<task>/`, lock file | initialise, resume, atomic writes, create/prepare/commit/recover/remove a retry, validate |
| Run coordinator | `formulabench/runner.py` | records in memory, worker futures, sets of published and observed workers | attempt a task, publish, drain, cancel, tidy |
| Command line | `formulabench/cli.py` | none | lock, recover, validate, run or replay, report |
| Replay | `formulabench/replay.py` | workspaces of the candidates | write the answers stored in the traces of failed writes once more |
| Contract | `formulabench/contract.py`, `sb.py` | the workbook being edited | parse and validate the model's answer, edit, save, verify and install the workbook; the evaluator's reading of it |
| Provider | `formulabench/provider.py` | sampling and service client, fatal failure | create the client, complete a request, close |
| Capture | `formulabench/capture.py` | child process, pending signals, log | run the CLI as a child that owns the log |
| Context, prompts | `formulabench/context.py`, `prompts.py` | the document under construction | bounded text for a task |
| Output validator | `formulabench/validate_out.py` | none | say what is wrong with an output directory |
| v2 adapter | `formulabench/v2.py` | lock, run directory | fresh-output check, run the v2 engine, validate |
| v2 solver, run | `exactsource/runner.py` | call index, plan, thread pool | call policy per task, run tasks in threads |
| v2 transport | `exactsource/model.py` | attempts, stream decoder | send, stream, retry |
| v2 plans, ranges | `exactsource/plans.py`, `ranges.py` | the workbook being edited | check a plan against the answer ranges and the limits, apply it, save |
| v2 sandbox | `exactsource/sandbox.py` | worker process, private directory | run a transform under a time limit, promote its result |
| v2 context | `exactsource/context.py` | none | divide the budget among sections, cut each |
| v2 artefacts, metrics | `exactsource/artifacts.py`, `metrics.py` | trace records | write, validate, count |
| v2 formula safety, workbook, prompts, dataset | `exactsource/formula_safety.py`, ... | none | tokenise, read, render |

The v1 command is a single process with one event-loop thread. Its workers are
asyncio tasks; provider calls suspend, file writes do not. The only thing one
process hands to the next is the output directory. The v2 command has a thread
pool and no resume: a directory is used once. Each python plan of v2 runs in a
process of its own, which the thread waits for.

### Hard behaviours

* A process may be killed between any two durable writes, and every write is a
  temporary file plus `os.replace`. The journal (`.retry/<task>`) must make the
  replacement of three files look like one step.
* `checkpoint()` writes *all* records from memory, so a stale record is enough
  to undo another task's replacement.
* SIGINT cancels the coordinator wherever it awaits. Workers that have already
  written files must still be recorded, before and after cancellation.
* An I/O error may follow its own effect: `os.replace` succeeded and the fsync
  of the directory did not.
* Recovery can itself be killed and must be repeatable.
* Provider calls cost money and must not be repeated for settled successes.
* A replay repairs the same directory through the same journal without the loop
  of a run, may be killed itself, and must not lose what a run has paid for.
* One call to `write_response_atomic` can fail at some fifteen places and must
  leave the whole answer or the input. What openpyxl loses in a save is found only
  by opening the file again, and what the evaluator will read is worked out
  a second time, from another workbook, in other code.
* A v2 plan is a sequence of operations on overlapping ranges; the repair after a
  rejected one starts from the working copy. The worker of a python plan may die,
  report and then die, or be killed by the time limit as it ends.
* A document that must fit a budget contains the count of its own characters.

What makes each part correct: the directory is repairable at every instant;
through the journal, sessions only ever replace whole failed records; a session
that is not killed leaves a directory the next accepts; what the command
reports, and what the validator passes, is what the directory holds; an
interrupted run ends; a plan is applied whole, in the declared cells, or not at all.

## 2. Modules

| Module | Models | Role |
|---|---|---|
| `RetryJournal` | `artifacts.py`: durable state and the effect of each single durable step; the checks made before the state is trusted | component |
| `RunCoordinator` | `runner.py` and `cli._run_owned`: which step is taken when; interrupts, errors, kills | composition: extends `RetryJournal` |
| `TaskLedger` | what a sequence of sessions promises: a task's settled outcome changes only from nothing or from a failure | abstract specification |
| `RunInvariant` | the inductive invariant, and what the report of a run relies on (`ReportInv`) | proof support |
| `RunProofs` | theorems | proofs |
| `ReplaySession` | `replay.py` and `cli._run_owned` with `--replay-write-failures`: replays among the runs on one directory | composition: extends `RunCoordinator` and its invariant |
| `ReplayProofs` | theorems: extends `RunProofs` | proofs |
| `OutputValidator` | `validate_out.py` as functions of the disk | component: extends `RetryJournal` |
| `ContextBudget` | `context.py`, `build_context`: the budget of the v1 document | pure algorithm |
| `RunDocuments` | the coordinator, with the documents that its workers send | composition |
| `MCRunCoordinator`, `MCReplaySession` | constants and symmetry for TLC; the first is of `RunDocuments` and takes in `OutputValidator` | instances |
| `OutputOwnership` | who may write into a directory: `run_captured` up to the child, `ArtifactLayout.initialise` and `resume` one system call at a time, `exclusive_output_lock`; the v2 adapter's lock and freshness check | component |
| `OwnershipProofs`, `MCOutputOwnership` | theorems, instance | |
| `ModelTransport` | `exactsource/model.py`: one call of `TinkerClient.complete` with the stream decoder | component |
| `TransportProofs`, `MCModelTransport` | theorems, instance | |
| `ProviderGateway` | `formulabench/provider.py`: the calls of a run to `complete`, the threads that make clients, `close` | component |
| `ProviderProofs`, `MCProviderGateway` | theorems, instance | |
| `V2Run` | `exactsource/runner.py`, `cli.run_cli`, the writes of `exactsource/artifacts.py`: a run with its thread pool, each thread's call policy, publication and trace | component |
| `V2Batch` | what a v2 run promises: every task settled once and whole, predictions for all or none | abstract specification |
| `RunMetrics` | `exactsource/metrics.py`: the figures worked out from the traces | extends `V2Run` |
| `V2RunProofs`, `MCV2Run` | theorems about the run and its metrics, instance | |
| `PlanOperations` | `exactsource/plans.py`, `ranges.py`: the operations on a workbook, the declared ranges, the limits | pure algorithm |
| `PlanApplication` | `DefaultTaskSolver._apply_plan`, `apply_operations`, `run_transform` and its worker process | component: extends `PlanOperations` |
| `PlanPromise` | what applying a task's plans promises: each whole or not at all | abstract specification |
| `PlanProofs` | theorems | proofs |
| `ContextShares` | `exactsource/context.py`: the division of the budget, and the cutting | pure algorithm |
| `PlanContext` | `PlanApplication`, with the context that the plans of a task are asked for with | composition |
| `MCPlanApplication` | constants of `PlanContext` | instance |
| `ResponseContract` | `formulabench/contract.py`: one call of `write_response_atomic`; `sb.py`: the cells that the evaluator reads | component |
| `ContractProofs`, `MCResponseContract` | theorems, instance | |

### State and actions against the code

`RetryJournal`. A `Result` is one outcome of an attempt: record, trace and
workbook together. A failed attempt leaves a byte-identical copy of the input
(`Pristine`); the equality of contents stands for the equality of the SHA-256
hashes which the code stores in `meta.json`. `predictions`, `outputs`, `traces`
are the canonical files; `workspace` the existing directories under `.retry`;
`payload` their four files; `meta` the marker. `litter` records in which
directory a killed write left its temporary file: workbooks and traces are
written beside their canonical file, a checkpoint and the write probe in the root, while
`_publish_retry_file` and everything else about a retry use the workspace.
`Complaints` is the set of error codes `load_resume_state` gives.

`RunCoordinator`. `phase` is the place in `_run_owned`/`run_tasks`: `resume`
(root check), `recover`, `load` (validation), `create` and `undo` (workspaces
of the failures to be retried), `run` (`as_completed` loop), `drain`, `cancel`,
`redrain` (the `finally` and `except` paths), `tidy` (discard unused scratch), `final`
(report). `step` is the durable step that the running synchronous section is
about to take; while it is not idle, no other coroutine runs. One action per
step: `DoStep` does it, `IOError` makes it raise with or without its effect,
and `Kill` ends the process there. A check of the code that fails needs no
action: `ChecksNeverRefuse` shows that none does.
`Following` is the order of steps within each section. Workers go from
`waiting` (for the semaphore) to `calling`, `writing`, `done`, `failed` or
`cancelled`; `published`, `observed` and `commitStarted` are the sets of the
same purpose in `run_tasks`.

`OutputOwnership`. A process is an attempt to use the directory, `captured`
(supervisor and child together: they share one open file, so the lock lasts
until both are gone), `direct`, or `v2` (the adapter, which locks the directory itself
before it looks whether it is empty). `log` is the identity of the file at
`run.log`, `fd` the one a process has open: a lock belongs to the file and not
to the name, and both `os.replace` and the comparison of inodes depend on that.
`Required` gathers every condition under which the code gives up at a place;
`Fails` is that exit, `Dies` a kill anywhere. What the owner does is reduced
to one workbook and one checkpoint per task.

`ModelTransport`. `attempt`, `conn`, `wait` and `result` are the loop of
`complete`; `decoder` is `_AnthropicStreamDecoder`; `history` remembers the
events decoded in the attempt, so that a reference grammar (`WellFormed`) can be
compared with what the decoder accepts; `reports` is what `on_attempt` was told.
The server is the environment: any event may come at any moment, and the
connection may end, break or deliver half a frame (`Receive`). Pieces of text
are empty, blank or a word, which is what the decoder tells apart. Time is
absent, delays are kept. `response.close` is assumed not to raise.

`V2Run`. `main` is the main thread in `run_cli`/`run_tasks`; `place[t]` is the
statement `_run_one` has reached for a task; `calls`, `recovery`, `before` are the
local variables of the solver's loop; `records` is the `TraceRecorder`. A
workbook is the sequence of the plans applied to the input, so that the pristine
copy is `<<>>` and an accepted plan applied to a clean copy is `<<p>>`. The
threads share nothing but the pool, so what one does between two visible effects is
one action. Errors are *early*, with no effect, or *late*, after `os.replace` and
before the `chmod` has succeeded; `Late` says where late ones occur. The queue
is FIFO in the code and any order here. A call of the transport is its reports and
one of four ends: an accepted plan, a rejected one, a truncation, an error.
The directory is fresh: `v2.py` requires that. The main thread may be interrupted at
any of its statements: while it submits tasks, when those left out end as if their
working copy could not be named, while it waits, publishes, validates, or closes the
client, which then stays open.
`RunMetrics` reads the traces as `build_run_metrics` does, grouped by
`semantic_attempt`, and is compared with the calls the solver really made (`calls`).

`ProviderGateway`. The calls are coroutines of one event loop, so an action is what
a call does between two `await`s. `place` is where it waits: for the
semaphore of `run_tasks` (`idle`), for `_client_creation_lock` (`waiting`), for the
thread that makes a service or a sampler, for the drain of its service (`undo`), for
the answer (`sampling`). A thread is an actor of its own and goes on when its call
is cancelled; the loop hears of it only if the call is still there (`Hears`).
`sampler` and `service` are the provider's two client fields, `pollers` and
`services` what exists and is not drained. An answer is `ok`, `fatal` (a
status that opens the circuit) or `error`; everything that is wrong with a
response is the last. A drain may fail with either status too, and then the
service stays with the call (`undrained`, `undrained_fatal`). The lock is FIFO in the code and any order here, save that
an answer cannot overtake the call just woken (`last`). Clients that a caller
injects are left out: there is then nothing to make or to drain.

`ResponseContract`. `stage` is the statement `write_response_atomic` has reached;
`source` is the input, `work` the workbook in memory, `saved` what the temporary file
holds, `output` what the output path does, and `kept` is `preserved_cells`. A
workbook is its sheets, their contents and their merged ranges. An area is a
rectangle, and a whole-column one runs to the last row and is cut where the code
cuts it: the contract at the extent of the input and of the returned cells
(`Reach`), the evaluator at the extent of the output (`Reads`). A cell with a style
and no content, which `max_row` counts, has the same role as one with content.
What a value is does not matter, save to be refused: by validation (`Unsafe`) or by
openpyxl (`Unwritable`). `Defective` gathers the five differences that
`validate_response` reports, `Raised` what it raises. `Stored` is external: what
openpyxl may give back for what it was told to save. `Fails` is every exception that
the handlers turn into a copy of the input, from `build_target_contract`, `mkstemp`,
`save`, `load_workbook` and `os.replace` alike, at any time. Temporary files
are left out, since a unique name is never read again.

`ReplaySession`. `replaying` tells a replay from a run. A replay recovers, loads and
makes workspaces by the actions of `RunCoordinator` (`Shared`); its loop is its own:
`ReplayNext` writes a stored response, which succeeds or fails again, `ReplayStep`
goes through prepare, commit and remove, and `LeaveReplay` is an exception that
discards the workspaces without a marker. `Replayable` are the failures whose
only error is a failed write. What a stored response contains, and whether its
answer range still agrees, is a choice of the environment.

`PlanApplication`. `phase` is the statement `_apply_plan` has reached; `disk` is
the working copy, the candidate beside it and the temporary of the save;
`child` the worker process, an actor that loads, executes, checks, saves, reports
and exits, or dies anywhere. A file is absent, torn or a workbook. A python plan
stands for what its code is found to be: screened, safe, too big, and its result.
`Edit` is one operation on the workbook in memory, `PlanOperations` the
arithmetic of cells. A formula is the text it was given and how far it has been
moved since. A literal text that begins with `=` is a value where the code writes it
and a formula where a copy reads it (`plans.py:325`), so its copy is moved
(`Resembles`). A copy reads every array of the source sheet, also one that does not
meet the range, and is refused if one is larger than an operation may be
(`ArraysReadable`). The answer ranges keep their notations: whole columns, whole
rows, and the form `BD2:308`, whose right column is inherited. There is no action
for a kill of the parent: no file of a run is used again after one, and the
working copy is whole at every state.

`ContextBudget` and `ContextShares` have no state; a text is its length. In the first,
the cut record counts its own digits, refined twelve times. In the second, a cut that
looks back for a line end may find it anywhere within reach, so a clipped section has
a set of lengths. `RunDocuments` and `PlanContext` put them beside the components that
use them: `build_context` is called before the provider is (`runner.py`), and the
context of v2 is made once, when a task begins (`exactsource/runner.py`). Their
inputs are named assumptions: a record of a cell is not empty, since it is a
JSON object, ranges are finite, and a budget of v2 is positive, since
`build_context` refuses any other.

Abstractions. Manifest order is any order. The selection of tasks is the same in
all sessions, so `retry_task_not_selected` does not occur. The four payload
unlinks are one step, since nothing reads a payload without its marker. The
fallback inside `write_response_atomic` and the handler of `run_task` are both
`RaiseInWorker`. A first session is a session that finds no records. A
second SIGINT is a kill. A failure to construct the provider ends a session
exactly as stopping does.

## 3. Runs

| Run | Specification | Checks |
|---|---|---|
| `MCRunSafety` | `FairSpec`, all hazards, concurrency 2 | `Recoverable`, `NoCallForSuccess`, `ChecksNeverRefuse`, `RefusesOnlyFirstAttempts`, `ReportMatchesDirectory`, `ValidatorAgrees`, `DocumentFits`, the refinement `ImplementsLedger`, and `DrainEnds`, `RecoverySettles` |
| `MCReplay` | `FairSessions`, runs that SIGINT may interrupt, replays that may be killed or fail anywhere, concurrency 1 | `Resumable`, `ReplayReports`, `ReplayOnlyRepairs`, and `FinishedWorkIsKept` |
| `MCOwnership` | three runs, all captured, all direct or all of v2 | `OneOwner`, `RecordsAreKept` (of captured and v2 runs) |
| `MCOwnMixed` | two runs, captured and direct in one directory | `OneOwner`: violated |
| `MCTransport` | two attempts, seven events each | `RepliesAreWellFormed`, `ToldOnce`, `NoReplayOfDecoded` |
| `MCV2Safety` | `FairSpec`, a cell task and a sheet task, two threads, one repair, one retry, late errors anywhere but in an applied candidate | `ValidationAccepts`, `TraceIsHonest`, `CallBudget`, `MetricsTellTheRun`, the refinement `ImplementsBatch`, and `RunEnds` |
| `MCV2LateError` | late errors in applied candidates only | `OnlyAcceptedEdits`: violated |
| `MCApply` | `FairSpec`, every operation on the rectangles of a 2 by 4 grid, nine chains, five transforms with and without a repair | `CoverIsExact`, `ArraysAnchored`, `NothingLeftBehind`, `SharesAreFair`, `ContextFits`, `OnlyDeclaredCellsChange`, the refinement `ImplementsPromise`, and `ApplicationEnds` |
| `MCProvider` | `FairSpec`, four calls, concurrency 3 | `OneClient`, `OverrunIsBounded`, `NothingIsLeft`, and `WaitersLeave` |
| `MCProviderCircuit` | three calls, concurrency 2 | `CircuitStopsSampling`: violated |
| `MCContract` | three inputs, nine tasks, some 1,200 replies | `AllOrNothing`, `NothingElseChanges`, `EvaluatorReadsReturned` |
| `MCContractMade` | the same inputs, one task that makes the sheet it calls its `answer_sheet` | `MatchesEvaluator`: violated |

`MCRunSafety` has two tasks, two failed outcomes and one success (a failure replaced by a
different failure, and a failure replaced by a success, both occur; two failed
outcomes are needed to tell an old record from a new one). Two tasks suffice for
the interaction of interest, one task's checkpoint against another's commit.
There is no bound on sessions, kills or errors: the state space is finite.
`MCReplay` has one failure that may be replayed and one that may not. Runs in it
are not killed, since a kill of a first attempt may leave what no session accepts
(`RefusesOnlyFirstAttempts`); so `Resumable` says that nothing a replay does, killed
or not, leaves such a directory. In the same sessions `FinishedWorkIsKept` says that no
finished attempt is lost between its worker and the records.

`ValidatorAgrees` is about a validator started at any time, on the directory of a
session in progress or killed. It does not know the journal, and still what it
passes is right. `DocumentFits` runs over evidence for five cells in base 2, where
the number of digits changes at every power of two, and over tight and ample
budgets.

`MCApply` has the legacy answer forms, adjacent, overlapping and nested ranges, a
sheet that is missing, arrays that are copied whole, cut, copied again or too large
to be read, a text that a copy takes for a formula, merged cells, and limits (four operations, five cells an operation, twelve a plan) each of
which some plan exceeds. Nothing is assumed of the worker: `ApplicationEnds` rests
on the time limit. The contexts are four sections, one of them a manifest, some with
children, and every budget up to more than all of them need.
While modelling these parts three things were noted that contradict no document:
the reserve of `_section_allocations` (`_SAMPLE_SECTION_RESERVE_CHARS`) does not
change the division, two rounds of filling being one; `_payload_prefix` may drop the
last line of a body that fits whole; and `_compact_ranges`
(`formulabench/context.py:779`) claims the cells of a range before it is known
whether the range fits, so that a smaller repeat of them, which would, is passed over.

Seven events are a stream with an answer and one event more than it needs, so
that a second block, a second delta and a second message delta occur.
A connection that breaks inside the first frame with content is
retried, although `model.py:718` says that partial generations are never replayed:
`NoReplayOfDecoded` claims it of what was decoded. An `httpx.DecodingError` ends a
call without a report, although `model.py:716` says that one is made for every
attempt: `ToldOnce` excepts it.

One repair and one retry are `SEMANTIC_REPAIRS` and one less than
`TRANSPORT_RETRIES`: a call may leave zero, one or two records. Two
tasks make a queue as long as one of them has not been taken, and a worker may fail
while the other waits. `MetricsTellTheRun` is looked at when the threads have gone.
`MCV2LateError` shows another disagreement: `_apply_plan` promotes the candidate over the
working copy, and an error of the `chmod` that follows rejects a plan
whose edits stay; the repair is applied on top and published as a success
(`README.md:220`: "rejected work is replaced by a pristine input fallback").

Three processes are one that has the lock, one that prepares and one that
arrives later; four inodes leave a fresh one whenever each has one open.

The violation of ownership is a disagreement of code and documentation. A *direct* run
prepares the directory before it locks anything. `initialise` tests for
`run.log` and then replaces it, so that a supervisor that created and locked it
in between holds the lock of a file that is gone, and both become owners
(`ARCHITECTURE.md:494` promises one). `resume` likewise looks for
`predictions.jsonl` and writes an empty one later without looking again, which is
why `RecordsAreKept` is not claimed of direct runs. Captured runs, the
documented way to run, and v2 runs, which lock first and look then, have neither
problem: this is what is proved. A v1 and a v2 run started together in one empty
directory may also both own it, since one locks `run.log` and the other the directory.

Three calls at a time are one that makes the client and two that wait for it; the
fourth comes when the circuit may be open. `MCProviderCircuit` shows that
`complete` looks at the circuit only when it begins: a call that waits for the
lock while the creation fails with a fatal status makes a client of its own and
samples (`ARCHITECTURE.md:504`: the circuit "stops further sampling").
`OverrunIsBounded` says how far this can go.

One column of three rows and a limit of three cells are enough for a cell inside a
range and outside it, for a merge with a cell that is covered, for an area past the
extent of its sheet, and for a range just over the limit. Sheets are one that is active,
one that is not, and two titles to be made that differ only in case. Replies are
one or two parts, right and wrong, over these sheets.
`MCContractMade` shows that the contract and the evaluator do not always resolve an
unqualified range alike. `build_target_contract` looks for `answer_sheet` in the
input and falls back to the active sheet; `answer_cells` (`sb.py:69`) looks in the
output. If the same answer position names that sheet elsewhere and so makes it, the
answer is on one sheet and read from another, and the docstring's "matching the
shipped SpreadsheetBench helper" (`contract.py:565`) does not hold.
`EvaluatorReadsReturned` claims it for all other tasks.

`RefusesOnlyFirstAttempts` states the documented limit (`ARCHITECTURE.md:367`,
`:513`): a hard interruption of a *first* attempt may leave an orphan that makes
the next session refuse; a retry never does. It is about a clean root: a kill during a
checkpoint, or between the making and the unlinking of the write probe
(`artifacts.py:473`; every check makes one, before recovery, at a load and at the
end), leaves a temporary file there, which every later session refuses
(`RejectRoot`), whether it retries or not.

Fairness is `WF_vars(Coordinator)`: the event loop keeps running as long as it
has something to do. Nothing is assumed of the provider, which may never answer,
or of the operator, who may never start another session. `FairSessions` assumes the
same of a run, and nothing of a replay. In `PlanApplication` it is the parent's
thread only: the worker may hang for ever. In `V2Run` it is weak
fairness of the main thread and of every thread of the pool: the scheduler lets each
run, and every provider call ends, by the transport's timeouts (a server that sends
only pings for ever is the exception). In `ProviderGateway` it is weak fairness of
each call and each thread. It is not assumed that a request is answered: the code
sets no time limit for it, and nobody waits for the lock on its account.

## 4. Proofs

`RunProofs` proves, for every set of tasks and outcomes, any concurrency and any
hazards: `TypeCorrect`, `AlwaysRecoverable`, `SuccessIsNotCalledAgain`, `ChecksHold`,
`ImplementationOfLedger`, all from `InvariantHolds`.

`Recoverable` is not inductive. `Checkpoint` replaces the whole file by the
records in memory, so the invariant has to relate memory to the disk for all
tasks and not only the current one: `LoopInv` says that, while the loop or a
drain runs, a record in memory agrees with the file unless its task is being
published; `PreparedInv` and `CommitInv` say where a commit stands and what is
already published; `WorkInv` what a worker has written; `CreateInv` what a
workspace holds; `BeforeRunInv` that nothing is in flight earlier. The proof
goes action by action, first for the parts about the disk, then memory.
The assumptions are the named ones of `RetryJournal` and `RunCoordinator`
(sets of outcomes are disjoint from the special values).

Three more, `ReportIsTrue`, `OnlyFirstAttemptsAreRefused` and `ValidatorsAgree`, need
`ReportInv`. `SettleInv` relates what the loop has done with to the disk: a task that
is published has its record there, as in memory, and one that was retried had a
record all along; without the second part a session could end with a record in
memory that no checkpoint wrote. `LitterInv` says where a temporary file may still
be and that one in `outputs` or `traces` means a missing record, which is why only
a directory of first attempts is ever refused. `OrderInv` is the order of a commit:
the new record stands only over the new workbook and trace. The validator then
finds what the reload finds, since nothing is under way when it runs.

`ReplayProofs` proves the same directory safe when replays come among the runs:
`SessionsAreRecoverable`, `SessionTypes`, `ReplaysReportTheDirectory`,
`ReplaysOnlyRepair`, `SessionsImplementLedger` and `ReplaysLeaveResumable`. Its
`SessionInv` is `IInv` while a run is under way and `ReplayInv` while a replay is; before its
loop a replay takes steps of a run, so there `ReplayInv` includes `IInv` and the
lemmas of `RunProofs` are used again. In the loop it cannot: a replay has no
workers, and `LoopOfReplay` says instead that only the candidate of the current
section can be prepared while every other waits in its workspace or is settled.
The proof takes each durable step once, for what it does to the candidate
(`CandidateAfter`) and that it leaves the others alone (`CandidateFrame`).
`ReplaysLeaveResumable` has the hypothesis `Hazard \subseteq {"interrupt"}`, as its
run has: a *run* that is killed, or whose disk fails, between workbook and record
leaves an artefact without one, which is what `RefusesOnlyFirstAttempts` is about.
Replays may be killed and may fail anywhere.

`OwnershipProofs` proves for any number of runs, in a directory where all are
captured (`SupervisedOnly`), `CapturedRunsAreAlone` (`OneOwner`),
`CapturedOwnersHoldTheLog` and `LockedRunsKeepRecords`. Their invariant `SupervisedInv`
says that a process past the supervisor's lock holds it alone (`LockInv`), that the
file it has open is the one at the path (`LogInv`: nobody replaces a file that
exists), and so what it saw of `predictions.jsonl` is still so (`RecordsInv`). In a directory
of v2 runs (`V2Only`) `V2RunsAreAlone` needs less: nobody replaces the directory, so
whoever holds its lock is alone, and past the freshness check there are no records
but its own (`V2Inv`). `LockedRunsKeepRecords` is about both kinds.

`TransportProofs` proves, for any number of attempts, delays and streams of any
length, `TransportTypes`, `NoReplay` and `ReportsComplete`. The first two rest on
`FlagInv`: the flag `generated`, on which every decision to retry depends, is
set when an event with content was decoded, and a call waits only while it is
clear. The proof of `ReportsComplete` adds that a result is there exactly
when the call has ended.

`RepliesAreComplete` compares the decoder with a grammar that looks at the whole
stream: it counts the blocks opened before an event with `Cardinality` and looks
back for the one it belongs to. The decoder keeps a list, a flag and the last
reason. `StreamInv` says that the two agree after every event: each event was
allowed by what came before it (`PlaceInv`), the list has as many blocks as were
opened and the last one is the opener (`BlocksInv`), what the deltas said is
remembered (`DeltaInv`), nothing follows the stop (`StopInv`), and a text block with
content is there if one was sent (`AnswerInv`). Both directions are proved: what is
accepted was allowed, and what is refused would have broken the grammar for good,
since a longer stream keeps every event it has.

`V2RunProofs` proves, for any tasks, threads, repairs and retries,
`TypesHold`, `ClientOutlivesThreads` and `ValidationNeverComplains`, and, with the
hypothesis `"apply" \notin Late`, `RunImplementsBatch` and
`SuccessIsTheAcceptedPlan`: a late error of an applied candidate is the only way to
what `MCV2LateError` shows. The invariant says of each task what its `place`
implies about workbook, status and trace (`TaskInv`), and that the main thread writes
predictions only when all are done, which no thread can undo (`MainInv`).
In the refinement `WriteTrace` settles a task, `WritePredictions` delivers, and
everything else stutters.

Three theorems are about what the run tells of itself. `CallsAreBudgeted`: while
a task waits for an answer its earlier calls were all rejected, or there was one
and it was truncated (`CallDue`), so there was room for this call. `TracesAreHonest`:
the records before `before[t]` tell of the calls that ended (`Told`), those after it
are of the call under way and are not yet marked (`Pending`), and none is signed
before the trace is written (`Unsigned`). `FiguresAreTrue`, of the metrics: an
attempt that was not retried ended its call, a call with a record has exactly one
that ends it (`Ending`), records say truly whether their call recovers
(`Recovers`), and only the last call of a task is accepted (`AcceptedLast`). The counts
follow by injections between finite sets: an attempt that was not retried to its
call, a call to its last record, a success to its accepted call.

`ProviderProofs` proves, for any finite set of calls and any concurrency,
`ProviderTypes`, `CircuitHasACause`, `OneClientIsMade`, `OverrunHasABound` and
`ClosedIsDrained`. `CircuitHasACause` (`OpenedByFatal`) says that the circuit is open
exactly when some call ended with a fatal status, of its request or of a drain, and
that calls are refused only then: nothing else opens it and nothing closes it. That one
sampler is made needs to know that whoever makes one holds the lock
(`LockInv`, `ThreadInv`) and that there was none before (`AloneInv`); a cancelled call
may leave its thread at work, but then no call begins any more. `OwnerInv` says
whose every undrained client is, which is what `close` relies on. For the bound,
`CircuitInv` counts the calls that have sent late together with those that still
may: there are at most as many as are inside `complete`, the one that opens the
circuit leaves it, and nobody joins them (`OverrunShrinks`).

`ContractProofs` proves, for sheets, workbooks, tasks and replies of any number and
size, `TypesHold`, `ResponseIsAllOrNothing`, `EditsStayInRange` and
`EvaluatorReadsAnswers`, all from `InvariantHolds`. `IInv` says for each stage what has been
established so far and how `work` differs from `source`. Two facts carry the
rest. Since a covered cell is blank (`Sound`), a skipped assignment to one is an
assignment of the blank it was asked for, which is why `Verified` may pass over it. And
since a saved workbook agrees with the reply on every returned cell, its extent
can exceed the input's only where the reply reached (`ExtentIsReached`), so what the
evaluator reads the contract had required.

`PlanProofs` proves, for workbooks, declared ranges, plans and limits of any size,
`PlanTypes`, `LeavesNothing`, `CoverDecides`, `StaysInside`, `ArraysStayAnchored` and
`PlansKeepThePromise`. `PlanInv` says for each phase what was left on the disk and of
the worker (`Quiet`), what was found of the plan (`Judged`), and that the workbook in
memory is what the first `next - 1` operations make of the working copy (`Editing`):
only with that is the candidate the whole plan, and a plan that stops half way
nothing. What `n` operations do is a recursive function (`Made`), so the facts about
plans are proved by induction over the natural numbers, from the least
counterexample (`SetInduction`). `CoverDecides` compares the walk over sorted
intervals with the cells themselves; the walk is a fold, whose value after each
interval is shown to be the end of what is covered so far. `ArraysStayAnchored`
assumes that the workbooks that come in, of the source and of the transforms,
have anchored arrays; TLC evaluates that for the instance (`ArraysComeAnchored`).
`PlanApplication` names what it assumes of its constants, such as that a workbook is
never one of the marks for an absent or a torn file.

Three theorems are about what the two context algorithms compute, for any evidence,
sections and budgets. Nothing in a reachable state bounds these inputs, so there is
no invariant to strengthen; the work is in the folds. A fold over a sequence is shown
to exist as a function of the prefixes (`FoldExists`), which gives its value after
each element, and what holds after every element is then an induction
(`SetInduction`). `PlanProofs` and `RunProofs` each carry these lemmas.

- `SharesStayFair` (`PlanProofs`). While `_fair_allocations` divides (`Filling`), whoever
  is active has nothing yet, the others are full, at no more than an equal share of
  what is left, and what was given and what is left add up to the budget. A turn
  that is not the last saturates somebody, so `Len(capacities) + 1` turns are
  enough, and the last one gives the first few a character more. That the
  two rounds of `_section_allocations`, a reserve and then the rest, are together
  fair is a lemma of its own (`TwoRoundsAreOne`): if the first round left anybody
  short of the reserve it used up the budget, and otherwise the second starts level.
- `ContextsStayWithin` (`PlanProofs`). Every length that a section may be cut to is
  within its share: payloads within their shares, which sum to no more than is
  available after headings, separators and the omission line. The sum of the
  sections and the marker is then within the budget.
- `DocumentsFit` (`RunProofs`). The number of digits grows with a number, by one at
  most when the number is doubled. So the count of a cut record, started from
  zero, is right at the fourth refinement and stays (`FourthIsRight`), well before
  the twelfth, and it grows with what is counted (`FourthGrows`). One more cell makes
  the omitted one fewer, which may save a digit, and may turn `true` to `false`,
  which costs one; a record has at least one character, so the whole count
  does not shrink (`OneMoreCounts`). Hence a cell that does not fit never fits
  later (`NeverFitsAgain`), and one pass over the candidates leaves out none
  that still would.

Only model-checked: liveness under fairness (`DrainEnds`, `RecoverySettles`,
`FinishedWorkIsKept`, `RunEnds`, `WaitersLeave`, `ApplicationEnds`) and everything that
needs `ENABLED`, which is out of the prover's reach. Every other property of a
passing run is a theorem.
The runs that expect a violation have no theorem; `SuccessIsTheAcceptedPlan` and
`OwnershipProofs` prove the same properties under the hypothesis that excludes it.

## 5. Left out

Power loss (`ARCHITECTURE.md:519` disclaims it; the first write of a workbook
does not fsync), damage by other programs, symlink checks, the wording of
records. In the contract, the syntax of JSON and of A1 references, what makes a
formula unsafe, and styles. In the capture supervisor, signals and the copying of the
child's output: supervisor and child are one process. In the gateway, the
parsing of a native answer.

In `PlanApplication`, styles; the drop of privileges of a worker started as
root; an `unlink` that fails during cleanup. The python route is held to the
existence of the answer sheets and not to the declared cells, since the code does not
ask for more, so `OnlyDeclaredCellsChange` is about the other route; and the
code does not look whether a new array's ref overlaps an old array, so
`ArraysAnchored` does not claim that they are disjoint.

Reading workbooks, rendering contexts and prompts, formula tokens and scoring are
sequential and keep no state; of scoring, only which cells it reads is modelled.
Training, experiments, scripts and presentation are outside a run.

## 6. Plan

1. Done: journal, coordinator, ledger, proofs.
2. Done: ownership of the output directory by v1 and v2, with proofs.
3. Done: provider calls, client creation, circuit, close, with proofs.
4. Done: v2 transport retries and stream decoder, with proofs.
5. Done: v2 call policy, thread pool, promotion, validation, metrics, with proofs.
6. Done: validation, editing and installation of an answer, with proofs.
7. Done: replay, the output validator, v2 plans and sandbox, both context budgets,
   with proofs.
8. Signals of the capture supervisor; the grammar of a native answer.
