-------------------------- MODULE ResponseContract --------------------------
(***************************************************************************)
(* write_response_atomic of formulabench/contract.py: a model's response   *)
(* to one task, from its JSON to the workbook installed at the output      *)
(* path, and the cells that the organiser's evaluator (sb.py) then reads.  *)
(*                                                                         *)
(* A workbook has a set of sheets, the contents of their cells and their   *)
(* merged ranges.  An area is a rectangle of cells; a whole-column area    *)
(* reaches the last row of Excel, and is cut at a sheet's extent when it   *)
(* is expanded.  A part of a response is a cell, a fill or a preserve      *)
(* range.  Formula safety and type checks are two values of a part:        *)
(* Unsafe is refused by validation, Unwritable raises when it is assigned. *)
(***************************************************************************)
EXTENDS Naturals, Sequences, FiniteSets, SequencesExt

CONSTANTS
  Name,        \* titles of worksheets
  Key,         \* the case-folded title of each name
  Creatable,   \* the names Excel allows
  Columns,     \* EXCEL_MAX_COLUMN
  Rows,        \* EXCEL_MAX_ROW
  Limit,       \* MAX_EXPANDED_RESPONSE_CELLS
  Value,       \* contents of a cell
  Blank, Keep, Unsafe, Unwritable, None,
  Books, Tasks, Replies

Cell == (1 .. Columns) \X (1 .. Rows)
Area == [left: 1 .. Columns, right: 1 .. Columns, top: 1 .. Rows, bottom: 1 .. Rows,
         whole: BOOLEAN]
Content == Value \cup {Blank}

Workbook == [sheets: SUBSET Name, active: Name, held: [Name -> [Cell -> Content]],
             merged: [Name -> SUBSET Area]]
Task == [parts: Seq([sheet: Name \cup {None}, area: Area]), answerSheet: Name \cup {None}]
Reply == [parts: Seq([sheet: Name, area: Area, value: Content \cup {Keep, Unsafe, Unwritable}]),
          unmerge: Seq([sheet: Name, area: Area])]

VARIABLES
  stage,    \* where write_response_atomic is
  task,
  reply,    \* the response
  source,   \* the input workbook
  work,     \* the workbook in memory
  kept,     \* preserved_cells: each with its signature
  saved,    \* what the temporary file holds
  output    \* what is at the output path; None: what was there before

vars == <<stage, task, reply, source, work, kept, saved, output>>

-----------------------------------------------------------------------------
(* Geometry of ranges and sheets.                                          *)

CellsOf(area) == {c \in Cell: /\ c[1] \in area.left .. area.right
                              /\ c[2] \in area.top .. area.bottom}

Anchor(area) == <<area.left, area.top>>

\* A MergedCell: covered by a merged range, and not its top-left cell.
Inner(book, s, c) == \E a \in book.merged[s]: c \in CellsOf(a) /\ c # Anchor(a)

\* A cell that a merged range covers is empty; a title without a sheet has
\* neither content nor merges.
Sound(book) ==
  \A n \in Name:
    /\ \A c \in Cell: Inner(book, n, c) => book.held[n][c] = Blank
    /\ n \notin book.sheets =>
         book.merged[n] = {} /\ \A c \in Cell: book.held[n][c] = Blank

ASSUME ContractAssumption ==
  /\ Columns \in Nat \ {0} /\ Rows \in Nat \ {0} /\ Limit \in Nat
  /\ Books \subseteq Workbook
  /\ Tasks \subseteq Task /\ Replies \subseteq Reply
  /\ Content \cap {Keep, Unsafe, Unwritable, None} = {}
  /\ Keep \notin {Unsafe, Unwritable}
  /\ None \notin Name /\ None \notin Workbook
  /\ Creatable \subseteq Name
  /\ \A book \in Books: book.active \in book.sheets /\ Sound(book)

\* The rows up to max_row: the first, and all above a cell that is there.
Extent(book, s) ==
  {r \in 1 .. Rows: \/ r = 1
                    \/ \E c \in Cell: /\ r <= c[2]
                                      /\ book.held[s][c] # Blank \/ Inner(book, s, c)}

Size(parts) == FoldLeft(LAMBDA n, p: n + Cardinality(CellsOf(p.area)), 0, parts)

-----------------------------------------------------------------------------
(* The evaluator: answer_cells of sb.py over a workbook it has opened.      *)

Found(book, part) ==
  LET named == IF part.sheet = None THEN task.answerSheet ELSE part.sheet
  IN  IF named \in book.sheets THEN named ELSE book.active

Reads(book) ==
  UNION {{<<Found(book, p), c>>:
            c \in {d \in CellsOf(p.area): p.area.whole => d[2] \in Extent(book, Found(book, p))}}
         : p \in ToSet(task.parts)}

-----------------------------------------------------------------------------
(* The target contract.                                                    *)

\* The titles that are asked for by name and are not in the input.
New(book) == {p.sheet: p \in ToSet(task.parts)} \ (book.sheets \cup {None})

\* One that Excel refuses, or that differs only by case from another.
Uncreatable(book) ==
  \E n \in New(book): \/ n \notin Creatable
                      \/ \E m \in (book.sheets \cup New(book)) \ {n}: Key[m] = Key[n]

Home(book, part) ==
  IF part.sheet # None THEN part.sheet
  ELSE IF task.answerSheet \in book.sheets THEN task.answerSheet ELSE book.active

Targets(book) == {[sheet |-> Home(book, p), area |-> p.area]: p \in ToSet(task.parts)}

-----------------------------------------------------------------------------
(* Validation.                                                             *)

Covers(parts) == UNION {{<<p.sheet, c>>: c \in CellsOf(p.area)}: p \in parts}
Authors == {p \in ToSet(reply.parts): p.value # Keep}
Preserves == {p \in ToSet(reply.parts): p.value = Keep}
Returned == Covers(ToSet(reply.parts))

\* Mutant: only the returned rows count.
ReachOfReply(book, s) == {r \in 1 .. Rows: r = 1 \/ \E k \in Returned: k[1] = s /\ r <= k[2][2]}

\* The rows of a whole-column target: those of the sheet, and those up to
\* the last cell returned for it.
Reach(book, s) ==
  (IF s \in book.sheets THEN Extent(book, s) ELSE {1})
    \cup {r \in 1 .. Rows: \E k \in Returned: k[1] = s /\ r <= k[2][2]}

Expected(book) ==
  UNION {{<<t.sheet, c>>: c \in {d \in CellsOf(t.area): t.area.whole => d[2] \in Reach(book, t.sheet)}}
         : t \in Targets(book)}

ExpectedSize(book) ==
  FoldLeft(LAMBDA n, p: n + Cardinality({c \in CellsOf(p.area):
                                           p.area.whole => c[2] \in Reach(book, Home(book, p))}),
           0, task.parts)

PreservesNew(book) == \E p \in Preserves: p.sheet \in New(book)

PreservesBeyond(book) ==
  \E p \in Preserves, t \in Targets(book):
    t.area.whole /\ t.sheet = p.sheet /\ p.area.bottom \notin Extent(book, p.sheet)

Repeats(seq) == \E i, j \in DOMAIN seq: i # j /\ seq[i] = seq[j]

Overlaps(parts) ==
  \E i, j \in DOMAIN parts: /\ i # j /\ parts[i].sheet = parts[j].sheet
                            /\ CellsOf(parts[i].area) \cap CellsOf(parts[j].area) # {}

\* An unmerge that is not of a merged range that a target touches.
Unasked(book, u) ==
  \/ u.sheet \notin book.sheets \/ u.area \notin book.merged[u.sheet]
  \/ \A t \in Targets(book): t.sheet # u.sheet \/ CellsOf(t.area) \cap CellsOf(u.area) = {}

\* What raises ContractError before a response is compared with its target.
Raised(book) ==
  \/ PreservesNew(book) \/ PreservesBeyond(book)
  \/ Size(reply.parts) > Limit \/ ExpectedSize(book) > Limit
  \/ \E p \in ToSet(reply.parts): p.value = Unsafe

\* Mutant: cells outside the answer range are accepted.
DefectiveButExtra(book) ==
  \/ Overlaps(reply.parts)
  \/ ~(Expected(book) \subseteq Returned)
  \/ Repeats(reply.unmerge)
  \/ \E u \in ToSet(reply.unmerge): Unasked(book, u)

\* duplicate, missing and extra cells; duplicate and extra unmerge ranges.
Defective(book) ==
  \/ Overlaps(reply.parts)
  \/ ~(Expected(book) \subseteq Returned)
  \/ ~(Returned \subseteq Expected(book))
  \/ Repeats(reply.unmerge)
  \/ \E u \in ToSet(reply.unmerge): Unasked(book, u)

-----------------------------------------------------------------------------
(* Editing and saving.                                                     *)

\* What a preserved cell must still be: its kind and its content.
Signature(book, k) == <<Inner(book, k[1], k[2]), book.held[k[1]][k[2]]>>

Asked(k) == (CHOOSE p \in Authors: p.sheet = k[1] /\ k[2] \in CellsOf(p.area)).value

\* A value for a cell that a merged range covers, or one openpyxl refuses.
Unassignable(k) ==
  \/ Inner(work, k[1], k[2]) /\ Asked(k) # Blank
  \/ Asked(k) = Unwritable

Assigned == [work EXCEPT !.held =
  [s \in Name |-> [c \in Cell |->
     IF <<s, c>> \in Covers(Authors) /\ ~Inner(work, s, c)
       THEN Asked(<<s, c>>) ELSE work.held[s][c]]]]

Unmerged == [work EXCEPT !.merged =
  [s \in Name |-> work.merged[s] \ {u.area: u \in {v \in ToSet(reply.unmerge): v.sheet = s}}]]

\* What openpyxl may make of a workbook that it saves and opens again: it
\* may change a content, bring back a merge or lose a sheet that was added.
Changed(book, k, x) == [book EXCEPT !.held[k[1]][k[2]] = x]
Remerged(book, u) == [book EXCEPT !.merged[u.sheet] = @ \cup {u.area}]
Without(book, n) == [book EXCEPT !.sheets = @ \ {n}]

Stored(book) ==
  {book}
  \cup {Changed(book, k, x):
          k \in {l \in Name \X Cell: book.held[l[1]][l[2]] # Blank}, x \in Content}
  \cup {Remerged(book, u): u \in ToSet(reply.unmerge)}
  \cup {Without(book, n): n \in New(source)}

\* Mutant: preserved cells are not looked at again.
VerifiedAuthored ==
  /\ New(source) \subseteq saved.sheets
  /\ \A k \in Covers(Authors): ~Inner(work, k[1], k[2]) => saved.held[k[1]][k[2]] = Asked(k)
  /\ \A u \in ToSet(reply.unmerge): u.area \notin saved.merged[u.sheet]

\* _verify_saved_workbook.
Verified ==
  /\ New(source) \subseteq saved.sheets
  /\ \A k \in Covers(Authors): ~Inner(work, k[1], k[2]) => saved.held[k[1]][k[2]] = Asked(k)
  /\ \A k \in DOMAIN kept: Signature(saved, k) = kept[k]
  /\ \A u \in ToSet(reply.unmerge): u.area \notin saved.merged[u.sheet]

-----------------------------------------------------------------------------
(* write_response_atomic.                                                  *)

Init ==
  /\ stage = "paths"
  /\ task \in Tasks /\ reply \in Replies /\ source \in Books
  /\ work = source /\ kept = <<>> /\ saved = source
  /\ output = None

Moves(from, to) == stage = from /\ stage' = to

\* A handler of write_response_atomic answers with _failure_result.
Fails(from) ==
  /\ Moves(from, "fallback")
  /\ UNCHANGED <<task, reply, source, work, kept, saved, output>>

\* The input is no file, or it is the output: nothing is written.
CheckPaths ==
  /\ Moves("paths", "parse") \/ Moves("paths", "refused")
  /\ UNCHANGED <<task, reply, source, work, kept, saved, output>>

\* parse_response: exact JSON, and the schema.
ParseResponse ==
  \/ /\ Moves("parse", "load")
     /\ UNCHANGED <<task, reply, source, work, kept, saved, output>>
  \/ Fails("parse")

LoadWorkbook ==
  \/ /\ Moves("load", "contract")
     /\ work' = source
     /\ UNCHANGED <<task, reply, source, kept, saved, output>>
  \/ Fails("load")

\* build_target_contract; it may also fail to read the task's metadata.
BuildTargets ==
  \/ /\ ~Uncreatable(work)
     /\ Moves("contract", "validate")
     /\ UNCHANGED <<task, reply, source, work, kept, saved, output>>
  \/ Fails("contract")

\* validate_response.  Defects are answered with a copy of the input inside
\* the try block.
Validate ==
  \/ Raised(work) /\ Fails("validate")
  \/ /\ ~Raised(work)
     /\ \/ Defective(work) /\ Moves("validate", "rejected")
        \/ ~Defective(work) /\ Moves("validate", "create")
     /\ UNCHANGED <<task, reply, source, work, kept, saved, output>>

\* openpyxl may give a new sheet another title.
CreateSheets ==
  \/ /\ Moves("create", "snapshot")
     /\ work' = [work EXCEPT !.sheets = @ \cup New(source)]
     /\ UNCHANGED <<task, reply, source, kept, saved, output>>
  \/ New(source) # {} /\ Fails("create")

\* Preserved cells are looked at before a range is unmerged.
Snapshot ==
  /\ Moves("snapshot", "unmerge")
  /\ kept' = [k \in Covers(Preserves) |-> Signature(work, k)]
  /\ UNCHANGED <<task, reply, source, work, saved, output>>

Unmerge ==
  /\ Moves("unmerge", "assign")
  /\ work' = Unmerged
  /\ UNCHANGED <<task, reply, source, kept, saved, output>>

Assign ==
  \/ /\ \A k \in Covers(Authors): ~Unassignable(k)
     /\ Moves("assign", "save")
     /\ work' = Assigned
     /\ UNCHANGED <<task, reply, source, kept, saved, output>>
  \/ /\ \E k \in Covers(Authors): Unassignable(k)
     /\ Fails("assign")

\* mkstemp and save may raise.
Save ==
  \/ /\ Moves("save", "verify")
     /\ saved' \in Stored(work)
     /\ UNCHANGED <<task, reply, source, work, kept, output>>
  \/ Fails("save")

\* The file may not open again.
Verify ==
  \/ /\ Verified
     /\ Moves("verify", "replace")
     /\ UNCHANGED <<task, reply, source, work, kept, saved, output>>
  \/ Fails("verify")

Replace ==
  \/ /\ Moves("replace", "done")
     /\ output' = saved
     /\ UNCHANGED <<task, reply, source, work, kept, saved>>
  \/ Fails("replace")

\* A copy that fails in the try block is tried once more by its handler.
RejectedCopy ==
  \/ /\ Moves("rejected", "failed")
     /\ output' = source
     /\ UNCHANGED <<task, reply, source, work, kept, saved>>
  \/ Fails("rejected")

\* _atomic_copy; if it raises, so does write_response_atomic.
FallbackCopy ==
  \/ /\ Moves("fallback", "failed")
     /\ output' = source
     /\ UNCHANGED <<task, reply, source, work, kept, saved>>
  \/ /\ Moves("fallback", "raised")
     /\ UNCHANGED <<task, reply, source, work, kept, saved, output>>

Next ==
  \/ CheckPaths \/ ParseResponse \/ LoadWorkbook \/ BuildTargets \/ Validate
  \/ CreateSheets \/ Snapshot \/ Unmerge \/ Assign \/ Save \/ Verify \/ Replace
  \/ RejectedCopy \/ FallbackCopy

Spec == Init /\ [][Next]_vars

-----------------------------------------------------------------------------
Stages == {"paths", "refused", "parse", "load", "contract", "validate", "rejected", "create",
           "snapshot", "unmerge", "assign", "save", "verify", "replace", "done",
           "fallback", "failed", "raised"}

\* Cells hold contents and no part of the response (Keep, Unsafe or
\* Unwritable); a workbook in memory has content on its own sheets only.
TypeOK ==
  /\ stage \in Stages
  /\ task \in Task /\ reply \in Reply /\ source \in Books
  /\ work \in Workbook /\ saved \in Workbook /\ output \in Workbook \cup {None}
  /\ DOMAIN kept \subseteq Name \X Cell
  /\ \A n \in Name \ work.sheets, c \in Cell: work.held[n][c] = Blank

\* Everything the response asks for is in the book, and what it preserves
\* is as it is in the input.
Answers(book) ==
  /\ New(source) \subseteq book.sheets
  /\ \A k \in Covers(Authors): book.held[k[1]][k[2]] = Asked(k)
  /\ \A k \in Covers(Preserves): Signature(book, k) = Signature(source, k)
  /\ \A u \in ToSet(reply.unmerge): u.area \notin book.merged[u.sheet]

\* The docstring of write_response_atomic, "Install a complete response
\* atomically, otherwise copy the input bytes", whatever fails on the way
\* and whatever openpyxl loses: at every step the output is what it was, the
\* input, or a workbook with all that the response asks for.
AllOrNothing ==
  /\ stage \notin {"done", "failed"} => output = None
  /\ stage = "failed" => output = source
  /\ stage = "done" => output # None /\ Answers(output)

\* What is edited in memory differs from the input by the sheets that the
\* task names, cells of the answer range, and merges that touch it.
NothingElseChanges ==
  stage \in {"save", "verify", "replace", "done"} =>
    /\ work.sheets = source.sheets \cup New(source)
    /\ \A s \in Name, c \in Cell:
         work.held[s][c] # source.held[s][c] =>
           \E t \in Targets(source): t.sheet = s /\ c \in CellsOf(t.area)
    /\ \A s \in Name:
         /\ work.merged[s] \subseteq source.merged[s]
         /\ \A a \in source.merged[s] \ work.merged[s]:
              \E t \in Targets(source): t.sheet = s /\ CellsOf(t.area) \cap CellsOf(a) # {}

\* An unqualified range has an answer_sheet that the output gets and the
\* input has not: contract and evaluator find different sheets for it.
ResolvedTwice == task.answerSheet \in New(source) /\ \E p \in ToSet(task.parts): p.sheet = None

\* Each cell the evaluator reads of an installed output was returned by the
\* model, though the contract cuts a whole-column range by the input and the
\* response, and the evaluator by the output.
EvaluatorReadsReturned ==
  stage = "done" /\ ~ResolvedTwice => Reads(output) \subseteq Returned

\* The docstring of build_target_contract, without that exception: "Unqualified
\* ranges use answer_sheet only when it exists exactly; otherwise they target
\* the workbook's active sheet, matching the shipped SpreadsheetBench helper".
MatchesEvaluator == stage = "done" => Reads(output) \subseteq Returned

=============================================================================
