--------------------------- MODULE PlanOperations ---------------------------
(***************************************************************************)
(* The declarative operations of a v2 plan (exactsource/plans.py) on a     *)
(* workbook, and the answer ranges they must keep to                       *)
(* (exactsource/ranges.py).                                                *)
(*                                                                         *)
(* A workbook is a function from its worksheets to their grids.  A formula *)
(* is the text it was first given and how far it has been moved since; a   *)
(* value that is in Formula too is a literal text that begins like one;    *)
(* styles are left out.                                                    *)
(***************************************************************************)
EXTENDS Integers, Sequences, FiniteSets, SequencesExt

CONSTANTS
  Sheet,
  Value,
  Formula,
  Unsafe,             \* the formulas that _formula refuses
  Untranslatable,     \* those that openpyxl's Translator cannot tokenise
  Merged,             \* the covered cells of merged ranges, as <<sheet, cell>>
  MaxRow,             \* MAX_EXCEL_ROW
  MaxColumn,          \* MAX_EXCEL_COLUMN
  MaxOperations,      \* MAX_PLAN_OPERATIONS
  MaxOperationCells,  \* MAX_OPERATION_CELLS
  MaxPlanWrites       \* MAX_PLAN_CELL_WRITES

ASSUME GridAssumption ==
  /\ MaxRow \in Nat \ {0} /\ MaxColumn \in Nat \ {0}
  /\ MaxOperations \in Nat /\ MaxOperationCells \in Nat /\ MaxPlanWrites \in Nat
  /\ Unsafe \subseteq Formula /\ Untranslatable \subseteq Formula

Cell == (1 .. MaxRow) \X (1 .. MaxColumn)

(* Bounds as the code has them, inclusive.                                 *)
Rectangle == [top : Int, left : Int, bottom : Int, right : Int]

Rect(top, left, bottom, right) ==
  [top |-> top, left |-> left, bottom |-> bottom, right |-> right]

At(cell) == Rect(cell[1], cell[2], cell[1], cell[2])

CellsOf(r) == (r.top .. r.bottom) \X (r.left .. r.right)

Size(r) == (r.bottom - r.top + 1) * (r.right - r.left + 1)

TopLeft(r) == <<r.top, r.left>>

Moved(r, by) ==
  Rect(r.top + by[1], r.left + by[2], r.bottom + by[1], r.right + by[2])

Blank == [kind |-> "blank"]

Entry(f, shift) == [kind |-> "formula", of |-> f, shift |-> shift]

ArrayEntry(f, shift, ref) ==
  [kind |-> "array", of |-> f, shift |-> shift, ref |-> ref]

Content ==
  {Blank, [kind |-> "table"]}
    \cup [kind : {"value"}, of : Value]
    \cup [kind : {"formula"}, of : Formula, shift : Int \X Int]
    \cup [kind : {"array"}, of : Formula, shift : Int \X Int,
          ref : Rectangle]

IsWorkbook(b) == \E sheets \in SUBSET Sheet : b \in [sheets -> [Cell -> Content]]

(* What parse_plan makes of a proposed operation.                          *)
PlanOperation ==
  [op : {"set_value"}, sheet : Sheet, cell : Int \X Int, value : Value]
    \cup [op : {"set_formula", "set_array_formula"}, sheet : Sheet,
          cell : Int \X Int, formula : Formula]
    \cup [op : {"fill_formula", "fill_array_formula"}, sheet : Sheet,
          range : Rectangle, formula : Formula]
    \cup [op : {"clear_range"}, sheet : Sheet, range : Rectangle]
    \cup [op : {"copy_range"}, source_sheet : Sheet, source_range : Rectangle,
          sheet : Sheet, cell : Int \X Int]

-----------------------------------------------------------------------------
(* The declared answer ranges.  A zero is a bound the notation leaves out: *)
(* both rows of a column range, both columns of a row range, and the right *)
(* column of the legacy form BD2:308, which inherits the left one.         *)

AnswerOk(cells) ==
  /\ cells.bottom <= MaxRow /\ cells.right <= MaxColumn /\ cells.left <= MaxColumn
  /\ cells.top <= cells.bottom
  /\ cells.right # 0 => cells.left <= cells.right

RangeBounds(cells) ==
  Rect(IF cells.top = 0 THEN 1 ELSE cells.top,
       IF cells.left = 0 THEN 1 ELSE cells.left,
       IF cells.bottom = 0 THEN MaxRow ELSE cells.bottom,
       IF cells.left = 0 THEN MaxColumn
       ELSE IF cells.right = 0 THEN cells.left ELSE cells.right)

AnswerBounds(answers, sheet) ==
  {RangeBounds(a.cells) : a \in {x \in answers : x.sheet = sheet}}

AnswersUsable(book, answers) ==
  /\ answers # {}
  /\ \A a \in answers : a.sheet \in DOMAIN book /\ AnswerOk(a.cells)

Earlier(i, j) == i[1] < j[1] \/ (i[1] = j[1] /\ i[2] < j[2])

(* The declared columns of a row that meet the rectangle, in their order.  *)
Meeting(row, r, allowed) ==
  {<<a.left, a.right>> : a \in {x \in allowed : /\ x.top <= row /\ row <= x.bottom
                                               /\ x.right >= r.left /\ x.left <= r.right}}

Intervals(row, r, allowed) ==
  CHOOSE s \in SetToSeqs(Meeting(row, r, allowed)) :
    \A i, j \in DOMAIN s : i < j => Earlier(s[i], s[j])

(* Mutant: an interval that is inside an earlier one moves the cursor back. *)
AdvanceAnywhere(cursor, interval) ==
  IF interval[1] > cursor THEN cursor ELSE interval[2] + 1

(* A gap stops the cursor for good: the later intervals start no earlier.  *)
Advance(cursor, interval) ==
  IF interval[2] < cursor \/ interval[1] > cursor THEN cursor
  ELSE IF interval[2] + 1 > cursor THEN interval[2] + 1 ELSE cursor

RectangleIsCovered(r, allowed) ==
  \A row \in r.top .. r.bottom :
    FoldLeft(Advance, r.left, Intervals(row, r, allowed)) > r.right

-----------------------------------------------------------------------------
(* What an operation writes, and the checks before the first one.          *)

Copies(op) == op.op = "copy_range"

Ranged(op) == op.op \in {"fill_formula", "fill_array_formula", "clear_range"}

InGrid(cell) ==
  /\ 1 <= cell[1] /\ cell[1] <= MaxRow
  /\ 1 <= cell[2] /\ cell[2] <= MaxColumn

RangeOk(r) ==
  /\ r.top <= r.bottom /\ r.left <= r.right
  /\ InGrid(TopLeft(r)) /\ InGrid(<<r.bottom, r.right>>)
  /\ Size(r) <= MaxOperationCells

Destination(op) ==
  IF Copies(op)
  THEN Moved(op.source_range, <<op.cell[1] - op.source_range.top,
                                op.cell[2] - op.source_range.left>>)
  ELSE IF Ranged(op) THEN op.range ELSE At(op.cell)

Addressable(op) ==
  /\ Ranged(op) => RangeOk(op.range)
  /\ ~Ranged(op) => InGrid(op.cell)
  /\ Copies(op) => /\ RangeOk(op.source_range)
                   /\ Destination(op).bottom <= MaxRow
                   /\ Destination(op).right <= MaxColumn

PlanWrites(ops) ==
  FoldLeft(LAMBDA n, op : n + Size(Destination(op)), 0, ops)

WithinLimits(ops) ==
  /\ Len(ops) <= MaxOperations
  /\ \A i \in DOMAIN ops : Addressable(ops[i])
  /\ PlanWrites(ops) <= MaxPlanWrites

(* Mutant: only the top left cell of the destination is looked at.         *)
InScopeAtItsCorner(book, answers, op) ==
  /\ AnswersUsable(book, answers)
  /\ RectangleIsCovered(At(TopLeft(Destination(op))), AnswerBounds(answers, op.sheet))

InScope(book, answers, op) ==
  /\ AnswersUsable(book, answers)
  /\ RectangleIsCovered(Destination(op), AnswerBounds(answers, op.sheet))

-----------------------------------------------------------------------------
(* One operation on the workbook in memory: whether it goes through, and   *)
(* what the workbook is then.  What one that raises leaves is discarded.   *)

IsArray(content) == content.kind = "array"

Overlap(r, s) == CellsOf(r) \cap CellsOf(s) # {}

(* The array formulas of the source that the copied range meets.           *)
ArraysMet(grid, r) ==
  {c \in Cell : IsArray(grid[c]) /\ Overlap(grid[c].ref, r)}

(* A literal that begins like a formula is copied as one.                  *)
Resembles(content) == content.kind = "value" /\ content.of \in Formula

Copyable(content) ==
  /\ content.kind # "table"
  /\ content.kind \in {"formula", "array"} \/ Resembles(content)
       => content.of \notin Unsafe \cup Untranslatable

(* The ref of every array of the sheet is read, also of those not met.     *)
ArraysReadable(grid) == \A c \in Cell : IsArray(grid[c]) => RangeOk(grid[c].ref)

WholeArrays(grid, r) ==
  /\ ArraysReadable(grid)
  /\ \A c \in ArraysMet(grid, r) : CellsOf(grid[c].ref) \subseteq CellsOf(r)

Writable(op) ==
  \A c \in CellsOf(Destination(op)) : <<op.sheet, c>> \notin Merged

Applies(book, op) ==
  /\ op.sheet \in DOMAIN book
  /\ Writable(op)
  /\ op.op \in {"set_formula", "fill_formula", "set_array_formula", "fill_array_formula"}
       => op.formula \notin Unsafe
  /\ op.op = "fill_formula" => op.formula \notin Untranslatable
  /\ Copies(op) =>
       /\ op.source_sheet \in DOMAIN book
       /\ WholeArrays(book[op.source_sheet], op.source_range)
       /\ \A c \in CellsOf(op.source_range) : Copyable(book[op.source_sheet][c])

(* A content that is moved takes its formula, and its ref, along.          *)
Translated(content, by) ==
  IF content.kind = "formula"
  THEN Entry(content.of, <<content.shift[1] + by[1], content.shift[2] + by[2]>>)
  ELSE IF IsArray(content)
  THEN ArrayEntry(content.of, <<content.shift[1] + by[1], content.shift[2] + by[2]>>,
                  Moved(content.ref, by))
  ELSE IF Resembles(content) THEN Entry(content.of, by)
  ELSE content

Offset(op) ==
  <<op.cell[1] - op.source_range.top, op.cell[2] - op.source_range.left>>

(* Mutant: each cell is read when its copy is written, row by row.         *)
RowMajor(r) == SetToSortSeq(CellsOf(r), Earlier)
PastedOneByOne(book, op) ==
  LET write(grid, c) ==
        [grid EXCEPT ![<<c[1] + Offset(op)[1], c[2] + Offset(op)[2]>>] =
           Translated(IF op.source_sheet = op.sheet THEN grid[c]
                      ELSE book[op.source_sheet][c], Offset(op))]
  IN  FoldLeft(write, book[op.sheet], RowMajor(op.source_range))

(* The source cells are read before the first one is written, and each     *)
(* cell of the destination is written once.                                *)
Pasted(book, op) ==
  [c \in Cell |->
     IF c \in CellsOf(Destination(op))
     THEN Translated(book[op.source_sheet][<<c[1] - Offset(op)[1], c[2] - Offset(op)[2]>>],
                     Offset(op))
     ELSE book[op.sheet][c]]

(* What is written to a cell of the destination by the other operations.   *)
Written(op, c) ==
  CASE op.op = "set_value" -> [kind |-> "value", of |-> op.value]
    [] op.op = "set_formula" -> Entry(op.formula, <<0, 0>>)
    [] op.op = "fill_formula" ->
         Entry(op.formula, <<c[1] - op.range.top, c[2] - op.range.left>>)
    [] op.op = "clear_range" -> Blank
    [] op.op \in {"set_array_formula", "fill_array_formula"} ->
         IF c = TopLeft(Destination(op))
         THEN ArrayEntry(op.formula, <<0, 0>>, Destination(op))
         ELSE Blank

Edited(book, op) ==
  IF Copies(op) THEN Pasted(book, op)
  ELSE [c \in Cell |-> IF c \in CellsOf(Destination(op)) THEN Written(op, c)
                       ELSE book[op.sheet][c]]

Applied(book, op) == [book EXCEPT ![op.sheet] = Edited(book, op)]
=============================================================================
