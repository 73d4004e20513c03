------------------------- MODULE MCPlanApplication -------------------------
(* Instances of PlanApplication: every destination and every source range  *)
(* of a small grid, for every kind of operation, and a few longer plans;   *)
(* and of the context that the plans are asked for with.                   *)
EXTENDS PlanContext

CONSTANTS s1, s2, f1, bad, odd, v

TwoSheets == {s1, s2}
ThreeValues == {v, f1, bad}   \* two of them are texts that begin like formulas
ThreeFormulas == {f1, bad, odd}
BadFormulas == {bad}
OddFormulas == {odd}
MergedCells == {<<s2, <<2, 3>>>>}

ValueEntry == [kind |-> "value", of |-> v]

Grid(a, b, c, d, e, f) ==
  (<<1, 1>> :> a) @@ (<<1, 2>> :> b) @@ (<<1, 3>> :> c)
    @@ (<<2, 1>> :> d) @@ (<<2, 2>> :> e) @@ (<<2, 3>> :> f)
    @@ (<<1, 4>> :> Blank) @@ (<<2, 4>> :> ValueEntry)

Here(f) == Entry(f, <<0, 0>>)

(* s1 has an array of two cells; s2 has what cannot be copied.             *)
SourceBook ==
  (s1 :> Grid(ArrayEntry(f1, <<0, 0>>, Rect(1, 1, 1, 2)), Blank, Here(f1),
              ValueEntry, Here(f1), Blank))
  @@ (s2 :> Grid(Here(f1), ArrayEntry(f1, <<0, 0>>, Rect(1, 2, 2, 2)), ValueEntry,
                 Here(bad), Blank, [kind |-> "table"]))

(* An array that is too large for an operation, beside which there is room *)
(* for a range that does not meet it.                                      *)
LargeArray ==
  (s1 :> Grid(ArrayEntry(f1, <<0, 0>>, Rect(1, 1, 2, 3)), Blank, Blank, Blank, Blank, Blank))

TwoBooks == {SourceBook, LargeArray}

Declares(sheet, top, left, bottom, right) ==
  [sheet |-> sheet, cells |-> Rect(top, left, bottom, right)]

(* Column ranges, row ranges, the legacy form, adjacent and overlapping    *)
(* ranges, one inside another, and a sheet that is missing.                *)
AnswerSets == {
  {Declares(s1, 0, 1, 0, 2), Declares(s1, 1, 3, 1, 3)},
  {Declares(s1, 1, 1, 2, 0), Declares(s1, 1, 2, 1, 3)},
  {Declares(s1, 1, 1, 2, 2), Declares(s1, 1, 2, 2, 3)},
  {Declares(s1, 1, 1, 1, 3), Declares(s1, 1, 2, 1, 2), Declares(s2, 1, 0, 2, 0)},
  {Declares(s1, 1, 1, 1, 1), Declares(s1, 1, 3, 2, 3)},
  {Declares(None, 1, 1, 1, 1), Declares(s1, 1, 1, 2, 3)} }

Tasks ==
  [cell : {FALSE}, answers : AnswerSets]
    \cup [cell : {TRUE}, answers : {{Declares(s1, 1, 1, 2, 4)}}]

(* One in the last column, one past the grid, and one upside down.         *)
Rects ==
  {r \in [top : 1 .. 2, left : 1 .. 3, bottom : 1 .. 2, right : 1 .. 3] :
     r.top <= r.bottom /\ r.left <= r.right}
    \cup {Rect(1, 4, 2, 4), Rect(1, 2, 1, 5), Rect(2, 1, 1, 1)}

Cells == Cell \cup {<<3, 1>>}

Singles ==
  [op : {"set_value"}, sheet : {s1}, cell : Cells, value : {v}]
    \cup [op : {"set_formula", "set_array_formula"}, sheet : {s1}, cell : Cells,
          formula : {f1, bad}]
    \cup [op : {"fill_formula", "fill_array_formula"}, sheet : {s1}, range : Rects,
          formula : {f1}]
    \cup [op : {"fill_formula"}, sheet : {s1}, range : {Rect(1, 1, 1, 2)},
          formula : {bad, odd}]
    \cup [op : {"clear_range"}, sheet : {s1, s2}, range : Rects]
    \cup [op : {"copy_range"}, source_sheet : {s1, s2}, source_range : Rects,
          sheet : {s1}, cell : Cell]

Copying(top, left, bottom, right, to) ==
  [op |-> "copy_range", source_sheet |-> s1, source_range |-> Rect(top, left, bottom, right),
   sheet |-> s1, cell |-> to]
Clearing(r) == [op |-> "clear_range", sheet |-> s1, range |-> r]
Setting(cell, value) ==
  [op |-> "set_value", sheet |-> s1, cell |-> cell, value |-> value]
Filling(r) == [op |-> "fill_array_formula", sheet |-> s1, range |-> r, formula |-> f1]

(* Each step of these reads what the one before has left.                  *)
Pairs == {
  <<Copying(1, 1, 1, 2, <<2, 1>>), Copying(2, 1, 2, 2, <<1, 2>>)>>,
  <<Copying(1, 1, 1, 2, <<1, 2>>), Copying(1, 1, 1, 3, <<2, 1>>)>>,
  <<Filling(Rect(1, 2, 2, 3)), Copying(1, 2, 2, 3, <<1, 1>>)>>,
  <<Filling(Rect(1, 1, 2, 2)), Copying(1, 1, 1, 2, <<2, 1>>)>>,
  <<Clearing(Rect(1, 1, 1, 1)), Copying(1, 1, 1, 1, <<1, 2>>),
    Copying(1, 2, 2, 3, <<1, 1>>)>>,
  <<Clearing(Rect(1, 1, 2, 2)), Filling(Rect(1, 2, 2, 3)), Clearing(Rect(1, 1, 2, 2)),
    Filling(Rect(1, 1, 2, 2))>>,
  <<Setting(<<1, 1>>, f1), Copying(1, 1, 1, 1, <<2, 2>>), Copying(2, 2, 2, 2, <<1, 3>>)>>,
  <<Setting(<<1, 1>>, bad), Copying(1, 1, 1, 1, <<2, 2>>)>>,
  [i \in 1 .. 5 |-> Clearing(Rect(1, 1, 1, 1))] }

Operations(ops) == [route |-> "operations", operations |-> ops]

Python(screened, safe, big, result) ==
  [route |-> "python", screened |-> screened, result |-> result, safe |-> safe, big |-> big]

Renamed == (s2 :> SourceBook[s2])
Changed == [SourceBook EXCEPT ![s2][<<2, 1>>] = Blank]

Transforms == {
  Python(TRUE, TRUE, FALSE, Changed), Python(TRUE, TRUE, FALSE, Renamed),
  Python(TRUE, FALSE, FALSE, Changed), Python(TRUE, TRUE, TRUE, Changed),
  Python(FALSE, TRUE, FALSE, Changed) }

(* A plan that may go through and a repair.                                *)
Sessions ==
  {<<Operations(<<op>>)>> : op \in Singles}
    \cup {<<Operations(ops)>> : ops \in Pairs}
    \cup {<<p>> : p \in Transforms}
    \cup {<<p, Operations(<<Copying(1, 1, 1, 3, <<2, 1>>)>>)>> : p \in Transforms}
    \cup {<<Operations(<<Clearing(Rect(1, 1, 1, 2)), op>>), Operations(<<op>>)>> :
            op \in {Copying(1, 1, 1, 1, <<2, 2>>), Copying(1, 1, 1, 3, <<2, 1>>)}}

(* The workbooks come with anchored arrays, of the source and of the       *)
(* transforms: what ArraysAnchored rests on.                               *)
ASSUME ArraysComeAnchored ==
  /\ \A b \in Source : Anchored(b)
  /\ \A p \in Plan : p.route = "python" => Anchored(p.result)

-----------------------------------------------------------------------------
Plain(manifest, length) ==
  [manifest |-> manifest, heading |-> 3, prefix |-> length, blocks |-> <<>>,
   length |-> length]

Block(h, s, b) == [heading |-> h, status |-> s, body |-> b]

(* A section with children: its text is what is rendered of all of them,   *)
(* and two line ends.                                                      *)
Children(prefix, blocks) ==
  LET parts == [prefix |-> prefix, blocks |-> blocks]
      whole == [i \in DOMAIN blocks |-> Joined(blocks[i].status, blocks[i].body)]
  IN  [manifest |-> FALSE, heading |-> 3, prefix |-> prefix, blocks |-> blocks,
       length |-> 2 + Rendered(parts, whole)]

FirstSections ==
  {Plain(FALSE, n) : n \in {0, 3, 12, 19}}
    \cup {Children(3, <<Block(2, s, b), Block(2, t, 3)>>) :
            s \in {0, 2}, t \in {0, 1}, b \in {0, 6}}

ThreeChildren == Children(4, <<Block(2, 1, 9), Block(2, 0, 0), Block(3, 2, 2)>>)

FourSections ==
  {<<t, Plain(TRUE, m), f, Plain(FALSE, n)>> :
     t \in FirstSections, m \in {4, 9}, f \in {Plain(FALSE, 7), ThreeChildren},
     n \in {3, 10}}

FewCharacters == 1 .. 60
=============================================================================
