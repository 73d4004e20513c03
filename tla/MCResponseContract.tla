------------------------- MODULE MCResponseContract -------------------------
(* Instances of ResponseContract: one column of three rows, the sheets S    *)
(* (active) and T of the input, and titles X and x that fold to one key.    *)
EXTENDS ResponseContract

CONSTANTS S, T, X, x, v, w

Titles == {S, T, X, x}
TheKeys == (S :> 1) @@ (T :> 2) @@ (X :> 3) @@ (x :> 3)
TheValues == {v, w}

A(t, b) == [left |-> 1, right |-> 1, top |-> t, bottom |-> b, whole |-> FALSE]
Column == [left |-> 1, right |-> 1, top |-> 1, bottom |-> Rows, whole |-> TRUE]

At(s, a) == [sheet |-> s, area |-> a]
Says(s, a, z) == [sheet |-> s, area |-> a, value |-> z]

\* S holds v in its first row, or in two, or in the second with a merge below
\* it; T holds v.
Book(full, merges) ==
  [sheets |-> {S, T}, active |-> S,
   held |-> [n \in Titles |-> [c \in Cell |->
     IF (n = S /\ c[2] \in full) \/ (n = T /\ c[2] = 1) THEN v ELSE Blank]],
   merged |-> [n \in Titles |-> IF n = S THEN merges ELSE {}]]

TheBooks == {Book({1}, {}), Book({1, 2}, {}), Book({2}, {A(2, 3)})}

TheTasks ==
  {[parts |-> p, answerSheet |-> a]: p \in {<<At(None, A(1, 2))>>, <<At(None, Column)>>}, a \in {None, T}}
  \cup
  {[parts |-> p, answerSheet |-> None]:
     p \in {<<At(S, A(2, 2))>>, <<At(X, Column)>>, <<At(X, A(1, 1)), At(S, A(2, 3))>>,
            <<At(S, Column), At(T, A(1, 1))>>, <<At(X, A(1, 1)), At(x, A(1, 1))>>}}

\* Two parts, the upper first.
Parts(sheets, areas, values) == {Says(s, a, z): s \in sheets, a \in areas, z \in values}
TheParts ==
  Parts({S, X}, {A(1, 1), A(2, 2), A(1, 2), A(2, 3)}, {w, Blank, Keep})
  \cup Parts({T}, {A(1, 1)}, {w, Keep}) \cup Parts({S}, {A(1, 2)}, {Unsafe, Unwritable})
ThePairs ==
  {<<p>>: p \in TheParts \cup Parts({S, T}, {A(1, 3)}, {w})}
  \cup {q \in TheParts \X TheParts: q[1].area.top <= q[2].area.top}

TheReplies ==
  {[parts |-> p, unmerge |-> u]: p \in ThePairs, u \in {<<>>, <<At(S, A(2, 3))>>}}
  \cup {[parts |-> <<Says(S, A(1, 2), w)>>, unmerge |-> u]:
          u \in {<<At(S, A(2, 3)), At(S, A(2, 3))>>, <<At(S, A(1, 2))>>, <<At(T, A(2, 3))>>}}

\* An unqualified range beside one that makes the sheet answer_sheet names.
\* A position with exactly one "!" is one range (sb.py:30), so two others
\* must be named.
MadeTasks ==
  {[parts |-> <<At(X, A(1, 1)), At(None, A(2, 2)), At(S, A(1, 1))>>, answerSheet |-> X]}
MadeReplies ==
  {[parts |-> <<Says(X, A(1, 1), w), Says(s, A(2, 2), w), Says(S, A(1, 1), w)>>, unmerge |-> <<>>]:
     s \in {S, X}}
=============================================================================
