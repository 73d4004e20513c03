--------------------------- MODULE ContractProofs ---------------------------
(***************************************************************************)
(* What write_response_atomic installs, for every workbook, task and       *)
(* response.                                                               *)
(***************************************************************************)
EXTENDS ResponseContract, TLAPS

\* The stages of a response that was accepted.
Accepted == {"create", "snapshot", "unmerge", "assign", "save", "verify", "replace", "done"}
Made == Accepted \ {"create"}
Edited == {"save", "verify", "replace", "done"}

\* The merges left when those the response names are undone.
Left == [s \in Name |-> source.merged[s] \ {u.area: u \in {v \in ToSet(reply.unmerge): v.sheet = s}}]

Basics ==
  /\ stage \in Stages
  /\ task \in Tasks /\ reply \in Replies /\ source \in Books
  /\ work \in Workbook /\ saved \in Workbook
  /\ DOMAIN kept \subseteq Name \X Cell

InputIsRead == stage \in {"paths", "parse", "load", "contract", "validate", "create"} => work = source

OnlyAccepted ==
  stage \in Accepted =>
    /\ \A p \in ToSet(reply.parts): p.value # Unsafe
    /\ ~Defective(source)

SheetsAreMade ==
  stage \in Made => work.sheets = source.sheets \cup New(source) /\ work.active = source.active

NotEdited ==
  /\ stage \in {"snapshot", "unmerge", "assign"} => work.held = source.held
  /\ stage \in {"snapshot", "unmerge"} => work.merged = source.merged

IsEdited ==
  /\ stage \in Edited \cup {"assign"} => work.merged = Left
  /\ stage \in Edited =>
       /\ \A k \in Covers(Authors): ~Unassignable(k)
       /\ \A s \in Name, c \in Cell:
            work.held[s][c] = IF <<s, c>> \in Covers(Authors) /\ ~Inner(work, s, c)
                                THEN Asked(<<s, c>>) ELSE source.held[s][c]

IsKept ==
  stage \in Edited \cup {"unmerge", "assign"} =>
    kept = [k \in Covers(Preserves) |-> Signature(source, k)]

IsSaved == stage \in {"verify", "replace", "done"} => saved \in Stored(work)

IsVerified == stage \in {"replace", "done"} => Verified

IsInstalled ==
  /\ stage \notin {"done", "failed"} => output = None
  /\ stage = "failed" => output = source
  /\ stage = "done" => output = saved

NothingElsewhere == \A n \in Name \ work.sheets, c \in Cell: work.held[n][c] = Blank

\* The inductive invariant: what each stage has done to the workbook.
IInv ==
  /\ Basics /\ InputIsRead /\ OnlyAccepted /\ SheetsAreMade /\ NotEdited
  /\ IsEdited /\ IsKept /\ IsSaved /\ IsVerified /\ IsInstalled /\ NothingElsewhere

-----------------------------------------------------------------------------
\* The inputs of write_response_atomic do not change.
LEMMA InputsStay == Next => task' = task /\ reply' = reply /\ source' = source
BY DEF Next, Moves, Fails, CheckPaths, ParseResponse, LoadWorkbook, BuildTargets, Validate,
       CreateSheets, Snapshot, Unmerge, Assign, Save, Verify, Replace, RejectedCopy, FallbackCopy

\* Nor does what is derived from them.
LEMMA DerivedStay ==
  ASSUME task' = task, reply' = reply, source' = source
  PROVE  /\ New(source)' = New(source)
         /\ Covers(Authors)' = Covers(Authors)
         /\ Covers(Preserves)' = Covers(Preserves)
         /\ \A k: Asked(k)' = Asked(k)
         /\ Left' = Left
         /\ \A k: Signature(source, k)' = Signature(source, k)
         /\ Defective(source)' <=> Defective(source)
<1>1. New(source)' = New(source)
  BY DEF New
<1>2. Covers(Authors)' = Covers(Authors) /\ Covers(Preserves)' = Covers(Preserves)
  BY DEF Covers, Authors, Preserves
<1>3. \A k: Asked(k)' = Asked(k)
  BY DEF Asked, Authors
<1>4. Left' = Left
  BY DEF Left
<1>5. \A k: Signature(source, k)' = Signature(source, k)
  BY DEF Signature, Inner
<1>6. Expected(source)' = Expected(source) /\ Returned' = Returned /\ Targets(source)' = Targets(source)
  BY DEF Expected, Returned, Covers, Reach, Targets, Home, Extent, Inner
<1>7. (\A u: Unasked(source, u)' <=> Unasked(source, u))
  BY <1>6 DEF Unasked
<1>8. Defective(source)' <=> Defective(source)
  BY <1>6, <1>7 DEF Defective
<1>. QED
  BY <1>1, <1>2, <1>3, <1>4, <1>5, <1>8

\* What is in a sequence over a set is in the set.
LEMMA InSeq ==
  ASSUME NEW S, NEW s \in Seq(S), NEW x \in ToSet(s)
  PROVE  x \in S
<1>1. s \in [1 .. Len(s) -> S]
  OBVIOUS
<1>. QED
  BY <1>1 DEF ToSet

\* What openpyxl gives back has no content where there was none, no merge
\* but those it had and those undone, and no sheet but its own.
StoredLike(b) ==
  /\ b \in Workbook
  /\ b.active = work.active
  /\ b.sheets \subseteq work.sheets /\ work.sheets \ New(source) \subseteq b.sheets
  /\ \A s \in Name, c \in Cell: work.held[s][c] = Blank => b.held[s][c] = Blank
  /\ \A s \in Name: \A a \in b.merged[s]:
       a \in work.merged[s] \/ \E u \in ToSet(reply.unmerge): u.sheet = s /\ u.area = a

LEMMA StoredFacts ==
  ASSUME work \in Workbook, reply \in Reply, New(source) \subseteq Name,
         NEW b \in Stored(work)
  PROVE  StoredLike(b)
<1>0. /\ work.sheets \subseteq Name /\ work.active \in Name
      /\ work.held \in [Name -> [Cell -> Content]] /\ work.merged \in [Name -> SUBSET Area]
      /\ work = [sheets |-> work.sheets, active |-> work.active, held |-> work.held,
                 merged |-> work.merged]
  BY DEF Workbook
<1>1. CASE b = work
  BY <1>0, <1>1 DEF StoredLike
<1>2. ASSUME NEW k \in {l \in Name \X Cell: work.held[l[1]][l[2]] # Blank}, NEW x \in Content,
             b = Changed(work, k, x)
      PROVE  StoredLike(b)
  <2>1. k[1] \in Name /\ k[2] \in Cell /\ work.held[k[1]][k[2]] # Blank
    OBVIOUS
  <2>2. /\ b.sheets = work.sheets /\ b.active = work.active /\ b.merged = work.merged
        /\ b.held = [work.held EXCEPT ![k[1]][k[2]] = x]
        /\ b = [sheets |-> b.sheets, active |-> b.active, held |-> b.held, merged |-> b.merged]
    BY <1>0, <1>2 DEF Changed
  <2>3. b.held \in [Name -> [Cell -> Content]]
    BY <1>0, <2>1, <2>2
  <2>4. \A s \in Name, c \in Cell: work.held[s][c] = Blank => b.held[s][c] = Blank
    BY <1>0, <2>1, <2>2
  <2>5. b \in Workbook
    BY <1>0, <2>2, <2>3 DEF Workbook
  <2>. QED
    BY <2>2, <2>4, <2>5 DEF StoredLike
<1>3. ASSUME NEW u \in ToSet(reply.unmerge),
             b = Remerged(work, u)
      PROVE  StoredLike(b)
  <2>1. u.sheet \in Name /\ u.area \in Area
    <3>1. reply.unmerge \in Seq([sheet: Name, area: Area])
      BY DEF Reply
    <3>2. u \in [sheet: Name, area: Area]
      BY <3>1, InSeq
    <3>. QED
      BY <3>2
  <2>2. /\ b.sheets = work.sheets /\ b.active = work.active /\ b.held = work.held
        /\ b.merged = [work.merged EXCEPT ![u.sheet] = @ \cup {u.area}]
        /\ b = [sheets |-> b.sheets, active |-> b.active, held |-> b.held, merged |-> b.merged]
    BY <1>0, <1>3 DEF Remerged
  <2>3. b.merged \in [Name -> SUBSET Area]
    BY <1>0, <2>1, <2>2
  <2>4. \A s \in Name: \A a \in b.merged[s]: a \in work.merged[s] \/ \E v \in ToSet(reply.unmerge): v.sheet = s /\ v.area = a
    BY <1>0, <2>1, <2>2
  <2>5. b \in Workbook
    BY <1>0, <2>2, <2>3 DEF Workbook
  <2>. QED
    BY <2>2, <2>4, <2>5 DEF StoredLike
<1>4. ASSUME NEW n \in New(source), b = Without(work, n)
      PROVE  StoredLike(b)
  <2>1. /\ b.sheets = work.sheets \ {n} /\ b.active = work.active
        /\ b.held = work.held /\ b.merged = work.merged
        /\ b = [sheets |-> b.sheets, active |-> b.active, held |-> b.held, merged |-> b.merged]
    BY <1>0, <1>4 DEF Without
  <2>2. b \in Workbook
    BY <1>0, <2>1 DEF Workbook
  <2>. QED
    BY <2>1, <2>2 DEF StoredLike
<1>5. \/ b = work
      \/ \E k \in {l \in Name \X Cell: work.held[l[1]][l[2]] # Blank}, x \in Content:
           b = Changed(work, k, x)
      \/ \E u \in ToSet(reply.unmerge): b = Remerged(work, u)
      \/ \E n \in New(source): b = Without(work, n)
  BY DEF Stored
<1>6. CASE \E k \in {l \in Name \X Cell: work.held[l[1]][l[2]] # Blank}, x \in Content:
             b = Changed(work, k, x)
  <2>1. PICK k \in {l \in Name \X Cell: work.held[l[1]][l[2]] # Blank}, x \in Content:
             b = Changed(work, k, x)
    BY <1>6
  <2>. QED
    BY <1>2, <2>1
<1>7. CASE \E u \in ToSet(reply.unmerge): b = Remerged(work, u)
  BY <1>3, <1>7
<1>8. CASE \E n \in New(source): b = Without(work, n)
  BY <1>4, <1>8
<1>. QED
  BY <1>1, <1>5, <1>6, <1>7, <1>8

-----------------------------------------------------------------------------
\* The constants are what their assumption says.
LEMMA InputsAreSound ==
  ASSUME task \in Tasks, reply \in Replies, source \in Books
  PROVE  /\ task \in Task /\ reply \in Reply /\ source \in Workbook
         /\ source.active \in source.sheets /\ Sound(source)
         /\ New(source) \subseteq Name
<1>1. task \in Task /\ reply \in Reply /\ source \in Workbook
  BY ContractAssumption
<1>2. source.active \in source.sheets /\ Sound(source)
  BY ContractAssumption
<1>3. New(source) \subseteq Name
  <2>1. task.parts \in Seq([sheet: Name \cup {None}, area: Area])
    BY <1>1 DEF Task
  <2>2. \A p \in ToSet(task.parts): p \in [sheet: Name \cup {None}, area: Area]
    BY <2>1, InSeq
  <2>. QED
    BY <2>2 DEF New
<1>. QED
  BY <1>1, <1>2, <1>3

\* The invariant holds at first.
LEMMA InitIInv == Init => IInv
<1>. SUFFICES ASSUME Init PROVE IInv
  OBVIOUS
<1>1. source \in Workbook /\ Sound(source)
  BY InputsAreSound DEF Init
<1>2. Basics
  BY <1>1 DEF Init, Basics, Stages
<1>3. NothingElsewhere
  BY <1>1 DEF Init, NothingElsewhere, Sound
<1>4. /\ InputIsRead /\ OnlyAccepted /\ SheetsAreMade /\ NotEdited /\ IsEdited
      /\ IsKept /\ IsSaved /\ IsVerified /\ IsInstalled
  BY DEF Init, InputIsRead, OnlyAccepted, SheetsAreMade, NotEdited, IsEdited, IsKept,
         IsSaved, IsVerified, IsInstalled, Accepted, Made, Edited
<1>. QED
  BY <1>2, <1>3, <1>4 DEF IInv

\* Parts are of cells of known sheets.
LEMMA PartsAreCells ==
  ASSUME reply \in Replies
  PROVE  /\ Covers(Authors) \subseteq Name \X Cell /\ Covers(Preserves) \subseteq Name \X Cell
         /\ Returned = Covers(Authors) \cup Covers(Preserves)
<1>1. reply.parts \in Seq([sheet: Name, area: Area, value: Content \cup {Keep, Unsafe, Unwritable}])
  BY ContractAssumption DEF Reply
<1>2. \A p \in ToSet(reply.parts): p.sheet \in Name
  <2>1. \A p \in ToSet(reply.parts):
          p \in [sheet: Name, area: Area, value: Content \cup {Keep, Unsafe, Unwritable}]
    BY <1>1, InSeq
  <2>. QED
    BY <2>1
<1>3. Authors \subseteq ToSet(reply.parts) /\ Preserves \subseteq ToSet(reply.parts)
  BY DEF Authors, Preserves
<1>4. ASSUME NEW parts \in SUBSET ToSet(reply.parts)
      PROVE  Covers(parts) \subseteq Name \X Cell
  BY <1>2, <1>4 DEF Covers, CellsOf
<1>5. Returned = Covers(Authors) \cup Covers(Preserves)
  BY DEF Returned, Covers, Authors, Preserves
<1>. QED
  BY <1>3, <1>4, <1>5

\* What is asked of a cell is written by a part that covers it.
LEMMA AskedIsContent ==
  ASSUME reply \in Replies, \A p \in ToSet(reply.parts): p.value # Unsafe,
         NEW k \in Covers(Authors), Asked(k) # Unwritable
  PROVE  Asked(k) \in Content
<1>1. PICK p \in Authors: p.sheet = k[1] /\ k[2] \in CellsOf(p.area)
  BY DEF Covers
<1>2. PICK q \in Authors: Asked(k) = q.value
  BY <1>1 DEF Asked
<1>3. reply.parts \in Seq([sheet: Name, area: Area, value: Content \cup {Keep, Unsafe, Unwritable}])
  BY ContractAssumption DEF Reply
<1>4. q \in [sheet: Name, area: Area, value: Content \cup {Keep, Unsafe, Unwritable}]
  BY <1>3, InSeq DEF Authors
<1>. QED
  BY <1>2, <1>4 DEF Authors

\* A part of an accepted response is of cells the task asks for.
LEMMA AnswersAreInTarget ==
  ASSUME reply \in Replies, task \in Tasks, source \in Books, ~Defective(source)
  PROVE  /\ Returned = Expected(source)
         /\ \A k \in Returned: /\ k[1] \in source.sheets \cup New(source)
                               /\ \E t \in Targets(source): t.sheet = k[1] /\ k[2] \in CellsOf(t.area)
<1>1. Returned = Expected(source)
  BY DEF Defective
<1>2. ASSUME NEW k \in Returned
      PROVE  \E t \in Targets(source): t.sheet = k[1] /\ k[2] \in CellsOf(t.area)
  BY <1>1 DEF Expected
<1>3. ASSUME NEW t \in Targets(source) PROVE t.sheet \in source.sheets \cup New(source)
  <2>1. PICK p \in ToSet(task.parts): t.sheet = Home(source, p)
    BY DEF Targets
  <2>2. p.sheet \in source.sheets \cup New(source) \cup {None}
    BY DEF New
  <2>3. source.active \in source.sheets
    BY InputsAreSound
  <2>. QED
    BY <2>1, <2>2, <2>3 DEF Home
<1>4. ASSUME NEW k \in Returned
      PROVE  k[1] \in source.sheets \cup New(source)
  <2>1. PICK t \in Targets(source): t.sheet = k[1]
    BY <1>2
  <2>. QED
    BY <1>3, <2>1
<1>. QED
  BY <1>1, <1>2, <1>4

\* A failure before the output is installed.
LEMMA FailsStep ==
  ASSUME IInv, NEW from, Fails(from), from \notin {"done", "failed"}
  PROVE  IInv'
<1>1. task' = task /\ reply' = reply /\ source' = source
  BY DEF Fails
<1>. QED
  BY <1>1, DerivedStay
     DEF IInv, Basics, InputIsRead, OnlyAccepted, SheetsAreMade, NotEdited, IsEdited, IsKept,
         IsSaved, IsVerified, IsInstalled, NothingElsewhere, Stages, Moves, Fails,
         Accepted, Made, Edited

\* Every step preserves the invariant.
LEMMA StepIInv == IInv /\ [Next]_vars => IInv'
<1>. SUFFICES ASSUME IInv, [Next]_vars PROVE IInv'
  OBVIOUS
<1>. USE DEF Accepted, Made, Edited
<1>1. CASE UNCHANGED vars
  <2>1. task' = task /\ reply' = reply /\ source' = source
    BY <1>1 DEF vars
  <2>. QED
    BY <1>1, <2>1, DerivedStay
       DEF IInv, vars, Basics, InputIsRead, OnlyAccepted, SheetsAreMade, NotEdited, IsEdited, IsKept,
           IsSaved, IsVerified, IsInstalled, NothingElsewhere, Unassignable, Inner, Stored, Verified
<1>2. CASE CheckPaths
  <2>1. task' = task /\ reply' = reply /\ source' = source
    BY <1>2, InputsStay DEF Next
  <2>. QED
    BY <1>2, <2>1, DerivedStay
       DEF IInv, Basics, InputIsRead, OnlyAccepted, SheetsAreMade, NotEdited, IsEdited, IsKept,
           IsSaved, IsVerified, IsInstalled, NothingElsewhere, Unassignable, Inner, Stored, Verified,
           Stages, Moves, Fails, CheckPaths
<1>3. CASE ParseResponse
  <2>1. task' = task /\ reply' = reply /\ source' = source
    BY <1>3, InputsStay DEF Next
  <2>. QED
    BY <1>3, <2>1, DerivedStay
       DEF IInv, Basics, InputIsRead, OnlyAccepted, SheetsAreMade, NotEdited, IsEdited, IsKept,
           IsSaved, IsVerified, IsInstalled, NothingElsewhere, Unassignable, Inner, Stored, Verified,
           Stages, Moves, Fails, ParseResponse
<1>4. CASE LoadWorkbook
  <2>1. task' = task /\ reply' = reply /\ source' = source
    BY <1>4, InputsStay DEF Next
  <2>. QED
    BY <1>4, <2>1, DerivedStay
       DEF IInv, Basics, InputIsRead, OnlyAccepted, SheetsAreMade, NotEdited, IsEdited, IsKept,
           IsSaved, IsVerified, IsInstalled, NothingElsewhere, Unassignable, Inner, Stored, Verified,
           Stages, Moves, Fails, LoadWorkbook
<1>5. CASE BuildTargets
  <2>1. task' = task /\ reply' = reply /\ source' = source
    BY <1>5, InputsStay DEF Next
  <2>. QED
    BY <1>5, <2>1, DerivedStay
       DEF IInv, Basics, InputIsRead, OnlyAccepted, SheetsAreMade, NotEdited, IsEdited, IsKept,
           IsSaved, IsVerified, IsInstalled, NothingElsewhere, Unassignable, Inner, Stored, Verified,
           Stages, Moves, Fails, BuildTargets
<1>6. CASE Validate
  <2>1. task' = task /\ reply' = reply /\ source' = source
    BY <1>6, InputsStay DEF Next
  <2>2. CASE Fails("validate")
    BY <2>2, FailsStep
  <2>3. CASE ~Raised(work) /\ Defective(work) /\ Moves("validate", "rejected")
             /\ UNCHANGED <<work, kept, saved, output>>
    BY <2>1, <2>3, DerivedStay
       DEF IInv, Basics, InputIsRead, OnlyAccepted, SheetsAreMade, NotEdited, IsEdited, IsKept,
           IsSaved, IsVerified, IsInstalled, NothingElsewhere, Unassignable, Inner, Stored, Verified,
           Stages, Moves, Fails
  <2>4. CASE ~Raised(work) /\ ~Defective(work) /\ Moves("validate", "create")
             /\ UNCHANGED <<work, kept, saved, output>>
    <3>1. work = source /\ ~Raised(source) /\ ~Defective(source)
      BY <2>4 DEF IInv, InputIsRead, Moves
    <3>2. \A p \in ToSet(reply.parts): p.value # Unsafe
      BY <3>1 DEF Raised
    <3>3. OnlyAccepted'
      BY <2>1, <3>1, <3>2, DerivedStay DEF OnlyAccepted
    <3>. QED
      BY <2>1, <2>4, <3>3, DerivedStay
         DEF IInv, Basics, InputIsRead, SheetsAreMade, NotEdited, IsEdited, IsKept,
             IsSaved, IsVerified, IsInstalled, NothingElsewhere, Stages, Moves
  <2>. QED
    BY <1>6, <2>2, <2>3, <2>4 DEF Validate
<1>7. CASE CreateSheets
  <2>1. task' = task /\ reply' = reply /\ source' = source
    BY <1>7, InputsStay DEF Next
  <2>2. CASE Fails("create")
    BY <2>2, FailsStep
  <2>3. CASE /\ Moves("create", "snapshot")
             /\ work' = [work EXCEPT !.sheets = @ \cup New(source)]
             /\ UNCHANGED <<kept, saved, output>>
    <3>1. work = source /\ New(source) \subseteq Name /\ work \in Workbook
      BY <2>3, InputsAreSound DEF IInv, Basics, InputIsRead, Moves
    <3>2. /\ work'.sheets = source.sheets \cup New(source) /\ work'.active = source.active
          /\ work'.held = source.held /\ work'.merged = source.merged
          /\ work' \in Workbook
      BY <2>3, <3>1 DEF Workbook
    <3>3. Basics' /\ SheetsAreMade' /\ NotEdited'
      BY <2>1, <2>3, <3>2, DerivedStay DEF IInv, Basics, SheetsAreMade, NotEdited, Stages, Moves
    <3>4. NothingElsewhere'
      BY <2>1, <3>1, <3>2 DEF IInv, NothingElsewhere
    <3>5. (InputIsRead /\ OnlyAccepted /\ IsEdited /\ IsKept /\ IsSaved /\ IsVerified /\ IsInstalled)'
      BY <2>1, <2>3, DerivedStay DEF IInv, InputIsRead, OnlyAccepted, IsEdited, IsKept,
             IsSaved, IsVerified, IsInstalled, Moves
    <3>. QED
      BY <3>3, <3>4, <3>5 DEF IInv
  <2>. QED
    BY <1>7, <2>2, <2>3 DEF CreateSheets
<1>8. CASE Snapshot
  <2>1. task' = task /\ reply' = reply /\ source' = source
    BY <1>8, InputsStay DEF Next
  <2>2. /\ Moves("snapshot", "unmerge")
        /\ kept' = [k \in Covers(Preserves) |-> Signature(work, k)]
        /\ UNCHANGED <<work, saved, output>>
    BY <1>8 DEF Snapshot
  <2>3. \A k: Signature(work, k) = Signature(source, k)
    BY <2>2 DEF IInv, NotEdited, Moves, Signature, Inner
  <2>4. kept' = [k \in Covers(Preserves) |-> Signature(source, k)]
    BY <2>2, <2>3
  <2>5. IsKept'
    BY <2>1, <2>4, DerivedStay DEF IsKept
  <2>6. Basics'
    <3>1. Covers(Preserves) \subseteq Name \X Cell
      BY PartsAreCells DEF IInv, Basics
    <3>. QED
      BY <2>1, <2>2, <3>1 DEF IInv, Basics, Stages, Moves
  <2>7. (InputIsRead /\ OnlyAccepted /\ SheetsAreMade /\ NotEdited /\ IsEdited /\ IsSaved /\ IsVerified
         /\ IsInstalled /\ NothingElsewhere)'
    BY <2>1, <2>2, DerivedStay DEF IInv, InputIsRead, OnlyAccepted, SheetsAreMade, NotEdited, IsEdited,
           IsSaved, IsVerified, IsInstalled, NothingElsewhere, Moves
  <2>. QED
    BY <2>5, <2>6, <2>7 DEF IInv
<1>9. CASE Unmerge
  <2>1. task' = task /\ reply' = reply /\ source' = source
    BY <1>9, InputsStay DEF Next
  <2>2. Moves("unmerge", "assign") /\ work' = Unmerged /\ UNCHANGED <<kept, saved, output>>
    BY <1>9 DEF Unmerge
  <2>3. work.held = source.held /\ work.merged = source.merged /\ work \in Workbook
    BY <2>2 DEF IInv, Basics, NotEdited, Moves
  <2>4. /\ work'.sheets = work.sheets /\ work'.active = work.active
        /\ work'.held = work.held /\ work'.merged = Left
        /\ work' = [sheets |-> work.sheets, active |-> work.active, held |-> work.held,
                    merged |-> Left]
    BY <2>2, <2>3 DEF Unmerged, Left, Workbook
  <2>5. work' \in Workbook
    <3>1. Left \in [Name -> SUBSET Area]
      BY <2>3 DEF Left, Workbook
    <3>. QED
      BY <2>3, <2>4, <3>1 DEF Workbook
  <2>6. Basics' /\ SheetsAreMade' /\ NotEdited' /\ IsEdited' /\ NothingElsewhere'
    BY <2>1, <2>2, <2>3, <2>4, <2>5, DerivedStay DEF IInv, Basics, SheetsAreMade, NotEdited, IsEdited,
           NothingElsewhere, Stages, Moves
  <2>7. (InputIsRead /\ OnlyAccepted /\ IsKept /\ IsSaved /\ IsVerified /\ IsInstalled)'
    BY <2>1, <2>2, DerivedStay DEF IInv, InputIsRead, OnlyAccepted, IsKept,
           IsSaved, IsVerified, IsInstalled, Moves
  <2>. QED
    BY <2>6, <2>7 DEF IInv
<1>10. CASE Assign
  <2>1. task' = task /\ reply' = reply /\ source' = source
    BY <1>10, InputsStay DEF Next
  <2>2. CASE Fails("assign")
    BY <2>2, FailsStep
  <2>3. CASE /\ \A k \in Covers(Authors): ~Unassignable(k)
             /\ Moves("assign", "save") /\ work' = Assigned
             /\ UNCHANGED <<kept, saved, output>>
    <3>1. work.held = source.held /\ work.merged = Left /\ work \in Workbook
      BY <2>3 DEF IInv, Basics, NotEdited, IsEdited, Moves
    <3>2. /\ work'.sheets = work.sheets /\ work'.active = work.active
          /\ work'.held = Assigned.held /\ work'.merged = work.merged
          /\ work' = [sheets |-> work.sheets, active |-> work.active, held |-> Assigned.held,
                      merged |-> work.merged]
      BY <2>3, <3>1 DEF Assigned, Workbook
    <3>3. \A s \in Name, c \in Cell:
            work'.held[s][c] = IF <<s, c>> \in Covers(Authors) /\ ~Inner(work, s, c)
                                 THEN Asked(<<s, c>>) ELSE work.held[s][c]
      BY <3>1, <3>2 DEF Assigned, Workbook
    <3>4. \A k \in Covers(Authors): Asked(k) \in Content
      BY <2>3, AskedIsContent DEF IInv, Basics, OnlyAccepted, Moves, Unassignable
    <3>5. Assigned.held \in [Name -> [Cell -> Content]]
      BY <3>1, <3>4 DEF Assigned, Workbook
    <3>6. work' \in Workbook
      BY <3>1, <3>2, <3>5 DEF Workbook
    <3>7. \A s, c: Inner(work, s, c)' <=> Inner(work, s, c)
      BY <3>2 DEF Inner
    <3>8. \A k: Unassignable(k)' <=> Unassignable(k)
      BY <2>1, <3>7, DerivedStay DEF Unassignable
    <3>9. IsEdited'
      BY <2>1, <2>3, <3>1, <3>2, <3>3, <3>7, <3>8, DerivedStay DEF IsEdited, Moves
    <3>10. NothingElsewhere'
      <4>1. ASSUME NEW s \in Name, NEW c \in Cell, <<s, c>> \in Covers(Authors)
            PROVE  s \in source.sheets \cup New(source)
        BY <2>3, <4>1, AnswersAreInTarget, PartsAreCells DEF IInv, Basics, OnlyAccepted, Moves
      <4>2. work.sheets = source.sheets \cup New(source)
        BY <2>3 DEF IInv, SheetsAreMade, Moves
      <4>3. ASSUME NEW n \in Name \ work.sheets, NEW c \in Cell
            PROVE  work'.held[n][c] = Blank
        BY <3>3, <4>1, <4>2, <4>3 DEF IInv, NothingElsewhere
      <4>. QED
        BY <3>2, <4>3 DEF NothingElsewhere
    <3>11. Basics' /\ SheetsAreMade' /\ NotEdited'
      BY <2>1, <2>3, <3>2, <3>6, DerivedStay DEF IInv, Basics, SheetsAreMade, NotEdited, Stages, Moves
    <3>12. (InputIsRead /\ OnlyAccepted /\ IsKept /\ IsSaved /\ IsVerified /\ IsInstalled)'
      BY <2>1, <2>3, DerivedStay DEF IInv, InputIsRead, OnlyAccepted, IsKept,
             IsSaved, IsVerified, IsInstalled, Moves
    <3>. QED
      BY <3>9, <3>10, <3>11, <3>12 DEF IInv
  <2>. QED
    BY <1>10, <2>2, <2>3 DEF Assign
<1>11. CASE Save
  <2>1. task' = task /\ reply' = reply /\ source' = source
    BY <1>11, InputsStay DEF Next
  <2>2. CASE Fails("save")
    BY <2>2, FailsStep
  <2>3. CASE Moves("save", "verify") /\ saved' \in Stored(work) /\ UNCHANGED <<work, kept, output>>
    <3>1. saved' \in Workbook
      BY <2>3, StoredFacts, InputsAreSound DEF IInv, Basics, StoredLike
    <3>2. Stored(work)' = Stored(work)
      BY <2>1, <2>3, DerivedStay DEF Stored, Changed, Remerged, Without
    <3>3. \A k: Unassignable(k)' <=> Unassignable(k)
      BY <2>1, <2>3, DerivedStay DEF Unassignable, Inner
    <3>4. IsEdited'
      BY <2>1, <2>3, <3>3, DerivedStay DEF IInv, IsEdited, Inner, Moves
    <3>5. Basics' /\ IsSaved'
      BY <2>1, <2>3, <3>1, <3>2 DEF IInv, Basics, IsSaved, Stages, Moves
    <3>6. (InputIsRead /\ OnlyAccepted /\ SheetsAreMade /\ NotEdited /\ IsKept /\ IsVerified
           /\ IsInstalled /\ NothingElsewhere)'
      BY <2>1, <2>3, DerivedStay DEF IInv, InputIsRead, OnlyAccepted, SheetsAreMade, NotEdited, IsKept,
             IsVerified, IsInstalled, NothingElsewhere, Moves
    <3>. QED
      BY <3>4, <3>5, <3>6 DEF IInv
  <2>. QED
    BY <1>11, <2>2, <2>3 DEF Save
<1>12. CASE Verify
  <2>1. task' = task /\ reply' = reply /\ source' = source
    BY <1>12, InputsStay DEF Next
  <2>. QED
    BY <1>12, <2>1, DerivedStay
       DEF IInv, Basics, InputIsRead, OnlyAccepted, SheetsAreMade, NotEdited, IsEdited, IsKept,
           IsSaved, IsVerified, IsInstalled, NothingElsewhere, Unassignable, Inner, Stored, Verified,
           Stages, Moves, Fails, Verify
<1>13. CASE Replace
  <2>1. task' = task /\ reply' = reply /\ source' = source
    BY <1>13, InputsStay DEF Next
  <2>. QED
    BY <1>13, <2>1, DerivedStay
       DEF IInv, Basics, InputIsRead, OnlyAccepted, SheetsAreMade, NotEdited, IsEdited, IsKept,
           IsSaved, IsVerified, IsInstalled, NothingElsewhere, Unassignable, Inner, Stored, Verified,
           Stages, Moves, Fails, Replace
<1>14. CASE RejectedCopy
  <2>1. task' = task /\ reply' = reply /\ source' = source
    BY <1>14, InputsStay DEF Next
  <2>. QED
    BY <1>14, <2>1, DerivedStay
       DEF IInv, Basics, InputIsRead, OnlyAccepted, SheetsAreMade, NotEdited, IsEdited, IsKept,
           IsSaved, IsVerified, IsInstalled, NothingElsewhere, Unassignable, Inner, Stored, Verified,
           Stages, Moves, Fails, RejectedCopy
<1>15. CASE FallbackCopy
  <2>1. task' = task /\ reply' = reply /\ source' = source
    BY <1>15, InputsStay DEF Next
  <2>. QED
    BY <1>15, <2>1, DerivedStay
       DEF IInv, Basics, InputIsRead, OnlyAccepted, SheetsAreMade, NotEdited, IsEdited, IsKept,
           IsSaved, IsVerified, IsInstalled, NothingElsewhere, Unassignable, Inner, Stored, Verified,
           Stages, Moves, Fails, FallbackCopy
<1>. QED
  BY <1>1, <1>2, <1>3, <1>4, <1>5, <1>6, <1>7, <1>8, <1>9, <1>10, <1>11, <1>12, <1>13, <1>14, <1>15 DEF Next

\* The inductive invariant holds throughout.
THEOREM InvariantHolds == Spec => []IInv
<1>1. Init => IInv
  BY InitIInv
<1>2. IInv /\ [Next]_vars => IInv'
  BY StepIInv
<1>. QED
  BY <1>1, <1>2, PTL DEF Spec

\* TypeOK: nothing but contents is ever put into a cell, and only into the
\* cells of sheets that are there.
THEOREM TypesHold == Spec => []TypeOK
<1>1. IInv => TypeOK
  <2>. SUFFICES ASSUME IInv PROVE TypeOK
    OBVIOUS
  <2>1. task \in Task /\ reply \in Reply /\ source \in Workbook
    BY InputsAreSound DEF IInv, Basics
  <2>2. output \in Workbook \cup {None}
    BY <2>1 DEF IInv, Basics, IsInstalled
  <2>. QED
    BY <2>1, <2>2 DEF IInv, Basics, NothingElsewhere, TypeOK
<1>. QED
  BY <1>1, InvariantHolds, PTL

-----------------------------------------------------------------------------
\* A cell that a merged range still covers has no content, in the input, when
\* it is edited and when it is saved.
LEMMA CoveredCellsAreBlank ==
  ASSUME IInv, stage \in Edited, NEW k \in Covers(Authors), Inner(work, k[1], k[2])
  PROVE  work.held[k[1]][k[2]] = Blank /\ Asked(k) = Blank
<1>1. k \in Name \X Cell
  BY PartsAreCells DEF IInv, Basics
<1>2. source \in Workbook /\ Sound(source)
  BY InputsAreSound DEF IInv, Basics
<1>3. work.merged = Left
  BY DEF IInv, IsEdited
<1>4. Inner(source, k[1], k[2])
  BY <1>1, <1>3 DEF Inner, Left
<1>5. source.held[k[1]][k[2]] = Blank
  BY <1>1, <1>2, <1>4 DEF Sound
<1>6. work.held[k[1]][k[2]] = source.held[k[1]][k[2]]
  BY <1>1 DEF IInv, IsEdited
<1>7. Asked(k) = Blank
  BY DEF IInv, IsEdited, Unassignable
<1>. QED
  BY <1>5, <1>6, <1>7

\* AllOrNothing: at every step the output is what it was, the input, or a
\* workbook with all that the response asks for, for every way to fail and to
\* lose content.
THEOREM ResponseIsAllOrNothing == Spec => []AllOrNothing
<1>1. IInv => AllOrNothing
  <2>. SUFFICES ASSUME IInv, stage = "done" PROVE output # None /\ Answers(output)
    BY DEF IInv, IsInstalled, AllOrNothing
  <2>. USE DEF Edited
  <2>1. output = saved /\ saved \in Stored(work) /\ Verified
    BY DEF IInv, IsInstalled, IsSaved, IsVerified
  <2>2. StoredLike(saved)
    BY <2>1, StoredFacts, InputsAreSound DEF IInv, Basics
  <2>3. ASSUME NEW k \in Covers(Authors) PROVE saved.held[k[1]][k[2]] = Asked(k)
    <3>1. CASE ~Inner(work, k[1], k[2])
      BY <2>1, <3>1 DEF Verified
    <3>2. CASE Inner(work, k[1], k[2])
      <4>1. k[1] \in Name /\ k[2] \in Cell
        BY PartsAreCells DEF IInv, Basics
      <4>2. work.held[k[1]][k[2]] = Blank /\ Asked(k) = Blank
        BY <3>2, CoveredCellsAreBlank
      <4>. QED
        BY <2>2, <4>1, <4>2 DEF StoredLike
    <3>. QED
      BY <3>1, <3>2
  <2>4. \A k \in Covers(Preserves): Signature(saved, k) = Signature(source, k)
    BY <2>1 DEF IInv, IsKept, Verified
  <2>5. New(source) \subseteq saved.sheets /\ \A u \in ToSet(reply.unmerge): u.area \notin saved.merged[u.sheet]
    BY <2>1 DEF Verified
  <2>6. output # None
    BY <2>1, ContractAssumption DEF IInv, Basics
  <2>. QED
    BY <2>1, <2>3, <2>4, <2>5, <2>6 DEF Answers
<1>. QED
  BY <1>1, InvariantHolds, PTL

\* NothingElseChanges: edits reach sheets that are made, cells of the answer
\* range and merges that touch it.
THEOREM EditsStayInRange == Spec => []NothingElseChanges
<1>1. IInv => NothingElseChanges
  <2>. SUFFICES ASSUME IInv, stage \in Edited
                PROVE  /\ work.sheets = source.sheets \cup New(source)
                       /\ \A s \in Name, c \in Cell:
                            work.held[s][c] # source.held[s][c] =>
                              \E t \in Targets(source): t.sheet = s /\ c \in CellsOf(t.area)
                       /\ \A s \in Name:
                            /\ work.merged[s] \subseteq source.merged[s]
                            /\ \A a \in source.merged[s] \ work.merged[s]:
                                 \E t \in Targets(source):
                                   t.sheet = s /\ CellsOf(t.area) \cap CellsOf(a) # {}
    BY DEF NothingElseChanges, Edited
  <2>1. work.sheets = source.sheets \cup New(source)
    BY DEF IInv, SheetsAreMade, Edited, Made, Accepted
  <2>2. ~Defective(source) /\ reply \in Replies /\ task \in Tasks /\ source \in Books
    BY DEF IInv, OnlyAccepted, Basics, Edited, Accepted
  <2>3. ASSUME NEW s \in Name, NEW c \in Cell, work.held[s][c] # source.held[s][c]
        PROVE  \E t \in Targets(source): t.sheet = s /\ c \in CellsOf(t.area)
    <3>1. <<s, c>> \in Covers(Authors)
      BY <2>3 DEF IInv, IsEdited
    <3>2. <<s, c>> \in Returned
      BY <2>2, <3>1, PartsAreCells
    <3>. QED
      BY <2>2, <3>2, AnswersAreInTarget
  <2>4. work.merged = Left
    BY DEF IInv, IsEdited
  <2>5. ASSUME NEW s \in Name, NEW a \in source.merged[s] \ work.merged[s]
        PROVE  \E t \in Targets(source): t.sheet = s /\ CellsOf(t.area) \cap CellsOf(a) # {}
    <3>1. PICK u \in ToSet(reply.unmerge): u.sheet = s /\ u.area = a
      BY <2>4 DEF Left
    <3>2. ~Unasked(source, u)
      BY <2>2 DEF Defective
    <3>. QED
      BY <3>1, <3>2 DEF Unasked
  <2>6. \A s \in Name: work.merged[s] \subseteq source.merged[s]
    BY <2>4 DEF Left
  <2>. QED
    BY <2>1, <2>3, <2>5, <2>6
<1>. QED
  BY <1>1, InvariantHolds, PTL

-----------------------------------------------------------------------------
\* A row that the saved workbook reaches is one the contract counted.
LEMMA ExtentIsReached ==
  ASSUME IInv, stage = "done", NEW s \in Name, NEW r \in Extent(output, s)
  PROVE  r \in Reach(source, s)
<1>. USE DEF Edited
<1>1. output = saved /\ saved \in Stored(work) /\ Verified
  BY DEF IInv, IsInstalled, IsSaved, IsVerified
<1>2. StoredLike(saved)
  BY <1>1, StoredFacts, InputsAreSound DEF IInv, Basics
<1>3. Sound(source) /\ source \in Workbook
  BY InputsAreSound DEF IInv, Basics
<1>4. r \in 1 .. Rows
  BY DEF Extent
<1>5. CASE r = 1
  BY <1>4, <1>5 DEF Reach, Extent
<1>6. ASSUME NEW d \in Cell, r <= d[2], saved.held[s][d] # Blank
      PROVE  r \in Reach(source, s)
  <2>1. work.held[s][d] # Blank
    BY <1>2, <1>6 DEF StoredLike
  <2>2. CASE <<s, d>> \in Covers(Authors)
    <3>1. <<s, d>> \in Returned
      BY <2>2, PartsAreCells DEF IInv, Basics
    <3>. QED
      BY <1>4, <1>6, <3>1 DEF Reach
  <2>3. CASE source.held[s][d] # Blank
    <3>1. s \in source.sheets
      BY <1>3, <2>3 DEF Sound
    <3>. QED
      BY <1>4, <1>6, <2>3, <3>1 DEF Reach, Extent
  <2>. QED
    BY <2>1, <2>2, <2>3 DEF IInv, IsEdited
<1>7. ASSUME NEW d \in Cell, r <= d[2], Inner(saved, s, d)
      PROVE  r \in Reach(source, s)
  <2>1. PICK a \in saved.merged[s]: d \in CellsOf(a) /\ d # Anchor(a)
    BY <1>7 DEF Inner
  <2>2. a \in work.merged[s]
    BY <1>1, <1>2, <2>1 DEF StoredLike, Verified
  <2>3. a \in source.merged[s]
    BY <2>2 DEF IInv, IsEdited, Left
  <2>4. s \in source.sheets
    BY <1>3, <2>3 DEF Sound
  <2>5. Inner(source, s, d)
    BY <2>1, <2>3 DEF Inner
  <2>. QED
    BY <1>4, <1>7, <2>4, <2>5 DEF Reach, Extent
<1>. QED
  BY <1>1, <1>5, <1>6, <1>7 DEF Extent

\* The evaluator finds a range on the sheet where the contract put it, unless
\* an unqualified range names a sheet that is made.
LEMMA FoundIsHome ==
  ASSUME IInv, stage = "done", ~ResolvedTwice, NEW p \in ToSet(task.parts)
  PROVE  Found(output, p) = Home(source, p) /\ Home(source, p) \in Name
<1>1. output = saved /\ saved \in Stored(work) /\ Verified
  BY DEF IInv, IsInstalled, IsSaved, IsVerified
<1>2. StoredLike(saved)
  BY <1>1, StoredFacts, InputsAreSound DEF IInv, Basics
<1>3. work.sheets = source.sheets \cup New(source) /\ work.active = source.active
  BY DEF IInv, SheetsAreMade, Made, Accepted
<1>4. saved.sheets = source.sheets \cup New(source) /\ saved.active = source.active
  BY <1>1, <1>2, <1>3 DEF StoredLike, Verified, New
<1>5. None \notin saved.sheets /\ source.active \in Name
  BY <1>1, ContractAssumption, InputsAreSound DEF IInv, Basics, Workbook
<1>6. p.sheet \in source.sheets \cup New(source) \cup {None}
  BY DEF New
<1>7. CASE p.sheet # None
  BY <1>1, <1>4, <1>6, <1>7, InputsAreSound DEF Found, Home, IInv, Basics, Workbook
<1>8. CASE p.sheet = None
  <2>1. task.answerSheet \notin New(source)
    BY <1>8 DEF ResolvedTwice
  <2>. QED
    BY <1>1, <1>4, <1>5, <1>8, <2>1, InputsAreSound DEF Found, Home, IInv, Basics, Workbook
<1>. QED
  BY <1>7, <1>8

\* EvaluatorReadsReturned: what is graded is what the model returned.
THEOREM EvaluatorReadsAnswers == Spec => []EvaluatorReadsReturned
<1>1. IInv => EvaluatorReadsReturned
  <2>. SUFFICES ASSUME IInv, stage = "done", ~ResolvedTwice, NEW k \in Reads(output)
                PROVE  k \in Returned
    BY DEF EvaluatorReadsReturned
  <2>1. PICK p \in ToSet(task.parts), c \in Cell:
          /\ c \in CellsOf(p.area)
          /\ p.area.whole => c[2] \in Extent(output, Found(output, p))
          /\ k = <<Found(output, p), c>>
    BY DEF Reads, CellsOf
  <2>2. Found(output, p) = Home(source, p) /\ Home(source, p) \in Name
    BY FoundIsHome
  <2>3. p.area.whole => c[2] \in Reach(source, Home(source, p))
    BY <2>1, <2>2, ExtentIsReached
  <2>4. [sheet |-> Home(source, p), area |-> p.area] \in Targets(source)
    BY DEF Targets
  <2>5. k \in Expected(source)
    BY <2>1, <2>2, <2>3, <2>4 DEF Expected
  <2>6. ~Defective(source)
    BY DEF IInv, OnlyAccepted, Accepted
  <2>. QED
    BY <2>5, <2>6 DEF Defective
<1>. QED
  BY <1>1, InvariantHolds, PTL
=============================================================================
