--------------------------- MODULE ContextBudget ---------------------------
(***************************************************************************)
(* How v1 fits a task's evidence into the prompt budget                    *)
(* (formulabench/context.py, build_context).  The document is a sequence   *)
(* of JSON lines: the mandatory records, whole ranges in compact form,     *)
(* single cells, and last a cut record, which counts the cells that are    *)
(* and that are not included, and the characters of the document, its own  *)
(* included.  A record is its length, line end counted.                    *)
(***************************************************************************)
EXTENDS Integers, Sequences, FiniteSets, SequencesExt

CONSTANTS
  Radix,            \* numbers are written with this many digits: 10
  CutChars,         \* the characters of the cut record that never change
  SmallRange,       \* SMALL_RANGE_CELL_LIMIT
  Evidence,         \* what build_context may find for a task
  CharBudgets

ASSUME BudgetAssumption ==
  /\ Radix \in Nat \ {0, 1}
  /\ CutChars \in Nat /\ SmallRange \in Nat /\ CharBudgets \subseteq Nat

(* What build_context finds for a task: the characters of the mandatory    *)
(* records; the answer and the data ranges; and the candidate cells in     *)
(* their order of priority.  A record of a cell is a JSON object: it is    *)
(* not empty.                                                              *)
IsRanges(refs) ==
  /\ refs \in Seq(Range(refs))
  /\ \A r \in Range(refs) :
       IsFiniteSet(r.cells) /\ r.chars \in Nat /\ r.dynamic \in BOOLEAN

IsEvidence(e) ==
  /\ e.mandatory \in Nat
  /\ IsRanges(e.answers) /\ IsRanges(e.data)
  /\ e.details \in Seq(Range(e.details))
  /\ \A c \in Range(e.details) : c.chars \in Nat \ {0}

ASSUME EvidenceAssumption == \A e \in Evidence : IsEvidence(e)

Digits[n \in Nat] == IF n < Radix THEN 1 ELSE 1 + Digits[n \div Radix]

(* JSON writes true with four characters, and false with five.             *)
Truth(omitted) == IF omitted > 0 THEN 4 ELSE 5

(* All but the digits of the length itself.                                *)
Counted(chars, included, omitted) ==
  chars + CutChars + Digits[included] + Digits[omitted] + Truth(omitted)

LengthIf(used, chars, included, omitted) ==
  Counted(chars, included, omitted) + Digits[used]

(* _cut_from_record_chars: the cut record counts its own characters, so    *)
(* its number is refined, twelve times at most, until it is right.         *)
DocumentLength(chars, included, omitted) ==
  FoldLeft(LAMBDA used, i : LengthIf(used, chars, included, omitted),
           0, [i \in 1 .. 12 |-> i])

Converges(chars, included, omitted) ==
  LET used == DocumentLength(chars, included, omitted)
  IN  used = LengthIf(used, chars, included, omitted)

-----------------------------------------------------------------------------
Candidates(e) == {e.details[i].cell : i \in DOMAIN e.details}

Claimed(ranges) == UNION {ranges[i].cells : i \in DOMAIN ranges}

(* _compact_ranges: small, and not contained in what was claimed before.   *)
Compacted(ranges, r) ==
  IF r.dynamic \/ Cardinality(r.cells) > SmallRange \/ r.cells \subseteq Claimed(ranges)
  THEN ranges ELSE Append(ranges, r)

CompactRanges(refs) == FoldLeft(Compacted, <<>>, refs)

Omitted(e, told) == Cardinality(Candidates(e) \ told)

(* Mutant: the counts are those of the document without the record.        *)
FitsWithOldCounts(e, budget, doc, chars, cells) ==
  DocumentLength(doc.chars + chars, Cardinality(doc.told), Omitted(e, doc.told)) <= budget

Fits(e, budget, doc, chars, cells) ==
  LET told == doc.told \cup cells
  IN  DocumentLength(doc.chars + chars, Cardinality(told), Omitted(e, told)) <= budget

Tell(e, budget, doc, chars, cells) ==
  IF Fits(e, budget, doc, chars, cells)
  THEN [chars |-> doc.chars + chars, told |-> doc.told \cup cells]
  ELSE doc

FitRanges(e, budget, doc, refs) ==
  FoldLeft(LAMBDA d, r : Tell(e, budget, d, r.chars, r.cells), doc, CompactRanges(refs))

(* The cells that no compact range tells.                                  *)
TellDetail(e, budget, compact, doc, c) ==
  IF c.cell \in compact THEN doc ELSE Tell(e, budget, doc, c.chars, {c.cell})

FitDetails(e, budget, doc) ==
  FoldLeft(LAMBDA d, c : TellDetail(e, budget, doc.told, d, c), doc, e.details)

MandatoryFits(e, budget) ==
  DocumentLength(e.mandatory, 0, Cardinality(Candidates(e))) <= budget

(* Answers first, then sources, then single cells.                         *)
Document(e, budget) ==
  LET bare == [chars |-> e.mandatory, told |-> {}]
      answered == FitRanges(e, budget, bare, e.answers)
  IN  FitDetails(e, budget, FitRanges(e, budget, answered, e.data))

Used(e, doc) == DocumentLength(doc.chars, Cardinality(doc.told), Omitted(e, doc.told))

-----------------------------------------------------------------------------
(* The document with its cut record fits the budget exactly as counted,    *)
(* though each record that is added changes the counts, their digits and   *)
(* the word that says whether anything is left out: the error raised for a *)
(* document that is too long (context.py:1038) and the one for a count     *)
(* that does not settle (context.py:528) cannot happen.  And the budget is *)
(* used: no omitted cell would still fit.                                  *)
DocumentIsRight(e, budget, doc) ==
  /\ Converges(doc.chars, Cardinality(doc.told), Omitted(e, doc.told))
  /\ Used(e, doc) <= budget
  /\ \A i \in DOMAIN e.details :
       e.details[i].cell \notin doc.told =>
         ~Fits(e, budget, doc, e.details[i].chars, {e.details[i].cell})

EveryDocumentFits ==
  \A e \in Evidence, budget \in CharBudgets :
    MandatoryFits(e, budget) => DocumentIsRight(e, budget, Document(e, budget))
=============================================================================
