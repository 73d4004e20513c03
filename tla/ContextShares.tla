--------------------------- MODULE ContextShares ---------------------------
(***************************************************************************)
(* How v2 cuts the context of a task down to its budget                    *)
(* (exactsource/context.py, from _fair_allocations to _clip_context).      *)
(*                                                                         *)
(* Texts are their lengths.  A section has a heading line (its line end    *)
(* counted), a prefix that begins with it, and child blocks of a heading,  *)
(* status lines and a body.  Where a cut looks back for a line end, any    *)
(* place within its reach is one.                                          *)
(***************************************************************************)
EXTENDS Integers, Sequences, FiniteSets, SequencesExt

CONSTANTS
  SampleReserve,    \* _SAMPLE_SECTION_RESERVE_CHARS
  LookBack,         \* how far a cut looks back for a line end: 400
  SectionMarker,    \* the length of "[SECTION TRUNCATED; original_chars=...]"
  FallbackMarker,   \* of "[SECTION TRUNCATED]"
  ContextMarker,    \* of "[CONTEXT TRUNCATED; original_chars=...]"
  OmissionLine,     \* of "[CHILD BLOCKS OMITTED; count=...]"
  Contexts,         \* sequences of sections
  Budgets           \* char_budget: what is not positive is refused

(* _ChildBlock, and a section of the rendered context.                     *)
ChildBlock == [heading : Nat, status : Nat, body : Nat]

Section ==
  [manifest : BOOLEAN, heading : Nat, prefix : Nat, blocks : Seq(ChildBlock), length : Nat]

ASSUME SharesAssumption ==
  {SampleReserve, LookBack, SectionMarker, FallbackMarker, ContextMarker, OmissionLine}
    \subseteq Nat

ASSUME ContextsAssumption == Contexts \subseteq Seq(Section) /\ Budgets \subseteq Nat \ {0}

Lesser(a, b) == Min({a, b})

Greater(a, b) == Max({a, b})

-----------------------------------------------------------------------------
(* _fair_allocations: one turn of its loop, and the loop.                  *)

FirstOf(active, n) ==
  {i \in active : Cardinality({j \in active : j < i}) < n}

(* Mutant: what does not divide evenly goes to the last ones.              *)
GrantBackwards(s) ==
  LET n == Cardinality(s.active)
      share == s.remaining \div n
      last == s.active \ FirstOf(s.active, n - (s.remaining - share * n))
  IN  [alloc |-> [i \in DOMAIN s.alloc |->
                    IF i \notin s.active THEN s.alloc[i]
                    ELSE s.alloc[i] + share + (IF i \in last THEN 1 ELSE 0)],
       remaining |-> 0, active |-> {}]

(* Nobody is saturated: equal shares, and the rest to the first ones.      *)
Grant(s) ==
  LET n == Cardinality(s.active)
      share == s.remaining \div n
      first == FirstOf(s.active, s.remaining - share * n)
  IN  [alloc |-> [i \in DOMAIN s.alloc |->
                    IF i \notin s.active THEN s.alloc[i]
                    ELSE s.alloc[i] + share + (IF i \in first THEN 1 ELSE 0)],
       remaining |-> 0, active |-> {}]

Saturated(capacities, s) ==
  LET share == s.remaining \div Cardinality(s.active)
  IN  {i \in s.active : share > 0 /\ capacities[i] - s.alloc[i] <= share}

Saturate(capacities, s, full) ==
  [alloc |-> [i \in DOMAIN s.alloc |-> IF i \in full THEN capacities[i] ELSE s.alloc[i]],
   remaining |-> s.remaining
                   - SumFunction([i \in full |-> capacities[i] - s.alloc[i]]),
   active |-> s.active \ full]

Turn(capacities, s) ==
  IF s.active = {} \/ s.remaining = 0 THEN s
  ELSE IF Saturated(capacities, s) = {} THEN Grant(s)
  ELSE Saturate(capacities, s, Saturated(capacities, s))

(* Every turn but the last saturates an index.                             *)
FairAllocations(capacities, budget) ==
  FoldLeft(LAMBDA s, turn : Turn(capacities, s),
           [alloc |-> [i \in DOMAIN capacities |-> 0],
            remaining |-> Lesser(Greater(0, budget), SumFunction(capacities)),
            active |-> {i \in DOMAIN capacities : capacities[i] > 0}],
           [turn \in 1 .. Len(capacities) + 1 |-> turn]).alloc

-----------------------------------------------------------------------------
(* _section_allocations: the manifest, whole if it fits by itself; a       *)
(* reserve for each of the others; and then what is left.                  *)

Lengths(sections) == [i \in DOMAIN sections |-> sections[i].length]

Manifests(sections) == {i \in DOMAIN sections : sections[i].manifest}

ManifestTotal(sections) == SumFunctionOnSet(Lengths(sections), Manifests(sections))

Flexible(sections, i) == IF sections[i].manifest THEN 0 ELSE sections[i].length

SectionAllocations(sections, budget) ==
  LET rest == budget - ManifestTotal(sections)
      base == [i \in DOMAIN sections |-> Lesser(Flexible(sections, i), SampleReserve)]
      reserved == FairAllocations(base, rest)
      extra == FairAllocations(
                 [i \in DOMAIN sections |-> Flexible(sections, i) - reserved[i]],
                 rest - SumFunction(reserved))
  IN  IF rest < 0 THEN FairAllocations(Lengths(sections), budget)
      ELSE [i \in DOMAIN sections |->
              IF sections[i].manifest THEN sections[i].length ELSE reserved[i] + extra[i]]

-----------------------------------------------------------------------------
(* Cutting one section.  A set of lengths: those that the text may have.   *)

(* _render_child_content: blank lines between the parts, a line end before *)
(* a payload.                                                              *)
Rendered(section, payloads) ==
  LET shown == DOMAIN payloads
      block(i) == 2 + section.blocks[i].heading
                    + (IF payloads[i] > 0 THEN 1 + payloads[i] ELSE 0)
  IN  section.prefix + SumFunction([i \in shown |-> block(i)])
        + (IF Len(payloads) < Len(section.blocks) THEN 2 + OmissionLine ELSE 0)

Headings(section, count) == Rendered(section, [i \in 1 .. count |-> 0])

Joined(a, b) == IF a > 0 /\ b > 0 THEN a + 1 + b ELSE a + b

(* Mutant: the line end before the payload is not counted.                 *)
PayloadPrefixWide(payload, allocation) == 0 .. Lesser(payload, allocation)

(* _payload_prefix: also a payload that fits may lose its last line.       *)
PayloadPrefix(payload, allocation) ==
  IF payload = 0 \/ allocation <= 1 THEN {0}
  ELSE LET kept == Lesser(payload, allocation - 1)
       IN  {kept} \cup (Greater(0, allocation - 1 - LookBack) .. kept - 1)

Capacity(payload) == IF payload = 0 THEN 0 ELSE 1 + payload

(* What each shown block may get: status and a part of the body where all  *)
(* status lines fit, or else a part of both together.                      *)
Payloads(section, count, available) ==
  LET blocks == SubSeq(section.blocks, 1, count)
      status == [i \in 1 .. count |-> blocks[i].status]
      whole == [i \in 1 .. count |-> Joined(blocks[i].status, blocks[i].body)]
      bodies == FairAllocations([i \in 1 .. count |-> Capacity(blocks[i].body)],
                                available - Rendered(section, status))
      shares == FairAllocations([i \in 1 .. count |-> Capacity(whole[i])],
                                available - Headings(section, count))
  IN  [i \in 1 .. count |->
         IF Rendered(section, status) <= available
         THEN {Joined(status[i], n) : n \in PayloadPrefix(blocks[i].body, bodies[i])}
         ELSE PayloadPrefix(whole[i], shares[i])]

(* The most blocks, from the first on, whose headings fit.                 *)
Shown(section, available) ==
  {n \in 0 .. Len(section.blocks) :
     /\ Headings(section, n) <= available
     /\ \A k \in n + 1 .. Len(section.blocks) : Headings(section, k) > available}

ClippedChildren(section, available) ==
  UNION {LET may == Payloads(section, n, available)
         IN  {Rendered(section, p) :
                p \in {q \in [1 .. n -> UNION {may[i] : i \in 1 .. n}] :
                         \A i \in 1 .. n : q[i] \in may[i]}} :
         n \in Shown(section, available)}

(* The prefix of a section without children, or with no room for them.     *)
ClippedPrefix(section, limit) ==
  {limit} \cup (Greater(section.heading, limit - LookBack) .. limit - 1)

Clipped(section, budget) ==
  IF section.length <= budget THEN {section.length}
  ELSE IF budget <= 0 THEN {0}
  ELSE IF budget <= section.heading + SectionMarker
  THEN {Lesser(budget, section.heading + FallbackMarker)}
  ELSE LET available == budget - SectionMarker
           children == IF section.blocks = <<>> THEN {}
                       ELSE ClippedChildren(section, available)
       IN  {n + SectionMarker :
              n \in IF children # {} THEN children
                    ELSE ClippedPrefix(section, available)}

(* _clip_context: the marker, and what each section may take.              *)
SumsOf(sums, S) == {a + b : a \in sums, b \in S}

Totals(may) == FoldLeft(SumsOf, {ContextMarker}, may)

ContextLengths(sections, budget) ==
  LET full == SumFunction(Lengths(sections))
      shares == SectionAllocations(sections, budget - ContextMarker)
      may == [i \in DOMAIN sections |-> Clipped(sections[i], shares[i])]
  IN  IF full <= budget THEN {full}
      ELSE IF budget <= ContextMarker THEN {Lesser(budget, ContextMarker - 1)}
      ELSE Totals(may)

-----------------------------------------------------------------------------
(* Properties, over the sections and budgets of an instance.               *)

(* A reference for a fair division: all of the budget is used, and nobody  *)
(* who lacks something has more than one character less than another, or   *)
(* less than a later one.                                                  *)
IsFair(capacities, budget, alloc) ==
  /\ SumFunction(alloc) = Lesser(budget, SumFunction(capacities))
  /\ \A i \in DOMAIN capacities :
       /\ 0 <= alloc[i] /\ alloc[i] <= capacities[i]
       /\ alloc[i] < capacities[i] =>
            \A j \in DOMAIN capacities :
              alloc[j] <= alloc[i] + (IF j < i THEN 1 ELSE 0)

(* The manifest is whole "whenever it independently fits", and the others  *)
(* share the rest fairly (context.py:30): no section, however long and     *)
(* however early, takes what a later one needs.  The division is the same  *)
(* for every reserve: two rounds of filling make one.                      *)
DividesFairly(sections, budget, shares) ==
  LET manifest == ManifestTotal(sections)
  IN  IF manifest <= budget
      THEN /\ \A i \in Manifests(sections) : shares[i] = sections[i].length
           /\ IsFair([i \in DOMAIN sections |-> Flexible(sections, i)],
                     budget - manifest,
                     [i \in DOMAIN sections |->
                        IF sections[i].manifest THEN 0 ELSE shares[i]])
      ELSE IsFair(Lengths(sections), budget, shares)

EveryDivisionIsFair ==
  \A sections \in Contexts, budget \in Budgets :
    DividesFairly(sections, budget, SectionAllocations(sections, budget))

(* Whatever is cut where, the context with its markers, separators and     *)
(* omission lines fits the budget it was given.                            *)
EveryContextFits ==
  \A sections \in Contexts, budget \in Budgets :
    \A n \in ContextLengths(sections, budget) : n <= budget
=============================================================================
