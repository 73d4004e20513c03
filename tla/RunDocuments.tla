---------------------------- MODULE RunDocuments ----------------------------
(***************************************************************************)
(* The documents that the workers of a run send: each is built within the  *)
(* prompt budget before the provider is called (formulabench/runner.py,    *)
(* formulabench/context.py).                                               *)
(***************************************************************************)
EXTENDS RunInvariant, ContextBudget

(* A worker that calls the provider has built a document: whatever the     *)
(* evidence and the budget, it fits, is counted right and uses the budget  *)
(* (build_context).                                                        *)
DocumentFits == (\E t \in Task : worker[t] = "calling") => EveryDocumentFits
=============================================================================
