-------------------------- MODULE ProviderGateway --------------------------
(***************************************************************************)
(* The calls of one run to TinkerProvider.complete (formulabench/          *)
(* provider.py), and close, which cli.py calls when run_tasks is over.     *)
(*                                                                         *)
(* The calls are coroutines of one event loop: an action is what happens   *)
(* between two awaits.  Clients are made by threads (asyncio.to_thread),   *)
(* which go on when the coroutine that waits for them is cancelled.  With  *)
(* a checkpoint a service is made first and the sampler then; without one  *)
(* a thread makes the pair, which belongs to the process.                  *)
(***************************************************************************)
EXTENDS Integers, FiniteSets

CONSTANTS
  Task,
  Concurrency,
  None

ASSUME ProviderAssumption ==
  /\ IsFiniteSet(Task) /\ Concurrency \in Nat \ {0}
  /\ None \notin Task

(* A non-retryable status may come of a making, a sample or a drain.       *)
Fatal == {"fatal", "undrained_fatal"}
Undrained == {"undrained", "undrained_fatal"}

VARIABLES
  checkpoint,  \* --sampler-checkpoint was given
  stage,       \* of the run
  place,       \* where a call is
  thread,      \* what its thread is making
  result,      \* what the thread, and in the end the call, came to
  sampler,     \* whose thread made _sampling_client
  service,     \* the same of _service_client
  pollers,     \* the samplers that are not drained
  services,    \* a checkpoint's services that are not drained
  fatal,       \* _fatal_failure
  last,        \* the call that sent a request last
  late         \* the calls that sent theirs with the circuit open

calls == <<place, result>>
clients == <<sampler, service>>
undrained == <<pollers, services>>
sent == <<last, late>>
vars == <<checkpoint, stage, calls, thread, clients, undrained, fatal, sent>>

TypeOK ==
  /\ checkpoint \in BOOLEAN
  /\ stage \in {"run", "cancelled", "closed", "unclosed"}
  /\ place \in [Task -> {"idle", "waiting", "service", "sampler", "undo",
                         "sampling", "ended"}]
  /\ thread \in [Task -> {"none", "service", "sampler"}]
  /\ result \in [Task -> {"none", "made", "error", "cancelled", "refused", "ok"}
                           \cup Fatal \cup Undrained]
  /\ sampler \in Task \cup {None} /\ service \in Task \cup {None}
  /\ pollers \subseteq Task /\ services \subseteq Task
  /\ fatal \in {"none", "fatal"}
  /\ last \in Task \cup {None} /\ late \subseteq Task

Init ==
  /\ checkpoint \in BOOLEAN
  /\ stage = "run"
  /\ place = [t \in Task |-> "idle"]
  /\ thread = [t \in Task |-> "none"]
  /\ result = [t \in Task |-> "none"]
  /\ sampler = None /\ service = None
  /\ pollers = {} /\ services = {}
  /\ fatal = "none"
  /\ last = None /\ late = {}

At(places) == {t \in Task : place[t] \in places}
Calling == At({"waiting", "service", "sampler", "undo", "sampling"})
Holding == At({"service", "sampler", "undo"})   \* _client_creation_lock

-----------------------------------------------------------------------------
(* complete.                                                               *)

Ends(t, outcome) ==
  /\ place' = [place EXCEPT ![t] = "ended"]
  /\ result' = [result EXCEPT ![t] = outcome]
  /\ fatal' = IF outcome \in Fatal THEN "fatal" ELSE fatal

Sample(t) ==
  /\ place' = [place EXCEPT ![t] = "sampling"]
  /\ result' = [result EXCEPT ![t] = "none"]
  /\ last' = t
  /\ late' = IF fatal = "none" THEN late ELSE late \cup {t}

First == IF checkpoint THEN "service" ELSE "sampler"

Make(t, what) ==
  /\ place' = [place EXCEPT ![t] = what]
  /\ thread' = [thread EXCEPT ![t] = what]
  /\ result' = [result EXCEPT ![t] = "none"]

Admitted(t) ==
  /\ stage = "run" /\ place[t] = "idle"
  /\ Cardinality(Calling) < Concurrency

(* The circuit is looked at once.                                          *)
Refuse(t) ==
  /\ Admitted(t) /\ fatal # "none"
  /\ Ends(t, "refused")
  /\ UNCHANGED <<checkpoint, stage, thread, clients, undrained, sent>>

(* The prompt cannot be rendered.                                          *)
Unrendered(t) ==
  /\ Admitted(t) /\ fatal = "none"
  /\ Ends(t, "error")
  /\ UNCHANGED <<checkpoint, stage, thread, clients, undrained, sent>>

(* Mutant: it is looked at by those only that find a client.               *)
BeginUnchecked(t) ==
  /\ Admitted(t)
  /\ \/ /\ fatal = "none" /\ sampler # None
        /\ Sample(t)
        /\ UNCHANGED thread
     \/ /\ sampler = None /\ Holding \cup At({"waiting"}) = {}
        /\ Make(t, First)
        /\ UNCHANGED sent
     \/ /\ sampler = None /\ Holding \cup At({"waiting"}) # {}
        /\ place' = [place EXCEPT ![t] = "waiting"]
        /\ UNCHANGED <<thread, result, sent>>
  /\ UNCHANGED <<checkpoint, stage, clients, undrained, fatal>>

Begin(t) ==
  /\ Admitted(t) /\ fatal = "none"
  /\ \/ /\ sampler # None
        /\ Sample(t)
        /\ UNCHANGED thread
     \/ /\ sampler = None /\ Holding \cup At({"waiting"}) = {}
        /\ Make(t, First)
        /\ UNCHANGED sent
     \/ /\ sampler = None /\ Holding \cup At({"waiting"}) # {}
        /\ place' = [place EXCEPT ![t] = "waiting"]
        /\ UNCHANGED <<thread, result, sent>>
  /\ UNCHANGED <<checkpoint, stage, clients, undrained, fatal>>

(* Mutant: who waited for the lock does not look for a client again.       *)
EnterBlind(t) ==
  /\ place[t] = "waiting" /\ Holding = {}
  /\ Make(t, First)
  /\ UNCHANGED <<checkpoint, stage, clients, undrained, fatal, sent>>

(* Mutant: who waited for the lock expects a client.                       *)
EnterTrusting(t) ==
  /\ place[t] = "waiting" /\ Holding = {} /\ sampler # None
  /\ Sample(t)
  /\ UNCHANGED <<checkpoint, stage, thread, clients, undrained, fatal>>

Enter(t) ==
  /\ place[t] = "waiting" /\ Holding = {}
  /\ \/ sampler # None /\ Sample(t) /\ UNCHANGED thread
     \/ sampler = None /\ Make(t, First) /\ UNCHANGED sent
  /\ UNCHANGED <<checkpoint, stage, clients, undrained, fatal>>

(* A thread makes its client, or raises; nobody may be there to hear it.   *)
Hears(t, outcome) ==
  result' = IF place[t] = thread[t] THEN [result EXCEPT ![t] = outcome] ELSE result

ThreadMakes(t) ==
  /\ \/ thread[t] = "service" /\ services' = services \cup {t} /\ UNCHANGED pollers
     \/ thread[t] = "sampler" /\ pollers' = pollers \cup {t} /\ UNCHANGED services
  /\ thread' = [thread EXCEPT ![t] = "none"]
  /\ Hears(t, "made")
  /\ UNCHANGED <<checkpoint, stage, place, clients, fatal, sent>>

ThreadFails(t) ==
  /\ thread[t] # "none"
  /\ thread' = [thread EXCEPT ![t] = "none"]
  /\ \E kind \in {"fatal", "error"} : Hears(t, kind)
  /\ UNCHANGED <<checkpoint, stage, place, clients, undrained, fatal, sent>>

TakeService(t) ==
  /\ place[t] = "service" /\ result[t] = "made"
  /\ service' = t
  /\ Make(t, "sampler")
  /\ UNCHANGED <<checkpoint, stage, sampler, undrained, fatal, sent>>

TakeSampler(t) ==
  /\ place[t] = "sampler" /\ result[t] = "made"
  /\ sampler' = t
  /\ Sample(t)
  /\ UNCHANGED <<checkpoint, stage, thread, service, undrained, fatal>>

MakingFails(t) ==
  /\ place[t] \in {"service", "sampler"} /\ result[t] \in {"fatal", "error"}
  /\ \/ /\ place[t] = "sampler" /\ checkpoint
        /\ place' = [place EXCEPT ![t] = "undo"]
        /\ UNCHANGED <<result, fatal>>
     \/ /\ ~(place[t] = "sampler" /\ checkpoint)
        /\ Ends(t, result[t])
  /\ UNCHANGED <<checkpoint, stage, thread, clients, undrained, sent>>

(* Mutant: the service is forgotten.                                       *)
UndoneUndrained(t) ==
  /\ place[t] = "undo"
  /\ service' = None
  /\ Ends(t, result[t])
  /\ UNCHANGED <<checkpoint, stage, thread, sampler, undrained, sent>>

Undone(t) ==
  /\ place[t] = "undo"
  /\ service' = None
  /\ services' = services \ {t}
  /\ Ends(t, result[t])
  /\ UNCHANGED <<checkpoint, stage, thread, sampler, pollers, sent>>

(* An error of the drain takes the place of the one that led to it, and    *)
(* opens the circuit if its status is one that does.                       *)
UndoFails(t) ==
  /\ place[t] = "undo"
  /\ service' = None
  /\ \E outcome \in Undrained : Ends(t, outcome)
  /\ UNCHANGED <<checkpoint, stage, thread, sampler, undrained, sent>>

(* A call that has woken another is not answered before that one runs.     *)
Answered(t) ==
  /\ place[t] = "sampling"
  /\ ~(t = last /\ Holding = {} /\ At({"waiting"}) # {})
  /\ \E outcome \in {"ok", "fatal", "error"} : Ends(t, outcome)
  /\ UNCHANGED <<checkpoint, stage, thread, clients, undrained, sent>>

-----------------------------------------------------------------------------
(* The run.                                                                *)

(* run_tasks cancels every worker.  A checkpoint's service is drained by   *)
(* the call whose sampler was in the making; a drain that was under way    *)
(* goes on.                                                                *)
Cancel ==
  /\ stage = "run" /\ stage' = "cancelled"
  /\ LET undoing == IF checkpoint THEN At({"sampler"}) ELSE {}
         ended == At({"ended"})
     IN  /\ place' = [t \in Task |-> IF t \in undoing THEN "undo" ELSE "ended"]
         /\ result' = [t \in Task |-> IF t \in ended THEN result[t] ELSE "cancelled"]
  /\ \/ services' = services \ At({"undo"})
     \/ UNCHANGED services
  /\ service' = IF At({"undo"}) = {} THEN service ELSE None
  /\ UNCHANGED <<checkpoint, thread, sampler, pollers, fatal, sent>>

Over == stage \in {"run", "cancelled"} /\ \A t \in Task : place[t] = "ended"

CloseNothing ==
  /\ Over /\ sampler = None
  /\ stage' = "closed"
  /\ UNCHANGED <<checkpoint, calls, thread, clients, undrained, fatal, sent>>

Forget ==
  \/ checkpoint /\ sampler' = None /\ service' = None
  \/ ~checkpoint /\ UNCHANGED clients

(* The pair of the process stays for the next run.                         *)
Close ==
  /\ Over /\ sampler # None
  /\ stage' = "closed"
  /\ pollers' = pollers \ {sampler}
  /\ services' = services \ {service}
  /\ Forget
  /\ UNCHANGED <<checkpoint, calls, thread, fatal, sent>>

(* One drain or both raise.                                                *)
CloseFails ==
  /\ Over /\ sampler # None
  /\ stage' = "unclosed"
  /\ pollers' \in {pollers, pollers \ {sampler}}
  /\ services' \in {services, services \ {service}}
  /\ Forget
  /\ UNCHANGED <<checkpoint, calls, thread, fatal, sent>>

Call(t) ==
  \/ Refuse(t) \/ Unrendered(t) \/ Begin(t) \/ Enter(t)
  \/ TakeService(t) \/ TakeSampler(t) \/ MakingFails(t) \/ Undone(t) \/ UndoFails(t)

Thread(t) == ThreadMakes(t) \/ ThreadFails(t)

Next ==
  \/ \E t \in Task : Call(t) \/ Thread(t) \/ Answered(t)
  \/ Cancel \/ CloseNothing \/ Close \/ CloseFails

Spec == Init /\ [][Next]_vars

FairSpec == Spec /\ \A t \in Task : WF_vars(Call(t)) /\ WF_vars(Thread(t))

-----------------------------------------------------------------------------
(* Properties.                                                             *)

(* At most one sampler is made by a run, and all its requests go there.    *)
OneClient ==
  Cardinality({t \in Task : t \in pollers \/ thread[t] = "sampler"}) <= 1

(* What was sent with the circuit open are calls that had begun before.    *)
OverrunIsBounded == Cardinality(late) < Concurrency

(* "A fatal provider circuit stops further sampling" (ARCHITECTURE.md:504) *)
CircuitStopsSampling == late = {}

(* "checkpoint services are run-local" (provider.py:774): unless calls are *)
(* cancelled or a drain fails, none is left when the run is closed.        *)
NothingIsLeft ==
  stage = "closed" /\ (\A t \in Task : result[t] \notin {"cancelled"} \cup Undrained)
    => pollers = {} /\ services = {}

(* Nobody waits for ever for a client that another call is making.         *)
WaitersLeave == \A t \in Task : place[t] = "waiting" ~> place[t] # "waiting"
=============================================================================
