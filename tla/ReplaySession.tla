---------------------------- MODULE ReplaySession ----------------------------
(***************************************************************************)
(* Sessions with --replay-write-failures among the other sessions on one   *)
(* output directory (formulabench/replay.py, replay_stored_responses; the  *)
(* command line in formulabench/cli.py, _run_owned).  A replay session     *)
(* recovers and validates like every other one, and then, instead of       *)
(* starting workers, writes the responses that are stored in the traces of *)
(* failed writes once more, each in a retry workspace.  It calls no        *)
(* provider.  It shares the recovery, the workspaces and the journal of    *)
(* RunCoordinator, and ends by the same exceptions; only its loop, phase   *)
(* "run" while replaying, is its own.                                      *)
(***************************************************************************)
EXTENDS RunInvariant

CONSTANTS
  Replayable,   \* the failures with the one code workbook_write_failed
  ReplayHazard  \* what the environment may do to a replay: "kill", "io"

ASSUME ReplayAssumption ==
  /\ Replayable \subseteq Result \ Success
  /\ ReplayHazard \subseteq {"kill", "io"}

VARIABLE replaying  \* the session was started with --replay-write-failures

sessionVars == <<vars, replaying>>

SessionInit == Init /\ replaying = FALSE

StartReplay ==
  /\ StartSession
  /\ replaying' = TRUE

-----------------------------------------------------------------------------
(* Before the first workbook is written.                                   *)

(* A run without a record for every task is not replayed.                  *)
RejectIncomplete ==
  /\ phase = "load" /\ Complaints = {} /\ Missing # {}
  /\ Exit
  /\ UNCHANGED disk

Eligible == {t \in Task : predictions[t] \in Replayable}

AcceptReplay ==
  /\ phase = "load" /\ Complaints = {} /\ Missing = {}
  /\ results' = predictions
  /\ retrying' = Eligible
  /\ Enter(IF Eligible = {} THEN "final" ELSE "create")
  /\ UNCHANGED <<disk, step, owned, worker, answer, published, commitStarted,
                 observed, raising>>

(* _load_source_trace, once all workspaces are made: the trace copied into *)
(* each of them is the one a failed write left, and no replay has used it. *)
SourcesStand == \A t \in retrying : payload[t].old_trace \in Replayable

LoadSources ==
  /\ phase = "create" /\ Idle
  /\ retrying \subseteq owned
  /\ Enter(IF SourcesStand THEN "run" ELSE "undo")
  /\ UNCHANGED <<disk, step, memory>>

SourceUnreadable ==
  /\ "io" \in ReplayHazard
  /\ phase = "create" /\ Idle
  /\ retrying \subseteq owned
  /\ Enter("undo")
  /\ UNCHANGED <<disk, step, memory>>

-----------------------------------------------------------------------------
(* The loop over the candidates.                                           *)

(* write_response_atomic makes r of the stored response: whatever the      *)
(* writer of this version does with it.                                    *)
ReplayNext(t, r) ==
  /\ phase = "run" /\ Idle
  /\ t \in retrying \ published
  /\ answer' = [answer EXCEPT ![t] = r]
  /\ Begin("write_output", t)
  /\ UNCHANGED <<disk, phase, results, retrying, owned, worker, published,
                 commitStarted, observed, raising>>

(* Mutant: a response that fails again is committed as well.               *)
AfterAnyWrite(r) == "write_trace"

(* A response that fails again has its scratch removed, and nothing else.  *)
AfterWrite(r) == IF r \in Success THEN "write_trace" ELSE "sweep_payloads"

NextLabel(l, r) ==
  CASE l = "write_output" -> AfterWrite(r)
    [] l = "write_trace"  -> "prepare"
    [] OTHER              -> Following[l]

ReplayContinue ==
  /\ ~At("rmdir") /\ ~At("sweep_rmdir")
  /\ Goto(NextLabel(step.at, answer[step.task]))
  /\ UNCHANGED <<phase, memory>>

(* The candidate is done with: replayed, or still failed.                  *)
CandidateDone(t) ==
  \/ At("rmdir") /\ FinishCommit(t)
  \/ /\ At("sweep_rmdir")
     /\ published' = published \cup {t}
     /\ UNCHANGED <<results, owned, worker>>

ReplayReturn ==
  /\ CandidateDone(step.task)
  /\ step' = None
  /\ UNCHANGED <<phase, retrying, answer, commitStarted, observed, raising>>

ReplayStep ==
  /\ phase = "run" /\ ~Idle
  /\ Verified /\ Effect
  /\ ReplayContinue \/ ReplayReturn

(* _discard_unprepared: the workspaces a failed loop gives up.             *)
Unprepared == {t \in owned : t \in workspace' /\ meta'[t] = None}

(* Mutant: a candidate that raises is passed over.                         *)
PassOver ==
  /\ step' = None
  /\ published' = published \cup {step.task}
  /\ UNCHANGED <<phase, results, retrying, owned, worker, answer,
                 commitStarted, observed, raising>>

(* An exception in the loop discards every workspace without a marker; a   *)
(* marker that is already durable stays for the next session to recover.   *)
LeaveReplay ==
  /\ Enter("undo")
  /\ step' = None
  /\ owned' = Unprepared
  /\ UNCHANGED <<results, retrying, worker, answer, published, commitStarted,
                 observed, raising>>

(* As in a run, cleanup that fails after the marker is gone is no error.   *)
ReplayRaise ==
  LET t == step.task
      committed == step.at \in CommitLabel /\ meta'[t] = None
  IN
  \/ /\ committed
     /\ FinishCommit(t)
     /\ step' = None
     /\ UNCHANGED <<phase, retrying, answer, commitStarted, observed, raising>>
  \/ ~committed /\ LeaveReplay

(* The CLI loads the directory once more, and reports.                     *)
ReplayDone ==
  /\ phase = "run" /\ Idle
  /\ retrying \subseteq published
  /\ IF Complaints = {}
       THEN /\ Enter("final")
            /\ results' = predictions
            /\ UNCHANGED <<step, retrying, owned, worker, answer, published,
                           commitStarted, observed, raising>>
       ELSE Exit
  /\ UNCHANGED disk

-----------------------------------------------------------------------------
(* What goes wrong in a replay session, in the parts it shares with a run  *)
(* and in its own.                                                         *)

ReplayError ==
  /\ "io" \in ReplayHazard
  /\ ~Idle
  /\ (Verified /\ Effect) \/ UNCHANGED disk
  /\ IF phase = "run" THEN ReplayRaise ELSE Raise

ReplayKill ==
  /\ "kill" \in ReplayHazard
  /\ phase # "down"
  /\ litter' \in {litter, litter \cup TemporaryPlace}
  /\ Exit
  /\ UNCHANGED <<predictions, outputs, traces, workspace, payload, meta>>

-----------------------------------------------------------------------------
(* The parts of a session before its loop, and after an error in it.       *)
Shared ==
  \/ RejectRoot \/ OpenRoot \/ RecoverDone \/ RejectDirectory \/ UndoDone
  \/ Report
  \/ \E t \in Task : RecoverNext(t) \/ CreateNext(t) \/ UndoNext(t)
  \/ phase # "run" /\ DoStep

ReplayProgress ==
  \/ Shared
  \/ RejectIncomplete \/ AcceptReplay \/ LoadSources \/ ReplayDone
  \/ ReplayStep
  \/ \E t \in Task, r \in Result : ReplayNext(t, r)

Replaying(A) == replaying /\ A /\ replaying' = (phase' # "down")
Running(A) == ~replaying /\ A /\ UNCHANGED replaying

SessionNext ==
  \/ Running(Next)
  \/ StartReplay
  \/ Replaying(ReplayProgress)
  \/ Replaying(SourceUnreadable)
  \/ Replaying(ReplayError)
  \/ Replaying(ReplayKill)

SessionSpec == SessionInit /\ [][SessionNext]_sessionVars

(* The event loop of a run keeps running, as in FairSpec.                  *)
FairSessions ==
  /\ SessionSpec
  /\ WF_sessionVars(Running(Coordinator))

-----------------------------------------------------------------------------
(* Properties.                                                             *)

(* Where runs end by themselves or by SIGINT and replays are killed or     *)
(* fail anywhere, a directory that is not waiting to be recovered is one   *)
(* that the next session accepts: at most the write probe of a killed      *)
(* session stands in its way.                                              *)
Resumable ==
  /\ phase \in {"down", "resume", "load"}
  /\ phase = "load" \/ \A t \in Task : ~Prepared(t)
  => Complaints \subseteq {"unexpected_root_entry"}

(* A replay replaces failed writes by successes and changes nothing else,  *)
(* whatever it is doing when it ends; what still fails, and every other    *)
(* failure, keeps its record, workbook and trace.  (Recovery, at its       *)
(* start, publishes what earlier sessions have prepared.)                  *)
ReplayOnlyRepairs ==
  [][ replaying =>
        \A t \in Task :
          /\ Settled(t)' # Settled(t) =>
               Settled(t) \in Replayable /\ Settled(t)' \in Success
          /\ phase # "recover"
             /\ <<outputs[t], traces[t]>>' # <<outputs[t], traces[t]>> =>
               Settled(t) \in Success ]_sessionVars

(* What a replay reports is on the disk, and no candidate is half done.    *)
ReplayReports ==
  replaying /\ phase = "final" =>
    /\ results = predictions /\ Missing = {}
    /\ \A t \in Task : ~Prepared(t)
    /\ \A t \in retrying : predictions[t] \in Replayable \cup Success
=============================================================================
