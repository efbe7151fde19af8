---------------------------- MODULE Collaboration ----------------------------
(***************************************************************************)
(* clank-eval collaboration-rollout: an episode in which a dependent lane  *)
(* is released only when a checkpoint of the initial lane has been observed *)
(* (evals/harness/collaboration_rollout.go).                               *)
(*                                                                         *)
(* The controller is sequential; the two lanes are agents that run beside  *)
(* it, open runs on the server and record checkpoints there.  The controller *)
(* lists the runs and exports the notes in two requests, and the agent may *)
(* act in between.  Every request, write, clone and launch may fail, every *)
(* wait may time out, the required checks may fail or not end, the episode *)
(* may be cancelled and the controller killed.                             *)
(*                                                                         *)
(* A run is one that matches its lane (principal, agent, harness, branch   *)
(* and worktree) and was not there before the episode; a checkpoint is a   *)
(* note of the scenario's kind on its paths.  What a file contains, and the *)
(* sanitizing of it, are left out.                                         *)
(***************************************************************************)
EXTENDS Naturals, FiniteSets

CONSTANTS
    Initial,      \* the lane that starts
    Dependent,    \* the lane that waits for the barrier
    MaxRuns       \* bound on the runs that the agents open

ASSUME LanesDistinct == Initial # Dependent  \* EventGatedSchedule.Validate
ASSUME RunsBounded == MaxRuns \in Nat

Lanes == {Initial, Dependent}

VARIABLES
    at,           \* what the controller does next ...
    lane,         \* ... and for which lane
    seen,         \* the runs of the initial lane in the last list
    received,     \* lanes whose execution the controller has
    barrier,      \* the run whose checkpoint was observed
    observed,     \* episode.Barrier.Observed
    status,       \* LaneResult.Status
    listed,       \* episode.Lanes
    failed,       \* terminal is an error
    evidence,     \* what was written below the episode's directory
    verdict,      \* status and score of collaboration.json
    cancelled,    \* the context of the command
    agent,        \* the process of each lane
    raw,          \* lanes with a response that is not collected
    opened,       \* opened[l]: the matching runs on the server
    noted         \* the runs that have a checkpoint

laneVars == <<agent, raw, opened, noted>>
resultVars == <<status, listed, failed, verdict>>
barrierVars == <<seen, received, barrier, observed>>
collaborationVars ==
    <<at, lane, barrierVars, resultVars, evidence, cancelled, laneVars>>

-----------------------------------------------------------------------------
(* Rows *)

\* Runs are numbered in the order in which they are opened.
RunId == 1..MaxRuns
NoRun == 0

Position == {"idle", "observe", "clone", "launch", "list", "export", "select", "barrier",
             "receive", "persist", "check", "finish", "sums", "ended", "killed"}
AgentState == {"none", "cloned", "running", "done", "failed"}
Status == {"none", "running", "completed", "failed"}

\* The observation before a lane and the files of its result.
Observation(l) == IF l = Initial THEN "before" ELSE "before-dependent"
Result(l) == IF l = Initial THEN "initial-result" ELSE "dependent-result"

\* The exported snapshot of the barrier, barrier.json, and what
\* finishCollaboration writes.
Artifact == {"snapshot", "barrier", "score", "episode", "sums"}
                \cup {Observation(l) : l \in Lanes} \cup {Result(l) : l \in Lanes}

Verdict == [status : {"running", "completed", "incomplete", "failed"},
            observed : BOOLEAN, dependent : BOOLEAN, lanes : 0..2, incomplete : BOOLEAN]
NoVerdict == [status |-> "running", observed |-> FALSE, dependent |-> FALSE,
              lanes |-> 0, incomplete |-> FALSE]

CollaborationTypeOK ==
    /\ at \in Position /\ lane \in Lanes
    /\ seen \subseteq RunId /\ received \subseteq Lanes
    /\ barrier \in RunId \cup {NoRun} /\ observed \in BOOLEAN
    /\ status \in [Lanes -> Status] /\ listed \subseteq Lanes
    /\ failed \in BOOLEAN /\ evidence \subseteq Artifact /\ verdict \in Verdict
    /\ cancelled \in BOOLEAN
    /\ agent \in [Lanes -> AgentState] /\ raw \subseteq Lanes
    /\ opened \in [Lanes -> SUBSET RunId] /\ noted \subseteq RunId

CollaborationInit ==
    /\ at = "idle" /\ lane = Initial
    /\ seen = {} /\ received = {} /\ barrier = NoRun /\ observed = FALSE
    /\ status = [l \in Lanes |-> "none"] /\ listed = {}
    /\ failed = FALSE /\ evidence = {} /\ verdict = NoVerdict
    /\ cancelled = FALSE
    /\ agent = [l \in Lanes |-> "none"] /\ raw = {}
    /\ opened = [l \in Lanes |-> {}] /\ noted = {}

-----------------------------------------------------------------------------
(* Starting the lanes *)

\* finishCollaboration is called with an error and these lanes.
GiveUp(lanes) ==
    /\ at' = "finish" /\ failed' = TRUE /\ listed' = lanes
    /\ UNCHANGED <<lane, status, verdict>>

GoTo(position, l) == at' = position /\ lane' = l /\ UNCHANGED resultVars

Write(artifact) == evidence' = evidence \cup {artifact}

\* The lanes an error lists while a lane is being started.
Before(l) == IF l = Initial THEN {} ELSE {Initial}

\* The directory, the event log and schedule.json; each must be new.  An error
\* here ends the command without an episode.
StartEpisode ==
    /\ at = "idle"
    /\ \/ at' = "observe" /\ UNCHANGED failed
       \/ at' = "ended" /\ failed' = TRUE
    /\ UNCHANGED <<lane, status, listed, verdict, barrierVars, evidence, cancelled, laneVars>>

\* The observations "before" and "before-dependent" with their files.
ObserveBefore ==
    /\ at = "observe"
    /\ \/ /\ ~cancelled
          /\ Write(Observation(lane))
          /\ GoTo(IF lane = Initial THEN "clone" ELSE "launch", lane)
       \/ GiveUp(Before(lane)) /\ UNCHANGED evidence
    /\ UNCHANGED <<barrierVars, cancelled, laneVars>>

\* createCollaborationWorktree.
CloneLane ==
    /\ at = "clone"
    /\ \/ /\ agent' = [agent EXCEPT ![lane] = "cloned"]
          /\ GoTo(IF lane = Initial THEN "launch" ELSE "observe", lane)
       \/ GiveUp(Before(lane)) /\ UNCHANGED agent
    /\ UNCHANGED <<barrierVars, evidence, cancelled, raw, opened, noted>>

\* collaborationEnvironment and Launch.
LaunchLane ==
    /\ at = "launch"
    /\ \/ /\ agent' = [agent EXCEPT ![lane] = "running"]
          /\ status' = [status EXCEPT ![lane] = "running"]
          /\ at' = IF lane = Initial THEN "list" ELSE "receive"
          /\ lane' = IF Initial \in received THEN lane ELSE Initial
          /\ UNCHANGED <<listed, failed, verdict>>
       \/ GiveUp(Before(lane)) /\ UNCHANGED agent
    /\ UNCHANGED <<barrierVars, evidence, cancelled, raw, opened, noted>>

-----------------------------------------------------------------------------
(* The barrier *)

\* The initial lane has ended: the observation at hand is the last one.
LastLook == Initial \in received

\* waitForBarrier returns.  What an ended lane left is kept before an error of
\* the wait is looked at.
WaitFails == IF LastLook THEN GoTo("persist", Initial) ELSE GiveUp({Initial})

ListRuns ==
    /\ at = "list"
    /\ \/ ~cancelled /\ seen' = opened[Initial] /\ GoTo("export", lane)
       \/ WaitFails /\ UNCHANGED seen
    /\ UNCHANGED <<received, barrier, observed, evidence, cancelled, laneVars>>

\* matchingLaneRun: there must be exactly one.
Unique(runs, run) == runs = {run}

\* Seeded fault: a note of the scenario's kind, whatever run it is of.
AnyNote(run) == noted # {}

\* matchingBarrierNote.
Checkpointed(run) == run \in noted

ExportProject ==
    /\ at = "export"
    /\ \/ \E run \in seen :
             /\ ~cancelled /\ Unique(seen, run) /\ Checkpointed(run)
             /\ barrier' = run
             /\ Write("snapshot")
             /\ GoTo(IF LastLook THEN "persist" ELSE "barrier", Initial)
       \/ /\ ~cancelled
          /\ ~\E run \in seen : Unique(seen, run) /\ Checkpointed(run)
          /\ GoTo(IF LastLook THEN "persist" ELSE "select", Initial)
          /\ UNCHANGED <<barrier, evidence>>
       \/ WaitFails /\ UNCHANGED <<barrier, evidence>>
    /\ UNCHANGED <<seen, received, observed, cancelled, laneVars>>

Ended(l) == agent[l] \in {"done", "failed"}

\* The select of waitForBarrier: the lane has ended, the context is done, or
\* the ticker fired.
Wait ==
    /\ at = "select"
    /\ \/ Ended(Initial) /\ received' = {Initial} /\ GoTo("list", Initial)
       \/ cancelled /\ GiveUp({Initial}) /\ UNCHANGED received
       \/ GoTo("list", Initial) /\ UNCHANGED received
    /\ UNCHANGED <<seen, barrier, observed, evidence, cancelled, laneVars>>

\* barrier.json and the event come before the dependent lane is touched.
PublishBarrier ==
    /\ at = "barrier"
    /\ observed' = TRUE
    /\ \/ Write("barrier") /\ (GoTo("clone", Dependent) \/ GiveUp({}))
       \/ GiveUp({}) /\ UNCHANGED evidence
    /\ UNCHANGED <<seen, received, barrier, cancelled, laneVars>>

-----------------------------------------------------------------------------
(* The ends of the lanes *)

\* receiveCollaborationExecution.
Receive ==
    /\ at = "receive"
    /\ \/ Ended(lane) /\ received' = received \cup {lane} /\ GoTo("persist", lane)
       \/ cancelled /\ GiveUp(Lanes) /\ UNCHANGED received
    /\ UNCHANGED <<seen, barrier, observed, evidence, cancelled, laneVars>>

\* Seeded fault: a lane that was released is waited for without a timer.
BarrierTimer ==
    /\ at = "select" /\ GiveUp({Initial})
    /\ UNCHANGED <<barrierVars, evidence, cancelled, laneVars>>

\* The deadline of the barrier, and the timer of a lane that was released.
TimeOut ==
    /\ \/ at = "select" /\ GiveUp({Initial})
       \/ at = "receive" /\ GiveUp(Lanes)
    /\ UNCHANGED <<barrierVars, evidence, cancelled, laneVars>>

Released == status[Dependent] # "none"

\* Seeded fault: an error lists every lane of the scenario.
AllLanes == Lanes

Launched == IF Released THEN Lanes ELSE {Initial}

Identified(l) == \E run \in RunId : Unique(opened[l], run)

\* The lane's files can be written, and its run is known.
Retained(l) == ~cancelled /\ Identified(l) /\ l \notin raw

Outcome(l) == IF agent[l] = "done" THEN "completed" ELSE "failed"

\* Seeded fault: only the error of the lane that ended last counts.
DependentFailed == agent[Dependent] = "failed"

LaneFailed == \E l \in Lanes : agent[l] = "failed"

Proceed ==
    \/ lane = Dependent /\ at' = "finish" /\ listed' = Lanes
       /\ failed' = LaneFailed /\ UNCHANGED lane
    \/ lane = Initial /\ Released /\ at' = "receive" /\ lane' = Dependent
       /\ UNCHANGED <<listed, failed>>
    \/ lane = Initial /\ ~Released /\ barrier # NoRun /\ at' = "barrier"
       /\ UNCHANGED <<lane, listed, failed>>
    \/ lane = Initial /\ ~Released /\ barrier = NoRun /\ at' = "finish"
       /\ listed' = {Initial} /\ failed' = TRUE /\ UNCHANGED lane

\* persistLaneResult, until the lane's run is known.  The lane has its status
\* before its files are written, and keeps it when one of them is not.
PersistLane ==
    /\ at = "persist"
    /\ \/ Retained(lane) /\ at' = "check" /\ UNCHANGED <<status, listed, failed>>
       \/ /\ status' = [status EXCEPT ![lane] = Outcome(lane)]
          /\ at' = "finish" /\ listed' = Launched /\ failed' = TRUE
    /\ UNCHANGED <<lane, evidence, verdict, barrierVars, cancelled, laneVars>>

\* The rest of it: git and the required checks run in the lane's worktree, over
\* what its agent left there, and the controller waits for them without a
\* deadline.  A check that fails, or that a cancelled context does not start,
\* makes the lane failed.
CheckLane ==
    /\ at = "check"
    /\ \/ /\ ~cancelled
          /\ status' = [status EXCEPT ![lane] = Outcome(lane)]
          /\ Write(Result(lane))
          /\ Proceed
       \/ /\ \E s \in {Outcome(lane), "failed"} : status' = [status EXCEPT ![lane] = s]
          /\ at' = "finish" /\ listed' = Launched /\ failed' = TRUE
          /\ UNCHANGED <<lane, evidence>>
    /\ UNCHANGED <<verdict, barrierVars, cancelled, laneVars>>

-----------------------------------------------------------------------------
(* The end of the episode *)

Completed == {l \in listed : status[l] = "completed"}

Score == [observed |-> observed, dependent |-> Dependent \in listed,
          lanes |-> Cardinality(Completed)]

\* CollaborationEpisode.Validate.
Valid == observed /\ Score.dependent /\ Score.lanes = 2 /\ listed = Lanes

Rated == IF failed THEN "incomplete" ELSE IF Valid THEN "completed" ELSE "failed"

\* finishCollaboration computes the score and writes it, the episode and the
\* dossier; a write that fails is an error, and the next one is still tried.
Finish ==
    /\ at = "finish"
    /\ verdict' = [status |-> Rated, observed |-> Score.observed,
                   dependent |-> Score.dependent, lanes |-> Score.lanes,
                   incomplete |-> failed \/ ~Valid]
    /\ \E written \in SUBSET {"score", "episode"} :
          /\ evidence' = evidence \cup written
          /\ \/ failed' = (failed \/ Rated = "failed" \/ written # {"score", "episode"})
             \/ failed' = TRUE
    /\ at' = "sums"
    /\ UNCHANGED <<lane, status, listed, barrierVars, cancelled, laneVars>>

\* writeSHA256Sums, over whatever is there.
WriteSums ==
    /\ at = "sums"
    /\ \/ Write("sums") /\ UNCHANGED failed
       \/ UNCHANGED evidence /\ failed' = TRUE
    /\ at' = "ended"
    /\ UNCHANGED <<lane, status, listed, verdict, barrierVars, cancelled, laneVars>>

Active == at \notin {"idle", "ended", "killed"}

Cancel ==
    /\ Active /\ ~cancelled
    /\ cancelled' = TRUE
    /\ UNCHANGED <<at, lane, barrierVars, resultVars, evidence, laneVars>>

KillController ==
    /\ Active
    /\ at' = "killed"
    /\ UNCHANGED <<lane, barrierVars, resultVars, evidence, cancelled, laneVars>>

-----------------------------------------------------------------------------
(* The agents *)

controllerVars == <<at, lane, barrierVars, resultVars, evidence, cancelled>>

OpenRun(l) ==
    LET run == Cardinality(opened[Initial] \cup opened[Dependent]) + 1
    IN  /\ agent[l] = "running"
        /\ run <= MaxRuns
        /\ opened' = [opened EXCEPT ![l] = @ \cup {run}]
        /\ UNCHANGED <<controllerVars, agent, raw, noted>>

RecordCheckpoint(l, run) ==
    /\ agent[l] = "running" /\ run \in opened[l] \ noted
    /\ noted' = noted \cup {run}
    /\ UNCHANGED <<controllerVars, agent, raw, opened>>

\* Codex writes its last message; the launcher collects and removes it.
Respond(l) ==
    /\ agent[l] = "running" /\ l \notin raw
    /\ raw' = raw \cup {l}
    /\ UNCHANGED <<controllerVars, agent, opened, noted>>

Collect(l) ==
    /\ agent[l] = "running" /\ l \in raw
    /\ raw' = raw \ {l}
    /\ UNCHANGED <<controllerVars, agent, opened, noted>>

EndLane(l) ==
    /\ agent[l] = "running"
    /\ \/ l \notin raw /\ agent' = [agent EXCEPT ![l] = "done"]
       \/ agent' = [agent EXCEPT ![l] = "failed"]
    /\ UNCHANGED <<controllerVars, raw, opened, noted>>

-----------------------------------------------------------------------------
StartStep == StartEpisode \/ ObserveBefore \/ CloneLane \/ LaunchLane
BarrierStep == ListRuns \/ ExportProject \/ Wait \/ PublishBarrier
EndStep == Receive \/ PersistLane \/ CheckLane \/ Finish \/ WriteSums

ControllerStep == StartStep \/ BarrierStep \/ EndStep

AgentStep ==
    \E l \in Lanes :
        \/ OpenRun(l)
        \/ \E run \in RunId : RecordCheckpoint(l, run)
        \/ Respond(l) \/ Collect(l) \/ EndLane(l)

CollaborationNext ==
    ControllerStep \/ TimeOut \/ Cancel \/ KillController \/ AgentStep

CollaborationSpec == CollaborationInit /\ [][CollaborationNext]_collaborationVars

\* Once the command runs, its requests, writes, clones and launches end, with an
\* error at the latest.  The checks need not: they have no deadline, and a
\* cancelled context kills the shell but not what it left behind, whose output
\* is still waited for.  A timer that has fired stays ready, and the select
\* takes it sooner or later though the ticker is ready as well.  Nothing is
\* assumed of the agents.
EpisodeFairness ==
    /\ WF_collaborationVars(at \notin {"idle", "check"} /\ ControllerStep)
    /\ SF_collaborationVars(TimeOut)

-----------------------------------------------------------------------------
(* Properties *)

\* "It does not clone or launch lane B before that durable observation"
\* (evals/README.md:65): barrier.json is there, and the run it names is one of
\* the initial lane that has a checkpoint, though runs and notes were read in
\* two requests.
DependentWaitsForBarrier ==
    agent[Dependent] # "none" =>
        /\ {"snapshot", "barrier"} \subseteq evidence
        /\ barrier \in opened[Initial] \cap noted

\* An episode that is rated completed is: both lanes ended well, each has one
\* run, the initial lane's is the one the barrier names, and all observations
\* and results were written.  CollaborationEpisode.Validate never has to turn
\* an episode without an error into a failed one.  A command that succeeds has
\* also written score, episode and sums, with no response left uncollected.
WholeEpisode ==
    /\ \A l \in Lanes : /\ agent[l] = "done" /\ Identified(l)
                       /\ {Observation(l), Result(l)} \subseteq evidence
    /\ opened[Initial] = {barrier} /\ barrier \in noted
    /\ {"snapshot", "barrier"} \subseteq evidence

CompletedIsComplete ==
    /\ verdict.status = "completed" => WholeEpisode
    /\ verdict.status # "failed"
    /\ at = "ended" /\ ~failed =>
           /\ verdict.status = "completed"
           /\ {"score", "episode", "sums"} \subseteq evidence
           /\ raw = {}

DoneLanes == {l \in Lanes : agent[l] = "done"}

\* The score of an episode that did not complete does not claim too much: a
\* barrier that was observed, a dependent lane that was launched, and no more
\* lanes than ended well.
ScoreTruthful ==
    "score" \in evidence =>
        /\ verdict.observed => barrier \in opened[Initial] \cap noted
        /\ verdict.dependent <=> agent[Dependent] \notin {"none", "cloned"}
        /\ verdict.lanes <= Cardinality(DoneLanes)
        /\ verdict.incomplete <=> verdict.status = "incomplete"

\* An episode that has started ends, though the agents open no run, record no
\* checkpoint or never return: the one thing they can hold it up with is a
\* required check that does not end in the worktree they left
\* (collaboration_rollout.go:851-867, which sets no deadline).
EpisodeEnds ==
    []<>(at # "check") => ((at = "observe") ~> (at \in {"ended", "killed"}))

-----------------------------------------------------------------------------
(* The inductive invariant *)

Kept(l) ==
    /\ l \in received /\ Identified(l) /\ l \notin raw
    /\ Result(l) \in evidence /\ status[l] = Outcome(l)

WellDone ==
    /\ observed /\ listed = Lanes
    /\ \A l \in Lanes : Kept(l) /\ status[l] = "completed"

\* What the controller believes of the lanes.
LanesInv ==
    /\ seen \subseteq opened[Initial]
    /\ \A l \in received : Ended(l)
    /\ \A l \in Lanes :
          /\ status[l] = "none" <=> agent[l] \in {"none", "cloned"}
          /\ status[l] = "completed" => agent[l] = "done"
          /\ status[l] # "none" => Observation(l) \in evidence

\* What was observed is so, and the dependent lane exists for no other reason.
BarrierInv ==
    /\ barrier # NoRun => barrier \in opened[Initial] \cap noted /\ "snapshot" \in evidence
    /\ observed => barrier # NoRun
    /\ agent[Dependent] # "none" => observed /\ "barrier" \in evidence

\* While a lane is being started ...
StartInv ==
    /\ at \in {"idle", "observe", "clone", "launch"} /\ lane = Initial =>
           /\ agent[Dependent] = "none"
           /\ agent[Initial] = IF at = "launch" THEN "cloned" ELSE "none"
           /\ at \in {"clone", "launch"} => Observation(Initial) \in evidence
    /\ at = "idle" => lane = Initial
    /\ at \in {"observe", "clone", "launch"} /\ lane = Dependent =>
           /\ observed /\ "barrier" \in evidence
           /\ agent[Dependent] = IF at = "clone" THEN "none" ELSE "cloned"
           /\ at = "launch" => Observation(Dependent) \in evidence
           /\ Initial \in received => Kept(Initial)

\* ... the barrier awaited ...
WaitInv ==
    /\ at \in {"list", "export", "select", "barrier"} => lane = Initial /\ agent[Dependent] = "none"
    /\ at = "barrier" => barrier # NoRun /\ (Initial \in received => Kept(Initial))

\* ... and the ends of the lanes collected.
EndInv ==
    /\ at = "receive" => Released /\ (lane = Dependent => Kept(Initial))
    /\ at \in {"persist", "check"} =>
           /\ lane \in received
           /\ lane = Dependent => Kept(Initial)
           /\ ~Released => agent[Dependent] = "none"
    /\ at = "check" => Identified(lane) /\ lane \notin raw
    /\ at = "finish" =>
           /\ Dependent \in listed <=> Released
           /\ ~failed => WellDone

Over == {"sums", "ended", "killed"}

VerdictInv ==
    /\ "score" \in evidence => at \in Over /\ (verdict.dependent <=> Released)
    /\ verdict.observed => barrier # NoRun
    /\ verdict.lanes <= Cardinality(DoneLanes)
    /\ verdict.incomplete <=> verdict.status = "incomplete"
    /\ verdict.status # "failed"
    /\ verdict.status = "completed" => at \in Over /\ WholeEpisode
    /\ at \in {"sums", "ended"} /\ ~failed =>
           /\ verdict.status = "completed" /\ raw = {}
           /\ {"score", "episode"} \subseteq evidence
           /\ at = "ended" => "sums" \in evidence

CollaborationInv ==
    /\ CollaborationTypeOK
    /\ LanesInv /\ BarrierInv
    /\ StartInv /\ WaitInv /\ EndInv
    /\ VerdictInv
=============================================================================
