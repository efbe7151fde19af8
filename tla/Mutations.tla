----------------------------- MODULE Mutations -----------------------------
(***************************************************************************)
(* The write path of one installation: `mutate` with its idempotency       *)
(* receipts and the operations on runs and trajectories that go through it *)
(* (store/store.go, service/service.go).                                   *)
(*                                                                         *)
(* A request may arrive any number of times and in any order: a client may *)
(* repeat it under its key after a timeout, and several agents share the   *)
(* principal of a project token.  A transaction is one action.  EndRun is  *)
(* two transactions and creating a trajectory a read and a transaction; in *)
(* between other requests run and the process may stop.                    *)
(*                                                                         *)
(* There is one project and one principal, since receipts, runs and        *)
(* trajectories of different principals are apart.  Of the provenance a    *)
(* request reports, the head commit, the state of the pull request and     *)
(* whether there is merge evidence are kept; the other fields are stored   *)
(* like the head.  An answer that changes nothing (a refusal, the receipt  *)
(* of an exact retry) is no step.  Projects, notes, repositories and       *)
(* tokens go through `mutate` in the same way and are left out.            *)
(***************************************************************************)
EXTENDS Integers, Sequences, FiniteSets

CONSTANTS
    Key,          \* idempotency keys of the clients
    Run,          \* identifiers of runs, drawn at random
    Trajectory,   \* identifiers of trajectories, drawn at random
    Call,         \* handlers that may be between two steps at once
    Commit,       \* Git commits
    Reported,     \* what clients report about a delivery
    None

\* What a request says of a delivery: empty fields leave a run as it is.
Evidence == [head: Commit \cup {None}, state: {"", "open", "closed", "merged"}, merged: BOOLEAN]
NoEvidence == [head |-> None, state |-> "", merged |-> FALSE]

ASSUME NoneIsNothing == None \notin Run \cup Commit
ASSUME ReportedIsEvidence == Reported \subseteq Evidence

VARIABLES
    receipt,      \* receipt[k]: the row of receipts for the key k
    log,          \* events and domain_events of this origin, in order
    run,          \* runs
    trajectory,   \* trajectories
    call          \* call[c]: a handler between two of its steps

vars == <<receipt, log, run, trajectory, call>>

-----------------------------------------------------------------------------
(* Requests *)

\* EndRun makes up a second key for the delivery.
ReceiptKey == Key \X {"", ":delivery"}
OwnKey(k) == <<k, "">>
DeliveryKey(k) == <<k, ":delivery">>

\* What the request hash covers: the input of the operation.  The run is part
\* of the input of a trajectory; that of EndRun and LinkRunDelivery is in the
\* path of the request and not covered.
Input == [op: {"start", "trajectory", "end", "link"}, run: Run \cup {None}, evidence: Evidence]
InputOf(op, evidence) == [op |-> op, run |-> None, evidence |-> evidence]
HeadOnly(head) == [NoEvidence EXCEPT !.head = head]
TrajectoryInput(r, head) == [op |-> "trajectory", run |-> r, evidence |-> HeadOnly(head)]

-----------------------------------------------------------------------------
(* Rows *)

Receipt == [input: Input, event: Nat \ {0}]
NoReceipt == [event |-> 0]

RunRow == [status: {"open", "ended"}, evidence: Evidence]
NoRun == [status |-> "absent", evidence |-> NoEvidence]

TrajectoryRow == [status: {"active", "closed"}, run: Run]
NoTrajectory == [status |-> "absent", run |-> None]

Event ==
    [type: {"run.started", "run.ended", "run.delivery_linked"}, entity: Run, row: RunRow]
    \cup [type: {"trajectory.started"}, entity: Trajectory, run: Run]
RunEvent(type, r, row) == [type |-> type, entity |-> r, row |-> row]
IsRunEvent(e, type, r) == e.type = type /\ e.entity = r

Idle == [step |-> "idle"]
Handler ==
    {Idle}
    \cup [step: {"link"}, key: Key, run: Run, evidence: Evidence]
    \cup [step: {"trajectory"}, key: Key, run: Run, head: Commit \cup {None}]

TypeOK ==
    /\ receipt \in [ReceiptKey -> Receipt \cup {NoReceipt}]
    /\ log \in Seq(Event)
    /\ run \in [Run -> RunRow \cup {NoRun}]
    /\ trajectory \in [Trajectory -> TrajectoryRow \cup {NoTrajectory}]
    /\ call \in [Call -> Handler]

Init ==
    /\ receipt = [k \in ReceiptKey |-> NoReceipt]
    /\ log = <<>>
    /\ run = [r \in Run |-> NoRun]
    /\ trajectory = [t \in Trajectory |-> NoTrajectory]
    /\ call = [c \in Call |-> Idle]

-----------------------------------------------------------------------------
(* mutate *)

Fresh(k) == receipt[k] = NoReceipt

\* The key was used for this very input: its receipt is the answer.
Repeats(k, input) == ~Fresh(k) /\ receipt[k].input = input

\* Seeded fault: the sequence is read before the event is inserted.
RecordPrevious(k, input, event) ==
    /\ Fresh(k)
    /\ log' = Append(log, event)
    /\ receipt' = [receipt EXCEPT ![k] =
            IF log = <<>> THEN NoReceipt ELSE [input |-> input, event |-> Len(log)]]

\* The event and the receipt that names it are part of the operation's
\* transaction.
Record(k, input, event) ==
    /\ Fresh(k)
    /\ log' = Append(log, event)
    /\ receipt' = [receipt EXCEPT ![k] = [input |-> input, event |-> Len(log) + 1]]

-----------------------------------------------------------------------------
(* Runs *)

StartRun(k, r, head) ==
    /\ run[r] = NoRun
    /\ run' = [run EXCEPT ![r] = [status |-> "open", evidence |-> HeadOnly(head)]]
    /\ Record(OwnKey(k), InputOf("start", HeadOnly(head)), RunEvent("run.started", r, run'[r]))
    /\ UNCHANGED <<trajectory, call>>

\* The fields of the request that are not empty replace those of the run.
Merged(old, evidence) ==
    [head |-> IF evidence.head = None THEN old.head ELSE evidence.head,
     state |-> IF evidence.state = "" THEN old.state ELSE evidence.state,
     merged |-> old.merged \/ evidence.merged]

\* Seeded fault: the state is required where it is given and not otherwise.
DeliverableIfGiven(r, evidence) ==
    /\ run[r] # NoRun
    /\ evidence.merged => evidence.state \in {"", "merged"}

\* Merge evidence needs a pull request that is merged after the update.
Deliverable(r, evidence) ==
    /\ run[r] # NoRun
    /\ evidence.merged => Merged(run[r].evidence, evidence).state = "merged"

\* Seeded fault: the update lacks `ended_at IS NULL`.
OpenOrEnded(r) == run[r] # NoRun

Open(r) == run[r].status = "open"

Update(r, status, evidence) ==
    run' = [run EXCEPT ![r] =
               [status |-> status, evidence |-> Merged(run[r].evidence, evidence)]]

\* Ending a run closes the trajectories it has at that time.
Closed(r) ==
    [t \in Trajectory |->
        IF trajectory[t].status = "active" /\ trajectory[t].run = r
        THEN [trajectory[t] EXCEPT !.status = "closed"]
        ELSE trajectory[t]]

\* The handler goes on to link the delivery the request reports.
GoOn(c, k, r, evidence) ==
    call' = [call EXCEPT ![c] =
                IF evidence = NoEvidence THEN Idle
                ELSE [step |-> "link", key |-> k, run |-> r, evidence |-> evidence]]

\* Seeded fault: the event carries the row from before the update.
ReadBefore(r) == run[r]

\* The row is read back after the update.
ReadBack(r) == run'[r]

\* What the event of an end carries of the row: portableEventPayload takes out
\* what was delivered, for the event of the second transaction to tell. The
\* head commit is not part of that.
Portable(row) == [row EXCEPT !.evidence = HeadOnly(row.evidence.head)]

EndRun(c, k, r, evidence) ==
    /\ call[c] = Idle
    /\ Deliverable(r, evidence)
    /\ Open(r)
    /\ Update(r, "ended", evidence)
    /\ trajectory' = Closed(r)
    /\ Record(OwnKey(k), InputOf("end", evidence), RunEvent("run.ended", r, Portable(ReadBack(r))))
    /\ GoOn(c, k, r, evidence)

\* Seeded fault: the second step does not wait for the answer of the first.
GoOnAnyway(c, k, r, evidence) ==
    /\ call[c] = Idle
    /\ GoOn(c, k, r, evidence)
    /\ UNCHANGED <<receipt, log, run, trajectory>>

\* A repeated EndRun is answered from its receipt and links the delivery of
\* the run in its path, in case the first one did not get there.
EndRunAgain(c, k, r, evidence) ==
    /\ call[c] = Idle
    /\ Repeats(OwnKey(k), InputOf("end", evidence))
    /\ GoOn(c, k, r, evidence)
    /\ UNCHANGED <<receipt, log, run, trajectory>>

\* The transaction of LinkRunDelivery.
Deliver(k, r, evidence) ==
    /\ Deliverable(r, evidence)
    /\ Update(r, run[r].status, evidence)
    /\ Record(k, InputOf("link", evidence), RunEvent("run.delivery_linked", r, ReadBack(r)))
    /\ UNCHANGED trajectory

LinkRunDelivery(k, r, evidence) ==
    /\ Deliver(OwnKey(k), r, evidence)
    /\ UNCHANGED call

\* The second transaction of EndRun.
LinkDelivery(c) ==
    /\ call[c].step = "link"
    /\ Deliver(DeliveryKey(call[c].key), call[c].run, call[c].evidence)
    /\ call' = [call EXCEPT ![c] = Idle]

-----------------------------------------------------------------------------
(* Trajectories *)

\* Service.CreateTrajectory reads the run; a field the request leaves empty is
\* the run's.
ReadRun(c, k, r, head) ==
    /\ call[c] = Idle
    /\ run[r] # NoRun
    /\ call' = [call EXCEPT ![c] =
                   [step |-> "trajectory", key |-> k, run |-> r,
                    head |-> IF head = None THEN run[r].evidence.head ELSE head]]
    /\ UNCHANGED <<receipt, log, run, trajectory>>

CreateTrajectory(c, t) ==
    /\ call[c].step = "trajectory"
    /\ trajectory[t] = NoTrajectory
    /\ trajectory' = [trajectory EXCEPT ![t] = [status |-> "active", run |-> call[c].run]]
    /\ Record(OwnKey(call[c].key), TrajectoryInput(call[c].run, call[c].head),
              [type |-> "trajectory.started", entity |-> t, run |-> call[c].run])
    /\ call' = [call EXCEPT ![c] = Idle]
    /\ UNCHANGED run

\* The next transaction is refused or answered from a receipt, the request is
\* cancelled, or the process stops: no step of the handler follows.
Leave(c) ==
    /\ call[c] # Idle
    /\ call' = [call EXCEPT ![c] = Idle]
    /\ UNCHANGED <<receipt, log, run, trajectory>>

-----------------------------------------------------------------------------
RunStep ==
    \E k \in Key, r \in Run, evidence \in Reported :
        \/ StartRun(k, r, evidence.head)
        \/ LinkRunDelivery(k, r, evidence)
        \/ \E c \in Call : EndRun(c, k, r, evidence) \/ EndRunAgain(c, k, r, evidence)
        \/ \E c \in Call : ReadRun(c, k, r, evidence.head)

HandlerStep ==
    \E c \in Call :
        \/ LinkDelivery(c)
        \/ \E t \in Trajectory : CreateTrajectory(c, t)
        \/ Leave(c)

Next == RunStep \/ HandlerStep

Spec == Init /\ [][Next]_vars
-----------------------------------------------------------------------------
(* Projection of this origin's events by another replica *)

\* projectDomainEventTx: a new run is inserted; on a known one the fields of
\* the event that are not empty win, and an end is never taken back.
ProjectedRun(old, row) ==
    IF old = NoRun THEN row
    ELSE [status |-> IF row.status = "ended" THEN "ended" ELSE old.status,
          evidence |-> Merged(old.evidence, row.evidence)]

ProjectEvent(rows, e) ==
    IF e.type = "trajectory.started"
    THEN [rows EXCEPT !.trajectory[e.entity] = [status |-> "active", run |-> e.run]]
    ELSE [run |-> [rows.run EXCEPT ![e.entity] = ProjectedRun(@, e.row)],
          trajectory |->
              [t \in Trajectory |->
                  IF e.type = "run.ended" /\ rows.trajectory[t].status = "active"
                         /\ rows.trajectory[t].run = e.entity
                  THEN [rows.trajectory[t] EXCEPT !.status = "closed"]
                  ELSE rows.trajectory[t]]]

NoRows == [run |-> [r \in Run |-> NoRun], trajectory |-> [t \in Trajectory |-> NoTrajectory]]

\* The rows a replica has after the first n events of a history.
RowsAfter(history) ==
    LET rows[n \in Nat] == IF n = 0 THEN NoRows ELSE ProjectEvent(rows[n - 1], history[n])
    IN  rows

Projected == RowsAfter(log)[Len(log)]

-----------------------------------------------------------------------------
(* Properties *)

\* Receipts and events are one-to-one: no effect without the receipt that
\* protects it from a retry, and no two keys for one effect.
ReceiptsNameEvents ==
    /\ \A k \in ReceiptKey : ~Fresh(k) => receipt[k].event \in DOMAIN log
    /\ \A i \in DOMAIN log : \E k \in ReceiptKey : receipt[k].event = i
    /\ \A k1, k2 \in ReceiptKey :
          ~Fresh(k1) /\ receipt[k1].event = receipt[k2].event => k1 = k2

\* A second transaction of EndRun only takes effect after the first one of the
\* same key, and for the delivery that one was told of; whatever is retried,
\* reused or interrupted in between.
DeliveryFollowsEnd ==
    \A k \in Key :
        LET end == receipt[OwnKey(k)]
            delivery == receipt[DeliveryKey(k)]
        IN  ~Fresh(DeliveryKey(k)) =>
                /\ ~Fresh(OwnKey(k))
                /\ end.input.op = "end"
                /\ end.input.evidence = delivery.input.evidence
                /\ end.event < delivery.event

\* A run ends once, however often and under however many keys it is told to,
\* and its end is in the history if and only if its row says so.
EndedOnce ==
    \A r \in Run :
        LET Ends == {i \in DOMAIN log : IsRunEvent(log[i], "run.ended", r)}
        IN  /\ \A i, j \in Ends : i = j
            /\ run[r].status = "ended" <=> Ends # {}

\* A trajectory of a run that has ended is only active if it was created
\* afterwards: the end leaves none behind.
ActiveAfterEnd ==
    \A t \in Trajectory, i \in DOMAIN log :
        trajectory[t].status = "active" /\ IsRunEvent(log[i], "run.ended", trajectory[t].run) =>
            \E j \in DOMAIN log : j > i /\ log[j].type = "trajectory.started" /\ log[j].entity = t

\* Reports more than a head commit.
ReportsDelivery(evidence) == evidence # HeadOnly(evidence.head)

\* The end of r reported a delivery that no later event tells: EndRun stopped
\* between its transactions, or the key of the second one was used already.
Undelivered(r) ==
    \E i \in DOMAIN log, k \in ReceiptKey :
        /\ IsRunEvent(log[i], "run.ended", r)
        /\ receipt[k].event = i
        /\ ReportsDelivery(receipt[k].input.evidence)
        /\ \A j \in DOMAIN log : j > i => ~IsRunEvent(log[j], "run.delivery_linked", r)

\* A replica that takes all events of this origin has the trajectories of the
\* origin, and of each run the status and the head commit.  What it shows of the
\* delivery is what the origin shows, except for a run whose end reported a
\* delivery that has not been linked: the origin's row has it and the event of
\* the end leaves it out.
RowsFollowLog ==
    /\ Projected.trajectory = trajectory
    /\ \A r \in Run :
          /\ Projected.run[r].status = run[r].status
          /\ Projected.run[r].evidence.head = run[r].evidence.head
          /\ ~Undelivered(r) => Projected.run[r] = run[r]

\* Merge evidence is accepted for a pull request that is merged, where request
\* and row together say so ("merge evidence requires pull request state
\* merged", store.go:733).
MergeNeedsMergedState ==
    [][\A r \in Run :
        run'[r].evidence.merged /\ ~run[r].evidence.merged => run'[r].evidence.state = "merged"]_vars

\* What a handler that is about to link a delivery knows: the end it reported
\* is recorded under its key.
LinksKnown ==
    \A c \in Call :
        call[c].step = "link" =>
            LET end == receipt[OwnKey(call[c].key)]
            IN  end # NoReceipt /\ end.input.op = "end" /\ end.input.evidence = call[c].evidence

\* The inductive invariant of the proofs.
MutationsInv ==
    /\ TypeOK
    /\ ReceiptsNameEvents
    /\ DeliveryFollowsEnd
    /\ EndedOnce
    /\ ActiveAfterEnd
    /\ LinksKnown

\* The write path implements: every key has at most one effect.
Requests == INSTANCE IdempotentRequests WITH
    Key <- ReceiptKey,
    effects <- log,
    position <- [k \in ReceiptKey |-> receipt[k].event]

ImplementsRequests == Requests!Spec
=============================================================================
