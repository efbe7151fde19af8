----------------------------- MODULE Lifecycle -----------------------------
(***************************************************************************)
(* Notes on the replicas of one workspace: how they are recorded and       *)
(* superseded, in which order the authority serves the events, and what a  *)
(* replica makes of the events it imports.                                 *)
(*                                                                         *)
(* Module Replication shows that every replica follows each origin's chain *)
(* without gaps; it leaves out what an event says.  Here the chains are    *)
(* taken as they are and the events are those about notes: note.recorded   *)
(* and note.superseded (store.go CreateNote and SupersedeNote), projected  *)
(* by projectDomainEventTx.  A file's state is one record, so that the     *)
(* view inside a transaction and the committed file have the same shape;   *)
(* ImportEvents is a transaction of several steps that ends in a commit,   *)
(* an error or a crash.                                                    *)
(*                                                                         *)
(* A note's revision is 1 while it is current and 2 afterwards, and its    *)
(* text never changes: both are left out, and the check of the expected    *)
(* revision is the check that the note is current.                         *)
(***************************************************************************)
EXTENDS Integers, FiniteSetsExt

CONSTANTS
    Replica,      \* installations of the workspace
    Authority,    \* the replica the others pull from and push to
    Note,         \* note identifiers
    None,         \* no note: superseded_by or replacement is empty
    Time,         \* what clocks may show; clocks of replicas are unrelated
    Collation,    \* Collation[r]: where r's identifier sorts as text
    Limit,        \* events per pull or push batch (500 in the code)
    Careless,     \* bound: replicas where a replacement may have an unchecked run
    MaxEvents     \* bound: events appended in all

ASSUME AuthorityAssumption == Authority \in Replica
ASSUME NoneAssumption == None \notin Note
ASSUME OrderAssumption == Time \subseteq Nat /\ Collation \in [Replica -> Nat]
ASSUME LimitAssumption == Limit \in Nat \ {0} /\ MaxEvents \in Nat

VARIABLES
    file,     \* file[r]: r's committed tables
    tx,       \* tx[r]: r's import in progress, if any
    reply,    \* reply[r]: the events of a pull response r has not imported yet
    joined    \* the replicas that have the workspace

vars == <<file, tx, reply, joined>>

-----------------------------------------------------------------------------
(* Events and files *)

EventName == [origin: Replica, seq: Nat \ {0}]
Event == [origin: Replica, seq: Nat \ {0}, type: {"note.recorded", "note.superseded"},
          target: Note, replacement: Note \cup {None}, run: {"own", "unchecked"},
          causes: SUBSET EventName, time: Time]
NoteRow == [status: {"absent", "current", "superseded", "contested"},
            by: Note \cup {None}]
File == [log: SUBSET Event, notes: [Note -> NoteRow], edges: SUBSET Event,
         heads: [Replica -> Nat]]

Absent == [status |-> "absent", by |-> None]
Current == [status |-> "current", by |-> None]
Contested == [status |-> "contested", by |-> None]
Superseded(by) == [status |-> "superseded", by |-> by]

NoFile == [log |-> {}, notes |-> [n \in Note |-> Absent], edges |-> {},
           heads |-> [o \in Replica |-> 0]]

\* A page: events with the position each has in the response.
NoPage == [e \in {} |-> 0]
NoTx == [open |-> FALSE, page |-> NoPage, file |-> NoFile]

\* A page is a function on a set of events, whatever the set is.
TypeOK ==
    /\ file \in [Replica -> File]
    /\ tx = [r \in Replica |-> [open |-> tx[r].open, page |-> tx[r].page, file |-> tx[r].file]]
    /\ reply = [r \in Replica |-> reply[r]]
    /\ \A r \in Replica :
           /\ tx[r].open \in BOOLEAN /\ tx[r].file \in File
           /\ DOMAIN tx[r].page \subseteq Event /\ DOMAIN reply[r] \subseteq Event
    /\ joined \subseteq Replica

NameOf(e) == [origin |-> e.origin, seq |-> e.seq]
Introduces(e, n) ==
    \/ e.type = "note.recorded" /\ e.target = n
    \/ e.type = "note.superseded" /\ e.replacement = n
Supersedes(e, n) == e.type = "note.superseded" /\ e.target = n

Known(f, n) == f.notes[n].status # "absent"
Covered(f, e) == e.seq <= f.heads[e.origin]

\* Every event there is: an origin keeps its own rows.
Created == UNION {file[r].log : r \in Replica}
Unused(n) == \A e \in Created : n \notin {e.target, e.replacement}

-----------------------------------------------------------------------------
(* What an event does to the tables *)

\* The incoming row wins, whatever is there.
UpsertNote(notes, n, row) == [notes EXCEPT ![n] = row]

\* Seeded fault: a retirement counts as one more successor.
AnyTwoEdges(edges, n) ==
    \E d1, d2 \in edges : /\ Supersedes(d1, n) /\ Supersedes(d2, n)
                          /\ d1.replacement # d2.replacement

\* COUNT(DISTINCT replacement_note_id) > 1 among the edges of n.
TwoSuccessors(edges, n) ==
    \E d1, d2 \in edges : /\ Supersedes(d1, n) /\ Supersedes(d2, n)
                          /\ None \notin {d1.replacement, d2.replacement}
                          /\ d1.replacement # d2.replacement

RecordLifecycleEdge(f, e) ==
    LET edges == f.edges \cup {e}
    IN  [f EXCEPT !.edges = edges,
                  !.notes = IF TwoSuccessors(edges, e.target)
                            THEN UpsertNote(@, e.target, Contested) ELSE @]

\* The rows that e's payload carries.
Introduce(notes, n) == IF n = None THEN notes ELSE UpsertNote(notes, n, Current)

Project(f, e) ==
    IF e.type = "note.recorded"
    THEN [f EXCEPT !.notes = Introduce(@, e.target)]
    ELSE RecordLifecycleEdge(
             [f EXCEPT !.notes = Introduce(UpsertNote(@, e.target, Superseded(e.replacement)),
                                           e.replacement)], e)

\* Seeded fault: the head of the origin is not moved.
StoredWithoutHead(f, e) == [f EXCEPT !.log = @ \cup {e}]

\* The event's own row and the head of its origin, written after the projection.
Stored(f, e) == [f EXCEPT !.log = @ \cup {e}, !.heads[e.origin] = e.seq]

\* Seeded fault: a supersession is applied whether or not its target is known.
NoTargetCheck(f, e, hasRun) == TRUE

\* validateEventEnvelopeTx: the target of a supersession must be there, and the
\* run of its replacement must be the event's and in the project.  `hasRun` is
\* whether the importing replica finds it so.  A run of e's own chain, checked
\* when e was made, it does find; of any other the tables of runs decide, which
\* are not kept here.
Valid(f, e, hasRun) ==
    e.type = "note.superseded" => Known(f, e.target) /\ (e.run = "own" \/ hasRun)

-----------------------------------------------------------------------------
(* The order in which EventsAfter serves what the caller does not have *)

\* The query's order: the authority's events, then by time, origin, sequence.
Earlier(e, f) ==
    IF (e.origin = Authority) # (f.origin = Authority) THEN e.origin = Authority
    ELSE IF e.time # f.time THEN e.time < f.time
    ELSE IF e.origin # f.origin THEN Collation[e.origin] < Collation[f.origin]
    ELSE e.seq < f.seq

\* Seeded fault: only the chain of the event's own origin holds it back.
ChainOnly(pending, e) == {f \in pending : f.origin = e.origin /\ f.seq < e.seq}

\* What must be served before e: its chain, and its causes if they are pending.
Blockers(pending, e) ==
    {f \in pending : \/ f.origin = e.origin /\ f.seq < e.seq
                     \/ NameOf(f) \in e.causes}

\* The pass over `pending` in which each event is appended to the result: the
\* pass of its last blocker, or the next one if that comes later in the query.
Pass(pending) ==
    LET pass[e \in pending] ==
            LET turns == {IF Earlier(f, e) THEN pass[f] ELSE pass[f] + 1 :
                             f \in Blockers(pending, e)}
            IN  IF turns = {} THEN 0 ELSE Max(turns)
    IN  pass

\* The first Limit events of the result, with their places.
EventsAfter(log, have) ==
    LET pending == {e \in log : e.seq > have[e.origin]}
        pass == Pass(pending)
        Before(e, f) == pass[e] < pass[f] \/ (pass[e] = pass[f] /\ Earlier(e, f))
        place == [e \in pending |-> Cardinality({f \in pending : Before(f, e)})]
    IN  [e \in {f \in pending : place[f] < Limit} |-> place[e]]

\* What a spoke pushes: the next Limit events of its own chain.
EventsForOriginAfter(log, origin, after) ==
    [e \in {f \in log : f.origin = origin /\ after < f.seq /\ f.seq <= after + Limit} |-> e.seq]

-----------------------------------------------------------------------------
(* Actions *)

Init ==
    /\ file = [r \in Replica |-> NoFile]
    /\ tx = [r \in Replica |-> NoTx]
    /\ reply = [r \in Replica |-> NoPage]
    /\ joined = {Authority}

\* Writers wait for the transaction that holds the lock.
MayWrite(r) == r \in joined /\ ~tx[r].open

\* Row and event of a local mutation, in one transaction.
AppendEvent(r, e) ==
    /\ MayWrite(r)
    /\ Cardinality(Created) < MaxEvents
    /\ file' = [file EXCEPT ![r] = Stored(Project(@, e), e)]
    /\ UNCHANGED <<tx, reply, joined>>

LocalEvent(r, type, target, replacement, run, causes, time) ==
    [origin |-> r, seq |-> file[r].heads[r] + 1, type |-> type, target |-> target,
     replacement |-> replacement, run |-> run, causes |-> causes, time |-> time]

\* The run, if there is one, is checked: of this principal and project.
CreateNote(r, n, t) ==
    /\ Unused(n)
    /\ AppendEvent(r, LocalEvent(r, "note.recorded", n, None, "own", {}, t))

\* The note.recorded event of n, if r has it in its own log.
EventCause(r, n) ==
    {NameOf(e) : e \in {d \in file[r].log : d.type = "note.recorded" /\ d.target = n}}

\* A note may be replaced by a new one or retired without one.  Nobody asks
\* which run the replacement is filed under: one of another project or another
\* replica will do, and one that is not the run of the request.
SupersedeNote(r, n, replacement, run, t) ==
    /\ file[r].notes[n].status = "current"
    /\ IF replacement = None THEN run = "own" ELSE replacement # n /\ Unused(replacement)
    /\ run = "unchecked" => r \in Careless
    /\ AppendEvent(r, LocalEvent(r, "note.superseded", n, replacement, run, EventCause(r, n), t))

\* Seeded fault: a snapshot without note_lifecycle_edges.
JoinWithoutEdges(s) ==
    /\ s \notin joined /\ ~tx[Authority].open
    /\ joined' = joined \cup {s}
    /\ file' = [file EXCEPT ![s] = [file[Authority] EXCEPT !.log = {}, !.edges = {}]]
    /\ UNCHANGED <<tx, reply>>

\* The snapshot holds the projected tables and the heads, but no events.
Join(s) ==
    /\ s \notin joined /\ ~tx[Authority].open
    /\ joined' = joined \cup {s}
    /\ file' = [file EXCEPT ![s] = [file[Authority] EXCEPT !.log = {}]]
    /\ UNCHANGED <<tx, reply>>

Pull(s) ==
    /\ s \in joined \ {Authority} /\ reply[s] = NoPage
    /\ reply' = [reply EXCEPT ![s] = EventsAfter(file[Authority].log, file[s].heads)]
    /\ UNCHANGED <<file, tx, joined>>

LoseReply(s) ==
    /\ reply[s] # NoPage
    /\ reply' = [reply EXCEPT ![s] = NoPage]
    /\ UNCHANGED <<file, tx, joined>>

Begin(r, page) ==
    /\ MayWrite(r) /\ DOMAIN page # {}
    /\ tx' = [tx EXCEPT ![r] = [open |-> TRUE, page |-> page, file |-> file[r]]]
    /\ UNCHANGED <<file, joined>>

ImportReply(s) ==
    /\ Begin(s, reply[s])
    /\ reply' = [reply EXCEPT ![s] = NoPage]

Push(s) ==
    /\ s \in joined \ {Authority}
    /\ Begin(Authority, EventsForOriginAfter(file[s].log, s, file[Authority].heads[s]))
    /\ UNCHANGED reply

\* e is the event that the loop of ImportEvents has reached at r.
Reached(r, e) ==
    /\ tx[r].open
    /\ e \in DOMAIN tx[r].page
    /\ \A d \in DOMAIN tx[r].page : tx[r].page[e] <= tx[r].page[d]

Without(page, e) == [d \in DOMAIN page \ {e} |-> page[d]]

SkipEvent(r, e) ==
    /\ Reached(r, e) /\ e \in tx[r].file.log
    /\ tx' = [tx EXCEPT ![r].page = Without(@, e)]
    /\ UNCHANGED <<file, reply, joined>>

Accepts(f, e, hasRun) == e.seq = f.heads[e.origin] + 1 /\ Valid(f, e, hasRun)

ImportEvent(r, e) ==
    /\ Reached(r, e) /\ e \notin tx[r].file.log
    /\ \E hasRun \in BOOLEAN : Accepts(tx[r].file, e, hasRun)
    /\ tx' = [tx EXCEPT ![r].page = Without(@, e), ![r].file = Stored(Project(@, e), e)]
    /\ UNCHANGED <<file, reply, joined>>

Commit(r) ==
    /\ tx[r].open /\ DOMAIN tx[r].page = {}
    /\ file' = [file EXCEPT ![r] = tx[r].file]
    /\ tx' = [tx EXCEPT ![r] = NoTx]
    /\ UNCHANGED <<reply, joined>>

\* An event the replica refuses, a cancelled request or a crash undoes it all.
Rollback(r) ==
    /\ tx[r].open
    /\ tx' = [tx EXCEPT ![r] = NoTx]
    /\ UNCHANGED <<file, reply, joined>>

Next ==
    \/ \E r \in Replica, n \in Note, t \in Time : CreateNote(r, n, t)
    \/ \E r \in Replica, n \in Note, m \in Note \cup {None}, run \in {"own", "unchecked"}, t \in Time :
           SupersedeNote(r, n, m, run, t)
    \/ \E s \in Replica : Join(s) \/ Pull(s) \/ LoseReply(s) \/ ImportReply(s) \/ Push(s)
    \/ \E r \in Replica : \E e \in DOMAIN tx[r].page : SkipEvent(r, e) \/ ImportEvent(r, e)
    \/ \E r \in Replica : Commit(r) \/ Rollback(r)

Spec == Init /\ [][Next]_vars

-----------------------------------------------------------------------------
(* Properties *)

\* What a note's status should be, from the set of events about it alone.
StatusOf(history, n) ==
    IF \A e \in history : ~Introduces(e, n) THEN "absent"
    ELSE IF \A e \in history : ~Supersedes(e, n) THEN "current"
    ELSE IF \E e1, e2 \in history : /\ Supersedes(e1, n) /\ Supersedes(e2, n)
                                    /\ e1.replacement # e2.replacement
                                    /\ None \notin {e1.replacement, e2.replacement}
         THEN "contested"
    ELSE "superseded"

History(f) == {e \in Created : Covered(f, e)}

(* What a replica shows of a note is what the events up to its heads say of  *)
(* it, whatever the order they came in and whether they came in a snapshot   *)
(* or one by one: projectDomainEventTx has no memory of the order.           *)
StatusFollowsHistory ==
    \A r \in Replica, n \in Note : file[r].notes[n].status = StatusOf(History(file[r]), n)

(* Two replicas that have followed every origin equally far show every note  *)
(* in the same status.                                                       *)
SameHistorySameStatus ==
    \A r, s \in joined : file[r].heads = file[s].heads =>
        \A n \in Note : file[r].notes[n].status = file[s].notes[n].status

(* A note names a successor only while it is superseded, only one that the   *)
(* replica has, and only one that an event it has followed names.            *)
SuccessorKnown ==
    \A r \in Replica, n \in Note :
        LET row == file[r].notes[n] IN row.by # None =>
            /\ row.status = "superseded"
            /\ Known(file[r], row.by)
            /\ \E e \in file[r].edges : Supersedes(e, n) /\ e.replacement = row.by

(* ImportEvents refuses an event that it has reached only if it supersedes a *)
(* note and either carries no causal edge or has a replacement filed under a *)
(* run that SupersedeNote has not checked: dependency order, pages, snapshots*)
(* and clocks that disagree never leave a gap in a chain, and never put an   *)
(* event with a cause before the note it is about.                           *)
RefusedOnlyIfLoose ==
    \A r \in Replica : \A e \in DOMAIN tx[r].page, hasRun \in BOOLEAN :
        Reached(r, e) /\ e \notin tx[r].file.log /\ ~Accepts(tx[r].file, e, hasRun) =>
            e.type = "note.superseded" /\ (e.causes = {} \/ e.run = "unchecked")

(* A superseded note is never current again and a contested note stays       *)
(* contested: an import cannot take a lifecycle back.                        *)
NeverReopened ==
    [][\A r \in Replica, n \in Note :
          LET old == file[r].notes[n].status
              new == file'[r].notes[n].status
          IN  /\ old = "contested" => new = "contested"
              /\ old = "superseded" => new \in {"superseded", "contested"}]_vars

(* EventsAfter's comment: causal edges make the targets of events from other *)
(* origins arrive before the events that reference them.                     *)
TargetsArriveFirst ==
    \A r \in Replica : \A e \in DOMAIN tx[r].page :
        Reached(r, e) /\ e \notin tx[r].file.log => Valid(tx[r].file, e, TRUE)

(* Section 20.3 of the specification: replicas that have the same events     *)
(* have equal projections.                                                   *)
SameHistorySameNotes ==
    \A r, s \in joined : file[r].heads = file[s].heads => file[r].notes = file[s].notes
-----------------------------------------------------------------------------
(* The inductive invariant                                                   *)

\* The tables of f say what the events of its history say.
EdgesFrom(f, history) == f.edges = {e \in history : e.type = "note.superseded"}
StatusesFrom(f, history) == \A n \in Note : f.notes[n].status = StatusOf(history, n)
SuccessorsFrom(f) ==
    \A n \in Note : f.notes[n].by # None =>
        /\ f.notes[n].status = "superseded"
        /\ \E e \in f.edges : Supersedes(e, n) /\ e.replacement = f.notes[n].by
TargetsIn(history) ==
    \A e \in history, n \in Note : Supersedes(e, n) => \E d \in history : Introduces(d, n)

Faithful(f, history) ==
    /\ f.log \subseteq history
    /\ EdgesFrom(f, history)
    /\ StatusesFrom(f, history)
    /\ SuccessorsFrom(f)
    /\ TargetsIn(history)

\* No file is ahead of the origin, whose own chain is numbered without repeats.
Bounded(f) == \A o \in Replica : f.heads[o] <= file[o].heads[o]
OwnChains ==
    /\ \A e \in Created : e.seq <= file[e.origin].heads[e.origin]
    /\ \A d, e \in Created : NameOf(d) = NameOf(e) => d = e

\* A note comes from one event, and no event replaces a note by itself.
Births ==
    /\ \A d, e \in Created, n \in Note : Introduces(d, n) /\ Introduces(e, n) => d = e
    /\ \A e \in Created : e.replacement # e.target

\* What is on its way was signed; a transaction starts from the committed file.
InFlight ==
    \A r \in Replica :
        /\ DOMAIN reply[r] \subseteq Created
        /\ DOMAIN tx[r].page \subseteq Created
        /\ tx[r].open =>
               /\ file[r].log \subseteq tx[r].file.log
               /\ \A o \in Replica : file[r].heads[o] <= tx[r].file.heads[o]

Outside == \A r \in Replica \ joined : file[r] = NoFile /\ ~tx[r].open

(* Inductive: committed files and open transactions are faithful to the      *)
(* chains that ImportEvents and appendDomainEventTx have numbered.           *)
LifecycleInv ==
    /\ TypeOK /\ OwnChains /\ Births /\ InFlight /\ Outside
    /\ \A r \in Replica :
           /\ Faithful(file[r], History(file[r])) /\ Bounded(file[r])
           /\ tx[r].open =>
                  Faithful(tx[r].file, History(tx[r].file)) /\ Bounded(tx[r].file)

-----------------------------------------------------------------------------
(* Causes and the order of delivery                                          *)

\* d is one of the events that e names as its causes.
CauseOf(d, e) == NameOf(d) \in e.causes

\* A cause is an event, which records the target, and it was in the log of e's
\* origin: of the origin's own chain, or served by the authority.
CausesRecorded ==
    \A e \in Created :
        /\ \A x \in e.causes : \E d \in Created : NameOf(d) = x
        /\ \A d \in Created : CauseOf(d, e) =>
               /\ Introduces(d, e.target)
               /\ IF d.origin = e.origin THEN d.seq < e.seq ELSE Covered(file[Authority], d)

\* An origin numbers its events from 1 without a gap.
ChainsWhole ==
    \A o \in Replica : \A k \in 1 .. file[o].heads[o] :
        \E e \in Created : e.origin = o /\ e.seq = k

\* Chains and causes have no cycle: an event was appended after them.
Ranked ==
    \E n \in Nat, rank \in [Created -> Nat] : \A e \in Created :
        /\ rank[e] < n
        /\ \A d \in Blockers(Created, e) : rank[d] < rank[e]

\* An origin keeps its own events, and the authority all it has followed.
OwnLogs == \A e \in Created : e \in file[e.origin].log
Keeps(f) == \A e \in Created : Covered(f, e) => e \in f.log
AuthorityKeeps ==
    Keeps(file[Authority]) /\ (tx[Authority].open => Keeps(tx[Authority].file))

\* Only replicas that have joined pull, and the authority has the workspace.
OnlyMembersPull ==
    Authority \in joined /\ \A r \in Replica \ joined : DOMAIN reply[r] = {}

\* Spokes have the events of others from the authority.
Behind(r, f) == \A o \in Replica \ {r} : f.heads[o] <= file[Authority].heads[o]
SpokesBehind ==
    \A r \in Replica \ {Authority} :
        /\ Behind(r, file[r])
        /\ tx[r].open => Behind(r, tx[r].file)
        /\ DOMAIN reply[r] \cup DOMAIN tx[r].page \subseteq file[Authority].log

\* What g has followed beyond f, it has in its log.
Adds(f, g) == \A d \in Created : Covered(g, d) => Covered(f, d) \/ d \in g.log
ImportsLogged == \A r \in Replica : tx[r].open => Adds(file[r], tx[r].file)

\* A page that f can take: its events are new or in f's log, and their chains
\* and causes are there or come before them.
Servable(f, page) ==
    \A e \in DOMAIN page :
        /\ page[e] \in Nat
        /\ Covered(f, e) => e \in f.log
        /\ \A d \in Blockers(Created, e) :
               Covered(f, d) \/ (d \in DOMAIN page /\ page[d] < page[e])
PagesOrdered ==
    \A r \in Replica :
        /\ Servable(file[r], reply[r])
        /\ tx[r].open => Servable(tx[r].file, tx[r].page)

(* Inductive together with LifecycleInv.                                     *)
CausalInv ==
    /\ IsFiniteSet(Created) /\ OnlyMembersPull
    /\ CausesRecorded /\ ChainsWhole /\ Ranked
    /\ OwnLogs /\ AuthorityKeeps /\ SpokesBehind
    /\ ImportsLogged /\ PagesOrdered

-----------------------------------------------------------------------------
(* Refinement: the events an origin has signed are its history, the heads    *)
(* are what each replica knows of it.                                        *)

Chain(o) == [k \in 1 .. file[o].heads[o] |->
                CHOOSE e \in file[o].log : e.origin = o /\ e.seq = k]

Chains == INSTANCE WorkspaceHistory WITH
    EventId <- Event,
    history <- [o \in Replica |-> Chain(o)],
    known <- [r \in Replica |-> file[r].heads]

(* The notes of the replicas rest on the same abstract histories as module   *)
(* Replication: a mutation publishes one event, joining and committing an    *)
(* import are Learn steps, and nothing else shows.                           *)
ImplementsHistory == Chains!Spec
=============================================================================
