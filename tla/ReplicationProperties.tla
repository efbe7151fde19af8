----------------------- MODULE ReplicationProperties -----------------------
(* What the replication protocol of module Replication guarantees. *)
EXTENDS Replication

\* The events of origin o held by r.
Held(r, o) == {e \in events[r] : e.origin = o}

\* What a replica holds of an origin's history is exactly the part its two
\* bookkeeping tables claim: the origin's own events after the imported
\* snapshot and up to the head, none missing, none invented (ImportEvents).
HistoryComplete ==
    \A r, o \in Replica :
        Held(r, o) = {e \in Held(o, o) : e.seq > covers[r][o] /\ e.seq <= heads[r][o].seq}

\* h names an event of o's own history, or nothing.
Names(h, o) ==
    IF h.seq = 0
      THEN h.hash = Genesis
      ELSE \E e \in Held(o, o) : e.seq = h.seq /\ e.id = h.hash

\* The hash a replica stores beside a head is that of the origin's own event
\* of that sequence, so any two replicas with equal heads agree on the event.
HeadsNameHistory == \A r, o \in Replica : Names(heads[r][o], o)

\* A spoke learns other spokes' events only through the authority, so it is
\* never ahead of it on a foreign history.
HubAhead ==
    \A r, o \in Replica : r # o => heads[r][o].seq <= heads[Authority][o].seq

\* When a spoke is about to import a pulled batch, it already has the roster
\* row, and so the public key, of every origin in the batch: syncPull reads the
\* replicas after the events, and SyncLink imports them before.
PulledOriginsRostered ==
    \A w \in Session : At(w, "rostered") =>
        \A e \in session[w].batch : roster[Home(w)][e.origin].status # "absent"

\* The cut-off of a revocation lies within the history the authority holds: a
\* revocation never admits an event that had not been accepted.
CutoffWithinHistory ==
    \A o \in Replica : roster[Authority][o].status = "revoked" =>
        roster[Authority][o].through <= heads[Authority][o].seq

\* The authority holds events only of origins its own roster lets push, whatever
\* capabilities the spoke believes it has.
OnlyGrantedOriginsAccepted ==
    \A e \in events[Authority] : "push" \in roster[Authority][e.origin].caps

\* What the authority has accepted stays acceptable to every replica that
\* follows its roster: a revocation's cut-off covers the accepted history.
AcceptedHistoryAdmitted ==
    \A e \in events[Authority] : Admits(roster[Authority][e.origin], e)

-----------------------------------------------------------------------------
(* The inductive invariant.  Each conjunct is one reason why HistoryComplete *)
(* and HeadsNameHistory survive every step.                                  *)

\* An origin's own chain never forks and has no gap: AppendDomainEvent reads the
\* head and inserts the row in one transaction.
OwnChain ==
    \A o \in Replica :
        /\ covers[o][o] = 0
        /\ \A e \in Held(o, o) : e.seq <= heads[o][o].seq
        /\ \A k \in 1 .. heads[o][o].seq : \E e \in Held(o, o) : e.seq = k
        /\ \A e, f \in Held(o, o) : e.seq = f.seq => e = f

\* Signed by their origin: no set of events anywhere holds one that its origin
\* does not have.
Authentic(S) == \A e \in S : e \in events[e.origin]

\* Rows, pulled batches and push requests hold authentic events only.
AllAuthentic ==
    /\ \A r \in Replica : Authentic(events[r])
    /\ \A w \in Session : Authentic(session[w].batch)
    /\ \A p \in pushes : Authentic(p.events)

\* The heads inside a claim that is still being applied.
ClaimsNameHistory == \A c \in pairing, o \in Replica : Names(c.heads[o], o)

\* A replica's snapshot ends at or before its head.
CoversWithinHeads ==
    \A r, o \in Replica : covers[r][o] <= heads[r][o].seq

\* The authority never loses its own row.
AuthorityActive == roster[Authority][Authority].status = "active"

\* A replica has no workspace state before it has joined.
EmptyBeforeJoin ==
    \A r \in Replica : ~Member(r) =>
        events[r] = {} /\ \A o \in Replica : heads[r][o] = NoHead

\* Whoever has joined is on the authority's roster, for good.
MembersAdmitted ==
    \A r \in Replica : Member(r) => roster[Authority][r].status # "absent"

\* Only a replica that has joined synchronizes.
SyncsOnceJoined ==
    /\ \A r \in linked : Member(r)
    /\ \A w \in Session : session[w].pc # "idle" => Home(w) \in linked
    /\ \A p \in pushes : p.caller \in Session => Home(p.caller) \in linked

\* A replica is admitted once, so one claim is applied at a time, and the
\* snapshot in it goes into an empty workspace.
OneClaimEach ==
    /\ \A c \in pairing :
          /\ roster[Authority][c.to].status # "absent"
          /\ c.stage = "claimed" <=> ~Member(c.to)
    /\ \A c, d \in pairing : c.to = d.to => c = d

JoinedOnce ==
    /\ AuthorityActive
    /\ EmptyBeforeJoin
    /\ MembersAdmitted
    /\ SyncsOnceJoined
    /\ OneClaimEach

\* What RevokeReplica read before it took the write lock is still below the head.
RevokingWithinHistory ==
    \A v \in revoking : v.through <= heads[Authority][v.target].seq

\* What is on its way to a spoke came from the authority, which still has it.
HubServes ==
    /\ \A w \in Session : session[w].batch \subseteq events[Authority]
    /\ \A c \in pairing, o \in Replica : c.heads[o].seq <= heads[Authority][o].seq

\* The authority's roster lets o push, or did before it revoked o.
MayPush(o) ==
    /\ roster[Authority][o].status # "absent"
    /\ "push" \in roster[Authority][o].caps

\* A push request carries its sender's own events, and one that has been
\* authorized comes from a replica that was granted the capability.
PushesGranted ==
    \A p \in pushes :
        /\ \A e \in p.events : e.origin = p.from
        /\ p.stage = "sent" \/ MayPush(p.from)

HubOriginsGranted == \A e \in events[Authority] : MayPush(e.origin)

\* The roster a pull has read, after the events, lists the origins of them all.
RowsCoverBatch ==
    \A w \in Session : At(w, "pulled") =>
        \A e \in session[w].batch : session[w].rows[e.origin].status # "absent"

\* A replica that has not joined has no roster.
NoRosterBeforeJoin ==
    \A r, o \in Replica : ~Member(r) => roster[r][o].status = "absent"

\* Revocations are made at the authority: no roster, claim or reply shows one
\* that the authority's own roster does not have.
RevocationsFromHub ==
    /\ \A r, o \in Replica : roster[r][o].status = "revoked" =>
                                roster[Authority][o].status = "revoked"
    /\ \A w \in Session, o \in Replica : session[w].rows[o].status = "revoked" =>
                                roster[Authority][o].status = "revoked"
    /\ \A c \in pairing, o \in Replica : c.rows[o].status = "revoked" =>
                                roster[Authority][o].status = "revoked"

HubInv ==
    /\ HubAhead
    /\ HubServes
    /\ PushesGranted
    /\ HubOriginsGranted
    /\ RowsCoverBatch
    /\ PulledOriginsRostered
    /\ NoRosterBeforeJoin
    /\ RevocationsFromHub

\* All of it together holds initially and is preserved by every step.
IInv ==
    /\ TypeOK
    /\ OwnChain
    /\ AllAuthentic
    /\ HeadsNameHistory
    /\ ClaimsNameHistory
    /\ CoversWithinHeads
    /\ HistoryComplete
    /\ JoinedOnce
    /\ RevokingWithinHistory
    /\ CutoffWithinHistory
    /\ HubInv

-----------------------------------------------------------------------------
\* Heads and events only grow: no retry, late reply or restart takes back what a
\* replica has accepted.
NothingForgotten ==
    [][\A r \in Replica :
           /\ events[r] \subseteq events'[r]
           /\ \A o \in Replica : heads[r][o].seq <= heads'[r][o].seq]_vars

\* Once the authority has committed a revocation, that origin's history is closed
\* there, also for a push that was authenticated before.
RevokedOriginFrozen ==
    [][\A o \in Replica : roster[Authority][o].status = "revoked" =>
           heads'[Authority][o] = heads[Authority][o]]_vars

-----------------------------------------------------------------------------
(* Refinement: the domain events signed by an origin are its history, the    *)
(* heads are what each replica knows of it.                                  *)

Signed(o) == [k \in 1 .. heads[o][o].seq |->
                 (CHOOSE e \in events[o] : e.origin = o /\ e.seq = k).id]

History == INSTANCE WorkspaceHistory WITH
    history <- [o \in Replica |-> Signed(o)],
    known <- [r \in Replica |-> [o \in Replica |-> heads[r][o].seq]]

\* Replication implements the abstract history: each local write publishes one
\* event, each import or snapshot is a Learn step, everything else a stutter.
ImplementsHistory == History!Spec

-----------------------------------------------------------------------------
(* Liveness: the ticker calls SyncLink again every five seconds for as long  *)
(* as the process lives (syncclient.Run), the servers answer, and the faults *)
(* are finitely many.                                                        *)

Fairness ==
    /\ \A w \in Session : WF_vars(PullStep(w)) /\ WF_vars(PushStep(w))
    /\ \A s \in Spoke : WF_vars(\E p \in pushes : p.from = s /\ ServePush(p))

FairSpec == Spec /\ Fairness

Revoked == {o \in Replica : roster[Authority][o].status = "revoked"}

\* The authority and the linked spokes have the same heads.
InSync ==
    \A o, r \in linked \cup {Authority} : heads[r][o] = heads[o][o]

\* Convergence: again and again every linked replica has every event of every
\* linked replica (the writes are bounded, so it stays so).  Two things are
\* excepted.  A revoked replica is cut off on purpose.  A loose event can be
\* refused at every pull, and with it every page that holds it: the code gives
\* no more than this, see `Refusable`.
EventuallyInSync == []<>(InSync \/ Revoked # {} \/ \E e \in Created : e.loose)

\* A revocation reaches every linked spoke for good.  Nothing keeps the ticker and
\* an admin request from calling SyncLink at once, and the response that was
\* read first may be applied last and take the revocation back on that spoke;
\* the responses read before the revocation are finitely many, those read after
\* it all show it.  The pull half delivers the roster also when it fails later.
RevocationReaches ==
    <>[](\A r \in linked \ Revoked, o \in Revoked : roster[r][o].status = "revoked")
=============================================================================
