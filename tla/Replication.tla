---------------------------- MODULE Replication ----------------------------
(***************************************************************************)
(* Signed-event replication of one workspace between ClankSpace            *)
(* installations: one authority (the hub) and the spokes paired with it.   *)
(*                                                                         *)
(* Each installation is one process over one SQLite file.  The parts of    *)
(* that file this module keeps are the tables domain_events, sync_heads,   *)
(* workspace_replicas, sync_snapshots and replica_links; the parts of the  *)
(* processes are the synchronization loops (syncclient.SyncLink) and the   *)
(* pull, push, pairing and revocation handlers (httpapi/sync.go).          *)
(*                                                                         *)
(* What an event SAYS is abstract here: an event is its identity, origin,  *)
(* sequence number and previous hash, the events of other origins that its *)
(* causal edges name, and whether it is loose: it refers to something that *)
(* its chain and its edges do not bring along, so that an importer may     *)
(* refuse it.  The event's hash is represented by its identifier: the      *)
(* identifier is a fresh random string, signed together with the content,  *)
(* so equal identifiers mean equal events.                                 *)
(*                                                                         *)
(* Failures covered: requests and replies are lost or served late, the     *)
(* client gives up and retries while the server still holds the request,   *)
(* processes are killed and restarted between any two steps.               *)
(***************************************************************************)
EXTENDS Integers, FiniteSets

CONSTANTS
    Replica,      \* installations that may take part in the workspace
    Authority,    \* the replica that admits and revokes the others
    Worker,       \* callers of SyncLink in one process: the ticker, an admin request
    EventId,      \* identifiers of domain events; they stand for event hashes too
    Genesis,      \* the previous hash of an origin's first event
    Nobody,       \* the caller of a request whose client has given up
    Grants,       \* capability sets an owner may put into a pairing offer
    Looseness,    \* values of the field `loose` of the events that are written
    Limit,        \* events per pull or push batch (500 in the code)
    MaxCauses,    \* bound: causal edges of an event
    MaxSeq,       \* bound: events one origin may append
    MaxRevoking,  \* bound: revocation requests in progress at a time
    MaxFaults     \* bound: lost messages, abandoned calls and restarts

Capability == {"pull", "push"}
Spoke == Replica \ {Authority}
Session == Spoke \X Worker
Home(w) == w[1]

ASSUME ReplicaAssumption == Authority \in Replica
ASSUME EventIdAssumption == Genesis \notin EventId
ASSUME NobodyAssumption == Nobody \notin Session
ASSUME GrantsAssumption == Grants \subseteq SUBSET Capability
ASSUME LoosenessAssumption == Looseness \subseteq BOOLEAN
ASSUME BoundsAssumption ==
    /\ Limit \in Nat \ {0}
    /\ MaxCauses \in Nat
    /\ MaxSeq \in Nat
    /\ MaxRevoking \in Nat
    /\ MaxFaults \in Nat

VARIABLES
    events,       \* events[r]: the rows of domain_events at r
    heads,        \* heads[r][o]: the row of sync_heads at r for origin o
    covers,       \* covers[r][o]: sync_snapshots.covers_vector of r's snapshot
    roster,       \* roster[r][o]: the row of workspace_replicas at r for o
    linked,       \* spokes with a row in replica_links
    pairing,      \* claims the authority has answered and the spoke is applying
    session,      \* session[w]: where the SyncLink call w is, and its local variables
    pushes,       \* push requests in flight or being served
    revoking,     \* RevokeReplica calls past their read of sync_heads
    faults        \* faults so far

vars == <<events, heads, covers, roster, linked, pairing, session, pushes,
          revoking, faults>>

-----------------------------------------------------------------------------
(* Records *)

Event == [id: EventId, origin: Replica, seq: Nat \ {0}, prev: EventId \cup {Genesis},
          causes: SUBSET EventId, loose: BOOLEAN]
SyncHead == [seq: Nat, hash: EventId \cup {Genesis}]
Row == [status: {"absent", "active", "revoked"}, through: Nat, caps: SUBSET Capability]
Claim == [to: Spoke, stage: {"claimed", "imported"},
          heads: [Replica -> SyncHead], rows: [Replica -> Row]]
Push == [caller: Session \cup {Nobody}, from: Spoke, events: SUBSET Event,
         stage: {"sent", "authorized", "imported"}]
Step == {"idle", "pull", "events", "heads", "pulled", "rostered", "push", "pushing"}
Call == [pc: Step, have: [Replica -> Nat], batch: SUBSET Event, more: BOOLEAN,
         rows: [Replica -> Row], remote: Nat]

NoHead == [seq |-> 0, hash |-> Genesis]
NoRow == [status |-> "absent", through |-> 0, caps |-> {}]
NoHave == [o \in Replica |-> 0]
NoRows == [o \in Replica |-> NoRow]
Idle == [pc |-> "idle", have |-> NoHave, batch |-> {}, more |-> FALSE,
         rows |-> NoRows, remote |-> 0]

TypeOK ==
    /\ events \in [Replica -> SUBSET Event]
    /\ heads \in [Replica -> [Replica -> SyncHead]]
    /\ covers \in [Replica -> [Replica -> Nat]]
    /\ roster \in [Replica -> [Replica -> Row]]
    /\ linked \subseteq Spoke
    /\ pairing \subseteq Claim
    /\ session \in [Session -> Call]
    /\ pushes \subseteq Push
    /\ revoking \subseteq [target: Spoke, through: Nat]
    /\ faults \in 0 .. MaxFaults

\* The workspace exists at r once r has its own row of workspace_replicas.
Member(r) == roster[r][r].status # "absent"

\* Every event ever signed: an origin never deletes its own rows.
Created == UNION {events[r] : r \in Replica}

-----------------------------------------------------------------------------
(* What one transaction of the store reads and writes *)

\* Seeded fault: a roster import that only updates rows, never inserts one.
UpdateOnly(old, new) ==
    [o \in Replica |-> IF "absent" \in {old[o].status, new[o].status} THEN old[o] ELSE new[o]]

\* Seeded fault: a roster import that only inserts rows.
InsertOnly(old, new) ==
    [o \in Replica |-> IF old[o].status = "absent" THEN new[o] ELSE old[o]]

\* Rows of `new` overwrite rows of `old`; a replica the message does not list
\* keeps the row it has (both importers are upserts).
Upsert(old, new) ==
    [o \in Replica |-> IF new[o].status = "absent" THEN old[o] ELSE new[o]]

\* Seeded fault: any origin on the roster is admitted, revoked or not.
AdmitsRegistered(row, e) == row.status # "absent"

\* The origin's row admits the event: it is active, or the event lies within
\* the history accepted before its revocation.
Admits(row, e) ==
    \/ row.status = "active"
    \/ row.status = "revoked" /\ e.seq <= row.through

\* The events of a batch that r does not have yet; the others are skipped.
Fresh(r, batch) == batch \ events[r]
FreshFrom(r, batch, o) == {e \in Fresh(r, batch) : e.origin = o}

\* e continues r's chain of its origin: nothing is missing between r's head
\* and e, and the previous hash is that of the event before.
Continues(r, batch, e) ==
    LET head == heads[r][e.origin]
        new  == FreshFrom(r, batch, e.origin)
    IN  /\ e.seq > head.seq
        /\ \A k \in head.seq + 1 .. e.seq - 1 : \E f \in new : f.seq = k
        /\ \A f \in new : f.seq = e.seq => f = e
        /\ IF e.seq = head.seq + 1
             THEN e.prev = head.hash
             ELSE \E f \in new : f.seq = e.seq - 1 /\ f.id = e.prev

\* r knows what the event called c says: its head is at or past it, whether
\* the event came as an event or within a snapshot.
Knows(r, c) == \E f \in Created : f.id = c /\ f.seq <= heads[r][f.origin].seq

\* The records that e refers to through its edges are there when it is reached.
Grounded(r, batch, e) == \A c \in e.causes : Knows(r, c) \/ \E f \in batch : f.id = c

\* The whole batch passes the checks of ImportEvents; one bad event fails all.
Importable(r, batch) ==
    /\ \A e \in batch : Admits(roster[r][e.origin], e)
    /\ \A e \in batch, f \in events[r] : e.id = f.id => e = f
    /\ \A e \in Fresh(r, batch) : Continues(r, batch, e) /\ Grounded(r, batch, e)

\* An event may be refused for what it says: a supersession whose target or
\* replacement is missing, merge evidence that does not fit the delivery, an
\* agent name that is taken.  Chain and edges rule it out unless it is loose.
Refusable(r, batch) == \E e \in Fresh(r, batch) : e.loose

\* Seeded fault: skipped events move the head too.
HeadAfterSkipped(r, batch, o) ==
    LET from == {e \in batch : e.origin = o}
    IN  IF from = {}
          THEN heads[r][o]
          ELSE LET last == CHOOSE e \in from : \A f \in from : f.seq <= e.seq
               IN  [seq |-> last.seq, hash |-> last.id]

\* The head of origin o at r once the batch is in.
HeadAfter(r, batch, o) ==
    LET new == FreshFrom(r, batch, o)
    IN  IF new = {}
          THEN heads[r][o]
          ELSE LET last == CHOOSE e \in new : \A f \in new : f.seq <= e.seq
               IN  [seq |-> last.seq, hash |-> last.id]

ImportEvents(r, batch) ==
    /\ events' = [events EXCEPT ![r] = @ \cup batch]
    /\ heads' = [heads EXCEPT ![r] = [o \in Replica |-> HeadAfter(r, batch, o)]]

\* Events of r beyond a vector of sequences.
Beyond(r, have) == {e \in events[r] : e.seq > have[e.origin]}

\* Seeded fault: a page that follows the chains and ignores the causal edges.
PageByChain(S, b) ==
    /\ b \subseteq S
    /\ Cardinality(b) = IF Cardinality(S) > Limit THEN Limit ELSE Cardinality(S)
    /\ \A e \in b : \A f \in S : f.origin = e.origin /\ f.seq < e.seq => f \in b

\* e is served after f: f is an earlier event of its chain or one of its causes.
Before(f, e) == (f.origin = e.origin /\ f.seq < e.seq) \/ f.id \in e.causes

\* One response of at most Limit events, in dependency order.
Page(S, b) ==
    /\ b \subseteq S
    /\ Cardinality(b) = IF Cardinality(S) > Limit THEN Limit ELSE Cardinality(S)
    /\ \A e \in b : \A f \in S : Before(f, e) => f \in b

-----------------------------------------------------------------------------
Init ==
    /\ events = [r \in Replica |-> {}]
    /\ heads = [r \in Replica |-> [o \in Replica |-> NoHead]]
    /\ covers = [r \in Replica |-> NoHave]
    /\ roster = [r \in Replica |-> [o \in Replica |->
                    IF r = Authority /\ o = Authority
                      THEN [status |-> "active", through |-> 0, caps |-> Capability]
                      ELSE NoRow]]
    /\ linked = {}
    /\ pairing = {}
    /\ session = [w \in Session |-> Idle]
    /\ pushes = {}
    /\ revoking = {}
    /\ faults = 0

-----------------------------------------------------------------------------
(* Local writes *)

\* The event that r signs next: it takes the next sequence of r's own chain and
\* the hash of the current head.
NextEvent(r, id, causes, loose) ==
    [id |-> id, origin |-> r, seq |-> heads[r][r].seq + 1, prev |-> heads[r][r].hash,
     causes |-> causes, loose |-> loose]

\* Events of other origins that an event of r may name as causes.
Citable(r) == {f.id : f \in {g \in events[r] : g.origin # r}}

\* r may sign: its row is active with push, and UNIQUE(workspace_id,
\* origin_replica_id, origin_sequence) is the last guard.
MaySign(r, id) ==
    /\ roster[r][r].status = "active"
    /\ "push" \in roster[r][r].caps
    /\ heads[r][r].seq < MaxSeq
    /\ \A f \in Created : f.id # id
    /\ \A f \in events[r] : f.origin = r => f.seq # heads[r][r].seq + 1

\* Seeded fault: the row of sync_heads is not written.
AppendWithoutHead(r, id, causes, loose) ==
    /\ MaySign(r, id)
    /\ causes \subseteq Citable(r) /\ Cardinality(causes) <= MaxCauses
    /\ events' = [events EXCEPT ![r] = @ \cup {NextEvent(r, id, causes, loose)}]
    /\ UNCHANGED <<heads, covers, roster, linked, pairing, session, pushes, revoking, faults>>

\* The tail of every replicable mutation at r, in its transaction.
AppendDomainEvent(r, id, causes, loose) ==
    /\ MaySign(r, id)
    /\ causes \subseteq Citable(r) /\ Cardinality(causes) <= MaxCauses
    /\ events' = [events EXCEPT ![r] = @ \cup {NextEvent(r, id, causes, loose)}]
    /\ heads' = [heads EXCEPT ![r][r] = [seq |-> @.seq + 1, hash |-> id]]
    /\ UNCHANGED <<covers, roster, linked, pairing, session, pushes, revoking, faults>>

-----------------------------------------------------------------------------
(* Pairing *)

\* The authority admits r: one transaction inserts the row (the primary key
\* refuses a replica that was ever admitted) and the snapshot is built under
\* the same lock.
ClaimReplicaOffer(r, caps) ==
    /\ roster[Authority][r].status = "absent"
    /\ LET row == [status |-> "active", through |-> 0, caps |-> caps]
           rows == [roster[Authority] EXCEPT ![r] = row]
       IN  /\ roster' = [roster EXCEPT ![Authority] = rows]
           /\ pairing' = pairing \cup {[to |-> r, stage |-> "claimed",
                                        heads |-> heads[Authority], rows |-> rows]}
    /\ UNCHANGED <<events, heads, covers, linked, session, pushes, revoking, faults>>

\* Seeded fault: the snapshot's heads are not imported.
HeadsUntouched(r, c) == heads[r]

\* The heads a replica has after importing a snapshot's heads: zero rows are
\* not in the snapshot.
HeadsFromSnapshot(r, c) ==
    [o \in Replica |-> IF c.heads[o].seq = 0 THEN heads[r][o] ELSE c.heads[o]]

\* The spoke imports the snapshot: rows and heads, no domain_events.
ImportWorkspaceSnapshot(c) ==
    /\ c.stage = "claimed"
    /\ LET r == c.to
           own == [status |-> "active", through |-> 0, caps |-> Capability]
       IN  /\ roster' = [roster EXCEPT
                 ![r] = Upsert([@ EXCEPT ![Authority] = c.rows[Authority], ![r] = own], c.rows)]
           /\ heads' = [heads EXCEPT ![r] = HeadsFromSnapshot(r, c)]
           /\ covers' = [covers EXCEPT ![r] = [o \in Replica |-> c.heads[o].seq]]
    /\ pairing' = (pairing \ {c}) \cup {[c EXCEPT !.stage = "imported"]}
    /\ UNCHANGED <<events, linked, session, pushes, revoking, faults>>

SaveReplicaLink(c) ==
    /\ c.stage = "imported"
    /\ linked' = linked \cup {c.to}
    /\ pairing' = pairing \ {c}
    /\ UNCHANGED <<events, heads, covers, roster, session, pushes, revoking, faults>>

-----------------------------------------------------------------------------
(* SyncLink: the pull half.  The server reads events, heads and replicas in  *)
(* three separate statements.                                                *)

At(w, pc) == session[w].pc = pc

\* Seeded fault: any active replica may pull and push.
AuthorizedActive(r, cap) == roster[Authority][r].status = "active"

\* The row a credential is checked against: not revoked, with the capability.
Authorized(r, cap) ==
    /\ roster[Authority][r].status = "active"
    /\ cap \in roster[Authority][r].caps

StartPull(w) ==
    /\ At(w, "idle")
    /\ Home(w) \in linked
    /\ session' = [session EXCEPT ![w] =
           [Idle EXCEPT !.pc = "pull",
                        !.have = [o \in Replica |-> heads[Home(w)][o].seq]]]
    /\ UNCHANGED <<events, heads, covers, roster, linked, pairing, pushes, revoking, faults>>

PullEvents(w) ==
    LET pending == Beyond(Authority, session[w].have)
    IN  /\ At(w, "pull")
        /\ Authorized(Home(w), "pull")
        /\ \E b \in SUBSET pending :
              /\ Page(pending, b)
              /\ session' = [session EXCEPT ![w] =
                     [Idle EXCEPT !.pc = "events", !.batch = b, !.more = (b # pending)]]
        /\ UNCHANGED <<events, heads, covers, roster, linked, pairing, pushes, revoking, faults>>

PullRefused(w) ==
    /\ At(w, "pull")
    /\ ~Authorized(Home(w), "pull")
    /\ session' = [session EXCEPT ![w] = Idle]
    /\ UNCHANGED <<events, heads, covers, roster, linked, pairing, pushes, revoking, faults>>

PullHeads(w) ==
    /\ At(w, "events")
    /\ session' = [session EXCEPT ![w].pc = "heads",
                                  ![w].remote = heads[Authority][Home(w)].seq]
    /\ UNCHANGED <<events, heads, covers, roster, linked, pairing, pushes, revoking, faults>>

PullReplicas(w) ==
    /\ At(w, "heads")
    /\ session' = [session EXCEPT ![w].pc = "pulled", ![w].rows = roster[Authority]]
    /\ UNCHANGED <<events, heads, covers, roster, linked, pairing, pushes, revoking, faults>>

\* The remote is the authority, so its roster is taken before the events.
ImportReplicaRoster(w) ==
    /\ At(w, "pulled")
    /\ roster' = [roster EXCEPT ![Home(w)] = Upsert(@, session[w].rows)]
    /\ session' = [session EXCEPT ![w].pc = "rostered", ![w].rows = NoRows]
    /\ UNCHANGED <<events, heads, covers, linked, pairing, pushes, revoking, faults>>

ImportPulled(w) ==
    /\ At(w, "rostered")
    /\ Importable(Home(w), session[w].batch)
    /\ ImportEvents(Home(w), session[w].batch)
    /\ session' = [session EXCEPT ![w] =
           IF session[w].more
             THEN Idle
             ELSE [Idle EXCEPT !.pc = "push", !.remote = session[w].remote]]
    /\ UNCHANGED <<covers, roster, linked, pairing, pushes, revoking, faults>>

\* The transaction is rolled back and SyncLink returns the error; the roster
\* taken one step earlier stays.
ImportPulledFails(w) ==
    /\ At(w, "rostered")
    /\ \/ ~Importable(Home(w), session[w].batch)
       \/ Refusable(Home(w), session[w].batch)
    /\ session' = [session EXCEPT ![w] = Idle]
    /\ UNCHANGED <<events, heads, covers, roster, linked, pairing, pushes, revoking, faults>>

-----------------------------------------------------------------------------
(* SyncLink: the push half.  The server authenticates, then takes the write  *)
(* lock to import, then reads the heads for the reply.                       *)

\* The caller's own events beyond the head the server last reported.
Unpushed(w) ==
    {e \in events[Home(w)] : e.origin = Home(w) /\ e.seq > session[w].remote}

StartPush(w) ==
    LET pending == Unpushed(w)
    IN  /\ At(w, "push")
        /\ pending # {}
        /\ \E b \in SUBSET pending :
              /\ Page(pending, b)
              /\ pushes' = pushes \cup {[caller |-> w, from |-> Home(w), events |-> b,
                                         stage |-> "sent"]}
              /\ session' = [session EXCEPT ![w] = [Idle EXCEPT !.pc = "pushing"]]
        /\ UNCHANGED <<events, heads, covers, roster, linked, pairing, revoking, faults>>

NothingToPush(w) ==
    /\ At(w, "push")
    /\ Unpushed(w) = {}
    /\ session' = [session EXCEPT ![w] = Idle]
    /\ UNCHANGED <<events, heads, covers, roster, linked, pairing, pushes, revoking, faults>>

\* The caller of p, if it still waits, gets an answer and goes to `next`.
Answer(p, next) ==
    session' = [w \in Session |-> IF w = p.caller THEN next ELSE session[w]]

PushAuthorize(p) ==
    /\ p.stage = "sent"
    /\ Authorized(p.from, "push")
    /\ pushes' = (pushes \ {p}) \cup {[p EXCEPT !.stage = "authorized"]}
    /\ UNCHANGED <<events, heads, covers, roster, linked, pairing, session, revoking, faults>>

PushImport(p) ==
    /\ p.stage = "authorized"
    /\ Importable(Authority, p.events)
    /\ ImportEvents(Authority, p.events)
    /\ pushes' = (pushes \ {p}) \cup {[p EXCEPT !.stage = "imported"]}
    /\ UNCHANGED <<covers, roster, linked, pairing, session, revoking, faults>>

PushRefused(p) ==
    /\ \/ p.stage = "sent" /\ ~Authorized(p.from, "push")
       \/ /\ p.stage = "authorized"
          /\ ~Importable(Authority, p.events) \/ Refusable(Authority, p.events)
    /\ pushes' = pushes \ {p}
    /\ Answer(p, Idle)
    /\ UNCHANGED <<events, heads, covers, roster, linked, pairing, revoking, faults>>

\* A full batch means there may be more to push after the acknowledged head.
PushReply(p) ==
    /\ p.stage = "imported"
    /\ pushes' = pushes \ {p}
    /\ Answer(p, IF Cardinality(p.events) < Limit
                   THEN Idle
                   ELSE [Idle EXCEPT !.pc = "push",
                                     !.remote = heads[Authority][p.from].seq])
    /\ UNCHANGED <<events, heads, covers, roster, linked, pairing, revoking, faults>>

-----------------------------------------------------------------------------
(* Revocation: sync_heads is read before the write lock is taken.            *)

\* The cut-off of a revocation: the highest sequence accepted so far.
Cutoff(o) == heads[Authority][o].seq

RevokeRead(o) ==
    /\ roster[Authority][o].status # "absent"
    /\ Cardinality(revoking) < MaxRevoking
    /\ revoking' = revoking \cup {[target |-> o, through |-> Cutoff(o)]}
    /\ UNCHANGED <<events, heads, covers, roster, linked, pairing, session, pushes, faults>>

\* Only an active row is updated; a replica revoked meanwhile is left as it is.
RevokeCommit(v) ==
    /\ roster' = IF roster[Authority][v.target].status = "active"
                   THEN [roster EXCEPT ![Authority][v.target] =
                            [@ EXCEPT !.status = "revoked", !.through = v.through]]
                   ELSE roster
    /\ revoking' = revoking \ {v}
    /\ UNCHANGED <<events, heads, covers, linked, pairing, session, pushes, faults>>

-----------------------------------------------------------------------------
(* Faults *)

Fault == faults < MaxFaults /\ faults' = faults + 1

\* Requests of the callers in W are on their own: nobody waits for the answer.
Orphan(W) == {IF p.caller \in W THEN [p EXCEPT !.caller = Nobody] ELSE p : p \in pushes}

\* The call ends with an error: timeout, lost reply, cancelled request.
Abandon(w) ==
    /\ Fault
    /\ session[w].pc # "idle"
    /\ session' = [session EXCEPT ![w] = Idle]
    /\ pushes' = Orphan({w})
    /\ UNCHANGED <<events, heads, covers, roster, linked, pairing, revoking>>

\* A push request that nobody waits for any more disappears on the way. The
\* fault that left it on its own is the one that counts.
LosePush(p) ==
    /\ p.caller = Nobody
    /\ pushes' = pushes \ {p}
    /\ UNCHANGED <<events, heads, covers, roster, linked, pairing, session, revoking, faults>>

\* The reply to a claim is lost, or Join stops before its next step.
LoseClaim(c) ==
    /\ Fault
    /\ pairing' = pairing \ {c}
    /\ UNCHANGED <<events, heads, covers, roster, linked, session, pushes, revoking>>

\* EnsureAllWorkspaceAuthorities at start-up rewrites r's own row.
EnsureWorkspaceAuthority(r) ==
    roster' = IF Member(r)
                THEN [roster EXCEPT ![r][r] = [@ EXCEPT !.status = "active", !.caps = Capability]]
                ELSE roster

RestartSpoke(r) ==
    LET mine == {w \in Session : Home(w) = r}
    IN  /\ Fault
        /\ EnsureWorkspaceAuthority(r)
        /\ session' = [w \in Session |-> IF w \in mine THEN Idle ELSE session[w]]
        /\ pushes' = Orphan(mine)
        /\ pairing' = {c \in pairing : c.to # r}
        /\ UNCHANGED <<events, heads, covers, linked, revoking>>

\* The calls the authority was serving end with an error at their callers.
RestartAuthority ==
    /\ Fault
    /\ EnsureWorkspaceAuthority(Authority)
    /\ session' = [w \in Session |->
                      IF session[w].pc \in {"pull", "events", "heads", "pushing"}
                        THEN Idle ELSE session[w]]
    /\ pushes' = {}
    /\ revoking' = {}
    /\ UNCHANGED <<events, heads, covers, linked, pairing>>

-----------------------------------------------------------------------------
Write ==
    \E r \in Replica, id \in EventId, causes \in SUBSET EventId, loose \in Looseness :
        AppendDomainEvent(r, id, causes, loose)

Admission ==
    \/ \E r \in Spoke, caps \in Grants : ClaimReplicaOffer(r, caps)
    \/ \E c \in pairing : ImportWorkspaceSnapshot(c) \/ SaveReplicaLink(c)
    \/ \E o \in Spoke : RevokeRead(o)
    \/ \E v \in revoking : RevokeCommit(v)

PullStep(w) ==
    \/ StartPull(w)
    \/ PullEvents(w)
    \/ PullRefused(w)
    \/ PullHeads(w)
    \/ PullReplicas(w)
    \/ ImportReplicaRoster(w)
    \/ ImportPulled(w)
    \/ ImportPulledFails(w)

PushStep(w) == StartPush(w) \/ NothingToPush(w)

ServePush(p) ==
    PushAuthorize(p) \/ PushImport(p) \/ PushRefused(p) \/ PushReply(p)

Failure ==
    \/ \E w \in Session : Abandon(w)
    \/ \E p \in pushes : LosePush(p)
    \/ \E c \in pairing : LoseClaim(c)
    \/ \E r \in Spoke : RestartSpoke(r)
    \/ RestartAuthority

Next ==
    \/ Write
    \/ Admission
    \/ \E w \in Session : PullStep(w) \/ PushStep(w)
    \/ \E p \in pushes : ServePush(p)
    \/ Failure

Spec == Init /\ [][Next]_vars
=============================================================================
