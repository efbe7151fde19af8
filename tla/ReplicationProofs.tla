------------------------- MODULE ReplicationProofs -------------------------
(***************************************************************************)
(* Proofs about module Replication, for any set of replicas, any events    *)
(* and any bounds.                                                         *)
(***************************************************************************)
EXTENDS ReplicationProperties, Sequences, TLAPS, WellFoundedInduction

(* A non-empty set of numbers below a bound has a largest element: what the  *)
(* head of an imported batch, a CHOOSE, rests on.                            *)
LEMMA LargestExists ==
    ASSUME NEW S, S \subseteq Nat, S # {},
           NEW N \in Nat, \A s \in S : s <= N
    PROVE  \E m \in S : \A s \in S : s <= m
<1> DEFINE T == {N - s : s \in S}
<1>1. T \subseteq Nat /\ T # {}
  <2>1. \A s \in S : N - s \in Nat
    OBVIOUS
  <2>2. T \subseteq Nat
    BY <2>1
  <2>3. PICK s \in S : TRUE
    OBVIOUS
  <2>4. N - s \in T
    OBVIOUS
  <2> QED BY <2>2, <2>4
<1>2. PICK x \in T : \A y \in T : ~(<<y, x>> \in OpToRel(<, Nat))
  <2> HIDE DEF T
  <2> QED BY <1>1, NatLessThanWellFounded, WFMin
<1>3. \A y \in T : ~(y < x)
  BY <1>1, <1>2 DEF OpToRel
<1>4. PICK m \in S : x = N - m
  OBVIOUS
<1>5. \A s \in S : s <= m
  <2> SUFFICES ASSUME NEW s \in S PROVE s <= m
    OBVIOUS
  <2>1. N - s \in T
    OBVIOUS
  <2>2. ~(N - s < N - m)
    BY <1>3, <1>4, <2>1
  <2> QED BY <2>2
<1> QED BY <1>5

-----------------------------------------------------------------------------
(* Importing a batch                                                         *)

(* The last of the fresh events of an origin is well defined, and the head   *)
(* after the import is its sequence and hash.                                *)
LEMMA HeadAfterIsLast ==
    ASSUME TypeOK, OwnChain, NEW r \in Replica, NEW o \in Replica,
           NEW batch \in SUBSET Event, Authentic(batch),
           FreshFrom(r, batch, o) # {}
    PROVE  \E last \in FreshFrom(r, batch, o) :
               /\ \A f \in FreshFrom(r, batch, o) : f.seq <= last.seq
               /\ HeadAfter(r, batch, o) = [seq |-> last.seq, hash |-> last.id]
<1> DEFINE new == FreshFrom(r, batch, o)
           S == {e.seq : e \in new}
<1>1. new \subseteq Event /\ \A e \in new : e \in Held(o, o)
  BY DEF FreshFrom, Fresh, Authentic, Held
<1>2. \A e \in new : e.seq \in Nat
  BY <1>1 DEF Event
<1>3. S \subseteq Nat /\ S # {}
  BY <1>2
<1>4. heads[o][o].seq \in Nat /\ \A s \in S : s <= heads[o][o].seq
  BY <1>1 DEF TypeOK, SyncHead, OwnChain
<1>5. PICK m \in S : \A s \in S : s <= m
  <2> HIDE DEF S
  <2> QED BY <1>3, <1>4, LargestExists
<1>6. \E e \in new : \A f \in new : f.seq <= e.seq
  BY <1>5
<1> DEFINE last == CHOOSE e \in new : \A f \in new : f.seq <= e.seq
<1>7. last \in new /\ \A f \in new : f.seq <= last.seq
  <2> HIDE DEF new
  <2> QED BY <1>6
<1>8. HeadAfter(r, batch, o) = [seq |-> last.seq, hash |-> last.id]
  BY DEF HeadAfter
<1> QED BY <1>7, <1>8

(* A batch that passes the checks continues the receiver's copy of a foreign *)
(* chain by exactly the origin's events up to the new head.                  *)
LEMMA FreshIsNextPart ==
    ASSUME TypeOK, OwnChain, NEW r \in Replica, NEW o \in Replica,
           NEW batch \in SUBSET Event, Authentic(batch), Importable(r, batch)
    PROVE  /\ HeadAfter(r, batch, o) \in SyncHead
           /\ heads[r][o].seq <= HeadAfter(r, batch, o).seq
           /\ FreshFrom(r, batch, o) =
                {e \in Held(o, o) : /\ heads[r][o].seq < e.seq
                                   /\ e.seq <= HeadAfter(r, batch, o).seq}
           /\ Names(heads[r][o], o) => Names(HeadAfter(r, batch, o), o)
<1> DEFINE new == FreshFrom(r, batch, o)
           after == HeadAfter(r, batch, o)
<1>h. heads[r][o] \in SyncHead /\ heads[r][o].seq \in Nat
  BY DEF TypeOK, SyncHead
<1>e. \A e \in Held(o, o) : e \in Event /\ e.seq \in Nat /\ e.id \in EventId
  BY DEF TypeOK, Held, Event
<1>1. CASE new = {}
  <2>1. after = heads[r][o]
    BY <1>1 DEF HeadAfter
  <2> QED BY <1>1, <1>h, <1>e, <2>1
<1>2. CASE new # {}
  <2>1. PICK last \in new : /\ \A f \in new : f.seq <= last.seq
                           /\ after = [seq |-> last.seq, hash |-> last.id]
    BY <1>2, HeadAfterIsLast
  <2>2. new \subseteq Held(o, o)
    BY DEF FreshFrom, Fresh, Authentic, Held
  <2>3. \A e \in new : Continues(r, batch, e) /\ e.origin = o
    BY DEF Importable, FreshFrom
  <2>4. \A e \in new : heads[r][o].seq < e.seq
    BY <2>2, <2>3, <1>h, <1>e DEF Continues
  <2>5. ASSUME NEW f \in Held(o, o), heads[r][o].seq < f.seq, f.seq <= last.seq
        PROVE  f \in new
    <3>1. \E g \in new : g.seq = f.seq
      BY <2>1, <2>2, <2>3, <2>5, <1>h, <1>e DEF Continues
    <3> QED BY <3>1, <2>2 DEF OwnChain
  <2>6. after \in SyncHead /\ after.seq = last.seq /\ after.hash = last.id
    BY <2>1, <2>2, <1>e DEF SyncHead
  <2>7. new = {e \in Held(o, o) : heads[r][o].seq < e.seq /\ e.seq <= after.seq}
    BY <2>1, <2>2, <2>4, <2>5, <2>6
  <2>8. heads[r][o].seq < after.seq
    BY <2>1, <2>4, <2>6
  <2>9. Names(after, o)
    BY <2>2, <2>6, <2>8, <1>h, <1>e DEF Names
  <2> HIDE DEF new, after
  <2> QED BY <2>6, <2>7, <2>8, <2>9, <1>h, <1>e DEF new, after, SyncHead
<1> QED BY <1>1, <1>2

-----------------------------------------------------------------------------
(* Types                                                                     *)

(* Spokes are replicas other than the authority, and the home of every call
   of SyncLink (Session) is a spoke. *)
LEMMA SpokesAreReplicas ==
    /\ Spoke \subseteq Replica /\ Authority \in Replica /\ Authority \notin Spoke
    /\ \A w \in Session : Home(w) \in Spoke
BY ReplicaAssumption DEF Spoke, Session, Home

(* The empty rows that stand for missing rows of the tables have their types. *)
LEMMA RecordTypes ==
    /\ NoHead \in SyncHead /\ NoRow \in Row /\ Idle \in Call
    /\ NoHave \in [Replica -> Nat] /\ NoRows \in [Replica -> Row]
<1>1. NoHead \in SyncHead /\ NoRow \in Row
  BY DEF NoHead, SyncHead, NoRow, Row
<1>2. NoHave \in [Replica -> Nat] /\ NoRows \in [Replica -> Row]
  BY <1>1 DEF NoHave, NoRows
<1>3. Idle \in Call
  BY <1>2 DEF Idle, Call, Step
<1> QED BY <1>1, <1>2, <1>3

(* The tables and processes have their types when the workspace is created. *)
LEMMA InitTypes == Init => TypeOK
<1> SUFFICES ASSUME Init PROVE TypeOK
  OBVIOUS
<1>1. events \in [Replica -> SUBSET Event] /\ heads \in [Replica -> [Replica -> SyncHead]]
  BY RecordTypes DEF Init
<1>2. covers \in [Replica -> [Replica -> Nat]] /\ session \in [Session -> Call]
  BY RecordTypes DEF Init
<1>3. roster \in [Replica -> [Replica -> Row]]
  BY RecordTypes DEF Init, Row
<1>4. linked \subseteq Spoke /\ pairing \subseteq Claim /\ pushes \subseteq Push
      /\ revoking \subseteq [target: Spoke, through: Nat] /\ faults \in 0 .. MaxFaults
  BY BoundsAssumption DEF Init
<1> QED BY <1>1, <1>2, <1>3, <1>4 DEF TypeOK

(* Every action preserves the types; the head of an import is a head because *)
(* the batch is authentic (HeadAfterIsLast).                                 *)
LEMMA TypeStep == IInv /\ Next => TypeOK'
<1> SUFFICES ASSUME IInv, Next PROVE TypeOK'
  OBVIOUS
<1> USE SpokesAreReplicas, RecordTypes
<1>t. TypeOK
  BY DEF IInv
<1>i. ASSUME NEW r \in Replica, NEW batch \in SUBSET Event, Authentic(batch),
             Importable(r, batch), ImportEvents(r, batch)
      PROVE  events' \in [Replica -> SUBSET Event] /\ heads' \in [Replica -> [Replica -> SyncHead]]
  <2>1. \A o \in Replica : HeadAfter(r, batch, o) \in SyncHead
    BY <1>i, <1>t, FreshIsNextPart DEF IInv
  <2> QED BY <1>i, <1>t, <2>1 DEF ImportEvents, TypeOK
<1>1. ASSUME NEW r \in Replica, NEW id \in EventId, NEW causes \in SUBSET EventId,
             NEW loose \in Looseness, AppendDomainEvent(r, id, causes, loose)
      PROVE  TypeOK'
  <2>1. heads[r][r] \in SyncHead
    BY <1>t DEF TypeOK
  <2> DEFINE e == NextEvent(r, id, causes, loose)
  <2>2. e \in Event /\ [seq |-> heads[r][r].seq + 1, hash |-> id] \in SyncHead
    BY <2>1, LoosenessAssumption DEF Event, SyncHead, NextEvent
  <2>3. events' \in [Replica -> SUBSET Event] /\ heads' \in [Replica -> [Replica -> SyncHead]]
    BY <1>1, <1>t, <2>2 DEF AppendDomainEvent, TypeOK
  <2> QED BY <1>1, <1>t, <2>3 DEF AppendDomainEvent, TypeOK
<1>2. ASSUME NEW r \in Spoke, NEW caps \in Grants, ClaimReplicaOffer(r, caps)
      PROVE  TypeOK'
  <2> DEFINE row == [status |-> "active", through |-> 0, caps |-> caps]
             rows == [roster[Authority] EXCEPT ![r] = row]
  <2>1. row \in Row
    BY GrantsAssumption DEF Row
  <2>2. rows \in [Replica -> Row]
    BY <2>1, <1>t DEF TypeOK
  <2>3. [to |-> r, stage |-> "claimed", heads |-> heads[Authority], rows |-> rows] \in Claim
    BY <2>2, <1>t DEF Claim, TypeOK
  <2>4. roster' \in [Replica -> [Replica -> Row]] /\ pairing' \subseteq Claim
    BY <1>2, <1>t, <2>2, <2>3 DEF ClaimReplicaOffer, TypeOK
  <2> QED BY <1>2, <1>t, <2>4 DEF ClaimReplicaOffer, TypeOK
<1>3. ASSUME NEW c \in pairing, ImportWorkspaceSnapshot(c)
      PROVE  TypeOK'
  <2>1. c \in Claim
    BY <1>t DEF TypeOK
  <2>2. [c EXCEPT !.stage = "imported"] \in Claim /\ c.to \in Replica
        /\ c.heads \in [Replica -> SyncHead] /\ c.rows \in [Replica -> Row]
    BY <2>1 DEF Claim
  <2> DEFINE own == [status |-> "active", through |-> 0, caps |-> Capability]
             old == [roster[c.to] EXCEPT ![Authority] = c.rows[Authority], ![c.to] = own]
  <2>3. own \in Row
    BY DEF Row
  <2>4. old \in [Replica -> Row]
    BY <1>t, <2>2, <2>3 DEF TypeOK
  <2>5. Upsert(old, c.rows) \in [Replica -> Row]
    <3> HIDE DEF old
    <3> QED BY <2>2, <2>4 DEF Upsert
  <2>6. HeadsFromSnapshot(c.to, c) \in [Replica -> SyncHead]
    BY <1>t, <2>2 DEF HeadsFromSnapshot, TypeOK
  <2>7. [o \in Replica |-> c.heads[o].seq] \in [Replica -> Nat]
    BY <2>2 DEF SyncHead
  <2>8. roster' \in [Replica -> [Replica -> Row]]
    BY <1>3, <1>t, <2>5 DEF ImportWorkspaceSnapshot, TypeOK
  <2>9. heads' \in [Replica -> [Replica -> SyncHead]] /\ covers' \in [Replica -> [Replica -> Nat]]
    BY <1>3, <1>t, <2>6, <2>7 DEF ImportWorkspaceSnapshot, TypeOK
  <2>10. pairing' \subseteq Claim
    BY <1>3, <1>t, <2>2 DEF ImportWorkspaceSnapshot, TypeOK
  <2> QED BY <1>3, <1>t, <2>8, <2>9, <2>10 DEF ImportWorkspaceSnapshot, TypeOK
<1>4. ASSUME NEW c \in pairing, SaveReplicaLink(c)
      PROVE  TypeOK'
  BY <1>4, <1>t DEF SaveReplicaLink, TypeOK, Claim
<1>5. ASSUME NEW o \in Spoke, RevokeRead(o)
      PROVE  TypeOK'
  BY <1>5, <1>t DEF RevokeRead, Cutoff, TypeOK, SyncHead
<1>6. ASSUME NEW v \in revoking, RevokeCommit(v)
      PROVE  TypeOK'
  <2>1. v.target \in Replica /\ v.through \in Nat
    BY <1>t DEF TypeOK
  <2> DEFINE old == roster[Authority][v.target]
             row == [old EXCEPT !.status = "revoked", !.through = v.through]
  <2>2. old \in Row
    BY <1>t, <2>1 DEF TypeOK
  <2>3. row \in Row
    <3> HIDE DEF old
    <3> QED BY <2>1, <2>2 DEF Row
  <2>4. [roster EXCEPT ![Authority][v.target] = row] \in [Replica -> [Replica -> Row]]
    <3> HIDE DEF row
    <3> QED BY <1>t, <2>1, <2>3 DEF TypeOK
  <2>5. roster' \in [Replica -> [Replica -> Row]]
    BY <1>6, <1>t, <2>1, <2>4 DEF RevokeCommit, TypeOK
  <2> QED BY <1>6, <1>t, <2>5 DEF RevokeCommit, TypeOK
<1>7. ASSUME NEW w \in Session, PullStep(w)
      PROVE  TypeOK'
  <2>s. session[w] \in Call /\ Home(w) \in Replica
    BY <1>t DEF TypeOK
  <2>c. session[w].batch \in SUBSET Event /\ session[w].rows \in [Replica -> Row]
        /\ session[w].remote \in Nat /\ session[w].more \in BOOLEAN
        /\ session[w].have \in [Replica -> Nat]
    BY <2>s DEF Call
  <2>1. CASE StartPull(w)
    <3>1. [o \in Replica |-> heads[Home(w)][o].seq] \in [Replica -> Nat]
      BY <2>s, <1>t DEF TypeOK, SyncHead
    <3>2. session' \in [Session -> Call]
      BY <2>1, <3>1, <1>t DEF StartPull, TypeOK, Call, Step
    <3> QED BY <2>1, <3>2, <1>t DEF StartPull, TypeOK
  <2>2. CASE PullEvents(w)
    <3>1. Beyond(Authority, session[w].have) \subseteq Event
      BY <1>t DEF Beyond, TypeOK
    <3>2. \A b \in SUBSET Event, m \in BOOLEAN :
             [Idle EXCEPT !.pc = "events", !.batch = b, !.more = m] \in Call
      BY DEF Call, Step
    <3> DEFINE pending == Beyond(Authority, session[w].have)
               taken(b) == [Idle EXCEPT !.pc = "events", !.batch = b, !.more = (b # pending)]
    <3>3. PICK b \in SUBSET pending : session' = [session EXCEPT ![w] = taken(b)]
      BY <2>2 DEF PullEvents
    <3>4. taken(b) \in Call
      BY <3>1, <3>2
    <3>5. session' \in [Session -> Call]
      <4> HIDE DEF taken
      <4> QED BY <3>3, <3>4, <1>t DEF TypeOK
    <3> QED BY <2>2, <3>5, <1>t DEF PullEvents, TypeOK
  <2>3. CASE PullRefused(w) \/ ImportPulledFails(w)
    BY <2>3, <1>t DEF PullRefused, ImportPulledFails, TypeOK
  <2>4. CASE PullHeads(w)
    <3>1. heads[Authority][Home(w)].seq \in Nat
      BY <2>s, <1>t DEF TypeOK, SyncHead
    <3>2. session' \in [Session -> Call]
      BY <2>4, <2>s, <3>1, <1>t DEF PullHeads, TypeOK, Call, Step
    <3> QED BY <2>4, <3>2, <1>t DEF PullHeads, TypeOK
  <2>5. CASE PullReplicas(w)
    <3>1. session' \in [Session -> Call]
      BY <2>5, <2>s, <1>t DEF PullReplicas, TypeOK, Call, Step
    <3> QED BY <2>5, <3>1, <1>t DEF PullReplicas, TypeOK
  <2>6. CASE ImportReplicaRoster(w)
    <3>1. Upsert(roster[Home(w)], session[w].rows) \in [Replica -> Row]
      BY <2>s, <2>c, <1>t DEF Upsert, TypeOK
    <3>2. roster' \in [Replica -> [Replica -> Row]]
      BY <2>6, <2>s, <3>1, <1>t DEF ImportReplicaRoster, TypeOK
    <3>3. session' \in [Session -> Call]
      BY <2>6, <2>s, <1>t DEF ImportReplicaRoster, TypeOK, Call, Step
    <3> QED BY <2>6, <3>2, <3>3, <1>t DEF ImportReplicaRoster, TypeOK
  <2>7. CASE ImportPulled(w)
    <3>1. events' \in [Replica -> SUBSET Event] /\ heads' \in [Replica -> [Replica -> SyncHead]]
      BY <2>7, <2>s, <2>c, <1>i DEF ImportPulled, IInv, AllAuthentic
    <3>2. [Idle EXCEPT !.pc = "push", !.remote = session[w].remote] \in Call
      BY <2>c DEF Call, Step
    <3>3. session' \in [Session -> Call]
      BY <2>7, <3>2, <1>t DEF ImportPulled, TypeOK
    <3> QED BY <2>7, <3>1, <3>3, <1>t DEF ImportPulled, TypeOK
  <2> QED BY <1>7, <2>1, <2>2, <2>3, <2>4, <2>5, <2>6, <2>7 DEF PullStep
<1>8. ASSUME NEW w \in Session, PushStep(w)
      PROVE  TypeOK'
  <2>1. CASE StartPush(w)
    <3>1. Unpushed(w) \subseteq Event
      BY <1>t DEF Unpushed, TypeOK
    <3>2. \A b \in SUBSET Event :
             [caller |-> w, from |-> Home(w), events |-> b, stage |-> "sent"] \in Push
      BY DEF Push
    <3>3. pushes' \subseteq Push
      BY <2>1, <3>1, <3>2, <1>t DEF StartPush, TypeOK
    <3>4. [Idle EXCEPT !.pc = "pushing"] \in Call
      BY DEF Call, Step
    <3>5. session' \in [Session -> Call]
      BY <2>1, <3>4, <1>t DEF StartPush, TypeOK
    <3> QED BY <2>1, <3>3, <3>5, <1>t DEF StartPush, TypeOK
  <2>2. CASE NothingToPush(w)
    BY <2>2, <1>t DEF NothingToPush, TypeOK
  <2> QED BY <1>8, <2>1, <2>2 DEF PushStep
<1>9. ASSUME NEW p \in pushes, ServePush(p)
      PROVE  TypeOK'
  <2>p. p \in Push /\ p.from \in Replica /\ p.events \in SUBSET Event
    BY <1>t DEF TypeOK, Push
  <2>1. \A st \in {"sent", "authorized", "imported"} : [p EXCEPT !.stage = st] \in Push
    BY <2>p DEF Push
  <2>2. CASE PushAuthorize(p)
    BY <2>2, <2>1, <1>t DEF PushAuthorize, TypeOK
  <2>3. CASE PushImport(p)
    <3>1. events' \in [Replica -> SUBSET Event] /\ heads' \in [Replica -> [Replica -> SyncHead]]
      BY <2>3, <2>p, <1>i DEF PushImport, IInv, AllAuthentic
    <3>2. pushes' \subseteq Push
      BY <2>3, <2>1, <1>t DEF PushImport, TypeOK
    <3> QED BY <2>3, <3>1, <3>2, <1>t DEF PushImport, TypeOK
  <2>4. CASE PushRefused(p)
    BY <2>4, <1>t DEF PushRefused, Answer, TypeOK
  <2>5. CASE PushReply(p)
    <3>1. heads[Authority][p.from].seq \in Nat
      BY <2>p, <1>t DEF TypeOK, SyncHead
    <3>2. [Idle EXCEPT !.pc = "push", !.remote = heads[Authority][p.from].seq] \in Call
      BY <3>1 DEF Call, Step
    <3>3. session' \in [Session -> Call]
      BY <2>5, <3>2, <1>t DEF PushReply, Answer, TypeOK
    <3> QED BY <2>5, <3>3, <1>t DEF PushReply, TypeOK
  <2> QED BY <1>9, <2>2, <2>3, <2>4, <2>5 DEF ServePush
<1>10. ASSUME Failure
       PROVE  TypeOK'
  <2>1. ASSUME Fault PROVE faults' \in 0 .. MaxFaults
    BY <2>1, <1>t, BoundsAssumption DEF Fault, TypeOK
  <2>2. \A W : Orphan(W) \subseteq Push
    <3>1. \A p \in pushes : p \in Push /\ [p EXCEPT !.caller = Nobody] \in Push
      BY <1>t DEF TypeOK, Push
    <3> QED BY <3>1 DEF Orphan
  <2>3. ASSUME NEW r \in Replica, EnsureWorkspaceAuthority(r)
        PROVE  roster' \in [Replica -> [Replica -> Row]]
    <3> DEFINE old == roster[r][r]
               row == [old EXCEPT !.status = "active", !.caps = Capability]
    <3>0. old \in Row
      BY <1>t DEF TypeOK
    <3>1. row \in Row
      <4> HIDE DEF old
      <4> QED BY <3>0 DEF Row
    <3>2. [roster EXCEPT ![r][r] = row] \in [Replica -> [Replica -> Row]]
      <4> HIDE DEF row
      <4> QED BY <3>1, <1>t DEF TypeOK
    <3>3. roster' = [roster EXCEPT ![r][r] = row] \/ roster' = roster
      BY <2>3 DEF EnsureWorkspaceAuthority
    <3> QED BY <3>2, <3>3, <1>t DEF TypeOK
  <2>4. ASSUME NEW w \in Session, Abandon(w) PROVE TypeOK'
    <3>1. session' \in [Session -> Call]
      BY <2>4, <1>t DEF Abandon, TypeOK
    <3> QED BY <2>1, <2>2, <2>4, <3>1, <1>t DEF Abandon, TypeOK
  <2>5. ASSUME NEW p \in pushes, LosePush(p) PROVE TypeOK'
    BY <2>1, <2>5, <1>t DEF LosePush, TypeOK
  <2>6. ASSUME NEW c \in pairing, LoseClaim(c) PROVE TypeOK'
    BY <2>1, <2>6, <1>t DEF LoseClaim, TypeOK
  <2>7. ASSUME NEW r \in Spoke, RestartSpoke(r) PROVE TypeOK'
    <3>1. session' \in [Session -> Call]
      BY <2>7, <1>t DEF RestartSpoke, TypeOK
    <3>2. roster' \in [Replica -> [Replica -> Row]] /\ pushes' \subseteq Push
      BY <2>2, <2>3, <2>7 DEF RestartSpoke
    <3>3. pairing' \subseteq Claim
      BY <2>7, <1>t DEF RestartSpoke, TypeOK
    <3> QED BY <2>1, <2>7, <3>1, <3>2, <3>3, <1>t DEF RestartSpoke, TypeOK
  <2>8. CASE RestartAuthority
    <3>1. session' \in [Session -> Call]
      BY <2>8, <1>t DEF RestartAuthority, TypeOK
    <3>2. roster' \in [Replica -> [Replica -> Row]]
      BY <2>3, <2>8 DEF RestartAuthority
    <3> QED BY <2>1, <2>8, <3>1, <3>2, <1>t DEF RestartAuthority, TypeOK
  <2> QED BY <1>10, <2>4, <2>5, <2>6, <2>7, <2>8 DEF Failure
<1> QED BY <1>1, <1>2, <1>3, <1>4, <1>5, <1>6, <1>7, <1>8, <1>9, <1>10
        DEF Next, Write, Admission

-----------------------------------------------------------------------------
(* Histories.  Three kinds of step write events, heads or covers: a local    *)
(* append, the import of a batch, the import of a snapshot.                  *)

HistoryInv ==
    /\ OwnChain
    /\ \A r \in Replica : Authentic(events[r])
    /\ HeadsNameHistory
    /\ CoversWithinHeads
    /\ HistoryComplete

(* No event is lost and no head moves back. *)
Grown ==
    \A r \in Replica :
        /\ events[r] \subseteq events'[r]
        /\ \A o \in Replica : heads[r][o].seq <= heads'[r][o].seq

(* No origin's own history changes. *)
OwnStill ==
    \A o \in Replica : Held(o, o)' = Held(o, o) /\ heads'[o][o] = heads[o][o]

(* The numbers and identifiers in rows of domain_events, sync_heads and
   sync_snapshots, for the steps that do arithmetic on them. *)
LEMMA NumbersOf ==
    ASSUME TypeOK
    PROVE  /\ \A r, o \in Replica : heads[r][o] \in SyncHead /\ heads[r][o].seq \in Nat
                                     /\ covers[r][o] \in Nat
           /\ \A r, o \in Replica : \A e \in Held(r, o) :
                  e \in Event /\ e.seq \in Nat \ {0} /\ e.id \in EventId
BY DEF TypeOK, SyncHead, Held, Event

(* A local write (appendDomainEventTx) extends the writer's own chain by one
   event and keeps every other replica's part of that chain what it was. *)
LEMMA AppendKeepsHistory ==
    ASSUME TypeOK, TypeOK', HistoryInv,
           NEW r \in Replica, NEW id \in EventId, NEW causes \in SUBSET EventId,
             NEW loose \in Looseness, AppendDomainEvent(r, id, causes, loose)
    PROVE  HistoryInv' /\ Grown
<1> DEFINE n == heads[r][r].seq + 1
           e == NextEvent(r, id, causes, loose)
<1>n. n \in Nat /\ n = heads[r][r].seq + 1
  BY NumbersOf
<1>e. e.seq = n /\ e.origin = r /\ e.id = id
  BY DEF NextEvent
<1>1. /\ events' = [events EXCEPT ![r] = @ \cup {e}]
      /\ heads' = [heads EXCEPT ![r][r] = [seq |-> n, hash |-> id]]
      /\ covers' = covers
  BY DEF AppendDomainEvent, NextEvent
<1> HIDE DEF e, n
<1>2. /\ events'[r] = events[r] \cup {e}
      /\ \A s \in Replica : s # r => events'[s] = events[s]
  BY <1>1 DEF TypeOK
<1>3. /\ heads'[r][r].seq = n /\ heads'[r][r].hash = id
      /\ \A s, o \in Replica : s # r \/ o # r => heads'[s][o] = heads[s][o]
  BY <1>1 DEF TypeOK
<1>4. /\ Held(r, r)' = Held(r, r) \cup {e}
      /\ \A s, o \in Replica : s # r \/ o # r => Held(s, o)' = Held(s, o)
  BY <1>2, <1>e DEF Held
<1>5. \A s, o \in Replica : heads[s][o].seq <= heads[o][o].seq
  BY NumbersOf DEF HistoryInv, HeadsNameHistory, Names, OwnChain
<1>6. OwnChain'
  <2> SUFFICES ASSUME NEW o \in Replica
               PROVE  /\ covers'[o][o] = 0
                      /\ \A f \in Held(o, o)' : f.seq <= heads'[o][o].seq
                      /\ \A k \in 1 .. heads'[o][o].seq : \E f \in Held(o, o)' : f.seq = k
                      /\ \A f, g \in Held(o, o)' : f.seq = g.seq => f = g
    BY DEF OwnChain
  <2>1. CASE o = r
    <3>1. \A f \in Held(r, r) : f.seq < n
      BY <1>n, NumbersOf DEF HistoryInv, OwnChain
    <3>2. \A k \in 1 .. n : k = n \/ k \in 1 .. heads[r][r].seq
      BY <1>n, NumbersOf
    <3>3. \A f \in Held(r, r)' : f.seq <= n
      BY <1>4, <1>e, <1>n, <3>1, NumbersOf
    <3>4. \A k \in 1 .. n : \E f \in Held(r, r)' : f.seq = k
      BY <1>4, <1>e, <3>2 DEF HistoryInv, OwnChain
    <3>5. \A f, g \in Held(r, r)' : f.seq = g.seq => f = g
      BY <1>4, <1>e, <1>n, <3>1, NumbersOf DEF HistoryInv, OwnChain
    <3> QED BY <1>1, <1>3, <2>1, <3>3, <3>4, <3>5 DEF HistoryInv, OwnChain
  <2>2. CASE o # r
    BY <1>1, <1>3, <1>4, <2>2 DEF HistoryInv, OwnChain
  <2> QED BY <2>1, <2>2
<1>7. \A s \in Replica : Authentic(events[s])'
  <2>1. \A s \in Replica : events[s] \subseteq events'[s]
    BY <1>2
  <2>2. \A s \in Replica : \A f \in events[s] : f.origin \in Replica
    BY DEF TypeOK, Event
  <2>3. ASSUME NEW s \in Replica, NEW f \in events'[s]
        PROVE  f \in events'[f.origin]
    <3>1. CASE f \in events[s]
      BY <3>1, <2>1, <2>2 DEF HistoryInv, Authentic
    <3>2. CASE f \notin events[s]
      BY <3>2, <2>3, <1>2, <1>e
    <3> QED BY <3>1, <3>2
  <2> QED BY <2>3 DEF Authentic
<1>8. HeadsNameHistory'
  <2>1. n # 0
    BY <1>n, NumbersOf
  <2>2. Names(heads[r][r], r)'
    BY <1>3, <1>4, <1>e, <2>1 DEF Names
  <2>3. \A s, o \in Replica : s # r \/ o # r => Names(heads[s][o], o)'
    BY <1>3, <1>4 DEF HistoryInv, HeadsNameHistory, Names
  <2> QED BY <2>2, <2>3 DEF HeadsNameHistory
<1>9. CoversWithinHeads'
  BY <1>1, <1>3, <1>n, NumbersOf DEF HistoryInv, CoversWithinHeads, OwnChain
<1>10. HistoryComplete'
  <2>1. Held(r, r)' = {f \in Held(r, r)' : f.seq > covers'[r][r] /\ f.seq <= heads'[r][r].seq}
    <3>1. \A f \in Held(r, r)' : f.seq > covers'[r][r] /\ f.seq <= heads'[r][r].seq
      BY <1>1, <1>3, <1>4, <1>6, <1>n, <1>e, NumbersOf DEF OwnChain
    <3> QED BY <3>1
  <2>2. ASSUME NEW s \in Replica, NEW o \in Replica, s # r \/ o # r
        PROVE  Held(s, o)' = {f \in Held(o, o)' : f.seq > covers'[s][o] /\ f.seq <= heads'[s][o].seq}
    <3>1. Held(s, o) = {f \in Held(o, o) : f.seq > covers[s][o] /\ f.seq <= heads[s][o].seq}
      BY DEF HistoryInv, HistoryComplete
    <3>2. CASE o = r
      <4>1. ~(n <= heads[s][r].seq)
        BY <1>5, <1>n, NumbersOf
      <4> QED BY <1>1, <1>3, <1>4, <1>e, <2>2, <3>1, <3>2, <4>1
    <3>3. CASE o # r
      BY <1>1, <1>3, <1>4, <2>2, <3>1, <3>3
    <3> QED BY <3>2, <3>3
  <2> QED BY <2>1, <2>2 DEF HistoryComplete
<1>11. Grown
  BY <1>2, <1>3, <1>n, NumbersOf DEF Grown
<1> QED BY <1>6, <1>7, <1>8, <1>9, <1>10, <1>11 DEF HistoryInv

(* ImportEvents, on a pulled or a pushed batch, keeps every history complete
   and no origin's own chain changes. *)
LEMMA ImportKeepsHistory ==
    ASSUME TypeOK, TypeOK', HistoryInv,
           NEW r \in Replica, NEW batch \in SUBSET Event, Authentic(batch),
           Importable(r, batch), ImportEvents(r, batch), covers' = covers
    PROVE  HistoryInv' /\ Grown /\ OwnStill
<1> DEFINE new(o) == FreshFrom(r, batch, o)
           after(o) == HeadAfter(r, batch, o)
<1>1. /\ events'[r] = events[r] \cup batch
      /\ \A s \in Replica : s # r => events'[s] = events[s]
  BY DEF TypeOK, ImportEvents
<1>2. /\ \A o \in Replica : heads'[r][o] = after(o)
      /\ \A s \in Replica : s # r => heads'[s] = heads[s]
  BY DEF TypeOK, ImportEvents
<1>3. /\ \A o \in Replica : Held(r, o)' = Held(r, o) \cup new(o)
      /\ \A s, o \in Replica : s # r => Held(s, o)' = Held(s, o)
  BY <1>1 DEF Held, FreshFrom, Fresh
<1>4. new(r) = {}
  BY DEF FreshFrom, Fresh, Authentic
<1>5. \A o \in Replica : Held(o, o)' = Held(o, o) /\ heads'[o][o] = heads[o][o]
  <2>1. after(r) = heads[r][r]
    BY <1>4 DEF HeadAfter
  <2> QED BY <1>2, <1>3, <1>4, <2>1
<1>6. \A o \in Replica :
         /\ after(o) \in SyncHead
         /\ heads[r][o].seq <= after(o).seq
         /\ new(o) = {e \in Held(o, o) : heads[r][o].seq < e.seq /\ e.seq <= after(o).seq}
         /\ Names(after(o), o)
  BY FreshIsNextPart DEF HistoryInv, HeadsNameHistory
<1> HIDE DEF new, after
<1>7. OwnChain'
  BY <1>5 DEF HistoryInv, OwnChain
<1>8. \A s \in Replica : Authentic(events[s])'
  <2>1. \A s \in Replica : events[s] \subseteq events'[s]
    BY <1>1
  <2>2. \A s \in Replica : \A e \in events[s] : e.origin \in Replica
    BY DEF TypeOK, Event
  <2>3. \A e \in batch : e.origin \in Replica
    BY DEF Event
  <2>4. ASSUME NEW s \in Replica, NEW e \in events'[s]
        PROVE  e \in events'[e.origin]
    <3>1. CASE e \in events[s]
      BY <3>1, <2>1, <2>2 DEF HistoryInv, Authentic
    <3>2. CASE e \notin events[s]
      <4>1. e \in batch
        BY <3>2, <2>4, <1>1
      <4> QED BY <4>1, <2>1, <2>3 DEF Authentic
    <3> QED BY <3>1, <3>2
  <2> QED BY <2>4 DEF Authentic
<1>9. HeadsNameHistory'
  <2>1. \A s, o \in Replica : Names(heads[s][o], o)'
    BY <1>2, <1>5, <1>6 DEF HistoryInv, HeadsNameHistory, Names
  <2> QED BY <2>1 DEF HeadsNameHistory
<1>10. Grown
  BY <1>1, <1>2, <1>6, NumbersOf DEF Grown
<1>11. CoversWithinHeads'
  BY <1>10, NumbersOf DEF HistoryInv, CoversWithinHeads, Grown, TypeOK, SyncHead
<1>12. HistoryComplete'
  <2> SUFFICES ASSUME NEW s \in Replica, NEW o \in Replica
               PROVE  Held(s, o)' = {e \in Held(o, o)' : e.seq > covers'[s][o] /\ e.seq <= heads'[s][o].seq}
    BY DEF HistoryComplete
  <2>1. Held(s, o) = {e \in Held(o, o) : e.seq > covers[s][o] /\ e.seq <= heads[s][o].seq}
    BY DEF HistoryInv, HistoryComplete
  <2>2. CASE s # r
    BY <1>2, <1>3, <1>5, <2>1, <2>2
  <2>3. CASE s = r
    <3>1. covers[r][o] <= heads[r][o].seq /\ covers[r][o] \in Nat /\ heads[r][o].seq \in Nat
          /\ after(o).seq \in Nat /\ heads[r][o].seq <= after(o).seq
      BY <1>6, NumbersOf DEF HistoryInv, CoversWithinHeads, SyncHead
    <3>2. \A e \in Held(o, o) :
             e.seq > covers[r][o] /\ e.seq <= after(o).seq
               <=> \/ e.seq > covers[r][o] /\ e.seq <= heads[r][o].seq
                   \/ heads[r][o].seq < e.seq /\ e.seq <= after(o).seq
      BY <3>1, NumbersOf
    <3>3. Held(r, o)' = Held(r, o) \cup {e \in Held(o, o) : heads[r][o].seq < e.seq /\ e.seq <= after(o).seq}
      BY <1>3, <1>6
    <3>4. Held(r, o)' = {e \in Held(o, o) : e.seq > covers[r][o] /\ e.seq <= after(o).seq}
      BY <2>1, <2>3, <3>2, <3>3
    <3> QED BY <1>2, <1>5, <2>3, <3>4
  <2> QED BY <2>2, <2>3
<1> QED BY <1>5, <1>7, <1>8, <1>9, <1>10, <1>11, <1>12 DEF HistoryInv, OwnStill

(* ImportWorkspaceSnapshot goes into an empty workspace, so heads and covers
   move together and no history gets a hole. *)
LEMMA SnapshotKeepsHistory ==
    ASSUME TypeOK, TypeOK', HistoryInv, ClaimsNameHistory, JoinedOnce,
           NEW c \in pairing, ImportWorkspaceSnapshot(c)
    PROVE  HistoryInv' /\ Grown /\ OwnStill
<1> DEFINE r == c.to
<1>c. c \in Claim /\ r \in Replica /\ c.heads \in [Replica -> SyncHead]
  BY SpokesAreReplicas DEF TypeOK, Claim
<1>1. events[r] = {} /\ \A o \in Replica : heads[r][o] = NoHead
  BY <1>c DEF JoinedOnce, OneClaimEach, EmptyBeforeJoin, ImportWorkspaceSnapshot
<1>2. events' = events /\ \A s, o \in Replica : Held(s, o)' = Held(s, o)
  BY DEF ImportWorkspaceSnapshot, Held
<1>3. /\ \A o \in Replica : heads'[r][o] = IF c.heads[o].seq = 0 THEN NoHead ELSE c.heads[o]
      /\ \A o \in Replica : covers'[r][o] = c.heads[o].seq
      /\ \A s \in Replica : s # r => heads'[s] = heads[s] /\ covers'[s] = covers[s]
  BY <1>c, <1>1 DEF TypeOK, ImportWorkspaceSnapshot, HeadsFromSnapshot
<1>4. \A o \in Replica : heads'[r][o].seq = c.heads[o].seq /\ c.heads[o].seq \in Nat
  BY <1>c, <1>3 DEF NoHead, SyncHead
<1>5. c.heads[r].seq = 0
  BY <1>c, <1>1 DEF ClaimsNameHistory, Names, Held
<1>6. \A o \in Replica : heads'[o][o] = heads[o][o] /\ covers'[o][o] = 0
  BY <1>1, <1>3, <1>5, <1>c DEF HistoryInv, OwnChain
<1>7. OwnChain'
  BY <1>2, <1>6 DEF HistoryInv, OwnChain
<1>8. \A s \in Replica : Authentic(events[s])'
  BY <1>2 DEF HistoryInv, Authentic
<1>9. HeadsNameHistory'
  <2>1. \A o \in Replica : Names(heads'[r][o], o)
    BY <1>3, <1>c DEF ClaimsNameHistory, Names, NoHead
  <2>2. \A s, o \in Replica : Names(heads'[s][o], o)
    BY <2>1, <1>3 DEF HistoryInv, HeadsNameHistory
  <2> QED BY <2>2, <1>2 DEF HeadsNameHistory, Names
<1>10. CoversWithinHeads'
  BY <1>3, <1>4, NumbersOf DEF HistoryInv, CoversWithinHeads
<1>11. HistoryComplete'
  <2> SUFFICES ASSUME NEW s \in Replica, NEW o \in Replica
               PROVE  Held(s, o)' = {e \in Held(o, o)' : e.seq > covers'[s][o] /\ e.seq <= heads'[s][o].seq}
    BY DEF HistoryComplete
  <2>1. CASE s # r
    BY <1>2, <1>3, <2>1 DEF HistoryInv, HistoryComplete
  <2>2. CASE s = r
    <3>1. Held(s, o)' = {}
      BY <1>1, <1>2, <2>2 DEF Held
    <3>2. \A e \in Held(o, o)' : ~(e.seq > covers'[s][o] /\ e.seq <= heads'[s][o].seq)
      BY <1>2, <1>3, <1>4, <2>2, NumbersOf
    <3> QED BY <3>1, <3>2
  <2> QED BY <2>1, <2>2
<1>12. Grown
  BY <1>1, <1>2, <1>3, <1>4, NumbersOf DEF Grown, NoHead
<1> QED BY <1>2, <1>6, <1>7, <1>8, <1>9, <1>10, <1>11, <1>12 DEF HistoryInv, OwnStill

(* Every other step leaves the histories alone. *)
LEMMA StepShape ==
    ASSUME Next
    PROVE  \/ Write
           \/ \E w \in Session : ImportPulled(w)
           \/ \E p \in pushes : PushImport(p)
           \/ \E c \in pairing : ImportWorkspaceSnapshot(c)
           \/ UNCHANGED <<events, heads, covers>>
<1>1. ASSUME NEW w \in Session, PullStep(w)
      PROVE  ImportPulled(w) \/ UNCHANGED <<events, heads, covers>>
  BY <1>1 DEF PullStep, StartPull, PullEvents, PullRefused, PullHeads, PullReplicas,
              ImportReplicaRoster, ImportPulledFails
<1>2. ASSUME NEW w \in Session, PushStep(w)
      PROVE  UNCHANGED <<events, heads, covers>>
  BY <1>2 DEF PushStep, StartPush, NothingToPush
<1>3. ASSUME NEW p \in pushes, ServePush(p)
      PROVE  PushImport(p) \/ UNCHANGED <<events, heads, covers>>
  BY <1>3 DEF ServePush, PushAuthorize, PushRefused, PushReply
<1>4. ASSUME Admission
      PROVE  \/ \E c \in pairing : ImportWorkspaceSnapshot(c)
             \/ UNCHANGED <<events, heads, covers>>
  BY <1>4 DEF Admission, ClaimReplicaOffer, SaveReplicaLink, RevokeRead, RevokeCommit
<1>5. ASSUME Failure
      PROVE  UNCHANGED <<events, heads, covers>>
  BY <1>5 DEF Failure, Abandon, LosePush, LoseClaim, RestartSpoke, RestartAuthority
<1> QED BY <1>1, <1>2, <1>3, <1>4, <1>5 DEF Next, Write

(* Every step keeps the histories complete and only grows them; own chains
   change by local writes alone. *)
LEMMA HistoryStep ==
    ASSUME IInv, TypeOK', Next
    PROVE  /\ HistoryInv' /\ Grown
           /\ OwnStill \/ Write
<1>1. TypeOK /\ HistoryInv /\ ClaimsNameHistory /\ JoinedOnce
  BY DEF IInv, HistoryInv, AllAuthentic
<1>2. CASE Write
  BY <1>1, <1>2, AppendKeepsHistory DEF Write
<1>3. ASSUME NEW w \in Session, ImportPulled(w)
      PROVE  HistoryInv' /\ Grown /\ OwnStill
  <2>1. session[w].batch \in SUBSET Event /\ Authentic(session[w].batch) /\ Home(w) \in Replica
    BY <1>1, SpokesAreReplicas DEF TypeOK, Call, IInv, AllAuthentic
  <2> QED BY <1>1, <1>3, <2>1, ImportKeepsHistory DEF ImportPulled
<1>4. ASSUME NEW p \in pushes, PushImport(p)
      PROVE  HistoryInv' /\ Grown /\ OwnStill
  <2>1. p.events \in SUBSET Event /\ Authentic(p.events)
    BY <1>1 DEF TypeOK, Push, IInv, AllAuthentic
  <2> QED BY <1>1, <1>4, <2>1, ImportKeepsHistory, ReplicaAssumption DEF PushImport
<1>5. CASE \E c \in pairing : ImportWorkspaceSnapshot(c)
  BY <1>1, <1>5, SnapshotKeepsHistory
<1>6. CASE UNCHANGED <<events, heads, covers>>
  <2>1. \A s, o \in Replica : Held(s, o)' = Held(s, o)
    BY <1>6 DEF Held
  <2>2. OwnChain' /\ HistoryComplete' /\ CoversWithinHeads'
    BY <1>1, <1>6, <2>1 DEF HistoryInv, OwnChain, HistoryComplete, CoversWithinHeads
  <2>3. HeadsNameHistory' /\ \A s \in Replica : Authentic(events[s])'
    BY <1>1, <1>6, <2>1 DEF HistoryInv, HeadsNameHistory, Names, Authentic
  <2>4. Grown
    BY <1>1, <1>6, NumbersOf DEF Grown
  <2>5. OwnStill
    BY <1>6, <2>1 DEF OwnStill
  <2> QED BY <2>2, <2>3, <2>4, <2>5 DEF HistoryInv
<1> QED BY <1>2, <1>3, <1>4, <1>5, <1>6, StepShape

-----------------------------------------------------------------------------
(* Rosters, claims and messages in flight                                    *)

(* In a workspace that has just been created nothing is on its way.          *)
LEMMA HubInit == Init => HubInv
<1> SUFFICES ASSUME Init PROVE HubInv
  OBVIOUS
<1> USE SpokesAreReplicas
<1>1. /\ \A r, o \in Replica : heads[r][o].seq = 0 /\ roster[r][o].status # "revoked"
      /\ \A r, o \in Replica : roster[r][o].status = "absent" \/ (r = Authority /\ o = Authority)
  BY DEF Init, NoHead, NoRow
<1>2. /\ roster[Authority][Authority].status = "active" /\ events[Authority] = {}
      /\ pairing = {} /\ pushes = {}
      /\ \A w \in Session : session[w].batch = {} /\ session[w].pc = "idle"
                            /\ session[w].rows = NoRows
  BY DEF Init, Idle
<1>3. \A o \in Replica : NoRows[o].status = "absent"
  BY DEF NoRows, NoRow
<1>4. HubAhead /\ HubServes /\ PushesGranted /\ HubOriginsGranted
  BY <1>1, <1>2 DEF HubAhead, HubServes, PushesGranted, HubOriginsGranted
<1>5. RowsCoverBatch /\ PulledOriginsRostered
  BY <1>2 DEF RowsCoverBatch, PulledOriginsRostered
<1>6. NoRosterBeforeJoin /\ RevocationsFromHub
  BY <1>1, <1>2, <1>3 DEF NoRosterBeforeJoin, RevocationsFromHub, Member
<1> QED BY <1>4, <1>5, <1>6 DEF HubInv

(* The workspace as it is created satisfies the inductive invariant. *)
LEMMA InitInv == Init => IInv
<1> SUFFICES ASSUME Init PROVE IInv
  OBVIOUS
<1>1. \A r, o \in Replica : Held(r, o) = {} /\ heads[r][o].seq = 0 /\ heads[r][o].hash = Genesis
                            /\ covers[r][o] = 0
  BY DEF Init, Held, NoHead, NoHave
<1>2. OwnChain /\ HeadsNameHistory /\ CoversWithinHeads /\ HistoryComplete
  BY <1>1 DEF OwnChain, HeadsNameHistory, Names, CoversWithinHeads, HistoryComplete
<1>3. AllAuthentic /\ ClaimsNameHistory /\ RevokingWithinHistory
  BY DEF Init, AllAuthentic, Authentic, Idle, ClaimsNameHistory, RevokingWithinHistory
<1>4. CutoffWithinHistory
  BY SpokesAreReplicas DEF Init, CutoffWithinHistory, NoRow
<1>5. JoinedOnce
  BY SpokesAreReplicas DEF Init, JoinedOnce, AuthorityActive, EmptyBeforeJoin, MembersAdmitted,
     SyncsOnceJoined, OneClaimEach, Member, NoRow, Idle
<1> QED BY <1>2, <1>3, <1>4, <1>5, InitTypes, HubInit DEF IInv

(* How one row of one roster may change: a start-up rewrites the own row, the
   authority admits or revokes, a spoke imports a roster or a snapshot. *)
LEMMA RosterChange ==
    ASSUME TypeOK, Next, NEW r \in Replica, NEW o \in Replica
    PROVE  \/ roster'[r][o] = roster[r][o]
           \/ /\ r = o /\ roster[r][o].status # "absent"
              /\ roster'[r][o].status = "active" /\ roster'[r][o].caps = Capability
           \/ /\ r = Authority /\ o \in Spoke /\ roster[r][o].status = "absent"
              /\ roster'[r][o].status = "active"
           \/ \E v \in revoking :
                 /\ r = Authority /\ o = v.target /\ roster[r][o].status = "active"
                 /\ roster'[r][o].status = "revoked" /\ roster'[r][o].through = v.through
                 /\ roster'[r][o].caps = roster[r][o].caps
           \/ \E w \in Session :
                 /\ ImportReplicaRoster(w) /\ r = Home(w)
                 /\ session[w].rows[o].status # "absent"
                 /\ roster'[r][o] = session[w].rows[o]
           \/ \E c \in pairing :
                 /\ ImportWorkspaceSnapshot(c) /\ r = c.to /\ Member(r)'
                 /\ roster'[r][o] = c.rows[o] \/ (r = o /\ roster'[r][o].status = "active")
<1> USE SpokesAreReplicas
<1> DEFINE Claimed == \E s \in Spoke, caps \in Grants : ClaimReplicaOffer(s, caps)
           Imported == \E c \in pairing : ImportWorkspaceSnapshot(c)
           Committed == \E v \in revoking : RevokeCommit(v)
           Rostered == \E w \in Session : ImportReplicaRoster(w)
           Started == \E s \in Replica : EnsureWorkspaceAuthority(s)
<1>0. Claimed \/ Imported \/ Committed \/ Rostered \/ Started \/ UNCHANGED roster
  BY DEF Next, Write, AppendDomainEvent, Admission, SaveReplicaLink, RevokeRead, PullStep,
     StartPull, PullEvents, PullRefused, PullHeads, PullReplicas, ImportPulled, ImportPulledFails,
     PushStep, StartPush, NothingToPush, ServePush, PushAuthorize, PushImport, PushRefused,
     PushReply, Failure, Abandon, LosePush, LoseClaim, RestartSpoke, RestartAuthority
<1>1. ASSUME NEW s \in Spoke, NEW caps \in Grants, ClaimReplicaOffer(s, caps)
      PROVE  \/ roster'[r][o] = roster[r][o]
             \/ /\ r = Authority /\ o \in Spoke /\ roster[r][o].status = "absent"
                /\ roster'[r][o].status = "active"
  <2> DEFINE row == [status |-> "active", through |-> 0, caps |-> caps]
  <2>1. /\ roster'[Authority][s] = row /\ roster[Authority][s].status = "absent"
        /\ r # Authority \/ o # s => roster'[r][o] = roster[r][o]
    BY <1>1 DEF ClaimReplicaOffer, TypeOK
  <2>2. row.status = "active"
    OBVIOUS
  <2> HIDE DEF row
  <2> QED BY <2>1, <2>2
<1>2. ASSUME NEW c \in pairing, ImportWorkspaceSnapshot(c)
      PROVE  \/ roster'[r][o] = roster[r][o]
             \/ /\ r = c.to /\ Member(r)'
                /\ roster'[r][o] = c.rows[o] \/ (r = o /\ roster'[r][o].status = "active")
  <2>1. c.to \in Replica /\ c.rows \in [Replica -> Row]
    BY DEF TypeOK, Claim
  <2> DEFINE own == [status |-> "active", through |-> 0, caps |-> Capability]
             old == [roster[c.to] EXCEPT ![Authority] = c.rows[Authority], ![c.to] = own]
  <2>2. /\ roster'[c.to] = Upsert(old, c.rows)
        /\ \A s \in Replica : s # c.to => roster'[s] = roster[s]
    BY <1>2, <2>1 DEF ImportWorkspaceSnapshot, TypeOK
  <2>3. /\ old[c.to].status = "active"
        /\ o # c.to => old[o] = c.rows[o] \/ old[o] = roster[c.to][o]
    BY <2>1 DEF TypeOK
  <2>4. /\ roster'[c.to][c.to].status # "absent"
        /\ \A p \in Replica : roster'[c.to][p] = c.rows[p] \/ roster'[c.to][p] = old[p]
    <3> HIDE DEF old
    <3> QED BY <2>1, <2>2, <2>3 DEF Upsert
  <2> HIDE DEF old
  <2> QED BY <2>2, <2>3, <2>4 DEF Member
<1>3. ASSUME NEW v \in revoking, RevokeCommit(v)
      PROVE  \/ roster'[r][o] = roster[r][o]
             \/ /\ r = Authority /\ o = v.target /\ roster[r][o].status = "active"
                /\ roster'[r][o].status = "revoked" /\ roster'[r][o].through = v.through
                /\ roster'[r][o].caps = roster[r][o].caps
  <2>1. v.target \in Replica
    BY DEF TypeOK
  <2>2. CASE /\ roster[Authority][v.target].status = "active"
             /\ roster' = [roster EXCEPT ![Authority][v.target] =
                              [@ EXCEPT !.status = "revoked", !.through = v.through]]
    <3> DEFINE old == roster[Authority][v.target]
               row == [old EXCEPT !.status = "revoked", !.through = v.through]
    <3>1. old \in Row
      BY <2>1 DEF TypeOK
    <3>2. row.status = "revoked" /\ row.through = v.through /\ row.caps = old.caps
      <4> HIDE DEF old
      <4> QED BY <3>1 DEF Row
    <3>3. /\ roster'[Authority][v.target] = row
          /\ r # Authority \/ o # v.target => roster'[r][o] = roster[r][o]
      BY <2>1, <2>2 DEF TypeOK
    <3> HIDE DEF row
    <3> QED BY <2>2, <3>2, <3>3
  <2> QED BY <1>3, <2>2 DEF RevokeCommit
<1>4. ASSUME NEW w \in Session, ImportReplicaRoster(w)
      PROVE  \/ roster'[r][o] = roster[r][o]
             \/ /\ r = Home(w) /\ session[w].rows[o].status # "absent"
                /\ roster'[r][o] = session[w].rows[o]
  <2>1. /\ roster'[Home(w)] = Upsert(roster[Home(w)], session[w].rows)
        /\ \A s \in Replica : s # Home(w) => roster'[s] = roster[s]
    BY <1>4 DEF ImportReplicaRoster, TypeOK
  <2> QED BY <2>1 DEF Upsert
<1>5. ASSUME NEW s \in Replica, EnsureWorkspaceAuthority(s)
      PROVE  \/ roster'[r][o] = roster[r][o]
             \/ /\ r = o /\ roster[r][o].status # "absent"
                /\ roster'[r][o].status = "active" /\ roster'[r][o].caps = Capability
  <2>1. CASE /\ Member(s)
             /\ roster' = [roster EXCEPT ![s][s] =
                              [@ EXCEPT !.status = "active", !.caps = Capability]]
    <3> DEFINE old == roster[s][s]
               row == [old EXCEPT !.status = "active", !.caps = Capability]
    <3>1. old \in Row
      BY DEF TypeOK
    <3>2. row.status = "active" /\ row.caps = Capability
      <4> HIDE DEF old
      <4> QED BY <3>1 DEF Row
    <3>3. /\ roster'[s][s] = row
          /\ r # s \/ o # s => roster'[r][o] = roster[r][o]
      BY <2>1 DEF TypeOK
    <3> HIDE DEF row
    <3> QED BY <2>1, <3>2, <3>3 DEF Member
  <2> QED BY <1>5, <2>1 DEF EnsureWorkspaceAuthority
<1>c. CASE Claimed
  BY <1>c, <1>1
<1>i. CASE Imported
  BY <1>i, <1>2
<1>v. CASE Committed
  BY <1>v, <1>3
<1>p. CASE Rostered
  BY <1>p, <1>4
<1>s. CASE Started
  BY <1>s, <1>5
<1> HIDE DEF Claimed, Imported, Committed, Rostered, Started
<1> QED BY <1>0, <1>c, <1>i, <1>v, <1>p, <1>s

(* Nobody leaves the workspace, the authority's roster never loses a row,    *)
(* and a replica joins by importing a snapshot.                              *)
LEMMA RosterStep ==
    ASSUME IInv, TypeOK', Next
    PROVE  /\ \A s \in Replica : Member(s) => Member(s)'
           /\ \A o \in Replica : roster[Authority][o].status # "absent" =>
                                   roster'[Authority][o].status # "absent"
           /\ AuthorityActive'
           /\ \/ \A s \in Replica : Member(s)' => Member(s)
              \/ \E c \in pairing :
                    /\ ImportWorkspaceSnapshot(c)
                    /\ \A s \in Replica : Member(s)' => Member(s) \/ s = c.to
           /\ CutoffWithinHistory'
<1> USE SpokesAreReplicas
<1>t. TypeOK /\ AuthorityActive /\ CutoffWithinHistory /\ SyncsOnceJoined
  BY DEF IInv, JoinedOnce
<1>a. \A c \in pairing : c.to \in Spoke /\ c.to # Authority
  BY <1>t DEF TypeOK, Claim
<1>b. \A w \in Session : Home(w) # Authority /\ (ImportReplicaRoster(w) => Member(Home(w)))
  BY <1>t DEF ImportReplicaRoster, At, SyncsOnceJoined
<1>1. ASSUME NEW s \in Replica, Member(s)
      PROVE  Member(s)'
  BY <1>1, <1>t, RosterChange DEF Member
<1>2. ASSUME NEW o \in Replica
      PROVE  /\ roster[Authority][o].status # "absent" => roster'[Authority][o].status # "absent"
             /\ roster'[Authority][o].status = "revoked" =>
                   \/ roster'[Authority][o] = roster[Authority][o]
                   \/ \E v \in revoking : /\ o = v.target
                                          /\ roster'[Authority][o].through = v.through
             /\ o = Authority => roster'[Authority][o].status = "active"
  <2>1. \A v \in revoking : v.target # Authority
    BY <1>t DEF TypeOK
  <2> QED BY <2>1, <1>t, <1>a, <1>b, RosterChange DEF AuthorityActive
<1>3. \/ \A s \in Replica : Member(s)' => Member(s)
      \/ \E c \in pairing :
            /\ ImportWorkspaceSnapshot(c)
            /\ \A s \in Replica : Member(s)' => Member(s) \/ s = c.to
  <2>1. CASE \E c \in pairing : ImportWorkspaceSnapshot(c)
    <3>1. PICK c \in pairing : ImportWorkspaceSnapshot(c)
      BY <2>1
    <3>2. \A s \in Replica : s # c.to => roster'[s] = roster[s]
      BY <3>1, <1>a, <1>t DEF ImportWorkspaceSnapshot, TypeOK
    <3> QED BY <3>1, <3>2 DEF Member
  <2>2. CASE ~\E c \in pairing : ImportWorkspaceSnapshot(c)
    <3>1. ASSUME NEW s \in Replica, Member(s)'
          PROVE  Member(s)
      BY <2>2, <3>1, <1>b, <1>t, RosterChange DEF Member
    <3> QED BY <3>1
  <2> QED BY <2>1, <2>2
<1>4. CutoffWithinHistory'
  <2> SUFFICES ASSUME NEW o \in Replica, roster'[Authority][o].status = "revoked"
               PROVE  roster'[Authority][o].through <= heads'[Authority][o].seq
    BY DEF CutoffWithinHistory
  <2>1. /\ heads[Authority][o].seq <= heads'[Authority][o].seq
        /\ heads[Authority][o].seq \in Nat /\ heads'[Authority][o].seq \in Nat
        /\ roster[Authority][o].through \in Nat
    BY <1>t, HistoryStep DEF Grown, TypeOK, SyncHead, Row
  <2>2. CASE roster'[Authority][o] = roster[Authority][o]
    BY <2>1, <2>2, <1>t DEF CutoffWithinHistory
  <2>3. ASSUME NEW v \in revoking, o = v.target, roster'[Authority][o].through = v.through
        PROVE  roster'[Authority][o].through <= heads'[Authority][o].seq
    <3>1. v.through <= heads[Authority][o].seq /\ v.through \in Nat
      BY <2>3, <1>t DEF IInv, RevokingWithinHistory, TypeOK
    <3> QED BY <2>1, <2>3, <3>1
  <2> QED BY <1>2, <2>2, <2>3
<1> QED BY <1>1, <1>2, <1>3, <1>4 DEF AuthorityActive

(* What was authentic, or named an event, stays so while histories grow.     *)
LEMMA GrowthKeeps ==
    ASSUME TypeOK, Grown
    PROVE  /\ \A S \in SUBSET Event : Authentic(S) => \A e \in S : e \in events'[e.origin]
           /\ \A o \in Replica : Held(o, o) \subseteq Held(o, o)'
BY DEF Grown, Authentic, Event, Held

(* A step of a SyncLink call leaves it as it was, starts or ends it with no
   batch and no roster, or takes it one step through the pull half: its batch
   comes from the authority's rows and its roster from the authority's roster. *)
LEMMA CallStep ==
    ASSUME TypeOK, Next, NEW w \in Session
    PROVE  \/ session'[w] = session[w]
           \/ session'[w].batch = {} /\ session'[w].rows = NoRows /\ session'[w].pc # "pulled"
           \/ /\ session'[w].pc = "events" /\ session'[w].rows = NoRows
              /\ session'[w].batch \subseteq events[Authority]
           \/ /\ session'[w].pc = "heads" /\ session'[w].batch = session[w].batch
              /\ session'[w].rows = session[w].rows
           \/ /\ session'[w].pc = "pulled" /\ session'[w].batch = session[w].batch
              /\ session'[w].rows = roster[Authority] /\ UNCHANGED roster
           \/ /\ session'[w].pc = "rostered" /\ session'[w].batch = session[w].batch
              /\ session'[w].rows = NoRows /\ ImportReplicaRoster(w)
<1> DEFINE Blank(s) == s.batch = {} /\ s.rows = NoRows /\ s.pc # "pulled"
<1>t. session[w] \in Call
  BY DEF TypeOK
<1>i. /\ Blank(Idle)
      /\ \A h : Blank([Idle EXCEPT !.pc = "pull", !.have = h])
      /\ \A n : Blank([Idle EXCEPT !.pc = "push", !.remote = n])
      /\ Blank([Idle EXCEPT !.pc = "pushing"])
  BY DEF Idle
<1> HIDE DEF Blank
<1>1. ASSUME NEW v \in Session, StartPull(v) \/ PullRefused(v) \/ ImportPulled(v) \/ ImportPulledFails(v)
                                 \/ PushStep(v)
      PROVE  session'[w] = session[w] \/ Blank(session'[w])
  <2>1. CASE w = v
    BY <1>1, <1>i, <2>1 DEF StartPull, PullRefused, ImportPulled, ImportPulledFails,
       PushStep, StartPush, NothingToPush, TypeOK
  <2>2. CASE w # v
    BY <1>1, <2>2 DEF StartPull, PullRefused, ImportPulled, ImportPulledFails,
       PushStep, StartPush, NothingToPush, TypeOK
  <2> QED BY <2>1, <2>2
<1>2. ASSUME NEW v \in Session, PullEvents(v)
      PROVE  \/ session'[w] = session[w]
             \/ /\ session'[w].pc = "events" /\ session'[w].rows = NoRows
                /\ session'[w].batch \subseteq events[Authority]
  <2> DEFINE pending == Beyond(Authority, session[v].have)
             taken(b) == [Idle EXCEPT !.pc = "events", !.batch = b, !.more = (b # pending)]
  <2>1. PICK b \in SUBSET pending : session' = [session EXCEPT ![v] = taken(b)]
    BY <1>2 DEF PullEvents
  <2>2. taken(b).batch = b /\ taken(b).rows = NoRows /\ taken(b).pc = "events"
    BY DEF Idle
  <2>3. b \subseteq events[Authority]
    BY DEF Beyond
  <2> HIDE DEF taken
  <2> QED BY <2>1, <2>2, <2>3 DEF TypeOK
<1>3. ASSUME NEW v \in Session, v # w, PullHeads(v) \/ PullReplicas(v) \/ ImportReplicaRoster(v)
      PROVE  session'[w] = session[w]
  BY <1>3 DEF PullHeads, PullReplicas, ImportReplicaRoster, TypeOK
<1>4. ASSUME PullHeads(w)
      PROVE  /\ session'[w].pc = "heads" /\ session'[w].batch = session[w].batch
             /\ session'[w].rows = session[w].rows
  BY <1>4, <1>t DEF PullHeads, TypeOK, Call
<1>5. ASSUME PullReplicas(w)
      PROVE  /\ session'[w].pc = "pulled" /\ session'[w].batch = session[w].batch
             /\ session'[w].rows = roster[Authority] /\ UNCHANGED roster
  BY <1>5, <1>t DEF PullReplicas, TypeOK, Call
<1>6. ASSUME ImportReplicaRoster(w)
      PROVE  /\ session'[w].pc = "rostered" /\ session'[w].batch = session[w].batch
             /\ session'[w].rows = NoRows
  BY <1>6, <1>t DEF ImportReplicaRoster, TypeOK, Call
<1>7. ASSUME NEW p \in pushes, ServePush(p)
      PROVE  session'[w] = session[w] \/ Blank(session'[w])
  <2>1. CASE PushAuthorize(p) \/ PushImport(p)
    BY <2>1 DEF PushAuthorize, PushImport
  <2>2. CASE PushRefused(p)
    BY <2>2, <1>i DEF PushRefused, Answer
  <2>3. CASE PushReply(p)
    BY <2>3, <1>i DEF PushReply, Answer
  <2> QED BY <1>7, <2>1, <2>2, <2>3 DEF ServePush
<1>8. ASSUME Failure
      PROVE  session'[w] = session[w] \/ Blank(session'[w])
  BY <1>8, <1>i DEF Failure, Abandon, LosePush, LoseClaim, RestartSpoke, RestartAuthority, TypeOK
<1>9. ASSUME Write \/ Admission
      PROVE  session' = session
  BY <1>9 DEF Write, AppendDomainEvent, Admission, ClaimReplicaOffer, ImportWorkspaceSnapshot,
     SaveReplicaLink, RevokeRead, RevokeCommit
<1> QED BY <1>1, <1>2, <1>3, <1>4, <1>5, <1>6, <1>7, <1>8, <1>9 DEF Next, PullStep, Blank

(* A request in flight is new, with its sender's own events, or was there
   before; on its way it only loses its caller and moves from stage to stage. *)
LEMMA PushesStep ==
    ASSUME TypeOK, Next, NEW p \in pushes'
    PROVE  \/ \E w \in Session :
                 /\ At(w, "push") /\ p.caller = w /\ p.from = Home(w)
                 /\ p.events \subseteq Unpushed(w) /\ p.stage = "sent"
           \/ \E q \in pushes :
                 /\ p.from = q.from /\ p.events = q.events
                 /\ p.caller = q.caller \/ p.caller = Nobody
                 /\ \/ p.stage = q.stage
                    \/ q.stage = "sent" /\ Authorized(q.from, "push")
                    \/ q.stage = "authorized"
<1> DEFINE Moved(q) ==
             /\ p.from = q.from /\ p.events = q.events
             /\ p.caller = q.caller \/ p.caller = Nobody
             /\ \/ p.stage = q.stage
                \/ q.stage = "sent" /\ Authorized(q.from, "push")
                \/ q.stage = "authorized"
<1>t. \A q \in pushes : q \in Push
  BY DEF TypeOK
<1>0. ASSUME p \in pushes PROVE \E q \in pushes : Moved(q)
  BY <1>0
<1>1. ASSUME NEW w \in Session, StartPush(w)
      PROVE  \/ p \in pushes
             \/ /\ At(w, "push") /\ p.caller = w /\ p.from = Home(w)
                /\ p.events \subseteq Unpushed(w) /\ p.stage = "sent"
  <2>1. PICK b \in SUBSET Unpushed(w) :
           pushes' = pushes \cup {[caller |-> w, from |-> Home(w), events |-> b, stage |-> "sent"]}
    BY <1>1 DEF StartPush
  <2> QED BY <1>1, <2>1 DEF StartPush
<1>2. ASSUME NEW q \in pushes, ServePush(q)
      PROVE  p \in pushes \/ Moved(q)
  <2>1. \A st : /\ [q EXCEPT !.stage = st].from = q.from
                /\ [q EXCEPT !.stage = st].events = q.events
                /\ [q EXCEPT !.stage = st].caller = q.caller
    BY <1>t DEF Push
  <2>2. \/ pushes' \subseteq pushes
        \/ /\ \E st : pushes' = (pushes \ {q}) \cup {[q EXCEPT !.stage = st]}
           /\ (q.stage = "sent" /\ Authorized(q.from, "push")) \/ q.stage = "authorized"
    BY <1>2 DEF ServePush, PushAuthorize, PushImport, PushRefused, PushReply
  <2> QED BY <2>1, <2>2
<1>3. ASSUME Failure
      PROVE  p \in pushes \/ \E q \in pushes : Moved(q)
  <2>1. pushes' \subseteq pushes \/ \E W : pushes' = Orphan(W)
    BY <1>3 DEF Failure, Abandon, LosePush, LoseClaim, RestartSpoke, RestartAuthority
  <2>2. ASSUME NEW W, p \in Orphan(W)
        PROVE  p \in pushes \/ \E q \in pushes : Moved(q)
    <3>1. PICK q \in pushes : p = q \/ p = [q EXCEPT !.caller = Nobody]
      BY <2>2 DEF Orphan
    <3>2. /\ [q EXCEPT !.caller = Nobody].from = q.from
          /\ [q EXCEPT !.caller = Nobody].events = q.events
          /\ [q EXCEPT !.caller = Nobody].stage = q.stage
          /\ [q EXCEPT !.caller = Nobody].caller = Nobody
      BY <1>t DEF Push
    <3> QED BY <3>1, <3>2
  <2> HIDE DEF Moved
  <2> QED BY <2>1, <2>2
<1>4. ASSUME NEW w \in Session, PullStep(w) \/ NothingToPush(w)
      PROVE  pushes' = pushes
  BY <1>4 DEF NothingToPush, PullStep, StartPull, PullEvents, PullRefused, PullHeads, PullReplicas,
     ImportReplicaRoster, ImportPulled, ImportPulledFails
<1>5. ASSUME Write \/ Admission
      PROVE  pushes' = pushes
  BY <1>5 DEF Write, AppendDomainEvent, Admission, ClaimReplicaOffer, ImportWorkspaceSnapshot,
     SaveReplicaLink, RevokeRead, RevokeCommit
<1>6. (p \in pushes) \/ (\E q \in pushes : Moved(q))
        \/ \E w \in Session : /\ At(w, "push") /\ p.caller = w /\ p.from = Home(w)
                              /\ p.events \subseteq Unpushed(w) /\ p.stage = "sent"
  <2> HIDE DEF Moved
  <2> QED BY <1>1, <1>2, <1>3, <1>4, <1>5 DEF Next, PushStep
<1> QED BY <1>0, <1>6

(* Events on the way, in a pulled batch or a push request, stay events their
   origin signed: batches are only ever taken from rows of domain_events. *)
LEMMA BatchesStep ==
    ASSUME IInv, TypeOK', Next
    PROVE  AllAuthentic'
<1>t. TypeOK /\ AllAuthentic /\ Grown /\ HistoryInv'
  BY HistoryStep DEF IInv
<1>a. \A S \in SUBSET Event : Authentic(S) => \A e \in S : e \in events'[e.origin]
  BY <1>t, GrowthKeeps
<1>b. \A r \in Replica : Authentic(events[r]) /\ events[r] \subseteq Event
  BY <1>t DEF AllAuthentic, TypeOK
<1>1. \A w \in Session : session'[w].batch \subseteq session[w].batch \cup events[Authority]
  <2> SUFFICES ASSUME NEW w \in Session
               PROVE  session'[w].batch \subseteq session[w].batch \cup events[Authority]
    OBVIOUS
  <2> QED BY <1>t, CallStep
<1>2. \A p \in pushes' : (\E q \in pushes : p.events = q.events) \/ \E r \in Replica : p.events \subseteq events[r]
  <2> SUFFICES ASSUME NEW p \in pushes'
               PROVE  (\E q \in pushes : p.events = q.events) \/ \E r \in Replica : p.events \subseteq events[r]
    OBVIOUS
  <2>1. \A w \in Session : Unpushed(w) \subseteq events[Home(w)] /\ Home(w) \in Replica
    BY SpokesAreReplicas DEF Unpushed
  <2> QED BY <1>t, <2>1, PushesStep
<1>3. \A r \in Replica : Authentic(events[r])'
  BY <1>t DEF HistoryInv
<1>4. \A w \in Session : Authentic(session[w].batch)'
  <2>1. \A w \in Session : session[w].batch \subseteq Event
    BY <1>t DEF TypeOK, Call
  <2>2. \A w \in Session : \A e \in session[w].batch \cup events[Authority] : e \in events'[e.origin]
    BY <1>t, <1>a, <1>b, <2>1, ReplicaAssumption DEF AllAuthentic
  <2> QED BY <1>1, <2>2 DEF Authentic
<1>5. \A p \in pushes' : Authentic(p.events)'
  <2>1. \A q \in pushes : q.events \in SUBSET Event /\ Authentic(q.events)
    BY <1>t DEF TypeOK, Push, AllAuthentic
  <2>2. \A p \in pushes' : \A e \in p.events : e \in events'[e.origin]
    BY <1>2, <1>a, <1>b, <2>1
  <2> QED BY <2>2 DEF Authentic
<1> QED BY <1>3, <1>4, <1>5 DEF AllAuthentic

(* Claims are only added by ClaimReplicaOffer and moved on by
   ImportWorkspaceSnapshot; every other step keeps or drops them. *)
LEMMA PairingShape ==
    ASSUME Next
    PROVE  \/ pairing' \subseteq pairing
           \/ \E r \in Spoke, caps \in Grants : ClaimReplicaOffer(r, caps)
           \/ \E c \in pairing : ImportWorkspaceSnapshot(c)
<1>1. ASSUME NEW w \in Session, PullStep(w) \/ PushStep(w)
      PROVE  pairing' = pairing
  BY <1>1 DEF PullStep, StartPull, PullEvents, PullRefused, PullHeads, PullReplicas,
     ImportReplicaRoster, ImportPulled, ImportPulledFails, PushStep, StartPush, NothingToPush
<1>2. ASSUME NEW p \in pushes, ServePush(p)
      PROVE  pairing' = pairing
  BY <1>2 DEF ServePush, PushAuthorize, PushImport, PushRefused, PushReply
<1>3. ASSUME Write \/ Failure
      PROVE  pairing' \subseteq pairing
  BY <1>3 DEF Write, AppendDomainEvent, Failure, Abandon, LosePush, LoseClaim, RestartSpoke, RestartAuthority
<1>4. ASSUME NEW c \in pairing, SaveReplicaLink(c)
      PROVE  pairing' \subseteq pairing
  BY <1>4 DEF SaveReplicaLink
<1>5. ASSUME NEW o \in Spoke, RevokeRead(o)
      PROVE  pairing' = pairing
  BY <1>5 DEF RevokeRead
<1>6. ASSUME NEW v \in revoking, RevokeCommit(v)
      PROVE  pairing' = pairing
  BY <1>6 DEF RevokeCommit
<1> QED BY <1>1, <1>2, <1>3, <1>4, <1>5, <1>6 DEF Next, Admission

(* A replica joins once: no step undoes an admission, applies a claim twice or
   lets a replica synchronize before it has the workspace. *)
LEMMA JoinedStep ==
    ASSUME IInv, TypeOK', Next
    PROVE  JoinedOnce' /\ ClaimsNameHistory'
<1> USE SpokesAreReplicas
<1>t. /\ TypeOK /\ Grown /\ AuthorityActive /\ EmptyBeforeJoin /\ MembersAdmitted
      /\ SyncsOnceJoined /\ OneClaimEach /\ ClaimsNameHistory /\ HeadsNameHistory
  BY HistoryStep DEF IInv, JoinedOnce
<1>r. /\ \A s \in Replica : Member(s) => Member(s)'
      /\ \A o \in Replica : roster[Authority][o].status # "absent" =>
                              roster'[Authority][o].status # "absent"
      /\ AuthorityActive'
  BY RosterStep
<1>c. \A c \in pairing : c \in Claim /\ c.to \in Spoke /\ c.to \in Replica
  BY <1>t DEF TypeOK, Claim
<1>n. /\ Names(heads[Authority][Authority], Authority) => TRUE
      /\ \A h, o : o \in Replica /\ Names(h, o) => Names(h, o)'
  BY <1>t, GrowthKeeps DEF Names
<1>m. Member(Authority)
  BY <1>t DEF AuthorityActive, Member
<1>1. EmptyBeforeJoin'
  <2> SUFFICES ASSUME NEW s \in Replica, ~Member(s)'
               PROVE  events'[s] = {} /\ \A o \in Replica : heads'[s][o] = NoHead
    BY DEF EmptyBeforeJoin
  <2>1. ~Member(s)
    BY <1>r
  <2>2. events[s] = {} /\ \A o \in Replica : heads[s][o] = NoHead
    BY <1>t, <2>1 DEF EmptyBeforeJoin
  <2>3. CASE UNCHANGED <<events, heads, covers>>
    BY <2>2, <2>3
  <2>4. ASSUME NEW r \in Replica, NEW id \in EventId, NEW causes \in SUBSET EventId,
             NEW loose \in Looseness, AppendDomainEvent(r, id, causes, loose)
        PROVE  events'[s] = events[s] /\ heads'[s] = heads[s]
    <3>1. r # s
      BY <2>1, <2>4 DEF AppendDomainEvent, MaySign, Member
    <3> QED BY <2>4, <3>1, <1>t DEF AppendDomainEvent, TypeOK
  <2>5. ASSUME NEW w \in Session, ImportPulled(w)
        PROVE  events'[s] = events[s] /\ heads'[s] = heads[s]
    <3>1. Home(w) # s
      BY <2>1, <2>5, <1>t DEF ImportPulled, At, SyncsOnceJoined
    <3> QED BY <2>5, <3>1, <1>t DEF ImportPulled, ImportEvents, TypeOK
  <2>6. ASSUME NEW p \in pushes, PushImport(p)
        PROVE  events'[s] = events[s] /\ heads'[s] = heads[s]
    BY <2>1, <2>6, <1>m, <1>t DEF PushImport, ImportEvents, TypeOK
  <2>7. ASSUME NEW c \in pairing, ImportWorkspaceSnapshot(c)
        PROVE  events'[s] = events[s] /\ heads'[s] = heads[s]
    <3>1. c.to # s
      <4> DEFINE own == [status |-> "active", through |-> 0, caps |-> Capability]
                 old == [roster[c.to] EXCEPT ![Authority] = c.rows[Authority], ![c.to] = own]
      <4>1. roster'[c.to] = Upsert(old, c.rows)
        BY <2>7, <1>c, <1>t DEF ImportWorkspaceSnapshot, TypeOK
      <4>2. old[c.to].status = "active"
        BY <1>c, <1>t DEF TypeOK
      <4>3. roster'[c.to][c.to].status # "absent"
        <5> HIDE DEF old
        <5> QED BY <4>1, <4>2, <1>c DEF Upsert
      <4> QED BY <4>3 DEF Member
    <3> QED BY <2>7, <3>1, <1>t DEF ImportWorkspaceSnapshot, TypeOK
  <2> QED BY <2>2, <2>3, <2>4, <2>5, <2>6, <2>7, StepShape DEF Write
<1>2. MembersAdmitted'
  <2>1. ASSUME NEW c \in pairing
        PROVE  roster[Authority][c.to].status # "absent"
    BY <1>t DEF OneClaimEach
  <2>2. \A s \in Replica : Member(s)' => roster[Authority][s].status # "absent"
    BY <2>1, <1>t, RosterStep DEF MembersAdmitted
  <2> QED BY <2>2, <1>r DEF MembersAdmitted
<1>3. SyncsOnceJoined'
  <2>1. linked \subseteq linked' /\ \A s \in linked' : s \in linked \/ \E c \in pairing : c.stage = "imported" /\ s = c.to
    <3>1. (linked' = linked) \/ \E c \in pairing : SaveReplicaLink(c)
      BY DEF Next, Write, AppendDomainEvent, Admission, ClaimReplicaOffer, ImportWorkspaceSnapshot,
         RevokeRead, RevokeCommit, PullStep, StartPull, PullEvents, PullRefused,
         PullHeads, PullReplicas, ImportReplicaRoster, ImportPulled, ImportPulledFails,
         PushStep, StartPush, NothingToPush, ServePush, PushAuthorize, PushImport, PushRefused,
         PushReply, Failure, Abandon, LosePush, LoseClaim, RestartSpoke, RestartAuthority
    <3> QED BY <3>1 DEF SaveReplicaLink
  <2>2. \A s \in linked' : Member(s)'
    <3>1. \A s \in linked : Member(s) /\ s \in Replica
      BY <1>t DEF SyncsOnceJoined, TypeOK
    <3>2. \A c \in pairing : c.stage = "imported" => Member(c.to)
      BY <1>t DEF OneClaimEach
    <3> QED BY <2>1, <3>1, <3>2, <1>c, <1>r
  <2>3. \A w \in Session : session'[w].pc # "idle" => session[w].pc # "idle" \/ Home(w) \in linked
    <3>i. Idle.pc = "idle"
      BY DEF Idle
    <3>1. ASSUME NEW v \in Session, PullStep(v)
          PROVE  \A w \in Session : session'[w].pc # "idle" => session[w].pc # "idle" \/ Home(w) \in linked
      BY <3>1, <3>i, <1>t DEF PullStep, StartPull, PullEvents, PullRefused, PullHeads, PullReplicas,
         ImportReplicaRoster, ImportPulled, ImportPulledFails, At, TypeOK
    <3>2. ASSUME NEW v \in Session, PushStep(v)
          PROVE  \A w \in Session : session'[w].pc # "idle" => session[w].pc # "idle" \/ Home(w) \in linked
      BY <3>2, <3>i, <1>t DEF PushStep, StartPush, NothingToPush, At, TypeOK
    <3>3. ASSUME NEW p \in pushes, ServePush(p)
          PROVE  \A w \in Session : session'[w].pc # "idle" => session[w].pc # "idle" \/ Home(w) \in linked
      <4>1. p.caller \in Session => Home(p.caller) \in linked
        BY <1>t DEF SyncsOnceJoined
      <4>2. \A w \in Session : w = p.caller \/ session'[w] = session[w] \/ session'[w] = Idle
        BY <3>3, <1>t DEF ServePush, PushAuthorize, PushImport, PushRefused, PushReply, Answer, TypeOK
      <4> QED BY <3>i, <4>1, <4>2
    <3>4. ASSUME Failure
          PROVE  \A w \in Session : session'[w].pc # "idle" => session[w].pc # "idle"
      BY <3>4, <3>i, <1>t DEF Failure, Abandon, LosePush, LoseClaim, RestartSpoke, RestartAuthority, TypeOK
    <3>5. ASSUME Write \/ Admission
          PROVE  session' = session
      BY <3>5 DEF Write, AppendDomainEvent, Admission, ClaimReplicaOffer, ImportWorkspaceSnapshot,
         SaveReplicaLink, RevokeRead, RevokeCommit
    <3> QED BY <3>1, <3>2, <3>3, <3>4, <3>5 DEF Next
  <2>4. \A p \in pushes' : p.caller \in Session => Home(p.caller) \in linked
    <3>1. \A w \in Session : session[w].pc = "push" => Home(w) \in linked
      BY <1>t DEF SyncsOnceJoined
    <3>2. \A q \in pushes : q.caller \in Session => Home(q.caller) \in linked
      BY <1>t DEF SyncsOnceJoined
    <3>3. ASSUME NEW p \in pushes', p.caller \in Session
          PROVE  p.caller \in Session => Home(p.caller) \in linked
      BY <3>1, <3>2, <3>3, <1>t, PushesStep, NobodyAssumption DEF At
    <3> QED BY <3>3
  <2> QED BY <2>1, <2>2, <2>3, <2>4, <1>t DEF SyncsOnceJoined
<1>4. OneClaimEach' /\ ClaimsNameHistory'
  <2>1. CASE \E c \in pairing : ImportWorkspaceSnapshot(c)
    <3>1. PICK c \in pairing : ImportWorkspaceSnapshot(c)
      BY <2>1
    <3> DEFINE d == [c EXCEPT !.stage = "imported"]
    <3>2. d.to = c.to /\ d.heads = c.heads /\ d.stage = "imported"
      BY <1>c DEF Claim
    <3>3. pairing' = (pairing \ {c}) \cup {d}
      BY <3>1 DEF ImportWorkspaceSnapshot
    <3> HIDE DEF d
    <3>4. \A b \in pairing : b # c => b.to # c.to
      BY <1>t DEF OneClaimEach
    <3>5. \A s \in Replica : s # c.to => roster'[s] = roster[s]
      BY <3>1, <1>c, <1>t DEF ImportWorkspaceSnapshot, TypeOK
    <3>6. Member(c.to)'
      <4> DEFINE own == [status |-> "active", through |-> 0, caps |-> Capability]
                 old == [roster[c.to] EXCEPT ![Authority] = c.rows[Authority], ![c.to] = own]
      <4>1. roster'[c.to] = Upsert(old, c.rows)
        BY <3>1, <1>c, <1>t DEF ImportWorkspaceSnapshot, TypeOK
      <4>2. old[c.to].status = "active"
        BY <1>c, <1>t DEF TypeOK
      <4>3. roster'[c.to][c.to].status # "absent"
        <5> HIDE DEF old
        <5> QED BY <4>1, <4>2, <1>c DEF Upsert
      <4> QED BY <4>3 DEF Member
    <3>7. \A b \in pairing : b # c => (Member(b.to)' <=> Member(b.to))
      BY <3>4, <3>5, <1>c DEF Member
    <3>8. OneClaimEach'
      BY <3>2, <3>3, <3>4, <3>6, <3>7, <1>c, <1>r, <1>t DEF OneClaimEach
    <3>9. \A b \in pairing', o \in Replica : Names(b.heads[o], o)
      BY <3>2, <3>3, <1>t DEF ClaimsNameHistory
    <3> QED BY <3>8, <3>9, <1>n DEF ClaimsNameHistory
  <2>2. CASE ~\E c \in pairing : ImportWorkspaceSnapshot(c)
    <3>1. \A s \in Replica : Member(s)' <=> Member(s)
      BY <2>2, RosterStep
    <3>2. CASE pairing' \subseteq pairing
      <4>1. OneClaimEach'
        BY <3>1, <3>2, <1>c, <1>r, <1>t DEF OneClaimEach
      <4>2. \A b \in pairing', o \in Replica : Names(b.heads[o], o)
        BY <3>2, <1>t DEF ClaimsNameHistory
      <4> QED BY <4>1, <4>2, <1>n DEF ClaimsNameHistory
    <3>3. ASSUME NEW r \in Spoke, NEW caps \in Grants, ClaimReplicaOffer(r, caps)
          PROVE  OneClaimEach' /\ ClaimsNameHistory'
      <4> DEFINE row == [status |-> "active", through |-> 0, caps |-> caps]
                 rows == [roster[Authority] EXCEPT ![r] = row]
                 d == [to |-> r, stage |-> "claimed", heads |-> heads[Authority], rows |-> rows]
      <4>1. d.to = r /\ d.stage = "claimed" /\ d.heads = heads[Authority]
        OBVIOUS
      <4>2. pairing' = pairing \cup {d} /\ roster' = [roster EXCEPT ![Authority] = rows]
            /\ roster[Authority][r].status = "absent"
        BY <3>3 DEF ClaimReplicaOffer
      <4>3. roster'[Authority][r].status # "absent"
        BY <4>2, <1>t DEF TypeOK
      <4> HIDE DEF d
      <4>4. ~Member(r) /\ \A b \in pairing : b.to # r
        BY <4>2, <1>t DEF MembersAdmitted, OneClaimEach
      <4>5. OneClaimEach'
        BY <3>1, <4>1, <4>2, <4>3, <4>4, <1>c, <1>r, <1>t DEF OneClaimEach
      <4>6. \A b \in pairing', o \in Replica : Names(b.heads[o], o)
        BY <4>1, <4>2, <1>t DEF ClaimsNameHistory, HeadsNameHistory
      <4> QED BY <4>5, <4>6, <1>n DEF ClaimsNameHistory
    <3> QED BY <2>2, <3>2, <3>3, PairingShape
  <2> QED BY <2>1, <2>2
<1> QED BY <1>r, <1>1, <1>2, <1>3, <1>4 DEF JoinedOnce

(* The sequence RevokeReplica read before the write lock stays within the
   authority's history, because heads never go back. *)
LEMMA RevokingStep ==
    ASSUME IInv, TypeOK', Next
    PROVE  RevokingWithinHistory'
<1>t. TypeOK /\ Grown /\ RevokingWithinHistory
  BY HistoryStep DEF IInv
<1> DEFINE Read == {[target |-> o, through |-> heads[Authority][o].seq] : o \in Spoke}
<1>1. revoking' \subseteq revoking \cup Read
  <2>1. ASSUME NEW o \in Spoke, RevokeRead(o)
        PROVE  revoking' \subseteq revoking \cup Read
    BY <2>1 DEF RevokeRead, Cutoff
  <2>2. ASSUME NEW w \in Session, PullStep(w) \/ PushStep(w)
        PROVE  revoking' = revoking
    BY <2>2 DEF PullStep, StartPull, PullEvents, PullRefused, PullHeads, PullReplicas,
       ImportReplicaRoster, ImportPulled, ImportPulledFails, PushStep, StartPush, NothingToPush
  <2>3. ASSUME NEW p \in pushes, ServePush(p)
        PROVE  revoking' = revoking
    BY <2>3 DEF ServePush, PushAuthorize, PushImport, PushRefused, PushReply
  <2>4. ASSUME Write \/ Failure
        PROVE  revoking' \subseteq revoking
    BY <2>4 DEF Write, AppendDomainEvent, Failure, Abandon, LosePush, LoseClaim, RestartSpoke,
       RestartAuthority
  <2>5. ASSUME NEW v \in revoking, RevokeCommit(v)
        PROVE  revoking' \subseteq revoking
    BY <2>5 DEF RevokeCommit
  <2>6. ASSUME NEW r \in Spoke, NEW caps \in Grants, ClaimReplicaOffer(r, caps)
        PROVE  revoking' = revoking
    BY <2>6 DEF ClaimReplicaOffer
  <2>7. ASSUME NEW c \in pairing, ImportWorkspaceSnapshot(c) \/ SaveReplicaLink(c)
        PROVE  revoking' = revoking
    BY <2>7 DEF ImportWorkspaceSnapshot, SaveReplicaLink
  <2>8. revoking' \subseteq revoking \/ \E o \in Spoke : RevokeRead(o)
    BY <2>2, <2>3, <2>4, <2>5, <2>6, <2>7 DEF Next, Admission
  <2> HIDE DEF Read
  <2> QED BY <2>1, <2>8
<1>2. \A v \in revoking : v.target \in Spoke /\ v.through \in Nat
                        /\ v.through <= heads[Authority][v.target].seq
  BY <1>t DEF RevokingWithinHistory, TypeOK
<1>3. \A o \in Replica : /\ heads[Authority][o].seq <= heads'[Authority][o].seq
                         /\ heads[Authority][o].seq \in Nat /\ heads'[Authority][o].seq \in Nat
  BY <1>t, NumbersOf, SpokesAreReplicas DEF Grown, TypeOK, SyncHead
<1>4. ASSUME NEW v \in revoking' PROVE v.through <= heads'[Authority][v.target].seq
  <2>1. CASE v \in revoking
    BY <2>1, <1>2, <1>3, SpokesAreReplicas
  <2>2. CASE v \in Read
    <3>1. PICK o \in Spoke : v = [target |-> o, through |-> heads[Authority][o].seq]
      BY <2>2
    <3>2. v.target = o /\ v.through = heads[Authority][o].seq
      BY <3>1
    <3> QED BY <3>2, <1>3, SpokesAreReplicas
  <2> QED BY <1>1, <2>1, <2>2
<1> QED BY <1>4 DEF RevokingWithinHistory

-----------------------------------------------------------------------------
(* The authority is where everything comes from                              *)

(* A claim on its way was there before, with the same snapshot, or carries   *)
(* the authority's heads and roster of this moment.                          *)
LEMMA ClaimsStep ==
    ASSUME TypeOK, Next, NEW c \in pairing'
    PROVE  \/ \E d \in pairing : c.to = d.to /\ c.heads = d.heads /\ c.rows = d.rows
           \/ /\ c.heads = heads[Authority]
              /\ \A o \in Replica : c.rows[o] = roster[Authority][o] \/ c.rows[o].status = "active"
<1> USE SpokesAreReplicas
<1>1. CASE pairing' \subseteq pairing
  BY <1>1
<1>2. ASSUME NEW r \in Spoke, NEW caps \in Grants, ClaimReplicaOffer(r, caps), c \notin pairing
      PROVE  /\ c.heads = heads[Authority]
             /\ \A o \in Replica : c.rows[o] = roster[Authority][o] \/ c.rows[o].status = "active"
  <2> DEFINE row == [status |-> "active", through |-> 0, caps |-> caps]
             rows == [roster[Authority] EXCEPT ![r] = row]
  <2>1. c = [to |-> r, stage |-> "claimed", heads |-> heads[Authority], rows |-> rows]
    BY <1>2 DEF ClaimReplicaOffer
  <2>2. rows[r].status = "active" /\ \A o \in Replica : o # r => rows[o] = roster[Authority][o]
    BY DEF TypeOK
  <2> HIDE DEF rows
  <2>3. c.heads = heads[Authority] /\ c.rows = rows
    BY <2>1
  <2> QED BY <2>2, <2>3
<1>3. ASSUME NEW d \in pairing, ImportWorkspaceSnapshot(d), c \notin pairing
      PROVE  c.to = d.to /\ c.heads = d.heads /\ c.rows = d.rows
  <2>1. c = [d EXCEPT !.stage = "imported"] /\ d \in Claim
    BY <1>3 DEF ImportWorkspaceSnapshot, TypeOK
  <2> QED BY <2>1 DEF Claim
<1> QED BY <1>1, <1>2, <1>3, PairingShape

(* No row of a roster disappears, and a snapshot goes into an empty roster.  *)
LEMMA RowsStay ==
    ASSUME IInv, Next, NEW r \in Replica, NEW o \in Replica,
           roster[r][o].status # "absent"
    PROVE  roster'[r][o].status # "absent"
<1>1. TypeOK /\ NoRosterBeforeJoin /\ OneClaimEach
  BY DEF IInv, HubInv, JoinedOnce
<1>2. \A c \in pairing : ImportWorkspaceSnapshot(c) /\ r = c.to => roster[r][o].status = "absent"
  BY <1>1 DEF ImportWorkspaceSnapshot, NoRosterBeforeJoin, OneClaimEach
<1> QED BY <1>1, <1>2, RosterChange

(* The authority's decisions last: a revoked row stays revoked, and a replica *)
(* that was granted the capability to push keeps it in its row.              *)
LEMMA HubRowsStay ==
    ASSUME IInv, Next, NEW o \in Replica
    PROVE  /\ roster[Authority][o].status = "revoked" => roster'[Authority][o].status = "revoked"
           /\ MayPush(o) => MayPush(o)'
<1> USE SpokesAreReplicas
<1>1. TypeOK /\ AuthorityActive
  BY DEF IInv, JoinedOnce
<1>2. /\ \A w \in Session : Authority # Home(w)
      /\ \A c \in pairing : Authority # c.to
  BY <1>1 DEF TypeOK, Claim
<1> QED BY <1>1, <1>2, RosterChange DEF AuthorityActive, MayPush, Capability

(* Batches and claims come from the authority, which keeps what it has.      *)
LEMMA HubServesStep ==
    ASSUME IInv, TypeOK', Next
    PROVE  HubServes'
<1> USE SpokesAreReplicas
<1>1. TypeOK /\ HubServes /\ Grown
  BY HistoryStep DEF IInv, HubInv
<1>2. ASSUME NEW w \in Session
      PROVE  session'[w].batch \subseteq events'[Authority]
  BY <1>1, CallStep DEF HubServes, Grown
<1>3. ASSUME NEW c \in pairing', NEW o \in Replica
      PROVE  c.heads[o].seq <= heads'[Authority][o].seq
  <2>1. /\ heads[Authority][o].seq \in Nat /\ heads'[Authority][o].seq \in Nat
        /\ heads[Authority][o].seq <= heads'[Authority][o].seq
    BY <1>1 DEF Grown, TypeOK, SyncHead
  <2>2. ASSUME NEW d \in pairing
        PROVE  d.heads[o].seq \in Nat /\ d.heads[o].seq <= heads[Authority][o].seq
    BY <1>1 DEF HubServes, TypeOK, Claim, SyncHead
  <2> QED BY <1>1, <2>1, <2>2, ClaimsStep
<1> QED BY <1>2, <1>3 DEF HubServes

(* A spoke's head of a foreign chain moves only by what it got from the
   authority: a pulled batch or a snapshot. *)
LEMMA HubAheadStep ==
    ASSUME IInv, TypeOK', Next
    PROVE  HubAhead'
<1> USE SpokesAreReplicas
<1>1. TypeOK /\ HubAhead /\ HubServes /\ HistoryComplete /\ OwnChain /\ AllAuthentic /\ Grown
  BY HistoryStep DEF IInv, HubInv
<1> SUFFICES ASSUME NEW r \in Replica, NEW o \in Replica, r # o
             PROVE  heads'[r][o].seq <= heads'[Authority][o].seq
  BY DEF HubAhead
<1>n. /\ heads[r][o].seq \in Nat /\ heads[Authority][o].seq \in Nat
      /\ heads'[r][o].seq \in Nat /\ heads'[Authority][o].seq \in Nat
      /\ heads[Authority][o].seq <= heads'[Authority][o].seq
      /\ heads[r][o].seq <= heads[Authority][o].seq
  BY <1>1 DEF TypeOK, SyncHead, Grown, HubAhead
<1>2. CASE heads'[r][o] = heads[r][o] \/ r = Authority
  BY <1>2, <1>n
<1>3. ASSUME NEW s \in Replica, NEW id \in EventId, NEW causes \in SUBSET EventId,
             NEW loose \in Looseness, AppendDomainEvent(s, id, causes, loose)
      PROVE  heads'[r][o] = heads[r][o]
  BY <1>3, <1>1 DEF AppendDomainEvent, TypeOK
<1>4. ASSUME NEW p \in pushes, PushImport(p), r # Authority
      PROVE  heads'[r][o] = heads[r][o]
  BY <1>4, <1>1 DEF PushImport, ImportEvents, TypeOK
<1>5. ASSUME NEW w \in Session, ImportPulled(w)
      PROVE  \/ heads'[r][o] = heads[r][o]
             \/ heads'[r][o].seq <= heads[Authority][o].seq
  <2> DEFINE batch == session[w].batch
  <2>1. batch \in SUBSET Event /\ batch \subseteq events[Authority] /\ Authentic(batch)
    BY <1>1 DEF TypeOK, Call, HubServes, AllAuthentic
  <2>2. CASE r # Home(w)
    BY <2>2, <1>5, <1>1 DEF ImportPulled, ImportEvents, TypeOK
  <2>3. CASE r = Home(w)
    <3>1. heads'[r][o] = HeadAfter(r, batch, o)
      BY <2>3, <1>5, <1>1 DEF ImportPulled, ImportEvents, TypeOK
    <3>2. CASE FreshFrom(r, batch, o) = {}
      BY <3>1, <3>2 DEF HeadAfter
    <3>3. CASE FreshFrom(r, batch, o) # {}
      <4>1. PICK last \in FreshFrom(r, batch, o) :
               HeadAfter(r, batch, o) = [seq |-> last.seq, hash |-> last.id]
        BY <1>1, <2>1, <3>3, HeadAfterIsLast
      <4>2. last \in Held(Authority, o)
        BY <2>1 DEF FreshFrom, Fresh, Held
      <4>3. last.seq <= heads[Authority][o].seq
        BY <4>2, <1>1 DEF HistoryComplete
      <4> QED BY <3>1, <4>1, <4>3
    <3> QED BY <3>2, <3>3
  <2> QED BY <2>2, <2>3
<1>6. ASSUME NEW c \in pairing, ImportWorkspaceSnapshot(c)
      PROVE  \/ heads'[r][o] = heads[r][o]
             \/ heads'[r][o].seq <= heads[Authority][o].seq
  <2>1. /\ r = c.to => heads'[r][o] = HeadsFromSnapshot(r, c)[o]
        /\ r # c.to => heads'[r][o] = heads[r][o]
    BY <1>6, <1>1 DEF ImportWorkspaceSnapshot, TypeOK, Claim
  <2>2. c.heads[o].seq <= heads[Authority][o].seq
    BY <1>1 DEF HubServes
  <2> QED BY <2>1, <2>2 DEF HeadsFromSnapshot
<1>7. CASE UNCHANGED <<events, heads, covers>>
  BY <1>7, <1>2
<1> QED BY <1>2, <1>3, <1>4, <1>5, <1>6, <1>7, <1>n, StepShape DEF Write

(* What the authority accepts comes from origins it has granted the          *)
(* capability: its own row for a local write, the authorization for a push.  *)
LEMMA GrantsStep ==
    ASSUME IInv, TypeOK', Next
    PROVE  PushesGranted' /\ HubOriginsGranted'
<1> USE SpokesAreReplicas
<1>1. TypeOK /\ PushesGranted /\ HubOriginsGranted
  BY DEF IInv, HubInv
<1>2. \A o \in Replica : MayPush(o) => MayPush(o)'
  BY HubRowsStay
<1>3. PushesGranted'
  <2> SUFFICES ASSUME NEW p \in pushes'
               PROVE  /\ \A e \in p.events : e.origin = p.from
                      /\ p.stage = "sent" \/ MayPush(p.from)'
    BY DEF PushesGranted
  <2>1. \A w \in Session : \A e \in Unpushed(w) : e.origin = Home(w)
    BY DEF Unpushed
  <2>2. \A q \in pushes : /\ q.from \in Replica
                          /\ \A e \in q.events : e.origin = q.from
                          /\ q.stage = "sent" \/ MayPush(q.from)
    BY <1>1 DEF PushesGranted, TypeOK, Push
  <2>3. \A q \in pushes : Authorized(q.from, "push") => MayPush(q.from)
    BY DEF Authorized, MayPush
  <2> QED BY <1>1, <1>2, <2>1, <2>2, <2>3, PushesStep
<1>4. HubOriginsGranted'
  <2> SUFFICES ASSUME NEW e \in events'[Authority]
               PROVE  MayPush(e.origin)'
    BY DEF HubOriginsGranted
  <2>0. CASE e \in events[Authority]
    BY <2>0, <1>1, <1>2 DEF HubOriginsGranted, TypeOK, Event
  <2>1. ASSUME NEW r \in Replica, NEW id \in EventId, NEW causes \in SUBSET EventId,
             NEW loose \in Looseness, AppendDomainEvent(r, id, causes, loose)
        PROVE  e \in events[Authority] \/ (e.origin = Authority /\ MayPush(Authority))
    BY <2>1, <1>1 DEF AppendDomainEvent, NextEvent, MaySign, TypeOK, MayPush
  <2>2. ASSUME NEW w \in Session, ImportPulled(w)
        PROVE  e \in events[Authority]
    BY <2>2, <1>1 DEF ImportPulled, ImportEvents, TypeOK
  <2>3. ASSUME NEW p \in pushes, PushImport(p)
        PROVE  \/ e \in events[Authority]
               \/ p.from \in Replica /\ e.origin = p.from /\ MayPush(p.from)
    <3>1. e \in events[Authority] \/ e \in p.events
      BY <2>3, <1>1 DEF PushImport, ImportEvents, TypeOK
    <3>2. p.from \in Replica
      BY <1>1 DEF TypeOK, Push
    <3> QED BY <2>3, <3>1, <3>2, <1>1 DEF PushImport, PushesGranted
  <2>4. ASSUME NEW c \in pairing, ImportWorkspaceSnapshot(c)
        PROVE  e \in events[Authority]
    BY <2>4 DEF ImportWorkspaceSnapshot
  <2> QED BY <2>0, <2>1, <2>2, <2>3, <2>4, <1>2, StepShape DEF Write
<1> QED BY <1>3, <1>4

(* Rosters follow the authority's: a pull reads them after its events, and a
   revocation shows nowhere before it is made. *)
LEMMA RostersStep ==
    ASSUME IInv, TypeOK', Next
    PROVE  /\ RowsCoverBatch' /\ PulledOriginsRostered'
           /\ NoRosterBeforeJoin' /\ RevocationsFromHub'
<1> USE SpokesAreReplicas
<1>1. /\ TypeOK /\ HubServes /\ HubOriginsGranted /\ RowsCoverBatch /\ PulledOriginsRostered
      /\ NoRosterBeforeJoin /\ RevocationsFromHub /\ AuthorityActive /\ SyncsOnceJoined
  BY DEF IInv, HubInv, JoinedOnce
<1>e. \A w \in Session : \A e \in session[w].batch :
         e.origin \in Replica /\ roster[Authority][e.origin].status # "absent"
  BY <1>1 DEF HubServes, HubOriginsGranted, MayPush, TypeOK, Event
<1>n. \A o \in Replica : NoRows[o].status = "absent"
  BY DEF NoRows, NoRow
<1>2. RowsCoverBatch'
  <2> SUFFICES ASSUME NEW w \in Session, session'[w].pc = "pulled", NEW e \in session'[w].batch
               PROVE  session'[w].rows[e.origin].status # "absent"
    BY DEF RowsCoverBatch, At
  <2> QED BY <1>1, <1>e, CallStep DEF RowsCoverBatch, At
<1>3. PulledOriginsRostered'
  <2> SUFFICES ASSUME NEW w \in Session, session'[w].pc = "rostered", NEW e \in session'[w].batch
               PROVE  roster'[Home(w)][e.origin].status # "absent"
    BY DEF PulledOriginsRostered, At
  <2>1. CASE session'[w] = session[w]
    BY <2>1, <1>1, <1>e, RowsStay DEF PulledOriginsRostered, At
  <2>2. CASE ImportReplicaRoster(w) /\ session'[w].batch = session[w].batch
    <3>1. roster'[Home(w)] = Upsert(roster[Home(w)], session[w].rows)
      BY <2>2, <1>1 DEF ImportReplicaRoster, TypeOK
    <3>2. e.origin \in Replica /\ session[w].rows[e.origin].status # "absent"
      BY <2>2, <1>1, <1>e DEF ImportReplicaRoster, RowsCoverBatch
    <3> QED BY <3>1, <3>2 DEF Upsert
  <2> QED BY <2>1, <2>2, <1>1, CallStep
<1>4. NoRosterBeforeJoin'
  <2> SUFFICES ASSUME NEW r \in Replica, NEW o \in Replica, ~Member(r)'
               PROVE  roster'[r][o].status = "absent"
    BY DEF NoRosterBeforeJoin
  <2>1. ~Member(r) /\ roster[r][o].status = "absent"
    BY <1>1, RosterStep DEF NoRosterBeforeJoin
  <2>2. r # Authority
    BY <2>1, <1>1 DEF AuthorityActive, Member
  <2>3. \A w \in Session : ImportReplicaRoster(w) => Member(Home(w))
    BY <1>1 DEF ImportReplicaRoster, At, SyncsOnceJoined
  <2> QED BY <2>1, <2>2, <2>3, <1>1, RosterChange
<1>5. RevocationsFromHub'
  <2>1. \A o \in Replica : roster[Authority][o].status = "revoked" =>
                             roster'[Authority][o].status = "revoked"
    BY HubRowsStay
  <2>2. ASSUME NEW r \in Replica, NEW o \in Replica, roster'[r][o].status = "revoked"
        PROVE  roster'[Authority][o].status = "revoked"
    <3>1. /\ \A w \in Session : session[w].rows[o].status = "revoked" =>
                                   roster'[Authority][o].status = "revoked"
          /\ \A c \in pairing : c.rows[o].status = "revoked" =>
                                   roster'[Authority][o].status = "revoked"
          /\ roster[r][o].status = "revoked" => roster'[Authority][o].status = "revoked"
      BY <2>1, <1>1 DEF RevocationsFromHub
    <3> QED BY <2>2, <3>1, <1>1, RosterChange
  <2>3. ASSUME NEW w \in Session, NEW o \in Replica, session'[w].rows[o].status = "revoked"
        PROVE  roster'[Authority][o].status = "revoked"
    BY <2>1, <2>3, <1>1, <1>n, CallStep DEF RevocationsFromHub
  <2>4. ASSUME NEW c \in pairing', NEW o \in Replica, c.rows[o].status = "revoked"
        PROVE  roster'[Authority][o].status = "revoked"
    BY <2>1, <2>4, <1>1, ClaimsStep DEF RevocationsFromHub
  <2> QED BY <2>2, <2>3, <2>4 DEF RevocationsFromHub
<1> QED BY <1>2, <1>3, <1>4, <1>5

(* Everything a spoke has or is about to get comes from the authority.       *)
LEMMA HubStep ==
    ASSUME IInv, TypeOK', Next
    PROVE  HubInv'
BY HubServesStep, HubAheadStep, GrantsStep, RostersStep DEF HubInv

-----------------------------------------------------------------------------
(* The theorems                                                              *)

(* The invariant is inductive: every step of every process keeps it. *)
LEMMA StepInv == IInv /\ [Next]_vars => IInv'
<1> SUFFICES ASSUME IInv, [Next]_vars PROVE IInv'
  OBVIOUS
<1>1. CASE Next
  <2>1. TypeOK'
    BY <1>1, TypeStep
  <2>2. HistoryInv' /\ AllAuthentic'
    BY <1>1, <2>1, HistoryStep, BatchesStep
  <2>3. JoinedOnce' /\ ClaimsNameHistory' /\ RevokingWithinHistory' /\ CutoffWithinHistory'
    BY <1>1, <2>1, JoinedStep, RevokingStep, RosterStep
  <2>4. HubInv'
    BY <1>1, <2>1, HubStep
  <2> QED BY <2>1, <2>2, <2>3, <2>4 DEF IInv, HistoryInv
<1>2. CASE UNCHANGED vars
  <2>v. UNCHANGED <<events, heads, covers, roster, linked, pairing, session, pushes, revoking, faults>>
    BY <1>2 DEF vars
  <2>i. /\ TypeOK /\ OwnChain /\ AllAuthentic /\ HeadsNameHistory /\ ClaimsNameHistory
        /\ CoversWithinHeads /\ HistoryComplete /\ JoinedOnce /\ RevokingWithinHistory
        /\ CutoffWithinHistory /\ HubInv
    BY DEF IInv
  <2>h. \A r, o \in Replica : Held(r, o)' = Held(r, o)
    BY <2>v DEF Held
  <2>1. TypeOK'
    BY <2>v, <2>i DEF TypeOK
  <2>2. OwnChain' /\ CoversWithinHeads' /\ HistoryComplete'
    BY <2>v, <2>h, <2>i DEF OwnChain, CoversWithinHeads, HistoryComplete
  <2>3. HeadsNameHistory' /\ ClaimsNameHistory'
    BY <2>v, <2>h, <2>i DEF HeadsNameHistory, ClaimsNameHistory, Names
  <2>4. AllAuthentic'
    BY <2>v, <2>i DEF AllAuthentic, Authentic
  <2>5. JoinedOnce'
    BY <2>v, <2>i DEF JoinedOnce, AuthorityActive, EmptyBeforeJoin, MembersAdmitted,
       SyncsOnceJoined, OneClaimEach, Member
  <2>6. RevokingWithinHistory' /\ CutoffWithinHistory'
    BY <2>v, <2>i DEF RevokingWithinHistory, CutoffWithinHistory
  <2>7. HubInv'
    BY <2>v, <2>i DEF HubInv, HubAhead, HubServes, PushesGranted, HubOriginsGranted, MayPush,
       RowsCoverBatch, PulledOriginsRostered, At, NoRosterBeforeJoin, Member, RevocationsFromHub
  <2> QED BY <2>1, <2>2, <2>3, <2>4, <2>5, <2>6, <2>7 DEF IInv
<1> QED BY <1>1, <1>2

(* The inductive invariant holds in every reachable state. *)
THEOREM Invariance == Spec => []IInv
BY InitInv, StepInv, PTL DEF Spec

(* Every variable keeps its type: in particular every head of an imported    *)
(* batch, a maximum over the batch, is the head of an event.                 *)
THEOREM TypeCorrect == Spec => []TypeOK
<1>1. IInv => TypeOK
  BY DEF IInv
<1> QED BY <1>1, Invariance, PTL

(* ImportEvents, AppendDomainEvent and ImportWorkspaceSnapshot together leave *)
(* no gap and no stray event at any replica, whatever is retried, lost or    *)
(* restarted.                                                                *)
THEOREM NoGaps == Spec => []HistoryComplete
<1>1. IInv => HistoryComplete
  BY DEF IInv
<1> QED BY <1>1, Invariance, PTL

(* The hash beside a head names the origin's own event of that sequence, so  *)
(* two replicas with the same head sequence agree on the whole chain.        *)
THEOREM HeadsAuthentic == Spec => []HeadsNameHistory
<1>1. IInv => HeadsNameHistory
  BY DEF IInv
<1> QED BY <1>1, Invariance, PTL

(* A revocation's cut-off never exceeds what the authority has accepted,     *)
(* although RevokeReplica reads the head before it takes the write lock.     *)
THEOREM CutoffAccepted == Spec => []CutoffWithinHistory
<1>1. IInv => CutoffWithinHistory
  BY DEF IInv
<1> QED BY <1>1, Invariance, PTL

(* A spoke is never ahead of the authority on another replica's history: it  *)
(* learns it by pulled batches and its snapshot only.                        *)
THEOREM HubIsAhead == Spec => []HubAhead
<1>1. IInv => HubAhead
  BY DEF IInv, HubInv
<1> QED BY <1>1, Invariance, PTL

(* When SyncLink imports a pulled batch it has the roster row, and so the    *)
(* public key, of every origin in it, also when a claim or a revocation came *)
(* between the server's three reads.                                         *)
THEOREM OriginsRostered == Spec => []PulledOriginsRostered
<1>1. IInv => PulledOriginsRostered
  BY DEF IInv, HubInv
<1> QED BY <1>1, Invariance, PTL

(* The authority holds events only of origins whose row grants push: the     *)
(* authorization of a push holds for every event in it, and no later step    *)
(* takes the capability out of the row.                                      *)
THEOREM GrantedOnly == Spec => []OnlyGrantedOriginsAccepted
<1>1. IInv => OnlyGrantedOriginsAccepted
  BY DEF IInv, HubInv, HubOriginsGranted, MayPush, OnlyGrantedOriginsAccepted
<1> QED BY <1>1, Invariance, PTL

(* A revocation that shows in any roster, in a reply or in a claim has been  *)
(* made at the authority, for any number of callers of SyncLink.             *)
THEOREM RevocationsMadeAtHub == Spec => []RevocationsFromHub
<1>1. IInv => RevocationsFromHub
  BY DEF IInv, HubInv
<1> QED BY <1>1, Invariance, PTL

(* With one caller nobody imports a roster while another call of the same    *)
(* No replica loses an event or moves a head back. *)
THEOREM NothingLost == Spec => NothingForgotten
<1>1. IInv /\ IInv' /\ [Next]_vars =>
        [\A r \in Replica :
            /\ events[r] \subseteq events'[r]
            /\ \A o \in Replica : heads[r][o].seq <= heads'[r][o].seq]_vars
  <2>1. IInv /\ IInv' /\ Next => Grown
    BY HistoryStep DEF IInv
  <2> QED BY <2>1 DEF Grown
<1> QED BY <1>1, Invariance, PTL DEF Spec, NothingForgotten

(* Once the authority has committed a revocation, the origin's chain there   *)
(* is closed, also for a push authenticated before: its events lie beyond    *)
(* the cut-off, which is at most the head.                                   *)
THEOREM RevokedFrozen == Spec => RevokedOriginFrozen
<1>1. IInv /\ IInv' /\ [Next]_vars =>
        [\A o \in Replica : roster[Authority][o].status = "revoked" =>
            heads'[Authority][o] = heads[Authority][o]]_vars
  <2> SUFFICES ASSUME IInv, IInv', Next, NEW o \in Replica,
                      roster[Authority][o].status = "revoked"
               PROVE  heads'[Authority][o] = heads[Authority][o]
    BY DEF vars
  <2> USE SpokesAreReplicas
  <2>t. TypeOK /\ AllAuthentic /\ AuthorityActive /\ CutoffWithinHistory
    BY DEF IInv, JoinedOnce
  <2>a. o # Authority
    BY <2>t DEF AuthorityActive
  <2>1. ASSUME NEW r \in Replica, NEW id \in EventId, NEW causes \in SUBSET EventId,
             NEW loose \in Looseness, AppendDomainEvent(r, id, causes, loose)
        PROVE  heads'[Authority][o] = heads[Authority][o]
    BY <2>1, <2>t, <2>a DEF AppendDomainEvent, TypeOK
  <2>2. ASSUME NEW w \in Session, ImportPulled(w)
        PROVE  heads'[Authority][o] = heads[Authority][o]
    BY <2>2, <2>t DEF ImportPulled, ImportEvents, TypeOK
  <2>3. ASSUME NEW p \in pushes, PushImport(p)
        PROVE  heads'[Authority][o] = heads[Authority][o]
    <3>1. p.events \in SUBSET Event
      BY <2>t DEF TypeOK, Push
    <3>2. ASSUME NEW e \in FreshFrom(Authority, p.events, o) PROVE FALSE
      <4>1. e \in p.events /\ e \in Fresh(Authority, p.events) /\ e.origin = o /\ e.seq \in Nat
        BY <3>1 DEF FreshFrom, Fresh, Event
      <4>2. e.seq <= roster[Authority][o].through
        BY <2>3, <4>1 DEF PushImport, Importable, Admits
      <4>3. e.seq > heads[Authority][o].seq
        BY <2>3, <4>1 DEF PushImport, Importable, Continues
      <4>4. roster[Authority][o].through <= heads[Authority][o].seq
        BY <2>t DEF CutoffWithinHistory
      <4>5. roster[Authority][o].through \in Nat /\ heads[Authority][o].seq \in Nat
        BY <2>t DEF TypeOK, Row, SyncHead
      <4> QED BY <4>1, <4>2, <4>3, <4>4, <4>5
    <3>3. HeadAfter(Authority, p.events, o) = heads[Authority][o]
      BY <3>2 DEF HeadAfter
    <3> QED BY <2>3, <3>3, <2>t DEF PushImport, ImportEvents, TypeOK
  <2>4. ASSUME NEW c \in pairing, ImportWorkspaceSnapshot(c)
        PROVE  heads'[Authority][o] = heads[Authority][o]
    <3>1. c.to # Authority
      BY <2>t DEF TypeOK, Claim
    <3> QED BY <2>4, <3>1, <2>t DEF ImportWorkspaceSnapshot, TypeOK
  <2> QED BY <2>1, <2>2, <2>3, <2>4, StepShape DEF Write
<1> QED BY <1>1, Invariance, PTL DEF Spec, RevokedOriginFrozen

-----------------------------------------------------------------------------
(* Refinement: Replication implements WorkspaceHistory                       *)

(* The k-th event of an origin's chain is well defined. *)
LEMMA SignedAt ==
    ASSUME TypeOK, OwnChain, NEW o \in Replica, NEW k \in 1 .. heads[o][o].seq
    PROVE  /\ (CHOOSE e \in events[o] : e.origin = o /\ e.seq = k) \in Held(o, o)
           /\ (CHOOSE e \in events[o] : e.origin = o /\ e.seq = k).seq = k
           /\ Signed(o)[k] = (CHOOSE e \in events[o] : e.origin = o /\ e.seq = k).id
           /\ Signed(o)[k] \in EventId
<1> DEFINE ev == CHOOSE e \in events[o] : e.origin = o /\ e.seq = k
<1>1. \E e \in events[o] : e.origin = o /\ e.seq = k
  BY DEF OwnChain, Held
<1>2. ev \in events[o] /\ ev.origin = o /\ ev.seq = k
  BY <1>1
<1>3. ev \in Held(o, o) /\ ev.seq = k
  BY <1>2 DEF Held
<1>4. Signed(o)[k] = ev.id
  BY DEF Signed
<1> HIDE DEF ev
<1>5. ev.id \in EventId
  BY <1>3, NumbersOf
<1> QED BY <1>3, <1>4, <1>5 DEF ev

(* The events an origin signed, in the order of their sequences, form a
   sequence as long as its own head says. *)
LEMMA SignedIsSequence ==
    ASSUME TypeOK, OwnChain, NEW o \in Replica
    PROVE  Signed(o) \in Seq(EventId) /\ Len(Signed(o)) = heads[o][o].seq
<1>1. heads[o][o].seq \in Nat
  BY NumbersOf
<1>2. \A k \in 1 .. heads[o][o].seq : Signed(o)[k] \in EventId
  BY SignedAt
<1>3. Signed(o) = [k \in 1 .. heads[o][o].seq |-> Signed(o)[k]]
  BY DEF Signed
<1> DEFINE n == heads[o][o].seq
           f == Signed(o)
<1> HIDE DEF n, f
<1> QED BY <1>1, <1>2, <1>3 DEF n, f

(* The same for all origins at once, in the form the refinement uses. *)
LEMMA SignedSequences ==
    IInv => \A o \in Replica :
               /\ Signed(o) \in Seq(EventId) /\ Len(Signed(o)) = heads[o][o].seq
               /\ Signed(o) = [k \in 1 .. heads[o][o].seq |-> Signed(o)[k]]
<1>1. \A o \in Replica : Signed(o) = [k \in 1 .. heads[o][o].seq |-> Signed(o)[k]]
  BY DEF Signed
<1> QED BY <1>1, SignedIsSequence DEF IInv

(* An origin whose own rows and head stay has the same history. *)
LEMMA SignedStill ==
    ASSUME TypeOK, OwnChain, TypeOK', OwnChain', NEW o \in Replica,
           \A e \in Held(o, o) : e \in Held(o, o)',
           heads[o][o].seq <= heads'[o][o].seq
    PROVE  \A k \in 1 .. heads[o][o].seq : Signed(o)'[k] = Signed(o)[k]
<1> SUFFICES ASSUME NEW k \in 1 .. heads[o][o].seq
             PROVE  Signed(o)'[k] = Signed(o)[k]
  OBVIOUS
<1> DEFINE old == CHOOSE e \in events[o] : e.origin = o /\ e.seq = k
           now == CHOOSE e \in events'[o] : e.origin = o /\ e.seq = k
<1>0. heads[o][o].seq \in Nat /\ heads'[o][o].seq \in Nat /\ k \in 1 .. heads'[o][o].seq
  BY DEF TypeOK, SyncHead
<1>1. old \in Held(o, o) /\ old.seq = k /\ Signed(o)[k] = old.id
  BY SignedAt
<1>2. \E e \in events'[o] : e.origin = o /\ e.seq = k
  BY <1>0 DEF OwnChain, Held
<1>3. now \in events'[o] /\ now.origin = o /\ now.seq = k
  BY <1>2
<1>4. Signed(o)'[k] = now.id
  BY <1>0 DEF Signed
<1> HIDE DEF old, now
<1>5. now \in Held(o, o)'
  BY <1>3 DEF Held
<1>6. now = old
  BY <1>1, <1>3, <1>5 DEF OwnChain
<1> QED BY <1>1, <1>4, <1>6

(* heads, seen as what is known of each history, never exceeds the history.  *)
LEMMA KnownWithinHistory ==
    TypeOK /\ OwnChain /\ HeadsNameHistory =>
        \A s, o \in Replica : heads[s][o].seq <= heads[o][o].seq
BY NumbersOf DEF HeadsNameHistory, Names, OwnChain

(* Everything but a local write is a Learn step of one replica or a stutter. *)
LEMMA OneLearns ==
    ASSUME IInv, TypeOK', Next,
           ~Write
    PROVE  \E r \in Replica : \A s \in Replica \ {r} : heads'[s] = heads[s]
<1> USE SpokesAreReplicas
<1>t. TypeOK
  BY DEF IInv
<1>1. ASSUME NEW w \in Session, ImportPulled(w)
      PROVE  \A s \in Replica \ {Home(w)} : heads'[s] = heads[s]
  BY <1>1, <1>t DEF ImportPulled, ImportEvents, TypeOK
<1>2. ASSUME NEW p \in pushes, PushImport(p)
      PROVE  \A s \in Replica \ {Authority} : heads'[s] = heads[s]
  BY <1>2, <1>t DEF PushImport, ImportEvents, TypeOK
<1>3. ASSUME NEW c \in pairing, ImportWorkspaceSnapshot(c)
      PROVE  c.to \in Replica /\ \A s \in Replica \ {c.to} : heads'[s] = heads[s]
  BY <1>3, <1>t DEF ImportWorkspaceSnapshot, TypeOK, Claim
<1>4. CASE UNCHANGED <<events, heads, covers>>
  BY <1>4
<1> QED BY <1>1, <1>2, <1>3, <1>4, StepShape

(* Each origin's history starts empty, and nobody knows anything of it. *)
LEMMA RefinesInit == Init => History!Init
<1> SUFFICES ASSUME Init PROVE History!Init
  OBVIOUS
<1>1. \A r, o \in Replica : heads[r][o].seq = 0
  BY DEF Init, NoHead
<1>2. \A o \in Replica : Signed(o) = << >>
  <2> SUFFICES ASSUME NEW o \in Replica PROVE Signed(o) = << >>
    OBVIOUS
  <2>1. TypeOK /\ OwnChain
    BY InitInv DEF IInv
  <2>2. Signed(o) \in Seq(EventId) /\ Len(Signed(o)) = 0
    BY <1>1, <2>1, SignedIsSequence
  <2> QED BY <2>2
<1> QED BY <1>1, <1>2 DEF History!Init

(* A local write publishes one event. *)
LEMMA AppendPublishes ==
    ASSUME IInv, IInv', NEW r \in Replica, NEW id \in EventId, NEW causes \in SUBSET EventId,
             NEW loose \in Looseness, AppendDomainEvent(r, id, causes, loose)
    PROVE  History!Publish(r, id)
<1>t. TypeOK /\ OwnChain /\ TypeOK' /\ OwnChain' /\ Grown
  BY AppendKeepsHistory DEF IInv, HistoryInv, AllAuthentic
<1> DEFINE n == heads[r][r].seq
           e == NextEvent(r, id, causes, loose)
<1>n. n \in Nat
  BY <1>t, NumbersOf
<1>1. /\ events' = [events EXCEPT ![r] = @ \cup {e}]
      /\ heads' = [heads EXCEPT ![r][r] = [seq |-> n + 1, hash |-> id]]
      /\ \A f \in Created : f.id # id
  BY DEF AppendDomainEvent, MaySign, NextEvent
<1>2. /\ heads'[r][r].seq = n + 1
      /\ \A s, o \in Replica : s # r \/ o # r => heads'[s][o] = heads[s][o]
  BY <1>1, <1>t DEF TypeOK
<1>3. \A o \in Replica : \A k \in 1 .. heads[o][o].seq : Signed(o)'[k] = Signed(o)[k]
  <2>1. \A o \in Replica : events[o] \subseteq events'[o] /\ heads[o][o].seq <= heads'[o][o].seq
    BY <1>t DEF Grown
  <2>2. \A o \in Replica : \A f \in Held(o, o) : f \in Held(o, o)'
    BY <2>1 DEF Held
  <2> QED BY <1>t, <2>1, <2>2, SignedStill
<1>4. Signed(r)'[n + 1] = id
  <2> DEFINE last == CHOOSE f \in events'[r] : f.origin = r /\ f.seq = n + 1
  <2>1. n + 1 \in 1 .. heads'[r][r].seq
    BY <1>2, <1>n
  <2>2. e \in events'[r] /\ e.origin = r /\ e.seq = n + 1 /\ e.id = id
    BY <1>1, <1>t DEF TypeOK, NextEvent
  <2> HIDE DEF e
  <2>3. last \in events'[r] /\ last.origin = r /\ last.seq = n + 1
    BY <2>2
  <2>4. Signed(r)'[n + 1] = last.id
    BY <2>1 DEF Signed
  <2> HIDE DEF last
  <2>5. last = e
    BY <2>2, <2>3, <1>t DEF OwnChain, Held
  <2> QED BY <2>2, <2>4, <2>5
<1>5. \A o \in Replica :
         /\ Signed(o) \in Seq(EventId) /\ Len(Signed(o)) = heads[o][o].seq
         /\ Signed(o) = [k \in 1 .. heads[o][o].seq |-> Signed(o)[k]]
         /\ Signed(o)' \in Seq(EventId) /\ Len(Signed(o)') = heads'[o][o].seq
         /\ Signed(o)' = [k \in 1 .. heads'[o][o].seq |-> Signed(o)'[k]]
  <2>1. IInv' => (\A o \in Replica :
               /\ Signed(o) \in Seq(EventId) /\ Len(Signed(o)) = heads[o][o].seq
               /\ Signed(o) = [k \in 1 .. heads[o][o].seq |-> Signed(o)[k]])'
    BY SignedSequences, PTL
  <2> QED BY <2>1, SignedSequences
<1>6. \A p \in Replica : \A k \in DOMAIN Signed(p) : Signed(p)[k] # id
  <2> SUFFICES ASSUME NEW p \in Replica, NEW k \in 1 .. heads[p][p].seq
               PROVE  Signed(p)[k] # id
    BY DEF Signed
  <2> DEFINE f == CHOOSE f \in events[p] : f.origin = p /\ f.seq = k
  <2>1. f \in Held(p, p) /\ Signed(p)[k] = f.id
    BY <1>t, SignedAt
  <2> HIDE DEF f
  <2>2. f \in Created
    BY <2>1 DEF Held, Created
  <2> QED BY <1>1, <2>1, <2>2
<1> DEFINE signed == [o \in Replica |-> Signed(o)]
           known == [s \in Replica |-> [o \in Replica |-> heads[s][o].seq]]
<1>7. [o \in Replica |-> Signed(o)'] = [signed EXCEPT ![r] = Append(@, id)]
  <2>1. Signed(r)' = Append(Signed(r), id)
    BY <1>2, <1>3, <1>4, <1>5, <1>n
  <2>2. ASSUME NEW o \in Replica, o # r PROVE Signed(o)' = Signed(o)
    <3>1. heads'[o][o] = heads[o][o]
      BY <1>2, <2>2
    <3>2. \A k \in 1 .. heads[o][o].seq : Signed(o)'[k] = Signed(o)[k]
      BY <1>3
    <3> QED BY <1>5, <3>1, <3>2
  <2> QED BY <2>1, <2>2
<1>8. [s \in Replica |-> [o \in Replica |-> heads'[s][o].seq]]
        = [known EXCEPT ![r][r] = Len(signed[r]) + 1]
  <2>1. Len(signed[r]) + 1 = n + 1
    BY <1>5
  <2>2. \A s, o \in Replica : heads'[s][o].seq = IF s = r /\ o = r THEN n + 1 ELSE heads[s][o].seq
    BY <1>2
  <2> DEFINE m == n + 1
             seqs == [s \in Replica |-> [o \in Replica |->
                        IF s = r /\ o = r THEN m ELSE heads[s][o].seq]]
  <2>3. [s \in Replica |-> [o \in Replica |-> heads'[s][o].seq]] = seqs
    BY <2>2
  <2> HIDE DEF m
  <2>4. [known EXCEPT ![r][r] = m] = seqs
    <3>1. [known[r] EXCEPT ![r] = m] = seqs[r]
      OBVIOUS
    <3>2. \A s \in Replica : s # r => known[s] = seqs[s]
      OBVIOUS
    <3>3. known = [s \in Replica |-> known[s]] /\ seqs = [s \in Replica |-> seqs[s]]
      OBVIOUS
    <3> HIDE DEF known, seqs
    <3> QED BY <3>1, <3>2, <3>3
  <2> HIDE DEF signed, seqs, known
  <2> QED BY <2>1, <2>3, <2>4 DEF m
<1> QED BY <1>6, <1>7, <1>8 DEF History!Publish

(* Any other step teaches one replica something. *)
LEMMA OtherStepsLearn ==
    ASSUME IInv, IInv', Next,
           ~Write
    PROVE  \E r \in Replica : History!Learn(r)
<1>t. TypeOK /\ OwnChain /\ TypeOK' /\ OwnChain' /\ HeadsNameHistory'
  BY DEF IInv
<1>g. Grown /\ OwnStill
  BY <1>t, HistoryStep
<1>1. PICK r \in Replica : \A s \in Replica \ {r} : heads'[s] = heads[s]
  BY <1>t, OneLearns
<1> DEFINE known == [s \in Replica |-> [o \in Replica |-> heads[s][o].seq]]
           learned == [s \in Replica |-> [o \in Replica |-> heads'[s][o].seq]]
<1>n. \A s, o \in Replica : heads[s][o].seq \in Nat /\ heads'[s][o].seq \in Nat
  BY <1>t DEF TypeOK, SyncHead
<1>2. learned \in [Replica -> [Replica -> Nat]]
  BY <1>n
<1>3. \A s \in Replica \ {r} : learned[s] = known[s]
  BY <1>1
<1>4. \A o \in Replica : Len(Signed(o)) = heads[o][o].seq
  BY SignedSequences
<1>5. \A o \in Replica : Signed(o)' = Signed(o)
  <2> SUFFICES ASSUME NEW o \in Replica PROVE Signed(o)' = Signed(o)
    OBVIOUS
  <2>1. heads'[o][o] = heads[o][o]
    BY <1>g DEF OwnStill
  <2>2. \A k \in 1 .. heads[o][o].seq : Signed(o)'[k] = Signed(o)[k]
    BY <1>t, <1>g, <1>n, <2>1, SignedStill DEF OwnStill
  <2>3. Signed(o) = [k \in 1 .. heads[o][o].seq |-> Signed(o)[k]]
    BY SignedSequences
  <2>4. Signed(o)' = [k \in 1 .. heads'[o][o].seq |-> Signed(o)'[k]]
    BY DEF Signed
  <2> QED BY <2>1, <2>2, <2>3, <2>4
<1>6. \A o \in Replica : known[r][o] <= learned[r][o]
  BY <1>g DEF Grown
<1>7. \A o \in Replica : learned[r][o] <= Len(Signed(o))
  <2>1. \A o \in Replica : heads'[r][o].seq <= heads'[o][o].seq
    <3>1. (TypeOK /\ OwnChain /\ HeadsNameHistory =>
             \A s, o \in Replica : heads[s][o].seq <= heads[o][o].seq)'
      BY KnownWithinHistory, PTL
    <3> QED BY <1>t, <3>1
  <2> QED BY <2>1, <1>4, <1>g DEF OwnStill
<1>8. [o \in Replica |-> Signed(o)'] = [o \in Replica |-> Signed(o)]
  BY <1>5
<1> HIDE DEF known, learned
<1>9. History!Learn(r)
  BY <1>2, <1>3, <1>6, <1>7, <1>8 DEF History!Learn, known, learned
<1> QED BY <1>9

(* Replication implements the abstract history: a local write publishes one  *)
(* event, an import teaches one replica a longer prefix, nothing else shows. *)
THEOREM Implementation == Spec => ImplementsHistory
<1>1. IInv /\ IInv' /\ [Next]_vars =>
        [History!Next]_<<[o \in Replica |-> Signed(o)],
                         [r \in Replica |-> [o \in Replica |-> heads[r][o].seq]]>>
  <2> SUFFICES ASSUME IInv, IInv', [Next]_vars
               PROVE  [History!Next]_<<[o \in Replica |-> Signed(o)],
                                       [r \in Replica |-> [o \in Replica |-> heads[r][o].seq]]>>
    OBVIOUS
  <2>1. CASE Write
    BY <2>1, AppendPublishes DEF History!Next, Write
  <2>2. CASE Next /\ ~Write
    BY <2>2, OtherStepsLearn DEF History!Next
  <2>3. CASE UNCHANGED vars
    BY <2>3 DEF vars, Signed
  <2> QED BY <2>1, <2>2, <2>3
<1> QED BY <1>1, RefinesInit, Invariance, PTL DEF Spec, ImplementsHistory, History!Spec
=============================================================================
