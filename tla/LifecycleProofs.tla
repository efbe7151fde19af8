-------------------------- MODULE LifecycleProofs --------------------------
(***************************************************************************)
(* Proofs about module Lifecycle, for any replicas, notes, clocks, page    *)
(* size and bound.                                                         *)
(***************************************************************************)
EXTENDS Lifecycle, Sequences, FiniteSetTheorems, WellFoundedInduction, TLAPS

(* Storing one more event in a faithful file, as ImportEvents and the local  *)
(* mutations do, gives a file faithful to the history with that event.       *)
LEMMA StoreKeepsFaithful ==
    ASSUME NEW f \in File, NEW history \in SUBSET Event, NEW e \in Event,
           Faithful(f, history), e \notin history, Valid(f, e, TRUE),
           e.replacement # e.target,
           \A n \in Note : Introduces(e, n) => \A d \in history : ~Introduces(d, n)
    PROVE  /\ Stored(Project(f, e), e) \in File
           /\ Faithful(Stored(Project(f, e), e), history \cup {e})
<1> DEFINE g == Stored(Project(f, e), e)
           more == history \cup {e}
<1> SUFFICES g \in File /\ Faithful(g, more)
  OBVIOUS
<1> HIDE DEF g
<1>1. CASE e.type = "note.recorded"
  <2>1. /\ g.notes = [f.notes EXCEPT ![e.target] = Current]
        /\ g.edges = f.edges /\ g.log = f.log \cup {e}
        /\ g.heads = [f.heads EXCEPT ![e.origin] = e.seq]
        /\ g \in File
    BY <1>1, NoneAssumption
       DEF g, Stored, Project, Introduce, UpsertNote, File, Event, NoteRow, Current
  <2>2. \A n \in Note : ~Supersedes(e, n) /\ (Introduces(e, n) <=> n = e.target)
    BY <1>1 DEF Supersedes, Introduces
  <2>3. \A d \in history : ~Introduces(d, e.target) /\ ~Supersedes(d, e.target)
    BY <2>2 DEF Faithful, TargetsIn, Event
  <2>4. \A n \in Note \ {e.target} : StatusOf(more, n) = StatusOf(history, n)
    BY <2>2 DEF StatusOf
  <2>5. StatusOf(more, e.target) = "current"
    BY <2>2, <2>3 DEF StatusOf, Event
  <2>6. e.target \in Note
    BY DEF Event
  <2>7. StatusesFrom(g, more)
    <3> SUFFICES ASSUME NEW n \in Note PROVE g.notes[n].status = StatusOf(more, n)
      BY DEF StatusesFrom
    <3>1. CASE n = e.target
      BY <3>1, <2>1, <2>5 DEF File, Current
    <3>2. CASE n # e.target
      BY <3>2, <2>1, <2>4 DEF File, Faithful, StatusesFrom
    <3> QED BY <3>1, <3>2
  <2>8. EdgesFrom(g, more)
    BY <2>1, <1>1 DEF Faithful, EdgesFrom
  <2>9. SuccessorsFrom(g)
    <3> SUFFICES ASSUME NEW n \in Note, g.notes[n].by # None
                 PROVE  /\ g.notes[n].status = "superseded"
                        /\ \E d \in g.edges : Supersedes(d, n) /\ d.replacement = g.notes[n].by
      BY DEF SuccessorsFrom
    <3>1. n # e.target
      BY <2>1 DEF File, Current
    <3>2. g.notes[n] = f.notes[n]
      BY <3>1, <2>1 DEF File
    <3> QED BY <3>2, <2>1 DEF Faithful, SuccessorsFrom
  <2>10. TargetsIn(more)
    BY <2>2 DEF Faithful, TargetsIn
  <2>11. g.log \subseteq more
    BY <2>1 DEF Faithful
  <2> QED BY <2>1, <2>7, <2>8, <2>9, <2>10, <2>11 DEF Faithful
<1>2. CASE e.type = "note.superseded"
  <2> DEFINE edges == f.edges \cup {e}
             base == [f.notes EXCEPT ![e.target] = Superseded(e.replacement)]
             rows == IF e.replacement = None THEN base
                     ELSE [base EXCEPT ![e.replacement] = Current]
             contested == TwoSuccessors(edges, e.target)
  <2>1. e.target \in Note /\ e.replacement \in Note \cup {None} /\ e.origin \in Replica
    BY DEF Event
  <2>2. rows \in [Note -> NoteRow]
    BY <2>1 DEF File, NoteRow, Superseded, Current
  <2>3. /\ g.notes = IF contested THEN [rows EXCEPT ![e.target] = Contested] ELSE rows
        /\ g.edges = edges /\ g.log = f.log \cup {e}
        /\ g.heads = [f.heads EXCEPT ![e.origin] = e.seq]
    BY <1>2, NoneAssumption
       DEF g, Stored, Project, RecordLifecycleEdge, Introduce, UpsertNote, File
  <2>4. g \in File
    <3>0. Contested \in NoteRow
      BY DEF NoteRow, Contested
    <3>1. g.notes \in [Note -> NoteRow]
      <4> HIDE DEF rows, contested
      <4> QED BY <2>1, <2>2, <2>3, <3>0
    <3>2. /\ f.heads \in [Replica -> Nat] /\ f.edges \subseteq Event /\ f.log \subseteq Event
          /\ e.seq \in Nat
      BY DEF File, Event
    <3>3. g.heads \in [Replica -> Nat] /\ g.edges \in SUBSET Event /\ g.log \in SUBSET Event
      BY <2>1, <2>3, <3>2
    <3>4. \A h \in File : h = [log |-> h.log, notes |-> h.notes, edges |-> h.edges,
                             heads |-> h.heads]
      BY DEF File
    <3>5. g = [[[f EXCEPT !.notes = rows] EXCEPT !.edges = edges, !.notes = g.notes]
                  EXCEPT !.log = g.log, !.heads = g.heads]
      BY <1>2, <2>3, NoneAssumption
         DEF g, Stored, Project, RecordLifecycleEdge, Introduce, UpsertNote, File
    <3>6. g = [log |-> g.log, notes |-> g.notes, edges |-> g.edges, heads |-> g.heads]
      <4> HIDE DEF edges, rows, contested
      <4> QED BY <2>3, <3>4, <3>5
    <3> HIDE DEF edges, rows, contested
    <3> QED BY <3>1, <3>3, <3>6 DEF File
  <2>5. /\ Supersedes(e, e.target)
        /\ \A n \in Note : Supersedes(e, n) <=> n = e.target
        /\ \A n \in Note : Introduces(e, n) <=> n = e.replacement
    BY <1>2, <2>1 DEF Supersedes, Introduces
  <2>6. \E d \in history : Introduces(d, e.target)
    <3>1. f.notes[e.target].status # "absent"
      BY <1>2 DEF Valid, Known
    <3> QED BY <3>1, <2>1 DEF Faithful, StatusesFrom, StatusOf
  <2>7. edges = {d \in more : d.type = "note.superseded"}
    BY <1>2 DEF Faithful, EdgesFrom
  <2>8. StatusOf(more, e.target) = IF contested THEN "contested" ELSE "superseded"
    <3>1. \E d \in more : Introduces(d, e.target)
      BY <2>6
    <3>2. \E d \in more : Supersedes(d, e.target)
      BY <2>5
    <3>3. contested <=> \E d1, d2 \in more : /\ Supersedes(d1, e.target) /\ Supersedes(d2, e.target)
                                             /\ d1.replacement # d2.replacement
                                             /\ None \notin {d1.replacement, d2.replacement}
      BY <2>7 DEF TwoSuccessors, Supersedes
    <3> QED BY <3>1, <3>2, <3>3 DEF StatusOf
  <2>9. e.replacement # None => StatusOf(more, e.replacement) = "current"
    <3> SUFFICES ASSUME e.replacement # None PROVE StatusOf(more, e.replacement) = "current"
      OBVIOUS
    <3>1. \A d \in history : ~Introduces(d, e.replacement) /\ ~Supersedes(d, e.replacement)
      BY <2>1, <2>5 DEF Faithful, TargetsIn
    <3>2. ~Supersedes(e, e.replacement) /\ Introduces(e, e.replacement)
      BY <2>1, <2>5
    <3> QED BY <3>1, <3>2 DEF StatusOf
  <2>10. \A n \in Note \ {e.target, e.replacement} : StatusOf(more, n) = StatusOf(history, n)
    BY <2>5 DEF StatusOf
  <2>11. /\ g.notes[e.target] = IF contested THEN Contested ELSE Superseded(e.replacement)
         /\ e.replacement # None => g.notes[e.replacement] = Current
         /\ \A n \in Note \ {e.target, e.replacement} : g.notes[n] = f.notes[n]
    BY <2>1, <2>2, <2>3 DEF File
  <2>12. StatusesFrom(g, more)
    <3> SUFFICES ASSUME NEW n \in Note PROVE g.notes[n].status = StatusOf(more, n)
      BY DEF StatusesFrom
    <3> HIDE DEF edges, rows, contested
    <3>1. CASE n = e.target
      BY <3>1, <2>8, <2>11 DEF Contested, Superseded
    <3>2. CASE n = e.replacement
      BY <3>2, <2>9, <2>11, NoneAssumption DEF Current
    <3>3. CASE n \notin {e.target, e.replacement}
      BY <3>3, <2>10, <2>11 DEF Faithful, StatusesFrom
    <3> QED BY <3>1, <3>2, <3>3
  <2>13. SuccessorsFrom(g)
    <3> SUFFICES ASSUME NEW n \in Note, g.notes[n].by # None
                 PROVE  /\ g.notes[n].status = "superseded"
                        /\ \E d \in g.edges : Supersedes(d, n) /\ d.replacement = g.notes[n].by
      BY DEF SuccessorsFrom
    <3> HIDE DEF rows, contested
    <3>1. CASE n = e.target
      BY <3>1, <2>3, <2>5, <2>11 DEF Contested, Superseded
    <3>2. n # e.replacement
      BY <2>11, NoneAssumption DEF Current
    <3>3. CASE n # e.target
      <4>1. g.notes[n] = f.notes[n]
        BY <3>2, <3>3, <2>11
      <4> QED BY <4>1, <2>3 DEF Faithful, SuccessorsFrom
    <3> QED BY <3>1, <3>3
  <2>14. TargetsIn(more)
    BY <2>5, <2>6 DEF Faithful, TargetsIn
  <2>15. g.log \subseteq more
    BY <2>3 DEF Faithful
  <2>16. EdgesFrom(g, more)
    BY <2>3, <2>7 DEF EdgesFrom
  <2> HIDE DEF edges, rows, contested, more
  <2> QED BY <2>4, <2>12, <2>13, <2>14, <2>15, <2>16 DEF Faithful
<1> QED BY <1>1, <1>2 DEF Event
(* What storing an event does to the log and the heads.                      *)
LEMMA StoredShape ==
    ASSUME NEW f \in File, NEW e \in Event
    PROVE  /\ Stored(Project(f, e), e).log = f.log \cup {e}
           /\ Stored(Project(f, e), e).heads = [f.heads EXCEPT ![e.origin] = e.seq]
<1>1. CASE e.type = "note.recorded"
  BY <1>1 DEF Stored, Project, File
<1>2. CASE e.type # "note.recorded"
  BY <1>2 DEF Stored, Project, RecordLifecycleEdge, File
<1> QED BY <1>1, <1>2

(* Initially nothing has been written anywhere.                              *)
LEMMA InitInv == Init => LifecycleInv
<1> SUFFICES ASSUME Init PROVE LifecycleInv
  OBVIOUS
<1>1. NoFile \in File
  BY DEF NoFile, File, NoteRow, Absent
<1>2. \A r \in Replica : file[r] = NoFile /\ tx[r] = NoTx /\ reply[r] = NoPage
  BY DEF Init
<1>3. Created = {}
  BY <1>2 DEF Created, NoFile
<1>4. TypeOK
  <2>1. DOMAIN NoPage = {}
    BY DEF NoPage
  <2>2. tx = [r \in Replica |-> [open |-> tx[r].open, page |-> tx[r].page, file |-> tx[r].file]]
    BY DEF Init, NoTx
  <2> QED BY <1>1, <1>2, <2>1, <2>2, AuthorityAssumption DEF Init, TypeOK, NoTx
<1>5. \A h : History(h) = {}
  BY <1>3 DEF History
<1>6. \A r \in Replica : Faithful(file[r], History(file[r])) /\ Bounded(file[r])
  <2> SUFFICES ASSUME NEW r \in Replica
               PROVE  Faithful(file[r], History(file[r])) /\ Bounded(file[r])
    OBVIOUS
  <2>1. Bounded(file[r])
    BY <1>2 DEF Bounded, NoFile
  <2>2. EdgesFrom(file[r], {}) /\ SuccessorsFrom(file[r]) /\ TargetsIn({})
    BY <1>2 DEF EdgesFrom, SuccessorsFrom, TargetsIn, NoFile, Absent
  <2>3. StatusesFrom(file[r], {})
    BY <1>2 DEF StatusesFrom, StatusOf, NoFile, Absent
  <2> QED BY <1>2, <1>5, <2>1, <2>2, <2>3 DEF Faithful, NoFile
<1>7. InFlight /\ Outside /\ OwnChains /\ Births
  BY <1>2, <1>3 DEF InFlight, Outside, OwnChains, Births, NoTx, NoPage
<1> QED BY <1>2, <1>4, <1>6, <1>7 DEF LifecycleInv, NoTx

(* An event of a chain that a file has not reached is not in its history,    *)
(* and the history grows by it when the head moves to it.                    *)
LEMMA NextOfChain ==
    ASSUME TypeOK, OwnChains, NEW f \in File, NEW e \in Created,
           e.seq = f.heads[e.origin] + 1,
           NEW g \in File, g.heads = [f.heads EXCEPT ![e.origin] = e.seq]
    PROVE  e \notin History(f) /\ History(g) = History(f) \cup {e}
<1>1. Created \subseteq Event
  BY DEF Created, TypeOK, File
<1>2. e \in Event /\ e.origin \in Replica /\ e.seq \in Nat
  BY <1>1 DEF Event
<1>3. \A d \in Created : d.origin \in Replica /\ d.seq \in Nat
  BY <1>1 DEF Event
<1>4. \A o \in Replica : f.heads[o] \in Nat
  BY DEF File
<1>5. e \notin History(f)
  BY <1>2, <1>4 DEF History, Covered
<1>6. \A d \in Created : d.origin = e.origin /\ d.seq = e.seq => d = e
  BY DEF OwnChains, NameOf
<1>7. ASSUME NEW d \in Created
      PROVE  Covered(g, d) <=> Covered(f, d) \/ d = e
  <2>1. CASE d.origin # e.origin
    BY <2>1, <1>2, <1>3 DEF Covered, File
  <2>2. CASE d.origin = e.origin
    <3>1. g.heads[d.origin] = e.seq
      BY <2>2, <1>2 DEF File
    <3> QED BY <2>2, <3>1, <1>2, <1>3, <1>4, <1>6 DEF Covered
  <2> QED BY <2>1, <2>2
<1> QED BY <1>5, <1>7 DEF History
(* A local mutation, whatever note it is about.                              *)
LEMMA AppendInv ==
    ASSUME LifecycleInv, NEW r \in Replica, NEW e \in Event, AppendEvent(r, e),
           e.origin = r, e.seq = file[r].heads[r] + 1, Valid(file[r], e, TRUE),
           e.replacement # e.target,
           \A n \in Note : Introduces(e, n) => \A d \in Created : ~Introduces(d, n)
    PROVE  LifecycleInv'
<1> DEFINE g == Stored(Project(file[r], e), e)
<1>1. /\ file[r] \in File /\ file \in [Replica -> File]
      /\ r \in joined /\ ~tx[r].open
      /\ tx' = tx /\ reply' = reply /\ joined' = joined
      /\ file' = [file EXCEPT ![r] = g]
  BY DEF LifecycleInv, TypeOK, AppendEvent, MayWrite
<1>2. /\ g.log = file[r].log \cup {e}
      /\ g.heads = [file[r].heads EXCEPT ![r] = e.seq]
  BY <1>1, StoredShape
<1> HIDE DEF g
<1>3. Created' = Created \cup {e}
  BY <1>1, <1>2 DEF Created
<1>4. Created \subseteq Event
  BY DEF Created, LifecycleInv, TypeOK, File
<1>5. \A o, p \in Replica : file[o].heads[p] \in Nat
  BY <1>1 DEF File
<1>6. e \notin Created
  BY <1>5 DEF LifecycleInv, OwnChains
<1>7. /\ g \in File
      /\ Faithful(g, History(file[r]) \cup {e})
  <2>1. History(file[r]) \subseteq Event /\ History(file[r]) \subseteq Created
    BY <1>4 DEF History
  <2> QED BY <1>1, <1>6, <2>1, StoreKeepsFaithful DEF g, LifecycleInv
<1>8. file' \in [Replica -> File]
  BY <1>1, <1>7
<1>9. /\ file'[r] = g /\ \A o \in Replica \ {r} : file'[o] = file[o]
      /\ \A o \in Replica : file'[o].heads[o] = IF o = r THEN e.seq ELSE file[o].heads[o]
  BY <1>1, <1>2 DEF File
<1>10. \A o \in Replica : file[o].heads[o] <= file'[o].heads[o]
  BY <1>5, <1>9
<1>11. ASSUME NEW h \in File, Bounded(h)
       PROVE  {d \in Created' : Covered(h, d)} = History(h) /\ (\A o \in Replica : h.heads[o] <= file'[o].heads[o])
  <2> \A o \in Replica : h.heads[o] \in Nat /\ h.heads[o] <= file[o].heads[o]
    BY <1>11 DEF Bounded, File
  <2>1. ~Covered(h, e)
    BY <1>5 DEF Covered
  <2>2. \A o \in Replica : h.heads[o] <= file'[o].heads[o]
    <3> SUFFICES ASSUME NEW o \in Replica PROVE h.heads[o] <= file'[o].heads[o]
      OBVIOUS
    <3>1. file'[o].heads[o] = IF o = r THEN file[r].heads[r] + 1 ELSE file[o].heads[o]
      BY <1>9
    <3> QED BY <3>1, <1>5
  <2> QED BY <1>3, <2>1, <2>2 DEF History
<1>12. TypeOK'
  BY <1>1, <1>8 DEF LifecycleInv, TypeOK
<1>13. OwnChains'
  <2>1. \A d \in Created : d.origin \in Replica /\ d.seq \in Nat
    BY <1>4 DEF Event
  <2>2. ASSUME NEW d \in Created' PROVE d.seq <= file'[d.origin].heads[d.origin]
    <3>1. CASE d = e
      BY <3>1, <1>9 DEF Event
    <3>2. CASE d \in Created
      BY <3>2, <2>1, <1>5, <1>9, <1>10 DEF LifecycleInv, OwnChains
    <3> QED BY <3>1, <3>2, <1>3
  <2>3. \A d \in Created : NameOf(d) # NameOf(e)
    <3> SUFFICES ASSUME NEW d \in Created, d.origin = r, d.seq = e.seq PROVE FALSE
      BY DEF NameOf
    <3>1. d.seq <= file[r].heads[r]
      BY DEF LifecycleInv, OwnChains
    <3> QED BY <3>1, <2>1, <1>5
  <2>4. \A c, d \in Created' : NameOf(c) = NameOf(d) => c = d
    BY <2>3, <1>3 DEF LifecycleInv, OwnChains
  <2> QED BY <2>2, <2>4 DEF OwnChains
<1>14. Births'
  BY <1>3 DEF LifecycleInv, Births
<1>15. InFlight'
  BY <1>1, <1>3, <1>9 DEF LifecycleInv, InFlight
<1>16. Outside'
  BY <1>1, <1>9 DEF LifecycleInv, Outside
<1>17. ASSUME NEW o \in Replica
       PROVE  Faithful(file[o], History(file[o]))' /\ Bounded(file[o])'
  <2>1. CASE o = r
    <3>1. {d \in Created' : Covered(g, d)} = History(file[r]) \cup {e}
      <4>1. ASSUME NEW d \in Created PROVE Covered(g, d) <=> Covered(file[r], d)
        <5>1. d.origin \in Replica /\ d.seq \in Nat
          BY <1>4 DEF Event
        <5>2. CASE d.origin # r
          BY <5>1, <5>2, <1>1, <1>2 DEF Covered, File
        <5>3. CASE d.origin = r
          <6>1. d.seq <= file[r].heads[r]
            BY <5>3 DEF LifecycleInv, OwnChains
          <6>2. g.heads[r] = file[r].heads[r] + 1
            BY <1>1, <1>2 DEF File
          <6> QED BY <5>1, <5>3, <6>1, <6>2, <1>5 DEF Covered
        <5> QED BY <5>2, <5>3
      <4>2. Covered(g, e)
        BY <1>1, <1>2 DEF Covered, File, Event
      <4> QED BY <4>1, <4>2, <1>3 DEF History
    <3>2. \A p \in Replica : g.heads[p] <= file'[p].heads[p]
      BY <1>1, <1>2, <1>5, <1>9 DEF LifecycleInv, Bounded, File
    <3>3. History(file[o])' = History(file[r]) \cup {e}
      BY <2>1, <3>1, <1>9 DEF History, Covered
    <3> QED BY <2>1, <3>2, <3>3, <1>7, <1>9
            DEF Faithful, EdgesFrom, StatusesFrom, SuccessorsFrom, TargetsIn, Bounded
  <2>2. CASE o # r
    <3>1. History(file[o])' = History(file[o])
      <4>1. file[o] \in File /\ Bounded(file[o])
        BY DEF LifecycleInv, TypeOK
      <4>2. {d \in Created' : Covered(file[o], d)} = History(file[o])
        BY <4>1, <1>11
      <4> QED BY <4>2, <2>2, <1>9 DEF History, Covered
    <3>2. Bounded(file[o])'
      BY <2>2, <1>1, <1>9, <1>11 DEF LifecycleInv, Bounded
    <3> QED BY <2>2, <3>1, <3>2, <1>9
            DEF LifecycleInv, Faithful, EdgesFrom, StatusesFrom, SuccessorsFrom, TargetsIn
  <2> QED BY <2>1, <2>2
<1>18. ASSUME NEW o \in Replica, tx'[o].open
       PROVE  Faithful(tx[o].file, History(tx[o].file))' /\ Bounded(tx[o].file)'
  <2>1. tx[o].file \in File /\ Bounded(tx[o].file) /\ Faithful(tx[o].file, History(tx[o].file))
    BY <1>1, <1>18 DEF LifecycleInv, TypeOK
  <2>2. History(tx[o].file)' = History(tx[o].file)
    BY <2>1, <1>1, <1>11 DEF History, Covered
  <2> QED BY <2>1, <2>2, <1>1, <1>11
          DEF Faithful, EdgesFrom, StatusesFrom, SuccessorsFrom, TargetsIn, Bounded
<1> QED BY <1>12, <1>13, <1>14, <1>15, <1>16, <1>17, <1>18 DEF LifecycleInv
(* A step that leaves the committed files alone keeps what is said of them.  *)
LEMMA SameFiles ==
    ASSUME LifecycleInv, file' = file
    PROVE  /\ Created' = Created
           /\ OwnChains' /\ Births'
           /\ \A r \in Replica : Faithful(file[r], History(file[r]))' /\ Bounded(file[r])'
<1>1. Created' = Created
  BY DEF Created
<1>2. \A r \in Replica : History(file[r])' = History(file[r])
  BY <1>1 DEF History, Covered
<1> QED
  BY <1>1, <1>2 DEF LifecycleInv, OwnChains, Births, Faithful, EdgesFrom, StatusesFrom,
                    SuccessorsFrom, TargetsIn, Bounded

(* The loop of ImportEvents stores one more event in its transaction.        *)
LEMMA ImportEventInv ==
    ASSUME LifecycleInv, NEW r \in Replica, NEW e, ImportEvent(r, e)
    PROVE  LifecycleInv'
<1> DEFINE f == tx[r].file
           g == Stored(Project(f, e), e)
<1>1. /\ e \in Created /\ e \in Event /\ f \in File
      /\ tx[r].open /\ e.seq = f.heads[e.origin] + 1 /\ Valid(f, e, TRUE)
      /\ Faithful(f, History(f)) /\ Bounded(f)
      /\ DOMAIN tx[r].page \subseteq Event /\ DOMAIN tx[r].page \subseteq Created
  <2>1. e.seq = f.heads[e.origin] + 1 /\ Valid(f, e, TRUE)
    BY DEF ImportEvent, Accepts, Valid
  <2> QED BY <2>1 DEF ImportEvent, Reached, LifecycleInv, TypeOK, InFlight
<1>2. /\ g.log = f.log \cup {e}
      /\ g.heads = [f.heads EXCEPT ![e.origin] = e.seq]
  BY <1>1, StoredShape
<1>3. /\ file' = file /\ reply' = reply /\ joined' = joined
      /\ tx' = [tx EXCEPT ![r].page = Without(@, e), ![r].file = g]
  BY DEF ImportEvent
<1> HIDE DEF g, f
<1>4. /\ Created \subseteq Event
      /\ \A o, p \in Replica : file[o].heads[p] \in Nat
  <2>1. file \in [Replica -> File]
    BY DEF LifecycleInv, TypeOK
  <2> QED BY <2>1 DEF Created, File
<1>5. e \notin History(f)
  BY <1>1, <1>4 DEF History, Covered, File, Event
<1>6. g \in File /\ Faithful(g, History(f) \cup {e})
  <2>1. History(f) \subseteq Event /\ History(f) \subseteq Created
    BY <1>4 DEF History
  <2>2. /\ e.replacement # e.target
        /\ \A n \in Note : Introduces(e, n) => \A d \in History(f) : ~Introduces(d, n)
    BY <1>1, <1>5, <2>1 DEF LifecycleInv, Births
  <2> QED BY <1>1, <1>5, <2>1, <2>2, StoreKeepsFaithful DEF g
<1>7. History(g) = History(f) \cup {e}
  BY <1>1, <1>2, <1>6, NextOfChain DEF LifecycleInv
<1>8. Bounded(g)
  <2>1. e.seq <= file[e.origin].heads[e.origin]
    BY <1>1 DEF LifecycleInv, OwnChains
  <2> QED BY <1>1, <1>2, <2>1 DEF Bounded, File
<1>9. /\ tx'[r].open /\ tx'[r].file = g
      /\ DOMAIN tx'[r].page \subseteq DOMAIN tx[r].page
      /\ \A o \in Replica \ {r} : tx'[o] = tx[o]
  <2>1. /\ DOMAIN tx = Replica
        /\ tx[r] = [open |-> tx[r].open, page |-> tx[r].page, file |-> tx[r].file]
    BY DEF LifecycleInv, TypeOK
  <2>2. tx'[r] = [open |-> tx[r].open, page |-> Without(tx[r].page, e), file |-> g]
    BY <1>3, <2>1
  <2>3. DOMAIN Without(tx[r].page, e) \subseteq DOMAIN tx[r].page
    BY DEF Without
  <2>4. \A o \in Replica \ {r} : tx'[o] = tx[o]
    BY <1>3, <2>1
  <2> QED BY <1>1, <2>2, <2>3, <2>4
<1>10. tx' = [o \in Replica |-> [open |-> tx'[o].open, page |-> tx'[o].page, file |-> tx'[o].file]]
  <2>1. /\ DOMAIN tx = Replica
        /\ \A o \in Replica : tx[o] = [open |-> tx[o].open, page |-> tx[o].page, file |-> tx[o].file]
    BY DEF LifecycleInv, TypeOK
  <2>2. \A o \in Replica : tx'[o] = [open |-> tx'[o].open, page |-> tx'[o].page, file |-> tx'[o].file]
    BY <1>3, <2>1
  <2> QED BY <1>3, <2>1, <2>2
<1>11. TypeOK'
  BY <1>1, <1>3, <1>6, <1>9, <1>10 DEF LifecycleInv, TypeOK
<1>12. Created' = Created /\ OwnChains' /\ Births'
       /\ \A o \in Replica : Faithful(file[o], History(file[o]))' /\ Bounded(file[o])'
  BY <1>3, SameFiles
<1>13. InFlight'
  <2>1. \A o \in Replica : f.heads[o] <= g.heads[o]
    BY <1>1, <1>2 DEF File, Event
  <2>2. \A o \in Replica : file[r].heads[o] <= g.heads[o]
    <3> SUFFICES ASSUME NEW o \in Replica PROVE file[r].heads[o] <= g.heads[o]
      OBVIOUS
    <3>1. file[r].heads[o] <= f.heads[o]
      BY <1>1 DEF LifecycleInv, InFlight, f
    <3>2. f.heads[o] \in Nat /\ g.heads[o] \in Nat
      BY <1>1, <1>6 DEF File
    <3> QED BY <2>1, <3>1, <3>2, <1>4
  <2>3. file[r].log \subseteq g.log
    BY <1>1, <1>2 DEF LifecycleInv, InFlight, f
  <2> QED BY <1>1, <1>3, <1>9, <1>12, <2>2, <2>3 DEF LifecycleInv, InFlight
<1>14. Outside'
  BY <1>1, <1>3, <1>9 DEF LifecycleInv, Outside
<1>15. ASSUME NEW o \in Replica, tx'[o].open
       PROVE  Faithful(tx[o].file, History(tx[o].file))' /\ Bounded(tx[o].file)'
  <2>1. Faithful(g, History(g)) /\ Bounded(g)
    BY <1>6, <1>7, <1>8
  <2>2. o # r => Faithful(tx[o].file, History(tx[o].file)) /\ Bounded(tx[o].file)
    BY <1>9, <1>15 DEF LifecycleInv
  <2>3. PICK h : tx'[o].file = h /\ Faithful(h, History(h)) /\ Bounded(h)
    BY <2>1, <2>2, <1>9
  <2>4. History(tx[o].file)' = History(h)
    BY <2>3, <1>12 DEF History, Covered
  <2> QED BY <2>3, <2>4, <1>3
          DEF Faithful, EdgesFrom, StatusesFrom, SuccessorsFrom, TargetsIn, Bounded
<1> QED BY <1>11, <1>12, <1>13, <1>14, <1>15 DEF LifecycleInv

(* Steps that change no table: pages arrive, get lost, are opened for        *)
(* import, or an event that exists is skipped, or a transaction is undone.   *)
LEMMA QuietInv ==
    ASSUME LifecycleInv, file' = file, joined' = joined, TypeOK',
           \A r \in Replica :
               /\ DOMAIN reply'[r] \subseteq Created
               /\ DOMAIN tx'[r].page \subseteq Created
               /\ tx'[r].open => /\ r \in joined
                                 /\ tx'[r].file = file[r] \/ (tx[r].open /\ tx'[r].file = tx[r].file)
    PROVE  LifecycleInv'
<1>1. Created' = Created /\ OwnChains' /\ Births'
      /\ \A o \in Replica : Faithful(file[o], History(file[o]))' /\ Bounded(file[o])'
  BY SameFiles
<1>2. \A o, p \in Replica : file[o].heads[p] \in Nat
  BY DEF LifecycleInv, TypeOK, File
<1>3. InFlight'
  BY <1>1, <1>2 DEF LifecycleInv, InFlight
<1>4. Outside'
  BY DEF LifecycleInv, Outside
<1>5. ASSUME NEW o \in Replica, tx'[o].open
      PROVE  Faithful(tx[o].file, History(tx[o].file))' /\ Bounded(tx[o].file)'
  <2>1. PICK f : /\ tx'[o].file = f
                 /\ Faithful(f, History(f)) /\ Bounded(f)
    BY <1>5 DEF LifecycleInv
  <2>2. History(tx[o].file)' = History(f)
    BY <2>1, <1>1 DEF History, Covered
  <2> QED BY <2>1, <2>2 DEF Faithful, EdgesFrom, StatusesFrom, SuccessorsFrom, TargetsIn, Bounded
<1> QED BY <1>1, <1>3, <1>4, <1>5 DEF LifecycleInv
(* A replica's file is replaced by another that is faithful and follows no   *)
(* chain further than its origin: what joining and committing do.            *)
LEMMA ReplaceInv ==
    ASSUME LifecycleInv, NEW r \in Replica, NEW f \in File,
           file' = [file EXCEPT ![r] = f], reply' = reply, TypeOK',
           Created' = Created, joined' \subseteq joined \cup {r}, joined \subseteq joined', r \in joined',
           Faithful(f, History(f)), Bounded(f), f.heads[r] = file[r].heads[r],
           ~tx'[r].open, DOMAIN tx'[r].page \subseteq Created,
           \A o \in Replica \ {r} : tx'[o] = tx[o]
    PROVE  LifecycleInv'
<1>1. /\ file'[r] = f /\ \A o \in Replica \ {r} : file'[o] = file[o]
      /\ \A o \in Replica : file'[o].heads[o] = file[o].heads[o]
  BY DEF LifecycleInv, TypeOK
<1>2. \A d \in Created : d.origin \in Replica
  <2>1. file \in [Replica -> File]
    BY DEF LifecycleInv, TypeOK
  <2> QED BY <2>1 DEF Created, File, Event
<1>3. OwnChains' /\ Births'
  BY <1>1, <1>2 DEF LifecycleInv, OwnChains, Births
<1>4. InFlight'
  <2>1. \A o \in Replica : tx'[o].open => o # r
    OBVIOUS
  <2> QED BY <1>1, <2>1 DEF LifecycleInv, InFlight
<1>5. Outside'
  BY <1>1 DEF LifecycleInv, Outside
<1>6. ASSUME NEW o \in Replica
      PROVE  Faithful(file[o], History(file[o]))' /\ Bounded(file[o])'
  <2>1. PICK h : file'[o] = h /\ Faithful(h, History(h)) /\ Bounded(h)
    BY <1>1 DEF LifecycleInv
  <2>2. History(file[o])' = History(h)
    BY <2>1 DEF History, Covered
  <2> QED BY <2>1, <2>2, <1>1
          DEF Faithful, EdgesFrom, StatusesFrom, SuccessorsFrom, TargetsIn, Bounded
<1>7. ASSUME NEW o \in Replica, tx'[o].open
      PROVE  Faithful(tx[o].file, History(tx[o].file))' /\ Bounded(tx[o].file)'
  <2>1. PICK h : tx'[o].file = h /\ Faithful(h, History(h)) /\ Bounded(h)
    BY <1>7 DEF LifecycleInv
  <2>2. History(tx[o].file)' = History(h)
    BY <2>1 DEF History, Covered
  <2> QED BY <2>1, <2>2, <1>1
          DEF Faithful, EdgesFrom, StatusesFrom, SuccessorsFrom, TargetsIn, Bounded
<1> QED BY <1>3, <1>4, <1>5, <1>6, <1>7 DEF LifecycleInv

(* A snapshot is the authority's file without its log.                       *)
LEMMA JoinInv ==
    ASSUME LifecycleInv, NEW s \in Replica, Join(s)
    PROVE  LifecycleInv'
<1> DEFINE f == [file[Authority] EXCEPT !.log = {}]
<1>1. /\ s \notin joined /\ joined' = joined \cup {s} /\ tx' = tx /\ reply' = reply
      /\ file' = [file EXCEPT ![s] = f]
      /\ file[s] = NoFile /\ ~tx[s].open
      /\ file \in [Replica -> File] /\ file[Authority] \in File
  BY AuthorityAssumption DEF Join, LifecycleInv, TypeOK, Outside
<1>2. f \in File /\ f.heads = file[Authority].heads /\ f.notes = file[Authority].notes
      /\ f.edges = file[Authority].edges /\ f.log = {}
  BY <1>1 DEF File
<1> HIDE DEF f
<1>3. Created' = Created
  BY <1>1, <1>2 DEF Created, NoFile
<1>4. Faithful(f, History(f)) /\ Bounded(f)
  <2>1. History(f) = History(file[Authority])
    BY <1>2 DEF History, Covered
  <2>2. Faithful(file[Authority], History(file[Authority])) /\ Bounded(file[Authority])
    BY AuthorityAssumption DEF LifecycleInv
  <2> QED BY <1>2, <2>1, <2>2 DEF Faithful, EdgesFrom, StatusesFrom, SuccessorsFrom, Bounded
<1>5. f.heads[s] = file[s].heads[s]
  <2>1. f.heads[s] \in Nat /\ f.heads[s] <= 0 /\ file[s].heads[s] = 0
    BY <1>1, <1>2, <1>4 DEF Bounded, NoFile, File
  <2> QED BY <2>1
<1>6. TypeOK'
  BY <1>1, <1>2 DEF LifecycleInv, TypeOK
<1>7. DOMAIN tx'[s].page \subseteq Created
  BY <1>1 DEF LifecycleInv, InFlight
<1> QED BY <1>1, <1>2, <1>3, <1>4, <1>5, <1>6, <1>7, ReplaceInv

(* A transaction that has come to the end of its page becomes the file.      *)
LEMMA CommitInv ==
    ASSUME LifecycleInv, NEW r \in Replica, Commit(r)
    PROVE  LifecycleInv'
<1> DEFINE f == tx[r].file
<1>1. /\ tx[r].open /\ file' = [file EXCEPT ![r] = f] /\ tx' = [tx EXCEPT ![r] = NoTx]
      /\ reply' = reply /\ joined' = joined /\ r \in joined
      /\ f \in File /\ Faithful(f, History(f)) /\ Bounded(f)
      /\ file \in [Replica -> File] /\ DOMAIN tx = Replica
      /\ file[r].log \subseteq f.log
      /\ \A o \in Replica : file[r].heads[o] <= f.heads[o]
  BY DEF Commit, LifecycleInv, TypeOK, Outside, InFlight
<1> HIDE DEF f
<1>2. f.heads[r] = file[r].heads[r]
  <2>1. f.heads[r] <= file[r].heads[r] /\ file[r].heads[r] <= f.heads[r]
        /\ f.heads[r] \in Nat /\ file[r].heads[r] \in Nat
    BY <1>1 DEF Bounded, File
  <2> QED BY <2>1
<1>3. f.log \subseteq Created
  BY <1>1 DEF Faithful, History
<1>4. Created' = Created
  BY <1>1, <1>3 DEF Created
<1>5. /\ tx'[r] = NoTx /\ \A o \in Replica \ {r} : tx'[o] = tx[o]
  BY <1>1
<1>6. NoFile \in File /\ DOMAIN NoPage = {}
  BY DEF NoFile, File, NoteRow, Absent, NoPage
<1>7. TypeOK'
  <2>1. \A o \in Replica : tx[o] = [open |-> tx[o].open, page |-> tx[o].page, file |-> tx[o].file]
    BY DEF LifecycleInv, TypeOK
  <2>2. \A o \in Replica : tx'[o] = [open |-> tx'[o].open, page |-> tx'[o].page, file |-> tx'[o].file]
    BY <1>5, <2>1 DEF NoTx
  <2>3. tx' = [o \in Replica |-> [open |-> tx'[o].open, page |-> tx'[o].page, file |-> tx'[o].file]]
    BY <1>1, <2>2
  <2>4. \A o \in Replica : tx'[o].open \in BOOLEAN /\ tx'[o].file \in File /\ DOMAIN tx'[o].page \subseteq Event
    <3> SUFFICES ASSUME NEW o \in Replica
                 PROVE  tx'[o].open \in BOOLEAN /\ tx'[o].file \in File /\ DOMAIN tx'[o].page \subseteq Event
      OBVIOUS
    <3>1. CASE o = r
      BY <3>1, <1>5, <1>6 DEF NoTx
    <3>2. CASE o # r
      <4>1. tx'[o] = tx[o]
        BY <3>2, <1>5
      <4> QED BY <4>1 DEF LifecycleInv, TypeOK
    <3> QED BY <3>1, <3>2
  <2>5. file' \in [Replica -> File]
    BY <1>1
  <2> QED BY <1>1, <2>3, <2>4, <2>5 DEF LifecycleInv, TypeOK
<1> QED BY <1>1, <1>2, <1>4, <1>5, <1>6, <1>7, ReplaceInv DEF NoTx
(* CreateNote and SupersedeNote are mutations of the kind AppendInv is about.*)
LEMMA MutationInv ==
    ASSUME LifecycleInv, NEW r \in Replica, NEW n \in Note, NEW t \in Time,
           CreateNote(r, n, t) \/ \E m \in Note \cup {None}, run \in {"own", "unchecked"} : SupersedeNote(r, n, m, run, t)
    PROVE  LifecycleInv'
<1>1. file[r] \in File /\ file[r].heads[r] \in Nat /\ file[r].log \subseteq Event
  BY DEF LifecycleInv, TypeOK, File
<1>2. CASE CreateNote(r, n, t)
  <2> DEFINE e == LocalEvent(r, "note.recorded", n, None, "own", {}, t)
  <2>1. e \in Event /\ e.origin = r /\ e.seq = file[r].heads[r] + 1
    BY <1>1 DEF LocalEvent, Event
  <2>2. Valid(file[r], e, TRUE) /\ e.replacement # e.target
    BY NoneAssumption DEF LocalEvent, Valid
  <2>3. \A m \in Note : Introduces(e, m) => \A d \in Created : ~Introduces(d, m)
    BY <1>2 DEF CreateNote, Unused, LocalEvent, Introduces
  <2>4. AppendEvent(r, e)
    BY <1>2 DEF CreateNote
  <2> HIDE DEF e
  <2> QED BY <2>1, <2>2, <2>3, <2>4, AppendInv
<1>3. ASSUME NEW m \in Note \cup {None}, NEW run \in {"own", "unchecked"}, SupersedeNote(r, n, m, run, t)
      PROVE  LifecycleInv'
  <2> DEFINE e == LocalEvent(r, "note.superseded", n, m, run, EventCause(r, n), t)
  <2>1. EventCause(r, n) \subseteq EventName
    BY <1>1 DEF EventCause, EventName, NameOf, Event
  <2>2. e \in Event /\ e.origin = r /\ e.seq = file[r].heads[r] + 1
    BY <1>1, <2>1 DEF LocalEvent, Event
  <2>3. Valid(file[r], e, TRUE) /\ e.replacement # e.target
    BY <1>3, NoneAssumption DEF SupersedeNote, LocalEvent, Valid, Known
  <2>4. \A k \in Note : Introduces(e, k) => \A d \in Created : ~Introduces(d, k)
    BY <1>3, NoneAssumption DEF SupersedeNote, Unused, LocalEvent, Introduces
  <2>5. AppendEvent(r, e)
    BY <1>3 DEF SupersedeNote
  <2> HIDE DEF e
  <2> QED BY <2>2, <2>3, <2>4, <2>5, AppendInv
<1> QED BY <1>2, <1>3

(* The events of a page are events of the log it is taken from.              *)
LEMMA PagesFromLog ==
    ASSUME NEW log, NEW have, NEW origin, NEW after
    PROVE  /\ DOMAIN EventsAfter(log, have) \subseteq log
           /\ DOMAIN EventsForOriginAfter(log, origin, after) \subseteq log
BY DEF EventsAfter, EventsForOriginAfter

(* Opening a transaction on a page of events that were signed.               *)
LEMMA BeginInv ==
    ASSUME LifecycleInv, NEW r \in Replica, NEW page, Begin(r, page),
           DOMAIN page \subseteq Created,
           reply' = reply \/ \E s \in Replica : reply' = [reply EXCEPT ![s] = NoPage]
    PROVE  LifecycleInv'
<1>1. Created \subseteq Event
  BY DEF Created, LifecycleInv, TypeOK, File
<1>2. /\ DOMAIN tx = Replica /\ DOMAIN reply = Replica /\ DOMAIN NoPage = {}
      /\ \A o \in Replica : tx[o] = [open |-> tx[o].open, page |-> tx[o].page, file |-> tx[o].file]
  BY DEF LifecycleInv, TypeOK, NoPage
<1>3. /\ tx'[r] = [open |-> TRUE, page |-> page, file |-> file[r]]
      /\ \A o \in Replica \ {r} : tx'[o] = tx[o]
      /\ DOMAIN tx' = Replica /\ file' = file /\ joined' = joined /\ r \in joined
  BY <1>2 DEF Begin, MayWrite
<1>4. /\ reply' = [o \in Replica |-> reply'[o]]
      /\ \A o \in Replica : reply'[o] = reply[o] \/ reply'[o] = NoPage
  <2>1. CASE reply' = reply
    BY <2>1 DEF LifecycleInv, TypeOK
  <2>2. ASSUME NEW s \in Replica, reply' = [reply EXCEPT ![s] = NoPage]
        PROVE  /\ reply' = [o \in Replica |-> reply'[o]]
               /\ \A o \in Replica : reply'[o] = reply[o] \/ reply'[o] = NoPage
    BY <2>2, <1>2
  <2> QED BY <2>1, <2>2
<1>5. tx' = [o \in Replica |-> [open |-> tx'[o].open, page |-> tx'[o].page, file |-> tx'[o].file]]
  <2>1. \A o \in Replica : tx'[o] = [open |-> tx'[o].open, page |-> tx'[o].page, file |-> tx'[o].file]
    BY <1>2, <1>3
  <2> QED BY <2>1, <1>3 DEF Begin
<1>6. \A o \in Replica : DOMAIN tx'[o].page \subseteq Created /\ DOMAIN reply'[o] \subseteq Created
  BY <1>2, <1>3, <1>4 DEF LifecycleInv, InFlight
<1>7. \A o \in Replica : tx'[o].open \in BOOLEAN /\ tx'[o].file \in File
  <2>1. \A o \in Replica : file[o] \in File /\ tx[o].open \in BOOLEAN /\ tx[o].file \in File
    BY DEF LifecycleInv, TypeOK
  <2>2. tx'[r].open \in BOOLEAN /\ tx'[r].file \in File
    BY <1>3, <2>1
  <2> QED BY <1>3, <2>1, <2>2
<1>8. TypeOK'
  BY <1>1, <1>3, <1>4, <1>5, <1>6, <1>7 DEF LifecycleInv, TypeOK
<1>9. \A o \in Replica : tx'[o].open =>
          /\ o \in joined
          /\ tx'[o].file = file[o] \/ (tx[o].open /\ tx'[o].file = tx[o].file)
  BY <1>3 DEF LifecycleInv, Outside
<1> QED BY <1>3, <1>6, <1>8, <1>9, QuietInv
(* Pull and LoseReply: only what is on its way changes.                      *)
LEMMA ReplyInv ==
    ASSUME LifecycleInv, NEW s \in Replica, Pull(s) \/ LoseReply(s)
    PROVE  LifecycleInv'
<1>1. Created \subseteq Event
  BY DEF Created, LifecycleInv, TypeOK, File
<1>2. PICK page : /\ reply' = [reply EXCEPT ![s] = page]
                  /\ DOMAIN page \subseteq Created
  <2>1. CASE Pull(s)
    <3> DEFINE page == EventsAfter(file[Authority].log, file[s].heads)
    <3>1. DOMAIN page \subseteq Created
      BY PagesFromLog, AuthorityAssumption DEF Created
    <3>2. reply' = [reply EXCEPT ![s] = page]
      BY <2>1 DEF Pull
    <3> HIDE DEF page
    <3> QED BY <3>1, <3>2
  <2>2. CASE LoseReply(s)
    <3>1. DOMAIN NoPage = {}
      BY DEF NoPage
    <3> QED BY <2>2, <3>1 DEF LoseReply
  <2> QED BY <2>1, <2>2
<1>3. file' = file /\ tx' = tx /\ joined' = joined
  BY DEF Pull, LoseReply
<1>4. DOMAIN reply = Replica
  BY DEF LifecycleInv, TypeOK
<1>5. /\ reply' = [o \in Replica |-> reply'[o]]
      /\ \A o \in Replica : DOMAIN reply'[o] \subseteq Created
  BY <1>2, <1>4 DEF LifecycleInv, InFlight
<1>6. TypeOK'
  BY <1>1, <1>3, <1>5 DEF LifecycleInv, TypeOK
<1>7. \A o \in Replica : DOMAIN tx'[o].page \subseteq Created /\ (tx'[o].open => o \in joined)
  BY <1>3 DEF LifecycleInv, InFlight, Outside
<1> QED BY <1>3, <1>5, <1>6, <1>7, QuietInv

(* A transaction that skips an event it has, or that is undone.              *)
LEMMA TransactionInv ==
    ASSUME LifecycleInv, NEW r \in Replica, Rollback(r) \/ \E e : SkipEvent(r, e)
    PROVE  LifecycleInv'
<1>1. /\ DOMAIN tx = Replica /\ tx[r].open /\ r \in joined
      /\ \A o \in Replica : tx[o] = [open |-> tx[o].open, page |-> tx[o].page, file |-> tx[o].file]
  BY DEF LifecycleInv, TypeOK, Outside, Rollback, SkipEvent, Reached
<1>2. file' = file /\ reply' = reply /\ joined' = joined
  BY DEF Rollback, SkipEvent
<1>3. PICK t : /\ tx'[r] = t /\ (\A o \in Replica \ {r} : tx'[o] = tx[o])
               /\ tx' = [o \in Replica |-> tx'[o]]
               /\ t = [open |-> t.open, page |-> t.page, file |-> t.file]
               /\ t.open \in BOOLEAN /\ t.file \in File
               /\ DOMAIN t.page \subseteq DOMAIN tx[r].page
               /\ t.open => t.file = tx[r].file
  <2>1. CASE Rollback(r)
    <3>1. NoFile \in File /\ DOMAIN NoPage = {}
      BY DEF NoFile, File, NoteRow, Absent, NoPage
    <3>2. /\ NoTx = [open |-> NoTx.open, page |-> NoTx.page, file |-> NoTx.file]
          /\ ~NoTx.open /\ NoTx.open \in BOOLEAN /\ NoTx.page = NoPage /\ NoTx.file = NoFile
      BY DEF NoTx
    <3>3. tx'[r] = NoTx /\ (\A o \in Replica \ {r} : tx'[o] = tx[o]) /\ tx' = [o \in Replica |-> tx'[o]]
      BY <2>1, <1>1 DEF Rollback
    <3> QED BY <3>1, <3>2, <3>3
  <2>2. ASSUME NEW e, SkipEvent(r, e)
        PROVE  \E t : /\ tx'[r] = t /\ (\A o \in Replica \ {r} : tx'[o] = tx[o])
                      /\ tx' = [o \in Replica |-> tx'[o]]
                      /\ t = [open |-> t.open, page |-> t.page, file |-> t.file]
                      /\ t.open \in BOOLEAN /\ t.file \in File
                      /\ DOMAIN t.page \subseteq DOMAIN tx[r].page
                      /\ t.open => t.file = tx[r].file
    <3> DEFINE t == [open |-> tx[r].open, page |-> Without(tx[r].page, e), file |-> tx[r].file]
    <3>1. tx' = [tx EXCEPT ![r].page = Without(@, e)]
      BY <2>2 DEF SkipEvent
    <3>2. tx'[r] = t /\ (\A o \in Replica \ {r} : tx'[o] = tx[o]) /\ tx' = [o \in Replica |-> tx'[o]]
      <4>1. /\ DOMAIN tx = Replica
            /\ tx[r] = [open |-> tx[r].open, page |-> tx[r].page, file |-> tx[r].file]
        BY <1>1
      <4> QED BY <3>1, <4>1
    <3>3. DOMAIN Without(tx[r].page, e) \subseteq DOMAIN tx[r].page
      BY DEF Without
    <3>4. tx[r].file \in File /\ tx[r].open \in BOOLEAN
      BY DEF LifecycleInv, TypeOK
    <3>5. /\ t = [open |-> t.open, page |-> t.page, file |-> t.file]
          /\ t.open \in BOOLEAN /\ t.file \in File
          /\ DOMAIN t.page \subseteq DOMAIN tx[r].page /\ t.file = tx[r].file
      BY <3>3, <3>4
    <3> HIDE DEF t
    <3> QED BY <3>2, <3>5
  <2> QED BY <2>1, <2>2
<1>4. tx' = [o \in Replica |-> [open |-> tx'[o].open, page |-> tx'[o].page, file |-> tx'[o].file]]
  <2>1. \A o \in Replica : tx'[o] = [open |-> tx'[o].open, page |-> tx'[o].page, file |-> tx'[o].file]
    BY <1>1, <1>3
  <2> QED BY <2>1, <1>3
<1>5. \A o \in Replica : /\ DOMAIN tx'[o].page \subseteq DOMAIN tx[o].page
                         /\ tx'[o].open \in BOOLEAN /\ tx'[o].file \in File
                         /\ tx'[o].open => tx[o].open /\ tx'[o].file = tx[o].file
  <2>1. \A o \in Replica : tx[o].open \in BOOLEAN /\ tx[o].file \in File
    BY DEF LifecycleInv, TypeOK
  <2> QED BY <2>1, <1>1, <1>3
<1>6. TypeOK'
  BY <1>2, <1>4, <1>5 DEF LifecycleInv, TypeOK
<1>7. \A o \in Replica : /\ DOMAIN tx'[o].page \subseteq Created /\ DOMAIN reply'[o] \subseteq Created
                         /\ tx'[o].open => o \in joined
  BY <1>2, <1>5 DEF LifecycleInv, InFlight, Outside
<1> QED BY <1>2, <1>5, <1>6, <1>7, QuietInv

(* One case per action.                                                      *)
LEMMA NextInv == LifecycleInv /\ [Next]_vars => LifecycleInv'
<1> SUFFICES ASSUME LifecycleInv, [Next]_vars PROVE LifecycleInv'
  OBVIOUS
<1>1. ASSUME NEW r \in Replica, NEW n \in Note, NEW t \in Time,
             CreateNote(r, n, t) \/ \E m \in Note \cup {None}, run \in {"own", "unchecked"} : SupersedeNote(r, n, m, run, t)
      PROVE  LifecycleInv'
  BY <1>1, MutationInv
<1>2. ASSUME NEW s \in Replica, Join(s) PROVE LifecycleInv'
  BY <1>2, JoinInv
<1>3. ASSUME NEW s \in Replica, Pull(s) \/ LoseReply(s) PROVE LifecycleInv'
  BY <1>3, ReplyInv
<1>4. ASSUME NEW s \in Replica, ImportReply(s) PROVE LifecycleInv'
  <2>1. Begin(s, reply[s]) /\ reply' = [reply EXCEPT ![s] = NoPage]
    BY <1>4 DEF ImportReply
  <2>2. DOMAIN reply[s] \subseteq Created
    BY DEF LifecycleInv, InFlight
  <2> QED BY <2>1, <2>2, BeginInv
<1>5. ASSUME NEW s \in Replica, Push(s) PROVE LifecycleInv'
  <2> DEFINE page == EventsForOriginAfter(file[s].log, s, file[Authority].heads[s])
  <2>1. Begin(Authority, page) /\ reply' = reply
    BY <1>5 DEF Push
  <2>2. DOMAIN page \subseteq Created
    BY PagesFromLog DEF Created
  <2> HIDE DEF page
  <2> QED BY <2>1, <2>2, BeginInv, AuthorityAssumption
<1>6. ASSUME NEW r \in Replica, NEW e, SkipEvent(r, e) \/ ImportEvent(r, e) PROVE LifecycleInv'
  BY <1>6, TransactionInv, ImportEventInv
<1>7. ASSUME NEW r \in Replica, Commit(r) \/ Rollback(r) PROVE LifecycleInv'
  BY <1>7, CommitInv, TransactionInv
<1>8. CASE UNCHANGED vars
  <2>1. file' = file /\ tx' = tx /\ reply' = reply /\ joined' = joined
    BY <1>8 DEF vars
  <2>2. TypeOK'
    BY <2>1 DEF LifecycleInv, TypeOK
  <2> QED BY <2>1, <2>2, QuietInv DEF LifecycleInv, InFlight, Outside
<1> QED BY <1>1, <1>2, <1>3, <1>4, <1>5, <1>6, <1>7, <1>8 DEF Next

(* In every reachable state files and open transactions are faithful to the  *)
(* history they have followed.                                               *)
THEOREM LifecycleInvariance == Spec => []LifecycleInv
<1>1. Init => LifecycleInv
  BY InitInv
<1>2. LifecycleInv /\ [Next]_vars => LifecycleInv'
  BY NextInv
<1> QED BY <1>1, <1>2, PTL DEF Spec

(* What a replica shows of a note depends only on the events it has          *)
(* followed: the projection of ImportEvents forgets their order.             *)
THEOREM StatusIsHistory == Spec => []StatusFollowsHistory
<1>1. LifecycleInv => StatusFollowsHistory
  BY DEF LifecycleInv, Faithful, StatusesFrom, StatusFollowsHistory
<1> QED BY <1>1, LifecycleInvariance, PTL

(* Replicas at the same heads agree on the status of every note.             *)
THEOREM Convergence == Spec => []SameHistorySameStatus
<1>1. LifecycleInv => SameHistorySameStatus
  <2> SUFFICES ASSUME LifecycleInv, NEW r \in joined, NEW s \in joined,
                      file[r].heads = file[s].heads, NEW n \in Note
               PROVE  file[r].notes[n].status = file[s].notes[n].status
    BY DEF SameHistorySameStatus
  <2>1. r \in Replica /\ s \in Replica
    BY DEF LifecycleInv, TypeOK
  <2>2. History(file[r]) = History(file[s])
    BY DEF History, Covered
  <2> QED BY <2>1, <2>2 DEF LifecycleInv, Faithful, StatusesFrom
<1> QED BY <1>1, LifecycleInvariance, PTL

(* A successor that a note names is there and an event says it succeeded.    *)
THEOREM SuccessorsKnown == Spec => []SuccessorKnown
<1>1. LifecycleInv => SuccessorKnown
  <2> SUFFICES ASSUME LifecycleInv, NEW r \in Replica, NEW n \in Note,
                      file[r].notes[n].by # None
               PROVE  /\ file[r].notes[n].status = "superseded"
                      /\ Known(file[r], file[r].notes[n].by)
                      /\ \E e \in file[r].edges :
                             Supersedes(e, n) /\ e.replacement = file[r].notes[n].by
    BY DEF SuccessorKnown
  <2> DEFINE m == file[r].notes[n].by
  <2>1. /\ file[r].notes[n].status = "superseded"
        /\ \E e \in file[r].edges : Supersedes(e, n) /\ e.replacement = m
    BY DEF LifecycleInv, Faithful, SuccessorsFrom
  <2>2. m \in Note
    BY DEF LifecycleInv, TypeOK, File, NoteRow
  <2>3. \E e \in History(file[r]) : Introduces(e, m)
    BY <2>1 DEF LifecycleInv, Faithful, EdgesFrom, Introduces
  <2>4. file[r].notes[m].status # "absent"
    BY <2>2, <2>3 DEF LifecycleInv, Faithful, StatusesFrom, StatusOf
  <2> QED BY <2>1, <2>4 DEF Known
<1> QED BY <1>1, LifecycleInvariance, PTL
(* Whatever has been created is an event.                                    *)
LEMMA CreatedEvents == LifecycleInv => Created \subseteq Event
BY DEF Created, LifecycleInv, TypeOK, File

(* No step takes a file back: it keeps its events and its heads only grow.   *)
LEMMA FilesGrow ==
    ASSUME LifecycleInv, LifecycleInv', [Next]_vars
    PROVE  \A r \in Replica : /\ file[r].log \subseteq file'[r].log
                              /\ \A o \in Replica : file[r].heads[o] <= file'[r].heads[o]
<1>1. \A r, o \in Replica : file[r] \in File /\ file[r].heads[o] \in Nat
                            /\ file'[r] \in File /\ file'[r].heads[o] \in Nat
  <2>1. \A r \in Replica : file[r] \in File /\ file'[r] \in File
    BY DEF LifecycleInv, TypeOK
  <2> QED BY <2>1 DEF File
<1>2. DOMAIN file = Replica
  BY DEF LifecycleInv, TypeOK
<1>3. CASE file' = file
  BY <1>1, <1>3
<1>4. ASSUME NEW q \in Replica, NEW f \in File, file' = [file EXCEPT ![q] = f],
             file[q].log \subseteq f.log, \A o \in Replica : file[q].heads[o] <= f.heads[o]
      PROVE  \A r \in Replica : /\ file[r].log \subseteq file'[r].log
                                /\ \A o \in Replica : file[r].heads[o] <= file'[r].heads[o]
  BY <1>1, <1>2, <1>4
<1>5. ASSUME NEW q \in Replica, NEW type, NEW n, NEW m, NEW run, NEW causes, NEW t,
             AppendEvent(q, LocalEvent(q, type, n, m, run, causes, t)),
             LocalEvent(q, type, n, m, run, causes, t) \in Event
      PROVE  \A r \in Replica : /\ file[r].log \subseteq file'[r].log
                                /\ \A o \in Replica : file[r].heads[o] <= file'[r].heads[o]
  <2> DEFINE e == LocalEvent(q, type, n, m, run, causes, t)
             f == Stored(Project(file[q], e), e)
  <2>1. e \in Event /\ e.origin = q /\ e.seq = file[q].heads[q] + 1
    BY <1>5 DEF LocalEvent
  <2>2. file' = [file EXCEPT ![q] = f]
    BY <1>5 DEF AppendEvent
  <2> HIDE DEF e
  <2>3. f.log = file[q].log \cup {e} /\ f.heads = [file[q].heads EXCEPT ![q] = file[q].heads[q] + 1]
    BY <1>1, <2>1, StoredShape
  <2> HIDE DEF f
  <2>4. f \in File
    BY <1>1, <1>2, <2>2
  <2>5. \A o \in Replica : file[q].heads[o] <= f.heads[o]
    BY <1>1, <2>3 DEF File
  <2> QED BY <2>2, <2>3, <2>4, <2>5, <1>4
<1>6. ASSUME NEW q \in Replica, NEW n \in Note, NEW t \in Time, CreateNote(q, n, t)
      PROVE  \A r \in Replica : /\ file[r].log \subseteq file'[r].log
                                /\ \A o \in Replica : file[r].heads[o] <= file'[r].heads[o]
  BY <1>1, <1>5, <1>6 DEF CreateNote, LocalEvent, Event
<1>7. ASSUME NEW q \in Replica, NEW n \in Note, NEW m \in Note \cup {None},
             NEW run \in {"own", "unchecked"}, NEW t \in Time, SupersedeNote(q, n, m, run, t)
      PROVE  \A r \in Replica : /\ file[r].log \subseteq file'[r].log
                                /\ \A o \in Replica : file[r].heads[o] <= file'[r].heads[o]
  <2>1. EventCause(q, n) \subseteq EventName
    BY <1>1 DEF EventCause, EventName, NameOf, Event, File
  <2>2. LocalEvent(q, "note.superseded", n, m, run, EventCause(q, n), t) \in Event
    BY <1>1, <2>1 DEF LocalEvent, Event
  <2> QED BY <2>2, <1>5, <1>7 DEF SupersedeNote
<1>8. ASSUME NEW s \in Replica, Join(s)
      PROVE  \A r \in Replica : /\ file[r].log \subseteq file'[r].log
                                /\ \A o \in Replica : file[r].heads[o] <= file'[r].heads[o]
  <2>1. file[s] = NoFile
    BY <1>8 DEF Join, LifecycleInv, Outside
  <2>2. file' = [file EXCEPT ![s] = [file[Authority] EXCEPT !.log = {}]]
    BY <1>8 DEF Join
  <2>3. \A o \in Replica : file[s].heads[o] = 0 /\ file[s].log = {}
    BY <2>1 DEF NoFile
  <2>4. \A r \in Replica \ {s} : file'[r] = file[r]
    BY <2>2, <1>2
  <2> QED BY <1>1, <2>3, <2>4
<1>9. ASSUME NEW q \in Replica, Commit(q)
      PROVE  \A r \in Replica : /\ file[r].log \subseteq file'[r].log
                                /\ \A o \in Replica : file[r].heads[o] <= file'[r].heads[o]
  <2>1. /\ tx[q].file \in File /\ file' = [file EXCEPT ![q] = tx[q].file]
        /\ file[q].log \subseteq tx[q].file.log
        /\ \A o \in Replica : file[q].heads[o] <= tx[q].file.heads[o]
    BY <1>9 DEF Commit, LifecycleInv, TypeOK, InFlight
  <2> QED BY <2>1, <1>4
<1> QED
  BY <1>3, <1>6, <1>7, <1>8, <1>9
     DEF Next, vars, Pull, LoseReply, ImportReply, Push, Begin, SkipEvent, ImportEvent, Rollback

(* The status of a note along a history that grows.                          *)
LEMMA StatusAdvances ==
    ASSUME NEW H, NEW G, H \subseteq G, NEW n
    PROVE  /\ StatusOf(H, n) = "contested" => StatusOf(G, n) = "contested"
           /\ StatusOf(H, n) = "superseded" => StatusOf(G, n) \in {"superseded", "contested"}
BY DEF StatusOf

(* A superseded note never becomes current again, a contested one stays so.  *)
THEOREM Advance == Spec => NeverReopened
<1>1. LifecycleInv /\ LifecycleInv' /\ [Next]_vars =>
          [\A r \in Replica, n \in Note :
              LET old == file[r].notes[n].status
                  new == file'[r].notes[n].status
              IN  /\ old = "contested" => new = "contested"
                  /\ old = "superseded" => new \in {"superseded", "contested"}]_vars
  <2> SUFFICES ASSUME LifecycleInv, LifecycleInv', [Next]_vars, NEW r \in Replica, NEW n \in Note
               PROVE  /\ file[r].notes[n].status = "contested" => file'[r].notes[n].status = "contested"
                      /\ file[r].notes[n].status = "superseded" =>
                             file'[r].notes[n].status \in {"superseded", "contested"}
    OBVIOUS
  <2>1. Created \subseteq Created'
    BY FilesGrow DEF Created
  <2>2. \A d \in Created : Covered(file[r], d) => Covered(file[r], d)'
    <3> SUFFICES ASSUME NEW d \in Created, d.seq <= file[r].heads[d.origin]
                 PROVE  d.seq <= file'[r].heads[d.origin]
      BY DEF Covered
    <3>1. d.origin \in Replica /\ d.seq \in Nat
      <4>1. d \in Event
        BY CreatedEvents
      <4> QED BY <4>1 DEF Event
    <3>2. file[r].heads[d.origin] \in Nat /\ file'[r].heads[d.origin] \in Nat
      BY <3>1 DEF LifecycleInv, TypeOK, File
    <3>3. file[r].heads[d.origin] <= file'[r].heads[d.origin]
      BY <3>1, FilesGrow
    <3> QED BY <3>1, <3>2, <3>3
  <2>3. History(file[r]) \subseteq History(file[r])'
    BY <2>1, <2>2 DEF History
  <2>4. /\ file[r].notes[n].status = StatusOf(History(file[r]), n)
        /\ file'[r].notes[n].status = StatusOf(History(file[r])', n)
    BY DEF LifecycleInv, Faithful, StatusesFrom
  <2> QED BY <2>3, <2>4, StatusAdvances
<1> QED BY <1>1, LifecycleInvariance, PTL DEF Spec, NeverReopened

-----------------------------------------------------------------------------
(* The order in which EventsAfter serves events                              *)

(* A set of numbers that is not empty has a least element.                   *)
LEMMA LeastExists ==
    ASSUME NEW S \in SUBSET Nat, S # {}
    PROVE  \E m \in S : \A n \in S : m <= n
<1>1. PICK m \in S : \A n \in S : ~(<<n, m>> \in OpToRel(<, Nat))
  BY NatLessThanWellFounded, WFMin
<1>2. \A n \in S : ~(n < m)
  BY <1>1 DEF OpToRel
<1> QED BY <1>2

(* A bounded one has a greatest element, which is what Max returns.          *)
LEMMA MaxOfBounded ==
    ASSUME NEW k \in Nat, NEW S \in SUBSET (0 .. k), S # {}
    PROVE  Max(S) \in S /\ \A t \in S : t <= Max(S)
<1> DEFINE below == {k - t : t \in S}
<1>1. below \in SUBSET Nat /\ below # {}
  OBVIOUS
<1> HIDE DEF below
<1>2. PICK m \in below : \A n \in below : m <= n
  BY <1>1, LeastExists
<1>3. PICK x \in S : m = k - x
  BY <1>2 DEF below
<1>4. \A t \in S : x >= t
  <2> SUFFICES ASSUME NEW t \in S PROVE x >= t
    OBVIOUS
  <2>1. k - t \in below
    BY DEF below
  <2>2. k - x <= k - t /\ x \in Nat /\ t \in Nat
    BY <1>2, <1>3, <2>1
  <2> QED BY <2>2
<1>5. \E y \in S : \A t \in S : y >= t
  BY <1>4
<1>6. Max(S) \in S /\ \A t \in S : Max(S) >= t
  BY <1>5 DEF Max
<1> DEFINE max == Max(S)
<1>7. max \in S /\ \A t \in S : max >= t
  BY <1>6
<1> HIDE DEF max
<1>8. \A t \in S : t <= max
  BY <1>7
<1> QED BY <1>7, <1>8 DEF max

\* The pass of e, given the passes of what must be served before it.
Turns(pass, pending, e) ==
    {IF Earlier(f, e) THEN pass[f] ELSE pass[f] + 1 : f \in Blockers(pending, e)}
PassOf(pass, pending, e) ==
    IF Turns(pass, pending, e) = {} THEN 0 ELSE Max(Turns(pass, pending, e))

\* The rank goes down from an event to what must be served before it.
RankedBy(rank, pending) ==
    \A e \in pending :
        rank[e] \in Nat /\ \A d \in Blockers(pending, e) : rank[d] \in Nat /\ rank[d] < rank[e]

(* The pass of an event is at most its rank, and not before its turn.        *)
LEMMA PassOfBounded ==
    ASSUME NEW pending, NEW rank, RankedBy(rank, pending), NEW e \in pending, NEW pass,
           \A d \in Blockers(pending, e) : pass[d] \in 0 .. rank[d]
    PROVE  /\ PassOf(pass, pending, e) \in 0 .. rank[e]
           /\ \A t \in Turns(pass, pending, e) : t <= PassOf(pass, pending, e)
<1> DEFINE turns == Turns(pass, pending, e)
<1>1. rank[e] \in Nat /\ turns \in SUBSET (0 .. rank[e])
  BY DEF RankedBy, Turns
<1>2. PassOf(pass, pending, e) = IF turns = {} THEN 0 ELSE Max(turns)
  BY DEF PassOf
<1> HIDE DEF turns
<1>3. CASE turns = {}
  BY <1>1, <1>2, <1>3 DEF turns
<1>4. CASE turns # {}
  <2>1. Max(turns) \in turns /\ \A t \in turns : t <= Max(turns)
    BY <1>1, <1>4, MaxOfBounded
  <2> QED BY <1>1, <1>2, <1>4, <2>1 DEF turns
<1> QED BY <1>3, <1>4

(* It depends on the passes of its blockers only.                            *)
LEMMA PassOfAgree ==
    ASSUME NEW pending, NEW e, NEW p, NEW q, \A d \in Blockers(pending, e) : p[d] = q[d]
    PROVE  PassOf(p, pending, e) = PassOf(q, pending, e)
<1>1. Turns(p, pending, e) = Turns(q, pending, e)
  BY DEF Turns
<1> QED BY <1>1 DEF PassOf

\* p gives the passes of the pending events of rank less than k.
PassesBelow(p, k, pending, rank) ==
    p = [e \in {d \in pending : rank[d] < k} |-> PassOf(p, pending, e)]

LEMMA PassesExist ==
    ASSUME NEW pending, NEW rank, RankedBy(rank, pending), NEW k \in Nat
    PROVE  \E p : PassesBelow(p, k, pending, rank)
<1> DEFINE Missing == {i \in Nat : ~ \E p : PassesBelow(p, i, pending, rank)}
<1> SUFFICES ASSUME Missing # {} PROVE FALSE
  OBVIOUS
<1>1. PICK m \in Missing : \A i \in Missing : m <= i
  <2>1. Missing \in SUBSET Nat
    OBVIOUS
  <2> HIDE DEF Missing
  <2> QED BY <2>1, LeastExists
<1>2. CASE m = 0
  <2> DEFINE p == [e \in {} |-> 0]
  <2>1. {d \in pending : rank[d] < 0} = {}
    BY DEF RankedBy
  <2>2. p = [e \in {} |-> PassOf(p, pending, e)]
    OBVIOUS
  <2> HIDE DEF p
  <2>3. PassesBelow(p, 0, pending, rank)
    BY <2>1, <2>2 DEF PassesBelow
  <2> QED BY <1>2, <2>3
<1>3. CASE m # 0
  <2>1. m - 1 \in Nat /\ m - 1 \notin Missing
    BY <1>1, <1>3
  <2>2. PICK g : PassesBelow(g, m - 1, pending, rank)
    BY <2>1
  <2> DEFINE Low == {d \in pending : rank[d] < m}
             Lower == {d \in pending : rank[d] < m - 1}
             p == [e \in Low |-> PassOf(g, pending, e)]
  <2>3. \A e \in Lower : g[e] = PassOf(g, pending, e)
    BY <2>2 DEF PassesBelow
  <2>4. m \in Nat
    BY <1>1
  <2>5. \A e \in Low : \A d \in Blockers(pending, e) : d \in Lower /\ d \in Low
    BY <2>4 DEF RankedBy, Blockers
  <2>6. \A e \in Low : \A d \in Blockers(pending, e) : p[d] = g[d]
    BY <2>3, <2>5
  <2>7. \A e \in Low : p[e] = PassOf(g, pending, e)
    OBVIOUS
  <2>8. p = [e \in Low |-> p[e]]
    OBVIOUS
  <2> HIDE DEF p, Low, Lower
  <2>9. \A e \in Low : p[e] = PassOf(p, pending, e)
    BY <2>6, <2>7, PassOfAgree
  <2>10. p = [e \in Low |-> PassOf(p, pending, e)]
    BY <2>8, <2>9
  <2>11. PassesBelow(p, m, pending, rank)
    BY <2>10 DEF PassesBelow, Low
  <2> QED BY <1>1, <2>11
<1> QED BY <1>2, <1>3

(* Pass is what its recursive definition says: no event is served in a pass  *)
(* before the turn that its chain and its causes leave it.                   *)
LEMMA PassRecursion ==
    ASSUME NEW pending, NEW rank, NEW n \in Nat, RankedBy(rank, pending),
           \A e \in pending : rank[e] < n
    PROVE  \A e \in pending :
               /\ Pass(pending)[e] \in Nat
               /\ \A d \in Blockers(pending, e) :
                      /\ Pass(pending)[d] <= Pass(pending)[e]
                      /\ ~Earlier(d, e) => Pass(pending)[d] < Pass(pending)[e]
<1> DEFINE pass == Pass(pending)
<1>1. PICK p : PassesBelow(p, n, pending, rank)
  BY PassesExist
<1>2. {d \in pending : rank[d] < n} = pending
  OBVIOUS
<1>3. p = [e \in pending |-> PassOf(p, pending, e)]
  BY <1>1, <1>2 DEF PassesBelow
<1>4. pass = CHOOSE f : f = [e \in pending |-> PassOf(f, pending, e)]
  BY DEF Pass, PassOf, Turns
<1> HIDE DEF pass
<1>5. pass = [e \in pending |-> PassOf(pass, pending, e)]
  BY <1>3, <1>4
<1>6. \A e \in pending : pass[e] = PassOf(pass, pending, e)
  BY <1>5
<1>7. \A e \in pending : pass[e] \in 0 .. rank[e]
  <2> DEFINE Bad == {rank[e] : e \in {d \in pending : pass[d] \notin 0 .. rank[d]}}
  <2> SUFFICES ASSUME Bad # {} PROVE FALSE
    OBVIOUS
  <2>1. PICK m \in Bad : \A i \in Bad : m <= i
    <3>1. Bad \in SUBSET Nat
      BY DEF RankedBy
    <3> HIDE DEF Bad
    <3> QED BY <3>1, LeastExists
  <2>2. PICK e \in pending : pass[e] \notin 0 .. rank[e] /\ rank[e] = m
    BY <2>1
  <2>3. \A d \in Blockers(pending, e) : d \in pending /\ rank[d] \in Nat /\ rank[d] < m /\ m \in Nat
    BY <2>2 DEF RankedBy, Blockers
  <2>4. \A d \in Blockers(pending, e) : pass[d] \in 0 .. rank[d]
    BY <2>1, <2>3
  <2>5. PassOf(pass, pending, e) \in 0 .. rank[e]
    BY <2>4, PassOfBounded
  <2> QED BY <1>6, <2>2, <2>5
<1>8. ASSUME NEW e \in pending, NEW d \in Blockers(pending, e)
      PROVE  /\ pass[d] <= pass[e]
             /\ ~Earlier(d, e) => pass[d] < pass[e]
  <2>1. d \in pending /\ rank[d] \in Nat /\ rank[e] \in Nat
    BY DEF RankedBy, Blockers
  <2>2. \A c \in Blockers(pending, e) : pass[c] \in 0 .. rank[c]
    BY <1>7 DEF Blockers
  <2>3. \A t \in Turns(pass, pending, e) : t <= pass[e]
    BY <1>6, <2>2, PassOfBounded
  <2>4. (IF Earlier(d, e) THEN pass[d] ELSE pass[d] + 1) \in Turns(pass, pending, e)
    BY DEF Turns
  <2>5. pass[d] \in Nat /\ pass[e] \in Nat
    BY <1>7, <2>1
  <2>6. (IF Earlier(d, e) THEN pass[d] ELSE pass[d] + 1) <= pass[e]
    BY <2>3, <2>4
  <2> QED BY <2>5, <2>6
<1>9. \A e \in pending : pass[e] \in Nat
  BY <1>7 DEF RankedBy
<1> QED BY <1>8, <1>9 DEF pass

(* The query's order is a strict one.                                        *)
LEMMA EarlierIsOrder ==
    ASSUME NEW e \in Event, NEW f \in Event, NEW g \in Event
    PROVE  ~Earlier(e, e) /\ (Earlier(e, f) /\ Earlier(f, g) => Earlier(e, g))
<1>1. \A d \in Event : /\ d.origin \in Replica /\ d.seq \in Nat /\ d.time \in Nat
                       /\ Collation[d.origin] \in Nat
  BY OrderAssumption DEF Event
<1> QED BY <1>1 DEF Earlier

(* A page has new events only, each after the part of its chain and after    *)
(* the causes that the caller has not.                                       *)
LEMMA BlockersServedFirst ==
    ASSUME NEW log \in SUBSET Event, IsFiniteSet(log), NEW have, NEW rank, NEW n \in Nat,
           RankedBy(rank, log), \A e \in log : rank[e] < n,
           NEW e \in DOMAIN EventsAfter(log, have)
    PROVE  /\ EventsAfter(log, have)[e] \in Nat /\ e.seq > have[e.origin]
           /\ \A d \in Blockers(log, e) : d.seq > have[d.origin] =>
                  /\ d \in DOMAIN EventsAfter(log, have)
                  /\ EventsAfter(log, have)[d] < EventsAfter(log, have)[e]
<1> DEFINE pending == {c \in log : c.seq > have[c.origin]}
           pass == Pass(pending)
           Before(c, f) == pass[c] < pass[f] \/ (pass[c] = pass[f] /\ Earlier(c, f))
           Ahead(c) == {f \in pending : Before(f, c)}
           place == [c \in pending |-> Cardinality(Ahead(c))]
           page == [c \in {f \in pending : place[f] < Limit} |-> place[c]]
<1>1. EventsAfter(log, have) = page
  BY DEF EventsAfter
<1>2. pending \subseteq log /\ \A c \in pending : Blockers(pending, c) \subseteq Blockers(log, c)
  BY DEF Blockers
<1>3. RankedBy(rank, pending) /\ \A c \in pending : rank[c] < n
  BY <1>2 DEF RankedBy
<1>4. \A c \in pending : /\ pass[c] \in Nat
                         /\ \A f \in Blockers(pending, c) : /\ pass[f] <= pass[c]
                                                            /\ ~Earlier(f, c) => pass[f] < pass[c]
  <2> HIDE DEF pending
  <2> QED BY <1>3, PassRecursion
<1>5. e \in pending /\ place[e] < Limit
  BY <1>1
<1> HIDE DEF pass
<1>6. \A c \in pending : IsFiniteSet(Ahead(c))
  <2> SUFFICES ASSUME NEW c \in pending PROVE IsFiniteSet(Ahead(c))
    OBVIOUS
  <2>1. Ahead(c) \subseteq log
    OBVIOUS
  <2> HIDE DEF Ahead
  <2> QED BY <2>1, FS_Subset
<1>7. \A c \in pending : place[c] \in Nat
  <2> HIDE DEF Ahead, pending
  <2> QED BY <1>6, FS_CardinalityType
<1>8. ASSUME NEW d \in Blockers(log, e), d.seq > have[d.origin]
      PROVE  d \in pending /\ place[d] < place[e]
  <2>1. d \in pending /\ d \in Blockers(pending, e) /\ d \in Event
    BY <1>8 DEF Blockers
  <2>2. Before(d, e)
    BY <1>4, <1>5, <2>1
  <2>3. Ahead(d) \subseteq Ahead(e)
    <3> SUFFICES ASSUME NEW f \in Ahead(d) PROVE Before(f, e)
      OBVIOUS
    <3>1. pass[f] \in Nat /\ pass[d] \in Nat /\ pass[e] \in Nat /\ Before(f, d)
      BY <1>4, <1>5, <2>1
    <3>2. f \in Event /\ d \in Event /\ e \in Event
      BY <1>5, <2>1
    <3>3. Earlier(f, d) /\ Earlier(d, e) => Earlier(f, e)
      BY <3>2, EarlierIsOrder
    <3> QED BY <2>2, <3>1, <3>3
  <2>4. d \in Ahead(e) /\ d \notin Ahead(d)
    <3>1. ~Earlier(d, d)
      BY <2>1, EarlierIsOrder
    <3>2. pass[d] \in Nat
      BY <1>4, <2>1
    <3> QED BY <2>1, <2>2, <3>1, <3>2
  <2>5. IsFiniteSet(Ahead(e)) /\ Ahead(d) # Ahead(e)
    BY <1>5, <1>6, <2>4
  <2>6. Cardinality(Ahead(d)) < Cardinality(Ahead(e))
    <3> HIDE DEF Ahead
    <3>1. Cardinality(Ahead(d)) <= Cardinality(Ahead(e))
      BY <2>3, <2>5, FS_Subset
    <3>2. Cardinality(Ahead(d)) # Cardinality(Ahead(e))
      BY <2>3, <2>5, FS_Subset
    <3>3. Cardinality(Ahead(d)) \in Nat /\ Cardinality(Ahead(e)) \in Nat
      BY <1>5, <1>6, <2>1, FS_CardinalityType
    <3> QED BY <3>1, <3>2, <3>3
  <2> QED BY <1>5, <2>1, <2>6
<1>9. Limit \in Nat /\ e.seq > have[e.origin]
  BY <1>5, LimitAssumption
<1> HIDE DEF place, pending
<1> QED BY <1>1, <1>5, <1>7, <1>8, <1>9

-----------------------------------------------------------------------------
(* Causes arrive first                                                       *)

(* A replica that has followed a chain to an event has done so for good.     *)
LEMMA CoveredStays ==
    ASSUME LifecycleInv, LifecycleInv', [Next]_vars, NEW r \in Replica, NEW d \in Created
    PROVE  Covered(file[r], d) => Covered(file'[r], d)
<1> SUFFICES ASSUME d.seq <= file[r].heads[d.origin]
             PROVE  d.seq <= file'[r].heads[d.origin]
  BY DEF Covered
<1>1. d.origin \in Replica /\ d.seq \in Nat
  <2>1. d \in Event
    BY CreatedEvents
  <2> QED BY <2>1 DEF Event
<1>2. file[r].heads[d.origin] \in Nat /\ file'[r].heads[d.origin] \in Nat
  BY <1>1 DEF LifecycleInv, TypeOK, File
<1>3. file[r].heads[d.origin] <= file'[r].heads[d.origin]
  BY <1>1, FilesGrow
<1> QED BY <1>1, <1>2, <1>3

(* What a file has in its log it has followed.                               *)
LEMMA LogCovered ==
    ASSUME LifecycleInv, NEW r \in Replica
    PROVE  /\ \A d \in file[r].log : d \in Created /\ Covered(file[r], d)
           /\ tx[r].open => \A d \in tx[r].file.log : d \in Created /\ Covered(tx[r].file, d)
BY DEF LifecycleInv, Faithful, History

(* An event is numbered, and a file has followed it or its head is below.    *)
LEMMA CoveredOrAhead ==
    ASSUME LifecycleInv, NEW d \in Created, NEW f \in File
    PROVE  /\ d \in Event /\ d.origin \in Replica /\ d.seq \in Nat /\ d.seq > 0
           /\ f.heads[d.origin] \in Nat
           /\ ~Covered(f, d) <=> d.seq > f.heads[d.origin]
           /\ \A e \in Created : e.origin = d.origin /\ d.seq < e.seq /\ Covered(f, e) => Covered(f, d)
<1>1. Created \subseteq Event
  BY CreatedEvents
<1>2. \A e \in Event : e.origin \in Replica /\ e.seq \in Nat /\ e.seq > 0
  BY DEF Event
<1>3. \A o \in Replica : f.heads[o] \in Nat
  BY DEF File
<1> QED BY <1>1, <1>2, <1>3 DEF Covered

(* Where the events stay the same, so do their causes and their ranks.       *)
LEMMA SameEvents ==
    ASSUME LifecycleInv, LifecycleInv', [Next]_vars, CausalInv, Created' = Created,
           \A o \in Replica : file'[o].heads[o] = file[o].heads[o]
    PROVE  IsFiniteSet(Created)' /\ CausesRecorded' /\ ChainsWhole' /\ Ranked' /\ OwnLogs'
<1>1. \A d \in Created : d.origin \in Replica
  BY CreatedEvents DEF Event
<1>2. \A d \in Created : Covered(file[Authority], d) => Covered(file'[Authority], d)
  BY CoveredStays, AuthorityAssumption
<1>3. CausesRecorded'
  BY <1>2 DEF CausalInv, CausesRecorded
<1>4. OwnLogs'
  BY <1>1, FilesGrow DEF CausalInv, OwnLogs
<1>5. IsFiniteSet(Created)' /\ Ranked'
  BY DEF CausalInv, Ranked
<1>6. ChainsWhole'
  BY DEF CausalInv, ChainsWhole
<1> QED BY <1>3, <1>4, <1>5, <1>6

(* Steps that change no committed file.                                      *)
LEMMA QuietCausal ==
    ASSUME LifecycleInv, LifecycleInv', [Next]_vars, CausalInv, file' = file, joined' = joined,
           tx'[Authority].open => Keeps(tx'[Authority].file),
           \A r \in Replica \ {Authority} :
               /\ tx'[r].open => Behind(r, tx'[r].file)
               /\ DOMAIN reply'[r] \cup DOMAIN tx'[r].page \subseteq file[Authority].log,
           \A r \in Replica :
               /\ r \notin joined => DOMAIN reply'[r] = {}
               /\ Servable(file[r], reply'[r])
               /\ tx'[r].open => /\ Adds(file[r], tx'[r].file)
                                 /\ Servable(tx'[r].file, tx'[r].page)
    PROVE  CausalInv'
<1>1. Created' = Created /\ \A o \in Replica : file'[o].heads[o] = file[o].heads[o]
  BY DEF Created
<1>2. AuthorityKeeps'
  BY <1>1 DEF AuthorityKeeps, Keeps, CausalInv
<1>3. SpokesBehind'
  BY DEF SpokesBehind, Behind, CausalInv
<1>4. PagesOrdered'
  BY <1>1 DEF PagesOrdered, Servable
<1>5. ImportsLogged'
  BY <1>1 DEF ImportsLogged, Adds
<1>6. OnlyMembersPull'
  BY DEF CausalInv, OnlyMembersPull
<1> QED BY <1>1, <1>2, <1>3, <1>4, <1>5, <1>6, SameEvents DEF CausalInv

LEMMA PullCausal ==
    ASSUME LifecycleInv, LifecycleInv', CausalInv, NEW s \in Replica, Pull(s)
    PROVE  CausalInv'
<1> DEFINE log == file[Authority].log
           page == EventsAfter(log, file[s].heads)
<1>1. log \subseteq Created /\ Created \subseteq Event /\ IsFiniteSet(log)
  <2>1. log \subseteq Created
    BY AuthorityAssumption DEF Created
  <2> QED BY <2>1, CreatedEvents, FS_Subset DEF CausalInv
<1>2. PICK n \in Nat, rank \in [Created -> Nat] : \A e \in Created :
          rank[e] < n /\ \A d \in Blockers(Created, e) : rank[d] < rank[e]
  BY DEF CausalInv, Ranked
<1>3. RankedBy(rank, log) /\ \A e \in log : rank[e] < n
  BY <1>1, <1>2 DEF RankedBy, Blockers
<1>4. DOMAIN page \subseteq log
  BY PagesFromLog
<1>5. \A e \in DOMAIN page :
          /\ page[e] \in Nat /\ e.seq > file[s].heads[e.origin]
          /\ \A d \in Blockers(log, e) : d.seq > file[s].heads[d.origin] =>
                 d \in DOMAIN page /\ page[d] < page[e]
  <2> HIDE DEF log
  <2> QED BY <1>1, <1>3, BlockersServedFirst
<1>6. ASSUME NEW e \in DOMAIN page, NEW d \in Blockers(Created, e)
      PROVE  d \in Blockers(log, e)
  <2>1. e \in Created /\ Covered(file[Authority], e) /\ d \in Created
    BY <1>4, LogCovered, AuthorityAssumption DEF Blockers
  <2>2. Covered(file[Authority], d)
    <3>1. CASE d.origin # e.origin
      BY <1>6, <2>1, <3>1 DEF CausalInv, CausesRecorded, Blockers, CauseOf
    <3>2. CASE d.origin = e.origin
      <4>1. d.seq < e.seq
        BY <1>6, <2>1, <3>2 DEF CausalInv, CausesRecorded, Blockers, CauseOf
      <4>2. file[Authority] \in File
        BY AuthorityAssumption DEF LifecycleInv, TypeOK
      <4> QED BY <2>1, <3>2, <4>1, <4>2, CoveredOrAhead
    <3> QED BY <3>1, <3>2
  <2> QED BY <2>1, <2>2 DEF CausalInv, AuthorityKeeps, Keeps, Blockers
<1> HIDE DEF page
<1>7. Servable(file[s], page)
  <2>1. file[s] \in File
    BY DEF LifecycleInv, TypeOK
  <2>2. \A d \in Created : ~Covered(file[s], d) <=> d.seq > file[s].heads[d.origin]
    BY <2>1, CoveredOrAhead
  <2>3. ASSUME NEW e \in DOMAIN page, NEW d \in Blockers(Created, e), ~Covered(file[s], d)
        PROVE  d \in DOMAIN page /\ page[d] < page[e]
    <3>1. d \in Blockers(log, e) /\ d \in Created
      BY <1>6 DEF Blockers
    <3> HIDE DEF log
    <3> QED BY <1>5, <2>2, <2>3, <3>1
  <2>4. \A e \in DOMAIN page : page[e] \in Nat /\ ~Covered(file[s], e)
    BY <1>1, <1>4, <1>5, <2>2
  <2> QED BY <2>3, <2>4 DEF Servable
<1>8. \A r \in Replica : reply'[r] = IF r = s THEN page ELSE reply[r]
  BY DEF Pull, page, LifecycleInv, TypeOK
<1>9. /\ \A r \in Replica \ {Authority} :
             DOMAIN reply'[r] \cup DOMAIN tx[r].page \subseteq file[Authority].log
      /\ \A r \in Replica : /\ Servable(file[r], reply'[r])
                            /\ r \notin joined => DOMAIN reply'[r] = {}
  <2>1. s \in joined
    BY DEF Pull
  <2> QED BY <1>4, <1>7, <1>8, <2>1 DEF CausalInv, OnlyMembersPull, SpokesBehind, PagesOrdered
<1>10. file' = file /\ tx' = tx /\ joined' = joined
  BY DEF Pull
<1>11. [Next]_vars
  BY DEF Next
<1> QED
  BY <1>9, <1>10, <1>11, QuietCausal
     DEF CausalInv, AuthorityKeeps, SpokesBehind, ImportsLogged, PagesOrdered

\* Any file can take an empty page.
LEMMA NoPageServable == \A f : Servable(f, NoPage) /\ DOMAIN NoPage = {}
BY DEF NoPage, Servable

LEMMA BeginCausal ==
    ASSUME LifecycleInv, LifecycleInv', [Next]_vars, CausalInv, NEW r \in Replica, NEW page,
           Begin(r, page), Servable(file[r], page),
           r # Authority => DOMAIN page \subseteq file[Authority].log,
           reply' = reply \/ \E s \in Replica : reply' = [reply EXCEPT ![s] = NoPage]
    PROVE  CausalInv'
<1>1. /\ file' = file /\ joined' = joined
      /\ tx'[r] = [open |-> TRUE, page |-> page, file |-> file[r]]
      /\ \A o \in Replica \ {r} : tx'[o] = tx[o]
  BY DEF Begin, LifecycleInv, TypeOK
<1>2. \A o \in Replica : reply'[o] = reply[o] \/ reply'[o] = NoPage
  BY DEF LifecycleInv, TypeOK
<1>3. tx'[Authority].open => Keeps(tx'[Authority].file)
  BY <1>1, AuthorityAssumption DEF CausalInv, AuthorityKeeps
<1>4. \A o \in Replica \ {Authority} :
          /\ tx'[o].open => Behind(o, tx'[o].file)
          /\ DOMAIN reply'[o] \cup DOMAIN tx'[o].page \subseteq file[Authority].log
  BY <1>1, <1>2, NoPageServable DEF CausalInv, SpokesBehind
<1>5. \A o \in Replica :
          /\ o \notin joined => DOMAIN reply'[o] = {}
          /\ Servable(file[o], reply'[o])
          /\ tx'[o].open => /\ Adds(file[o], tx'[o].file)
                            /\ Servable(tx'[o].file, tx'[o].page)
  BY <1>1, <1>2, NoPageServable DEF CausalInv, OnlyMembersPull, ImportsLogged, PagesOrdered, Adds
<1> QED BY <1>1, <1>3, <1>4, <1>5, QuietCausal

(* A spoke pushes its own chain in order; what it names of other chains it   *)
(* has from the authority.                                                   *)
LEMMA PushCausal ==
    ASSUME LifecycleInv, LifecycleInv', CausalInv, NEW s \in Replica, Push(s)
    PROVE  CausalInv'
<1> DEFINE log == file[s].log
           after == file[Authority].heads[s]
           page == EventsForOriginAfter(log, s, after)
<1>1. Begin(Authority, page) /\ reply' = reply
  BY DEF Push
<1>2. /\ DOMAIN page = {f \in log : f.origin = s /\ after < f.seq /\ f.seq <= after + Limit}
      /\ \A e \in DOMAIN page : page[e] = e.seq
  BY DEF EventsForOriginAfter
<1>3. \A e \in Created : e.seq \in Nat
  BY CreatedEvents DEF Event
<1>4. after \in Nat /\ Limit \in Nat
  <2>1. file[Authority] \in File
    BY AuthorityAssumption DEF LifecycleInv, TypeOK
  <2> QED BY <2>1, LimitAssumption DEF File
<1>5. log \subseteq Created
  BY DEF Created
<1>6. Servable(file[Authority], page)
  <2> SUFFICES ASSUME NEW e \in DOMAIN page
               PROVE  /\ page[e] \in Nat /\ ~Covered(file[Authority], e)
                      /\ \A d \in Blockers(Created, e) :
                             Covered(file[Authority], d) \/ (d \in DOMAIN page /\ page[d] < page[e])
    BY DEF Servable
  <2>1. e \in Created /\ e.origin = s /\ after < e.seq /\ e.seq <= after + Limit
    BY <1>2, <1>5
  <2>2. ASSUME NEW d \in Blockers(Created, e), ~Covered(file[Authority], d)
        PROVE  d \in DOMAIN page /\ page[d] < page[e]
    <3>1. d \in Created /\ d.origin = s /\ d.seq < e.seq
      BY <2>1, <2>2 DEF CausalInv, CausesRecorded, Blockers, CauseOf
    <3>2. d \in log
      BY <3>1 DEF CausalInv, OwnLogs
    <3>3. after < d.seq
      BY <1>3, <1>4, <2>2, <3>1 DEF Covered
    <3>4. d.seq <= after + Limit
      BY <1>3, <1>4, <2>1, <3>1
    <3> HIDE DEF page, after
    <3> QED BY <1>2, <3>1, <3>2, <3>3, <3>4
  <2>3. page[e] \in Nat /\ ~Covered(file[Authority], e)
    BY <1>2, <1>3, <1>4, <2>1 DEF Covered
  <2> HIDE DEF page
  <2> QED BY <2>2, <2>3
<1>7. [Next]_vars
  BY DEF Next
<1> HIDE DEF page
<1> QED BY <1>1, <1>6, <1>7, BeginCausal, AuthorityAssumption

(* A file that has followed more, and has what it followed in its log, can   *)
(* take the same page.                                                       *)
LEMMA ServableStays ==
    ASSUME NEW f, NEW g, NEW page, Servable(f, page), DOMAIN page \subseteq Created,
           \A d \in Created : Covered(f, d) => Covered(g, d), f.log \subseteq g.log, Adds(f, g)
    PROVE  Servable(g, page)
BY DEF Servable, Adds, Blockers

(* An event is taken from a page once the file has followed it.              *)
LEMMA RestServable ==
    ASSUME NEW g, NEW page, NEW e, Servable(g, page), Covered(g, e)
    PROVE  Servable(g, Without(page, e))
BY DEF Servable, Without

LEMMA ImportCausal ==
    ASSUME LifecycleInv, LifecycleInv', [Next]_vars, CausalInv, NEW r \in Replica, NEW e,
           SkipEvent(r, e) \/ ImportEvent(r, e)
    PROVE  CausalInv'
<1> DEFINE f == tx[r].file
           page == tx[r].page
<1>1. /\ tx[r].open /\ e \in DOMAIN page /\ e \in Created /\ e \in Event /\ f \in File
      /\ file' = file /\ joined' = joined /\ reply' = reply
  BY DEF SkipEvent, ImportEvent, Reached, LifecycleInv, TypeOK, InFlight
<1>2. PICK g : /\ tx'[r] = [open |-> tx[r].open, page |-> Without(page, e), file |-> g]
               /\ \A o \in Replica \ {r} : tx'[o] = tx[o]
               /\ Covered(g, e)
               /\ \A d \in Created : Covered(f, d) => Covered(g, d)
               /\ f.log \subseteq g.log /\ Adds(f, g)
               /\ Keeps(f) => Keeps(g)
               /\ r # Authority /\ Behind(r, f) => Behind(r, g)
  <2>1. DOMAIN tx = Replica /\ tx[r] = [open |-> tx[r].open, page |-> page, file |-> f]
    BY DEF LifecycleInv, TypeOK
  <2>2. CASE SkipEvent(r, e)
    <3>1. tx'[r] = [open |-> tx[r].open, page |-> Without(page, e), file |-> f]
          /\ \A o \in Replica \ {r} : tx'[o] = tx[o]
      <4>1. tx' = [tx EXCEPT ![r].page = Without(page, e)]
        BY <2>2 DEF SkipEvent
      <4> HIDE DEF f, page
      <4> QED BY <2>1, <4>1
    <3>2. Covered(f, e)
      BY <1>1, <2>2, LogCovered DEF SkipEvent
    <3> QED BY <3>1, <3>2 DEF Adds
  <2>3. CASE ImportEvent(r, e)
    <3> DEFINE g == Stored(Project(f, e), e)
    <3>1. tx'[r] = [open |-> tx[r].open, page |-> Without(page, e), file |-> g]
          /\ \A o \in Replica \ {r} : tx'[o] = tx[o]
      <4>1. tx' = [tx EXCEPT ![r].page = Without(page, e), ![r].file = g]
        BY <2>3 DEF ImportEvent
      <4> HIDE DEF f, g, page
      <4> QED BY <2>1, <4>1
    <3>2. /\ g.log = f.log \cup {e}
          /\ g.heads = [f.heads EXCEPT ![e.origin] = e.seq]
      BY <1>1, StoredShape
    <3>3. e.seq = f.heads[e.origin] + 1
      BY <2>3 DEF ImportEvent, Accepts
    <3>4. g \in File
      <4>1. tx'[r].file \in File
        BY DEF LifecycleInv, TypeOK
      <4> QED BY <3>1, <4>1
    <3> HIDE DEF g, f
    <3>5. History(g) = History(f) \cup {e}
      BY <1>1, <3>2, <3>3, <3>4, NextOfChain DEF LifecycleInv
    <3>6. /\ Covered(g, e) /\ \A d \in Created : Covered(f, d) => Covered(g, d)
          /\ f.log \subseteq g.log /\ Adds(f, g)
      BY <1>1, <3>2, <3>5 DEF History, Adds
    <3>7. Keeps(f) => Keeps(g)
      BY <3>2, <3>5 DEF Keeps, History
    <3>8. ASSUME r # Authority, Behind(r, f)
          PROVE  Behind(r, g)
      <4>1. e \in file[Authority].log
        BY <1>1, <3>8 DEF CausalInv, SpokesBehind
      <4>2. e.seq <= file[Authority].heads[e.origin]
        BY <4>1, LogCovered, AuthorityAssumption DEF Covered
      <4> QED BY <1>1, <3>2, <3>8, <4>2 DEF Behind, File, Event
    <3> QED BY <3>1, <3>6, <3>7, <3>8
  <2> QED BY <2>2, <2>3
<1>3. Servable(g, Without(page, e)) /\ Adds(file[r], g)
  <2>1. Servable(f, page) /\ DOMAIN page \subseteq Created /\ Adds(file[r], f)
    BY <1>1 DEF CausalInv, PagesOrdered, ImportsLogged, LifecycleInv, InFlight
  <2> HIDE DEF f, page
  <2>2. Servable(g, page)
    BY <1>2, <2>1, ServableStays
  <2>3. Adds(file[r], g)
    BY <1>2, <2>1 DEF Adds
  <2> QED BY <1>2, <2>2, <2>3, RestServable
<1>4. DOMAIN Without(page, e) \subseteq DOMAIN page
  BY DEF Without
<1>5. tx'[Authority].open => Keeps(tx'[Authority].file)
  BY <1>1, <1>2, AuthorityAssumption DEF CausalInv, AuthorityKeeps
<1>6. \A o \in Replica \ {Authority} :
          /\ tx'[o].open => Behind(o, tx'[o].file)
          /\ DOMAIN reply'[o] \cup DOMAIN tx'[o].page \subseteq file[Authority].log
  BY <1>1, <1>2, <1>4 DEF CausalInv, SpokesBehind
<1>7. \A o \in Replica :
          /\ o \notin joined => DOMAIN reply'[o] = {}
          /\ Servable(file[o], reply'[o])
          /\ tx'[o].open => /\ Adds(file[o], tx'[o].file)
                            /\ Servable(tx'[o].file, tx'[o].page)
  BY <1>1, <1>2, <1>3 DEF CausalInv, OnlyMembersPull, ImportsLogged, PagesOrdered
<1> QED BY <1>1, <1>5, <1>6, <1>7, QuietCausal

(* A response or a transaction that is given up leaves nothing behind.       *)
LEMMA UndoneCausal ==
    ASSUME LifecycleInv, LifecycleInv', [Next]_vars, CausalInv, NEW r \in Replica,
           LoseReply(r) \/ Rollback(r)
    PROVE  CausalInv'
<1>1. /\ file' = file /\ joined' = joined
      /\ \A o \in Replica : /\ reply'[o] = reply[o] \/ reply'[o] = NoPage
                            /\ tx'[o] = tx[o] \/ tx'[o] = NoTx
  BY DEF LoseReply, Rollback, LifecycleInv, TypeOK
<1>2. ~NoTx.open /\ NoTx.page = NoPage
  BY DEF NoTx
<1>3. tx'[Authority].open => Keeps(tx'[Authority].file)
  BY <1>1, <1>2, AuthorityAssumption DEF CausalInv, AuthorityKeeps
<1>4. \A o \in Replica \ {Authority} :
          /\ tx'[o].open => Behind(o, tx'[o].file)
          /\ DOMAIN reply'[o] \cup DOMAIN tx'[o].page \subseteq file[Authority].log
  BY <1>1, <1>2, NoPageServable DEF CausalInv, SpokesBehind
<1>5. \A o \in Replica :
          /\ o \notin joined => DOMAIN reply'[o] = {}
          /\ Servable(file[o], reply'[o])
          /\ tx'[o].open => /\ Adds(file[o], tx'[o].file)
                            /\ Servable(tx'[o].file, tx'[o].page)
  BY <1>1, <1>2, NoPageServable DEF CausalInv, OnlyMembersPull, ImportsLogged, PagesOrdered, Adds
<1> QED BY <1>1, <1>3, <1>4, <1>5, QuietCausal

(* A replica's file is replaced and no event is added: joining, committing.  *)
LEMMA ReplaceCausal ==
    ASSUME LifecycleInv, LifecycleInv', [Next]_vars, CausalInv, NEW r \in Replica, NEW f,
           file' = [file EXCEPT ![r] = f], reply' = reply, Created' = Created, joined \subseteq joined',
           r \in joined', f.heads[r] = file[r].heads[r],
           r = Authority => Keeps(f), r # Authority => Behind(r, f), ~tx'[r].open,
           Adds(file[r], f) \/ DOMAIN reply[r] = {},
           r # Authority => DOMAIN tx'[r].page \subseteq file[Authority].log,
           \A o \in Replica \ {r} : tx'[o] = tx[o]
    PROVE  CausalInv'
<1>1. /\ file'[r] = f /\ \A o \in Replica \ {r} : file'[o] = file[o]
      /\ \A o \in Replica : file'[o].heads[o] = file[o].heads[o]
  BY DEF LifecycleInv, TypeOK
<1>2. /\ file[Authority].log \subseteq file'[Authority].log
      /\ \A o \in Replica : /\ file[Authority].heads[o] <= file'[Authority].heads[o]
                            /\ file[Authority].heads[o] \in Nat /\ file'[Authority].heads[o] \in Nat
  <2>1. file[Authority] \in File /\ file'[Authority] \in File
    BY AuthorityAssumption DEF LifecycleInv, TypeOK
  <2>2. \A h \in File, o \in Replica : h.heads[o] \in Nat
    BY DEF File
  <2> QED BY <2>1, <2>2, FilesGrow, AuthorityAssumption
<1>3. AuthorityKeeps'
  <2>1. Keeps(file'[Authority]) /\ (tx'[Authority].open => Keeps(tx'[Authority].file))
    BY <1>1, AuthorityAssumption DEF CausalInv, AuthorityKeeps
  <2> QED BY <2>1 DEF AuthorityKeeps, Keeps
<1>4. SpokesBehind'
  <2>1. ASSUME NEW o \in Replica \ {Authority}, NEW h \in File, Behind(o, h)
        PROVE  \A p \in Replica \ {o} : h.heads[p] <= file'[Authority].heads[p]
    BY <1>2, <2>1 DEF Behind, File
  <2>2. ASSUME NEW o \in Replica \ {Authority}
        PROVE  /\ Behind(o, file'[o]) /\ (tx'[o].open => Behind(o, tx'[o].file))
               /\ file'[o] \in File /\ tx'[o].file \in File
               /\ DOMAIN reply'[o] \cup DOMAIN tx'[o].page \subseteq file'[Authority].log
    <3>1. file'[o] \in File /\ tx'[o].file \in File
      BY DEF LifecycleInv, TypeOK
    <3>2. CASE o = r
      BY <1>1, <1>2, <3>1, <3>2 DEF CausalInv, SpokesBehind
    <3>3. CASE o # r
      BY <1>1, <1>2, <3>1, <3>3 DEF CausalInv, SpokesBehind
    <3> QED BY <3>2, <3>3
  <2> QED BY <2>1, <2>2 DEF SpokesBehind, Behind
<1>5. PagesOrdered'
  <2>1. ASSUME NEW o \in Replica
        PROVE  /\ Servable(file'[o], reply'[o])
               /\ tx'[o].open => Servable(tx'[o].file, tx'[o].page)
    <3>1. /\ \A d \in Created : Covered(file[o], d) => Covered(file'[o], d)
          /\ file[o].log \subseteq file'[o].log
      BY CoveredStays, FilesGrow
    <3>2. Adds(file[o], file'[o]) \/ DOMAIN reply[o] = {}
      BY <1>1 DEF Adds
    <3>3. Servable(file[o], reply[o]) /\ DOMAIN reply[o] \subseteq Created
      BY DEF CausalInv, PagesOrdered, LifecycleInv, InFlight
    <3>4. Servable(file'[o], reply[o])
      <4>1. CASE DOMAIN reply[o] = {}
        BY <4>1 DEF Servable
      <4>2. CASE Adds(file[o], file'[o])
        BY <3>1, <3>3, <4>2, ServableStays
      <4> QED BY <3>2, <4>1, <4>2
    <3>5. tx'[o].open => Servable(tx'[o].file, tx'[o].page)
      BY DEF CausalInv, PagesOrdered
    <3> QED BY <3>4, <3>5
  <2> QED BY <2>1 DEF PagesOrdered, Servable
<1>6. ImportsLogged'
  <2>1. \A o \in Replica : tx'[o].open => Adds(file'[o], tx'[o].file)
    BY <1>1 DEF CausalInv, ImportsLogged
  <2> QED BY <2>1 DEF ImportsLogged, Adds
<1>7. OnlyMembersPull'
  BY DEF CausalInv, OnlyMembersPull
<1> QED BY <1>1, <1>3, <1>4, <1>5, <1>6, <1>7, SameEvents DEF CausalInv

LEMMA JoinCausal ==
    ASSUME LifecycleInv, LifecycleInv', [Next]_vars, CausalInv, NEW s \in Replica, Join(s)
    PROVE  CausalInv'
<1> DEFINE f == [file[Authority] EXCEPT !.log = {}]
<1>1. /\ s # Authority /\ joined' = joined \cup {s} /\ tx' = tx /\ reply' = reply
      /\ file' = [file EXCEPT ![s] = f] /\ file[s] = NoFile /\ ~tx[s].open
      /\ file \in [Replica -> File] /\ file[Authority] \in File
      /\ DOMAIN reply[s] = {}
  BY AuthorityAssumption DEF Join, LifecycleInv, TypeOK, Outside, CausalInv, OnlyMembersPull
<1>2. f.heads = file[Authority].heads /\ f.log = {}
  BY <1>1 DEF File
<1> HIDE DEF f
<1>3. Created' = Created
  BY <1>1, <1>2 DEF Created, NoFile
<1>4. Behind(s, f)
  BY <1>1, <1>2 DEF Behind, File
<1>5. DOMAIN tx'[s].page \subseteq file[Authority].log
  BY <1>1 DEF CausalInv, SpokesBehind
<1>6. f.heads[s] = file[s].heads[s]
  <2>1. file[Authority].heads[s] \in Nat /\ file[Authority].heads[s] <= file[s].heads[s]
    BY <1>1, AuthorityAssumption DEF LifecycleInv, Bounded, File
  <2>2. file[s].heads[s] = 0
    BY <1>1 DEF NoFile
  <2> QED BY <1>2, <2>1, <2>2
<1> QED BY <1>1, <1>3, <1>4, <1>5, <1>6, ReplaceCausal

LEMMA CommitCausal ==
    ASSUME LifecycleInv, LifecycleInv', [Next]_vars, CausalInv, NEW r \in Replica, Commit(r)
    PROVE  CausalInv'
<1> DEFINE f == tx[r].file
<1>1. /\ tx[r].open /\ file' = [file EXCEPT ![r] = f] /\ tx' = [tx EXCEPT ![r] = NoTx]
      /\ reply' = reply /\ joined' = joined /\ r \in joined /\ f \in File
      /\ file \in [Replica -> File] /\ DOMAIN tx = Replica /\ file[r].log \subseteq f.log
  BY DEF Commit, LifecycleInv, TypeOK, InFlight, Outside
<1>2. f.log \subseteq Created
  BY <1>1 DEF LifecycleInv, Faithful, History
<1>3. /\ r = Authority => Keeps(f)
      /\ r # Authority => Behind(r, f)
      /\ Adds(file[r], f)
  BY <1>1 DEF CausalInv, AuthorityKeeps, SpokesBehind, ImportsLogged
<1>4. f.heads[r] = file[r].heads[r]
  <2>1. f.heads[r] <= file[r].heads[r] /\ file[r].heads[r] <= f.heads[r]
    BY <1>1 DEF LifecycleInv, Bounded, InFlight
  <2>2. f.heads[r] \in Nat /\ file[r].heads[r] \in Nat
    BY <1>1 DEF File
  <2> QED BY <2>1, <2>2
<1> HIDE DEF f
<1>5. Created' = Created
  BY <1>1, <1>2 DEF Created
<1>6. tx'[r] = NoTx /\ \A o \in Replica \ {r} : tx'[o] = tx[o]
  BY <1>1
<1>7. ~NoTx.open /\ DOMAIN NoTx.page = {}
  BY NoPageServable DEF NoTx
<1> QED BY <1>1, <1>3, <1>4, <1>5, <1>6, <1>7, ReplaceCausal

(* A file can take the same page when there is one event more that comes     *)
(* before none of the page.                                                  *)
LEMMA PageStays ==
    ASSUME NEW f, NEW g, NEW page, Servable(f, page), DOMAIN page \subseteq Created,
           \A d \in Created : Covered(f, d) => Covered(g, d), f.log \subseteq g.log, Adds(f, g),
           NEW e, Created' = Created \cup {e},
           \A c \in Created : Blockers(Created', c) = Blockers(Created, c)
    PROVE  \A c \in DOMAIN page :
               /\ page[c] \in Nat
               /\ Covered(g, c) => c \in g.log
               /\ \A d \in Blockers(Created', c) :
                      Covered(g, d) \/ (d \in DOMAIN page /\ page[d] < page[c])
<1>1. Servable(g, page)
  BY ServableStays
<1> QED BY <1>1 DEF Servable

(* A new event comes after its chain and after the causes in its origin's    *)
(* log, which the origin signed itself or has from the authority.            *)
LEMMA AppendCausal ==
    ASSUME LifecycleInv, LifecycleInv', [Next]_vars, CausalInv, NEW r \in Replica,
           NEW e \in Event, AppendEvent(r, e), e.origin = r, e.seq = file[r].heads[r] + 1,
           \A x \in e.causes : \E d \in file[r].log : NameOf(d) = x /\ Introduces(d, e.target)
    PROVE  CausalInv'
<1> DEFINE g == Stored(Project(file[r], e), e)
<1>1. /\ file \in [Replica -> File] /\ tx' = tx /\ reply' = reply /\ joined' = joined
      /\ ~tx[r].open /\ file' = [file EXCEPT ![r] = g]
  BY DEF LifecycleInv, TypeOK, AppendEvent, MayWrite
<1>2. g.log = file[r].log \cup {e} /\ g.heads = [file[r].heads EXCEPT ![r] = e.seq]
  BY <1>1, StoredShape
<1> HIDE DEF g
<1>3. Created' = Created \cup {e}
  BY <1>1, <1>2 DEF Created
<1>4. /\ file'[r] = g /\ \A o \in Replica \ {r} : file'[o] = file[o]
      /\ g \in File /\ \A o \in Replica : file[o] \in File /\ tx[o].file \in File
  <2>1. \A o \in Replica : file'[o] \in File /\ file[o] \in File /\ tx[o].file \in File
    BY DEF LifecycleInv, TypeOK
  <2> QED BY <1>1, <2>1
<1>5. \A o, p \in Replica : file[o].heads[p] \in Nat /\ g.heads[p] \in Nat
  BY <1>4 DEF File
<1>6. \A d \in Created : d \in Event /\ d.origin \in Replica /\ d.seq \in Nat
                         /\ (d.origin = r => d.seq < e.seq)
  <2> SUFFICES ASSUME NEW d \in Created
               PROVE  d \in Event /\ d.origin \in Replica /\ d.seq \in Nat
                      /\ (d.origin = r => d.seq < e.seq)
    OBVIOUS
  <2>1. d \in Event /\ d.origin \in Replica /\ d.seq \in Nat
    BY <1>4, CoveredOrAhead
  <2>2. d.seq <= file[d.origin].heads[d.origin]
    BY DEF LifecycleInv, OwnChains
  <2> QED BY <1>5, <2>1, <2>2
<1>7. e.seq \in Nat /\ e \notin Created
  BY <1>5, <1>6
<1>8. \A d \in Created : NameOf(d) # NameOf(e)
  BY <1>6, <1>7 DEF NameOf
<1>9. \A d \in Created : CauseOf(d, e) => d \in file[r].log /\ Introduces(d, e.target)
  <2> SUFFICES ASSUME NEW d \in Created, NameOf(d) \in e.causes
               PROVE  d \in file[r].log /\ Introduces(d, e.target)
    BY DEF CauseOf
  <2>1. PICK c \in file[r].log : NameOf(c) = NameOf(d) /\ Introduces(c, e.target)
    OBVIOUS
  <2>2. c \in Created
    BY <2>1, LogCovered
  <2>3. c = d
    BY <2>1, <2>2 DEF LifecycleInv, OwnChains
  <2> QED BY <2>1, <2>3
<1>10. /\ ~CauseOf(e, e)
       /\ \A c \in Created : ~CauseOf(e, c)
  <2>1. ~CauseOf(e, e)
    BY <1>8, LogCovered DEF CauseOf
  <2>2. \A c \in Created : ~CauseOf(e, c)
    BY <1>8 DEF CauseOf, CausalInv, CausesRecorded
  <2> QED BY <2>1, <2>2
<1>11. \A o \in Replica, d \in Created : Covered(file[o], d) => Covered(file'[o], d)
  BY CoveredStays
<1>12. \A h \in File : Bounded(h) => ~Covered(h, e)
  <2> SUFFICES ASSUME NEW h \in File, h.heads[r] <= file[r].heads[r] PROVE ~Covered(h, e)
    BY DEF Bounded
  <2>1. h.heads[r] \in Nat
    BY DEF File
  <2> QED BY <1>5, <2>1 DEF Covered
<1>13. IsFiniteSet(Created)'
  BY <1>3, FS_AddElement DEF CausalInv
<1>14. CausesRecorded'
  <2>1. ASSUME NEW d \in Created, CauseOf(d, e)
        PROVE  /\ Introduces(d, e.target)
               /\ IF d.origin = e.origin THEN d.seq < e.seq ELSE Covered(file'[Authority], d)
    <3>1. d \in file[r].log /\ Introduces(d, e.target) /\ Covered(file[r], d)
      BY <1>9, <2>1, LogCovered
    <3>2. CASE d.origin = r
      BY <1>6, <3>1, <3>2
    <3>3. CASE d.origin # r /\ r = Authority
      BY <1>11, <3>1, <3>3
    <3>4. CASE d.origin # r /\ r # Authority
      <4>1. file[r].heads[d.origin] <= file[Authority].heads[d.origin]
        BY <1>6, <3>4 DEF CausalInv, SpokesBehind, Behind
      <4>2. d.seq <= file[r].heads[d.origin]
        BY <3>1 DEF Covered
      <4>3. d.seq <= file[Authority].heads[d.origin]
        BY <1>5, <1>6, <4>1, <4>2, AuthorityAssumption
      <4>4. Covered(file'[Authority], d)
        BY <1>11, <4>3, AuthorityAssumption DEF Covered
      <4> QED BY <3>1, <3>4, <4>4
    <3> QED BY <3>2, <3>3, <3>4
  <2>2. ASSUME NEW c \in Created, NEW d \in Created, CauseOf(d, c)
        PROVE  /\ Introduces(d, c.target)
               /\ IF d.origin = c.origin THEN d.seq < c.seq ELSE Covered(file'[Authority], d)
    BY <1>11, <2>2, AuthorityAssumption DEF CausalInv, CausesRecorded
  <2>3. \A x \in e.causes : \E d \in Created : NameOf(d) = x
    BY LogCovered
  <2>4. \A c \in Created : \A x \in c.causes : \E d \in Created : NameOf(d) = x
    BY DEF CausalInv, CausesRecorded
  <2> QED BY <1>3, <1>10, <2>1, <2>2, <2>3, <2>4 DEF CausesRecorded
<1>15. Ranked'
  <2>1. PICK n \in Nat, rank \in [Created -> Nat] : \A c \in Created :
            rank[c] < n /\ \A d \in Blockers(Created, c) : rank[d] < rank[c]
    BY DEF CausalInv, Ranked
  <2> DEFINE next == [c \in Created' |-> IF c = e THEN n ELSE rank[c]]
  <2>2. n + 1 \in Nat /\ next \in [Created' -> Nat]
    BY <1>3, <2>1
  <2>3. next[e] = n /\ \A c \in Created : next[c] = rank[c] /\ rank[c] \in Nat
    BY <1>3, <1>7
  <2> HIDE DEF next
  <2>4. ASSUME NEW c \in Created', NEW d \in Blockers(Created', c)
        PROVE  next[d] < next[c]
    <3>1. d \in Created' /\ (CauseOf(d, c) \/ (d.origin = c.origin /\ d.seq < c.seq))
      BY DEF Blockers, CauseOf
    <3>2. d # e
      BY <1>3, <1>6, <1>7, <1>10, <3>1
    <3>3. CASE c = e
      BY <1>3, <2>1, <2>3, <3>1, <3>2, <3>3
    <3>4. CASE c # e
      <4>1. c \in Created /\ d \in Blockers(Created, c)
        BY <1>3, <3>1, <3>2, <3>4 DEF Blockers, CauseOf
      <4> QED BY <2>1, <2>3, <4>1 DEF Blockers
    <3> QED BY <3>3, <3>4
  <2>5. \A c \in Created' : next[c] < n + 1
    BY <1>3, <2>1, <2>3
  <2>6. \E k \in Nat, ranking \in [Created' -> Nat] : \A c \in Created' :
            ranking[c] < k /\ \A d \in Blockers(Created', c) : ranking[d] < ranking[c]
    BY <2>2, <2>4, <2>5
  <2> QED BY <2>6 DEF Ranked, Blockers
<1>16. OwnLogs'
  <2>1. e \in file'[r].log
    BY <1>2, <1>4
  <2>2. \A d \in Created : d \in file'[d.origin].log
    BY <1>6, FilesGrow DEF CausalInv, OwnLogs
  <2> QED BY <1>3, <2>1, <2>2 DEF OwnLogs
<1>17. AuthorityKeeps'
  <2>1. ASSUME NEW d \in Created', Covered(file'[Authority], d)
        PROVE  d \in file'[Authority].log
    <3>1. CASE r = Authority
      <4>1. CASE d.origin = r
        BY <1>3, <1>16, <2>1, <3>1, <4>1 DEF OwnLogs
      <4>2. CASE d.origin # r
        <5>1. d \in Created /\ d.seq <= g.heads[d.origin]
          BY <1>3, <1>4, <2>1, <3>1, <4>2 DEF Covered
        <5>2. g.heads[d.origin] = file[r].heads[d.origin]
          BY <1>2, <1>4, <1>6, <4>2, <5>1 DEF File
        <5>3. Covered(file[Authority], d)
          BY <3>1, <5>1, <5>2 DEF Covered
        <5> QED BY <1>2, <1>4, <3>1, <5>1, <5>3 DEF CausalInv, AuthorityKeeps, Keeps
      <4> QED BY <4>1, <4>2
    <3>2. CASE r # Authority
      <4>1. file'[Authority] = file[Authority] /\ Bounded(file[Authority])
        BY <1>4, <3>2, AuthorityAssumption DEF LifecycleInv
      <4>2. d \in Created
        BY <1>3, <1>4, <1>12, <2>1, <4>1, AuthorityAssumption
      <4> QED BY <2>1, <4>1, <4>2 DEF CausalInv, AuthorityKeeps, Keeps
    <3> QED BY <3>1, <3>2
  <2>2. ASSUME tx[Authority].open, NEW d \in Created', Covered(tx[Authority].file, d)
        PROVE  d \in tx[Authority].file.log
    <3>1. Bounded(tx[Authority].file)
      BY <2>2, AuthorityAssumption DEF LifecycleInv
    <3>2. d \in Created
      BY <1>3, <1>4, <1>12, <2>2, <3>1, AuthorityAssumption
    <3> QED BY <2>2, <3>2 DEF CausalInv, AuthorityKeeps, Keeps
  <2> QED BY <1>1, <2>1, <2>2 DEF AuthorityKeeps, Keeps
<1>18. SpokesBehind'
  <2>1. \A p \in Replica : /\ file[Authority].heads[p] <= file'[Authority].heads[p]
                           /\ file[Authority].heads[p] \in Nat /\ file'[Authority].heads[p] \in Nat
    BY <1>4, <1>5, FilesGrow, AuthorityAssumption
  <2>2. ASSUME NEW o \in Replica \ {Authority}, NEW h \in File, Behind(o, h)
        PROVE  \A p \in Replica \ {o} : h.heads[p] <= file'[Authority].heads[p]
    BY <2>1, <2>2 DEF Behind, File
  <2>3. ASSUME NEW o \in Replica \ {Authority}
        PROVE  /\ Behind(o, file'[o]) /\ file'[o] \in File
               /\ tx[o].open => Behind(o, tx[o].file)
               /\ DOMAIN reply[o] \cup DOMAIN tx[o].page \subseteq file'[Authority].log
    <3>1. Behind(o, file[o])
      BY DEF CausalInv, SpokesBehind
    <3>2. CASE o = r
      <4>1. \A p \in Replica \ {o} : g.heads[p] = file[o].heads[p]
        BY <1>2, <1>4, <3>2 DEF File
      <4>2. file'[Authority] = file[Authority]
        BY <1>4, <3>2, AuthorityAssumption
      <4> QED BY <1>4, <3>1, <3>2, <4>1, <4>2 DEF Behind, CausalInv, SpokesBehind
    <3>3. CASE o # r
      BY <1>4, <3>1, <3>3, FilesGrow, AuthorityAssumption DEF CausalInv, SpokesBehind
    <3> QED BY <3>2, <3>3
  <2> QED BY <1>1, <1>4, <2>2, <2>3 DEF SpokesBehind, Behind
<1>19. /\ \A o \in Replica : Adds(file[o], file'[o])
       /\ \A c \in Created : Blockers(Created', c) = Blockers(Created, c)
  <2>1. ASSUME NEW d \in Created, Covered(g, d)
        PROVE  Covered(file[r], d) \/ d \in g.log
    <3>1. CASE d.origin = r
      BY <1>2, <3>1 DEF CausalInv, OwnLogs
    <3>2. CASE d.origin # r
      <4>1. g.heads[d.origin] = file[r].heads[d.origin]
        BY <1>2, <1>4, <1>6, <3>2 DEF File
      <4> QED BY <2>1, <4>1 DEF Covered
    <3> QED BY <3>1, <3>2
  <2>2. \A o \in Replica : Adds(file[o], file'[o])
    BY <1>4, <2>1 DEF Adds
  <2>3. \A c \in Created : e \notin Blockers(Created', c)
    BY <1>6, <1>7, <1>10 DEF Blockers, CauseOf
  <2>4. \A c \in Created : Blockers(Created', c) = Blockers(Created, c)
    BY <1>3, <2>3 DEF Blockers
  <2> QED BY <2>2, <2>4
<1>20. PagesOrdered'
  <2>1. ASSUME NEW o \in Replica
        PROVE  Servable(file[o], reply[o])' /\ (tx'[o].open => Servable(tx[o].file, tx[o].page)')
    <3>1. /\ Servable(file[o], reply[o]) /\ DOMAIN reply[o] \subseteq Created
          /\ tx[o].open => Servable(tx[o].file, tx[o].page)
          /\ DOMAIN tx[o].page \subseteq Created
      BY DEF CausalInv, PagesOrdered, LifecycleInv, InFlight
    <3>2. Servable(file[o], reply[o])'
      <4>1. file[o].log \subseteq file'[o].log
        BY FilesGrow
      <4>2. \A c \in DOMAIN reply[o] :
                /\ reply[o][c] \in Nat
                /\ Covered(file'[o], c) => c \in file'[o].log
                /\ \A d \in Blockers(Created', c) :
                       \/ Covered(file'[o], d)
                       \/ d \in DOMAIN reply[o] /\ reply[o][d] < reply[o][c]
        BY <1>3, <1>11, <1>19, <3>1, <4>1, PageStays
      <4> QED BY <1>1, <4>2 DEF Servable
    <3>3. ASSUME tx[o].open PROVE Servable(tx[o].file, tx[o].page)'
      <4>1. Adds(tx[o].file, tx[o].file)
        BY DEF Adds
      <4>2. \A c \in DOMAIN tx[o].page :
                /\ tx[o].page[c] \in Nat
                /\ Covered(tx[o].file, c) => c \in tx[o].file.log
                /\ \A d \in Blockers(Created', c) :
                       \/ Covered(tx[o].file, d)
                       \/ d \in DOMAIN tx[o].page /\ tx[o].page[d] < tx[o].page[c]
        BY <1>3, <1>19, <3>1, <3>3, <4>1, PageStays
      <4> QED BY <1>1, <4>2 DEF Servable
    <3> QED BY <1>1, <3>2, <3>3
  <2> QED BY <2>1 DEF PagesOrdered
<1>21. ImportsLogged'
  <2>1. ASSUME NEW o \in Replica, tx[o].open, NEW d \in Created', Covered(tx[o].file, d)
        PROVE  Covered(file'[o], d) \/ d \in tx[o].file.log
    <3>1. Bounded(tx[o].file)
      BY <2>1 DEF LifecycleInv
    <3>2. d \in Created
      BY <1>3, <1>4, <1>12, <2>1, <3>1
    <3> QED BY <1>11, <2>1, <3>2 DEF CausalInv, ImportsLogged, Adds
  <2> QED BY <1>1, <2>1 DEF ImportsLogged, Adds
<1>22. ChainsWhole'
  <2>1. \A o \in Replica : file'[o].heads[o] = IF o = r THEN file[r].heads[r] + 1 ELSE file[o].heads[o]
    BY <1>2, <1>4 DEF File
  <2>2. ASSUME NEW o \in Replica, NEW k \in 1 .. file'[o].heads[o]
        PROVE  \E d \in Created \cup {e} : d.origin = o /\ d.seq = k
    <3>1. CASE k \in 1 .. file[o].heads[o]
      BY <3>1 DEF CausalInv, ChainsWhole
    <3>2. CASE k \notin 1 .. file[o].heads[o]
      <4>1. o = r /\ k = file[r].heads[r] + 1
        BY <1>5, <2>1, <3>2
      <4> QED BY <4>1
    <3> QED BY <3>1, <3>2
  <2> QED BY <1>3, <2>2 DEF ChainsWhole
<1>23. OnlyMembersPull'
  BY <1>1 DEF CausalInv, OnlyMembersPull
<1> QED
  BY <1>13, <1>14, <1>15, <1>16, <1>17, <1>18, <1>20, <1>21, <1>22, <1>23 DEF CausalInv

(* CreateNote names no cause; SupersedeNote names the event that recorded    *)
(* the note, where r has it in its log.                                      *)
LEMMA MutationCausal ==
    ASSUME LifecycleInv, LifecycleInv', [Next]_vars, CausalInv,
           NEW r \in Replica, NEW n \in Note, NEW t \in Time,
           CreateNote(r, n, t) \/ \E m \in Note \cup {None}, run \in {"own", "unchecked"} : SupersedeNote(r, n, m, run, t)
    PROVE  CausalInv'
<1>1. file[r] \in File /\ file[r].heads[r] \in Nat /\ file[r].log \subseteq Event
  BY DEF LifecycleInv, TypeOK, File
<1>2. CASE CreateNote(r, n, t)
  <2> DEFINE e == LocalEvent(r, "note.recorded", n, None, "own", {}, t)
  <2>1. e \in Event /\ e.origin = r /\ e.seq = file[r].heads[r] + 1 /\ e.causes = {}
    BY <1>1 DEF LocalEvent, Event
  <2>2. AppendEvent(r, e)
    BY <1>2 DEF CreateNote
  <2> HIDE DEF e
  <2> QED BY <2>1, <2>2, AppendCausal
<1>3. ASSUME NEW m \in Note \cup {None}, NEW run \in {"own", "unchecked"}, SupersedeNote(r, n, m, run, t)
      PROVE  CausalInv'
  <2> DEFINE e == LocalEvent(r, "note.superseded", n, m, run, EventCause(r, n), t)
  <2>1. EventCause(r, n) \subseteq EventName
    BY <1>1 DEF EventCause, EventName, NameOf, Event
  <2>2. /\ e \in Event /\ e.origin = r /\ e.seq = file[r].heads[r] + 1
        /\ e.target = n /\ e.causes = EventCause(r, n)
    BY <1>1, <2>1 DEF LocalEvent, Event
  <2>3. AppendEvent(r, e)
    BY <1>3 DEF SupersedeNote
  <2> HIDE DEF e
  <2>4. \A x \in e.causes : \E d \in file[r].log : NameOf(d) = x /\ Introduces(d, e.target)
    BY <2>2 DEF EventCause, Introduces
  <2> QED BY <2>2, <2>3, <2>4, AppendCausal
<1> QED BY <1>2, <1>3

(* One case per action.                                                      *)
LEMMA CausalStep == LifecycleInv /\ LifecycleInv' /\ CausalInv /\ [Next]_vars => CausalInv'
<1> SUFFICES ASSUME LifecycleInv, LifecycleInv', CausalInv, [Next]_vars PROVE CausalInv'
  OBVIOUS
<1>1. ASSUME NEW r \in Replica, NEW n \in Note, NEW t \in Time,
             CreateNote(r, n, t) \/ \E m \in Note \cup {None}, run \in {"own", "unchecked"} : SupersedeNote(r, n, m, run, t)
      PROVE  CausalInv'
  BY <1>1, MutationCausal
<1>2. ASSUME NEW s \in Replica, Join(s) PROVE CausalInv'
  BY <1>2, JoinCausal
<1>3. ASSUME NEW s \in Replica, Pull(s) PROVE CausalInv'
  BY <1>3, PullCausal
<1>4. ASSUME NEW s \in Replica, LoseReply(s) \/ Rollback(s) PROVE CausalInv'
  BY <1>4, UndoneCausal
<1>5. ASSUME NEW s \in Replica, ImportReply(s) PROVE CausalInv'
  <2>1. Begin(s, reply[s]) /\ reply' = [reply EXCEPT ![s] = NoPage]
    BY <1>5 DEF ImportReply
  <2>2. Servable(file[s], reply[s])
    BY DEF CausalInv, PagesOrdered
  <2>3. s # Authority => DOMAIN reply[s] \subseteq file[Authority].log
    BY DEF CausalInv, SpokesBehind
  <2> QED BY <2>1, <2>2, <2>3, BeginCausal
<1>6. ASSUME NEW s \in Replica, Push(s) PROVE CausalInv'
  BY <1>6, PushCausal
<1>7. ASSUME NEW r \in Replica, NEW e, SkipEvent(r, e) \/ ImportEvent(r, e) PROVE CausalInv'
  BY <1>7, ImportCausal
<1>8. ASSUME NEW r \in Replica, Commit(r) PROVE CausalInv'
  BY <1>8, CommitCausal
<1>9. CASE UNCHANGED vars
  <2>1. file' = file /\ tx' = tx /\ reply' = reply /\ joined' = joined
    BY <1>9 DEF vars
  <2> QED
    BY <2>1, QuietCausal
       DEF CausalInv, OnlyMembersPull, AuthorityKeeps, SpokesBehind, ImportsLogged, PagesOrdered
<1> QED BY <1>1, <1>2, <1>3, <1>4, <1>5, <1>6, <1>7, <1>8, <1>9 DEF Next

LEMMA CausalInit == Init => CausalInv
<1> SUFFICES ASSUME Init PROVE CausalInv
  OBVIOUS
<1>1. /\ \A r \in Replica : /\ file[r] = NoFile /\ tx[r] = NoTx /\ reply[r] = NoPage
      /\ joined = {Authority}
  BY DEF Init
<1>2. /\ NoFile.log = {} /\ \A o \in Replica : NoFile.heads[o] = 0
      /\ ~NoTx.open /\ NoTx.page = NoPage
  BY DEF NoFile, NoTx
<1>3. Created = {}
  BY <1>1, <1>2 DEF Created
<1>4. IsFiniteSet(Created) /\ CausesRecorded /\ OwnLogs
  BY <1>3, FS_EmptySet DEF CausesRecorded, OwnLogs
<1>5. Ranked
  <2>1. [e \in Created |-> 0] \in [Created -> Nat] /\ 0 \in Nat
    OBVIOUS
  <2> QED BY <1>3, <2>1 DEF Ranked
<1>6. AuthorityKeeps
  BY <1>1, <1>2, <1>3, AuthorityAssumption DEF AuthorityKeeps, Keeps
<1>7. SpokesBehind
  BY <1>1, <1>2, NoPageServable, AuthorityAssumption DEF SpokesBehind, Behind
<1>8. PagesOrdered /\ ImportsLogged /\ OnlyMembersPull
  BY <1>1, <1>2, NoPageServable DEF PagesOrdered, ImportsLogged, OnlyMembersPull
<1>9. ChainsWhole
  BY <1>1, <1>2 DEF ChainsWhole
<1> QED BY <1>4, <1>5, <1>6, <1>7, <1>8, <1>9 DEF CausalInv

(* Whatever the clocks, the pages and the snapshots: causes are recorded     *)
(* events, and every response and every open import of ImportEvents has the  *)
(* chain and the causes of an event before the event.                        *)
THEOREM CausalInvariance == Spec => [](LifecycleInv /\ CausalInv)
<1>1. Init => LifecycleInv /\ CausalInv
  BY InitInv, CausalInit
<1>2. (LifecycleInv /\ CausalInv) /\ [Next]_vars => (LifecycleInv /\ CausalInv)'
  BY NextInv, CausalStep
<1> QED BY <1>1, <1>2, PTL DEF Spec

(* The events of a chain below one that a page has reached are there.        *)
LEMMA NextInChain ==
    ASSUME LifecycleInv, CausalInv, NEW r \in Replica, NEW e \in DOMAIN tx[r].page,
           Reached(r, e), e \notin tx[r].file.log
    PROVE  /\ e.seq = tx[r].file.heads[e.origin] + 1
           /\ \A d \in Blockers(Created, e) : Covered(tx[r].file, d)
<1> DEFINE f == tx[r].file
           page == tx[r].page
<1>1. tx[r].open /\ e \in Created /\ f \in File /\ Servable(f, page)
  BY DEF Reached, LifecycleInv, TypeOK, InFlight, CausalInv, PagesOrdered
<1>2. \A d \in DOMAIN page : page[d] \in Nat /\ page[e] <= page[d]
  BY <1>1 DEF Reached, Servable
<1>3. ~Covered(f, e)
  BY <1>1 DEF Servable
<1> HIDE DEF f, page
<1>4. \A d \in Blockers(Created, e) : Covered(f, d)
  <2> SUFFICES ASSUME NEW d \in DOMAIN page, page[d] < page[e] PROVE FALSE
    BY <1>1, <1>2 DEF Servable, page
  <2> QED BY <1>2 DEF page
<1>5. /\ e.origin \in Replica /\ e.seq \in Nat /\ f.heads[e.origin] \in Nat
      /\ f.heads[e.origin] < e.seq
  BY <1>1, <1>3, CoveredOrAhead
<1>6. ASSUME f.heads[e.origin] + 1 < e.seq PROVE FALSE
  <2> DEFINE k == f.heads[e.origin] + 1
  <2>1. e.seq <= file[e.origin].heads[e.origin] /\ file[e.origin].heads[e.origin] \in Nat
    <3>1. file[e.origin] \in File
      BY <1>5 DEF LifecycleInv, TypeOK
    <3> QED BY <1>1, <1>5, <3>1 DEF LifecycleInv, OwnChains, File
  <2>2. k \in 1 .. file[e.origin].heads[e.origin]
    BY <1>5, <1>6, <2>1
  <2>3. PICK d \in Created : d.origin = e.origin /\ d.seq = k
    BY <1>5, <2>2 DEF CausalInv, ChainsWhole
  <2>4. d \in Blockers(Created, e)
    BY <1>6, <2>3 DEF Blockers
  <2>5. Covered(f, d)
    BY <1>4, <2>4
  <2> QED BY <1>5, <2>3, <2>5 DEF Covered
<1> QED BY <1>4, <1>5, <1>6 DEF f

(* ImportEvents finds no gap in a chain, and refuses no supersession that     *)
(* has a causal edge and a checked run: EventsAfter, EventsForOriginAfter and *)
(* the snapshot deliver what an event rests on before the event, however     *)
(* many replicas there are and whatever their clocks show.                   *)
THEOREM CausesArrive == Spec => []RefusedOnlyIfLoose
<1>1. LifecycleInv /\ CausalInv => RefusedOnlyIfLoose
  <2> SUFFICES ASSUME LifecycleInv, CausalInv, NEW r \in Replica, NEW e \in DOMAIN tx[r].page,
                      NEW hasRun \in BOOLEAN, Reached(r, e), e \notin tx[r].file.log,
                      ~(e.type = "note.superseded" /\ (e.causes = {} \/ e.run = "unchecked"))
               PROVE  Accepts(tx[r].file, e, hasRun)
    BY DEF RefusedOnlyIfLoose
  <2> DEFINE f == tx[r].file
  <2>1. tx[r].open /\ e \in Created /\ e \in Event
    BY DEF Reached, LifecycleInv, TypeOK, InFlight
  <2>2. e.seq = f.heads[e.origin] + 1
    BY NextInChain
  <2>3. ASSUME e.type = "note.superseded" PROVE Known(f, e.target)
    <3>1. PICK d \in Created : CauseOf(d, e)
      BY <2>1, <2>3 DEF CausalInv, CausesRecorded, CauseOf
    <3>2. Introduces(d, e.target)
      BY <2>1, <3>1 DEF CausalInv, CausesRecorded
    <3>3. Covered(f, d)
      BY <3>1, NextInChain DEF Blockers, CauseOf
    <3>4. f.notes[e.target].status = StatusOf(History(f), e.target)
      BY <2>1 DEF LifecycleInv, Faithful, StatusesFrom, Event
    <3>5. d \in History(f)
      BY <3>3 DEF History
    <3> HIDE DEF f
    <3>6. StatusOf(History(f), e.target) # "absent"
      BY <3>2, <3>5 DEF StatusOf
    <3> QED BY <3>4, <3>6 DEF Known
  <2>4. e.type = "note.superseded" => e.run = "own"
    BY <2>1 DEF Event
  <2> QED BY <2>2, <2>3, <2>4 DEF Accepts, Valid
<1> QED BY <1>1, CausalInvariance, PTL

-----------------------------------------------------------------------------
(* Refinement of WorkspaceHistory                                            *)

(* The history of an origin is the sequence of its events.                   *)
LEMMA ChainShape ==
    LifecycleInv /\ CausalInv =>
        \A o \in Replica :
            /\ file[o].heads[o] \in Nat
            /\ Chain(o) \in Seq(Event) /\ Len(Chain(o)) = file[o].heads[o]
            /\ Chain(o) = [k \in 1 .. file[o].heads[o] |-> Chain(o)[k]]
            /\ \A k \in 1 .. file[o].heads[o] :
                   /\ Chain(o)[k] \in Created
                   /\ Chain(o)[k].origin = o /\ Chain(o)[k].seq = k
                   /\ \A d \in Created : d.origin = o /\ d.seq = k => d = Chain(o)[k]
<1> SUFFICES ASSUME LifecycleInv, CausalInv, NEW o \in Replica
             PROVE  /\ file[o].heads[o] \in Nat
                    /\ Chain(o) \in Seq(Event) /\ Len(Chain(o)) = file[o].heads[o]
                    /\ Chain(o) = [k \in 1 .. file[o].heads[o] |-> Chain(o)[k]]
                    /\ \A k \in 1 .. file[o].heads[o] :
                           /\ Chain(o)[k] \in Created
                           /\ Chain(o)[k].origin = o /\ Chain(o)[k].seq = k
                           /\ \A d \in Created : d.origin = o /\ d.seq = k => d = Chain(o)[k]
  OBVIOUS
<1> DEFINE n == file[o].heads[o]
<1>1. n \in Nat
  BY DEF LifecycleInv, TypeOK, File
<1>2. \A d, e \in Created : d.origin = e.origin /\ d.seq = e.seq => d = e
  BY DEF LifecycleInv, OwnChains, NameOf
<1>3. Chain(o) = [k \in 1 .. n |-> Chain(o)[k]]
  BY DEF Chain
<1>4. ASSUME NEW k \in 1 .. n
      PROVE  /\ Chain(o)[k] \in Created
             /\ Chain(o)[k].origin = o /\ Chain(o)[k].seq = k
             /\ \A d \in Created : d.origin = o /\ d.seq = k => d = Chain(o)[k]
  <2> DEFINE e == CHOOSE e \in file[o].log : e.origin = o /\ e.seq = k
  <2>1. Chain(o)[k] = e
    BY DEF Chain
  <2>2. PICK d \in Created : d.origin = o /\ d.seq = k
    BY DEF CausalInv, ChainsWhole
  <2>3. d \in file[o].log
    BY <2>2 DEF CausalInv, OwnLogs
  <2>4. e \in file[o].log /\ e.origin = o /\ e.seq = k
    BY <2>2, <2>3
  <2> HIDE DEF e
  <2>5. e \in Created
    BY <2>4, LogCovered
  <2> QED BY <1>2, <2>1, <2>4, <2>5
<1>5. Chain(o) \in Seq(Event) /\ Len(Chain(o)) = n
  <2>1. \A k \in 1 .. n : Chain(o)[k] \in Event
    BY <1>4, CreatedEvents
  <2> HIDE DEF n
  <2> QED BY <1>1, <1>3, <2>1
<1> QED BY <1>1, <1>3, <1>4, <1>5

(* An event of the chain is where its number says.                           *)
Placed(o) ==
    /\ file[o].heads[o] \in Nat
    /\ Chain(o) \in Seq(Event) /\ Len(Chain(o)) = file[o].heads[o]
    /\ \A k \in 1 .. file[o].heads[o] : \A d \in Created :
           d.origin = o /\ d.seq = k => d = Chain(o)[k]
AllPlaced == \A o \in Replica : Placed(o)

LEMMA PlaceInChain == LifecycleInv /\ CausalInv => AllPlaced
BY ChainShape DEF AllPlaced, Placed

\* One element more at the end.
LEMMA OneMore ==
    ASSUME NEW S, NEW s \in Seq(S), NEW t \in Seq(S), NEW e,
           Len(t) = Len(s) + 1, \A k \in 1 .. Len(s) : t[k] = s[k], t[Len(s) + 1] = e
    PROVE  t = Append(s, e)
OBVIOUS

(* What an origin has published stays as it is.                              *)
LEMMA ChainStays ==
    ASSUME LifecycleInv, LifecycleInv', CausalInv, CausalInv', [Next]_vars, NEW o \in Replica
    PROVE  \A k \in 1 .. file[o].heads[o] : Chain(o)'[k] = Chain(o)[k]
<1> SUFFICES ASSUME NEW k \in 1 .. file[o].heads[o] PROVE Chain(o)'[k] = Chain(o)[k]
  OBVIOUS
<1>1. /\ Chain(o)[k] \in Created /\ Chain(o)[k].origin = o /\ Chain(o)[k].seq = k
      /\ file[o].heads[o] \in Nat
  BY ChainShape
<1>2. Created \subseteq Created'
  BY FilesGrow DEF Created
<1>3. \A p \in Replica : Placed(p)'
  <2>1. AllPlaced'
    BY PlaceInChain, PTL
  <2> QED BY <2>1 DEF AllPlaced
<1>4. k \in 1 .. file'[o].heads[o]
  <2>1. file'[o].heads[o] \in Nat /\ file[o].heads[o] <= file'[o].heads[o]
    BY <1>3, FilesGrow DEF Placed
  <2> QED BY <1>1, <2>1
<1> QED BY <1>1, <1>2, <1>3, <1>4 DEF Placed

(* A mutation publishes its event.                                           *)
LEMMA AppendPublishes ==
    ASSUME LifecycleInv, LifecycleInv', CausalInv, CausalInv', [Next]_vars,
           NEW r \in Replica, NEW e \in Event, AppendEvent(r, e),
           e.origin = r, e.seq = file[r].heads[r] + 1
    PROVE  Chains!Publish(r, e)
<1> DEFINE n == file[r].heads[r]
           chains == [o \in Replica |-> Chain(o)]
           known == [s \in Replica |-> file[s].heads]
<1>1. /\ file \in [Replica -> File] /\ n \in Nat
      /\ \A s \in Replica : file[s].heads \in [Replica -> Nat]
  <2>1. file \in [Replica -> File]
    BY DEF LifecycleInv, TypeOK
  <2> QED BY <2>1 DEF File
<1>2. /\ file'[r].log = file[r].log \cup {e}
      /\ file'[r].heads = [file[r].heads EXCEPT ![r] = n + 1]
      /\ \A s \in Replica \ {r} : file'[s] = file[s]
  <2> DEFINE g == Stored(Project(file[r], e), e)
  <2>1. file' = [file EXCEPT ![r] = g]
    BY DEF AppendEvent
  <2>2. g.log = file[r].log \cup {e} /\ g.heads = [file[r].heads EXCEPT ![r] = e.seq]
    BY <1>1, StoredShape
  <2> HIDE DEF g
  <2> QED BY <1>1, <2>1, <2>2
<1>3. e \notin Created
  <2> SUFFICES ASSUME e \in Created PROVE FALSE
    OBVIOUS
  <2>1. e.seq <= file[r].heads[r]
    BY DEF LifecycleInv, OwnChains
  <2> QED BY <1>1, <2>1
<1>4. \A o \in Replica :
          /\ Chain(o) \in Seq(Event) /\ Len(Chain(o)) = file[o].heads[o]
          /\ DOMAIN Chain(o) = 1 .. file[o].heads[o]
          /\ \A k \in 1 .. file[o].heads[o] : Chain(o)[k] \in Created
          /\ Chain(o) = [k \in 1 .. file[o].heads[o] |-> Chain(o)[k]]
          /\ Chain(o)' = [k \in 1 .. file'[o].heads[o] |-> Chain(o)'[k]]
          /\ Chain(o)' \in Seq(Event) /\ Len(Chain(o)') = file'[o].heads[o]
  <2>1. \A p \in Replica : Placed(p)'
    <3>1. AllPlaced'
      BY PlaceInChain, PTL
    <3> QED BY <3>1 DEF AllPlaced
  <2>2. \A o \in Replica : Chain(o)' = [k \in 1 .. file'[o].heads[o] |-> Chain(o)'[k]]
    BY DEF Chain
  <2>3. \A o \in Replica : DOMAIN Chain(o) = 1 .. file[o].heads[o]
    BY DEF Chain
  <2> QED BY <2>1, <2>2, <2>3, ChainShape DEF Placed
<1>5. Chain(r)'[n + 1] = e
  <2>1. \A p \in Replica : Placed(p)'
    <3>1. AllPlaced'
      BY PlaceInChain, PTL
    <3> QED BY <3>1 DEF AllPlaced
  <2>2. e \in Created'
    BY <1>2 DEF Created
  <2>3. n + 1 \in 1 .. file'[r].heads[r]
    BY <1>1, <1>2
  <2> QED BY <2>1, <2>2, <2>3 DEF Placed
<1>6. \A o \in Replica : file'[o].heads[o] = IF o = r THEN n + 1 ELSE file[o].heads[o]
  BY <1>1, <1>2
<1>7. [o \in Replica |-> Chain(o)'] = [chains EXCEPT ![r] = Append(@, e)]
  <2>1. Chain(r)' = Append(Chain(r), e)
    <3>1. \A k \in 1 .. n : Chain(r)'[k] = Chain(r)[k]
      BY ChainStays
    <3>2. Chain(r)' = [k \in 1 .. n + 1 |-> Chain(r)'[k]]
      BY <1>4, <1>6
    <3>3. /\ Chain(r) \in Seq(Event) /\ Len(Chain(r)) = n
          /\ Chain(r)' \in Seq(Event) /\ Len(Chain(r)') = n + 1
      BY <1>4, <1>6
    <3> HIDE DEF n
    <3> QED BY <1>5, <3>1, <3>3, OneMore
  <2>2. ASSUME NEW o \in Replica, o # r PROVE Chain(o)' = Chain(o)
    <3>1. file'[o].heads[o] = file[o].heads[o]
      BY <1>6, <2>2
    <3>2. \A k \in 1 .. file[o].heads[o] : Chain(o)'[k] = Chain(o)[k]
      BY ChainStays
    <3> QED BY <1>4, <3>1, <3>2
  <2> QED BY <2>1, <2>2
<1>8. [s \in Replica |-> file'[s].heads] = [known EXCEPT ![r][r] = Len(chains[r]) + 1]
  <2>1. Len(chains[r]) = n
    BY <1>4
  <2>2. \A s \in Replica : file'[s].heads = IF s = r THEN [file[r].heads EXCEPT ![r] = n + 1]
                                                    ELSE file[s].heads
    BY <1>2
  <2> HIDE DEF n, chains
  <2> QED BY <2>1, <2>2
<1>9. \A p \in Replica : \A k \in DOMAIN chains[p] : chains[p][k] # e
  BY <1>3, <1>4
<1> QED BY <1>7, <1>8, <1>9 DEF Chains!Publish

(* Where no event is added, at most one replica learns.                      *)
LEMMA LearnOrStutter ==
    ASSUME LifecycleInv, LifecycleInv', CausalInv, CausalInv', [Next]_vars, NEW r \in Replica,
           \A s \in Replica \ {r} : file'[s].heads = file[s].heads,
           file'[r].heads[r] = file[r].heads[r]
    PROVE  Chains!Learn(r)
<1> DEFINE known == [s \in Replica |-> file[s].heads]
           learned == [s \in Replica |-> file'[s].heads]
<1>1. \A s \in Replica : file[s].heads \in [Replica -> Nat] /\ file'[s].heads \in [Replica -> Nat]
  <2>1. \A s \in Replica : file[s] \in File /\ file'[s] \in File
    BY DEF LifecycleInv, TypeOK
  <2> QED BY <2>1 DEF File
<1>2. \A o \in Replica : file'[o].heads[o] = file[o].heads[o]
  OBVIOUS
<1>3. \A o \in Replica : Len(Chain(o)) = file[o].heads[o]
  BY ChainShape
<1>4. \A o \in Replica : Chain(o)' = Chain(o)
  <2> SUFFICES ASSUME NEW o \in Replica PROVE Chain(o)' = Chain(o)
    OBVIOUS
  <2>1. \A k \in 1 .. file[o].heads[o] : Chain(o)'[k] = Chain(o)[k]
    BY ChainStays
  <2>2. /\ Chain(o) = [k \in 1 .. file[o].heads[o] |-> Chain(o)[k]]
        /\ Chain(o)' = [k \in 1 .. file'[o].heads[o] |-> Chain(o)'[k]]
    BY DEF Chain
  <2> QED BY <1>2, <2>1, <2>2
<1>5. \A o \in Replica : known[r][o] <= learned[r][o]
  BY FilesGrow
<1>6. \A o \in Replica : learned[r][o] <= Len(Chain(o))
  <2>1. \A o \in Replica : file'[r].heads[o] <= file'[o].heads[o]
    BY DEF LifecycleInv, Bounded
  <2> QED BY <1>2, <1>3, <2>1
<1>7. [o \in Replica |-> Chain(o)'] = [o \in Replica |-> Chain(o)]
  BY <1>4
<1>8. learned \in [Replica -> [Replica -> Nat]] /\ \A s \in Replica \ {r} : learned[s] = known[s]
  BY <1>1
<1>9. \A o \in Replica : known[r][o] <= learned[r][o] /\ learned[r][o] <= Len([p \in Replica |-> Chain(p)][o])
  BY <1>5, <1>6
<1> QED BY <1>7, <1>8, <1>9 DEF Chains!Learn

(* Every step of the notes is a step of the histories, or none.              *)
LEMMA RefinesStep ==
    LifecycleInv /\ LifecycleInv' /\ CausalInv /\ CausalInv' /\ [Next]_vars =>
        [Chains!Next]_<<[o \in Replica |-> Chain(o)], [r \in Replica |-> file[r].heads]>>
<1> SUFFICES ASSUME LifecycleInv, LifecycleInv', CausalInv, CausalInv', [Next]_vars
             PROVE  [Chains!Next]_<<[o \in Replica |-> Chain(o)], [r \in Replica |-> file[r].heads]>>
  OBVIOUS
<1>1. ASSUME NEW r \in Replica, NEW n \in Note, NEW t \in Time, CreateNote(r, n, t)
      PROVE  Chains!Next
  <2>1. file[r].heads[r] \in Nat
    BY DEF LifecycleInv, TypeOK, File
  <2>2. PICK e \in Event : e = LocalEvent(r, "note.recorded", n, None, "own", {}, t)
    <3>1. LocalEvent(r, "note.recorded", n, None, "own", {}, t) \in Event
      BY <2>1 DEF LocalEvent, Event
    <3> QED BY <3>1
  <2>3. AppendEvent(r, e) /\ e.origin = r /\ e.seq = file[r].heads[r] + 1
    BY <1>1, <2>2 DEF CreateNote, LocalEvent
  <2>4. Chains!Publish(r, e)
    BY <2>3, AppendPublishes
  <2> QED BY <2>4 DEF Chains!Next
<1>2. ASSUME NEW r \in Replica, NEW n \in Note, NEW m \in Note \cup {None},
             NEW run \in {"own", "unchecked"}, NEW t \in Time, SupersedeNote(r, n, m, run, t)
      PROVE  Chains!Next
  <2>1. file[r].heads[r] \in Nat /\ file[r].log \subseteq Event
    BY DEF LifecycleInv, TypeOK, File
  <2>2. EventCause(r, n) \subseteq EventName
    BY <2>1 DEF EventCause, EventName, NameOf, Event
  <2>3. PICK e \in Event : e = LocalEvent(r, "note.superseded", n, m, run, EventCause(r, n), t)
    <3>1. LocalEvent(r, "note.superseded", n, m, run, EventCause(r, n), t) \in Event
      BY <2>1, <2>2 DEF LocalEvent, Event
    <3> QED BY <3>1
  <2>4. AppendEvent(r, e) /\ e.origin = r /\ e.seq = file[r].heads[r] + 1
    BY <1>2, <2>3 DEF SupersedeNote, LocalEvent
  <2>5. Chains!Publish(r, e)
    BY <2>4, AppendPublishes
  <2> QED BY <2>5 DEF Chains!Next
<1>3. ASSUME NEW r \in Replica, Join(r) \/ Commit(r)
      PROVE  Chains!Next
  <2>1. \A s \in Replica \ {r} : file'[s] = file[s]
    BY <1>3 DEF Join, Commit, LifecycleInv, TypeOK
  <2>2. file'[r].heads[r] = file[r].heads[r]
    <3>1. file'[r].heads[r] <= file[r].heads[r]
      <4>1. CASE Join(r)
        <5>1. file'[r].heads = file[Authority].heads /\ file[Authority].heads[r] <= file[r].heads[r]
          <6>1. file \in [Replica -> File] /\ file[Authority] \in File /\ Bounded(file[Authority])
            BY AuthorityAssumption DEF LifecycleInv, TypeOK
          <6>2. file'[r] = [file[Authority] EXCEPT !.log = {}]
            BY <4>1, <6>1 DEF Join
          <6> QED BY <6>1, <6>2 DEF File, Bounded
        <5> QED BY <5>1
      <4>2. CASE Commit(r)
        BY <4>2 DEF Commit, LifecycleInv, TypeOK, Bounded
      <4> QED BY <1>3, <4>1, <4>2
    <3>2. file[r].heads[r] <= file'[r].heads[r]
      BY FilesGrow
    <3>3. file[r].heads[r] \in Nat /\ file'[r].heads[r] \in Nat
      <4>1. file[r] \in File /\ file'[r] \in File
        BY DEF LifecycleInv, TypeOK
      <4> QED BY <4>1 DEF File
    <3> QED BY <3>1, <3>2, <3>3
  <2>3. Chains!Learn(r)
    BY <2>1, <2>2, LearnOrStutter
  <2> QED BY <2>3 DEF Chains!Next
<1>4. CASE file' = file
  BY <1>4 DEF Chain
<1> QED
  BY <1>1, <1>2, <1>3, <1>4
     DEF Next, vars, Pull, LoseReply, ImportReply, Push, Begin, SkipEvent, ImportEvent, Rollback

(* At first nobody has published anything.                                   *)
LEMMA RefinesInit == Init => Chains!Init
<1> SUFFICES ASSUME Init PROVE Chains!Init
  OBVIOUS
<1>1. \A r \in Replica : file[r].heads = [o \in Replica |-> 0]
  BY DEF Init, NoFile
<1>2. \A o \in Replica : Chain(o) = << >>
  <2> SUFFICES ASSUME NEW o \in Replica PROVE Chain(o) = << >>
    OBVIOUS
  <2>1. Chain(o) \in Seq(Event) /\ Len(Chain(o)) = 0
    BY <1>1, InitInv, CausalInit, ChainShape
  <2> QED BY <2>1
<1> QED BY <1>1, <1>2 DEF Chains!Init

(* The notes rest on the histories that module Replication implements: what  *)
(* CreateNote and SupersedeNote append is published once, in order, and the  *)
(* snapshot and ImportEvents teach a replica more of it, never less.         *)
THEOREM Implementation == Spec => ImplementsHistory
<1>1. LifecycleInv /\ LifecycleInv' /\ CausalInv /\ CausalInv' /\ [Next]_vars =>
        [Chains!Next]_<<[o \in Replica |-> Chain(o)], [r \in Replica |-> file[r].heads]>>
  BY RefinesStep
<1> QED
  BY <1>1, RefinesInit, CausalInvariance, PTL DEF Spec, ImplementsHistory, Chains!Spec
=============================================================================
