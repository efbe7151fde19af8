-------------------------- MODULE MutationsProofs --------------------------
(***************************************************************************)
(* Proofs about module Mutations, for any keys, runs, trajectories,        *)
(* handlers and reports.                                                   *)
(***************************************************************************)
EXTENDS Mutations, TLAPS, WellFoundedInduction

LEMMA KeysApart ==
    /\ \A k \in Key : OwnKey(k) \in ReceiptKey /\ DeliveryKey(k) \in ReceiptKey
    /\ \A k1, k2 \in Key : OwnKey(k1) # DeliveryKey(k2)
    /\ \A k1, k2 \in Key : OwnKey(k1) = OwnKey(k2) => k1 = k2
    /\ \A k1, k2 \in Key : DeliveryKey(k1) = DeliveryKey(k2) => k1 = k2
  BY DEF OwnKey, DeliveryKey, ReceiptKey

LEMMA Inputs ==
    /\ \A head \in Commit \cup {None} : HeadOnly(head) \in Evidence
    /\ \A op \in {"start", "end", "link"}, e \in Evidence : InputOf(op, e) \in Input
    /\ \A r \in Run, head \in Commit \cup {None} : TrajectoryInput(r, head) \in Input
    /\ \A old, e \in Evidence : Merged(old, e) \in Evidence
    /\ NoEvidence \in Evidence
    /\ \A e \in Reported : e \in Evidence /\ e.head \in Commit \cup {None}
  <1>1. NoEvidence \in Evidence
    BY DEF NoEvidence, Evidence
  <1>2. \A head \in Commit \cup {None} : HeadOnly(head) \in Evidence
    BY DEF HeadOnly, NoEvidence, Evidence
  <1>3. \A op \in {"start", "end", "link"}, e \in Evidence : InputOf(op, e) \in Input
    BY DEF InputOf, Input
  <1>4. \A r \in Run, head \in Commit \cup {None} : TrajectoryInput(r, head) \in Input
    BY <1>2 DEF TrajectoryInput, Input
  <1>5. \A old, e \in Evidence : Merged(old, e) \in Evidence
    BY DEF Merged, Evidence
  <1>6. \A e \in Reported : e \in Evidence /\ e.head \in Commit \cup {None}
    BY ReportedIsEvidence DEF Evidence
  <1> QED
    BY <1>1, <1>2, <1>3, <1>4, <1>5, <1>6

\* A recorded event comes after those before it, and only its receipt changes.
LEMMA RecordShape ==
    ASSUME TypeOK, NEW k \in ReceiptKey, NEW input \in Input, NEW event \in Event,
           Record(k, input, event)
    PROVE  /\ log' \in Seq(Event)
           /\ receipt' \in [ReceiptKey -> Receipt \cup {NoReceipt}]
           /\ Len(log) \in Nat
           /\ DOMAIN log = 1 .. Len(log)
           /\ DOMAIN log' = 1 .. Len(log) + 1
           /\ Len(log') = Len(log) + 1
           /\ \A i \in DOMAIN log : log'[i] = log[i]
           /\ log'[Len(log) + 1] = event
           /\ receipt[k] = NoReceipt
           /\ receipt'[k] = [input |-> input, event |-> Len(log) + 1]
           /\ receipt'[k] # NoReceipt
           /\ \A k2 \in ReceiptKey : k2 # k => receipt'[k2] = receipt[k2]
  <1>1. /\ log \in Seq(Event)
        /\ log' = Append(log, event)
    BY DEF TypeOK, Record
  <1>2. /\ log' \in Seq(Event)
        /\ Len(log) \in Nat
        /\ DOMAIN log = 1 .. Len(log)
        /\ DOMAIN log' = 1 .. Len(log) + 1
        /\ Len(log') = Len(log) + 1
        /\ \A i \in DOMAIN log : log'[i] = log[i]
        /\ log'[Len(log) + 1] = event
    BY <1>1
  <1>3. [input |-> input, event |-> Len(log) + 1] \in Receipt
    BY <1>2 DEF Receipt
  <1>4. /\ receipt[k] = NoReceipt
        /\ receipt'[k] = [input |-> input, event |-> Len(log) + 1]
        /\ \A k2 \in ReceiptKey : k2 # k => receipt'[k2] = receipt[k2]
        /\ receipt' \in [ReceiptKey -> Receipt \cup {NoReceipt}]
    BY <1>3 DEF TypeOK, Record, Fresh
  <1>5. receipt'[k] # NoReceipt
    <2>1. receipt'[k].event = Len(log) + 1
      BY <1>4
    <2>2. NoReceipt.event = 0
      BY DEF NoReceipt
    <2> QED
      BY <2>1, <2>2, <1>2
  <1> QED
    BY <1>2, <1>4, <1>5

\* What is in a row of receipts.
LEMMA ReceiptFacts ==
    ASSUME TypeOK, NEW k \in ReceiptKey
    PROVE  /\ Fresh(k) => receipt[k].event = 0
           /\ ~Fresh(k) => /\ receipt[k] \in Receipt
                           /\ receipt[k].event \in Nat \ {0}
                           /\ receipt[k].input \in Input
  BY DEF TypeOK, Fresh, Receipt, NoReceipt

\* One receipt for every event, whatever the event is.
LEMMA RecordNamesEvents ==
    ASSUME TypeOK, ReceiptsNameEvents,
           NEW k \in ReceiptKey, NEW input \in Input, NEW event \in Event,
           Record(k, input, event)
    PROVE  ReceiptsNameEvents'
  <1>0. /\ Len(log) \in Nat
        /\ DOMAIN log = 1 .. Len(log)
        /\ DOMAIN log' = 1 .. Len(log) + 1
        /\ receipt[k] = NoReceipt
        /\ receipt'[k].event = Len(log) + 1
        /\ \A k2 \in ReceiptKey : k2 # k => receipt'[k2] = receipt[k2]
    <2>1. receipt'[k] = [input |-> input, event |-> Len(log) + 1]
      BY RecordShape
    <2> QED
      BY <2>1, RecordShape
  <1>1. ASSUME NEW k2 \in ReceiptKey
        PROVE  /\ Fresh(k2) => receipt[k2].event = 0
               /\ ~Fresh(k2) => receipt[k2].event \in 1 .. Len(log)
    BY ReceiptFacts DEF ReceiptsNameEvents
  <1>2. \A k2 \in ReceiptKey : ~Fresh(k2)' => receipt'[k2].event \in DOMAIN log'
    <2> TAKE k2 \in ReceiptKey
    <2>1. CASE k2 = k
      BY <2>1, <1>0
    <2>2. CASE k2 # k
      BY <2>2, <1>0, <1>1 DEF Fresh
    <2> QED
      BY <2>1, <2>2
  <1>3. \A i \in DOMAIN log' : \E k2 \in ReceiptKey : receipt'[k2].event = i
    <2> TAKE i \in DOMAIN log'
    <2>1. CASE i = Len(log) + 1
      BY <2>1, <1>0
    <2>2. CASE i \in DOMAIN log
      <3>1. PICK k2 \in ReceiptKey : receipt[k2].event = i
        BY <2>2 DEF ReceiptsNameEvents
      <3>2. k2 # k
        BY <3>1, <2>2, <1>0, <1>1 DEF Fresh
      <3> QED
        BY <3>1, <3>2, <1>0
    <2> QED
      BY <2>1, <2>2, <1>0
  <1>4. \A k1, k2 \in ReceiptKey :
            ~Fresh(k1)' /\ receipt'[k1].event = receipt'[k2].event => k1 = k2
    <2> SUFFICES ASSUME NEW k1 \in ReceiptKey, NEW k2 \in ReceiptKey, ~Fresh(k1)',
                        receipt'[k1].event = receipt'[k2].event, k1 # k2
                 PROVE  FALSE
      OBVIOUS
    <2>1. CASE k1 = k
      BY <2>1, <1>0, <1>1 DEF Fresh
    <2>2. CASE k2 = k
      BY <2>2, <1>0, <1>1 DEF Fresh
    <2>3. CASE k1 # k /\ k2 # k
      BY <2>3, <1>0 DEF Fresh, ReceiptsNameEvents
    <2> QED
      BY <2>1, <2>2, <2>3
  <1> QED
    BY <1>2, <1>3, <1>4 DEF ReceiptsNameEvents

\* A delivery is recorded after its end if its handler knows of the end.
LEMMA RecordKeepsOrder ==
    ASSUME TypeOK, ReceiptsNameEvents, DeliveryFollowsEnd,
           NEW k \in ReceiptKey, NEW input \in Input, NEW event \in Event,
           Record(k, input, event),
           \A x \in Key : k = DeliveryKey(x) =>
               LET end == receipt[OwnKey(x)]
               IN  end # NoReceipt /\ end.input.op = "end" /\ end.input.evidence = input.evidence
    PROVE  DeliveryFollowsEnd'
  <1>0. /\ Len(log) \in Nat
        /\ DOMAIN log = 1 .. Len(log)
        /\ receipt[k] = NoReceipt
        /\ receipt'[k] = [input |-> input, event |-> Len(log) + 1]
        /\ \A k2 \in ReceiptKey : k2 # k => receipt'[k2] = receipt[k2]
    BY RecordShape
  <1> SUFFICES ASSUME NEW x \in Key, receipt'[DeliveryKey(x)] # NoReceipt
               PROVE  /\ receipt'[OwnKey(x)] # NoReceipt
                      /\ receipt'[OwnKey(x)].input.op = "end"
                      /\ receipt'[OwnKey(x)].input.evidence = receipt'[DeliveryKey(x)].input.evidence
                      /\ receipt'[OwnKey(x)].event < receipt'[DeliveryKey(x)].event
    BY DEF DeliveryFollowsEnd, Fresh
  <1>1. /\ OwnKey(x) \in ReceiptKey
        /\ DeliveryKey(x) \in ReceiptKey
        /\ OwnKey(x) # DeliveryKey(x)
    BY KeysApart
  <1>2. CASE k = DeliveryKey(x)
    <2>1. receipt'[OwnKey(x)] = receipt[OwnKey(x)] /\ receipt[OwnKey(x)] # NoReceipt
      BY <1>0, <1>1, <1>2
    <2>2. receipt[OwnKey(x)].event \in 1 .. Len(log)
      BY <2>1, <1>0, <1>1 DEF ReceiptsNameEvents, Fresh
    <2> QED
      BY <2>1, <2>2, <1>0, <1>2
  <1>3. CASE k # DeliveryKey(x)
    <2>1. receipt[DeliveryKey(x)] = receipt'[DeliveryKey(x)]
      BY <1>0, <1>1, <1>3
    <2>2. /\ receipt[OwnKey(x)] # NoReceipt
          /\ receipt[OwnKey(x)].input.op = "end"
          /\ receipt[OwnKey(x)].input.evidence = receipt[DeliveryKey(x)].input.evidence
          /\ receipt[OwnKey(x)].event < receipt[DeliveryKey(x)].event
      BY <2>1 DEF DeliveryFollowsEnd, Fresh
    <2>3. receipt'[OwnKey(x)] = receipt[OwnKey(x)]
      BY <2>2, <1>0, <1>1
    <2> QED
      BY <2>1, <2>2, <2>3
  <1> QED
    BY <1>2, <1>3

\* What a handler knows of its end stays true.
LEMMA RecordKeepsLinks ==
    ASSUME TypeOK, LinksKnown,
           NEW k \in ReceiptKey, NEW input \in Input, NEW event \in Event,
           Record(k, input, event), call' \in [Call -> Handler],
           \A c \in Call : call'[c].step = "link" =>
               \/ call'[c] = call[c]
               \/ /\ k = OwnKey(call'[c].key)
                  /\ input.op = "end"
                  /\ input.evidence = call'[c].evidence
    PROVE  LinksKnown'
  <1>0. /\ receipt[k] = NoReceipt
        /\ receipt'[k].input = input
        /\ receipt'[k] # NoReceipt
        /\ \A k2 \in ReceiptKey : k2 # k => receipt'[k2] = receipt[k2]
    <2>1. receipt'[k] = [input |-> input, event |-> Len(log) + 1]
      BY RecordShape
    <2> QED
      BY <2>1, RecordShape
  <1> SUFFICES ASSUME NEW c \in Call, call'[c].step = "link"
               PROVE  LET end == receipt'[OwnKey(call'[c].key)]
                      IN  /\ end # NoReceipt
                          /\ end.input.op = "end"
                          /\ end.input.evidence = call'[c].evidence
    BY DEF LinksKnown
  <1>1. call'[c].key \in Key
    BY DEF Handler, Idle
  <1>2. OwnKey(call'[c].key) \in ReceiptKey
    BY <1>1, KeysApart
  <1>3. CASE call'[c] = call[c]
    <2>1. LET end == receipt[OwnKey(call[c].key)]
          IN  end # NoReceipt /\ end.input.op = "end" /\ end.input.evidence = call[c].evidence
      BY <1>3 DEF LinksKnown
    <2>2. receipt'[OwnKey(call[c].key)] = receipt[OwnKey(call[c].key)]
      BY <2>1, <1>0, <1>2, <1>3
    <2> QED
      BY <2>1, <2>2, <1>3
  <1>4. CASE /\ k = OwnKey(call'[c].key)
             /\ input.op = "end"
             /\ input.evidence = call'[c].evidence
    BY <1>4, <1>0
  <1> QED
    BY <1>3, <1>4

\* An event that ends no run.
LEMMA RecordKeepsEnds ==
    ASSUME TypeOK, EndedOnce,
           NEW k \in ReceiptKey, NEW input \in Input, NEW event \in Event,
           Record(k, input, event), event.type # "run.ended",
           \A r \in Run : run'[r].status = "ended" <=> run[r].status = "ended"
    PROVE  EndedOnce'
  <1>0. /\ Len(log) \in Nat
        /\ DOMAIN log = 1 .. Len(log)
        /\ DOMAIN log' = 1 .. Len(log) + 1
        /\ \A i \in DOMAIN log : log'[i] = log[i]
        /\ log'[Len(log) + 1] = event
    BY RecordShape
  <1>1. \A r \in Run, i \in DOMAIN log' :
            IsRunEvent(log'[i], "run.ended", r) => i \in DOMAIN log /\ log'[i] = log[i]
    BY <1>0 DEF IsRunEvent
  <1>2. \A r \in Run :
            {i \in DOMAIN log' : IsRunEvent(log'[i], "run.ended", r)}
              = {i \in DOMAIN log : IsRunEvent(log[i], "run.ended", r)}
    BY <1>0, <1>1
  <1> QED
    BY <1>2 DEF EndedOnce

\* An event that ends no run leaves no trajectory active that was not, but the
\* one it starts.
LEMMA RecordKeepsActive ==
    ASSUME TypeOK, ActiveAfterEnd,
           NEW k \in ReceiptKey, NEW input \in Input, NEW event \in Event,
           Record(k, input, event), event.type # "run.ended",
           \A t \in Trajectory : trajectory'[t].status = "active" =>
               \/ trajectory'[t] = trajectory[t]
               \/ event.type = "trajectory.started" /\ event.entity = t
    PROVE  ActiveAfterEnd'
  <1>0. /\ Len(log) \in Nat
        /\ DOMAIN log = 1 .. Len(log)
        /\ DOMAIN log' = 1 .. Len(log) + 1
        /\ \A i \in DOMAIN log : log'[i] = log[i]
        /\ log'[Len(log) + 1] = event
    BY RecordShape
  <1> SUFFICES ASSUME NEW t \in Trajectory, NEW i \in DOMAIN log',
                      trajectory'[t].status = "active",
                      IsRunEvent(log'[i], "run.ended", trajectory'[t].run)
               PROVE  \E j \in DOMAIN log' :
                         j > i /\ log'[j].type = "trajectory.started" /\ log'[j].entity = t
    BY DEF ActiveAfterEnd
  <1>1. i \in DOMAIN log /\ log'[i] = log[i]
    BY <1>0 DEF IsRunEvent
  <1>2. CASE trajectory'[t] = trajectory[t]
    <2>1. PICK j \in DOMAIN log :
              j > i /\ log[j].type = "trajectory.started" /\ log[j].entity = t
      BY <1>1, <1>2 DEF ActiveAfterEnd
    <2> QED
      BY <2>1, <1>0
  <1>3. CASE event.type = "trajectory.started" /\ event.entity = t
    BY <1>0, <1>1, <1>3
  <1> QED
    BY <1>2, <1>3

-----------------------------------------------------------------------------
(* The steps *)

LEMMA HandlerShape ==
    ASSUME TypeOK, NEW c \in Call
    PROVE  /\ call[c].step = "link" =>
                  call[c].key \in Key /\ call[c].run \in Run /\ call[c].evidence \in Evidence
           /\ call[c].step = "trajectory" =>
                  call[c].key \in Key /\ call[c].run \in Run /\ call[c].head \in Commit \cup {None}
  BY DEF TypeOK, Handler, Idle

LEMMA RowShape ==
    ASSUME TypeOK, NEW r \in Run
    PROVE  /\ run[r] \in RunRow \cup {NoRun}
           /\ run[r].evidence \in Evidence
           /\ run[r].status \in {"absent", "open", "ended"}
           /\ run[r] # NoRun => run[r] \in RunRow /\ run[r].status \in {"open", "ended"}
  BY Inputs DEF TypeOK, RunRow, NoRun

LEMMA InitMutations == Init => MutationsInv
  <1> SUFFICES ASSUME Init
               PROVE  MutationsInv
    OBVIOUS
  <1>1. TypeOK
    BY DEF Init, TypeOK, Handler
  <1>2. DOMAIN log = {} /\ \A k \in ReceiptKey : receipt[k] = NoReceipt
    BY DEF Init
  <1>3. ReceiptsNameEvents /\ DeliveryFollowsEnd
    BY <1>2, KeysApart DEF ReceiptsNameEvents, DeliveryFollowsEnd, Fresh
  <1>4. EndedOnce /\ ActiveAfterEnd
    BY <1>2 DEF Init, EndedOnce, ActiveAfterEnd, NoRun
  <1>5. LinksKnown
    BY DEF Init, LinksKnown, Idle
  <1> QED
    BY <1>1, <1>3, <1>4, <1>5 DEF MutationsInv

\* A step that only moves a handler on.
LEMMA CallInv ==
    ASSUME MutationsInv, UNCHANGED <<receipt, log, run, trajectory>>, call' \in [Call -> Handler],
           \A c \in Call : call'[c].step = "link" =>
               \/ call'[c] = call[c]
               \/ LET end == receipt[OwnKey(call'[c].key)]
                  IN  end # NoReceipt /\ end.input.op = "end" /\ end.input.evidence = call'[c].evidence
    PROVE  MutationsInv'
  <1>1. TypeOK'
    BY DEF MutationsInv, TypeOK
  <1>2. ReceiptsNameEvents' /\ DeliveryFollowsEnd'
    BY DEF MutationsInv, ReceiptsNameEvents, DeliveryFollowsEnd, Fresh
  <1>3. EndedOnce' /\ ActiveAfterEnd'
    BY DEF MutationsInv, EndedOnce, ActiveAfterEnd
  <1>4. LinksKnown'
    BY DEF MutationsInv, LinksKnown
  <1> QED
    BY <1>1, <1>2, <1>3, <1>4 DEF MutationsInv

LEMMA StartRunInv ==
    ASSUME MutationsInv, NEW k \in Key, NEW r \in Run, NEW head \in Commit \cup {None},
           StartRun(k, r, head)
    PROVE  MutationsInv'
  <1> DEFINE row == [status |-> "open", evidence |-> HeadOnly(head)]
             input == InputOf("start", HeadOnly(head))
             event == RunEvent("run.started", r, row)
  <1>1. row \in RunRow /\ input \in Input
    BY Inputs DEF RunRow
  <1>2. event \in Event
    BY <1>1 DEF RunEvent, Event
  <1>3. /\ TypeOK /\ ReceiptsNameEvents /\ DeliveryFollowsEnd /\ EndedOnce /\ ActiveAfterEnd
        /\ LinksKnown
    BY DEF MutationsInv
  <1>4. run'[r] = row /\ run' = [run EXCEPT ![r] = row]
    BY <1>3 DEF StartRun, TypeOK
  <1>5. Record(OwnKey(k), input, event)
    BY <1>4 DEF StartRun
  <1>6. OwnKey(k) \in ReceiptKey
    BY KeysApart
  <1>7. TypeOK'
    <2>1. log' \in Seq(Event) /\ receipt' \in [ReceiptKey -> Receipt \cup {NoReceipt}]
      BY <1>1, <1>2, <1>3, <1>5, <1>6, RecordShape
    <2>2. run' \in [Run -> RunRow \cup {NoRun}]
      BY <1>1, <1>3, <1>4 DEF TypeOK
    <2> QED
      BY <2>1, <2>2, <1>3 DEF StartRun, TypeOK
  <1>8. ReceiptsNameEvents'
    BY <1>1, <1>2, <1>3, <1>5, <1>6, RecordNamesEvents
  <1>9. DeliveryFollowsEnd'
    <2>1. \A x \in Key : OwnKey(k) # DeliveryKey(x)
      BY KeysApart
    <2> QED
      BY <2>1, <1>1, <1>2, <1>3, <1>5, <1>6, RecordKeepsOrder
  <1>10. EndedOnce'
    <2>1. event.type # "run.ended"
      BY DEF RunEvent
    <2>2. run[r].status # "ended"
      BY DEF StartRun, NoRun
    <2>3. \A r2 \in Run : run'[r2].status = "ended" <=> run[r2].status = "ended"
      BY <1>3, <1>4, <2>2 DEF TypeOK
    <2> QED
      BY <2>1, <2>3, <1>1, <1>2, <1>3, <1>5, <1>6, RecordKeepsEnds
  <1>11. ActiveAfterEnd'
    <2>1. event.type # "run.ended"
      BY DEF RunEvent
    <2>2. trajectory' = trajectory
      BY DEF StartRun
    <2> QED
      BY <2>1, <2>2, <1>1, <1>2, <1>3, <1>5, <1>6, RecordKeepsActive
  <1>12. LinksKnown'
    <2>1. call' = call /\ call' \in [Call -> Handler]
      BY <1>3 DEF StartRun, TypeOK
    <2> QED
      BY <2>1, <1>1, <1>2, <1>3, <1>5, <1>6, RecordKeepsLinks
  <1> QED
    BY <1>7, <1>8, <1>9, <1>10, <1>11, <1>12 DEF MutationsInv

\* The transaction of LinkRunDelivery, under its own key or that of EndRun.
LEMMA DeliverInv ==
    ASSUME MutationsInv, NEW k \in ReceiptKey, NEW r \in Run, NEW evidence \in Evidence,
           Deliver(k, r, evidence), call' \in [Call -> Handler],
           \A c \in Call : call'[c].step = "link" => call'[c] = call[c],
           \A x \in Key : k = DeliveryKey(x) =>
               LET end == receipt[OwnKey(x)]
               IN  end # NoReceipt /\ end.input.op = "end" /\ end.input.evidence = evidence
    PROVE  MutationsInv'
  <1> DEFINE row == [status |-> run[r].status, evidence |-> Merged(run[r].evidence, evidence)]
             input == InputOf("link", evidence)
             event == RunEvent("run.delivery_linked", r, row)
  <1>3. /\ TypeOK /\ ReceiptsNameEvents /\ DeliveryFollowsEnd /\ EndedOnce /\ ActiveAfterEnd
        /\ LinksKnown
    BY DEF MutationsInv
  <1>1. row \in RunRow /\ input \in Input
    BY <1>3, Inputs, RowShape DEF RunRow, Deliver, Deliverable
  <1>2. event \in Event
    BY <1>1 DEF RunEvent, Event
  <1>4. run'[r] = row /\ run' = [run EXCEPT ![r] = row]
    BY <1>3 DEF Deliver, Update, TypeOK
  <1>5. Record(k, input, event)
    BY <1>4 DEF Deliver, ReadBack
  <1>7. TypeOK'
    <2>1. log' \in Seq(Event) /\ receipt' \in [ReceiptKey -> Receipt \cup {NoReceipt}]
      BY <1>1, <1>2, <1>3, <1>5, RecordShape
    <2>2. run' \in [Run -> RunRow \cup {NoRun}]
      BY <1>1, <1>3, <1>4 DEF TypeOK
    <2> QED
      BY <2>1, <2>2, <1>3 DEF Deliver, TypeOK
  <1>8. ReceiptsNameEvents'
    BY <1>1, <1>2, <1>3, <1>5, RecordNamesEvents
  <1>9. DeliveryFollowsEnd'
    <2>1. input.evidence = evidence
      BY DEF InputOf
    <2> QED
      BY <2>1, <1>1, <1>2, <1>3, <1>5, RecordKeepsOrder
  <1>10. EndedOnce'
    <2>1. event.type # "run.ended"
      BY DEF RunEvent
    <2>2. \A r2 \in Run : run'[r2].status = "ended" <=> run[r2].status = "ended"
      BY <1>3, <1>4 DEF TypeOK
    <2> QED
      BY <2>1, <2>2, <1>1, <1>2, <1>3, <1>5, RecordKeepsEnds
  <1>11. ActiveAfterEnd'
    <2>1. event.type # "run.ended"
      BY DEF RunEvent
    <2>2. trajectory' = trajectory
      BY DEF Deliver
    <2> QED
      BY <2>1, <2>2, <1>1, <1>2, <1>3, <1>5, RecordKeepsActive
  <1>12. LinksKnown'
    BY <1>1, <1>2, <1>3, <1>5, RecordKeepsLinks
  <1> QED
    BY <1>7, <1>8, <1>9, <1>10, <1>11, <1>12 DEF MutationsInv

\* What EndRun leaves the handler with.
LEMMA GoOnShape ==
    ASSUME TypeOK, NEW c \in Call, NEW k \in Key, NEW r \in Run, NEW evidence \in Evidence,
           GoOn(c, k, r, evidence)
    PROVE  /\ call' \in [Call -> Handler]
           /\ \A c2 \in Call : call'[c2].step = "link" =>
                  \/ call'[c2] = call[c2]
                  \/ call'[c2].key = k /\ call'[c2].evidence = evidence
  <1>1. [step |-> "link", key |-> k, run |-> r, evidence |-> evidence] \in Handler
    BY DEF Handler
  <1>2. Idle \in Handler /\ Idle.step # "link"
    BY DEF Handler, Idle
  <1> QED
    BY <1>1, <1>2 DEF GoOn, TypeOK

\* What the event of an end carries is a row.
LEMMA PortableRow ==
    ASSUME NEW row \in RunRow
    PROVE  /\ Portable(row) \in RunRow
           /\ Portable(row) = [status |-> row.status, evidence |-> HeadOnly(row.evidence.head)]
  <1>1. row.evidence.head \in Commit \cup {None}
    BY DEF RunRow, Evidence
  <1>2. HeadOnly(row.evidence.head) \in Evidence
    BY <1>1, Inputs
  <1> QED
    BY <1>2 DEF Portable, RunRow

LEMMA EndRunInv ==
    ASSUME MutationsInv, NEW c \in Call, NEW k \in Key, NEW r \in Run, NEW evidence \in Evidence,
           EndRun(c, k, r, evidence)
    PROVE  MutationsInv'
  <1> DEFINE row == [status |-> "ended", evidence |-> Merged(run[r].evidence, evidence)]
             input == InputOf("end", evidence)
             event == RunEvent("run.ended", r, Portable(row))
  <1>3. /\ TypeOK /\ ReceiptsNameEvents /\ DeliveryFollowsEnd /\ EndedOnce /\ ActiveAfterEnd
        /\ LinksKnown
    BY DEF MutationsInv
  <1>1. row \in RunRow /\ input \in Input
    BY <1>3, Inputs, RowShape DEF RunRow
  <1>2. event \in Event
    BY <1>1, PortableRow DEF RunEvent, Event
  <1>4. run'[r] = row /\ run' = [run EXCEPT ![r] = row]
    BY <1>3 DEF EndRun, Update, TypeOK
  <1>5. Record(OwnKey(k), input, event)
    BY <1>4 DEF EndRun, ReadBack
  <1>6. OwnKey(k) \in ReceiptKey
    BY KeysApart
  <1>0. /\ Len(log) \in Nat
        /\ DOMAIN log = 1 .. Len(log)
        /\ DOMAIN log' = 1 .. Len(log) + 1
        /\ \A i \in DOMAIN log : log'[i] = log[i]
        /\ log'[Len(log) + 1] = event
        /\ log' \in Seq(Event)
        /\ receipt' \in [ReceiptKey -> Receipt \cup {NoReceipt}]
    BY <1>1, <1>2, <1>3, <1>5, <1>6, RecordShape
  <1>closed. \A t \in Trajectory :
               /\ trajectory'[t] \in TrajectoryRow \cup {NoTrajectory}
               /\ trajectory'[t].status = "active" =>
                      trajectory'[t] = trajectory[t] /\ trajectory[t].run # r
    <2> TAKE t \in Trajectory
    <2>1. trajectory[t] \in TrajectoryRow \cup {NoTrajectory}
      BY <1>3 DEF TypeOK
    <2>2. CASE trajectory[t].status = "active" /\ trajectory[t].run = r
      <3>1. trajectory'[t] = [trajectory[t] EXCEPT !.status = "closed"]
        BY <2>2 DEF EndRun, Closed
      <3>2. trajectory[t] \in TrajectoryRow
        BY <2>1, <2>2 DEF NoTrajectory
      <3> QED
        BY <3>1, <3>2 DEF TrajectoryRow
    <2>3. CASE ~(trajectory[t].status = "active" /\ trajectory[t].run = r)
      <3>1. trajectory'[t] = trajectory[t]
        BY <2>3 DEF EndRun, Closed
      <3> QED
        BY <3>1, <2>1, <2>3
    <2> QED
      BY <2>2, <2>3
  <1>7. TypeOK'
    <2>1. run' \in [Run -> RunRow \cup {NoRun}]
      BY <1>1, <1>3, <1>4 DEF TypeOK
    <2>2. trajectory' \in [Trajectory -> TrajectoryRow \cup {NoTrajectory}]
      <3>1. trajectory' = Closed(r)
        BY DEF EndRun
      <3> HIDE DEF event
      <3>2. DOMAIN trajectory' = Trajectory /\ trajectory' = [t \in Trajectory |-> trajectory'[t]]
        BY <3>1 DEF Closed
      <3> QED
        BY <3>2, <1>closed
    <2>3. call' \in [Call -> Handler]
      BY <1>3, GoOnShape DEF EndRun
    <2> QED
      BY <1>0, <2>1, <2>2, <2>3 DEF TypeOK
  <1>8. ReceiptsNameEvents'
    BY <1>1, <1>2, <1>3, <1>5, <1>6, RecordNamesEvents
  <1>9. DeliveryFollowsEnd'
    <2>1. \A x \in Key : OwnKey(k) # DeliveryKey(x)
      BY KeysApart
    <2> QED
      BY <2>1, <1>1, <1>2, <1>3, <1>5, <1>6, RecordKeepsOrder
  <1>10. EndedOnce'
    <2>1. IsRunEvent(event, "run.ended", r)
          /\ \A r2 \in Run : IsRunEvent(event, "run.ended", r2) => r2 = r
      BY DEF IsRunEvent, RunEvent
    <2>2. \A i \in DOMAIN log : ~IsRunEvent(log[i], "run.ended", r)
      BY <1>3 DEF EndRun, Open, EndedOnce
    <2> SUFFICES ASSUME NEW r2 \in Run
                 PROVE  LET Ends == {i \in DOMAIN log' : IsRunEvent(log'[i], "run.ended", r2)}
                        IN  /\ \A i, j \in Ends : i = j
                            /\ run'[r2].status = "ended" <=> Ends # {}
      BY DEF EndedOnce
    <2>3. CASE r2 = r
      <3>1. {i \in DOMAIN log' : IsRunEvent(log'[i], "run.ended", r2)} = {Len(log) + 1}
        <4> HIDE DEF event
        <4> QED
          BY <1>0, <2>1, <2>2, <2>3
      <3> QED
        BY <3>1, <2>3, <1>4
    <2>4. CASE r2 # r
      <3>1. {i \in DOMAIN log' : IsRunEvent(log'[i], "run.ended", r2)}
              = {i \in DOMAIN log : IsRunEvent(log[i], "run.ended", r2)}
        <4> HIDE DEF event
        <4> QED
          BY <1>0, <2>1, <2>4
      <3>2. run'[r2] = run[r2]
        BY <1>3, <1>4, <2>4 DEF TypeOK
      <3> QED
        BY <3>1, <3>2, <1>3 DEF EndedOnce
    <2> QED
      BY <2>3, <2>4
  <1>11. ActiveAfterEnd'
    <2> SUFFICES ASSUME NEW t \in Trajectory, NEW i \in DOMAIN log',
                        trajectory'[t].status = "active",
                        IsRunEvent(log'[i], "run.ended", trajectory'[t].run)
                 PROVE  \E j \in DOMAIN log' :
                           j > i /\ log'[j].type = "trajectory.started" /\ log'[j].entity = t
      BY DEF ActiveAfterEnd
    <2>1. trajectory'[t] = trajectory[t] /\ trajectory[t].run # r
      BY <1>closed
    <2>2. i \in DOMAIN log
      BY <2>1, <1>0 DEF IsRunEvent, RunEvent
    <2>3. PICK j \in DOMAIN log :
              j > i /\ log[j].type = "trajectory.started" /\ log[j].entity = t
      BY <2>1, <2>2, <1>0, <1>3 DEF ActiveAfterEnd
    <2> QED
      BY <2>3, <1>0
  <1>12. LinksKnown'
    <2>1. call' \in [Call -> Handler]
          /\ \A c2 \in Call : call'[c2].step = "link" =>
                \/ call'[c2] = call[c2]
                \/ call'[c2].key = k /\ call'[c2].evidence = evidence
      BY <1>3, GoOnShape DEF EndRun
    <2>2. input.op = "end" /\ input.evidence = evidence
      BY DEF InputOf
    <2> HIDE DEF event, input
    <2> QED
      BY <2>1, <2>2, <1>1, <1>2, <1>3, <1>5, <1>6, RecordKeepsLinks
  <1> QED
    BY <1>7, <1>8, <1>9, <1>10, <1>11, <1>12 DEF MutationsInv

LEMMA EndRunAgainInv ==
    ASSUME MutationsInv, NEW c \in Call, NEW k \in Key, NEW r \in Run, NEW evidence \in Evidence,
           EndRunAgain(c, k, r, evidence)
    PROVE  MutationsInv'
  <1>1. TypeOK
    BY DEF MutationsInv
  <1>2. /\ call' \in [Call -> Handler]
        /\ \A c2 \in Call : call'[c2].step = "link" =>
              \/ call'[c2] = call[c2]
              \/ call'[c2].key = k /\ call'[c2].evidence = evidence
    BY <1>1, GoOnShape DEF EndRunAgain
  <1>3. LET end == receipt[OwnKey(k)]
        IN  end # NoReceipt /\ end.input.op = "end" /\ end.input.evidence = evidence
    BY DEF EndRunAgain, Repeats, Fresh, InputOf
  <1>4. UNCHANGED <<receipt, log, run, trajectory>>
    BY DEF EndRunAgain
  <1> QED
    BY <1>2, <1>3, <1>4, CallInv

LEMMA CreateTrajectoryInv ==
    ASSUME MutationsInv, NEW c \in Call, NEW t \in Trajectory, CreateTrajectory(c, t)
    PROVE  MutationsInv'
  <1> DEFINE k == OwnKey(call[c].key)
             input == TrajectoryInput(call[c].run, call[c].head)
             event == [type |-> "trajectory.started", entity |-> t, run |-> call[c].run]
  <1>3. /\ TypeOK /\ ReceiptsNameEvents /\ DeliveryFollowsEnd /\ EndedOnce /\ ActiveAfterEnd
        /\ LinksKnown
    BY DEF MutationsInv
  <1>4. call[c].key \in Key /\ call[c].run \in Run /\ call[c].head \in Commit \cup {None}
    BY <1>3, HandlerShape DEF CreateTrajectory
  <1>1. k \in ReceiptKey /\ input \in Input
    BY <1>4, Inputs, KeysApart
  <1>2. event \in Event
    BY <1>4 DEF Event
  <1>5. Record(k, input, event)
    BY DEF CreateTrajectory
  <1>6. /\ call' \in [Call -> Handler]
        /\ \A c2 \in Call : call'[c2].step = "link" => call'[c2] = call[c2]
    BY <1>3 DEF CreateTrajectory, TypeOK, Handler, Idle
  <1>7. TypeOK'
    <2>1. log' \in Seq(Event) /\ receipt' \in [ReceiptKey -> Receipt \cup {NoReceipt}]
      BY <1>1, <1>2, <1>3, <1>5, RecordShape
    <2>2. trajectory' \in [Trajectory -> TrajectoryRow \cup {NoTrajectory}]
      BY <1>3, <1>4 DEF CreateTrajectory, TypeOK, TrajectoryRow
    <2> QED
      BY <2>1, <2>2, <1>3, <1>6 DEF CreateTrajectory, TypeOK
  <1>8. ReceiptsNameEvents'
    BY <1>1, <1>2, <1>3, <1>5, RecordNamesEvents
  <1>9. DeliveryFollowsEnd'
    <2>1. \A x \in Key : k # DeliveryKey(x)
      BY <1>4, KeysApart
    <2> HIDE DEF k, input, event
    <2> QED
      BY <2>1, <1>1, <1>2, <1>3, <1>5, RecordKeepsOrder
  <1>10. EndedOnce'
    <2>1. event.type # "run.ended"
      OBVIOUS
    <2>2. run' = run
      BY DEF CreateTrajectory
    <2> HIDE DEF k, input, event
    <2> QED
      BY <2>1, <2>2, <1>1, <1>2, <1>3, <1>5, RecordKeepsEnds
  <1>11. ActiveAfterEnd'
    <2>1. event.type # "run.ended" /\ event.type = "trajectory.started" /\ event.entity = t
      OBVIOUS
    <2>2. \A t2 \in Trajectory : trajectory'[t2] = trajectory[t2] \/ t2 = t
      BY <1>3 DEF CreateTrajectory, TypeOK
    <2> HIDE DEF k, input, event
    <2> QED
      BY <2>1, <2>2, <1>1, <1>2, <1>3, <1>5, RecordKeepsActive
  <1>12. LinksKnown'
    <2> HIDE DEF k, input, event
    <2> QED
      BY <1>1, <1>2, <1>3, <1>5, <1>6, RecordKeepsLinks
  <1> QED
    BY <1>7, <1>8, <1>9, <1>10, <1>11, <1>12 DEF MutationsInv

LEMMA LinkDeliveryShape ==
    ASSUME MutationsInv, NEW c \in Call, LinkDelivery(c)
    PROVE  /\ call[c].key \in Key /\ call[c].run \in Run /\ call[c].evidence \in Evidence
           /\ Deliver(DeliveryKey(call[c].key), call[c].run, call[c].evidence)
           /\ call' \in [Call -> Handler]
           /\ \A c2 \in Call : call'[c2].step = "link" => call'[c2] = call[c2]
           /\ \A x \in Key : DeliveryKey(call[c].key) = DeliveryKey(x) =>
                  LET end == receipt[OwnKey(x)]
                  IN  end # NoReceipt /\ end.input.op = "end"
                         /\ end.input.evidence = call[c].evidence
  <1>1. call[c].key \in Key /\ call[c].run \in Run /\ call[c].evidence \in Evidence
    BY HandlerShape DEF MutationsInv, LinkDelivery
  <1>2. Deliver(DeliveryKey(call[c].key), call[c].run, call[c].evidence)
    BY DEF LinkDelivery
  <1>3. /\ call' \in [Call -> Handler]
        /\ \A c2 \in Call : call'[c2].step = "link" => call'[c2] = call[c2]
    BY DEF MutationsInv, LinkDelivery, TypeOK, Handler, Idle
  <1>4. LET end == receipt[OwnKey(call[c].key)]
        IN  end # NoReceipt /\ end.input.op = "end" /\ end.input.evidence = call[c].evidence
    BY DEF MutationsInv, LinkDelivery, LinksKnown
  <1> QED
    BY <1>1, <1>2, <1>3, <1>4, KeysApart

LEMMA ReadRunInv ==
    ASSUME MutationsInv, NEW c \in Call, NEW k \in Key, NEW r \in Run,
           NEW head \in Commit \cup {None}, ReadRun(c, k, r, head)
    PROVE  MutationsInv'
  <1> DEFINE read == [step |-> "trajectory", key |-> k, run |-> r,
                      head |-> IF head = None THEN run[r].evidence.head ELSE head]
  <1>1. TypeOK
    BY DEF MutationsInv
  <1>2. run[r].evidence.head \in Commit \cup {None}
    BY <1>1, RowShape DEF Evidence
  <1>3. read \in Handler /\ read.step # "link"
    BY <1>2 DEF Handler
  <1>4. call' = [call EXCEPT ![c] = read] /\ UNCHANGED <<receipt, log, run, trajectory>>
    BY DEF ReadRun
  <1>5. /\ call' \in [Call -> Handler]
        /\ \A c2 \in Call : call'[c2].step = "link" => call'[c2] = call[c2]
    BY <1>1, <1>3, <1>4 DEF TypeOK
  <1> QED
    BY <1>4, <1>5, CallInv

LEMMA LeaveInv ==
    ASSUME MutationsInv, NEW c \in Call, Leave(c)
    PROVE  MutationsInv'
  <1>1. /\ call' \in [Call -> Handler]
        /\ \A c2 \in Call : call'[c2].step = "link" => call'[c2] = call[c2]
    BY DEF MutationsInv, Leave, TypeOK, Handler, Idle
  <1> QED
    BY <1>1, CallInv DEF Leave

\* A step is one of the three transactions' kinds, or only moves a handler on.
LEMMA StepShape ==
    ASSUME MutationsInv, Next
    PROVE  \/ \E k \in Key, r \in Run, head \in Commit \cup {None} : StartRun(k, r, head)
           \/ \E k \in ReceiptKey, r \in Run, evidence \in Evidence : Deliver(k, r, evidence)
           \/ \E c \in Call, k \in Key, r \in Run, evidence \in Evidence : EndRun(c, k, r, evidence)
           \/ \E c \in Call, t \in Trajectory : CreateTrajectory(c, t)
           \/ UNCHANGED <<receipt, log, run, trajectory>>
  <1>1. CASE RunStep
    BY <1>1, Inputs, KeysApart DEF RunStep, LinkRunDelivery, EndRunAgain, ReadRun
  <1>2. CASE HandlerStep
    <2>1. ASSUME NEW c \in Call, LinkDelivery(c)
          PROVE  \E k \in ReceiptKey, r \in Run, evidence \in Evidence : Deliver(k, r, evidence)
      BY <2>1, LinkDeliveryShape, KeysApart
    <2> QED
      BY <1>2, <2>1 DEF HandlerStep, Leave
  <1> QED
    BY <1>1, <1>2 DEF Next

LEMMA StepInv == MutationsInv /\ [Next]_vars => MutationsInv'
  <1> SUFFICES ASSUME MutationsInv, [Next]_vars
               PROVE  MutationsInv'
    OBVIOUS
  <1>1. ASSUME NEW k \in Key, NEW r \in Run, NEW evidence \in Reported,
               StartRun(k, r, evidence.head)
        PROVE  MutationsInv'
    BY <1>1, Inputs, StartRunInv
  <1>2. ASSUME NEW k \in Key, NEW r \in Run, NEW evidence \in Reported,
               LinkRunDelivery(k, r, evidence)
        PROVE  MutationsInv'
    <2>1. /\ OwnKey(k) \in ReceiptKey
          /\ evidence \in Evidence
          /\ \A x \in Key : OwnKey(k) # DeliveryKey(x)
      BY Inputs, KeysApart
    <2>2. /\ call' = call
          /\ call' \in [Call -> Handler]
          /\ Deliver(OwnKey(k), r, evidence)
      BY <1>2 DEF LinkRunDelivery, MutationsInv, TypeOK
    <2> QED
      BY <2>1, <2>2, DeliverInv
  <1>3. ASSUME NEW k \in Key, NEW r \in Run, NEW evidence \in Reported, NEW c \in Call,
               EndRun(c, k, r, evidence)
        PROVE  MutationsInv'
    BY <1>3, Inputs, EndRunInv
  <1>4. ASSUME NEW k \in Key, NEW r \in Run, NEW evidence \in Reported, NEW c \in Call,
               EndRunAgain(c, k, r, evidence)
        PROVE  MutationsInv'
    BY <1>4, Inputs, EndRunAgainInv
  <1>5. ASSUME NEW k \in Key, NEW r \in Run, NEW evidence \in Reported, NEW c \in Call,
               ReadRun(c, k, r, evidence.head)
        PROVE  MutationsInv'
    BY <1>5, Inputs, ReadRunInv
  <1>6. ASSUME NEW c \in Call, LinkDelivery(c)
        PROVE  MutationsInv'
    <2>1. /\ call[c].key \in Key /\ call[c].run \in Run /\ call[c].evidence \in Evidence
          /\ Deliver(DeliveryKey(call[c].key), call[c].run, call[c].evidence)
          /\ call' \in [Call -> Handler]
          /\ \A c2 \in Call : call'[c2].step = "link" => call'[c2] = call[c2]
          /\ \A x \in Key : DeliveryKey(call[c].key) = DeliveryKey(x) =>
                 LET end == receipt[OwnKey(x)]
                 IN  end # NoReceipt /\ end.input.op = "end"
                        /\ end.input.evidence = call[c].evidence
      BY <1>6, LinkDeliveryShape
    <2>2. DeliveryKey(call[c].key) \in ReceiptKey
      BY <2>1, KeysApart
    <2> QED
      BY <2>1, <2>2, DeliverInv
  <1>7. ASSUME NEW c \in Call, NEW t \in Trajectory, CreateTrajectory(c, t)
        PROVE  MutationsInv'
    BY <1>7, CreateTrajectoryInv
  <1>8. ASSUME NEW c \in Call, Leave(c)
        PROVE  MutationsInv'
    BY <1>8, LeaveInv
  <1>9. CASE UNCHANGED vars
    <2>1. call' \in [Call -> Handler] /\ call' = call
      BY <1>9 DEF vars, MutationsInv, TypeOK
    <2> QED
      BY <2>1, <1>9, CallInv DEF vars
  <1> QED
    BY <1>1, <1>2, <1>3, <1>4, <1>5, <1>6, <1>7, <1>8, <1>9 DEF Next, RunStep, HandlerStep

\* The conjunction the other theorems rest on holds throughout: receipts and
\* events, ends, trajectories and handlers agree.
THEOREM MutationsInvariance == Spec => []MutationsInv
  BY InitMutations, StepInv, PTL DEF Spec

\* Every event of a mutation has its receipt, and no two keys share one.
THEOREM EffectsHaveReceipts == Spec => []ReceiptsNameEvents
  <1>1. MutationsInv => ReceiptsNameEvents
    BY DEF MutationsInv
  <1> QED
    BY <1>1, MutationsInvariance, PTL

\* The second transaction of EndRun follows the first one of its key.
THEOREM DeliveriesFollowEnds == Spec => []DeliveryFollowsEnd
  <1>1. MutationsInv => DeliveryFollowsEnd
    BY DEF MutationsInv
  <1> QED
    BY <1>1, MutationsInvariance, PTL

\* A run ends once, whoever asks for it and however often.
THEOREM RunsEndOnce == Spec => []EndedOnce
  <1>1. MutationsInv => EndedOnce
    BY DEF MutationsInv
  <1> QED
    BY <1>1, MutationsInvariance, PTL

\* The end of a run leaves none of its trajectories active.
THEOREM EndsCloseTrajectories == Spec => []ActiveAfterEnd
  <1>1. MutationsInv => ActiveAfterEnd
    BY DEF MutationsInv
  <1> QED
    BY <1>1, MutationsInvariance, PTL

-----------------------------------------------------------------------------
(* Merge evidence *)

LEMMA MergedNeedsState ==
    ASSUME TypeOK, NEW r \in Run, NEW status, NEW evidence \in Evidence,
           Deliverable(r, evidence), Update(r, status, evidence),
           NEW r2 \in Run, run'[r2].evidence.merged, ~run[r2].evidence.merged
    PROVE  run'[r2].evidence.state = "merged"
  <1>1. r2 = r
    BY DEF Update, TypeOK
  <1>2. run'[r].evidence = Merged(run[r].evidence, evidence)
    BY DEF Update, TypeOK
  <1>3. evidence.merged
    <2>1. Merged(run[r].evidence, evidence).merged = (run[r].evidence.merged \/ evidence.merged)
      BY DEF Merged
    <2> QED
      BY <1>1, <1>2, <2>1
  <1> QED
    BY <1>1, <1>2, <1>3 DEF Deliverable

\* Merge evidence is only accepted for a pull request that is merged.
THEOREM MergeEvidence == Spec => MergeNeedsMergedState
  <1>1. ASSUME MutationsInv, [Next]_vars, NEW r2 \in Run,
               run'[r2].evidence.merged, ~run[r2].evidence.merged
        PROVE  run'[r2].evidence.state = "merged"
    <2>0. TypeOK
      BY <1>1 DEF MutationsInv
    <2>1. ASSUME NEW k \in Key, NEW r \in Run, NEW head \in Commit \cup {None},
                 StartRun(k, r, head)
          PROVE  FALSE
      <3>1. run'[r2] = run[r2] \/ run'[r2].evidence = HeadOnly(head)
        BY <2>0, <2>1 DEF StartRun, TypeOK
      <3>2. HeadOnly(head).merged = FALSE
        BY DEF HeadOnly, NoEvidence
      <3> QED
        BY <3>1, <3>2, <1>1
    <2>2. ASSUME NEW k \in ReceiptKey, NEW r \in Run, NEW evidence \in Evidence,
                 Deliver(k, r, evidence)
          PROVE  run'[r2].evidence.state = "merged"
      BY <2>0, <2>2, <1>1, MergedNeedsState DEF Deliver
    <2>3. ASSUME NEW c \in Call, NEW k \in Key, NEW r \in Run, NEW evidence \in Evidence,
                 EndRun(c, k, r, evidence)
          PROVE  run'[r2].evidence.state = "merged"
      BY <2>0, <2>3, <1>1, MergedNeedsState DEF EndRun
    <2>4. CASE run' = run
      BY <2>4, <1>1
    <2>5. CASE UNCHANGED vars
      BY <2>5, <2>4 DEF vars
    <2>6. CASE Next
      BY <2>1, <2>2, <2>3, <2>4, <2>6, <1>1, StepShape DEF CreateTrajectory
    <2> QED
      BY <1>1, <2>5, <2>6
  <1>2. MutationsInv /\ [Next]_vars =>
            [\A r \in Run :
                run'[r].evidence.merged /\ ~run[r].evidence.merged =>
                    run'[r].evidence.state = "merged"]_vars
    BY <1>1
  <1> QED
    BY <1>2, MutationsInvariance, PTL DEF Spec, MergeNeedsMergedState

-----------------------------------------------------------------------------
(* Projection of the history.  RowsAfter is defined by recursion; that the   *)
(* recursion has a solution, and what an event adds to it, is shown by least *)
(* counterexample.                                                           *)

\* A non-empty set of numbers has a least element.
LEMMA LeastExists ==
    ASSUME NEW S \in SUBSET Nat, S # {}
    PROVE  \E m \in S : \A n \in S : m <= n
  <1>1. PICK m \in S : \A n \in S : ~(<<n, m>> \in OpToRel(<, Nat))
    BY NatLessThanWellFounded, WFMin
  <1>2. \A n \in S : ~(n < m)
    BY <1>1 DEF OpToRel
  <1> QED
    BY <1>2

\* f gives the rows after each of the first n events of the history.
Follows(f, n, history) ==
    /\ f = [i \in 0 .. n |-> f[i]]
    /\ f[0] = NoRows
    /\ \A i \in 1 .. n : f[i] = ProjectEvent(f[i - 1], history[i])

\* Every number of events has such a function.
LEMMA FollowsExists ==
    ASSUME NEW history, NEW n \in Nat
    PROVE  \E f : Follows(f, n, history)
  <1> DEFINE Bad == {i \in Nat : ~\E f : Follows(f, i, history)}
  <1> SUFFICES ASSUME Bad # {}
               PROVE  FALSE
    OBVIOUS
  <1>1. PICK m \in Bad : \A i \in Bad : m <= i
    BY LeastExists
  <1>2. CASE m = 0
    <2> DEFINE f == [i \in 0 .. 0 |-> NoRows]
    <2>1. f = [i \in 0 .. 0 |-> f[i]] /\ f[0] = NoRows /\ 1 .. 0 = {}
      OBVIOUS
    <2>2. Follows(f, 0, history)
      <3> HIDE DEF f
      <3> QED
        BY <2>1 DEF Follows
    <2> QED
      BY <2>2, <1>2
  <1>3. CASE m # 0
    <2>1. m - 1 \in Nat /\ m - 1 \notin Bad
      BY <1>1, <1>3
    <2>2. PICK g : Follows(g, m - 1, history)
      BY <2>1
    <2> DEFINE next == ProjectEvent(g[m - 1], history[m])
               f == [i \in 0 .. m |-> IF i = m THEN next ELSE g[i]]
    <2>3. f = [i \in 0 .. m |-> f[i]]
      OBVIOUS
    <2>4. f[m] = next /\ \A i \in 0 .. m - 1 : f[i] = g[i]
      <3> HIDE DEF next
      <3> QED
        BY <2>1
    <2> HIDE DEF f
    <2>5. f[0] = NoRows
      BY <2>1, <2>2, <2>4 DEF Follows
    <2>6. \A i \in 1 .. m : f[i] = ProjectEvent(f[i - 1], history[i])
      <3> TAKE i \in 1 .. m
      <3>1. CASE i = m
        <4>1. f[m - 1] = g[m - 1]
          BY <2>1, <2>4
        <4> QED
          BY <3>1, <4>1, <2>4
      <3>2. CASE i # m
        <4>1. i \in 1 .. m - 1 /\ i \in 0 .. m - 1 /\ i - 1 \in 0 .. m - 1
          BY <3>2, <2>1
        <4>2. g[i] = ProjectEvent(g[i - 1], history[i])
          BY <4>1, <2>2 DEF Follows
        <4> QED
          BY <4>1, <4>2, <2>4
      <3> QED
        BY <3>1, <3>2
    <2>7. Follows(f, m, history)
      BY <2>3, <2>5, <2>6 DEF Follows
    <2> QED
      BY <2>7, <1>1
  <1> QED
    BY <1>2, <1>3

\* Two such functions agree, also on histories of which one continues the other.
LEMMA FollowsAgree ==
    ASSUME NEW h1, NEW h2, NEW n1 \in Nat, NEW n2 \in Nat, NEW f1, NEW f2,
           Follows(f1, n1, h1), Follows(f2, n2, h2),
           NEW n \in Nat, n <= n1, n <= n2, \A i \in 1 .. n : h1[i] = h2[i]
    PROVE  f1[n] = f2[n]
  <1> DEFINE Bad == {i \in 0 .. n : f1[i] # f2[i]}
  <1> SUFFICES ASSUME Bad # {}
               PROVE  FALSE
    OBVIOUS
  <1>1. PICK m \in Bad : \A i \in Bad : m <= i
    <2>1. Bad \in SUBSET Nat
      OBVIOUS
    <2> HIDE DEF Bad
    <2> QED
      BY <2>1, LeastExists
  <1>2. m # 0
    BY <1>1 DEF Follows
  <1>3. m - 1 \in 0 .. n /\ m \in 1 .. n1 /\ m \in 1 .. n2 /\ h1[m] = h2[m] /\ f1[m] # f2[m]
    BY <1>1, <1>2
  <1>4. f1[m - 1] = f2[m - 1]
    BY <1>1, <1>3
  <1>5. f1[m] = ProjectEvent(f1[m - 1], h1[m]) /\ f2[m] = ProjectEvent(f2[m - 1], h2[m])
    BY <1>3 DEF Follows
  <1> QED
    BY <1>3, <1>4, <1>5

\* RowsAfter is what its recursive definition says.
LEMMA RowsAfterRecursion ==
    ASSUME NEW history
    PROVE  /\ RowsAfter(history)[0] = NoRows
           /\ \A n \in Nat \ {0} :
                 RowsAfter(history)[n] = ProjectEvent(RowsAfter(history)[n - 1], history[n])
  <1> DEFINE upTo(n) == CHOOSE f : Follows(f, n, history)
             whole == [n \in Nat |-> upTo(n)[n]]
  <1>1. \A n \in Nat : Follows(upTo(n), n, history)
    BY FollowsExists
  <1>2. whole[0] = NoRows
    BY <1>1 DEF Follows
  <1>3. ASSUME NEW n \in Nat \ {0}
        PROVE  whole[n] = ProjectEvent(whole[n - 1], history[n])
    <2> DEFINE m == n - 1
               longer == upTo(n)
               shorter == upTo(m)
    <2>1. m \in Nat /\ n \in Nat /\ m <= n /\ m <= m /\ n \in 1 .. n
      OBVIOUS
    <2>2. Follows(longer, n, history) /\ Follows(shorter, m, history)
      BY <1>1, <2>1
    <2>3. whole[n] = longer[n] /\ whole[m] = shorter[m]
      BY <2>1
    <2> HIDE DEF m, longer, shorter, whole
    <2>4. longer[m] = shorter[m]
      BY <2>1, <2>2, FollowsAgree
    <2>5. longer[n] = ProjectEvent(longer[m], history[n])
      BY <2>1, <2>2 DEF Follows, m
    <2> QED
      BY <2>3, <2>4, <2>5 DEF m
  <1>4. whole = [n \in Nat |-> IF n = 0 THEN NoRows ELSE ProjectEvent(whole[n - 1], history[n])]
    <2> HIDE DEF upTo
    <2>1. whole = [n \in Nat |-> whole[n]]
      OBVIOUS
    <2> HIDE DEF whole
    <2> QED
      BY <1>2, <1>3, <2>1
  <1>5. RowsAfter(history)
          = CHOOSE f : f = [n \in Nat |-> IF n = 0 THEN NoRows ELSE ProjectEvent(f[n - 1], history[n])]
    BY DEF RowsAfter
  <1> HIDE DEF whole
  <1>6. RowsAfter(history)
          = [n \in Nat |-> IF n = 0 THEN NoRows
                           ELSE ProjectEvent(RowsAfter(history)[n - 1], history[n])]
    BY <1>4, <1>5
  <1> DEFINE rows == RowsAfter(history)
  <1> HIDE DEF rows
  <1>7. rows = [n \in Nat |-> IF n = 0 THEN NoRows ELSE ProjectEvent(rows[n - 1], history[n])]
    BY <1>6 DEF rows
  <1>8. rows[0] = NoRows /\ \A n \in Nat \ {0} : rows[n] = ProjectEvent(rows[n - 1], history[n])
    BY <1>7
  <1> QED
    BY <1>8 DEF rows

\* One more event is projected onto the rows so far.
LEMMA ProjectedStep ==
    ASSUME NEW history \in Seq(Event), NEW event
    PROVE  LET longer == Append(history, event)
           IN  RowsAfter(longer)[Len(longer)]
                 = ProjectEvent(RowsAfter(history)[Len(history)], event)
  <1> DEFINE longer == Append(history, event)
             n == Len(history)
             short == RowsAfter(history)
             long == RowsAfter(longer)
  <1>1. n \in Nat /\ Len(longer) = n + 1 /\ longer[n + 1] = event
        /\ \A i \in 1 .. n : longer[i] = history[i]
    OBVIOUS
  <1>2. /\ short[0] = NoRows /\ long[0] = NoRows
        /\ \A i \in Nat \ {0} : short[i] = ProjectEvent(short[i - 1], history[i])
        /\ \A i \in Nat \ {0} : long[i] = ProjectEvent(long[i - 1], longer[i])
    BY RowsAfterRecursion
  <1> HIDE DEF longer, n, short, long
  <1> DEFINE f == [i \in 0 .. n |-> short[i]]
             g == [i \in 0 .. n |-> long[i]]
  <1>3. Follows(f, n, history)
    <2>1. f = [i \in 0 .. n |-> f[i]] /\ \A i \in 0 .. n : f[i] = short[i]
      OBVIOUS
    <2> HIDE DEF f
    <2>2. f[0] = NoRows
      BY <2>1, <1>1, <1>2
    <2>3. ASSUME NEW i \in 1 .. n
          PROVE  f[i] = ProjectEvent(f[i - 1], history[i])
      <3>1. i \in Nat \ {0} /\ i \in 0 .. n /\ i - 1 \in 0 .. n
        BY <1>1
      <3>2. short[i] = ProjectEvent(short[i - 1], history[i])
        BY <3>1, <1>2
      <3> QED
        BY <3>1, <3>2, <2>1
    <2> QED
      BY <2>1, <2>2, <2>3 DEF Follows
  <1>4. Follows(g, n, longer)
    <2>1. g = [i \in 0 .. n |-> g[i]] /\ \A i \in 0 .. n : g[i] = long[i]
      OBVIOUS
    <2> HIDE DEF g
    <2>2. g[0] = NoRows
      BY <2>1, <1>1, <1>2
    <2>3. ASSUME NEW i \in 1 .. n
          PROVE  g[i] = ProjectEvent(g[i - 1], longer[i])
      <3>1. i \in Nat \ {0} /\ i \in 0 .. n /\ i - 1 \in 0 .. n
        BY <1>1
      <3>2. long[i] = ProjectEvent(long[i - 1], longer[i])
        BY <3>1, <1>2
      <3> QED
        BY <3>1, <3>2, <2>1
    <2> QED
      BY <2>1, <2>2, <2>3 DEF Follows
  <1>5. f[n] = g[n] /\ f[n] = short[n] /\ g[n] = long[n]
    <2>1. f[n] = short[n] /\ g[n] = long[n]
      BY <1>1
    <2>2. n <= n /\ \A i \in 1 .. n : history[i] = longer[i]
      BY <1>1
    <2> HIDE DEF f, g
    <2>3. f[n] = g[n]
      BY <1>1, <1>3, <1>4, <2>2, FollowsAgree
    <2> QED
      BY <2>1, <2>3
  <1>6. long[n + 1] = ProjectEvent(long[n], event)
    BY <1>1, <1>2
  <1> QED
    BY <1>1, <1>5, <1>6 DEF longer, n, short, long

LEMMA SameEvidence ==
    ASSUME NEW e1 \in Evidence, NEW e2 \in Evidence,
           e1.head = e2.head, e1.state = e2.state, e1.merged = e2.merged
    PROVE  e1 = e2
  <1>1. e1 = [head |-> e1.head, state |-> e1.state, merged |-> e1.merged]
    BY DEF Evidence
  <1>2. e2 = [head |-> e2.head, state |-> e2.state, merged |-> e2.merged]
    BY DEF Evidence
  <1> QED
    BY <1>1, <1>2

\* The fields of a merge.
LEMMA MergedFields ==
    ASSUME NEW old \in Evidence, NEW e \in Evidence
    PROVE  /\ Merged(old, e) \in Evidence
           /\ Merged(old, e).head = IF e.head = None THEN old.head ELSE e.head
           /\ Merged(old, e).state = IF e.state = "" THEN old.state ELSE e.state
           /\ Merged(old, e).merged = (old.merged \/ e.merged)
  BY Inputs DEF Merged

\* What a replica shows of a run.  It may lag behind in the delivery and never
\* shows one the origin was not told of.
RunFollows(r) ==
    LET shown == Projected.run[r]
    IN  /\ shown.status = run[r].status
        /\ shown.evidence.head = run[r].evidence.head
        /\ shown.evidence.state # "" => run[r].evidence.state # ""
        /\ shown.evidence.merged => run[r].evidence.merged
        /\ ~Undelivered(r) => shown = run[r]

\* RowsFollowLog with the rows the next event is projected onto.
RowsFollowInv ==
    /\ Projected = [run |-> Projected.run, trajectory |-> trajectory]
    /\ Projected.run \in [Run -> RunRow \cup {NoRun}]
    /\ \A r \in Run : RunFollows(r)

LEMMA RecordProjected ==
    ASSUME TypeOK, NEW k, NEW input, NEW event, Record(k, input, event)
    PROVE  Projected' = ProjectEvent(Projected, event)
  <1>1. log \in Seq(Event) /\ log' = Append(log, event)
    BY DEF TypeOK, Record
  <1>2. RowsAfter(log')[Len(log')] = ProjectEvent(RowsAfter(log)[Len(log)], event)
    BY <1>1, ProjectedStep
  <1> QED
    BY <1>2 DEF Projected

\* Only the event of a delivery tells what an end left out.
LEMMA StaysUndelivered ==
    ASSUME TypeOK, NEW k \in ReceiptKey, NEW input \in Input, NEW event \in Event,
           Record(k, input, event), NEW r \in Run,
           ~IsRunEvent(event, "run.delivery_linked", r), Undelivered(r)
    PROVE  Undelivered(r)'
  <1>1. PICK i \in DOMAIN log, k2 \in ReceiptKey :
            /\ IsRunEvent(log[i], "run.ended", r)
            /\ receipt[k2].event = i
            /\ ReportsDelivery(receipt[k2].input.evidence)
            /\ \A j \in DOMAIN log : j > i => ~IsRunEvent(log[j], "run.delivery_linked", r)
    BY DEF Undelivered
  <1>2. /\ Len(log) \in Nat
        /\ DOMAIN log = 1 .. Len(log)
        /\ DOMAIN log' = 1 .. Len(log) + 1
        /\ \A j \in DOMAIN log : log'[j] = log[j]
        /\ log'[Len(log) + 1] = event
        /\ receipt[k] = NoReceipt
        /\ \A k3 \in ReceiptKey : k3 # k => receipt'[k3] = receipt[k3]
    BY RecordShape
  <1>3. receipt'[k2] = receipt[k2]
    BY <1>1, <1>2 DEF NoReceipt
  <1>4. i \in DOMAIN log' /\ log'[i] = log[i]
    BY <1>2
  <1>5. \A j \in DOMAIN log' : j > i => ~IsRunEvent(log'[j], "run.delivery_linked", r)
    <2> TAKE j \in DOMAIN log'
    <2>1. CASE j = Len(log) + 1
      BY <2>1, <1>2
    <2>2. CASE j # Len(log) + 1
      BY <2>2, <1>1, <1>2
    <2> QED
      BY <2>1, <2>2
  <1> QED
    BY <1>1, <1>3, <1>4, <1>5 DEF Undelivered

\* A step that leaves a run, and what a replica shows of it, as they are.
LEMMA OthersFollow ==
    ASSUME TypeOK, RowsFollowInv,
           NEW k \in ReceiptKey, NEW input \in Input, NEW event \in Event,
           Record(k, input, event), NEW r \in Run,
           ~IsRunEvent(event, "run.delivery_linked", r),
           run'[r] = run[r], Projected'.run[r] = Projected.run[r]
    PROVE  RunFollows(r)'
  <1>1. RunFollows(r)
    BY DEF RowsFollowInv
  <1>2. ~Undelivered(r)' => ~Undelivered(r)
    BY StaysUndelivered
  <1> HIDE DEF Undelivered
  <1> QED
    BY <1>1, <1>2 DEF RunFollows

\* The projection of the event of a run: its row is merged into the one that is
\* shown, and an end closes the trajectories the run has.
LEMMA RunProjected ==
    ASSUME TypeOK, RowsFollowInv, NEW k, NEW input, NEW r \in Run, NEW row \in RunRow,
           NEW type, type # "trajectory.started", Record(k, input, RunEvent(type, r, row)),
           trajectory' = IF type = "run.ended" THEN Closed(r) ELSE trajectory
    PROVE  /\ Projected' = [run |-> Projected'.run, trajectory |-> trajectory']
           /\ Projected'.run = [Projected.run EXCEPT ![r] = ProjectedRun(Projected.run[r], row)]
  <1> DEFINE event == RunEvent(type, r, row)
             shown == Projected.run
             next == [shown EXCEPT ![r] = ProjectedRun(shown[r], row)]
  <1>1. Projected' = ProjectEvent(Projected, event)
    BY RecordProjected
  <1>2. Projected.trajectory = trajectory /\ Projected.run = shown
    BY DEF RowsFollowInv
  <1>3. event.type = type /\ event.entity = r /\ event.row = row
    BY DEF RunEvent
  <1>4. [Projected.run EXCEPT ![event.entity] = ProjectedRun(@, event.row)] = next
    BY <1>3
  <1> HIDE DEF event, shown, next
  <1>5. [t \in Trajectory |->
            IF event.type = "run.ended" /\ Projected.trajectory[t].status = "active"
                   /\ Projected.trajectory[t].run = event.entity
            THEN [Projected.trajectory[t] EXCEPT !.status = "closed"]
            ELSE Projected.trajectory[t]] = trajectory'
    <2>1. CASE type = "run.ended"
      BY <1>2, <1>3, <2>1 DEF Closed
    <2>2. CASE type # "run.ended"
      BY <1>2, <1>3, <2>2 DEF TypeOK
    <2> QED
      BY <2>1, <2>2
  <1>6. Projected' = [run |-> next, trajectory |-> trajectory']
    BY <1>1, <1>3, <1>4, <1>5 DEF ProjectEvent
  <1> QED
    BY <1>6 DEF next, shown

\* One run changes, its event is projected, and it is shown as it should be.
LEMMA RunStepFollows ==
    ASSUME TypeOK, RowsFollowInv, NEW k \in ReceiptKey, NEW input \in Input,
           NEW r \in Run, NEW row \in RunRow,
           NEW type, type # "trajectory.started", RunEvent(type, r, row) \in Event,
           Record(k, input, RunEvent(type, r, row)),
           trajectory' = IF type = "run.ended" THEN Closed(r) ELSE trajectory,
           \A r2 \in Run : r2 # r => run'[r2] = run[r2],
           Projected'.run[r] = ProjectedRun(Projected.run[r], row) => RunFollows(r)'
    PROVE  RowsFollowInv'
  <1>1. /\ Projected' = [run |-> Projected'.run, trajectory |-> trajectory']
        /\ Projected'.run = [Projected.run EXCEPT ![r] = ProjectedRun(Projected.run[r], row)]
    BY RunProjected
  <1>2. Projected.run \in [Run -> RunRow \cup {NoRun}]
    BY DEF RowsFollowInv
  <1>3. ProjectedRun(Projected.run[r], row) \in RunRow
    <2>1. CASE Projected.run[r] = NoRun
      BY <2>1 DEF ProjectedRun
    <2>2. CASE Projected.run[r] # NoRun
      <3>1. Projected.run[r] \in RunRow
        BY <1>2, <2>2
      <3> QED
        BY <3>1, <2>2, Inputs DEF ProjectedRun, RunRow
    <2> QED
      BY <2>1, <2>2
  <1>4. Projected'.run \in [Run -> RunRow \cup {NoRun}]
    BY <1>1, <1>2, <1>3
  <1>5. RunFollows(r)'
    BY <1>1, <1>2
  <1>6. ASSUME NEW r2 \in Run, r2 # r
        PROVE  RunFollows(r2)'
    <2>1. ~IsRunEvent(RunEvent(type, r, row), "run.delivery_linked", r2)
      BY <1>6 DEF IsRunEvent, RunEvent
    <2>2. Projected'.run[r2] = Projected.run[r2]
      BY <1>1, <1>2, <1>6
    <2> QED
      BY <2>1, <2>2, <1>6, OthersFollow
  <1> QED
    BY <1>1, <1>4, <1>5, <1>6 DEF RowsFollowInv

LEMMA StartFollows ==
    ASSUME TypeOK, RowsFollowInv, NEW k \in Key, NEW r \in Run, NEW head \in Commit \cup {None},
           StartRun(k, r, head)
    PROVE  RowsFollowInv'
  <1> DEFINE row == [status |-> "open", evidence |-> HeadOnly(head)]
             event == RunEvent("run.started", r, row)
  <1>1. row \in RunRow
    BY Inputs DEF RunRow
  <1>2. event \in Event
    BY <1>1 DEF RunEvent, Event
  <1>3. /\ run' = [run EXCEPT ![r] = row] /\ run'[r] = row
        /\ run[r] = NoRun /\ trajectory' = trajectory
    BY DEF StartRun, TypeOK
  <1>4. Record(OwnKey(k), InputOf("start", HeadOnly(head)), event)
    BY <1>3 DEF StartRun
  <1>5. ASSUME Projected'.run[r] = ProjectedRun(Projected.run[r], row)
        PROVE  RunFollows(r)'
    <2>1. Projected.run[r] = NoRun
      <3>1. Projected.run[r] \in RunRow \cup {NoRun} /\ RunFollows(r)
        BY DEF RowsFollowInv
      <3>2. Projected.run[r].status = run[r].status
        BY <3>1 DEF RunFollows
      <3>3. run[r].status = "absent"
        BY <1>3 DEF NoRun
      <3> QED
        BY <3>1, <3>2, <3>3 DEF RunRow
    <2>2. Projected'.run[r] = run'[r]
      BY <1>3, <1>5, <2>1 DEF ProjectedRun
    <2> QED
      BY <2>2 DEF RunFollows
  <1>6. \A r2 \in Run : r2 # r => run'[r2] = run[r2]
    BY <1>3 DEF TypeOK
  <1>7. OwnKey(k) \in ReceiptKey /\ InputOf("start", HeadOnly(head)) \in Input
    BY KeysApart, Inputs
  <1> HIDE DEF row
  <1> QED
    BY <1>1, <1>2, <1>3, <1>4, <1>5, <1>6, <1>7, RunStepFollows

\* The event of a delivery carries the whole row: it is shown from then on,
\* whatever ends left out before.
LEMMA DeliverFollows ==
    ASSUME TypeOK, RowsFollowInv, NEW k \in ReceiptKey, NEW r \in Run, NEW evidence \in Evidence,
           Deliver(k, r, evidence)
    PROVE  RowsFollowInv'
  <1> DEFINE row == [status |-> run[r].status, evidence |-> Merged(run[r].evidence, evidence)]
             event == RunEvent("run.delivery_linked", r, row)
             shown == Projected.run[r]
  <1>1. run[r] \in RunRow /\ row \in RunRow
    BY RowShape, Inputs DEF Deliver, Deliverable, RunRow
  <1>2. event \in Event
    BY <1>1 DEF RunEvent, Event
  <1>3. /\ run' = [run EXCEPT ![r] = row] /\ run'[r] = row /\ trajectory' = trajectory
    BY DEF Deliver, Update, TypeOK
  <1>4. Record(k, InputOf("link", evidence), event)
    BY <1>3 DEF Deliver, ReadBack
  <1>5. ASSUME Projected'.run[r] = ProjectedRun(Projected.run[r], row)
        PROVE  RunFollows(r)'
    <2>1. RunFollows(r) /\ shown \in RunRow \cup {NoRun}
      BY DEF RowsFollowInv
    <2>2. shown \in RunRow
      <3>1. shown.status = run[r].status
        BY <2>1 DEF RunFollows
      <3>2. run[r].status # "absent"
        BY <1>1 DEF RunRow
      <3>3. NoRun.status = "absent"
        BY DEF NoRun
      <3> QED
        BY <2>1, <3>1, <3>2, <3>3
    <2>3. shown # NoRun
      BY <2>2 DEF RunRow, NoRun
    <2>4. Merged(shown.evidence, row.evidence) = row.evidence
      <3>1. /\ shown.evidence \in Evidence /\ run[r].evidence \in Evidence
            /\ row.evidence = Merged(run[r].evidence, evidence)
        BY <1>1, <2>2 DEF RunRow
      <3>2. /\ shown.evidence.head = run[r].evidence.head
            /\ shown.evidence.state # "" => run[r].evidence.state # ""
            /\ shown.evidence.merged => run[r].evidence.merged
        BY <2>1 DEF RunFollows
      <3>0. /\ row.evidence \in Evidence
            /\ row.evidence.head =
                  IF evidence.head = None THEN run[r].evidence.head ELSE evidence.head
            /\ row.evidence.state =
                  IF evidence.state = "" THEN run[r].evidence.state ELSE evidence.state
        BY <3>1, MergedFields
      <3>3. Merged(shown.evidence, row.evidence).head = row.evidence.head
        <4>1. Merged(shown.evidence, row.evidence).head =
                IF row.evidence.head = None THEN shown.evidence.head ELSE row.evidence.head
          BY <3>0, <3>1, MergedFields
        <4> HIDE DEF shown, row
        <4> QED
          BY <3>0, <3>2, <4>1
      <3>4. Merged(shown.evidence, row.evidence).state = row.evidence.state
        <4>1. Merged(shown.evidence, row.evidence).state =
                IF row.evidence.state = "" THEN shown.evidence.state ELSE row.evidence.state
          BY <3>0, <3>1, MergedFields
        <4> HIDE DEF shown, row
        <4> QED
          BY <3>0, <3>2, <4>1
      <3>5. Merged(shown.evidence, row.evidence).merged = row.evidence.merged
        <4>1. row.evidence.merged = (run[r].evidence.merged \/ evidence.merged)
          BY <3>1, MergedFields
        <4>2. row.evidence \in Evidence
          BY <3>1, MergedFields
        <4>3. Merged(shown.evidence, row.evidence).merged
                = (shown.evidence.merged \/ row.evidence.merged)
          BY <3>1, <4>2, MergedFields
        <4>4. /\ shown.evidence.merged \in BOOLEAN /\ run[r].evidence.merged \in BOOLEAN
              /\ evidence.merged \in BOOLEAN
          BY <3>1 DEF Evidence
        <4> HIDE DEF shown, row
        <4> QED
          BY <3>2, <4>1, <4>3, <4>4
      <3>6. row.evidence \in Evidence /\ Merged(shown.evidence, row.evidence) \in Evidence
        BY <3>1, MergedFields
      <3> HIDE DEF shown, row
      <3> QED
        BY <3>3, <3>4, <3>5, <3>6, SameEvidence
    <2>5. IF row.status = "ended" THEN row.status = "ended" ELSE shown.status = row.status
      BY <2>1 DEF RunFollows
    <2>6. ProjectedRun(shown, row) = row
      BY <2>3, <2>4, <2>5 DEF ProjectedRun
    <2>7. Projected'.run[r] = run'[r]
      BY <1>3, <1>5, <2>6
    <2> QED
      BY <2>7 DEF RunFollows
  <1>6. \A r2 \in Run : r2 # r => run'[r2] = run[r2]
    BY <1>3 DEF TypeOK
  <1>7. InputOf("link", evidence) \in Input
    BY Inputs
  <1> HIDE DEF row, shown
  <1> QED
    BY <1>1, <1>2, <1>3, <1>4, <1>5, <1>6, <1>7, RunStepFollows

\* An end that reports a delivery leaves it undelivered: the event has only the
\* head commit, and no event has told the delivery yet.
LEMMA EndLeavesUndelivered ==
    ASSUME TypeOK, NEW k \in ReceiptKey, NEW evidence \in Evidence, NEW r \in Run,
           NEW row, RunEvent("run.ended", r, row) \in Event,
           Record(k, InputOf("end", evidence), RunEvent("run.ended", r, row)),
           ReportsDelivery(evidence)
    PROVE  Undelivered(r)'
  <1> DEFINE event == RunEvent("run.ended", r, row)
             n == Len(log) + 1
  <1>1. InputOf("end", evidence) \in Input
    BY Inputs
  <1>2. /\ Len(log) \in Nat
        /\ DOMAIN log' = 1 .. n
        /\ log'[n] = event
        /\ receipt'[k] = [input |-> InputOf("end", evidence), event |-> n]
    BY <1>1, RecordShape
  <1>3. IsRunEvent(event, "run.ended", r)
    BY DEF IsRunEvent, RunEvent
  <1>4. receipt'[k].event = n /\ receipt'[k].input.evidence = evidence
    BY <1>2 DEF InputOf
  <1> HIDE DEF event
  <1> QED
    BY <1>2, <1>3, <1>4 DEF Undelivered

LEMMA EndFollows ==
    ASSUME TypeOK, EndedOnce, RowsFollowInv,
           NEW c \in Call, NEW k \in Key, NEW r \in Run, NEW evidence \in Evidence,
           EndRun(c, k, r, evidence)
    PROVE  RowsFollowInv'
  <1> DEFINE full == [status |-> "ended", evidence |-> Merged(run[r].evidence, evidence)]
             row == Portable(full)
             event == RunEvent("run.ended", r, row)
             shown == Projected.run[r]
  <1>1. run[r] \in RunRow /\ full \in RunRow
    BY RowShape, Inputs DEF EndRun, Deliverable, RunRow
  <1>2. row \in RunRow /\ row = [status |-> "ended", evidence |-> HeadOnly(full.evidence.head)]
    BY <1>1, PortableRow
  <1>3. event \in Event
    BY <1>2 DEF RunEvent, Event
  <1>4. /\ run' = [run EXCEPT ![r] = full] /\ run'[r] = full /\ trajectory' = Closed(r)
    BY DEF EndRun, Update, TypeOK
  <1>5. Record(OwnKey(k), InputOf("end", evidence), event)
    BY <1>4 DEF EndRun, ReadBack
  <1>6. OwnKey(k) \in ReceiptKey /\ InputOf("end", evidence) \in Input
    BY KeysApart, Inputs
  <1>7. shown = run[r]
    <2>1. \A i \in DOMAIN log : ~IsRunEvent(log[i], "run.ended", r)
      BY DEF EndRun, Open, EndedOnce
    <2>2. ~Undelivered(r)
      BY <2>1 DEF Undelivered
    <2> QED
      BY <2>2 DEF RowsFollowInv, RunFollows
  <1>8. ASSUME Projected'.run[r] = ProjectedRun(Projected.run[r], row)
        PROVE  RunFollows(r)'
    <2>1. run[r] # NoRun
      BY DEF EndRun, Deliverable
    <2>2. Projected'.run[r]
            = [status |-> "ended", evidence |-> Merged(run[r].evidence, row.evidence)]
      BY <1>2, <1>7, <1>8, <2>1 DEF ProjectedRun
    <2>3. /\ run[r].evidence \in Evidence
          /\ full.evidence = Merged(run[r].evidence, evidence)
          /\ row.evidence = HeadOnly(full.evidence.head)
      BY <1>1, <1>2 DEF RunRow
    <2> DEFINE seen == Merged(run[r].evidence, row.evidence)
    <2>4. /\ row.evidence \in Evidence /\ full.evidence \in Evidence
          /\ row.evidence.head = full.evidence.head
          /\ row.evidence.state = "" /\ row.evidence.merged = FALSE
      BY <1>1, <1>2, <2>3 DEF RunRow, HeadOnly, NoEvidence
    <2>5. /\ full.evidence.head =
                IF evidence.head = None THEN run[r].evidence.head ELSE evidence.head
          /\ full.evidence.state =
                IF evidence.state = "" THEN run[r].evidence.state ELSE evidence.state
          /\ full.evidence.merged = (run[r].evidence.merged \/ evidence.merged)
      BY <2>3, MergedFields
    <2>6. /\ seen \in Evidence
          /\ seen.head =
                IF row.evidence.head = None THEN run[r].evidence.head ELSE row.evidence.head
          /\ seen.state =
                IF row.evidence.state = "" THEN run[r].evidence.state ELSE row.evidence.state
          /\ seen.merged = (run[r].evidence.merged \/ row.evidence.merged)
      BY <2>3, <2>4, MergedFields
    <2>7. run[r].evidence.merged \in BOOLEAN /\ evidence.merged \in BOOLEAN
      BY <2>3 DEF Evidence
    <2>8. /\ seen.head = full.evidence.head
          /\ seen.state = run[r].evidence.state
          /\ seen.merged = run[r].evidence.merged
      <3> HIDE DEF full, row, seen
      <3> QED
        BY <2>4, <2>5, <2>6, <2>7
    <2>9. ASSUME ~ReportsDelivery(evidence)
          PROVE  seen = full.evidence
      <3>1. evidence.state = "" /\ evidence.merged = FALSE
        BY <2>9 DEF ReportsDelivery, HeadOnly, NoEvidence
      <3>2. seen.state = full.evidence.state /\ seen.merged = full.evidence.merged
        BY <2>5, <2>7, <2>8, <3>1
      <3> HIDE DEF full, row, seen
      <3> QED
        BY <2>4, <2>6, <2>8, <3>2, SameEvidence
    <2>10. ReportsDelivery(evidence) => Undelivered(r)'
      BY <1>3, <1>5, <1>6, EndLeavesUndelivered
    <2>11. /\ Projected'.run[r].status = run'[r].status
           /\ Projected'.run[r].evidence = seen
           /\ run'[r].evidence = full.evidence
           /\ ~ReportsDelivery(evidence) => Projected'.run[r] = run'[r]
      BY <1>4, <2>2, <2>9
    <2>12. /\ seen.state # "" => full.evidence.state # ""
           /\ seen.merged => full.evidence.merged
      <3> HIDE DEF full, row, seen
      <3> QED
        BY <2>5, <2>7, <2>8
    <2>13. ~Undelivered(r)' => Projected'.run[r] = run'[r]
      BY <2>10, <2>11
    <2> HIDE DEF full, row, seen
    <2>14. Projected'.run[r].status = run'[r].status
      BY <2>11
    <2>15. /\ Projected'.run[r].evidence.head = run'[r].evidence.head
           /\ Projected'.run[r].evidence.state # "" => run'[r].evidence.state # ""
           /\ Projected'.run[r].evidence.merged => run'[r].evidence.merged
      BY <2>8, <2>11, <2>12
    <2> HIDE DEF shown
    <2> QED
      BY <2>13, <2>14, <2>15 DEF RunFollows
  <1>9. \A r2 \in Run : r2 # r => run'[r2] = run[r2]
    BY <1>4 DEF TypeOK
  <1> HIDE DEF row, shown
  <1> QED
    BY <1>2, <1>3, <1>4, <1>5, <1>6, <1>8, <1>9, RunStepFollows

LEMMA CreateFollows ==
    ASSUME TypeOK, RowsFollowInv, NEW c \in Call, NEW t \in Trajectory, CreateTrajectory(c, t)
    PROVE  RowsFollowInv'
  <1> DEFINE event == [type |-> "trajectory.started", entity |-> t, run |-> call[c].run]
             input == TrajectoryInput(call[c].run, call[c].head)
  <1>1. call[c].key \in Key /\ call[c].run \in Run /\ call[c].head \in Commit \cup {None}
    BY HandlerShape DEF CreateTrajectory
  <1>2. event \in Event
    BY <1>1 DEF Event
  <1>3. Record(OwnKey(call[c].key), input, event) /\ run' = run
    BY DEF CreateTrajectory
  <1>4. OwnKey(call[c].key) \in ReceiptKey /\ input \in Input
    BY <1>1, KeysApart, Inputs
  <1>5. Projected' = [Projected EXCEPT !.trajectory[t] = [status |-> "active", run |-> call[c].run]]
    <2>1. Projected' = ProjectEvent(Projected, event)
      BY <1>3, RecordProjected
    <2> QED
      BY <2>1 DEF ProjectEvent
  <1>6. Projected = [run |-> Projected.run, trajectory |-> trajectory]
    BY DEF RowsFollowInv
  <1>7. trajectory' = [trajectory EXCEPT ![t] = [status |-> "active", run |-> call[c].run]]
    BY DEF CreateTrajectory
  <1>8. Projected' = [run |-> Projected.run, trajectory |-> trajectory']
    <2> HIDE DEF event, input
    <2> QED
      BY <1>5, <1>6, <1>7
  <1>9. Projected'.run = Projected.run
    BY <1>8
  <1>10. ASSUME NEW r \in Run
         PROVE  RunFollows(r)'
    <2>1. ~IsRunEvent(event, "run.delivery_linked", r)
      BY DEF IsRunEvent
    <2> HIDE DEF event, input
    <2> QED
      BY <2>1, <1>2, <1>3, <1>4, <1>9, OthersFollow
  <1>11. Projected'.run \in [Run -> RunRow \cup {NoRun}]
    BY <1>9 DEF RowsFollowInv
  <1> QED
    BY <1>8, <1>9, <1>10, <1>11 DEF RowsFollowInv

LEMMA RowsFollowInit == Init => RowsFollowInv
  <1> SUFFICES ASSUME Init PROVE RowsFollowInv
    OBVIOUS
  <1>1. Projected = NoRows
    BY RowsAfterRecursion DEF Init, Projected
  <1>2. run = NoRows.run /\ trajectory = NoRows.trajectory
    BY DEF Init, NoRows
  <1>3. \A r \in Run : RunFollows(r)
    BY <1>1, <1>2 DEF RunFollows, NoRows, NoRun
  <1> QED
    BY <1>1, <1>2, <1>3 DEF RowsFollowInv, NoRows

\* A replica that takes all events of this origin has its trajectories, the
\* status and the head of its runs, and of a delivery what the origin has unless
\* an end reported it and stopped before telling it.
THEOREM RowsFollow == Spec => []RowsFollowLog
  <1>1. Init => RowsFollowInv
    BY RowsFollowInit
  <1>2. MutationsInv /\ RowsFollowInv /\ [Next]_vars => RowsFollowInv'
    <2> SUFFICES ASSUME MutationsInv, RowsFollowInv, [Next]_vars
                 PROVE  RowsFollowInv'
      OBVIOUS
    <2>0. TypeOK /\ EndedOnce
      BY DEF MutationsInv
    <2>1. ASSUME NEW k \in Key, NEW r \in Run, NEW head \in Commit \cup {None},
                 StartRun(k, r, head)
          PROVE  RowsFollowInv'
      BY <2>0, <2>1, StartFollows
    <2>2. ASSUME NEW k \in ReceiptKey, NEW r \in Run, NEW evidence \in Evidence,
                 Deliver(k, r, evidence)
          PROVE  RowsFollowInv'
      BY <2>0, <2>2, DeliverFollows
    <2>3. ASSUME NEW c \in Call, NEW k \in Key, NEW r \in Run, NEW evidence \in Evidence,
                 EndRun(c, k, r, evidence)
          PROVE  RowsFollowInv'
      BY <2>0, <2>3, EndFollows
    <2>4. ASSUME NEW c \in Call, NEW t \in Trajectory, CreateTrajectory(c, t)
          PROVE  RowsFollowInv'
      BY <2>0, <2>4, CreateFollows
    <2>5. CASE UNCHANGED <<receipt, log, run, trajectory>>
      BY <2>5 DEF RowsFollowInv, RunFollows, Projected, Undelivered
    <2>6. CASE UNCHANGED vars
      BY <2>5, <2>6 DEF vars
    <2> QED
      BY <2>1, <2>2, <2>3, <2>4, <2>5, <2>6, StepShape
  <1>3. RowsFollowInv => RowsFollowLog
    <2> SUFFICES ASSUME RowsFollowInv PROVE RowsFollowLog
      OBVIOUS
    <2>1. Projected.trajectory = trajectory
      BY DEF RowsFollowInv
    <2>2. ASSUME NEW r \in Run
          PROVE  /\ Projected.run[r].status = run[r].status
                 /\ Projected.run[r].evidence.head = run[r].evidence.head
                 /\ ~Undelivered(r) => Projected.run[r] = run[r]
      <3>1. RunFollows(r)
        BY DEF RowsFollowInv
      <3> QED
        BY <3>1 DEF RunFollows
    <2> QED
      BY <2>1, <2>2 DEF RowsFollowLog
  <1> QED
    BY <1>1, <1>2, <1>3, MutationsInvariance, PTL DEF Spec

-----------------------------------------------------------------------------
(* Refinement *)

LEMMA RecordIsTake ==
    ASSUME TypeOK, NEW k \in ReceiptKey, NEW input \in Input, NEW event \in Event,
           Record(k, input, event)
    PROVE  Requests!Next
  <1>1. /\ Len(log') = Len(log) + 1
        /\ \A i \in DOMAIN log : log'[i] = log[i]
        /\ receipt[k] = NoReceipt
        /\ receipt'[k] = [input |-> input, event |-> Len(log) + 1]
        /\ \A k2 \in ReceiptKey : k2 # k => receipt'[k2] = receipt[k2]
    BY RecordShape
  <1>2. [k2 \in ReceiptKey |-> receipt'[k2].event]
          = [[k2 \in ReceiptKey |-> receipt[k2].event] EXCEPT ![k] = Len(log) + 1]
    <2>1. receipt'[k].event = Len(log) + 1
      BY <1>1
    <2>2. \A k2 \in ReceiptKey : k2 # k => receipt'[k2].event = receipt[k2].event
      BY <1>1
    <2> QED
      BY <2>1, <2>2
  <1>3. receipt[k].event = 0
    BY <1>1 DEF NoReceipt
  <1>4. Requests!Take(k)
    BY <1>1, <1>2, <1>3 DEF Requests!Take
  <1> QED
    BY <1>4 DEF Requests!Next

\* The write path implements the abstract one: a key has at most one effect,
\* in one order, and none is taken back.
THEOREM AtMostOnce == Spec => ImplementsRequests
  <1>1. Init => Requests!Init
    BY DEF Init, Requests!Init, NoReceipt
  <1>2. MutationsInv /\ [Next]_vars =>
            [Requests!Next]_<<log, [k \in ReceiptKey |-> receipt[k].event]>>
    <2> SUFFICES ASSUME MutationsInv, [Next]_vars
                 PROVE  Requests!Next \/ (receipt' = receipt /\ log' = log)
      OBVIOUS
    <2>0. TypeOK /\ TypeOK'
      BY StepInv DEF MutationsInv
    <2>1. ASSUME NEW k \in Key, NEW r \in Run, NEW head \in Commit \cup {None},
                 StartRun(k, r, head)
          PROVE  Requests!Next
      <3>1. run'[r] \in RunRow
        BY <2>0, <2>1, Inputs DEF StartRun, TypeOK, RunRow
      <3>2. RunEvent("run.started", r, run'[r]) \in Event
        BY <3>1 DEF RunEvent, Event
      <3> QED
        BY <2>0, <2>1, <3>2, Inputs, KeysApart, RecordIsTake DEF StartRun
    <2>2. ASSUME NEW k \in ReceiptKey, NEW r \in Run, NEW evidence \in Evidence,
                 Deliver(k, r, evidence)
          PROVE  Requests!Next
      <3>1. run'[r] \in RunRow
        BY <2>0, <2>2, Inputs, RowShape DEF Deliver, Deliverable, Update, TypeOK, RunRow
      <3>2. RunEvent("run.delivery_linked", r, ReadBack(r)) \in Event
        BY <3>1 DEF RunEvent, Event, ReadBack
      <3> QED
        BY <2>0, <2>2, <3>2, Inputs, RecordIsTake DEF Deliver
    <2>3. ASSUME NEW c \in Call, NEW k \in Key, NEW r \in Run, NEW evidence \in Evidence,
                 EndRun(c, k, r, evidence)
          PROVE  Requests!Next
      <3>1. run'[r] \in RunRow
        BY <2>0, <2>3, Inputs, RowShape DEF EndRun, Update, TypeOK, RunRow
      <3>2. RunEvent("run.ended", r, Portable(ReadBack(r))) \in Event
        BY <3>1, PortableRow DEF RunEvent, Event, ReadBack
      <3> QED
        BY <2>0, <2>3, <3>2, Inputs, KeysApart, RecordIsTake DEF EndRun
    <2>4. ASSUME NEW c \in Call, NEW t \in Trajectory, CreateTrajectory(c, t)
          PROVE  Requests!Next
      <3>1. call[c].key \in Key /\ call[c].run \in Run /\ call[c].head \in Commit \cup {None}
        BY <2>0, <2>4, HandlerShape DEF CreateTrajectory
      <3>2. [type |-> "trajectory.started", entity |-> t, run |-> call[c].run] \in Event
        BY <3>1 DEF Event
      <3> QED
        BY <2>0, <2>4, <3>1, <3>2, Inputs, KeysApart, RecordIsTake DEF CreateTrajectory
    <2>5. CASE UNCHANGED vars
      BY <2>5 DEF vars
    <2>6. CASE Next
      BY <2>1, <2>2, <2>3, <2>4, <2>6, StepShape
    <2> QED
      BY <2>5, <2>6
  <1> QED
    BY <1>1, <1>2, MutationsInvariance, PTL DEF Spec, ImplementsRequests, Requests!Spec
=============================================================================
