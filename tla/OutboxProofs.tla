---------------------------- MODULE OutboxProofs -----------------------------
(***************************************************************************)
(* Proofs about module Outbox, for any mails, faulty recipients, size of a *)
(* claim and number of faults.                                             *)
(***************************************************************************)
EXTENDS Outbox, FiniteSetTheorems, TLAPS

LEMMA NextPlace ==
    ASSUME TypeOK
    PROVE  Cardinality(Queued) + 1 \in Nat \ {0}
  <1>1. Queued \subseteq Mail
    BY DEF Queued
  <1>2. IsFiniteSet(Queued)
    BY <1>1, MailsFinite, FS_Subset
  <1>3. Cardinality(Queued) \in Nat
    BY <1>2, FS_CardinalityType
  <1> QED
    BY <1>3

LEMMA FaultCounted ==
    ASSUME TypeOK, Fault
    PROVE  faults' \in 0..MaxFaults /\ faults' = faults + 1
  BY FaultsCounted DEF TypeOK, Fault

LEMMA Deliver ==
    ASSUME NEW m \in Mail, NEW f \in [Mail -> Nat], NEW g,
           g = [f EXCEPT ![m] = @ + 1]
    PROVE  /\ g \in [Mail -> Nat]
           /\ g[m] = f[m] + 1 /\ g[m] > 0
           /\ \A k \in Mail : g[k] >= f[k] /\ (k # m => g[k] = f[k])
  <1>1. g[m] = f[m] + 1 /\ \A k \in Mail : k # m => g[k] = f[k]
    OBVIOUS
  <1>2. f[m] \in Nat /\ \A k \in Mail : f[k] \in Nat
    OBVIOUS
  <1>3. f[m] + 1 \in Nat /\ f[m] + 1 > 0 /\ f[m] + 1 >= f[m]
    BY <1>2
  <1>4. g \in [Mail -> Nat]
    BY <1>2, <1>3
  <1>5. \A k \in Mail : g[k] >= f[k]
    BY <1>1, <1>2, <1>3
  <1> QED
    BY <1>1, <1>3, <1>4, <1>5

LEMMA InitInv == Init => OutboxInv
  BY FaultsCounted, NoMailIsNone DEF Init, OutboxInv, TypeOK, WorkerState, Queued

LEMMA QueueMailInv ==
    ASSUME OutboxInv, NEW m \in Mail, QueueMail(m)
    PROVE  OutboxInv' /\ Queued' = Queued \cup {m}
  <1> USE DEF QueueMail
  <1>0. TypeOK
    BY DEF OutboxInv
  <1>1. TypeOK'
    BY <1>0, NextPlace DEF TypeOK
  <1>2. Queued' = Queued \cup {m}
    BY <1>0, NextPlace DEF TypeOK, Queued
  <1> QED
    BY <1>1, <1>2 DEF OutboxInv

\* Every other step leaves the queue and the order of its mails alone.
LEMMA ClaimInv ==
    ASSUME OutboxInv, ClaimOutbox
    PROVE  OutboxInv'
  <1> PICK claim \in SUBSET Mail : /\ Claimable(claim)
                                  /\ batch' = claim
                                  /\ worker' = IF claim = {} THEN "tick" ELSE "send"
    BY DEF ClaimOutbox
  <1>1. claim \subseteq Queued \ sent
    BY DEF Claimable, Due
  <1>2. Queued' = Queued
    BY DEF ClaimOutbox, Queued
  <1> QED
    BY <1>1, <1>2 DEF OutboxInv, TypeOK, ClaimOutbox, WorkerState

LEMMA SendInv ==
    ASSUME OutboxInv, NEW m \in Mail, Send(m)
    PROVE  OutboxInv' /\ m \notin sent
  <1>1. Queued' = Queued
    BY DEF Send, Queued
  <1>2. m \in batch /\ m \in Queued \ sent
    BY DEF Send, Oldest, OutboxInv
  <1>0. delivered \in [Mail -> Nat] /\ \A k \in Mail : delivered[k] \in Nat
    BY DEF OutboxInv, TypeOK
  <1>3. /\ delivered' \in [Mail -> Nat] /\ \A k \in Mail : delivered'[k] >= delivered[k]
        /\ m \notin Faulty => delivered'[m] > 0
    <2>1. delivered' = delivered \/ (delivered' = [delivered EXCEPT ![m] = @ + 1])
      BY DEF Send
    <2>2. m \notin Faulty => delivered' = [delivered EXCEPT ![m] = @ + 1]
      BY DEF Send
    <2>3. CASE delivered' = delivered
      BY <1>0, <2>2, <2>3, Deliver
    <2>4. CASE delivered' = [delivered EXCEPT ![m] = @ + 1]
      BY <1>0, <2>4, Deliver
    <2> QED
      BY <2>1, <2>3, <2>4
  <1>5. TypeOK'
    BY <1>3 DEF Send, Holds, OutboxInv, TypeOK, WorkerState
  <1> QED
    BY <1>0, <1>1, <1>2, <1>3, <1>5, NoMailIsNone DEF Send, Holds, OutboxInv, TypeOK

LEMMA LoseMailInv ==
    ASSUME OutboxInv, NEW m \in Mail, LoseMail(m)
    PROVE  OutboxInv' /\ m \notin sent
  <1>1. Queued' = Queued
    BY DEF LoseMail, Queued
  <1>2. m \in batch /\ m \in Queued \ sent
    BY DEF LoseMail, Oldest, OutboxInv
  <1>0. delivered \in [Mail -> Nat] /\ \A k \in Mail : delivered[k] \in Nat
    BY DEF OutboxInv, TypeOK
  <1>3. delivered' \in [Mail -> Nat] /\ \A k \in Mail : delivered'[k] >= delivered[k]
    <2>1. delivered' = delivered \/ (delivered' = [delivered EXCEPT ![m] = @ + 1])
      BY DEF LoseMail
    <2>2. CASE delivered' = delivered
      BY <1>0, <2>2
    <2>3. CASE delivered' = [delivered EXCEPT ![m] = @ + 1]
      BY <1>0, <2>3, Deliver
    <2> QED
      BY <2>1, <2>2, <2>3
  <1>4. TypeOK'
    BY <1>3, FaultCounted DEF LoseMail, Holds, OutboxInv, TypeOK, WorkerState
  <1> QED
    BY <1>0, <1>1, <1>2, <1>3, <1>4, NoMailIsNone DEF LoseMail, Holds, OutboxInv, TypeOK

LEMMA MarkOutboxSentInv ==
    ASSUME OutboxInv, MarkOutboxSent
    PROVE  OutboxInv'
  <1>1. Queued' = Queued
    BY DEF MarkOutboxSent, Queued
  <1>2. current \in Queued \ (sent \cup batch) /\ current \in Mail
    BY NoMailIsNone DEF MarkOutboxSent, OutboxInv, Queued
  <1>3. TypeOK'
    BY <1>2 DEF MarkOutboxSent, SentWith, GoOn, OutboxInv, TypeOK, WorkerState
  <1> QED
    BY <1>1, <1>2, <1>3, NoMailIsNone DEF MarkOutboxSent, SentWith, GoOn, OutboxInv

LEMMA MarkOutboxFailedInv ==
    ASSUME OutboxInv, MarkOutboxFailed
    PROVE  OutboxInv'
  <1>1. Queued' = Queued
    BY DEF MarkOutboxFailed, Queued
  <1>2. current \in Mail
    BY NoMailIsNone DEF MarkOutboxFailed, OutboxInv, Queued
  <1>3. TypeOK'
    BY <1>2 DEF MarkOutboxFailed, GoOn, OutboxInv, TypeOK, WorkerState
  <1> QED
    BY <1>1, <1>3, NoMailIsNone DEF MarkOutboxFailed, GoOn, OutboxInv

\* The worker ends, goes back to its claim, or a minute passes.
LEMMA RestInv ==
    ASSUME OutboxInv,
           \/ \E m \in Mail : Later(m)
           \/ Tick \/ Restart \/ FailDatabase \/ Crash
           \/ UNCHANGED vars
    PROVE  OutboxInv' /\ sent' = sent /\ delivered' = delivered
  <1> USE DEF OutboxInv, TypeOK, Queued
  <1>1. CASE \E m \in Mail : Later(m)
    BY <1>1 DEF Later
  <1>2. CASE Tick \/ Restart
    BY <1>2 DEF Tick, Restart, WorkerState
  <1>3. CASE FailDatabase \/ Crash
    BY <1>3, FaultCounted, NoMailIsNone DEF FailDatabase, Crash, Leave, WorkerState
  <1>4. CASE UNCHANGED vars
    BY <1>4 DEF vars
  <1> QED
    BY <1>1, <1>2, <1>3, <1>4

LEMMA StepInv ==
    ASSUME OutboxInv, [Next]_vars
    PROVE  OutboxInv'
  BY QueueMailInv, ClaimInv, SendInv, LoseMailInv, MarkOutboxSentInv, MarkOutboxFailedInv,
     RestInv
     DEF Next, WorkerStep, FaultStep

\* The worker never holds a mail that is marked or still to be sent in its
\* claim, whatever it was stopped in (ClaimOutbox, deliver of mailer.go).
THEOREM OutboxInvariance == Spec => []OutboxInv
  BY InitInv, StepInv, PTL DEF Spec

-----------------------------------------------------------------------------
(* Deliveries *)

LEMMA InitDuplicates == Init => DuplicatesExplained
  BY FaultsCounted DEF Init, DuplicatesExplained, Accounted

LEMMA StepDuplicates ==
    ASSUME OutboxInv, DuplicatesExplained, [Next]_vars
    PROVE  DuplicatesExplained'
  <1> SUFFICES ASSUME NEW k \in Mail
               PROVE  delivered'[k] <= faults' + (IF Accounted(k)' THEN 1 ELSE 0)
    BY DEF DuplicatesExplained
  <1>1. /\ delivered[k] \in Nat /\ faults \in Nat
        /\ delivered[k] <= faults + (IF Accounted(k) THEN 1 ELSE 0)
        /\ delivered \in [Mail -> Nat]
    <2>0. TypeOK
      BY DEF OutboxInv
    <2>1. delivered \in [Mail -> Nat] /\ faults \in Nat
      BY <2>0, FaultsCounted DEF TypeOK
    <2> QED
      BY <2>1 DEF DuplicatesExplained
  <1>2. ASSUME faults' = faults + 1, delivered'[k] <= delivered[k], delivered'[k] \in Nat
        PROVE  delivered'[k] <= faults' + (IF Accounted(k)' THEN 1 ELSE 0)
    BY <1>1, <1>2
  <1>3. ASSUME faults' = faults, delivered' = delivered, Accounted(k) => Accounted(k)'
        PROVE  delivered'[k] <= faults' + (IF Accounted(k)' THEN 1 ELSE 0)
    BY <1>1, <1>3
  <1>4. CASE \E m \in Mail : Send(m)
    <2> PICK m \in Mail : Send(m)
      BY <1>4
    <2>1. m \notin sent /\ worker = "send" /\ sent' = sent /\ faults' = faults
      BY SendInv DEF Send
    <2>2. CASE k = m /\ m \notin Faulty
      <3>1. ~Accounted(k) /\ Accounted(k)'
        BY <2>1, <2>2 DEF Accounted, Send, Holds
      <3>2. delivered'[k] = delivered[k] + 1
        BY <1>1, <2>2 DEF Send
      <3> QED
        BY <1>1, <2>1, <3>1, <3>2
    <2>3. CASE ~(k = m /\ m \notin Faulty)
      <3>1. delivered'[k] = delivered[k]
        BY <1>1, <2>3 DEF Send
      <3>2. Accounted(k) => Accounted(k)'
        BY <2>1 DEF Accounted
      <3> QED
        BY <1>1, <2>1, <3>1, <3>2
    <2> QED
      BY <2>2, <2>3
  <1>5. CASE \E m \in Mail : LoseMail(m)
    <2> PICK m \in Mail : LoseMail(m)
      BY <1>5
    <2>1. m \notin sent /\ worker = "send" /\ sent' = sent /\ faults' = faults + 1
      BY LoseMailInv DEF LoseMail, Fault
    <2>2. delivered'[k] \in Nat /\ delivered'[k] <= delivered[k] + 1
          /\ (k # m => delivered'[k] = delivered[k])
      <3>1. delivered' = delivered \/ (delivered' = [delivered EXCEPT ![m] = @ + 1])
        BY DEF LoseMail
      <3>2. CASE delivered' = [delivered EXCEPT ![m] = @ + 1]
        <4>1. delivered'[m] = delivered[m] + 1 /\ \A j \in Mail : j # m => delivered'[j] = delivered[j]
          BY <1>1, <3>2, Deliver
        <4> QED
          BY <1>1, <4>1
      <3> QED
        BY <1>1, <3>1, <3>2
    <2>3. Accounted(k) <=> k \in sent
      BY <2>1 DEF Accounted
    <2>4. Accounted(k) => Accounted(k)' /\ k # m
      BY <2>1, <2>3 DEF Accounted
    <2> QED
      BY <1>1, <2>1, <2>2, <2>4
  <1>6. CASE FailDatabase \/ Crash
    <2>1. faults' = faults + 1 /\ delivered' = delivered
      BY <1>6 DEF FailDatabase, Crash, Fault
    <2> QED
      BY <1>1, <1>2, <2>1
  <1>7. CASE MarkOutboxSent
    BY <1>3, <1>7 DEF MarkOutboxSent, SentWith, Accounted
  <1>8. CASE \/ MarkOutboxFailed \/ ClaimOutbox \/ Tick \/ Restart
             \/ \E m \in Mail : QueueMail(m) \/ Later(m)
             \/ UNCHANGED vars
    BY <1>3, <1>8
       DEF MarkOutboxFailed, ClaimOutbox, Tick, Restart, QueueMail, Later, vars, Accounted
  <1> QED
    BY <1>4, <1>5, <1>6, <1>7, <1>8 DEF Next, WorkerStep, FaultStep

\* No mail is delivered more often than interruptions between sending and
\* marking explain (mailer.go, deliver).
THEOREM DuplicatesNeedFaults == Spec => []DuplicatesExplained
  BY OutboxInvariance, InitDuplicates, StepDuplicates, PTL DEF Spec

LEMMA StepNotResent ==
    ASSUME OutboxInv, [Next]_vars
    PROVE  \A m \in Mail : m \in sent => m \in sent' /\ delivered'[m] = delivered[m]
  <1> SUFFICES ASSUME NEW m \in Mail, m \in sent
               PROVE  m \in sent' /\ delivered'[m] = delivered[m]
    OBVIOUS
  <1>0. delivered \in [Mail -> Nat]
    BY DEF OutboxInv, TypeOK
  <1>1. CASE \E k \in Mail : Send(k)
    BY <1>0, <1>1, SendInv DEF Send
  <1>2. CASE \E k \in Mail : LoseMail(k)
    BY <1>0, <1>2, LoseMailInv DEF LoseMail
  <1>3. CASE MarkOutboxSent \/ MarkOutboxFailed \/ ClaimOutbox \/ \E k \in Mail : QueueMail(k)
    BY <1>3 DEF MarkOutboxSent, SentWith, MarkOutboxFailed, ClaimOutbox, QueueMail
  <1>4. CASE \/ \E k \in Mail : Later(k)
             \/ Tick \/ Restart \/ FailDatabase \/ Crash
             \/ UNCHANGED vars
    BY <1>4, RestInv
  <1> QED
    BY <1>1, <1>2, <1>3, <1>4 DEF Next, WorkerStep, FaultStep

\* sent_at is final: a claim, a retry or a restart sends no mail that has it
\* (the guards of ClaimOutbox and MarkOutboxFailed in accounts.go).
THEOREM SentOnce == Spec => NotResent
  BY OutboxInvariance, StepNotResent, PTL DEF Spec, NotResent
=============================================================================
