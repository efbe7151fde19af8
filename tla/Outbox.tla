------------------------------- MODULE Outbox --------------------------------
(***************************************************************************)
(* The mail outbox: mails are queued with the invite or the login link they *)
(* carry, and one worker of the server sends them (internal/mailer/mailer.go, *)
(* and ClaimOutbox to MarkOutboxFailed of internal/store/accounts.go).     *)
(*                                                                         *)
(* A claim reads and marks nothing, a mail is sent before it is marked, and *)
(* the worker ends at the first error of the database.  The server may be  *)
(* killed at every step and is started again (clankspace.service); an end  *)
(* of the worker alone is only logged.                                     *)
(*                                                                         *)
(* One server on the database; its secret stays the same, so that every    *)
(* mail can be decrypted.  Attempts and error texts are left out.          *)
(***************************************************************************)
EXTENDS Naturals, FiniteSets

CONSTANTS
    Mail,
    Faulty,       \* mails whose recipient every attempt fails for
    Limit,        \* how many mails a claim takes
    NoMail,
    MaxFaults     \* bound on crashes, errors of the database and lost replies

ASSUME FaultyAreMails == Faulty \subseteq Mail
ASSUME MailsFinite == IsFiniteSet(Mail)
ASSUME NoMailIsNone == NoMail \notin Mail
ASSUME LimitPositive == Limit \in Nat \ {0}
ASSUME FaultsCounted == MaxFaults \in Nat

VARIABLES
    created,      \* created[m]: its place in the order of created_at, 0 for none
    sent,         \* mails with sent_at
    waiting,      \* mails whose next_attempt_at is still to come
    delivered,    \* delivered[m]: how often the recipient got it
    worker,       \* what the worker does next
    batch,        \* mails of the claim that are not dealt with
    current,      \* the mail that the worker holds
    faults

vars == <<created, sent, waiting, delivered, worker, batch, current, faults>>

-----------------------------------------------------------------------------
WorkerState == {"claim", "send", "mark sent", "mark failed", "tick", "stopped", "down"}

TypeOK ==
    /\ created \in [Mail -> Nat]
    /\ sent \subseteq Mail /\ waiting \subseteq Mail
    /\ delivered \in [Mail -> Nat]
    /\ worker \in WorkerState
    /\ batch \subseteq Mail
    /\ current \in Mail \cup {NoMail}
    /\ faults \in 0..MaxFaults

Init ==
    /\ created = [m \in Mail |-> 0]
    /\ sent = {} /\ waiting = {}
    /\ delivered = [m \in Mail |-> 0]
    /\ worker = "claim" /\ batch = {} /\ current = NoMail
    /\ faults = 0

Queued == {m \in Mail : created[m] # 0}

-----------------------------------------------------------------------------
(* The server *)

\* CreateWorkspaceInvite and RequestMagicLink: in the transaction of the link.
QueueMail(m) ==
    /\ worker # "down"
    /\ created[m] = 0
    /\ created' = [created EXCEPT ![m] = Cardinality(Queued) + 1]
    /\ UNCHANGED <<sent, waiting, delivered, worker, batch, current, faults>>

\* A minute has passed.
Later(m) ==
    /\ m \in waiting
    /\ waiting' = waiting \ {m}
    /\ UNCHANGED <<created, sent, delivered, worker, batch, current, faults>>

-----------------------------------------------------------------------------
(* The worker *)

\* The transient fields of the worker end with it.
Leave(state) == worker' = state /\ batch' = {} /\ current' = NoMail

Holds(state, m) == worker' = state /\ current' = m

\* Seeded fault: next_attempt_at alone decides.
NotWaiting(m) == m \in Queued \ waiting

Due(m) == m \in Queued \ (sent \cup waiting)

\* The oldest of what is due, no more than the limit.
Claimable(claim) ==
    LET due == {m \in Mail : Due(m)}
    IN  /\ claim \subseteq due
        /\ Cardinality(claim) <= Limit
        /\ claim = due \/ Cardinality(claim) = Limit
        /\ \A m \in claim, k \in due \ claim : created[m] <= created[k]

ClaimOutbox ==
    /\ worker = "claim"
    /\ \E claim \in SUBSET Mail :
          /\ Claimable(claim)
          /\ batch' = claim
          /\ worker' = IF claim = {} THEN "tick" ELSE "send"
    /\ UNCHANGED <<created, sent, waiting, delivered, current, faults>>

Oldest(m) == m \in batch /\ \A k \in batch : created[m] <= created[k]

Send(m) ==
    /\ worker = "send" /\ Oldest(m)
    /\ batch' = batch \ {m}
    /\ IF m \in Faulty
       THEN Holds("mark failed", m) /\ UNCHANGED delivered
       ELSE Holds("mark sent", m) /\ delivered' = [delivered EXCEPT ![m] = @ + 1]
    /\ UNCHANGED <<created, sent, waiting, faults>>

Fault == faults < MaxFaults /\ faults' = faults + 1

\* The mail does not get through, or the server's answer to it does not.
LoseMail(m) ==
    /\ worker = "send" /\ Oldest(m) /\ m \notin Faulty
    /\ Fault
    /\ batch' = batch \ {m}
    /\ Holds("mark failed", m)
    /\ delivered' \in {delivered, [delivered EXCEPT ![m] = @ + 1]}
    /\ UNCHANGED <<created, sent, waiting>>

\* Seeded fault: deliver returns after a mail that failed.
EndOfClaim == Leave("tick")

\* deliver goes on with the next mail of the claim.
GoOn ==
    /\ worker' = IF batch = {} THEN "tick" ELSE "send"
    /\ current' = NoMail
    /\ UNCHANGED batch

\* Seeded fault: the mail is not marked.
SentBefore(m) == sent

SentWith(m) == sent \cup {m}

MarkOutboxSent ==
    /\ worker = "mark sent"
    /\ sent' = SentWith(current)
    /\ GoOn
    /\ UNCHANGED <<created, waiting, delivered, faults>>

MarkOutboxFailed ==
    /\ worker = "mark failed"
    /\ waiting' = waiting \cup ({current} \ sent)
    /\ GoOn
    /\ UNCHANGED <<created, sent, delivered, faults>>

Tick ==
    /\ worker = "tick"
    /\ worker' = "claim"
    /\ UNCHANGED <<created, sent, waiting, delivered, batch, current, faults>>

\* Run returns the error of a claim or of a mark, and nothing starts it again.
FailDatabase ==
    /\ worker \in {"claim", "mark sent", "mark failed"}
    /\ Fault
    /\ Leave("stopped")
    /\ UNCHANGED <<created, sent, waiting, delivered>>

\* Also a shutdown, which cancels the worker's context.
Crash ==
    /\ worker # "down"
    /\ Fault
    /\ Leave("down")
    /\ UNCHANGED <<created, sent, waiting, delivered>>

Restart ==
    /\ worker = "down"
    /\ worker' = "claim"
    /\ UNCHANGED <<created, sent, waiting, delivered, batch, current, faults>>

-----------------------------------------------------------------------------
WorkerStep ==
    ClaimOutbox \/ (\E m \in Mail : Send(m)) \/ MarkOutboxSent \/ MarkOutboxFailed \/ Tick

FaultStep == (\E m \in Mail : LoseMail(m)) \/ FailDatabase \/ Crash

Next ==
    \/ \E m \in Mail : QueueMail(m) \/ Later(m)
    \/ WorkerStep \/ FaultStep \/ Restart

Spec == Init /\ [][Next]_vars

\* An attempt ends, time passes, and a server that went down is started again
\* (Restart=on-failure).  A worker that stopped is not.
Fairness ==
    /\ WF_vars(WorkerStep) /\ WF_vars(Restart)
    /\ \A m \in Mail : WF_vars(Later(m))

FairSpec == Spec /\ Fairness

-----------------------------------------------------------------------------
(* Properties *)

\* What the worker holds is queued, is not marked sent, and is not in the rest
\* of its claim; what is marked sent was delivered.
OutboxInv ==
    /\ TypeOK
    /\ batch \subseteq Queued \ sent
    /\ batch # {} => worker \in {"send", "mark sent", "mark failed"}
    /\ (current # NoMail) <=> (worker \in {"mark sent", "mark failed"})
    /\ current # NoMail => current \in Queued \ (sent \cup batch)
    /\ sent \subseteq Queued
    /\ \A m \in sent : delivered[m] > 0
    /\ worker = "mark sent" => delivered[current] > 0

\* A mail goes out more than once only where a crash, an error of the database
\* or a lost answer came between sending and marking: claims, retries and
\* restarts repeat none.  Without faults every mail is delivered at most once.
Accounted(m) == m \in sent \/ (worker = "mark sent" /\ current = m)

DuplicatesExplained ==
    \A m \in Mail : delivered[m] <= faults + (IF Accounted(m) THEN 1 ELSE 0)

\* A mail that is marked sent is never sent again, and never unmarked.
NotResent ==
    [][\A m \in Mail : m \in sent =>
           m \in sent' /\ delivered'[m] = delivered[m]]_vars

\* Every mail for a recipient that can be reached is sent in the end, and
\* recipients that cannot do not hold it up as long as a claim is not full of
\* them - unless the worker stopped for good.
MailSentOrStopped ==
    \A m \in Mail \ Faulty :
        (m \in Queued) ~> (m \in sent \/ [](worker = "stopped"))
=============================================================================
