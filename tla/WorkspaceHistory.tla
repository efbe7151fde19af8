-------------------------- MODULE WorkspaceHistory --------------------------
(***************************************************************************)
(* What replication promises, without messages, rosters or failures: every *)
(* origin publishes one append-only history, and every replica follows     *)
(* each history from its beginning, never past its end and never backwards.*)
(***************************************************************************)
EXTENDS Integers, Sequences

CONSTANTS Replica, EventId

VARIABLES
    history,   \* history[o]: the events o has published, in order
    known      \* known[r][o]: how much of o's history r has taken in

Init ==
    /\ history = [o \in Replica |-> <<>>]
    /\ known = [r \in Replica |-> [o \in Replica |-> 0]]

\* o publishes one event; it knows its own history completely.
Publish(o, id) ==
    /\ \A p \in Replica : \A k \in DOMAIN history[p] : history[p][k] # id
    /\ history' = [history EXCEPT ![o] = Append(@, id)]
    /\ known' = [known EXCEPT ![o][o] = Len(history[o]) + 1]

\* r takes in more of other replicas' histories, of any number of them at once.
Learn(r) ==
    /\ known' \in [Replica -> [Replica -> Nat]]
    /\ \A s \in Replica \ {r} : known'[s] = known[s]
    /\ \A o \in Replica :
          known[r][o] <= known'[r][o] /\ known'[r][o] <= Len(history[o])
    /\ UNCHANGED history

Next ==
    \/ \E o \in Replica, id \in EventId : Publish(o, id)
    \/ \E r \in Replica : Learn(r)

Spec == Init /\ [][Next]_<<history, known>>
=============================================================================
