------------------------ MODULE IdempotentRequests ------------------------
(***************************************************************************)
(* What the write path promises, without requests, rows or failures: every *)
(* idempotency key has at most one effect, the effects are in one order,   *)
(* and neither an effect nor the key it belongs to is ever taken back.     *)
(***************************************************************************)
EXTENDS Integers, Sequences

CONSTANTS Key

VARIABLES
    effects,   \* the effects in the order of their transactions
    position   \* position[k]: place of the effect of key k; 0 before it

Init ==
    /\ effects = <<>>
    /\ position = [k \in Key |-> 0]

\* The first request with the key k to commit has its effect, whatever that is.
Take(k) ==
    /\ position[k] = 0
    /\ Len(effects') = Len(effects) + 1
    /\ \A i \in DOMAIN effects : effects'[i] = effects[i]
    /\ position' = [position EXCEPT ![k] = Len(effects) + 1]

Next == \E k \in Key : Take(k)

Spec == Init /\ [][Next]_<<effects, position>>
=============================================================================
