-------------------------- MODULE CredentialHandout --------------------------
(***************************************************************************)
(* What a setup promises of the credential it is about: a request is       *)
(* granted one credential, no other request is granted the same one, and   *)
(* it leaves the vault once, for the device that asked or for nobody.  The *)
(* vault is where the device gets it; that it is kept nowhere else is not  *)
(* part of the promise.                                                    *)
(***************************************************************************)
CONSTANTS Request, Token

VARIABLES
    granted,   \* granted[r]: the credential of the request r, if any
    vault,     \* vault[r]: what the service holds ready for the device
    transit,   \* transit[r]: what is on its way
    device     \* device[r]: what the device has got

vars == <<granted, vault, transit, device>>

Init ==
    /\ granted = [r \in Request |-> {}]
    /\ vault = [r \in Request |-> {}]
    /\ transit = [r \in Request |-> {}]
    /\ device = [r \in Request |-> {}]

Grant(r, t) ==
    /\ granted[r] = {}
    /\ \A q \in Request : t \notin granted[q]
    /\ granted' = [granted EXCEPT ![r] = {t}]
    /\ vault' = [vault EXCEPT ![r] = {t}]
    /\ UNCHANGED <<transit, device>>

Release(r) ==
    /\ vault[r] # {}
    /\ vault' = [vault EXCEPT ![r] = {}]
    /\ transit' = [transit EXCEPT ![r] = vault[r]]
    /\ UNCHANGED <<granted, device>>

Arrive(r) ==
    /\ transit[r] # {}
    /\ transit' = [transit EXCEPT ![r] = {}]
    /\ device' = [device EXCEPT ![r] = transit[r]]
    /\ UNCHANGED <<granted, vault>>

Lose(r) ==
    /\ transit[r] # {}
    /\ transit' = [transit EXCEPT ![r] = {}]
    /\ UNCHANGED <<granted, vault, device>>

Next ==
    \E r \in Request :
        \/ \E t \in Token : Grant(r, t)
        \/ Release(r)
        \/ Arrive(r)
        \/ Lose(r)

Spec == Init /\ [][Next]_vars
=============================================================================
