----------------------------- MODULE MCAccounts -----------------------------
EXTENDS Accounts, TLC

\* Identifiers are random; requests and passwords are interchangeable.
Interchangeable ==
    Permutations(Link) \cup Permutations(Session) \cup Permutations(Caller)
        \cup Permutations(Password) \cup Permutations(User)
=============================================================================
