------------------------------- MODULE MCSetup -------------------------------
EXTENDS Setup, TLC

\* Codes, tokens and handlers are interchangeable, and so are slugs and people:
\* nobody has a workspace at the start.
Interchangeable ==
    Permutations(Request) \cup Permutations(Token) \cup Permutations(Handler)
        \cup Permutations(Call) \cup Permutations(Slug) \cup Permutations(Person)

\* At most so many approvals and exchanges are under way at once.
AtOnce == 2

FewAtOnce ==
    Cardinality({h \in Handler : handler[h] # Idle})
        + Cardinality({c \in Call : call[c] # Idle}) <= AtOnce
=============================================================================
