----------------------------- MODULE MCMutations -----------------------------
EXTENDS Mutations, TLC

\* Identifiers and keys are random.
Interchangeable == Permutations(Key) \cup Permutations(Run) \cup Permutations(Trajectory)
                       \cup Permutations(Call)

\* Nothing, a head alone, an open pull request, and merge evidence for a pull
\* request that is said to be merged or must be known to be.
SomeCommit == CHOOSE c \in Commit : TRUE
Reports ==
    {NoEvidence, HeadOnly(SomeCommit),
     [NoEvidence EXCEPT !.state = "open"],
     [NoEvidence EXCEPT !.merged = TRUE],
     [NoEvidence EXCEPT !.state = "merged", !.merged = TRUE]}
=============================================================================
