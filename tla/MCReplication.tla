--------------------------- MODULE MCReplication ---------------------------
EXTENDS ReplicationProperties, TLC

\* Offers that grant everything, and offers that grant pull only.
FullGrants == {Capability}
MixedGrants == {Capability, {"pull"}}

\* Spokes, event identifiers and workers are interchangeable.
Symmetry == Permutations(Spoke) \cup Permutations(EventId) \cup Permutations(Worker)
=============================================================================
