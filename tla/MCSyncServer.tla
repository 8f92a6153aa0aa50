--------------------------- MODULE MCSyncServer ---------------------------
EXTENDS SyncServer, TLC

\* Connections, profiles and names are interchangeable.
Symmetry == Permutations(Conns) \cup Permutations(Profiles) \cup Permutations(Names)

=============================================================================
