--------------------------- MODULE MCPlatformServer ---------------------------
(***************************************************************************)
(* The platform server instantiated for TLC.                               *)
(***************************************************************************)
EXTENDS PlatformServer, TLC

Symmetry == Permutations(Request) \cup Permutations(Challenge)

\* Nullifiers are on their way or kept.
nullifying ==
    \/ \E r \in Request : req[r].nullifier # NULL
    \/ \E n \in Name : registryOf[n] # NULL

\* A behaviour turns to nullifiers at the first moment and with one challenge,
\* and returns to time and to further challenges by way of a restart.
Apart ==
    nullifying =>
        clock = 0 /\ Cardinality({c \in Challenge : challenges[c].type # "new"}) <= 1

ApartSpec == Init /\ [][Next /\ Apart']_vars

\* A server whose local time is behind UTC by more than MaxTime.
WestOfUTC == -5
===============================================================================
