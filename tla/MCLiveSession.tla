--------------------------- MODULE MCLiveSession ---------------------------
(* Model values and symmetry for LiveSession.                              *)
EXTENDS LiveSession, TLC

\* Handlers, takes and sessions of a mode are interchangeable.  Not for
\* liveness.
Symmetry == Permutations(Handlers) \cup Permutations(Takes) \cup Permutations(Live)
            \cup Permutations(Offline)

=============================================================================
