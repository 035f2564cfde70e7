----------------------------- MODULE MCJobQueue -----------------------------
(* Model values for JobQueue; identifiers and handlers are interchangeable. *)
EXTENDS JobQueue, TLC

CONSTANTS j1, j2, j3, c1, c2

MCIds == {j1, j2, j3}
MCClients == {c1, c2}
MCSymmetry == Permutations(MCIds) \cup Permutations(MCClients)
=============================================================================
