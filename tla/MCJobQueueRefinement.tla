------------------------ MODULE MCJobQueueRefinement ------------------------
(* Model values for JobQueueRefinement.                                     *)
EXTENDS JobQueueRefinement

CONSTANTS j1, j2, j3, c1

MCIds == {j1, j2, j3}
MCClients == {c1}
=============================================================================
