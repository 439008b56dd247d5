------------------------------ MODULE MCCamSync ------------------------------
(* Instance of CamSync for TLC. *)
EXTENDS CamSync

\* No thread is told from another, and the properties checked are safety.
Threads == Permutations(Thread)

\* A merge that succeeds, and one of a row that may be a group by then.
Merged == {<<1, 2>>, <<2, 3>>}
=============================================================================
