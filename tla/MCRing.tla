------------------------------- MODULE MCRing -------------------------------
(* Model-checking instance of RecordRing. *)
EXTENDS RecordRing

(* No save failed and the records were not forgotten: the quickest way to  *)
(* fill the ring, which is all a ring of full size needs.                  *)
NoneLost == saves <= IF Valid THEN total + 1 ELSE 1
=============================================================================
