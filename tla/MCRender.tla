------------------------------ MODULE MCRender ------------------------------
(* Render on two certificates whose subject hashes collide (a third would  *)
(* not).                                                                   *)
EXTENDS Render

MCSubjectHash == [f \in Fingerprints |-> IF f <= 2 THEN 7 ELSE 8]
=============================================================================
