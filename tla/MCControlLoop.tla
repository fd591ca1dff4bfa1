--------------------------- MODULE MCControlLoop ---------------------------
(* The control loop on two connections and a table with room for one       *)
(* client.                                                                 *)
EXTENDS ControlLoop
=============================================================================
