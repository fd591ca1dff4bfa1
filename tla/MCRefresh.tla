------------------------------ MODULE MCRefresh ------------------------------
(* Refresh on two certificates: a bundle that ships both, one that ships   *)
(* one, and one below the floor; an addition of the second for each        *)
(* purpose; the first distrusted or not.                                   *)
EXTENDS Refresh

MCBundles == {[blocks |-> 2, roots |-> {1, 2}], [blocks |-> 2, roots |-> {1}],
              [blocks |-> 1, roots |-> {1}]}
OneBundle == {[blocks |-> 2, roots |-> {1, 2}]}
MCAddChoices == {[f \in {2} |-> p] : p \in Purposes} \cup {NoAdditions}
OneAddition == {[f \in {2} |-> ServerAuth]}
=============================================================================
