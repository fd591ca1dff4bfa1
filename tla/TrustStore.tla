----------------------------- MODULE TrustStore -----------------------------
(***************************************************************************)
(* What composing the effective root set promises, at the level of sets:   *)
(* which roots the machine trusts given the shipped bundle, the additions  *)
(* and the distrusts.  trust-core/src/store.rs computes it by a pass over  *)
(* sequences (module StoreCompose); this is its reference definition and   *)
(* the composition the daemon's model (module Refresh) uses.               *)
(*                                                                         *)
(* A certificate is its SHA-256 fingerprint.  A bundle is the number of    *)
(* PEM blocks in it and the fingerprints of the blocks that parse as CA    *)
(* certificates.  Additions are a function from a fingerprint to the       *)
(* purpose of the first entry under Add\ that holds it.                    *)
(***************************************************************************)
EXTENDS Naturals

CONSTANT Fingerprints   \* the certificates there are

ServerAuth == "ServerAuth"
Purposes == {ServerAuth, "Other"}
Sources == {"Shipped", "Added"}

Entry == [fp : Fingerprints, source : Sources, purpose : Purposes]

\* Additions by fingerprint: a partial function to purposes.
Additions == UNION {[S -> Purposes] : S \in SUBSET Fingerprints}

\* The roots of a composition: shipped roots, then additions that have not
\* expired and are not duplicates, less everything distrusted.
Roots(shipped, additions, distrust, expired) ==
    {[fp |-> f, source |-> "Shipped", purpose |-> ServerAuth] :
        f \in shipped \ distrust}
    \cup
    {[fp |-> f, source |-> "Added", purpose |-> additions[f]] :
        f \in (DOMAIN additions) \ (shipped \cup distrust \cup expired)}

\* compose returns Ok: the bundle is plausible and something is left.
Composes(blocks, floor, roots) == blocks >= floor /\ roots # {}

FingerprintsOf(entries) == {e.fp : e \in entries}

\* store::for_purpose: the entries that carry a purpose.
ForPurpose(entries, purpose) == {e \in entries : e.purpose = purpose}

\* The fingerprints the compatibility files hold for a composition.
FileRoots(entries) == FingerprintsOf(ForPurpose(entries, ServerAuth))

=============================================================================
