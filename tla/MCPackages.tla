----------------------------- MODULE MCPackages -----------------------------
(* Model-checking instance of Packages: interchangeable requests, locations     *)
(* and packaging types.                                                      *)
EXTENDS Packages, TLC

Symmetry == Permutations(Req) \cup Permutations(Location)
            \cup Permutations(PackType)

(* A correction whose rows can no longer be stamped within the bound can only be  *)
(* aborted.                                                                  *)
StampsLeft ==
  \A r \in Req : bagReq[r].pc \in {"correctPrice", "correctRecord"} => clock < MaxClock
=============================================================================
