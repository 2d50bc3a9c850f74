------------------------------ MODULE Batches -------------------------------
(***************************************************************************)
(* What package registration and reconciliation share: the receiving batches *)
(* and a request that is not under way.                                     *)
(***************************************************************************)
EXTENDS FiniteSets

CONSTANT Batch

ASSUME BatchAssumption == IsFiniteSet(Batch)

Idle == [pc |-> "idle"]
=============================================================================
