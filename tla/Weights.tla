------------------------------ MODULE Weights -------------------------------
(***************************************************************************)
(* Weights on both sides of a numeric(14,3) column.  A client sends a       *)
(* decimal string of any precision and the service computes with it exactly *)
(* (Prisma.Decimal); PostgreSQL rounds what is stored to grams, half away   *)
(* from zero.  Sent weights are counted in tenths of a gram here, which is  *)
(* fine enough to fall on either side of a rounding boundary and on it, and *)
(* stored weights in grams.                                                *)
(***************************************************************************)
EXTENDS Integers

Column(x) == IF x >= 0 THEN (x + 5) \div 10 ELSE -((5 - x) \div 10)

(* A stored weight, read back into the service's arithmetic. *)
Exact(w) == 10 * w

Magnitude(x) == IF x >= 0 THEN x ELSE -x
=============================================================================
