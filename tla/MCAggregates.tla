---------------------------- MODULE MCAggregates ----------------------------
(***************************************************************************)
(* Aggregates with two rows of the first table and one of the last, two    *)
(* writers and two commands at a time.                                     *)
(***************************************************************************)
EXTENDS Aggregates, TLC

CONSTANTS u1, u2, z1

MCRows == {u1, u2, z1}
MCTableOf == u1 :> 1 @@ u2 :> 1 @@ z1 :> 3
=============================================================================
