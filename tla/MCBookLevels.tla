---------------------------- MODULE MCBookLevels ----------------------------
(* Small instances of BookLevels: orders are interchangeable.                *)
EXTENDS BookLevels

Orders == Permutations(Order)

=============================================================================
