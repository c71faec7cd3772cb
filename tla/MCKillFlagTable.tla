--------------------------- MODULE MCKillFlagTable ---------------------------
(* Small instances of KillFlagTable: order ids are interchangeable.          *)
EXTENDS KillFlagTable, TLC

Ids == Permutations(OrderId)

=============================================================================
