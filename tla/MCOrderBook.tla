----------------------------- MODULE MCOrderBook -----------------------------
(* Small instances of OrderBook and of its snapshots: ids are                *)
(* interchangeable, prices are not.                                          *)
EXTENDS BookSnapshot, TLC

Ids == Permutations(OrderId)

\* Ids come in one order only, as assign_order_id gives them out (as an
\* action constraint where symmetry cannot be used).
InOrder == \A i \in DOMAIN order' \ DOMAIN order : i = Cardinality(DOMAIN order')

=============================================================================
