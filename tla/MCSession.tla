------------------------------ MODULE MCSession ------------------------------
(* Small instances of Session: requests that fare differently.               *)
EXTENDS Session

Requests ==
  {[letter |-> "O", price |-> TRUE, qty |-> TRUE],
   [letter |-> "O", price |-> TRUE, qty |-> FALSE],
   [letter |-> "U", price |-> FALSE, qty |-> TRUE],
   [letter |-> "X", price |-> FALSE, qty |-> FALSE],
   [letter |-> "Z", price |-> FALSE, qty |-> FALSE]}

=============================================================================
