------------------------------- MODULE FlagMap -------------------------------
(***************************************************************************)
(* What a KillFlagTable promises ORDER_BOOK: a map from the ids it was told  *)
(* of to their kill flag, which answers for any id a client may name. The   *)
(* std::unordered_map it took the place of (killed_orders[key] = value).    *)
(***************************************************************************)
CONSTANTS
  OrderId,   \* ids that entries are made for
  Named      \* ids that are asked for

VARIABLES
  flags,     \* the entries: id -> BOOLEAN
  answer     \* what the last find returned: {} for no entry, or the flag

vars == <<flags, answer>>

Entry(key) == IF key \in DOMAIN flags THEN {flags[key]} ELSE {}

Init ==
  /\ flags = [i \in {} |-> FALSE]
  /\ answer = {}

set(key, value) ==
  /\ flags' = [i \in DOMAIN flags \union {key} |->
                 IF i = key THEN value ELSE flags[i]]
  /\ answer' = {}

find(key) ==
  /\ answer' = Entry(key)
  /\ UNCHANGED flags

\* find, and TRUE written through the pointer it returns.
mark(key) ==
  /\ answer' = Entry(key)
  /\ flags' = [i \in DOMAIN flags |-> i = key \/ flags[i]]

erase(key) ==
  /\ flags' = [i \in DOMAIN flags \ {key} |-> flags[i]]
  /\ answer' = {}

Next ==
  \/ \E key \in OrderId : set(key, FALSE) \/ erase(key)
  \/ \E key \in Named : find(key) \/ mark(key)

Spec == Init /\ [][Next]_vars

=============================================================================
