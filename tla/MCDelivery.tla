----------------------------- MODULE MCDelivery -----------------------------
(***************************************************************************)
(* Small instances of Delivery for TLC: one inbound message for a local    *)
(* mailbox and one outbound message to two recipients in two domains.      *)
(***************************************************************************)
EXTENDS Delivery, TLC

CONSTANTS in, out

MCDomainOf == [r \in Rcpts |-> IF r = 2 THEN "a.example" ELSE "b.example"]
MCKindOf == [m \in Msgs |-> IF m = in THEN "inbound" ELSE "outbound"]
MCAddressed == [m \in Msgs |-> IF m = in THEN {3} ELSE Rcpts \ {3}]

Symmetry == Permutations(Workers)

=============================================================================
