------------------------------- MODULE MCFrame -------------------------------
(* Instances of Frame for TLC. *)
EXTENDS Frame

\* A budget: so many of each kind, none of the others.
Budget(some) == [k \in Kinds |-> IF k \in DOMAIN some THEN some[k] ELSE 0]

MCBudgets ==
    {Budget([push |-> 2, destroy |-> 1]),
     Budget([trigger |-> 2, detach |-> 1, destroy |-> 1]),
     Budget([timeout |-> 1, restart |-> 1, destroy |-> 1]),
     Budget([push |-> 1, trigger |-> 1])}
=============================================================================
