----------------------------- MODULE MCOnDemand -----------------------------
(* Instances of OnDemand for TLC.                                          *)
EXTENDS OnDemand

\* Every group lives on one and the same stack.
OneStack == [g \in Groups |-> CHOOSE s \in Stacks : TRUE]

=============================================================================
