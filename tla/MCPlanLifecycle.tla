-------------------------- MODULE MCPlanLifecycle --------------------------
(* PlanLifecycle on a small inventory.  VMs and requests are interchangeable. *)
EXTENDS PlanLifecycle, TLC

\* Every POST selects all VMs, or any of them.
AllVMs == {VMs}
AnyVMs == SUBSET VMs

Symmetry == Permutations(VMs) \union Permutations(Requests)

=============================================================================
