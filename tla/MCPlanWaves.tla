----------------------------- MODULE MCPlanWaves -----------------------------
EXTENDS PlanWaves

=============================================================================
