----------------------------- MODULE Commitments -----------------------------
(***************************************************************************)
(* What plan membership promises, without sessions, locks, tasks, series   *)
(* and processes: VMs are committed to a migration only together with a    *)
(* plan that takes them, a plan moves forward from being worked on to open *)
(* to closed, and a plan that closes lets go of everything it held.        *)
(***************************************************************************)
CONSTANTS VMs, Plans

VARIABLES
    committed,   \* the VMs that cannot be planned again
    stage,       \* of every plan
    held         \* the VMs of a plan that is neither absent nor closed

vars == <<committed, stage, held>>

Stages == {"absent", "working", "open", "closed"}

Init ==
    /\ committed = {}
    /\ stage = [p \in Plans |-> "absent"]
    /\ held = [p \in Plans |-> {}]

\* New plans take disjoint sets of VMs.
Take ==
    \E new \in SUBSET {p \in Plans : stage[p] = "absent"} :
        /\ stage' = [p \in Plans |-> IF p \in new THEN "working" ELSE stage[p]]
        /\ held' \in [Plans -> SUBSET VMs]
        /\ \A p \in Plans \ new : held'[p] = held[p]
        /\ \A p, q \in new : p # q => held'[p] \cap held'[q] = {}
        /\ committed' = committed \cup UNION {held'[p] : p \in new}

\* What was taken is what is opened.
Open ==
    /\ \E p \in Plans :
          /\ stage[p] = "working"
          /\ stage' = [stage EXCEPT ![p] = "open"]
    /\ UNCHANGED <<committed, held>>

\* Only open plans change what they hold: one plan, or two that exchange VMs.
\* The commitments that come or go are those of the first.
Edit ==
    \E p, q \in Plans :
        /\ stage[p] = "open" /\ stage[q] = "open"
        /\ held' \in [Plans -> SUBSET VMs]
        /\ \A o \in Plans \ {p, q} : held'[o] = held[o]
        /\ committed \ committed' \subseteq held[p]
        /\ committed' \ committed \subseteq held'[p]
        /\ committed' \subseteq UNION {held'[o] : o \in Plans}
        /\ UNCHANGED stage

\* Some plans close at once, with everything they hold.
Close ==
    \E closing \in SUBSET {p \in Plans : stage[p] \in {"working", "open"}} :
        /\ stage' = [p \in Plans |-> IF p \in closing THEN "closed" ELSE stage[p]]
        /\ held' = [p \in Plans |-> IF p \in closing THEN {} ELSE held[p]]
        /\ committed' = committed \ UNION {held[p] : p \in closing}

\* VMs leave the inventory, or an operator or a closed plan frees them.
Free ==
    /\ committed' \subseteq committed
    /\ UNCHANGED <<stage, held>>

Next == Free \/ Open \/ Close \/ Take \/ Edit

Spec == Init /\ [][Next]_vars

-----------------------------------------------------------------------------

\* A commitment is always somebody's.
Accounted == committed \subseteq UNION {held[p] : p \in Plans}

=============================================================================
