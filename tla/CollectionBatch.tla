--------------------------- MODULE CollectionBatch ---------------------------
(***************************************************************************)
(* run_collection_batch (core/collection/orchestrator.py): one coroutine   *)
(* per target under a global semaphore, a semaphore per vCenter, and a     *)
(* circuit breaker that stops connecting to a vCenter after a streak of    *)
(* connection failures.                                                    *)
(*                                                                         *)
(* Coroutines interleave only where they wait: for the global slot, for    *)
(* the vCenter's slot and for the thread that collects.  What a coroutine  *)
(* does between two waits is one step; the results lock is never waited    *)
(* for, because no coroutine waits while it holds it.                      *)
(***************************************************************************)
EXTENDS Integers, SSHCollector

CONSTANTS
    MaxTargets,       \* bound: targets of the batch
    VCenters,         \* vCenters the targets may belong to
    MaxConcurrency,   \* semaphore_size, after the clamp to 1..100
    PerVCenter,       \* per_vc_size, 0 for no limit
    Threshold         \* breaker_threshold, 0 for no breaker

ASSUME BatchAssumption ==
    /\ MaxTargets \in Nat \ {0}
    /\ MaxConcurrency \in 1..100
    /\ PerVCenter \in Nat
    /\ Threshold \in Nat
    /\ "unassigned" \notin VCenters

VARIABLES
    vcenter,   \* VMTarget.vcenter_id, "unassigned" for None
    phase,     \* where the target's coroutine is
    result,    \* the CollectionResult of the target
    results,   \* the targets in the order their results were appended
    streak,    \* vc_fail_streak
    tripped    \* vc_tripped

batchVars == <<vcenter, phase, result, results, streak, tripped>>

Targets == 1..MaxTargets

\* down: what the breaker counts.  quirky: neither that nor a success.
OutcomeOf(category) ==
    CASE category \in {"none", "partial"} -> "ok"
      [] category \in {"unreachable", "timeout", "auth_failed"} -> "down"
      [] OTHER -> "quirky"

BatchOutcomes == {OutcomeOf(Result(host)) : host \in {h \in Host : ~Hangs(h)}}

BatchTypeOK ==
    /\ vcenter \in [Targets -> VCenters \union {"unassigned"}]
    /\ phase \in [Targets -> {"queued", "waiting", "connecting", "hung", "done"}]
    /\ result \in [Targets -> BatchOutcomes \union {"none", "short"}]  \* short: never connected
    /\ results \in Seq(Targets)
    /\ streak \in [VCenters -> Nat]
    /\ tripped \subseteq VCenters

-----------------------------------------------------------------------------
(* Helpers *)

InPhase(ps)   == {t \in Targets : phase[t] \in ps}
Of(c)         == {t \in Targets : vcenter[t] = c}
Admitted      == InPhase({"waiting", "connecting", "hung"})

\* The holders of the vCenter's slots: a slot is freed whatever the outcome.
Connecting_LeaksOnFailure(c) ==
    (Of(c) \intersect InPhase({"connecting", "hung"})) \union {t \in Of(c) : result[t] = "down"}
Connecting(c) == Of(c) \intersect InPhase({"connecting", "hung"})
Waiting(c)    == Of(c) \intersect InPhase({"waiting"})

HasVCenter(t) == vcenter[t] \in VCenters
Limited(t)    == PerVCenter # 0 /\ HasVCenter(t)

\* A free slot of the vCenter; slots go to those who wait, first come first served.
SlotFree_OffByOne(c) == Cardinality(Connecting(c)) <= PerVCenter
SlotFree(c) == Cardinality(Connecting(c)) < PerVCenter

\* Where a target past the breaker goes: to its slot, or to the wait for one.
AfterAdmission(t) ==
    IF Limited(t) /\ (Waiting(vcenter[t]) # {} \/ ~SlotFree(vcenter[t]))
    THEN "waiting" ELSE "connecting"

BreakerOpen_Never(t) == FALSE
BreakerOpen(t) == HasVCenter(t) /\ vcenter[t] \in tripped

StreakAfter_NoReset(c, o) == IF o = "down" THEN streak[c] + 1 ELSE streak[c]
StreakAfter(c, o) == CASE o = "down"   -> streak[c] + 1
                       [] o = "ok"     -> 0
                       [] o = "quirky" -> streak[c]

\* The result is appended, the breaker brought up to date, the slots are freed.
Report(t, o) ==
    /\ phase' = [phase EXCEPT ![t] = "done"]
    /\ result' = [result EXCEPT ![t] = o]
    /\ results' = Append(results, t)

Trips(c, o) == o = "down" /\ StreakAfter(c, o) >= Threshold

BatchInit ==
    /\ vcenter \in [Targets -> VCenters \union {"unassigned"}]
    /\ phase = [t \in Targets |-> "queued"]
    /\ result = [t \in Targets |-> "none"]
    /\ results = <<>>
    /\ streak = [c \in VCenters |-> 0]
    /\ tripped = {}

-----------------------------------------------------------------------------
(* _one and _collect_one *)

\* The global semaphore serves the coroutines in the order they were created.
NextAdmitted(t) ==
    /\ phase[t] = "queued"
    /\ \A u \in 1..(t - 1) : phase[u] # "queued"
    /\ Cardinality(Admitted) < MaxConcurrency

\* The breaker is open: the result is made up and counts as one more failure.
ShortCircuit(t) ==
    /\ NextAdmitted(t)
    /\ BreakerOpen(t)
    /\ Report(t, "short")
    /\ streak' = [streak EXCEPT ![vcenter[t]] = @ + 1]
    /\ UNCHANGED <<vcenter, tripped>>

\* Past the breaker, with a slot at once or after a wait.
Admit(t) ==
    /\ NextAdmitted(t)
    /\ ~BreakerOpen(t)
    /\ phase' = [phase EXCEPT ![t] = AfterAdmission(t)]
    /\ UNCHANGED <<vcenter, result, results, streak, tripped>>

\* The breaker is not looked at again.
Connect(t) ==
    /\ phase[t] = "waiting"
    /\ \A u \in Waiting(vcenter[t]) : t <= u
    /\ SlotFree(vcenter[t])
    /\ phase' = [phase EXCEPT ![t] = "connecting"]
    /\ UNCHANGED <<vcenter, result, results, streak, tripped>>

Finish(t) ==
    /\ phase[t] = "connecting"
    /\ \E o \in BatchOutcomes :
          /\ Report(t, o)
          /\ IF Threshold # 0 /\ HasVCenter(t)
             THEN LET c == vcenter[t]
                  IN  /\ streak' = [streak EXCEPT ![c] = StreakAfter(c, o)]
                      /\ tripped' = IF Trips(c, o) THEN tripped \union {c} ELSE tripped
             ELSE UNCHANGED <<streak, tripped>>
    /\ UNCHANGED vcenter

\* A command of the target never exits; its thread keeps the slots.
Hang(t) ==
    /\ phase[t] = "connecting"
    /\ \E host \in Host : Hangs(host)
    /\ phase' = [phase EXCEPT ![t] = "hung"]
    /\ UNCHANGED <<vcenter, result, results, streak, tripped>>

Step(t) == ShortCircuit(t) \/ Admit(t) \/ Connect(t) \/ Finish(t)

\* gather() returns once every coroutine has.
Returned == InPhase({"done"}) = Targets /\ UNCHANGED batchVars

BatchNext == (\E t \in Targets : Step(t) \/ Hang(t)) \/ Returned

BatchSpec == BatchInit /\ [][BatchNext]_batchVars

\* The event loop resumes what can run.  engine.collect returns unless a command
\* hangs: connecting and reading have timeouts, waiting for an exit status has none.
BatchFairness == \A t \in Targets : WF_batchVars(Step(t))

BatchFairSpec == BatchSpec /\ BatchFairness

-----------------------------------------------------------------------------
(* Properties *)

(***************************************************************************)
(* At no moment more sessions than the caps allow, globally and, for a     *)
(* vCenter with a cap, to it, in whatever order targets wait and finish.   *)
(***************************************************************************)
WithinCaps ==
    /\ Cardinality(Admitted) <= MaxConcurrency
    /\ PerVCenter # 0 => \A c \in VCenters : Cardinality(Connecting(c)) <= PerVCenter

\* The failures of c among the results from the i-th to the n-th.
Failures(c, i, n) ==
    {k \in i..n : vcenter[results[k]] = c /\ result[results[k]] \in {"down", "short"}}

NoSuccess(c, i, n) == \A k \in i..n : vcenter[results[k]] = c => result[results[k]] # "ok"

HadStreak(c, n) ==
    \E i, j \in 1..n : NoSuccess(c, i, j) /\ Cardinality(Failures(c, i, j)) >= Threshold

(***************************************************************************)
(* The breaker of a vCenter is open exactly when its results, in the order *)
(* they came in from many threads, contain Threshold failures in a row     *)
(* without a success between them; nothing closes it again.                *)
(***************************************************************************)
BreakerMatchesResults ==
    Threshold # 0 =>
        tripped = {c \in VCenters : HadStreak(c, Len(results))}

\* Targets of c that connect, or will, although the breaker of c is open.
Stragglers(c) ==
    (Of(c) \intersect Admitted)
      \union {results[n] : n \in {k \in 1..Len(results) :
                 /\ vcenter[results[k]] = c
                 /\ result[results[k]] # "short"
                 /\ HadStreak(c, k - 1)}}

(***************************************************************************)
(* The breaker is checked before the wait for the vCenter's slot and not   *)
(* again, so an open breaker still lets connections through: but never     *)
(* more than the other coroutines that held a global slot when it opened.  *)
(***************************************************************************)
FewStragglers ==
    Threshold # 0 => \A c \in tripped : Cardinality(Stragglers(c)) <= MaxConcurrency - 1

(***************************************************************************)
(* Every target gets a result and the batch returns: waiting for a         *)
(* vCenter's slot while holding a global one never blocks for good.  Only  *)
(* a command that never exits keeps a batch from returning, and that one   *)
(* can keep it whole: the others of its vCenter wait with global slots.    *)
(***************************************************************************)
BatchReturns == <>(InPhase({"done"}) = Targets \/ InPhase({"hung"}) # {})

=============================================================================
