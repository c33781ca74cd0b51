----------------------------- MODULE StateDiff -----------------------------
(***************************************************************************)
(* What a validation concludes from two collected states of a VM.  Two     *)
(* engines read the same collection: compute_diff of core/llm/client.py    *)
(* with the tiers of core/validation_tiers.py behind POST .../validate,    *)
(* and diff_collection of core/collection/diff.py behind the wave runs.    *)
(*                                                                         *)
(* A collected state lists what core/ssh.py collects: the running services *)
(* (every command set lists running ones only), listening ports, mounts by *)
(* target, addresses by interface, routes, resolvers and cron: the pairs   *)
(* of a user and a line of its crontab, and the system files, a path with  *)
(* its lines.  An entry is a value.  The order in which a host prints its  *)
(* entries is part of a state for the lines of a system cron file only:    *)
(* one of the engines compares nothing else in order.                      *)
(***************************************************************************)
EXTENDS Naturals, Sequences, FiniteSets, SequencesExt

CONSTANTS
    CriticalServices,   \* CRITICAL_SERVICES_FOR_PRODUCTION
    KnownGoodServices,  \* KNOWN_GOOD_NEW_SERVICES
    KnownRenames,       \* KNOWN_NETWORK_RENAMES, a sequence of pairs
    DefaultRoutes,      \* the routes whose text contains "default"
    Judgements          \* the statuses a model may answer with

-----------------------------------------------------------------------------
(* core/llm/client.py: compute_diff *)

Change(before, after) == [removed |-> before \ after, added |-> after \ before]

MountChange(before, after) ==
    [removed |-> DOMAIN before \ DOMAIN after,
     added   |-> DOMAIN after \ DOMAIN before,
     changed |-> {t \in DOMAIN before \cap DOMAIN after :
                    \/ before[t].source # after[t].source
                    \/ before[t].fstype # after[t].fstype}]

Addresses(ifaces, i) ==
    IF i \in DOMAIN ifaces THEN ifaces[i] ELSE [v4 |-> {}, v6 |-> {}]

\* The interfaces whose addresses changed, with the change.
IfaceChanges(before, after) ==
    [i \in {j \in DOMAIN before \cup DOMAIN after :
              Addresses(before, j) # Addresses(after, j)} |->
        [v4 |-> Change(Addresses(before, i).v4, Addresses(after, i).v4),
         v6 |-> Change(Addresses(before, i).v6, Addresses(after, i).v6)]]

LinesOf(cron, path) == IF path \in DOMAIN cron.files THEN ToSet(cron.files[path]) ELSE {}

\* Every line with its user or its file: _diff_cron makes sets of both.
CronLines(cron) ==
    {<<"user", pair>> : pair \in cron.users}
      \cup UNION {{<<"system", path, line>> : line \in LinesOf(cron, path)} :
                     path \in DOMAIN cron.files}

ComputeDiff(before, after) ==
    [services |-> Change(before.services, after.services),
     ports    |-> Change(before.ports, after.ports),
     mounts   |-> MountChange(before.mounts, after.mounts),
     ifaces   |-> IfaceChanges(before.ifaces, after.ifaces),
     routes   |-> Change(before.routes, after.routes),
     dns      |-> Change(before.dns, after.dns),
     cron     |-> Change(CronLines(before.cron), CronLines(after.cron))]

-----------------------------------------------------------------------------
(* core/validation_tiers.py: classify *)

EmptySection(change) == \A k \in DOMAIN change : change[k] = {}

\* The rename table is a dict filled in order, so an interface with several
\* partners keeps the one of the last pair that mentions it.
Partners(i) == SelectSeq(KnownRenames, LAMBDA pair : i \in {pair[1], pair[2]})

Partner(i) ==
    LET pair == Last(Partners(i))
    IN  IF i = pair[1] THEN pair[2] ELSE pair[1]

\* One direction of the IPv4 addresses is enough; IPv6 is not compared.
RenamedTo(ifaces, i, p) ==
    /\ p \in DOMAIN ifaces
    /\ \/ ifaces[i].v4.added = ifaces[p].v4.removed /\ ifaces[i].v4.added # {}
       \/ ifaces[i].v4.removed = ifaces[p].v4.added /\ ifaces[i].v4.removed # {}

Renamed(ifaces) ==
    {i \in DOMAIN ifaces : Partners(i) # <<>> /\ RenamedTo(ifaces, i, Partner(i))}

\* _normalize_iface_changes keeps what no known rename explains.
UnexplainedIfaces(ifaces) ==
    DOMAIN ifaces \ (Renamed(ifaces) \cup {Partner(i) : i \in Renamed(ifaces)})

\* Mutant: stopped services forgotten.
EffectivelyEmptyButStops(diff) ==
    /\ diff.services.added = {}
    /\ EmptySection(diff.ports)
    /\ EmptySection(diff.mounts)
    /\ UnexplainedIfaces(diff.ifaces) = {}
    /\ EmptySection(diff.cron)

\* Routes and resolvers are not looked at here.
EffectivelyEmpty(diff) ==
    /\ EmptySection(diff.services)
    /\ EmptySection(diff.ports)
    /\ EmptySection(diff.mounts)
    /\ UnexplainedIfaces(diff.ifaces) = {}
    /\ EmptySection(diff.cron)

CriticalStopped(diff) == diff.services.removed \cap CriticalServices

OnlyKnownGoodServices(diff) ==
    /\ diff.services.added # {}
    /\ diff.services.added \subseteq KnownGoodServices
    /\ diff.services.removed = {}

NoOtherChanges(diff) ==
    /\ EmptySection(diff.ports)
    /\ EmptySection(diff.mounts)
    /\ UnexplainedIfaces(diff.ifaces) = {}
    /\ EmptySection(diff.routes)
    /\ EmptySection(diff.dns)
    /\ EmptySection(diff.cron)

\* The tier that decides, and its verdict; tier 3 leaves the verdict open.
Classify(diff, production) ==
    CASE EffectivelyEmpty(diff) -> [tier |-> 1, status |-> "pass"]
      [] ~EffectivelyEmpty(diff) /\ CriticalStopped(diff) # {} ->
            [tier |-> 2, status |-> IF production THEN "fail" ELSE "warn"]
      [] /\ ~EffectivelyEmpty(diff)
         /\ CriticalStopped(diff) = {}
         /\ OnlyKnownGoodServices(diff)
         /\ NoOtherChanges(diff) -> [tier |-> 2, status |-> "pass"]
      [] OTHER -> [tier |-> 3, status |-> "open"]

-----------------------------------------------------------------------------
(* core/collection/diff.py: diff_collection *)

Unless(condition, verdict) == IF condition THEN "pass" ELSE verdict

\* A system file is one entry, its path and the list of its lines as text: with
\* a line moved, repeated or added it is another entry, and the old one missing.
CronKept(base, curr) ==
    /\ base.users \subseteq curr.users
    /\ \A path \in DOMAIN base.files :
          path \in DOMAIN curr.files /\ base.files[path] = curr.files[path]

\* Each dimension's verdict; "info" scores as pass and is left out.
Dimensions(base, curr) ==
    [services |-> Unless(base.services \subseteq curr.services, "fail"),
     ports    |-> Unless(base.ports \subseteq curr.ports, "warn"),
     mounts   |-> Unless(\A t \in DOMAIN base.mounts :
                            /\ t \in DOMAIN curr.mounts
                            /\ base.mounts[t].fstype = curr.mounts[t].fstype, "warn"),
     cron     |-> Unless(CronKept(base.cron, curr.cron), "warn"),
     network  |-> Unless(/\ DOMAIN base.ifaces \subseteq DOMAIN curr.ifaces
                         /\ base.routes \cap DefaultRoutes # {}
                               => curr.routes \cap DefaultRoutes # {}, "warn")]

DiffCollection(base, curr) ==
    LET verdicts == {Dimensions(base, curr)[d] : d \in DOMAIN Dimensions(base, curr)}
    IN  IF "fail" \in verdicts THEN "fail"
        ELSE IF "warn" \in verdicts THEN "warn" ELSE "pass"

-----------------------------------------------------------------------------
(***************************************************************************)
(* core/llm/client.py, LLMClient._parse_verdict: an answer is accepted when *)
(* it has the schema (well formed, every finding complete) and its status  *)
(* fits the worst severity among its findings.                             *)
(***************************************************************************)
Severities == {"low", "medium", "critical"}    \* info counts as low, high as medium

Answers == [status : Judgements, worst : Severities, complete : BOOLEAN]

Accepted(answer) ==
    /\ answer.complete
    /\ answer.status \in {"pass", "warn", "fail"}
    /\ answer.worst = "critical" => answer.status = "fail"
    /\ answer.status = "pass" => answer.worst = "low"

=============================================================================
