----------------------------- MODULE MCPlanEdits -----------------------------
EXTENDS PlanEdits

CONSTANT InitialNumbers

Symmetry == Permutations(Requests)

Host == [vc |-> 1, cluster |-> 0, ns |-> "", env |-> "prod", hint |-> "", folder |-> "a",
         nets |-> {1}, stores |-> {1}, stem |-> "web", ha |-> "standalone", num |-> 1,
         dash |-> TRUE, fit |-> {"cold", "warm"}]

Other == [Host EXCEPT !.env = "dev", !.stem = "app", !.fit = {"cold"}]

\* Three of one family, or two, and last a VM that goes elsewhere.
Four == <<Host, Host, [Host EXCEPT !.folder = "b"], Other>>
Three == <<Host, Host, Other>>

\* The third of four joins the fourth, which may get to a network no mapping has.
\* An import names it as the others are named.
MCPatches == {[id |-> 3, fields |-> [ns |-> "dev"]], [id |-> 4, fields |-> [nets |-> {1, 2}]],
              [id |-> 4, fields |-> [stem |-> "web", ha |-> "standalone", num |-> 2, dash |-> TRUE]]}

Row(source, target) == [source |-> source, target |-> target, ignored |-> FALSE]

Simple == [vc |-> 1, cluster |-> 1, nets |-> <<Row(1, "pod")>>,
           stores |-> <<[source |-> 1, class |-> "fast"]>>,
           strategy |-> [kind |-> "per_environment", rows |-> <<>>,
                         envs |-> [prod |-> "prod", dev |-> "dev"]]]

MCMappings == {{Simple}, {[Simple EXCEPT !.strategy = [kind |-> "single", namespace |-> "prod", rows |-> <<>>]]}}

Places == {<<0, 0>>} \cup (Plans \X InitialNumbers)

\* Those before the last are alike.
InOrder(at) == \A v \in 1..(Len(at) - 2) : 10 * at[v][1] + at[v][2] <= 10 * at[v + 1][1] + at[v + 1][2]

Start(fleet, at, second) ==
    [vm |-> fleet,
     plans |-> [p \in Plans |->
         [type |-> IF p = 2 THEN second ELSE "cold", pair |-> <<1, 1>>,
          waves |-> [n \in Numbers |-> {v \in DOMAIN fleet : at[v] = <<p, n>>}]]]]

Within(fleet, last) == {at \in [DOMAIN fleet -> Places] : InOrder(at) /\ at[Len(at)] = last}

\* Every VM is in a wave of a plan or in none.  Of four the last is in the second
\* plan; of three it is in none, and the second plan is a warm one, which it cannot be in.
MCLayouts ==
    {Start(Four, at, "cold") : at \in Within(Four, <<2, 1>>)}
    \cup {Start(Three, at, "warm") : at \in Within(Three, <<0, 0>>)}
=============================================================================
