--------------------------- MODULE MCPlanPipeline ---------------------------
EXTENDS PlanPipeline

CONSTANT MaxVMs

Plain == [vc |-> 1, cluster |-> 0, ns |-> "", env |-> "prod", hint |-> "", role |-> "",
          words |-> {"web"}, nets |-> {1}, stores |-> {1}, stem |-> "web", ha |-> "standalone",
          num |-> 1, dash |-> TRUE, folder |-> "a", fit |-> {"cold", "warm"},
          ips |-> [n \in {1} |-> {"10.0.0.7"}]]

\* Two tiers of one application, a numbered web server of the namespace that an
\* empty one is rendered as, and a pair of directory servers on other storage.
MCKinds ==
    <<Plain,
      [Plain EXCEPT !.hint = "shop", !.words = {"app"}, !.stem = "shop", !.ips[1] = {"10.9.9.9"}],
      [Plain EXCEPT !.hint = "shop", !.words = {"data"}, !.stem = "shop-db", !.num = 0],
      [Plain EXCEPT !.ns = "default", !.num = 2],
      [Plain EXCEPT !.stores = {2}, !.words = {"infrastructure"}, !.ha = "primary", !.stem = "dc"],
      [Plain EXCEPT !.stores = {2}, !.words = {"infrastructure"}, !.ha = "replica", !.stem = "dc"]>>

\* What a plan cannot take, or takes to another place.
Others ==
    <<[Plain EXCEPT !.env = "dev", !.fit = {"cold"}],
      [Plain EXCEPT !.nets = {}, !.stores = {}],
      [Plain EXCEPT !.vc = 0],
      [Plain EXCEPT !.cluster = 2, !.dash = FALSE]>>

MCShapes(v) == {MCKinds[4], MCKinds[3], Others[1], Others[4]}

Sorted(f) == \A i \in 1..(Len(f) - 1) : f[i] <= f[i + 1]

\* The largest have a plain VM, or directory servers only.
MCFleets ==
    {[v \in DOMAIN f |-> [MCKinds[f[v]] EXCEPT !.num = IF @ = 0 THEN 0 ELSE v]] :
        f \in {f \in UNION {[1..n -> DOMAIN MCKinds] : n \in 1..MaxVMs} :
                  Sorted(f) /\ (Len(f) = MaxVMs => f[1] \in {1, 5})}}
    \union {<<Plain, o>> : o \in ToSet(Others)}

Row(source, target) ==
    [source |-> source, target |-> target, type |-> "nad", ns |-> "", ignored |-> FALSE]
Class(source, class) == [source |-> source, class |-> class, access |-> "", volume |-> ""]

Simple == [vc |-> 1, cluster |-> 1,
           nets |-> <<Row(1, "pod")>>, stores |-> <<Class(1, "fast"), Class(2, "slow")>>,
           strategy |-> [kind |-> "single", namespace |-> "default", rows |-> <<>>]]

\* A primary network that serves one namespace and reaches one address.
MCInside(ip, subnets) == IF ip \in subnets THEN "inside" ELSE "outside"

Catalog == [ocp |-> <<4, 21>>, mtv |-> NoVersion, bridges |-> {NeverImported},
            networks |-> [pod |-> [type |-> "udn", role |-> "primary", topology |-> "layer2",
                                   ipam |-> "persistent", binding |-> "", transport |-> "", ns |-> "",
                                   physical |-> "", subnets |-> {"10.0.0.7"}]],
            classes |-> [slow |-> [access |-> "ReadWriteOnce", volume |-> "Block", vendor |-> "ontap", secret |-> ""],
                         fast |-> [access |-> "ReadWriteMany", volume |-> "", vendor |-> "", secret |-> ""]],
            spaces |-> [default |-> "pod", shop |-> ""]]

MCCatalogs == <<Catalog, [Catalog EXCEPT !.ocp = <<4, 19>>, !.networks = <<>>]>>
MCAddresses == <<"10.0.0.1">>

MCMappings ==
    {{Simple},
     {[Simple EXCEPT !.nets = <<Row(1, ""), Row(1, "pod")>>,
                     !.strategy = [kind |-> "per_environment", rows |-> <<>>,
                                   envs |-> [prod |-> "default", dev |-> "dev"]]]},
     {Simple, [Simple EXCEPT !.cluster = 2,
                     !.nets = <<[Row(1, "shop") EXCEPT !.ns = "shared"]>>,
                     !.stores[1].access = "ReadOnlyMany",
                     !.strategy = [kind |-> "rows",
                                   rows |-> <<[ns |-> "shop", criteria |-> "application", value |-> "shop"],
                                              [ns |-> "rest", criteria |-> "default", value |-> ""]>>]]}}
=============================================================================
