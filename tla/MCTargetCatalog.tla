--------------------------- MODULE MCTargetCatalog ---------------------------
EXTENDS TargetCatalog

RequestSymmetry == Permutations(Requests)

Entry(type, default) == [type |-> type, default |-> default]

\* Nothing declared yet; one default of two types of network, and of storage.
MCSeeds ==
    {[catalog |-> <<>>, spaces |-> {}],
     [catalog |-> [n1 |-> Entry("nad", TRUE), n2 |-> Entry("cudn", TRUE), s1 |-> Entry("storage", TRUE)],
      spaces |-> {"prod"}]}

MCNeeds(v) == [nets |-> {"lan"}, stores |-> {"ds"}]

Row(target, ignored) == [source |-> "lan", target |-> target, ignored |-> ignored]

MCNetRows == {<<Row("n1", FALSE)>>, <<Row("", FALSE), Row("n2", TRUE)>>}

MCStoreRows == {<<[source |-> "ds", class |-> "s1"]>>, <<>>}

MCStrategies == {[kind |-> "single", namespace |-> "prod", rows |-> <<>>]}

Doc(kind, name, ns, primary, owned, default) ==
    [kind |-> kind, name |-> name, ns |-> ns, primary |-> primary, owned |-> owned, default |-> default]

MCPastes ==
    {<<Doc("UDN", "n1", {"prod"}, TRUE, FALSE, FALSE), Doc("NAD", "n1", {}, FALSE, TRUE, FALSE),
       Doc("StorageClass", "s2", {}, FALSE, FALSE, TRUE)>>,
     <<Doc("CUDN", "n1", {}, FALSE, FALSE, FALSE), Doc("NAD", "n1", {}, FALSE, FALSE, FALSE),
       Doc("StorageClass", "s1", {}, FALSE, FALSE, TRUE), Doc("StorageClass", "s2", {}, FALSE, FALSE, TRUE)>>}
=============================================================================
