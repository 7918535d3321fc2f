------------------------- MODULE MCAlertEnrichment -------------------------
(* A small corpus and a few alerts for TLC. *)
EXTENDS AlertEnrichment

CONSTANTS evil, intra, v4, lan, md5, sha, page,
          domain, addr, file,
          i1, i2

W(name, path, marks) == [name |-> name, path |-> path, marks |-> marks]
Plain(name) == W(name, NoPath, {})

MCObservables == {domain, addr, file}
MCShown == [o \in MCObservables |->
  CASE o = domain   -> Plain(evil)
    [] o = addr     -> Plain(v4)
    [] o = file     -> Plain(sha)]
MCKeys == [o \in MCObservables |->
  IF o = file THEN {Plain(md5), Plain(sha)} ELSE {MCShown[o]}]
MCLinksOf == [o \in MCObservables |->
  CASE o = domain   -> {i1, i2}
    [] o = addr     -> {i1}
    [] o = file     -> {i2}]
MCScore == [i \in {i1, i2} |-> IF i = i1 THEN 40 ELSE 80]

Setting(source, mode, policy, min, memory) ==
  [source |-> source, mode |-> mode, policy |-> policy, min_score |-> min, memory |-> memory]
Sizing(cgroup, host, override, workers, payload) ==
  [cgroup |-> cgroup, host |-> host, reserve |-> 40, share |-> 50, override |-> override,
   workers |-> workers, cache |-> payload]

\* Room for two entries, as many as there are at first, or for none.
Single == Sizing(96, 500, Automatic, 1, Automatic)
Pair == Sizing(Automatic, 96, 38, 2, 8)
Small == Sizing(60, 96, Automatic, 2, Automatic)
MCDeployments == {
  Setting("observables", "auto", "expiry_aware", 0, Single),
  Setting("indicators", "auto", "live_only", 50, Pair),
  Setting("indicators", "always", "all", 0, Small)}

\* An alert that has an indicator twice, one with more of them than are asked
\* about, and one that has none.
MCAlerts == {
  [fields |-> <<Plain(lan), W(v4, NoPath, {"padded"}), W(v4, NoPath, {"padded", "spaced"}),
                W(evil, page, {"bare", "defanged"})>>,
   blob |-> <<>>],
  [fields |-> <<Plain(intra), W(intra, page, {"upper"})>>, blob |-> <<W(sha, NoPath, {"upper"})>>],
  [fields |-> <<Plain(lan)>>, blob |-> <<>>]}
MCRequested ==
  UNION {Range(a.fields) \cup Range(a.blob) : a \in MCAlerts}
  \cup {Plain(md5)}
=============================================================================
