---------------------------- MODULE MCVpaPolicies ----------------------------
(* Two workloads, one of a chart that renders no namespaces, in a few versions. *)
EXTENDS Naturals, FiniteSets

Xa == [ns |-> "x", name |-> "a"]
Xb == [ns |-> "x", name |-> "b"]
B  == [ns |-> "", name |-> "b"]

Workload(key, containers, on) == [is |-> "workload", key |-> key, containers |-> containers, on |-> on]
Policy(c, res) == [container |-> c, off |-> FALSE, resources |-> res, requestsOnly |-> TRUE]
All == {"cpu", "memory"}
Vpa(key, id, policies) == [is |-> "vpa", key |-> key, id |-> id, mode |-> "InPlaceOrRecreate", policies |-> policies]
Hpa(key) == [is |-> "hpa", key |-> key]
Exempt(list, key, exact) == [is |-> "exempt", key |-> key, exact |-> exact, list |-> list]

Side == {Policy("app", {"memory"}), Policy("side", All)}
Objs == {
  Workload(Xa, {"app"}, FALSE), Workload(Xa, {"app", "side"}, TRUE), Workload(B, {"app"}, TRUE),
  Vpa(Xa, 1, {Policy("*", {"memory"})}), Vpa(Xa, 2, {Policy("*", All)}), Vpa(Xa, 3, {Policy("app", {"memory"})}),
  Vpa(Xa, 4, Side), [Vpa(Xa, 5, {Policy("*", All)}) EXCEPT !.mode = "Recreate"], Vpa(Xb, 6, {Policy("*", All)}),
  Hpa(Xa), Hpa(B), Exempt("coverage", Xa, TRUE), Exempt("workload", Xa, TRUE), Exempt("coverage", Xb, FALSE)}

CONSTANT Commits
VARIABLES repo, commit
INSTANCE VpaPolicies WITH Objects <- Objs, Excluded <- {"echo-server"}
=============================================================================
