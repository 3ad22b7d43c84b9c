------------------------------ MODULE CrdSchemas ------------------------------
(***************************************************************************)
(* scripts/generate-crd-schemas.py turns the schemas of CRDs into JSON     *)
(* schemas for CI, beside what the API server makes of the same objects.   *)
(* A CRD schema is a record                                                *)
(*   type      "object", "string", "integer", "intOrString" or, in the     *)
(*             branches of anyOf, "any"                                    *)
(*   props     its properties by name, extra its additionalProperties, a   *)
(*             set of at most one schema, branches those of anyOf          *)
(*   preserve, nullable, embedded                                          *)
(* and a value is null, a string, an integer or an object with fields.     *)
(***************************************************************************)
EXTENDS Naturals

CONSTANTS
  Schemas, Values,
  Depth,  \* how deep each schema nests: the schemas, as resources, and every schema in them
  Terms   \* the values and every value in them

VARIABLES
  stage,    \* "crd": nothing yet, "schema": CI has it, "object": a manifest is committed
  schema, value
vars == <<stage, schema, value>>

Nodes == DOMAIN Depth

TypeOK == stage \in {"crd", "schema", "object"} /\ schema \in Schemas /\ value \in Values

Types == {"null", "object", "string", "integer"}
Plain(t) == [type |-> t, props |-> <<>>, extra |-> {}, branches |-> {}, preserve |-> FALSE, nullable |-> FALSE, embedded |-> FALSE]

-----------------------------------------------------------------------------
(* convert() *)

\* The fields that every resource has; CRD schemas do not describe metadata.
OwnFields == {"metadata", "apiVersion", "kind"}
Own(n) == IF n.embedded THEN OwnFields ELSE {}

ResourceFields(props) ==
  [f \in DOMAIN props \cup OwnFields |->
     CASE f = "metadata" -> [Plain("object") EXCEPT !.preserve = TRUE]
       [] f \in DOMAIN props \ {"metadata"} -> props[f]
       [] OTHER -> Plain("string")]

\* Mutant: the branches are closed, too.
ClosesAny(n, props, structural) == props # <<>> /\ ~n.preserve

\* Mutant: an embedded resource without properties of its own stays open.
ClosesOwn(n, props, structural) == n.props # <<>> /\ structural /\ ~n.preserve

\* Only structural schemas with properties are closed.
Closes(n, props, structural) == props # <<>> /\ structural /\ ~n.preserve

\* "nulls are checked against type and enum, not logical branches".
NullPasses(n) == n.nullable

TypesOf(n) ==
  (CASE n.type = "any" -> Types [] n.type = "intOrString" -> {"integer", "string"} [] OTHER -> {n.type})
  \cup (IF n.nullable THEN {"null"} ELSE {})

\* One level of a schema; properties are converted as it is, branches as logical ones.
ConvertNode(n, structural) ==
  LET props == IF structural /\ n.embedded THEN ResourceFields(n.props) ELSE n.props IN
  [types |-> TypesOf(n), closed |-> Closes(n, props, structural),
   props |-> props, extra |-> n.extra, branches |-> n.branches, nullPasses |-> NullPasses(n)]

\* convert(): the top of a schema is a resource.
Convert(n) == [n EXCEPT !.embedded = TRUE]

-----------------------------------------------------------------------------
(* kubeconform, and the API server *)

valid[n \in Nodes] == [structural \in BOOLEAN |-> [v \in Terms |->
  LET s == ConvertNode(n, structural) IN
  /\ v.is \in s.types
  /\ v.is = "object" => \A f \in DOMAIN v.fields :
       IF f \in DOMAIN s.props THEN valid[s.props[f]][structural][v.fields[f]]
       ELSE (\A e \in s.extra : valid[e][structural][v.fields[f]]) /\ (s.extra = {} => ~s.closed)
  /\ s.branches = {} \/ (s.nullPasses /\ v.is = "null") \/ \E b \in s.branches : valid[b][FALSE][v]]]

\* A branch of anyOf is about the fields it names ...
satisfies[n \in Nodes] == [v \in Terms |->
  /\ v.is \in TypesOf(n)
  /\ v.is = "object" => \A f \in DOMAIN v.fields \cap DOMAIN n.props : satisfies[n.props[f]][v.fields[f]]
  /\ n.branches = {} \/ \E b \in n.branches : satisfies[b][v]]

\* ... and says no more of them; that and a type are what a CRD needs to be taken.
logical[n \in Nodes] ==
  /\ n.extra = {} /\ ~n.nullable
  /\ \A f \in DOMAIN n.props : logical[n.props[f]]
  /\ \A b \in n.branches : logical[b]

taken[n \in Nodes] ==
  /\ n.type \in {"object", "string", "integer", "intOrString"}
  /\ \A f \in DOMAIN n.props : taken[n.props[f]]
  /\ \A e, g \in n.extra : taken[e] /\ e = g
  /\ \A b \in n.branches : logical[b]

\* keeps[n][v]: v is valid and nothing of it is pruned.
keeps[n \in Nodes] == [v \in Terms |->
  \/ v.is = "null" /\ n.nullable
  \/ /\ v.is # "null" /\ v.is \in TypesOf(n)
     /\ n.branches = {} \/ \E b \in n.branches : satisfies[b][v]
     /\ v.is = "object" => \A f \in DOMAIN v.fields :
          \/ f = "metadata" /\ f \in Own(n) /\ v.fields[f].is = "object"
          \/ f \in Own(n) \ (DOMAIN n.props \cup {"metadata"}) /\ v.fields[f].is = "string"
          \/ f \in DOMAIN n.props \ (Own(n) \cap {"metadata"}) /\ keeps[n.props[f]][v.fields[f]]
          \/ /\ f \notin DOMAIN n.props \cup Own(n)
             /\ (\E e \in n.extra : keeps[e][v.fields[f]]) \/ (n.extra = {} /\ n.preserve)]

-----------------------------------------------------------------------------
Init ==
  /\ stage = "crd"
  /\ schema = (CHOOSE s \in Schemas : TRUE)
  /\ value = (CHOOSE v \in Values : TRUE)

\* The release of an operator brings the CRD, and CI generates from it.
Generate == stage = "crd" /\ stage' = "schema" /\ schema' \in Schemas /\ UNCHANGED value

\* Somebody commits an object of that kind.
Write == stage = "schema" /\ stage' = "object" /\ value' \in Values /\ UNCHANGED schema

Next == Generate \/ Write
Spec == Init /\ [][Next]_vars

-----------------------------------------------------------------------------
(* Properties *)

\* No false alarm: what the API server keeps as it is, CI accepts.
ServedObjectsPass ==
  stage = "object" /\ keeps[Convert(schema)][value] => valid[Convert(schema)][TRUE][value]

\* An object without properties is open to CI, and nothing else.
open[n \in Nodes] ==
  \/ n.type = "object" /\ n.props = <<>> /\ n.extra = {} /\ ~n.preserve /\ ~n.embedded
  \/ \E f \in DOMAIN n.props : open[n.props[f]]
  \/ \E e \in n.extra : open[e]

\* "strict": a field that the API server would drop, and a value it would refuse, fail in
\* CI already, wherever in the object they are.
DroppedFieldsFail ==
  stage = "object" /\ valid[Convert(schema)][TRUE][value] =>
    keeps[Convert(schema)][value] \/ open[Convert(schema)]
=============================================================================
