---------------------------- MODULE MCPolicySource ----------------------------
(* Histories of two revisions over a handful of policy trees.              *)
EXTENDS PolicySource, TLC

Purl == [package |-> "lib", version |-> 1, supportedArch |-> TRUE]

Record(id, cve, component) ==
  [id |-> id, component |-> component, type |-> "risk-accepted",
   package   |-> [name |-> "lib", version |-> 1, purl |-> Purl],
   createdAt |-> 0, approval |-> [by |-> "owner", at |-> 0], expiresAt |-> 1,
   vex |-> [id |-> id, author |-> "owner", timestamp |-> 0, product |-> component,
            subcomponent |-> Purl, vulnerability |-> cve, status |-> "affected"]]

File(record, size) == [kind |-> "file", sha |-> [size |-> size, record |-> record]]
Directory(t) == [kind |-> "tree", sha |-> t]

One     == "a" :> File(Record("a", "cve1", "service"), 1)
Other   == "b" :> File(Record("b", "cve2", "service"), 1)
Rival   == "b" :> File(Record("b", "cve1", "service"), 1)
Misfile == "b" :> File(Record("a", "cve2", "service"), 1)
Stray   == "b" :> File(Record("b", "cve2", "agent"), 1)
Huge    == "b" :> File(Record("b", "cve2", "service"), 2)
Link    == "b" :> [kind |-> "other", sha |-> [size |-> 1, record |-> Record("b", "cve2", "service")]]
Third   == "c" :> File(Record("c", "cve3", "service"), 1)

Root(policy) == "security-exemptions" :> Directory(policy)
With(members) == Root("service" :> Directory(members))

Crowded == Root([n \in {"service", "agent", "web", "mcp"} |-> Directory(One)])
Full    == Root([n \in {"service", "agent", "web"} |-> Directory(One)])

Good == {With(One), Full, With(One @@ Other), Root("agent" :> Directory(Other)), With(NoTree)}
Bad  == {NoTree, "security-exemptions" :> [kind |-> "other", sha |-> NoTree],
         Root("service" :> [kind |-> "other", sha |-> NoTree]),
         With(One @@ Rival), With(Misfile), With(Stray), With(Huge), With(Link),
         With(One @@ Other @@ Third), Crowded}

MCRepositories ==
  {<<first, second>> : first \in Good, second \in Good \cup Bad}
  \cup {<<first, second>> : first \in Bad, second \in {With(One)}}
=============================================================================
