------------------------------- MODULE MCFacts -------------------------------
(***************************************************************************)
(* Three memories over two namespaces, one of which removes a group, under *)
(* two configurations that put "uses" into different groups; the name of   *)
(* one has a capital in it, as nothing in config.rs forbids.               *)
(***************************************************************************)
EXTENDS Reflect

MCStr == {"uses", "Uses", "depends_on", "depends on", "runs_on", "runs on", "runs", "--", ""}
MCNameOrder == <<"Uses", "depends_on">>
MCTextNormalize ==
    [s \in MCStr |-> CASE s = "Uses" -> "uses" [] s = "depends_on" -> "depends on"
                      [] s = "runs_on" -> "runs on" [] s = "--" -> "" [] OTHER -> s]
MCLower == [s \in MCStr |-> IF s = "Uses" THEN "uses" ELSE s]

\* jaro_winkler of the pairs above 75 of 100.
MCSimilarity ==
    [p \in MCStr \X MCStr |->
        CASE p[1] = p[2] -> 100
          [] {p[1], p[2]} = {"uses", "Uses"} -> 83
          [] {p[1], p[2]} = {"depends_on", "depends on"} -> 96
          [] {p[1], p[2]} = {"runs_on", "runs on"} -> 94
          [] {p[1], p[2]} \in {{"runs_on", "runs"}, {"runs on", "runs"}} -> 91
          [] OTHER -> 0]

MCTidy == [s \in {"app", "App ", "svc", ""} |-> IF s = "App " THEN "app" ELSE s]
MCEntities == {{"app", "svc"}}
MCCloseness ==
    [p \in {"x", "X", "y", ""} \X {"x", "X", "y", ""} |->
        IF p[1] = p[2] \/ {p[1], p[2]} = {"x", "X"} THEN "duplicate"
        ELSE IF {p[1], p[2]} = {"X", "y"} THEN "ambiguous" ELSE "different"]

Group(k, members) == [x \in {k} |-> members]
MCConfigs ==
    {[groups |-> Group("depends_on", <<"uses">>),
      namespaces |-> [n \in {"n2"} |-> Group("depends_on", << >>)]],
     [groups |-> [k \in {"Uses", "depends_on"} |-> IF k = "Uses" THEN <<"runs_on">> ELSE << >>],
      namespaces |-> [n \in {"n2"} |-> Group("Uses", <<"depends_on">>)]]}

In(n, s, p, o) == [ns |-> n, subject |-> s, predicate |-> p, object |-> o]
MCInputs ==
    {In("n1", "app", "uses", "x"), In("n1", "App ", "Uses", "X"), In("n1", "app", "depends_on", "y"),
     In("n2", "app", "uses", "y"), In("n1", "svc", "runs", "x"), In("n1", "svc", "uses", "y"),
     In("n2", "svc", "--", "x"), In("n1", "app", "", "x")}

Old(n, p, o) ==
    [ns |-> n, subject |-> "app", predicate |-> p, normalized |-> None, object |-> o, valid |-> TRUE]
MCLegacy ==
    {<< >>, <<Old("n1", "Uses", "X")>>, <<Old("n1", "uses", "y")>>, <<Old("n2", "depends_on", "X")>>}

\* For the backfill alone: the group's own name, in lower case.
MCPlainConfigs == {c \in MCConfigs : "Uses" \notin DOMAIN c.groups}
MCPlainLegacy == {<<Old("n1", "depends_on", "x")>>}
=============================================================================
