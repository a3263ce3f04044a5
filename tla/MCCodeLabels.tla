---------------------------- MODULE MCCodeLabels ----------------------------
(***************************************************************************)
(* Instance of CodeLabels for TLC.  An endpoint of app is handled by main, *)
(* which calls target of lib from commit c2 on; an advisory names target.  *)
(***************************************************************************)
EXTENDS CodeLabels, TLC

MCCommits   == {"c1", "c2"}
MCFiles     == {"app", "lib"}
MCFunctions == {"main_1", "target_1"}
MCNames     == {"main", "target"}
MCNameOf    == "main_1" :> "main" @@ "target_1" :> "target"
MCLineOf    == [f \in MCFunctions |-> 1]

MCContent ==
    LET lib == [defs |-> {"target_1"}, calls |-> {}, routes |-> {}]
        app(called) == [defs |-> {"main_1"}, calls |-> called,
                        routes |-> {<<"/run", "main_1">>}]
    IN  "c1" :> ("app" :> app({}) @@ "lib" :> lib)
     @@ "c2" :> ("app" :> app({<<"main_1", "target">>}) @@ "lib" :> lib)

MCAdvisories == [v \in {"v1"} |-> {{"target"}}]
=============================================================================
