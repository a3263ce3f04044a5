---------------------------- MODULE MCCodeIngest ----------------------------
(***************************************************************************)
(* Two files.  lib defines target, which moves to another line in c2 and   *)
(* calls main there; in c3 it is gone, both files define a helper, and the *)
(* route of app has a handler the parser does not find.                    *)
(***************************************************************************)
EXTENDS CodeIngest, TLC

MCCommits   == {"c1", "c2", "c3"}
MCFiles     == {"app", "lib"}
MCFunctions == {"main_1", "helper_5", "unknown_9", "target_1", "target_2", "helper_7"}
MCNames     == {"main", "helper", "unknown", "target"}
MCEndpoints == {"/run"}

MCNameOf == [f \in MCFunctions |->
    CASE f = "main_1" -> "main"
      [] f = "unknown_9" -> "unknown"
      [] f \in {"target_1", "target_2"} -> "target"
      [] OTHER -> "helper"]

MCLineOf == "main_1" :> 1 @@ "helper_5" :> 5 @@ "unknown_9" :> 9 @@ "target_1" :> 1
         @@ "target_2" :> 2 @@ "helper_7" :> 7

Parsing(defs, called, routes) == [defs |-> defs, calls |-> called, routes |-> routes]

MCContent ==
    LET main == <<"main_1", "target">>
        run(handler) == {<<"/run", handler>>}
    IN  "c1" :> ("app" :> Parsing({"main_1"}, {main}, run("main_1"))
              @@ "lib" :> Parsing({"target_1"}, {}, {}))
     @@ "c2" :> ("app" :> Parsing({"main_1"}, {main}, run("main_1"))
              @@ "lib" :> Parsing({"target_2"}, {<<"target_2", "main">>}, {}))
     @@ "c3" :> ("app" :> Parsing({"helper_5"}, {}, run("unknown_9"))
              @@ "lib" :> Parsing({"helper_7"}, {}, {}))

Symmetry == Permutations(Runs)
=============================================================================
