------------------------------ MODULE MCModules ----------------------------
(* Modules with a project of four files and one repository: a diamond of   *)
(* imports, with and without targets, circles of imports and of fetches,   *)
(* and functions that fetch and call on.                                   *)
EXTENDS Modules, TLC

CONSTANTS main, lib, util, dep, repo, l, u, d, t

Imports(f, a) == [op |-> "import", file |-> f, alias |-> a]
Fetches(f, a) == [op |-> "fetch", file |-> f, alias |-> a]
Calls(a) == [op |-> "call", alias |-> a]
Defines == [op |-> "define"]
Describes == [op |-> "target", target |-> t]

MCFiles == {main, lib, util, dep}
MCRemotes == {repo}
MCHolds == (repo :> dep)

MCBody == (main :> <<>>) @@ (lib :> <<Calls(u), Fetches(repo, d), Calls(d)>>)
          @@ (util :> <<>>) @@ (dep :> <<Calls(u)>>)

MCProjects ==
  {[f \in MCFiles |->
     CASE f = main -> m [] f = lib -> b [] f = util -> v [] f = dep -> e] :
     m \in {<<Imports(util, u), Imports(lib, l), Calls(l), Fetches(repo, d), Calls(d)>>,
            <<Imports(lib, l), Imports(util, l), Calls(l)>>,
            <<Fetches(repo, d), Fetches(lib, l), Calls(l)>>,
            <<Imports(lib, l), Imports(NoFile, d)>>},
     b \in {<<Imports(util, u), Defines>>, <<Defines, Imports(util, u), Calls(u)>>},
     v \in {<<Defines>>, <<Defines, Describes>>, <<Imports(lib, l), Defines>>, <<Describes, Fetches(main, d)>>},
     e \in {<<Imports(util, u), Defines>>, <<Defines, Fetches(repo, d)>>, <<>>}}
=============================================================================
