-------------------------- MODULE MCModuleRegistry --------------------------
(* Instances of ModuleRegistry for TLC.                                    *)
EXTENDS ModuleRegistry, TLC

CONSTANTS a, b, c, gone

ABC == <<a, b, c>>

(* Manifests of three modules: every way for b and c to require a, each    *)
(* other or a package that is gone; a bundles b and c, which may or may    *)
(* not be well formed.                                                     *)
ThreeModules ==
  {[requires |-> [m \in Installed |-> CASE m = a -> forA
                                        [] m = b -> forB
                                        [] m = c -> forC],
    bundles |-> [m \in Installed |-> IF m = a THEN {b, c} ELSE {}],
    malformed |-> bad] :
   forA \in {<<>>, <<c>>}, forB \in {<<>>, <<a>>, <<c>>, <<b>>},
   forC \in {<<a>>, <<b>>, <<b, a>>, <<gone>>}, bad \in {{}, {a}}}

ThreeModulesManifests ==
  {x \in ThreeModules :
     \A m \in x.malformed : x.requires[m] = <<>>}

RequestSymmetry == Permutations(Requests)
=============================================================================
