---------------------------- MODULE ModuleOrder ----------------------------
(* The pure part of ModuleManager (src/app/common/library/ModuleManager.php): *)
(* the order in which modules are loaded, the cycles found on the way, and *)
(* which of the enabled modules can run.                                   *)
(*                                                                         *)
(* A module's 'dependsOn' is a sequence of keys, which may name packages   *)
(* that are not installed. `requires` below is that map.                   *)
EXTENDS Naturals, FiniteSets, SequencesExt, Relation

CONSTANTS
  Discovery,  \* the installed modules' keys, in the order discover() meets them
  Gone        \* keys of packages that are not installed

ASSUME DiscoveryAssumption ==
  /\ Discovery \in Seq(ToSet(Discovery))
  /\ IsInjective(Discovery)
  /\ ToSet(Discovery) \cap Gone = {}

Installed == ToSet(Discovery)
Keys == Installed \cup Gone

Found == [order: Seq(Installed), cyclic: SUBSET Installed]

(* dependenciesOf(): none for a package that is not installed.             *)
DependenciesOf(requires, key) ==
  IF key \in Installed THEN requires[key] ELSE <<>>

(* The part of a path that a repeated key closes into a cycle.             *)
CycleMembers(path, key) ==
  ToSet(SubSeq(path, SelectInSeq(path, LAMBDA k : k = key), Len(path)))

(* dependencyOrder() and placeAfterDependencies(): a depth-first walk that *)
(* appends a module once its dependencies are placed, and gives a manifest *)
(* error to the members of a cycle when it meets its own path again.       *)
Placement(requires) ==
  LET Place[at \in [key: Installed, path: Seq(Installed), found: Found]] ==
        IF Contains(at.found.order, at.key) THEN at.found
        ELSE IF Contains(at.path, at.key)
        THEN [at.found EXCEPT
                !.cyclic = @ \cup CycleMembers(at.path, at.key)]
        ELSE LET Follow(found, key) ==
                   IF key \in Installed
                   THEN Place[[key |-> key, path |-> Append(at.path, at.key),
                               found |-> found]]
                   ELSE found
                 below == FoldLeft(Follow, at.found, requires[at.key])
             IN  [below EXCEPT !.order = Append(@, at.key)]
      Start(found, key) == Place[[key |-> key, path |-> <<>>, found |-> found]]
  IN  FoldLeft(Start, [order |-> <<>>, cyclic |-> {}], Discovery)

(* Mutant of Unmet: a dependency that is enabled is enough, loaded or not. *)
Unmet_EnabledIsEnough(requires, key, enabled, loadable) ==
  {d \in ToSet(DependenciesOf(requires, key)) : d \notin enabled}

(* unmetAmong(): the dependencies that are not running, whatever the       *)
(* reason it words.                                                        *)
Unmet(requires, key, enabled, loadable) ==
  {d \in ToSet(DependenciesOf(requires, key)) : ~ Contains(loadable, d)}

(* resolveLoadable(): the enabled modules that can run, in load order.     *)
Loadable(requires, order, errors, enabled) ==
  LET Add(loadable, key) ==
        IF /\ key \in enabled \ errors
           /\ Unmet(requires, key, enabled, loadable) = {}
        THEN Append(loadable, key)
        ELSE loadable
  IN  FoldLeft(Add, <<>>, order)

(* Mutant of EnabledDependents: the chain is followed through enabled      *)
(* modules only.                                                           *)
EnabledDependents_EnabledChain(requires, order, enabled, key) ==
  LET Extend(found, m) ==
        IF /\ m \in enabled \ {key}
           /\ \E d \in ToSet(requires[m]) : d = key \/ Contains(found, d)
        THEN Append(found, m)
        ELSE found
  IN  FoldLeft(Extend, <<>>, order)

(* enabledDependentsOf(): one pass over the load order collects the chain  *)
(* of modules above key; those of them that are enabled are returned.      *)
EnabledDependents(requires, order, enabled, key) ==
  LET Extend(chain, m) ==
        IF m # key /\ \E d \in ToSet(requires[m]) : Contains(chain, d)
        THEN Append(chain, m)
        ELSE chain
  IN  SelectSeq(Tail(FoldLeft(Extend, <<key>>, order)),
                LAMBDA m : m \in enabled)

-----------------------------------------------------------------------------
(* Reference definitions, which the algorithms above are compared with.    *)

(* DependsOn(requires)[m, d]: m needs d, directly or through other modules. *)
DependsOn(requires) ==
  TransitiveClosure(
    [edge \in Keys \X Keys |->
       Contains(DependenciesOf(requires, edge[1]), edge[2])],
    Keys)

OnCycle(dependsOn) == {m \in Installed : dependsOn[m, m]}

(* A module can run when it and all it needs is installed, enabled, well   *)
(* formed and on no cycle.                                                 *)
CanRun(dependsOn, malformed, enabled) ==
  LET runnable == (Installed \cap enabled) \ (malformed \cup OnCycle(dependsOn))
  IN  {m \in runnable : \A k \in Keys : dependsOn[m, k] => k \in runnable}
=============================================================================
