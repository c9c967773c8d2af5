--------------------------- MODULE ModuleRegistry ---------------------------
(* Which module packages are switched on: ModuleManager's enableModule()   *)
(* and disableModule(), called by `./run modules enable|disable` and by    *)
(* ConfigurationController, beside `./run modules sync`, on the table      *)
(* module_registry.                                                        *)
(*                                                                         *)
(* Every process reads the manifests once. The table is read and written a *)
(* statement at a time, without a transaction: another request may step    *)
(* between any two statements, and a process may die there. The licence    *)
(* check-in that follows an enable is in module Licensing; the columns of  *)
(* a row other than `enabled` are left out.                                *)
EXTENDS ModuleOrder

CONSTANTS
  Manifests,    \* the sets of manifests an installation may have
  Requests,     \* processes that change the registry
  FullRowSave,  \* TRUE: Model::save() writes every column; FALSE: changed ones
  NoKey,        \* no key in hand
  MaxRequests,  \* bound: requests that are made
  MaxAborts     \* bound: processes that die

(* What a package says: the keys it requires, in order, the installed      *)
(* modules its composer.json requires, and the modules whose 'dependsOn'   *)
(* is not a list of keys (parseManifest() gives those no dependencies).    *)
ManifestsType ==
  [requires: [Installed -> Seq(Keys)],
   bundles: [Installed -> SUBSET Installed],
   malformed: SUBSET Installed]

ASSUME ManifestsAssumption ==
  /\ Manifests \subseteq ManifestsType
  /\ \A x \in Manifests :
       /\ \A m \in x.malformed : x.requires[m] = <<>>
       /\ \A m \in Installed : m \notin x.bundles[m]

ASSUME RequestsAssumption ==
  /\ FullRowSave \in BOOLEAN
  /\ NoKey \notin Keys
  /\ MaxRequests \in Nat
  /\ MaxAborts \in Nat

VARIABLES
  manifests,        \* the packages as they are installed
  order, errors,    \* dependencyOrder() and manifestErrors
  module_registry,  \* per key, "absent" (no row), "off" or "on"
  req,              \* per request, its local state
  raced,            \* history: two requests have been under way at once
  requests, aborts  \* counted against MaxRequests and MaxAborts

constants == <<manifests, order, errors>>
vars == <<manifests, order, errors, module_registry, req, raced, requests,
          aborts>>

Rows == {"absent", "off", "on"}

(* key: what the request is about; todo: the keys still to be handled;     *)
(* row: what syncAction() has read.                                        *)
RequestStates ==
  [pc: {"idle", "check", "set", "list", "off", "read", "save"},
   key: Keys \cup {NoKey}, todo: Seq(Keys), row: Rows]

Idle == [pc |-> "idle", key |-> NoKey, todo |-> <<>>, row |-> "absent"]

TypeOK ==
  /\ manifests \in Manifests
  /\ order \in Seq(Installed)
  /\ errors \in SUBSET Installed
  /\ module_registry \in [Keys -> Rows]
  /\ req \in [Requests -> RequestStates]
  /\ \A r \in Requests : req[r].todo = <<>> <=> req[r].pc \in {"idle", "list"}
  /\ raced \in BOOLEAN
  /\ requests \in 0..MaxRequests
  /\ aborts \in 0..MaxAborts

(* Any table may be found: rows are edited by hand and packages removed.   *)
Init ==
  /\ manifests \in Manifests
  /\ LET placed == Placement(manifests.requires)
     IN  /\ order = placed.order
         /\ errors = manifests.malformed \cup placed.cyclic
  /\ module_registry \in [Keys -> Rows]
  /\ req = [r \in Requests |-> Idle]
  /\ raced = FALSE
  /\ requests = 0
  /\ aborts = 0

(* enabledModuleKeys(): one query.                                         *)
EnabledKeys == {key \in Keys : module_registry[key] = "on"}

(* loadableModuleKeys(), as each web request and CLI command computes it.  *)
LoadableKeys == Loadable(manifests.requires, order, errors, EnabledKeys)

(* enableBlocker(): a manifest error, or a dependency that is not running. *)
EnableBlocker(key) ==
  \/ key \in errors
  \/ Unmet(manifests.requires, key, EnabledKeys, LoadableKeys) # {}

(* bundledModuleKeys(), in dependency order.                               *)
Bundled(key) ==
  SelectSeq(order, LAMBDA m : key \in Installed /\ m \in manifests.bundles[key])

-----------------------------------------------------------------------------
Begin(r, state) ==
  /\ req[r].pc = "idle"
  /\ requests < MaxRequests
  /\ requests' = requests + 1
  /\ raced' = (raced \/ \E q \in Requests : req[q].pc # "idle")
  /\ req' = [req EXCEPT ![r] = state]
  /\ UNCHANGED <<constants, module_registry, aborts>>

Goes(r, pc) == req' = [req EXCEPT ![r] = [req[r] EXCEPT !.pc = pc]]

(* On to the next key, at statement pc, or the end of the request.         *)
NextKey(r, pc) ==
  req' = [req EXCEPT
            ![r] = IF Len(req[r].todo) = 1
                   THEN Idle
                   ELSE [req[r] EXCEPT !.pc = pc, !.todo = Tail(req[r].todo)]]

Unchanged == UNCHANGED <<constants, raced, requests, aborts>>

EnableModule(r) ==
  \E key \in Keys :
    Begin(r, [Idle EXCEPT !.pc = "check", !.key = key,
                          !.todo = <<key>> \o Bundled(key)])

(* The key asked for is refused with an exception; a bundled one is left   *)
(* as it is.                                                               *)
CheckBlocker(r) ==
  /\ req[r].pc = "check"
  /\ LET key == Head(req[r].todo)
     IN  \/ /\ ~ EnableBlocker(key)
            /\ Goes(r, "set")
         \/ /\ EnableBlocker(key)
            /\ key = req[r].key
            /\ req' = [req EXCEPT ![r] = Idle]
         \/ /\ EnableBlocker(key)
            /\ key # req[r].key
            /\ NextKey(r, "check")
  /\ UNCHANGED module_registry
  /\ Unchanged

(* setModuleEnabled($key, true). A key without a row is skipped, and its   *)
(* bundle is enabled all the same.                                         *)
SetEnabled(r) ==
  /\ req[r].pc = "set"
  /\ LET key == Head(req[r].todo)
     IN  module_registry' =
           IF module_registry[key] = "absent" THEN module_registry
           ELSE [module_registry EXCEPT ![key] = "on"]
  /\ NextKey(r, "check")
  /\ Unchanged

(* disableModule() of a key without a row does nothing.                    *)
DisableModule(r) ==
  \E key \in Keys :
    /\ module_registry[key] # "absent"
    /\ Begin(r, [Idle EXCEPT !.pc = "list", !.key = key])

Dependents(key) ==
  EnabledDependents(manifests.requires, order, EnabledKeys, key)

(* Mutant of ListDependents: the module goes first.                        *)
ListDependents_KeyFirst(r) ==
  /\ req[r].pc = "list"
  /\ req' = [req EXCEPT
               ![r] = [req[r] EXCEPT !.pc = "off",
                         !.todo = <<req[r].key>> \o Dependents(req[r].key)]]
  /\ UNCHANGED module_registry
  /\ Unchanged

(* The furthest dependents first, the module itself last.                  *)
ListDependents(r) ==
  /\ req[r].pc = "list"
  /\ req' = [req EXCEPT
               ![r] = [req[r] EXCEPT !.pc = "off",
                         !.todo = Append(Reverse(Dependents(req[r].key)),
                                         req[r].key)]]
  /\ UNCHANGED module_registry
  /\ Unchanged

SetDisabled(r) ==
  /\ req[r].pc = "off"
  /\ module_registry' = [module_registry EXCEPT ![Head(req[r].todo)] = "off"]
  /\ NextKey(r, "off")
  /\ Unchanged

(* syncAction(): every installed module in turn, read and saved. A new row *)
(* is disabled; inserting one that has been inserted meanwhile breaks the  *)
(* table's unique key, and ends the command.                               *)
Sync(r) ==
  /\ Discovery # <<>>
  /\ Begin(r, [Idle EXCEPT !.pc = "read", !.todo = Discovery])

SyncRead(r) ==
  /\ req[r].pc = "read"
  /\ req' = [req EXCEPT
               ![r] = [req[r] EXCEPT !.pc = "save",
                         !.row = module_registry[Head(req[r].todo)]]]
  /\ UNCHANGED module_registry
  /\ Unchanged

SyncSave(r) ==
  /\ req[r].pc = "save"
  /\ LET key == Head(req[r].todo)
     IN  \/ /\ req[r].row = "absent"
            /\ module_registry[key] = "absent"
            /\ module_registry' = [module_registry EXCEPT ![key] = "off"]
            /\ NextKey(r, "read")
         \/ /\ req[r].row = "absent"
            /\ module_registry[key] # "absent"
            /\ UNCHANGED module_registry
            /\ req' = [req EXCEPT ![r] = Idle]
         \/ /\ req[r].row # "absent"
            /\ module_registry' =
                 IF FullRowSave
                 THEN [module_registry EXCEPT ![key] = req[r].row]
                 ELSE module_registry
            /\ NextKey(r, "read")
  /\ Unchanged

(* The process dies, or a save fails: enableModule() and syncAction() go   *)
(* on to the next key, disableModule() ends there.                         *)
Abort(r) ==
  /\ req[r].pc # "idle"
  /\ aborts < MaxAborts
  /\ aborts' = aborts + 1
  /\ \/ req' = [req EXCEPT ![r] = Idle]
     \/ /\ req[r].pc = "set"
        /\ NextKey(r, "check")
     \/ /\ req[r].pc = "save"
        /\ NextKey(r, "read")
  /\ UNCHANGED <<constants, module_registry, raced, requests>>

Next ==
  \E r \in Requests :
    \/ EnableModule(r)
    \/ CheckBlocker(r)
    \/ SetEnabled(r)
    \/ DisableModule(r)
    \/ ListDependents(r)
    \/ SetDisabled(r)
    \/ Sync(r)
    \/ SyncRead(r)
    \/ SyncSave(r)
    \/ Abort(r)

Spec == Init /\ [][Next]_vars

-----------------------------------------------------------------------------
(* Who needs whom, for the installation at hand. *)
Needs == [x \in Manifests |-> DependsOn(x.requires)]
DependsOnIn(m, k) == Needs[manifests][m, k]

(* What is loaded is exactly what can run, whatever the registry says: a   *)
(* module above a dependency that is off, gone, malformed or on a cycle is *)
(* held back, and no other module is (loadableModuleKeys(),                *)
(* docs/MODULE-SPEC.md:205-214).                                           *)
LoadsWhatCanRun ==
  ToSet(LoadableKeys) =
    CanRun(Needs[manifests], manifests.malformed, EnabledKeys)

(* Every module that is enabled stands on dependencies that are enabled.   *)
Consistent ==
  \A m \in Installed :
    module_registry[m] = "on" =>
      \A d \in ToSet(manifests.requires[m]) : module_registry[d] = "on"

Acyclic == OnCycle(Needs[manifests]) = {}

(* "Enabling and disabling keep module_registry consistent", and stopping  *)
(* part-way never leaves a module enabled above a disabled dependency, as  *)
(* long as one request is made at a time.                                  *)
StaysConsistent ==
  [][Acyclic /\ ~ raced' /\ Consistent => Consistent']_vars

(* Once a module has been disabled by the only request under way, nothing  *)
(* that needs it is enabled, however far above it and whatever lies        *)
(* between (disableModule()).                                              *)
DisableClearsDependents ==
  [][\A r \in Requests :
       /\ Acyclic /\ ~ raced
       /\ req[r].pc = "off" /\ req'[r].pc = "idle" /\ aborts' = aborts
       => \A m \in EnabledKeys' :
            ~ DependsOnIn(m, req[r].key)]_vars

=============================================================================
