----------------------------- MODULE Licensing -----------------------------
(***************************************************************************)
(* Module licensing: LicenseManager, as it is used by the after-response   *)
(* and cron check-ins (checkInAll), by the Licences screen's "Check now"   *)
(* (checkInModules), and by adding, editing and removing a licence key.    *)
(*                                                                         *)
(* Each request reads license_entitlements and the key tables at different *)
(* moments, calls the licence server in between, and caches the key tables *)
(* for as long as it runs.  Every query and every call is one step.        *)
(*                                                                         *)
(* Time is counted in days.  Which key is tried first is left open (the    *)
(* code prefers the one that last validated); expires_on is written and    *)
(* dropped with the last success and is left out.                          *)
(***************************************************************************)
EXTENDS Integers

CONSTANTS
  Modules,      \* installed modules that need a licence key
  SharesWith,   \* module |-> the module whose keys it may use too, or None
  Keys,         \* ids of license_keys rows
  Stored,       \* the assignments stored to begin with
  Requests,     \* requests and CLI processes
  Kinds,        \* the kinds of request made
  Beside,       \* bound: which kind is made beside which, the later one second
  GraceDays,    \* LicenseManager::GRACE_DAYS
  None,         \* SQL NULL, and "no module" in SharesWith
  NoRow,        \* the module has no license_entitlements row
  NoCache,      \* the request has not read the key tables yet
  MaxTime,      \* bound: the clock stops here
  MaxRequests,  \* bound: requests made
  MaxBeside,    \* bound: requests made once two are under way at a time
  MaxAborts,    \* bound: requests that crash
  MaxOnceDead   \* bound: requests made once one has crashed

AllKinds == {"checkInAll", "checkIn", "addKey", "updateKey", "removeKey"}

Results == {"valid", "rejected", "unreachable"}
States == {"no_key", "unvalidated", "expired", "valid", "grace"}
LicensedStates == {"valid", "grace"}

Rows == [state: States \cup {"null"}, key: Keys \cup {None},
         success: Nat \cup {None}, result: Results \cup {"null"}]
EmptyRow == [state |-> "null", key |-> None, success |-> None, result |-> "null"]

ASSUME LicensingAssumption ==
  /\ SharesWith \in [Modules -> Modules \cup {None}]
  /\ Stored \subseteq Keys \X Modules
  /\ Kinds \subseteq AllKinds /\ Beside \subseteq Kinds \X Kinds
  /\ None \notin Modules \cup Keys \cup Nat
  /\ NoRow \notin Rows
  /\ GraceDays \in Nat
  /\ MaxTime \in Nat
  /\ MaxRequests \in Nat
  /\ MaxBeside \in 0..MaxRequests
  /\ MaxOnceDead \in 0..MaxRequests
  /\ MaxAborts \in Nat

Caches == [Modules -> SUBSET Keys]

VARIABLES
  now,
  live,          \* license_keys that are not removed
  used,          \* ids that license_keys has given out
  assigned,      \* license_key_modules: pairs of a key and a module
  entitlements,  \* license_entitlements: a row, or NoRow
  heard,         \* the last state 'license:changed' announced
  req,           \* per request, its local state
  beside,        \* history: the kinds that have been under way side by side
  requests, aborts

tables == <<live, used, assigned, entitlements>>
bounds == <<beside, requests, aborts>>
vars == <<now, live, used, assigned, entitlements, heard, req, beside,
          requests, aborts>>

(* A request's program counter and variables.  `phase` says which loop the *)
(* save() in progress belongs to; `found` is the key that validated and    *)
(* `change` what the check-in has to record.                               *)
RequestStates ==
  [pc: {"idle", "assign", "next", "ask", "load", "plan", "write", "announce"},
   kind: AllKinds, phase: {"attempt", "sync"}, todo: SUBSET Modules,
   key: Keys \cup {None}, dels: SUBSET Modules, adds: SUBSET Modules,
   cache: Caches \cup {NoCache}, mod: Modules \cup {None}, keys: SUBSET Keys,
   change: {"none", "failed", "valid"}, result: Results, found: Keys \cup {None},
   at: Nat, unreachable: BOOLEAN, loaded: Rows \cup {NoRow}, after: Rows]

IdleRequest ==
  [pc |-> "idle", kind |-> "checkIn", phase |-> "attempt", todo |-> {},
   key |-> None, dels |-> {}, adds |-> {}, cache |-> NoCache, mod |-> None,
   keys |-> {}, change |-> "none", result |-> "rejected", found |-> None,
   at |-> 0, unreachable |-> FALSE, loaded |-> NoRow, after |-> EmptyRow]

TypeOK ==
  /\ now \in 0..MaxTime
  /\ live \subseteq used
  /\ used \subseteq Keys
  /\ assigned \subseteq Keys \X Modules
  /\ entitlements \in [Modules -> Rows \cup {NoRow}]
  /\ heard \in [Modules -> States \cup {"null"}]
  /\ req \in [Requests -> RequestStates]
  /\ beside \subseteq AllKinds
  /\ requests \in 0..MaxRequests
  /\ aborts \in 0..MaxAborts

(***************************************************************************)
(* Keys and states.                                                        *)
(***************************************************************************)

(* keyIdsByModule(): the stored keys assigned to each module.              *)
KeyIdsByModule ==
  [m \in Modules |-> {k \in live : <<k, m>> \in assigned}]

ClosedUnderSharing(S) ==
  \A m \in S : SharesWith[m] # None => SharesWith[m] \in S

(* candidateKeyIds(): the module's own keys, then those of the module it   *)
(* shares a key with, and so on up the chain.                              *)
Holders(m) ==
  {h \in Modules :
     \A S \in SUBSET Modules : m \in S /\ ClosedUnderSharing(S) => h \in S}

CandidateKeyIds(cache, m) == UNION {cache[h] : h \in Holders(m)}

(* state(): exactly GraceDays after the last success is still in grace.    *)
StateOf(hasKey, success, result, time) ==
  CASE ~hasKey -> "no_key"
    [] hasKey /\ success = None -> "unvalidated"
    [] hasKey /\ success # None ->
         IF time - success > GraceDays THEN "expired"
         ELSE IF result = "valid" THEN "valid" ELSE "grace"

RowOf(m) == IF entitlements[m] = NoRow THEN EmptyRow ELSE entitlements[m]

StoredKeys(m) == CandidateKeyIds(KeyIdsByModule, m)

(* entitlement(): the state a module reads back, worked out on the spot.   *)
EntitlementState(m) ==
  StateOf(StoredKeys(m) # {}, RowOf(m).success, RowOf(m).result, now)

IsLicensed(m) == EntitlementState(m) \in LicensedStates

Init ==
  /\ now = 0
  /\ live = {a[1] : a \in Stored}
  /\ used = {a[1] : a \in Stored}
  /\ assigned = Stored
  /\ entitlements = [m \in Modules |-> NoRow]
  /\ heard = [m \in Modules |-> "null"]
  /\ req = [p \in Requests |-> IdleRequest]
  /\ beside = {}
  /\ requests = 0
  /\ aborts = 0

(***************************************************************************)
(* Requests begin.                                                         *)
(***************************************************************************)
UnderWay == {req[q].kind : q \in {q \in Requests : req[q].pc # "idle"}}

Begin(p, kind, local) ==
  /\ req[p].pc = "idle"
  /\ kind \in Kinds
  /\ UnderWay \X {kind} \subseteq Beside
  /\ beside' = IF UnderWay = {} THEN beside ELSE beside \cup UnderWay \cup {kind}
  /\ requests < IF aborts > 0 THEN MaxOnceDead
                ELSE IF beside' # {} THEN MaxBeside ELSE MaxRequests
  /\ requests' = requests + 1
  /\ req' = [req EXCEPT ![p] = local]

(* checkInAll(), of the day's check-in and of "Check all": it asks about   *)
(* those that loadableModuleKeys() finds enabled.  That may be any of them *)
(* here, for modules are enabled and disabled elsewhere.                   *)
CheckInAll(p, loadable) ==
  /\ Begin(p, "checkInAll",
           [IdleRequest EXCEPT !.pc = "next", !.kind = "checkInAll",
                               !.todo = loadable])
  /\ UNCHANGED <<now, tables, heard, aborts>>

(* checkInModules() of one module: no syncStates() follows it.             *)
CheckIn(p, m) ==
  /\ Begin(p, "checkIn", [IdleRequest EXCEPT !.pc = "next", !.todo = {m}])
  /\ UNCHANGED <<now, tables, heard, aborts>>

Assigning(kind, k, dels, adds) ==
  [IdleRequest EXCEPT !.pc = "assign", !.kind = kind, !.key = k,
                      !.dels = dels, !.adds = adds]

(* addKey(): the new row is saved, and nothing is assigned to it yet.      *)
AddKey(p, k, wanted) ==
  /\ Begin(p, "addKey", Assigning("addKey", k, {}, wanted))
  /\ k \notin used
  /\ used' = used \cup {k}
  /\ live' = live \cup {k}
  /\ UNCHANGED <<now, assigned, entitlements, heard, aborts>>

AssignedTo(k) == {m \in Modules : <<k, m>> \in assigned}

(* updateKey(): assign() finds the assignments of the key.                 *)
UpdateKey(p, k, wanted) ==
  /\ Begin(p, "updateKey",
           Assigning("updateKey", k, AssignedTo(k) \ wanted,
                     wanted \ AssignedTo(k)))
  /\ k \in live
  /\ UNCHANGED <<now, tables, heard, aborts>>

(* removeKey() finds the key and its assignments.                          *)
RemoveKey(p, k) ==
  /\ Begin(p, "removeKey", Assigning("removeKey", k, AssignedTo(k), {}))
  /\ k \in live
  /\ UNCHANGED <<now, tables, heard, aborts>>

(***************************************************************************)
(* Assignments, and the key itself.                                        *)
(***************************************************************************)
Unassign(p, m) ==
  /\ req[p].pc = "assign"
  /\ m \in req[p].dels
  /\ assigned' = assigned \ {<<req[p].key, m>>}
  /\ req' = [req EXCEPT ![p].dels = @ \ {m}]
  /\ UNCHANGED <<now, live, used, entitlements, heard, bounds>>

Assign(p, m) ==
  /\ req[p].pc = "assign"
  /\ req[p].dels = {}
  /\ m \in req[p].adds
  /\ assigned' = assigned \cup {<<req[p].key, m>>}
  /\ req' = [req EXCEPT ![p].adds = @ \ {m}]
  /\ UNCHANGED <<now, live, used, entitlements, heard, bounds>>

(* syncStates() forgets what it has read, and visits every module.         *)
Synced(local) ==
  [local EXCEPT !.pc = "next", !.phase = "sync", !.todo = Modules,
                !.cache = NoCache, !.change = "none"]

(* The assignments are done: removeKey() removes the key, and all three    *)
(* go on to syncStates().                                                  *)
EndAssign(p) ==
  /\ req[p].pc = "assign"
  /\ req[p].dels = {}
  /\ req[p].adds = {}
  /\ live' = IF req[p].kind = "removeKey" THEN live \ {req[p].key} ELSE live
  /\ req' = [req EXCEPT ![p] = Synced(@)]
  /\ UNCHANGED <<now, used, assigned, entitlements, heard, bounds>>

(***************************************************************************)
(* attempt(): the check-in of one module.                                  *)
(***************************************************************************)
Cached(p) == IF req[p].cache = NoCache THEN KeyIdsByModule ELSE req[p].cache

(* The loop of checkInModules() takes the next module.  With no key there  *)
(* is nothing to ask; with the server known to be unreachable nobody does. *)
Attempt(p, m) ==
  /\ req[p].pc = "next"
  /\ req[p].phase = "attempt"
  /\ m \in req[p].todo
  /\ LET candidates == CandidateKeyIds(Cached(p), m)
         asked == IF req[p].unreachable THEN {} ELSE candidates
     IN  req' = [req EXCEPT ![p] =
           [req[p] EXCEPT
              !.todo = req[p].todo \ {m}, !.mod = m, !.cache = Cached(p),
              !.keys = asked, !.pc = IF asked = {} THEN "load" ELSE "ask",
              !.change = IF candidates = {} THEN "none" ELSE "failed",
              !.result = IF req[p].unreachable THEN "unreachable"
                         ELSE "rejected"]]
  /\ UNCHANGED <<now, tables, heard, bounds>>

(* A key that cannot be read any more is skipped.                          *)
SkipKey(p, k) ==
  /\ req[p].pc = "ask"
  /\ k \in req[p].keys
  /\ k \notin live
  /\ req' = [req EXCEPT ![p].keys = @ \ {k}]
  /\ UNCHANGED <<now, tables, heard, bounds>>

(* LicenseCheckinClient::checkIn(): a refusal goes on to the next key, any *)
(* other answer ends the attempt.                                          *)
Ask(p, k, answer) ==
  /\ req[p].pc = "ask"
  /\ k \in req[p].keys
  /\ k \in live
  /\ req' = [req EXCEPT ![p] =
              [req[p] EXCEPT !.result = answer,
                        !.keys = IF answer = "rejected"
                                 THEN req[p].keys \ {k} ELSE {},
                        !.change = IF answer = "valid" THEN "valid" ELSE "failed",
                        !.found = IF answer = "valid" THEN k ELSE None,
                        !.at = now]]
  /\ UNCHANGED <<now, tables, heard, bounds>>

EndAsk(p) ==
  /\ req[p].pc = "ask"
  /\ req[p].keys = {}
  /\ req' = [req EXCEPT ![p].pc = "load"]
  /\ UNCHANGED <<now, tables, heard, bounds>>

(***************************************************************************)
(* save(): read the row, work out what it becomes, write it, announce.     *)
(***************************************************************************)
Load(p) ==
  /\ req[p].pc = "load"
  /\ req' = [req EXCEPT ![p].pc = "plan", ![p].loaded = entitlements[req[p].mod]]
  /\ UNCHANGED <<now, tables, heard, bounds>>

(* Mutant of Dropped: a success outlives the key that earned it.           *)
Dropped_Never(row, keyIds) == FALSE

(* "A success that was earned by a key no longer stored for the module is  *)
(* dropped first", under what this attempt has to record.                  *)
Dropped(row, keyIds) == row.key # None /\ row.key \notin keyIds

(* Mutant of Changed: a check-in that fails forgets the last success.      *)
Changed_FailureForgets(row, keyIds, local) ==
  CASE local.change = "none" -> row
    [] local.change = "failed" ->
         [row EXCEPT !.key = None, !.success = None, !.result = local.result]
    [] local.change = "valid" ->
         [row EXCEPT !.key = local.found, !.success = local.at, !.result = "valid"]

Changed(row, keyIds, local) ==
  LET kept == IF Dropped(row, keyIds)
              THEN [row EXCEPT !.key = None, !.success = None, !.result = "null"]
              ELSE row
  IN  CASE local.change = "none" -> kept
        [] local.change = "failed" -> [kept EXCEPT !.result = local.result]
        [] local.change = "valid" ->
             [kept EXCEPT !.key = local.found, !.success = local.at,
                          !.result = "valid"]

LoadedRow(local) == IF local.loaded = NoRow THEN EmptyRow ELSE local.loaded

Plan(p) ==
  /\ req[p].pc = "plan"
  /\ LET row == LoadedRow(req[p])
         keyIds == CandidateKeyIds(Cached(p), req[p].mod)
         changed == Changed(row, keyIds, req[p])
         state == StateOf(keyIds # {}, changed.success, changed.result, now)
         nothing == /\ req[p].change = "none"
                    /\ ~Dropped(row, keyIds)
                    /\ state = row.state
     IN  req' = [req EXCEPT ![p] =
                  [req[p] EXCEPT !.pc = IF nothing THEN "next" ELSE "write",
                            !.cache = Cached(p),
                            !.after = [changed EXCEPT !.state = state]]]
  /\ UNCHANGED <<now, tables, heard, bounds>>

(* Mutant of Updated: every column is written back as it was loaded.       *)
Updated_FullRow(stored, loaded, after) == after

(* The UPDATE names the columns that differ from the row as it was loaded  *)
(* (LicenseEntitlements uses dynamic updates).                             *)
Updated(stored, loaded, after) ==
  LET Merged(col) == IF after[col] = loaded[col] THEN stored[col] ELSE after[col]
  IN  [state |-> Merged("state"), key |-> Merged("key"),
       success |-> Merged("success"), result |-> Merged("result")]

(* Two requests that both found no row: the second INSERT violates the     *)
(* UNIQUE constraint, its exception is logged, and the loop goes on.       *)
Conflict(p) == req[p].loaded = NoRow /\ entitlements[req[p].mod] # NoRow

(* Mutant of Write: only a check-in announces, a sync does not.            *)
Write_SyncIsSilent(p) ==
  /\ req[p].pc = "write"
  /\ ~Conflict(p)
  /\ entitlements' =
       [entitlements EXCEPT ![req[p].mod] =
          IF @ = NoRow THEN req[p].after
          ELSE Updated(@, req[p].loaded, req[p].after)]
  /\ req' = [req EXCEPT ![p].pc =
              IF req[p].phase = "attempt" THEN "announce" ELSE "next"]
  /\ UNCHANGED <<now, live, used, assigned, heard, bounds>>

Write(p) ==
  /\ req[p].pc = "write"
  /\ ~Conflict(p)
  /\ entitlements' =
       [entitlements EXCEPT ![req[p].mod] =
          IF @ = NoRow THEN req[p].after
          ELSE Updated(@, req[p].loaded, req[p].after)]
  /\ req' = [req EXCEPT ![p] =
              [req[p] EXCEPT !.pc = IF req[p].after.state # LoadedRow(req[p]).state
                               THEN "announce" ELSE "next",
                        !.unreachable = \/ req[p].unreachable
                                         \/ /\ req[p].change # "none"
                                             /\ req[p].result = "unreachable"]]
  /\ UNCHANGED <<now, live, used, assigned, heard, bounds>>

WriteFails(p) ==
  /\ req[p].pc = "write"
  /\ Conflict(p)
  /\ req' = [req EXCEPT ![p].pc = "next"]
  /\ UNCHANGED <<now, tables, heard, bounds>>

(* announce(), "after the row is saved, never before".                     *)
Announce(p) ==
  /\ req[p].pc = "announce"
  /\ heard' = [heard EXCEPT ![req[p].mod] = req[p].after.state]
  /\ req' = [req EXCEPT ![p].pc = "next"]
  /\ UNCHANGED <<now, tables, bounds>>

(***************************************************************************)
(* The loops end.                                                          *)
(***************************************************************************)
SyncNext(p, m) ==
  /\ req[p].pc = "next"
  /\ req[p].phase = "sync"
  /\ m \in req[p].todo
  /\ req' = [req EXCEPT ![p].todo = @ \ {m}, ![p].mod = m, ![p].pc = "load"]
  /\ UNCHANGED <<now, tables, heard, bounds>>

(* modulesTriedWithKey()                                                   *)
TriedWith(cache, k) == {m \in Modules : k \in CandidateKeyIds(cache, m)}

(* checkInAll() goes on to syncStates(); saving a key goes on to a check-  *)
(* in of the modules it is tried for, with the key tables still cached.    *)
EndLoop(p) ==
  /\ req[p].pc = "next"
  /\ req[p].todo = {}
  /\ LET local == req[p] IN
     req' = [req EXCEPT ![p] =
       CASE local.phase = "attempt" /\ local.kind = "checkInAll" -> Synced(local)
         [] local.phase = "sync" /\ local.kind \in {"addKey", "updateKey"} ->
              [local EXCEPT !.phase = "attempt", !.cache = Cached(p),
                            !.kind = "checkIn",
                            !.todo = TriedWith(Cached(p), local.key)]
         [] OTHER -> IdleRequest]
  /\ UNCHANGED <<now, tables, heard, bounds>>

(* A crash, or an exception that leaves the request.                       *)
Abort(p) ==
  /\ aborts < MaxAborts
  /\ aborts' = aborts + 1
  /\ req[p].pc # "idle"
  /\ req' = [req EXCEPT ![p] = IdleRequest]
  /\ UNCHANGED <<now, tables, heard, beside, requests>>

Tick ==
  /\ now < MaxTime
  /\ now' = now + 1
  /\ UNCHANGED <<tables, heard, req, bounds>>

OtherRequest(p) ==
  \/ \E m \in Modules : CheckIn(p, m)
  \/ \E k \in Keys :
       \/ RemoveKey(p, k)
       \/ \E wanted \in SUBSET Modules :
            AddKey(p, k, wanted) \/ UpdateKey(p, k, wanted)

BeginRequest(p) ==
  \/ OtherRequest(p)
  \/ \E loadable \in SUBSET Modules : CheckInAll(p, loadable)

AssignKey(p) ==
  EndAssign(p) \/ \E m \in Modules : Unassign(p, m) \/ Assign(p, m)

AttemptModule(p) ==
  \/ \E m \in Modules : Attempt(p, m)
  \/ \E k \in Keys :
       SkipKey(p, k) \/ \E answer \in Results : Ask(p, k, answer)
  \/ EndAsk(p)

Save(p) == Load(p) \/ Plan(p) \/ Write(p) \/ WriteFails(p) \/ Announce(p)

Loop(p) == EndLoop(p) \/ \E m \in Modules : SyncNext(p, m)

Next ==
  \/ \E p \in Requests :
       \/ BeginRequest(p) \/ AssignKey(p) \/ AttemptModule(p)
       \/ Save(p) \/ Loop(p) \/ Abort(p)
  \/ Tick

Spec == Init /\ [][Next]_vars

(***************************************************************************)
(* Properties.                                                             *)
(***************************************************************************)
(* "Only a successful check-in moves that timestamp": a refused or failed  *)
(* check-in, saved from a row loaded before another request's success,     *)
(* never puts an older last_successful_checkin_at back.                    *)
OnlySuccessMovesSuccess ==
  [][\A m \in Modules :
       RowOf(m).success' # RowOf(m).success =>
         \/ RowOf(m).success' = None
         \/ \E p \in Requests :
              /\ req[p].pc = "write"
              /\ req[p].mod = m
              /\ req[p].change = "valid"
              /\ RowOf(m).success' = req[p].at]_vars

(* No stored key was removed, reassigned or added.                         *)
KeysUntouched == live = used /\ assigned = Stored

(* With the keys left alone, once a key has validated a module only time   *)
(* can end its licence: not an outage, a refusal, a crash, or another      *)
(* request's check-in that read the row before or after.                   *)
LicenceKept ==
  [][\A m \in Modules :
       /\ IsLicensed(m)
       /\ KeysUntouched /\ KeysUntouched'
       /\ now' = now
       => IsLicensed(m)']_vars

(* "Check-in history belongs to the key that earned it": once every        *)
(* request has ended, and none has died, a licensed module was validated by*)
(* a key that is still stored for it, whatever was added, moved and removed*)
(* before, and however check-ins have overlapped with each other.          *)
LicensedByStoredKey ==
  UnderWay = {} /\ beside \subseteq {"checkInAll", "checkIn"} /\ aborts = 0 =>
    \A m \in Modules : IsLicensed(m) => RowOf(m).key \in StoredKeys(m)

(* Once every request has ended, and none has died, the last               *)
(* 'license:changed' of a module named the state that is saved for it,     *)
(* unless two saves overlapped: they announce in any order.                *)
ListenersKnow ==
  UnderWay = {} /\ beside = {} /\ aborts = 0 =>
    \A m \in Modules : heard[m] = RowOf(m).state
=============================================================================
