-------------------------- MODULE LicensingProofs --------------------------
(***************************************************************************)
(* Proofs about Licensing, and about the daily check-in that LicensedDays  *)
(* makes of it and of DailyClaim, for every set of modules, keys and       *)
(* requests.                                                               *)
(*                                                                         *)
(* OnlySuccessMovesSuccess follows from what a request knows when it       *)
(* writes: the row it plans to save holds the success it loaded, none, or  *)
(* its own (Sound), and the row it loaded has not vanished since           *)
(* (LoadedStays).  Dynamic updates then leave another's success alone.     *)
(*                                                                         *)
(* ListenersKnow: while requests come one after the other, the row that    *)
(* one has loaded is the stored one and the last state announced is the    *)
(* stored one, or about to be announced (Tracked).                         *)
(*                                                                         *)
(* LicensedByStoredKey: a check-in never takes the key of a row without    *)
(* putting another in its place, so what two of them write, column by      *)
(* column, still has a key under every success (CheckInKnows); the request *)
(* that changes a key is alone, and has supported the rows of the modules  *)
(* that syncStates() has done with (ChangerKnows).                         *)
(*                                                                         *)
(* In DailyClaim the settings row is the lock: it names the last day that  *)
(* was claimed, and each day's claim is counted once (RowNamesTheClaim),   *)
(* as long as midnight does not overtake a caller that is claiming         *)
(* (~CrossesMidnight: a caller with yesterday's date sets the row back).   *)
(*                                                                         *)
(* Together the two go on promising what they promise alone: a claim and a *)
(* check-in are steps of one caller that touch different tables, so every  *)
(* step is one of DailyClaim, of Licensing, or of both, and a stutter of   *)
(* the other.                                                              *)
(*                                                                         *)
(* LicenceKept: with keys only ever removed, a removal that has come       *)
(* further than its assignments has touched the keys for good              *)
(* (OnlyRemovals), and until then what check-ins write keeps the success   *)
(* that was there or puts today's in its place (KeepsSuccess, Timely).     *)
(*                                                                         *)
(* ClaimedDayRenews: the caller that has won the day owes a check-in, then *)
(* makes it, module after module (Owes); what it writes leaves the row     *)
(* with today's answer, and no other request, whatever it has loaded       *)
(* before, writes an older one over it (Planned, Seen).                    *)
(***************************************************************************)
EXTENDS LicensedDays, TLAPS

Working == {"ask", "load", "plan", "write", "announce"}

(* A request that works on a row knows whose row it is, and one that       *)
(* assigns a key knows which key; what it is about to write over the last  *)
(* success is what it read, nothing, or its own.                           *)
Sound(r) ==
  /\ r.pc \in Working => r.mod \in Modules
  /\ r.pc = "assign" => r.key \in Keys
  /\ r.pc = "write" =>
       \/ r.after.success = LoadedRow(r).success
       \/ r.after.success = None
       \/ r.change = "valid" /\ r.after.success = r.at

(* A row that was read is still there.                                     *)
LoadedIn(r, rows) ==
  r.pc \in {"plan", "write"} /\ r.loaded # NoRow => rows[r.mod] # NoRow

Chosen == \A p \in Requests : Sound(req[p])
LoadedStays == \A p \in Requests : LoadedIn(req[p], entitlements)

IInv == TypeOK /\ Chosen /\ LoadedStays

-----------------------------------------------------------------------------
(* The operators the actions are built from return what TypeOK expects.    *)
-----------------------------------------------------------------------------

LEMMA CandidatesAreKeys ==
  ASSUME NEW cache \in Caches, NEW m \in Modules
  PROVE  CandidateKeyIds(cache, m) \subseteq Keys
BY DEF CandidateKeyIds, Holders, Caches

LEMMA StateIsState ==
  ASSUME NEW hasKey \in BOOLEAN, NEW success \in Nat \cup {None},
         NEW result, NEW time \in Nat
  PROVE  StateOf(hasKey, success, result, time) \in States
BY LicensingAssumption DEF StateOf, States

LEMMA EmptyRowIsRow == EmptyRow \in Rows
BY DEF EmptyRow, Rows

LEMMA ChangedIsRow ==
  ASSUME NEW row \in Rows, NEW keyIds, NEW local \in RequestStates
  PROVE  /\ Changed(row, keyIds, local) \in Rows
         /\ \/ Changed(row, keyIds, local).success = row.success
            \/ Changed(row, keyIds, local).success = None
            \/ /\ local.change = "valid"
               /\ Changed(row, keyIds, local).success = local.at
BY ZenonT(60) DEF Changed, Rows, RequestStates, Results

LEMMA UpdatedIsRow ==
  ASSUME NEW stored \in Rows, NEW loaded \in Rows, NEW after \in Rows
  PROVE  /\ Updated(stored, loaded, after) \in Rows
         /\ Updated(stored, loaded, after).success
              = IF after.success = loaded.success THEN stored.success
                ELSE after.success
BY DEF Updated, Rows

(* What the longer assignments to a request's variables make of it.        *)
LEMMA AttemptedIsState ==
  ASSUME NEW r \in RequestStates, NEW todo \in SUBSET Modules,
         NEW m \in Modules, NEW cache \in Caches, NEW keys \in SUBSET Keys,
         NEW pc \in {"load", "ask"}, NEW change \in {"none", "failed"},
         NEW result \in Results
  PROVE  [r EXCEPT !.todo = todo, !.mod = m, !.cache = cache, !.keys = keys,
                   !.pc = pc, !.change = change, !.result = result]
           \in RequestStates
BY DEF RequestStates

LEMMA AnsweredIsState ==
  ASSUME NEW r \in RequestStates, NEW answer \in Results,
         NEW keys \in SUBSET Keys, NEW change \in {"valid", "failed"},
         NEW found \in Keys \cup {None}, NEW at \in Nat
  PROVE  [r EXCEPT !.result = answer, !.keys = keys, !.change = change,
                   !.found = found, !.at = at] \in RequestStates
BY DEF RequestStates

LEMMA PlannedIsState ==
  ASSUME NEW r \in RequestStates, NEW pc \in {"next", "write"},
         NEW cache \in Caches, NEW after \in Rows
  PROVE  [r EXCEPT !.pc = pc, !.cache = cache, !.after = after]
           \in RequestStates
BY DEF RequestStates

LEMMA WrittenIsState ==
  ASSUME NEW r \in RequestStates, NEW pc \in {"announce", "next"},
         NEW unreachable \in BOOLEAN
  PROVE  [r EXCEPT !.pc = pc, !.unreachable = unreachable] \in RequestStates
BY DEF RequestStates

LEMMA InitIInv == Init => IInv
<1> SUFFICES ASSUME Init PROVE IInv
  OBVIOUS
<1> USE LicensingAssumption
<1>1. IdleRequest \in RequestStates
  BY EmptyRowIsRow
     DEF IdleRequest, RequestStates, AllKinds, Results
<1>2. TypeOK
  BY <1>1 DEF Init, TypeOK
<1>3. \A p \in Requests : req[p].pc = "idle"
  BY DEF Init, IdleRequest
<1>. QED
  BY <1>2, <1>3 DEF IInv, Chosen, LoadedStays, Sound, LoadedIn, Working

-----------------------------------------------------------------------------
(* The types are kept.                                                     *)
-----------------------------------------------------------------------------

LEMMA BeginKeepsTypes ==
  ASSUME TypeOK, NEW p \in Requests, NEW kind, NEW local \in RequestStates,
         Begin(p, kind, local)
  PROVE  /\ req' \in [Requests -> RequestStates]
         /\ beside' \subseteq AllKinds
         /\ requests' \in 0..MaxRequests
<1>1. req' \in [Requests -> RequestStates]
  BY DEF Begin, TypeOK
<1>2. beside' \subseteq AllKinds
  <2>1. kind \in AllKinds
    BY LicensingAssumption DEF Begin
  <2>2. UnderWay \subseteq AllKinds
    BY DEF UnderWay, TypeOK, RequestStates
  <2>. QED
    BY <2>1, <2>2 DEF Begin, TypeOK
<1>3. requests' \in 0..MaxRequests
  <2>1. MaxRequests \in Nat /\ MaxBeside \in 0..MaxRequests
        /\ MaxOnceDead \in 0..MaxRequests /\ requests \in 0..MaxRequests
    BY LicensingAssumption DEF TypeOK
  <2>2. /\ requests' = requests + 1
        /\ requests < MaxBeside \/ requests < MaxRequests \/ requests < MaxOnceDead
    BY DEF Begin
  <2>. QED
    BY <2>1, <2>2
<1>. QED
  BY <1>1, <1>2, <1>3

LEMMA KeyIdsAreKeys == TypeOK => KeyIdsByModule \in Caches
BY DEF TypeOK, KeyIdsByModule, Caches

LEMMA CachedIsCache ==
  ASSUME TypeOK, NEW p \in Requests
  PROVE  Cached(p) \in Caches
BY KeyIdsAreKeys DEF TypeOK, Cached, RequestStates

LEMMA RequestsBeginTyped ==
  ASSUME TypeOK, NEW p \in Requests, BeginRequest(p)
  PROVE  TypeOK'
<1>. DEFINE BegunTyped == /\ req \in [Requests -> RequestStates]
                          /\ beside \subseteq AllKinds
                          /\ requests \in 0..MaxRequests
<1>1. IdleRequest \in RequestStates
  BY EmptyRowIsRow DEF IdleRequest, RequestStates, AllKinds, Results
<1>2. \A kind \in AllKinds : \A k \in Keys : \A dels, adds \in SUBSET Modules :
        Assigning(kind, k, dels, adds) \in RequestStates
  BY <1>1, ZenonT(60) DEF Assigning, RequestStates
<1>3. \A k \in Keys : AssignedTo(k) \subseteq Modules
  BY DEF AssignedTo
<1>4. BegunTyped'
  <2>1. ASSUME NEW loadable \in SUBSET Modules, CheckInAll(p, loadable)
        PROVE  BegunTyped'
    <3>1. [IdleRequest EXCEPT !.pc = "next", !.kind = "checkInAll",
                              !.todo = loadable] \in RequestStates
      BY <1>1 DEF RequestStates, AllKinds
    <3>. QED
      BY <2>1, <3>1, BeginKeepsTypes DEF CheckInAll
  <2>2. ASSUME NEW m \in Modules, CheckIn(p, m)
        PROVE  BegunTyped'
    <3>1. [IdleRequest EXCEPT !.pc = "next", !.todo = {m}] \in RequestStates
      BY <1>1 DEF RequestStates
    <3>. QED
      BY <2>2, <3>1, BeginKeepsTypes DEF CheckIn
  <2>3. ASSUME NEW k \in Keys, NEW wanted \in SUBSET Modules,
               AddKey(p, k, wanted) \/ UpdateKey(p, k, wanted)
        PROVE  BegunTyped'
    <3>1. CASE AddKey(p, k, wanted)
      BY <3>1, <1>2, BeginKeepsTypes DEF AddKey, AllKinds
    <3>2. CASE UpdateKey(p, k, wanted)
      BY <3>2, <1>2, <1>3, BeginKeepsTypes DEF UpdateKey, AllKinds
    <3>. QED
      BY <2>3, <3>1, <3>2
  <2>4. ASSUME NEW k \in Keys, RemoveKey(p, k)
        PROVE  BegunTyped'
    BY <2>4, <1>2, <1>3, BeginKeepsTypes DEF RemoveKey, AllKinds
  <2>. QED
    BY <2>1, <2>2, <2>3, <2>4 DEF BeginRequest, OtherRequest
<1>5. /\ UNCHANGED <<now, assigned, entitlements, heard, aborts>>
      /\ live' \subseteq used'
      /\ used' \subseteq Keys
  <2>1. CASE \E k \in Keys, wanted \in SUBSET Modules : AddKey(p, k, wanted)
    BY <2>1 DEF TypeOK, AddKey
  <2>2. CASE \E k \in Keys, wanted \in SUBSET Modules : UpdateKey(p, k, wanted)
    BY <2>2 DEF TypeOK, UpdateKey, tables
  <2>3. CASE \/ \E loadable \in SUBSET Modules : CheckInAll(p, loadable)
             \/ (\E m \in Modules : CheckIn(p, m))
             \/ (\E k \in Keys : RemoveKey(p, k))
    BY <2>3 DEF TypeOK, CheckInAll, CheckIn, RemoveKey, tables
  <2>. QED
    BY <2>1, <2>2, <2>3 DEF BeginRequest, OtherRequest
<1>. QED
  BY <1>4, <1>5 DEF TypeOK

LEMMA AssignmentsTyped ==
  ASSUME TypeOK, Chosen, NEW p \in Requests, AssignKey(p)
  PROVE  TypeOK'
<1>1. req[p] \in RequestStates
  BY DEF TypeOK
<1>2. ASSUME NEW m \in Modules, Unassign(p, m)
      PROVE  TypeOK'
  <2>1. [req[p] EXCEPT !.dels = req[p].dels \ {m}] \in RequestStates
    BY <1>1 DEF RequestStates
  <2>. QED
    BY <1>2, <2>1 DEF TypeOK, Unassign, bounds
<1>3. ASSUME NEW m \in Modules, Assign(p, m)
      PROVE  TypeOK'
  <2>1. [req[p] EXCEPT !.adds = req[p].adds \ {m}] \in RequestStates
    BY <1>1 DEF RequestStates
  <2>2. req[p].key \in Keys
    BY <1>3 DEF Chosen, Sound, Assign
  <2>. QED
    BY <1>3, <2>1, <2>2 DEF TypeOK, Assign, bounds
<1>4. CASE EndAssign(p)
  <2>1. Synced(req[p]) \in RequestStates
    BY <1>1 DEF Synced, RequestStates
  <2>. QED
    BY <1>4, <2>1 DEF TypeOK, EndAssign, bounds
<1>. QED
  BY <1>2, <1>3, <1>4 DEF AssignKey

LEMMA CheckInsTyped ==
  ASSUME TypeOK, NEW p \in Requests, AttemptModule(p) \/ Loop(p)
  PROVE  TypeOK'
<1>1. req[p] \in RequestStates /\ Cached(p) \in Caches /\ now \in Nat
  BY CachedIsCache, LicensingAssumption DEF TypeOK
<1>2. req'[p] \in RequestStates /\ req' = [req EXCEPT ![p] = req'[p]]
  <2>1. ASSUME NEW m \in Modules, Attempt(p, m)
        PROVE  req'[p] \in RequestStates /\ req' = [req EXCEPT ![p] = req'[p]]
    <3>1. CandidateKeyIds(Cached(p), m) \subseteq Keys
      BY <1>1, CandidatesAreKeys
    <3>. DEFINE candidates == CandidateKeyIds(Cached(p), m)
                asked == IF req[p].unreachable THEN {} ELSE candidates
                pc == IF asked = {} THEN "load" ELSE "ask"
                change == IF candidates = {} THEN "none" ELSE "failed"
                result == IF req[p].unreachable THEN "unreachable" ELSE "rejected"
                new == [req[p] EXCEPT
                   !.todo = req[p].todo \ {m}, !.mod = m, !.cache = Cached(p),
                   !.keys = asked, !.pc = pc, !.change = change,
                   !.result = result]
    <3>2. req' = [req EXCEPT ![p] = new]
      BY <2>1 DEF Attempt
    <3>3. asked \in SUBSET Keys
      BY <3>1
    <3>4. new \in RequestStates
      <4>1. req[p].todo \ {m} \in SUBSET Modules
        BY <1>1 DEF RequestStates
      <4>2. /\ pc \in {"load", "ask"}
            /\ change \in {"none", "failed"}
            /\ result \in Results
        BY DEF Results
      <4>. HIDE DEF asked, candidates, pc, change, result
      <4>. QED
        BY <1>1, <3>3, <4>1, <4>2, AttemptedIsState, ZenonT(60)
    <3>. HIDE DEF new
    <3>. QED
      BY <3>2, <3>4 DEF TypeOK
  <2>2. ASSUME NEW k \in Keys, SkipKey(p, k)
        PROVE  req'[p] \in RequestStates /\ req' = [req EXCEPT ![p] = req'[p]]
    BY <1>1, <2>2 DEF TypeOK, SkipKey, RequestStates
  <2>3. ASSUME NEW k \in Keys, NEW answer \in Results, Ask(p, k, answer)
        PROVE  req'[p] \in RequestStates /\ req' = [req EXCEPT ![p] = req'[p]]
    <3>. DEFINE new == [req[p] EXCEPT
                          !.result = answer,
                          !.keys = IF answer = "rejected"
                                   THEN req[p].keys \ {k} ELSE {},
                          !.change = IF answer = "valid" THEN "valid" ELSE "failed",
                          !.found = IF answer = "valid" THEN k ELSE None,
                          !.at = now]
    <3>1. req' = [req EXCEPT ![p] = new]
      BY <2>3 DEF Ask
    <3>2. new \in RequestStates
      <4>1. req[p].keys \ {k} \in SUBSET Keys
        BY <1>1 DEF RequestStates
      <4>. QED
        BY <1>1, <4>1, AnsweredIsState
    <3>. HIDE DEF new
    <3>. QED
      BY <3>1, <3>2 DEF TypeOK
  <2>4. CASE EndAsk(p)
    BY <1>1, <2>4 DEF TypeOK, EndAsk, RequestStates
  <2>5. ASSUME NEW m \in Modules, SyncNext(p, m)
        PROVE  req'[p] \in RequestStates /\ req' = [req EXCEPT ![p] = req'[p]]
    BY <1>1, <2>5 DEF TypeOK, SyncNext, RequestStates
  <2>6. CASE EndLoop(p)
    <3>1. IdleRequest \in RequestStates
      BY EmptyRowIsRow DEF IdleRequest, RequestStates, AllKinds, Results
    <3>2. Synced(req[p]) \in RequestStates
      BY <1>1 DEF Synced, RequestStates
    <3>3. [req[p] EXCEPT !.phase = "attempt", !.cache = Cached(p),
                         !.kind = "checkIn",
                         !.todo = TriedWith(Cached(p), req[p].key)]
            \in RequestStates
      BY <1>1 DEF RequestStates, TriedWith, AllKinds
    <3>4. req'[p] \in {IdleRequest, Synced(req[p]),
                       [req[p] EXCEPT !.phase = "attempt", !.cache = Cached(p),
                          !.kind = "checkIn",
                          !.todo = TriedWith(Cached(p), req[p].key)]}
      BY <2>6 DEF EndLoop, TypeOK
    <3>5. req' = [req EXCEPT ![p] = req'[p]]
      BY <2>6 DEF EndLoop, TypeOK
    <3>. QED
      BY <3>1, <3>2, <3>3, <3>4, <3>5
  <2>. QED
    BY <2>1, <2>2, <2>3, <2>4, <2>5, <2>6 DEF AttemptModule, Loop
<1>3. req' \in [Requests -> RequestStates]
  BY <1>2, SMTT(40) DEF TypeOK
<1>4. UNCHANGED <<now, tables, heard, bounds>>
  BY DEF AttemptModule, Loop, Attempt, SkipKey, Ask, EndAsk, SyncNext, EndLoop
<1>. QED
  BY <1>3, <1>4 DEF TypeOK, tables, bounds

LEMMA SavesTyped ==
  ASSUME TypeOK, Chosen, NEW p \in Requests, Save(p)
  PROVE  TypeOK'
<1>1. req[p] \in RequestStates /\ Cached(p) \in Caches /\ now \in Nat
  BY CachedIsCache, LicensingAssumption DEF TypeOK
<1>2. req[p].mod \in Modules /\ req[p].after \in Rows
  BY <1>1 DEF Chosen, Sound, Working, Save, Load, Plan, Write, WriteFails, Announce,
              RequestStates
<1>3. req'[p] \in RequestStates /\ req' = [req EXCEPT ![p] = req'[p]]
  <2>1. CASE Load(p)
    BY <1>1, <1>2, <2>1 DEF TypeOK, Load, RequestStates
  <2>2. CASE Plan(p)
    <3>. DEFINE keyIds == CandidateKeyIds(Cached(p), req[p].mod)
                changed == Changed(LoadedRow(req[p]), keyIds, req[p])
                state == StateOf(keyIds # {}, changed.success, changed.result, now)
    <3>1. LoadedRow(req[p]) \in Rows
      BY <1>1, EmptyRowIsRow DEF LoadedRow, RequestStates
    <3>2. changed \in Rows
      BY <1>1, <3>1, ChangedIsRow
    <3>3. state \in States
      <4>1. changed.success \in Nat \cup {None}
        BY <3>2 DEF Rows
      <4>. QED
        BY <1>1, <4>1, StateIsState
    <3>. DEFINE after == [changed EXCEPT !.state = state]
                new(pc) == [req[p] EXCEPT !.pc = pc, !.cache = Cached(p),
                                          !.after = after]
    <3>4. after \in Rows
      BY <3>2, <3>3 DEF Rows
    <3>5. \E pc \in {"next", "write"} : req' = [req EXCEPT ![p] = new(pc)]
      BY <2>2 DEF Plan
    <3>6. \A pc \in {"next", "write"} : new(pc) \in RequestStates
      <4>. TAKE pc \in {"next", "write"}
      <4>. HIDE DEF changed, state, after
      <4>. QED
        BY <1>1, <3>4, PlannedIsState
    <3>. HIDE DEF new
    <3>. QED
      BY <3>5, <3>6 DEF TypeOK
  <2>3. CASE Write(p)
    <3>. DEFINE pc == IF req[p].after.state # LoadedRow(req[p]).state
                      THEN "announce" ELSE "next"
                unreachable == \/ req[p].unreachable
                               \/ /\ req[p].change # "none"
                                  /\ req[p].result = "unreachable"
                new == [req[p] EXCEPT !.pc = pc, !.unreachable = unreachable]
    <3>1. req' = [req EXCEPT ![p] = new]
      BY <2>3 DEF Write
    <3>2. unreachable \in BOOLEAN
      BY <1>1 DEF RequestStates
    <3>3. new \in RequestStates
      <4>. HIDE DEF pc, unreachable
      <4>1. pc \in {"announce", "next"}
        BY DEF pc
      <4>. QED
        BY <1>1, <3>2, <4>1, WrittenIsState
    <3>. HIDE DEF new
    <3>. QED
      BY <3>1, <3>3 DEF TypeOK
  <2>4. CASE WriteFails(p)
    BY <1>1, <2>4 DEF TypeOK, WriteFails, RequestStates
  <2>5. CASE Announce(p)
    BY <1>1, <2>5 DEF TypeOK, Announce, RequestStates
  <2>. QED
    BY <2>1, <2>2, <2>3, <2>4, <2>5 DEF Save
<1>4. req' \in [Requests -> RequestStates]
  BY <1>3 DEF TypeOK
<1>5. entitlements' \in [Modules -> Rows \cup {NoRow}]
  <2>1. CASE Write(p)
    <3>. DEFINE m == req[p].mod
                stored == entitlements[m]
                new == IF stored = NoRow THEN req[p].after
                       ELSE Updated(stored, req[p].loaded, req[p].after)
    <3>1. entitlements' = [entitlements EXCEPT ![m] = new]
      BY <2>1 DEF Write
    <3>2. stored # NoRow => req[p].loaded \in Rows /\ stored \in Rows
      BY <1>1, <1>2, <2>1 DEF Write, Conflict, RequestStates, TypeOK
    <3>3. new \in Rows
      BY <1>2, <3>2, UpdatedIsRow
    <3>. HIDE DEF new
    <3>. QED
      BY <1>2, <3>1, <3>3 DEF TypeOK
  <2>. QED
    BY <2>1 DEF TypeOK, Save, Load, Plan, WriteFails, Announce, tables
<1>6. heard' \in [Modules -> States \cup {"null"}]
  BY <1>2 DEF TypeOK, Save, Load, Plan, Write, WriteFails, Announce, Rows
<1>. QED
  BY <1>4, <1>5, <1>6
     DEF TypeOK, Save, Load, Plan, Write, WriteFails, Announce, tables, bounds

-----------------------------------------------------------------------------
(* What each request knows, and keeps knowing.                             *)
-----------------------------------------------------------------------------

(* Only Write changes license_entitlements.                                *)
LEMMA SavesWrite ==
  ASSUME [Next]_vars
  PROVE  entitlements' = entitlements \/ \E p \in Requests : Write(p)
<1>1. ASSUME NEW p \in Requests,
             \/ BeginRequest(p) \/ AssignKey(p) \/ AttemptModule(p)
             \/ Loop(p) \/ Abort(p)
      PROVE  entitlements' = entitlements
  <2>1. CASE BeginRequest(p)
    BY <2>1 DEF BeginRequest, OtherRequest, CheckInAll, CheckIn, AddKey, UpdateKey,
                RemoveKey, tables
  <2>2. CASE AssignKey(p) \/ Abort(p)
    BY <2>2, SMTT(40) DEF AssignKey, Unassign, Assign, EndAssign, Abort, tables
  <2>3. CASE AttemptModule(p) \/ Loop(p)
    BY <2>3 DEF AttemptModule, Attempt, SkipKey, Ask, EndAsk, Loop, SyncNext,
                EndLoop, tables
  <2>. QED
    BY <1>1, <2>1, <2>2, <2>3
<1>2. Tick \/ UNCHANGED vars => entitlements' = entitlements
  BY DEF Tick, vars, tables
<1>3. ASSUME NEW p \in Requests, Save(p)
      PROVE  entitlements' = entitlements \/ Write(p)
  BY <1>3 DEF Save, Load, Plan, WriteFails, Announce, tables
<1>. QED
  BY <1>1, <1>2, <1>3 DEF Next

(* Rows of license_entitlements are never deleted.                         *)
LEMMA RowsStay ==
  ASSUME IInv, [Next]_vars
  PROVE  \A m \in Modules : entitlements[m] # NoRow => entitlements'[m] # NoRow
<1>1. entitlements' = entitlements \/ \E p \in Requests : Write(p)
  BY SavesWrite
<1>. SUFFICES ASSUME NEW p \in Requests, Write(p)
              PROVE  \A m \in Modules :
                       entitlements[m] # NoRow => entitlements'[m] # NoRow
  BY <1>1
<1>2. req[p].after \in Rows /\ req[p].mod \in Modules
      /\ req[p].loaded \in Rows \cup {NoRow}
  BY DEF IInv, TypeOK, RequestStates, Chosen, Sound, Working, Write
<1>. DEFINE stored == entitlements[req[p].mod]
            new == IF stored = NoRow THEN req[p].after
                   ELSE Updated(stored, req[p].loaded, req[p].after)
<1>3. entitlements' = [entitlements EXCEPT ![req[p].mod] = new]
  BY DEF Write
<1>4. new \in Rows
  <2>1. stored # NoRow => stored \in Rows /\ req[p].loaded \in Rows
    BY <1>2 DEF Write, Conflict, IInv, TypeOK
  <2>. QED
    BY <1>2, <2>1, UpdatedIsRow
<1>. HIDE DEF new
<1>. QED
  BY <1>2, <1>3, <1>4, LicensingAssumption DEF IInv, TypeOK

(* When one request moves, and what it knows afterwards is sound, all are. *)
LEMMA OneMoves ==
  ASSUME IInv, [Next]_vars, NEW p \in Requests, NEW new,
         req' = [req EXCEPT ![p] = new],
         Sound(new), LoadedIn(new, entitlements')
  PROVE  Chosen' /\ LoadedStays'
<1>1. \A q \in Requests : req'[q] = IF q = p THEN new ELSE req[q]
  BY DEF IInv, TypeOK
<1>2. \A q \in Requests :
        Sound(req[q]) /\ LoadedIn(req[q], entitlements')
  <2>. TAKE q \in Requests
  <2>1. req[q].pc \in {"plan", "write"} => req[q].mod \in Modules
    BY DEF IInv, Chosen, Sound, Working
  <2>. QED
    BY <2>1, RowsStay DEF IInv, Chosen, LoadedStays, LoadedIn
<1>. QED
  BY <1>1, <1>2 DEF Chosen, LoadedStays

(* A request at none of the points above has nothing to know.              *)
LEMMA OneMovesAway ==
  ASSUME IInv, [Next]_vars, NEW p \in Requests, NEW new,
         req' = [req EXCEPT ![p] = new], new.pc \in {"idle", "next"}
  PROVE  Chosen' /\ LoadedStays'
<1>1. Sound(new) /\ LoadedIn(new, entitlements')
  BY DEF Sound, LoadedIn, Working
<1>. QED
  BY <1>1, OneMoves

LEMMA BeginningIsSound ==
  ASSUME IInv, [Next]_vars, NEW p \in Requests, BeginRequest(p) \/ Abort(p)
  PROVE  Chosen' /\ LoadedStays'
<1>1. \A kind : \A k \in Keys : \A dels, adds :
        /\ Sound(Assigning(kind, k, dels, adds))
        /\ LoadedIn(Assigning(kind, k, dels, adds), entitlements')
  BY DEF Assigning, IdleRequest, Sound, LoadedIn, Working
<1>2. ASSUME NEW loadable \in SUBSET Modules, CheckInAll(p, loadable)
      PROVE  Chosen' /\ LoadedStays'
  <2>. DEFINE new == [IdleRequest EXCEPT !.pc = "next", !.kind = "checkInAll",
                                         !.todo = loadable]
  <2>1. req' = [req EXCEPT ![p] = new] /\ new.pc = "next"
    BY <1>2 DEF CheckInAll, Begin, IdleRequest
  <2>. HIDE DEF new
  <2>. QED
    BY <2>1, OneMovesAway
<1>3. ASSUME NEW m \in Modules, CheckIn(p, m)
      PROVE  Chosen' /\ LoadedStays'
  <2>. DEFINE new == [IdleRequest EXCEPT !.pc = "next", !.todo = {m}]
  <2>1. req' = [req EXCEPT ![p] = new] /\ new.pc = "next"
    BY <1>3 DEF CheckIn, Begin, IdleRequest
  <2>. HIDE DEF new
  <2>. QED
    BY <2>1, OneMovesAway
<1>4. CASE Abort(p)
  <2>1. IdleRequest.pc = "idle"
    BY DEF IdleRequest
  <2>. QED
    BY <1>4, <2>1, OneMovesAway DEF Abort
<1>5. ASSUME NEW k \in Keys, NEW wanted \in SUBSET Modules,
             AddKey(p, k, wanted) \/ UpdateKey(p, k, wanted)
      PROVE  Chosen' /\ LoadedStays'
  BY <1>5, <1>1, OneMoves DEF AddKey, UpdateKey, Begin
<1>6. ASSUME NEW k \in Keys, RemoveKey(p, k)
      PROVE  Chosen' /\ LoadedStays'
  BY <1>6, <1>1, OneMoves DEF RemoveKey, Begin
<1>. QED
  BY <1>2, <1>3, <1>4, <1>5, <1>6 DEF BeginRequest, OtherRequest

LEMMA AssigningIsSound ==
  ASSUME IInv, [Next]_vars, NEW p \in Requests, AssignKey(p)
  PROVE  Chosen' /\ LoadedStays'
<1>1. req[p] \in RequestStates /\ Sound(req[p])
  BY DEF IInv, TypeOK, Chosen
<1>2. ASSUME NEW m \in Modules, Unassign(p, m) \/ Assign(p, m)
      PROVE  Chosen' /\ LoadedStays'
  <2>. DEFINE d == [req[p] EXCEPT !.dels = req[p].dels \ {m}]
              a == [req[p] EXCEPT !.adds = req[p].adds \ {m}]
  <2>1. req[p].pc = "assign" /\ req[p].key \in Keys
    BY <1>1, <1>2 DEF Unassign, Assign, Sound
  <2>2. /\ d.pc = "assign" /\ d.key \in Keys
        /\ a.pc = "assign" /\ a.key \in Keys
    BY <1>1, <2>1 DEF RequestStates
  <2>3. req' = [req EXCEPT ![p] = d] \/ req' = [req EXCEPT ![p] = a]
    BY <1>2 DEF Unassign, Assign
  <2>. HIDE DEF d, a
  <2>4. /\ Sound(d) /\ LoadedIn(d, entitlements')
        /\ Sound(a) /\ LoadedIn(a, entitlements')
    BY <2>2 DEF Sound, LoadedIn, Working
  <2>. QED
    BY <2>3, <2>4, OneMoves
<1>3. CASE EndAssign(p)
  <2>1. Synced(req[p]).pc = "next"
    BY <1>1 DEF Synced, RequestStates
  <2>2. req' = [req EXCEPT ![p] = Synced(req[p])]
    BY <1>3 DEF EndAssign
  <2>. QED
    BY <2>1, <2>2, OneMovesAway
<1>. QED
  BY <1>2, <1>3 DEF AssignKey

LEMMA AttemptingIsSound ==
  ASSUME IInv, [Next]_vars, NEW p \in Requests, AttemptModule(p) \/ Loop(p)
  PROVE  Chosen' /\ LoadedStays'
<1>1. req[p] \in RequestStates /\ Sound(req[p])
  BY DEF IInv, TypeOK, Chosen
<1>2. \A r : r.pc \in {"ask", "load"} /\ r.mod \in Modules =>
        Sound(r) /\ LoadedIn(r, entitlements')
  BY DEF Sound, LoadedIn, Working
<1>3. ASSUME NEW m \in Modules, Attempt(p, m) \/ SyncNext(p, m)
      PROVE  /\ req' = [req EXCEPT ![p] = req'[p]]
             /\ req'[p].pc \in {"ask", "load"} /\ req'[p].mod \in Modules
  <2>1. CASE Attempt(p, m)
    BY <1>1, <2>1 DEF Attempt, RequestStates, IInv, TypeOK
  <2>2. CASE SyncNext(p, m)
    BY <1>1, <2>2 DEF SyncNext, RequestStates, IInv, TypeOK
  <2>. QED
    BY <1>3, <2>1, <2>2
<1>4. ASSUME NEW k \in Keys, NEW answer \in Results,
             SkipKey(p, k) \/ Ask(p, k, answer)
      PROVE  /\ req' = [req EXCEPT ![p] = req'[p]]
             /\ req'[p].pc \in {"ask", "load"} /\ req'[p].mod \in Modules
  <2>1. req[p].mod \in Modules /\ req[p].pc = "ask"
    BY <1>1, <1>4 DEF SkipKey, Ask, Sound, Working
  <2>2. CASE SkipKey(p, k)
    BY <1>1, <2>1, <2>2 DEF SkipKey, RequestStates, IInv, TypeOK
  <2>3. CASE Ask(p, k, answer)
    BY <1>1, <2>1, <2>3 DEF Ask, RequestStates, IInv, TypeOK
  <2>. QED
    BY <1>4, <2>2, <2>3
<1>5. CASE EndAsk(p)
  <2>1. req[p].mod \in Modules
    BY <1>1, <1>5 DEF EndAsk, Sound, Working
  <2>2. /\ req' = [req EXCEPT ![p] = req'[p]]
        /\ req'[p].pc = "load" /\ req'[p].mod \in Modules
    BY <1>1, <1>5, <2>1 DEF EndAsk, RequestStates, IInv, TypeOK
  <2>. QED
    BY <1>2, <2>2, OneMoves
<1>6. CASE EndLoop(p)
  <2>1. /\ IdleRequest.pc = "idle"
        /\ Synced(req[p]).pc = "next"
        /\ [req[p] EXCEPT !.phase = "attempt", !.cache = Cached(p),
               !.kind = "checkIn",
               !.todo = TriedWith(Cached(p), req[p].key)].pc = "next"
    BY <1>1, <1>6 DEF EndLoop, IdleRequest, Synced, RequestStates
  <2>2. \E new \in {IdleRequest, Synced(req[p]),
                    [req[p] EXCEPT !.phase = "attempt", !.cache = Cached(p),
                       !.kind = "checkIn",
                       !.todo = TriedWith(Cached(p), req[p].key)]} :
          req' = [req EXCEPT ![p] = new]
    BY <1>6 DEF EndLoop
  <2>. QED
    BY <2>1, <2>2, OneMovesAway
<1>7. ASSUME NEW k \in Keys, SkipKey(p, k)
      PROVE  Chosen' /\ LoadedStays'
  BY <1>2, <1>4, <1>7, OneMoves DEF Results
<1>. QED
  BY <1>2, <1>3, <1>4, <1>5, <1>6, <1>7, OneMoves DEF AttemptModule, Loop

LEMMA SavingIsSound ==
  ASSUME IInv, [Next]_vars, NEW p \in Requests, Save(p)
  PROVE  Chosen' /\ LoadedStays'
<1>1. req[p] \in RequestStates /\ Sound(req[p]) /\ LoadedIn(req[p], entitlements)
  BY DEF IInv, TypeOK, Chosen, LoadedStays
<1>2. req[p].mod \in Modules
  BY <1>1 DEF Sound, Working, Save, Load, Plan, Write, WriteFails, Announce
<1>3. CASE Load(p)
  <2>. DEFINE new == [req[p] EXCEPT !.pc = "plan",
                                    !.loaded = entitlements[req[p].mod]]
  <2>1. req' = [req EXCEPT ![p] = new] /\ UNCHANGED entitlements
    BY <1>3 DEF Load, tables, IInv, TypeOK
  <2>2. /\ new.pc = "plan" /\ new.mod = req[p].mod
        /\ new.loaded = entitlements[req[p].mod]
    BY <1>1 DEF RequestStates
  <2>. HIDE DEF new
  <2>3. Sound(new) /\ LoadedIn(new, entitlements')
    BY <1>2, <2>1, <2>2 DEF Sound, LoadedIn, Working
  <2>. QED
    BY <2>1, <2>3, OneMoves
<1>4. CASE Plan(p)
  <2>. DEFINE row == LoadedRow(req[p])
              keyIds == CandidateKeyIds(Cached(p), req[p].mod)
              changed == Changed(row, keyIds, req[p])
              state == StateOf(keyIds # {}, changed.success, changed.result, now)
              after == [changed EXCEPT !.state = state]
              new(pc) == [req[p] EXCEPT !.pc = pc, !.cache = Cached(p),
                                        !.after = after]
  <2>1. \E pc \in {"next", "write"} : req' = [req EXCEPT ![p] = new(pc)]
    BY <1>4 DEF Plan
  <2>2. UNCHANGED entitlements /\ req[p].pc = "plan"
    BY <1>4 DEF Plan, tables
  <2>3. row \in Rows
    BY <1>1, EmptyRowIsRow DEF LoadedRow, RequestStates
  <2>4. /\ changed \in Rows
        /\ \/ changed.success = row.success
           \/ changed.success = None
           \/ req[p].change = "valid" /\ changed.success = req[p].at
    BY <1>1, <2>3, ChangedIsRow
  <2>5. after.success = changed.success
    BY <2>4 DEF Rows
  <2>. HIDE DEF after, changed
  <2>6. PICK pc \in {"next", "write"} : req' = [req EXCEPT ![p] = new(pc)]
    BY <2>1
  <2>7. /\ new(pc).pc = pc /\ new(pc).mod = req[p].mod
        /\ new(pc).loaded = req[p].loaded /\ new(pc).after = after
        /\ new(pc).change = req[p].change /\ new(pc).at = req[p].at
    BY <1>1 DEF RequestStates
  <2>. HIDE DEF new
  <2>8. LoadedRow(new(pc)) = row
    BY <2>7 DEF LoadedRow
  <2>9. Sound(new(pc))
    BY <1>2, <2>4, <2>5, <2>7, <2>8 DEF Sound, Working
  <2>10. LoadedIn(new(pc), entitlements')
    BY <1>1, <2>2, <2>7 DEF LoadedIn
  <2>. QED
    BY <2>6, <2>9, <2>10, OneMoves
<1>5. CASE Write(p)
  <2>. DEFINE pc == IF req[p].after.state # LoadedRow(req[p]).state
                    THEN "announce" ELSE "next"
              new == [req[p] EXCEPT !.pc = pc,
                        !.unreachable = \/ req[p].unreachable
                                        \/ /\ req[p].change # "none"
                                           /\ req[p].result = "unreachable"]
  <2>1. req' = [req EXCEPT ![p] = new]
    BY <1>5 DEF Write
  <2>2. new.pc \in {"announce", "next"} /\ new.mod = req[p].mod
    BY <1>1 DEF RequestStates
  <2>. HIDE DEF new
  <2>3. Sound(new) /\ LoadedIn(new, entitlements')
    BY <1>2, <2>2 DEF Sound, LoadedIn, Working
  <2>. QED
    BY <2>1, <2>3, OneMoves
<1>6. CASE WriteFails(p) \/ Announce(p)
  <2>. DEFINE new == [req[p] EXCEPT !.pc = "next"]
  <2>1. req' = [req EXCEPT ![p] = new]
    BY <1>6 DEF WriteFails, Announce
  <2>2. new.pc = "next"
    BY <1>1 DEF RequestStates
  <2>. HIDE DEF new
  <2>. QED
    BY <2>1, <2>2, OneMovesAway
<1>. QED
  BY <1>3, <1>4, <1>5, <1>6 DEF Save

-----------------------------------------------------------------------------
(* The invariant, and what it shows.                                       *)
-----------------------------------------------------------------------------

LEMMA NextIInv == IInv /\ [Next]_vars => IInv'
<1>. SUFFICES ASSUME IInv, [Next]_vars PROVE IInv'
  OBVIOUS
<1>1. TypeOK /\ Chosen /\ LoadedStays
  BY DEF IInv
<1>2. ASSUME NEW p \in Requests,
             \/ BeginRequest(p) \/ AssignKey(p) \/ AttemptModule(p)
             \/ Save(p) \/ Loop(p) \/ Abort(p)
      PROVE  IInv'
  <2>1. CASE BeginRequest(p)
    BY <1>1, <2>1, RequestsBeginTyped, BeginningIsSound DEF IInv
  <2>2. CASE AssignKey(p)
    BY <1>1, <2>2, AssignmentsTyped, AssigningIsSound DEF IInv
  <2>3. CASE AttemptModule(p) \/ Loop(p)
    BY <1>1, <2>3, CheckInsTyped, AttemptingIsSound DEF IInv
  <2>4. CASE Save(p)
    BY <1>1, <2>4, SavesTyped, SavingIsSound DEF IInv
  <2>5. CASE Abort(p)
    <3>1. IdleRequest \in RequestStates
      BY EmptyRowIsRow DEF IdleRequest, RequestStates, AllKinds, Results
    <3>2. TypeOK'
      BY <1>1, <2>5, <3>1, LicensingAssumption DEF TypeOK, Abort, tables
    <3>. QED
      BY <2>5, <3>2, BeginningIsSound DEF IInv
  <2>. QED
    BY <1>2, <2>1, <2>2, <2>3, <2>4, <2>5
<1>3. CASE Tick
  BY <1>1, <1>3, LicensingAssumption
     DEF Tick, IInv, TypeOK, Chosen, LoadedStays, tables, bounds
<1>4. CASE UNCHANGED vars
  BY <1>1, <1>4 DEF vars, IInv, TypeOK, Chosen, LoadedStays
<1>. QED
  BY <1>2, <1>3, <1>4 DEF Next

LEMMA InvariantHolds == Spec => []IInv
BY InitIInv, NextIInv, PTL DEF Spec

(* Every value the tables and the requests take has its type: a state is   *)
(* one LicenseManager names, a success has a day, a key id is one that     *)
(* license_keys gave out.                                                  *)
THEOREM TypeCorrect == Spec => []TypeOK
<1>1. IInv => TypeOK
  BY DEF IInv
<1>. QED
  BY <1>1, InvariantHolds, PTL

(* What a request writes over the last success.                            *)
LEMMA WriteSetsSuccess ==
  ASSUME IInv, NEW p \in Requests, Write(p), NEW k \in Modules, k = req[p].mod
  PROVE  /\ req[p].after.success = LoadedRow(req[p]).success =>
              RowOf(k).success' = RowOf(k).success
         /\ req[p].after.success # LoadedRow(req[p]).success =>
              RowOf(k).success' = req[p].after.success
         /\ \A m \in Modules : m # k => RowOf(m).success' = RowOf(m).success
<1>. DEFINE r == req[p]
            stored == entitlements[r.mod]
            new == IF stored = NoRow THEN r.after
                   ELSE Updated(stored, r.loaded, r.after)
<1>1. /\ r \in RequestStates /\ r.mod \in Modules /\ r.after \in Rows
      /\ r.pc = "write" /\ LoadedIn(r, entitlements)
  BY DEF Write, IInv, TypeOK, Chosen, LoadedStays, Sound, Working, RequestStates
<1>2. entitlements' = [entitlements EXCEPT ![r.mod] = new]
  BY DEF Write
<1>3. r.loaded = NoRow <=> stored = NoRow
  BY <1>1 DEF Write, Conflict, LoadedIn
<1>4. new \in Rows /\ (r.after.success = LoadedRow(r).success
                         => new.success = RowOf(r.mod).success)
                  /\ (r.after.success # LoadedRow(r).success
                         => new.success = r.after.success)
  <2>1. CASE stored = NoRow
    BY <1>1, <1>3, <2>1 DEF RowOf, LoadedRow
  <2>2. CASE stored # NoRow
    <3>1. stored \in Rows /\ r.loaded \in Rows
      BY <1>1, <1>3, <2>2 DEF IInv, TypeOK, RequestStates
    <3>. QED
      BY <1>1, <1>3, <2>2, <3>1, UpdatedIsRow DEF RowOf, LoadedRow
  <2>. QED
    BY <2>1, <2>2
<1>. HIDE DEF new
<1>5. /\ entitlements'[k] = new
      /\ \A m \in Modules : m # k => entitlements'[m] = entitlements[m]
  BY <1>1, <1>2 DEF IInv, TypeOK
<1>6. RowOf(k).success' = new.success
  BY <1>4, <1>5, LicensingAssumption DEF RowOf
<1>7. \A m \in Modules : m # k => RowOf(m).success' = RowOf(m).success
  BY <1>5 DEF RowOf
<1>. QED
  BY <1>4, <1>6, <1>7

(* However many requests save the same row, last_successful_checkin_at     *)
(* changes only by a success of the request that writes it, or is cleared  *)
(* (save(), with the dynamic updates of LicenseEntitlements).              *)
THEOREM SuccessMovesOnlyBySuccess == Spec => OnlySuccessMovesSuccess
<1>. DEFINE Moved == \A m \in Modules :
              RowOf(m).success' # RowOf(m).success =>
                \/ RowOf(m).success' = None
                \/ \E p \in Requests :
                     /\ req[p].pc = "write"
                     /\ req[p].mod = m
                     /\ req[p].change = "valid"
                     /\ RowOf(m).success' = req[p].at
<1>1. IInv /\ [Next]_vars => [Moved]_vars
  <2>. SUFFICES ASSUME IInv, Next PROVE Moved
    OBVIOUS
  <2>1. entitlements' = entitlements \/ \E p \in Requests : Write(p)
    BY SavesWrite
  <2>2. CASE entitlements' = entitlements
    BY <2>2 DEF RowOf
  <2>3. ASSUME NEW p \in Requests, Write(p)
        PROVE  Moved
    <3>1. req[p].pc = "write" /\ req[p].mod \in Modules /\ Sound(req[p])
      BY <2>3 DEF Write, IInv, Chosen, Sound, Working
    <3>2. PICK k \in Modules : k = req[p].mod
      BY <3>1
    <3>. QED
      BY <2>3, <3>1, <3>2, WriteSetsSuccess DEF Sound
  <2>. QED
    BY <2>1, <2>2, <2>3
<1>. QED
  BY <1>1, InvariantHolds, PTL DEF Spec, OnlySuccessMovesSuccess

-----------------------------------------------------------------------------
(* What a step makes of the request that takes it.                         *)
-----------------------------------------------------------------------------

LEMMA AssignMoves ==
  ASSUME TypeOK, NEW p \in Requests, NEW m \in Modules, Unassign(p, m) \/ Assign(p, m)
  PROVE  /\ req' = [req EXCEPT ![p] = req'[p]]
         /\ req[p].pc = "assign" /\ req'[p].pc = "assign"
         /\ req'[p].kind = req[p].kind
         /\ UNCHANGED <<now, live, used, entitlements, heard, bounds>>
BY DEF Unassign, Assign, TypeOK, RequestStates

LEMMA EndAssignMoves ==
  ASSUME TypeOK, NEW p \in Requests, EndAssign(p)
  PROVE  /\ req' = [req EXCEPT ![p] = req'[p]]
         /\ req[p].pc = "assign" /\ req'[p].pc = "next"
         /\ req'[p].kind = req[p].kind /\ req'[p].phase = "sync"
         /\ req'[p].todo = Modules /\ req'[p].cache = NoCache
         /\ req'[p].change = "none"
         /\ UNCHANGED <<now, used, assigned, entitlements, heard, bounds>>
BY DEF EndAssign, Synced, TypeOK, RequestStates

LEMMA AttemptMoves ==
  ASSUME TypeOK, NEW p \in Requests, NEW m \in Modules, Attempt(p, m)
  PROVE  /\ req' = [req EXCEPT ![p] = req'[p]]
         /\ req[p].pc = "next" /\ req[p].phase = "attempt"
         /\ req'[p].pc \in {"ask", "load"} /\ req'[p].mod = m
         /\ req'[p].kind = req[p].kind /\ req'[p].phase = req[p].phase
         /\ req'[p].cache = Cached(p)
         /\ req'[p].keys \subseteq CandidateKeyIds(Cached(p), m)
         /\ req'[p].change \in {"none", "failed"}
         /\ UNCHANGED <<now, tables, heard, bounds>>
<1>1. PICK keys, pc, result, todo, change :
        /\ req' = [req EXCEPT ![p] =
              [req[p] EXCEPT !.todo = todo, !.mod = m, !.cache = Cached(p),
                             !.keys = keys, !.pc = pc, !.change = change,
                             !.result = result]]
        /\ keys \subseteq CandidateKeyIds(Cached(p), m)
        /\ pc \in {"ask", "load"} /\ change \in {"none", "failed"}
  <2>. DEFINE candidates == CandidateKeyIds(Cached(p), m)
              asked == IF req[p].unreachable THEN {} ELSE candidates
  <2>1. req' = [req EXCEPT ![p] =
              [req[p] EXCEPT
                 !.todo = req[p].todo \ {m}, !.mod = m, !.cache = Cached(p),
                 !.keys = asked, !.pc = IF asked = {} THEN "load" ELSE "ask",
                 !.change = IF candidates = {} THEN "none" ELSE "failed",
                 !.result = IF req[p].unreachable THEN "unreachable"
                            ELSE "rejected"]]
    BY DEF Attempt
  <2>2. asked \subseteq candidates
    OBVIOUS
  <2>. HIDE DEF candidates, asked
  <2>. QED
    BY <2>1, <2>2, ZenonT(60) DEF candidates
<1>2. req[p] \in RequestStates /\ req \in [Requests -> RequestStates]
  BY DEF TypeOK
<1>3. req[p].pc = "next" /\ req[p].phase = "attempt"
      /\ UNCHANGED <<now, tables, heard, bounds>>
  BY DEF Attempt
<1>. QED
  BY <1>1, <1>2, <1>3 DEF RequestStates

LEMMA AskMoves ==
  ASSUME TypeOK, NEW p \in Requests, NEW k \in Keys,
         SkipKey(p, k) \/ \E answer \in Results : Ask(p, k, answer)
  PROVE  /\ req' = [req EXCEPT ![p] = req'[p]]
         /\ req[p].pc = "ask" /\ req'[p].pc = "ask"
         /\ req'[p].mod = req[p].mod
         /\ req'[p].kind = req[p].kind /\ req'[p].phase = req[p].phase
         /\ req'[p].cache = req[p].cache /\ req'[p].todo = req[p].todo
         /\ k \in req[p].keys
         /\ req'[p].keys \subseteq req[p].keys
         /\ \/ req'[p].change = req[p].change /\ req'[p].found = req[p].found
              /\ req'[p].at = req[p].at
            \/ req'[p].change = "failed"
            \/ req'[p].change = "valid" /\ req'[p].found = k /\ req'[p].at = now
         /\ UNCHANGED <<now, tables, heard, bounds>>
<1>1. req[p] \in RequestStates /\ req \in [Requests -> RequestStates]
  BY DEF TypeOK
<1>2. CASE SkipKey(p, k)
  BY <1>1, <1>2 DEF SkipKey, RequestStates
<1>3. ASSUME NEW answer \in Results, Ask(p, k, answer)
      PROVE  /\ req' = [req EXCEPT ![p] = req'[p]]
             /\ req'[p].pc = req[p].pc
             /\ req'[p].mod = req[p].mod
             /\ req'[p].kind = req[p].kind /\ req'[p].phase = req[p].phase
             /\ req'[p].cache = req[p].cache /\ req'[p].todo = req[p].todo
             /\ req'[p].keys \subseteq req[p].keys
             /\ \/ req'[p].change = "failed"
                \/ req'[p].change = "valid" /\ req'[p].found = k /\ req'[p].at = now
  BY <1>1, <1>3 DEF Ask, RequestStates
<1>4. ASSUME NEW answer \in Results, Ask(p, k, answer)
      PROVE  /\ req[p].pc = "ask" /\ k \in req[p].keys
             /\ UNCHANGED <<now, tables, heard, bounds>>
  BY <1>4 DEF Ask
<1>. QED
  BY <1>2, <1>3, <1>4

LEMMA EndAskMoves ==
  ASSUME TypeOK, NEW p \in Requests, EndAsk(p)
  PROVE  /\ req' = [req EXCEPT ![p] = req'[p]]
         /\ req[p].pc = "ask" /\ req'[p].pc = "load"
         /\ req'[p].mod = req[p].mod
         /\ req'[p].kind = req[p].kind /\ req'[p].phase = req[p].phase
         /\ req'[p].cache = req[p].cache /\ req'[p].todo = req[p].todo
         /\ req'[p].change = req[p].change /\ req'[p].found = req[p].found
         /\ req'[p].at = req[p].at
         /\ UNCHANGED <<now, tables, heard, bounds>>
BY DEF EndAsk, TypeOK, RequestStates

LEMMA LoadMoves ==
  ASSUME TypeOK, NEW p \in Requests, Load(p)
  PROVE  /\ req' = [req EXCEPT ![p] = req'[p]]
         /\ req[p].pc = "load" /\ req'[p].pc = "plan"
         /\ req'[p].mod = req[p].mod
         /\ req'[p].kind = req[p].kind /\ req'[p].phase = req[p].phase
         /\ req'[p].cache = req[p].cache /\ req'[p].todo = req[p].todo
         /\ req'[p].change = req[p].change /\ req'[p].found = req[p].found
         /\ req'[p].at = req[p].at
         /\ req'[p].loaded = entitlements[req[p].mod]
         /\ UNCHANGED <<now, tables, heard, bounds>>
BY ZenonT(60) DEF Load, TypeOK, RequestStates

LEMMA PlanMoves ==
  ASSUME TypeOK, NEW p \in Requests, Plan(p)
  PROVE  /\ req' = [req EXCEPT ![p] = req'[p]]
         /\ req[p].pc = "plan" /\ req'[p].pc \in {"next", "write"}
         /\ req'[p].mod = req[p].mod
         /\ req'[p].kind = req[p].kind /\ req'[p].phase = req[p].phase
         /\ req'[p].cache = Cached(p) /\ req'[p].todo = req[p].todo
         /\ req'[p].change = req[p].change /\ req'[p].found = req[p].found
         /\ req'[p].at = req[p].at /\ req'[p].loaded = req[p].loaded
         /\ LET row == LoadedRow(req[p])
                keyIds == CandidateKeyIds(Cached(p), req[p].mod)
                changed == Changed(row, keyIds, req[p])
            IN  /\ req'[p].after.key = changed.key
                /\ req'[p].after.success = changed.success
                /\ req'[p].pc = "next" => ~ Dropped(row, keyIds)
         /\ UNCHANGED <<now, tables, heard, bounds>>
<1>. DEFINE row == LoadedRow(req[p])
            keyIds == CandidateKeyIds(Cached(p), req[p].mod)
            changed == Changed(row, keyIds, req[p])
<1>1. req[p] \in RequestStates /\ req \in [Requests -> RequestStates]
  BY DEF TypeOK
<1>2. changed \in Rows
  BY <1>1, EmptyRowIsRow, ChangedIsRow DEF LoadedRow, RequestStates
<1>3. PICK pc, state :
        /\ req' = [req EXCEPT ![p] =
              [req[p] EXCEPT !.pc = pc, !.cache = Cached(p),
                             !.after = [changed EXCEPT !.state = state]]]
        /\ pc \in {"next", "write"} /\ (pc = "next" => ~ Dropped(row, keyIds))
  <2>. DEFINE st == StateOf(keyIds # {}, changed.success, changed.result, now)
              nothing == /\ req[p].change = "none"
                         /\ ~Dropped(row, keyIds)
                         /\ st = row.state
  <2>1. req' = [req EXCEPT ![p] =
                  [req[p] EXCEPT !.pc = IF nothing THEN "next" ELSE "write",
                            !.cache = Cached(p),
                            !.after = [changed EXCEPT !.state = st]]]
    BY DEF Plan
  <2>. DEFINE pc0 == IF nothing THEN "next" ELSE "write"
  <2>2. pc0 \in {"next", "write"} /\ (pc0 = "next" => ~ Dropped(row, keyIds))
    OBVIOUS
  <2>3. req' = [req EXCEPT ![p] =
                  [req[p] EXCEPT !.pc = pc0, !.cache = Cached(p),
                                 !.after = [changed EXCEPT !.state = st]]]
    BY <2>1
  <2>. HIDE DEF changed, row, keyIds, st, pc0
  <2>. QED
    BY <2>2, <2>3
<1>4. /\ [changed EXCEPT !.state = state].key = changed.key
      /\ [changed EXCEPT !.state = state].success = changed.success
  BY <1>2 DEF Rows
<1>. HIDE DEF changed, row, keyIds
<1>5. /\ req' = [req EXCEPT ![p] = req'[p]]
      /\ req'[p].pc = pc
      /\ req'[p].mod = req[p].mod
      /\ req'[p].kind = req[p].kind /\ req'[p].phase = req[p].phase
      /\ req'[p].cache = Cached(p) /\ req'[p].todo = req[p].todo
      /\ req'[p].change = req[p].change /\ req'[p].found = req[p].found
      /\ req'[p].at = req[p].at /\ req'[p].loaded = req[p].loaded
      /\ req'[p].after = [changed EXCEPT !.state = state]
  BY <1>1, <1>3 DEF RequestStates
<1>6. req[p].pc = "plan" /\ UNCHANGED <<now, tables, heard, bounds>>
  BY DEF Plan
<1>. QED
  BY <1>3, <1>4, <1>5, <1>6 DEF changed, row, keyIds

LEMMA WriteMoves ==
  ASSUME TypeOK, NEW p \in Requests, Write(p) \/ WriteFails(p) \/ Announce(p)
  PROVE  /\ req' = [req EXCEPT ![p] = req'[p]]
         /\ req[p].pc \in {"write", "announce"}
         /\ req'[p].pc \in {"next", "announce"}
         /\ req'[p].kind = req[p].kind /\ req'[p].phase = req[p].phase
         /\ req'[p].cache = req[p].cache /\ req'[p].todo = req[p].todo
         /\ req'[p].change = req[p].change /\ req'[p].mod = req[p].mod
         /\ UNCHANGED <<now, live, used, assigned, bounds>>
<1>1. req[p] \in RequestStates /\ req \in [Requests -> RequestStates]
  BY DEF TypeOK
<1>. DEFINE Moved == /\ req' = [req EXCEPT ![p] = req'[p]]
                     /\ req'[p].pc \in {"next", "announce"}
                     /\ req'[p].kind = req[p].kind /\ req'[p].phase = req[p].phase
                     /\ req'[p].cache = req[p].cache /\ req'[p].todo = req[p].todo
                     /\ req'[p].change = req[p].change /\ req'[p].mod = req[p].mod
<1>2. Moved
  <2>1. CASE Write(p)
    <3>. DEFINE pc == IF req[p].after.state # LoadedRow(req[p]).state
                      THEN "announce" ELSE "next"
                u == \/ req[p].unreachable
                     \/ req[p].change # "none" /\ req[p].result = "unreachable"
    <3>1. req' = [req EXCEPT ![p] = [req[p] EXCEPT !.pc = pc, !.unreachable = u]]
      BY <2>1 DEF Write
    <3>2. pc \in {"next", "announce"}
      OBVIOUS
    <3>. HIDE DEF pc, u
    <3>. QED
      BY <1>1, <3>1, <3>2 DEF RequestStates
  <2>2. CASE WriteFails(p) \/ Announce(p)
    BY <1>1, <2>2 DEF WriteFails, Announce, RequestStates
  <2>. QED
    BY <2>1, <2>2
<1>3. /\ req[p].pc \in {"write", "announce"}
      /\ UNCHANGED <<now, live, used, assigned, bounds>>
  BY DEF Write, WriteFails, Announce, tables
<1>. QED
  BY <1>2, <1>3

LEMMA LoopMoves ==
  ASSUME TypeOK, NEW p \in Requests, Loop(p)
  PROVE  /\ req' = [req EXCEPT ![p] = req'[p]]
         /\ req[p].pc = "next"
         /\ \/ /\ req'[p].pc = "load"
               /\ req[p].phase = "sync" /\ req'[p].phase = "sync"
               /\ req'[p].mod \in Modules /\ req'[p].todo = req[p].todo \ {req'[p].mod}
               /\ req'[p].kind = req[p].kind /\ req'[p].cache = req[p].cache
               /\ req'[p].change = req[p].change
            \/ /\ req'[p].pc = "next" /\ req[p].phase = "attempt"
               /\ req'[p].kind = req[p].kind
               /\ req'[p].phase = "sync" /\ req'[p].change = "none"
               /\ req'[p].cache = NoCache
            \/ /\ req'[p].pc = "next" /\ req[p].todo = {}
               /\ req'[p].phase = "attempt"
               /\ req'[p].kind = "checkIn" /\ req'[p].cache = Cached(p)
            \/ /\ req'[p].pc = "idle" /\ req[p].todo = {}
         /\ UNCHANGED <<now, tables, heard, bounds>>
<1>1. req[p] \in RequestStates /\ req \in [Requests -> RequestStates]
  BY DEF TypeOK
<1>2. ASSUME NEW m \in Modules, SyncNext(p, m)
      PROVE  /\ req' = [req EXCEPT ![p] = req'[p]]
             /\ req'[p].pc = "load" /\ req'[p].phase = req[p].phase
             /\ req'[p].mod = m /\ req'[p].todo = req[p].todo \ {m}
             /\ req'[p].kind = req[p].kind /\ req'[p].cache = req[p].cache
             /\ req'[p].change = req[p].change
  BY <1>1, <1>2 DEF SyncNext, RequestStates
<1>3. \A m \in Modules : SyncNext(p, m) =>
        /\ req[p].pc = "next" /\ req[p].phase = "sync"
        /\ UNCHANGED <<now, tables, heard, bounds>>
  BY DEF SyncNext
<1>4. CASE EndLoop(p)
  <2>. DEFINE back == [req[p] EXCEPT !.phase = "attempt", !.cache = Cached(p),
                                     !.kind = "checkIn",
                                     !.todo = TriedWith(Cached(p), req[p].key)]
  <2>1. /\ req[p].pc = "next" /\ req[p].todo = {}
        /\ UNCHANGED <<now, tables, heard, bounds>>
        /\ \/ req' = [req EXCEPT ![p] = Synced(req[p])] /\ req[p].phase = "attempt"
           \/ req' = [req EXCEPT ![p] = back]
           \/ req' = [req EXCEPT ![p] = IdleRequest]
    BY <1>4 DEF EndLoop
  <2>2. /\ back.pc = req[p].pc /\ back.kind = "checkIn" /\ back.cache = Cached(p)
        /\ back.phase = "attempt"
        /\ Synced(req[p]).pc = "next" /\ Synced(req[p]).kind = req[p].kind
        /\ Synced(req[p]).phase = "sync" /\ Synced(req[p]).change = "none"
        /\ Synced(req[p]).cache = NoCache
        /\ IdleRequest.pc = "idle"
    BY <1>1 DEF RequestStates, Synced, IdleRequest
  <2>3. PICK new : /\ req' = [req EXCEPT ![p] = new]
                   /\ \/ new = Synced(req[p]) /\ req[p].phase = "attempt"
                      \/ new = back \/ new = IdleRequest
    BY <2>1
  <2>. HIDE DEF back
  <2>4. req'[p] = new
    BY <1>1, <2>3
  <2>. QED
    BY <2>1, <2>2, <2>3, <2>4, ZenonT(60)
<1>. QED
  BY <1>2, <1>3, <1>4 DEF Loop

-----------------------------------------------------------------------------
(* What listeners have heard.                                              *)
-----------------------------------------------------------------------------

(* While requests come one after the other, the row that one has loaded is *)
(* the row that is stored, and the last state announced is the one stored, *)
(* unless the request that wrote it is about to announce it.               *)
Tracked ==
  /\ \A p, q \in Requests : req[p].pc # "idle" /\ req[q].pc # "idle" => p = q
  /\ \A p \in Requests :
       /\ req[p].pc \in {"plan", "write"} => req[p].loaded = entitlements[req[p].mod]
       /\ req[p].pc = "announce" => req[p].after.state = RowOf(req[p].mod).state
  /\ \A m \in Modules :
       \/ heard[m] = RowOf(m).state
       \/ \E p \in Requests : req[p].pc = "announce" /\ req[p].mod = m

OneByOne == beside = {} /\ aborts = 0
HeardInv == OneByOne => Tracked

(* What anybody has begun beside another stays on record, and so does a    *)
(* crash.                                                                  *)
LEMMA RecordsStay ==
  ASSUME [Next]_vars, TypeOK
  PROVE  beside \subseteq beside' /\ (aborts' = 0 => aborts = 0)
<1>1. \A p \in Requests : BeginRequest(p) => beside \subseteq beside' /\ aborts' = aborts
  BY DEF BeginRequest, OtherRequest, CheckInAll, CheckIn, RemoveKey, AddKey, UpdateKey, Begin
<1>2. \A p \in Requests : Abort(p) => beside' = beside /\ (aborts' = 0 => aborts = 0)
  BY DEF Abort, TypeOK
<1>3. \A p \in Requests :
        AssignKey(p) \/ AttemptModule(p) \/ Loop(p) => UNCHANGED bounds
  BY ZenonT(60) DEF AssignKey, EndAssign, Unassign, Assign, AttemptModule, Attempt, SkipKey, Ask,
     EndAsk, Loop, EndLoop, SyncNext
<1>4. \A p \in Requests : Save(p) => UNCHANGED bounds
  BY DEF Save, Load, Plan, Write, WriteFails, Announce
<1>. QED
  BY <1>1, <1>2, <1>3, <1>4 DEF Next, Tick, vars, bounds

LEMMA OthersStay ==
  ASSUME TypeOK, NEW p \in Requests, NEW new, req' = [req EXCEPT ![p] = new]
  PROVE  req'[p] = new /\ \A q \in Requests \ {p} : req'[q] = req[q]
BY DEF TypeOK

(* A step of the only request under way, away from the tables and from     *)
(* what listeners heard.                                                   *)
LEMMA SilentStep ==
  ASSUME TypeOK, Tracked, NEW p \in Requests, NEW new,
         req' = [req EXCEPT ![p] = new],
         \A q \in Requests \ {p} : req[q].pc = "idle",
         req[p].pc # "announce", UNCHANGED <<entitlements, heard>>,
         new.pc # "announce",
         new.pc \in {"plan", "write"} => new.loaded = entitlements[new.mod]
  PROVE  Tracked'
<1>1. req'[p] = new /\ \A q \in Requests \ {p} : req'[q].pc = "idle"
  BY OthersStay, ZenonT(60)
<1>2. \A m \in Modules : heard[m] = RowOf(m).state
  BY DEF Tracked
<1>3. \A m : RowOf(m)' = RowOf(m)
  BY DEF RowOf
<1>. QED
  BY <1>1, <1>2, <1>3 DEF Tracked

LEMMA BeginsAlone ==
  ASSUME TypeOK, Tracked, OneByOne', NEW p \in Requests, BeginRequest(p)
  PROVE  Tracked'
<1>1. PICK kind, new :
        /\ Begin(p, kind, new) /\ new.pc \in {"next", "assign"}
        /\ UNCHANGED <<entitlements, heard>>
  <2>1. CASE \E loadable \in SUBSET Modules : CheckInAll(p, loadable)
    BY <2>1 DEF CheckInAll, IdleRequest, tables
  <2>2. ASSUME NEW m \in Modules, CheckIn(p, m)
        PROVE  \E kind, new : /\ Begin(p, kind, new) /\ new.pc \in {"next", "assign"}
                            /\ UNCHANGED <<entitlements, heard>>
    BY <2>2 DEF CheckIn, IdleRequest, tables
  <2>3. \A kind, k, dels, adds : Assigning(kind, k, dels, adds).pc = "assign"
    BY DEF Assigning, IdleRequest
  <2>4. ASSUME NEW k \in Keys, RemoveKey(p, k)
        PROVE  \E kind, new : /\ Begin(p, kind, new) /\ new.pc \in {"next", "assign"}
                            /\ UNCHANGED <<entitlements, heard>>
    BY <2>3, <2>4 DEF RemoveKey, tables
  <2>5. ASSUME NEW k \in Keys, NEW wanted \in SUBSET Modules,
               AddKey(p, k, wanted) \/ UpdateKey(p, k, wanted)
        PROVE  \E kind, new : /\ Begin(p, kind, new) /\ new.pc \in {"next", "assign"}
                            /\ UNCHANGED <<entitlements, heard>>
    BY <2>3, <2>5 DEF AddKey, UpdateKey, tables
  <2>. QED
    BY <2>1, <2>2, <2>4, <2>5 DEF BeginRequest, OtherRequest
<1>2. UnderWay = {} /\ req' = [req EXCEPT ![p] = new]
  BY <1>1 DEF Begin, OneByOne
<1>3. \A q \in Requests : req[q].pc = "idle"
  BY <1>2 DEF UnderWay
<1>. QED
  BY <1>1, <1>2, <1>3, SilentStep

LEMMA WritesAlone ==
  ASSUME IInv, Tracked, NEW p \in Requests, Write(p),
         \A q \in Requests \ {p} : req[q].pc = "idle"
  PROVE  Tracked'
<1>. DEFINE r == req[p]
            pc == IF r.after.state # LoadedRow(r).state THEN "announce" ELSE "next"
            new == [r EXCEPT !.pc = pc,
                             !.unreachable = \/ r.unreachable
                                             \/ /\ r.change # "none"
                                                /\ r.result = "unreachable"]
            row == IF entitlements[r.mod] = NoRow THEN r.after
                   ELSE Updated(entitlements[r.mod], r.loaded, r.after)
<1>1. /\ r \in RequestStates /\ r.mod \in Modules /\ r.after \in Rows
      /\ r.pc = "write" /\ r.loaded = entitlements[r.mod]
  BY DEF Write, IInv, TypeOK, Chosen, Sound, Working, Tracked, RequestStates
<1>2. /\ req' = [req EXCEPT ![p] = new]
      /\ entitlements' = [entitlements EXCEPT ![r.mod] = row] /\ heard' = heard
  BY DEF Write
<1>3. new.pc = pc /\ new.mod = r.mod /\ new.after = r.after
  BY <1>1 DEF RequestStates
<1>4. row # NoRow /\ row.state = r.after.state
  <2>1. CASE r.loaded = NoRow
    BY <1>1, <2>1, LicensingAssumption
  <2>2. CASE r.loaded # NoRow
    <3>1. r.loaded \in Rows
      BY <1>1, <2>2 DEF RequestStates
    <3>2. row = Updated(r.loaded, r.loaded, r.after)
      BY <1>1, <2>2
    <3>3. row \in Rows
      BY <1>1, <3>1, <3>2, UpdatedIsRow
    <3>. QED
      BY <1>1, <3>1, <3>2, <3>3, LicensingAssumption DEF Updated, Rows
  <2>. QED
    BY <2>1, <2>2
<1>. HIDE DEF new, row
<1>5. req'[p] = new /\ \A q \in Requests \ {p} : req'[q].pc = "idle"
  BY <1>2, OthersStay, ZenonT(60) DEF IInv
<1>6. PICK k \in Modules : k = r.mod
  BY <1>1
<1>7. RowOf(k)' = row /\ \A m \in Modules \ {k} : RowOf(m)' = RowOf(m)
  BY <1>1, <1>2, <1>4, <1>6 DEF RowOf, IInv, TypeOK
<1>8. new.pc = "next" => r.after.state = RowOf(k).state
  BY <1>1, <1>3, <1>6 DEF RowOf, LoadedRow
<1>9. \A m \in Modules : heard[m] = RowOf(m).state
  BY <1>1 DEF Tracked
<1>10. new.pc \in {"announce", "next"} /\ new.mod = k
  BY <1>3, <1>6
<1>11. \A q \in Requests :
         req'[q].pc = "announce" => req'[q].after.state = row.state /\ req'[q].mod = k
  BY <1>3, <1>4, <1>5, <1>6
<1>12. \A m \in Modules :
         \/ heard'[m] = RowOf(m)'.state
         \/ \E q \in Requests : req'[q].pc = "announce" /\ req'[q].mod = m
  <2>. TAKE m \in Modules
  <2>1. CASE m = k
    BY <1>2, <1>4, <1>5, <1>7, <1>8, <1>9, <1>10, <2>1
  <2>2. CASE m # k
    BY <1>2, <1>7, <1>9, <2>2
  <2>. QED
    BY <2>1, <2>2
<1>13. \A q \in Requests : req'[q].pc = "announce" =>
          req'[q].after.state = RowOf(req[q].mod)'.state
  BY <1>7, <1>11
<1>. QED
  BY <1>5, <1>10, <1>12, <1>13 DEF Tracked

LEMMA AnnouncesAlone ==
  ASSUME IInv, Tracked, NEW p \in Requests, Announce(p),
         \A q \in Requests \ {p} : req[q].pc = "idle"
  PROVE  Tracked'
<1>1. /\ req[p].pc = "announce" /\ req[p].mod \in Modules /\ req[p] \in RequestStates
      /\ UNCHANGED entitlements
  BY DEF Announce, IInv, TypeOK, Chosen, Sound, Working, tables
<1>2. PICK k \in Modules : k = req[p].mod
  BY <1>1
<1>3. heard' = [heard EXCEPT ![k] = RowOf(k).state]
  BY <1>1, <1>2 DEF Announce, Tracked
<1>4. \A q \in Requests : req'[q].pc \in {"next", "idle"}
  <2>1. req'[p].pc = "next" /\ \A q \in Requests \ {p} : req'[q] = req[q]
    BY <1>1 DEF Announce, IInv, TypeOK, RequestStates
  <2>. QED
    BY <2>1
<1>5. \A p1, q1 \in Requests : req'[p1].pc # "idle" /\ req'[q1].pc # "idle" => p1 = q1
  BY DEF Announce, IInv, TypeOK
<1>6. \A m \in Modules : RowOf(m)' = RowOf(m)
  BY <1>1 DEF RowOf
<1>7. \A m \in Modules : heard'[m] = RowOf(m)'.state
  <2>1. \A m \in Modules \ {k} : heard[m] = RowOf(m).state
    BY <1>1, <1>2 DEF Tracked
  <2>. QED
    BY <1>3, <1>6, <2>1 DEF IInv, TypeOK
<1>. QED
  BY <1>4, <1>5, <1>7 DEF Tracked

LEMMA NextTracked ==
  ASSUME IInv, HeardInv, [Next]_vars, OneByOne'
  PROVE  Tracked'
<1>1. Tracked /\ TypeOK
  BY RecordsStay DEF IInv, HeardInv, OneByOne
<1>2. ASSUME NEW p \in Requests, req[p].pc # "idle"
      PROVE  \A q \in Requests \ {p} : req[q].pc = "idle"
  BY <1>1, <1>2 DEF Tracked
<1>3. ASSUME NEW p \in Requests, req' = [req EXCEPT ![p] = req'[p]],
             req[p].pc \notin {"idle", "announce"},
             UNCHANGED <<entitlements, heard>>,
             req'[p].pc # "announce",
             req'[p].pc \in {"plan", "write"} =>
               req'[p].loaded = entitlements[req'[p].mod]
      PROVE  Tracked'
  <2>1. PICK new : new = req'[p]
    OBVIOUS
  <2>. QED
    BY <1>1, <1>2, <1>3, <2>1, SilentStep
<1>4. ASSUME NEW p \in Requests, AssignKey(p)
      PROVE  Tracked'
  BY <1>1, <1>3, <1>4, AssignMoves, EndAssignMoves DEF AssignKey
<1>5. ASSUME NEW p \in Requests, AttemptModule(p) \/ Loop(p)
      PROVE  Tracked'
  BY <1>1, <1>3, <1>5, AttemptMoves, AskMoves, EndAskMoves, LoopMoves
     DEF AttemptModule, tables
<1>6. ASSUME NEW p \in Requests, Load(p) \/ Plan(p)
      PROVE  Tracked'
  <2>1. req[p].pc = "plan" => req[p].loaded = entitlements[req[p].mod]
    BY <1>1 DEF Tracked
  <2>. QED
    BY <1>1, <1>3, <1>6, <2>1, LoadMoves, PlanMoves DEF tables
<1>7. ASSUME NEW p \in Requests, WriteFails(p)
      PROVE  Tracked'
  <2>1. req[p].pc = "write" /\ req'[p].pc = "next" /\ UNCHANGED <<entitlements, heard>>
    BY <1>1, <1>7 DEF WriteFails, tables, TypeOK, RequestStates
  <2>. QED
    BY <1>1, <1>3, <1>7, <2>1, WriteMoves
<1>8. ASSUME NEW p \in Requests, Write(p) \/ Announce(p)
      PROVE  Tracked'
  <2>1. req[p].pc # "idle"
    BY <1>8 DEF Write, Announce
  <2>. QED
    BY <1>1, <1>2, <1>8, <2>1, WritesAlone, AnnouncesAlone
<1>9. ASSUME NEW p \in Requests, Abort(p)
      PROVE  FALSE
  BY <1>1, <1>9 DEF Abort, OneByOne, TypeOK
<1>10. CASE Tick \/ UNCHANGED vars
  BY <1>1, <1>10 DEF Tick, vars, tables, Tracked, RowOf
<1>. QED
  BY <1>1, <1>4, <1>5, <1>6, <1>7, <1>8, <1>9, <1>10, BeginsAlone DEF Next, Save

(* Requests that came one after the other have told listeners the state    *)
(* that is saved (announce(), "after the row is saved, never before").     *)
THEOREM ListenersAreTold == Spec => []ListenersKnow
<1>1. Init => HeardInv
  BY DEF Init, HeardInv, Tracked, IdleRequest, RowOf, EmptyRow
<1>2. IInv /\ HeardInv /\ [Next]_vars => HeardInv'
  BY NextTracked DEF HeardInv
<1>3. HeardInv => ListenersKnow
  <2>1. UnderWay = {} => \A q \in Requests : req[q].pc = "idle"
    BY DEF UnderWay
  <2>. QED
    BY <2>1 DEF HeardInv, OneByOne, Tracked, ListenersKnow
<1>. QED
  BY <1>1, <1>2, <1>3, InvariantHolds, PTL DEF Spec

-----------------------------------------------------------------------------
(* What a licence rests on.                                                *)
-----------------------------------------------------------------------------

Changers == {"addKey", "updateKey", "removeKey"}
Changing(p) == req[p].pc # "idle" /\ req[p].kind \in Changers

Paired(row) == row.success # None => row.key # None
Supported(m, row) == Paired(row) /\ row.key \in StoredKeys(m) \cup {None}
SupportedRows(m) == {row \in Rows : Supported(m, row)}

(* The key tables that a request has cached are those that are stored, and *)
(* syncStates() asks nobody and records no answer.                         *)
Fresh(r) ==
  r.pc \notin {"idle", "assign"} =>
    /\ r.cache \in {NoCache, KeyIdsByModule}
    /\ r.phase = "sync" => r.change = "none" /\ r.pc # "ask"

(* What a check-in knows of the module it works on: what it asks about,    *)
(* what validated and what it has loaded rests on keys stored for the      *)
(* module, and no key of a row goes without another taking its place.      *)
CheckInKnows(r) ==
  /\ r.pc = "ask" => r.keys \subseteq StoredKeys(r.mod)
  /\ r.pc \in {"ask", "load", "plan", "write"} /\ r.change = "valid" =>
       r.found \in StoredKeys(r.mod)
  /\ r.pc \in {"plan", "write"} =>
       /\ Supported(r.mod, LoadedRow(r))
       /\ LoadedRow(r).key # None => RowOf(r.mod).key # None
  /\ r.pc = "write" =>
       /\ Supported(r.mod, r.after)
       /\ LoadedRow(r).key # None => r.after.key # None

CheckInsSupported ==
  /\ \A m \in Modules : Supported(m, RowOf(m))
  /\ \A p \in Requests : Fresh(req[p]) /\ CheckInKnows(req[p])

(* What the request that changed a key knows while syncStates() goes over  *)
(* the modules: those it has done with are supported.                      *)
ChangerKnows(r) ==
  /\ r.phase = "sync"
  /\ r.pc \in {"plan", "write"} => r.loaded = entitlements[r.mod]
  /\ r.pc = "write" => Supported(r.mod, r.after)
  /\ \A m \in Modules \ r.todo :
       \/ r.pc \in {"load", "plan", "write"} /\ m = r.mod
       \/ Supported(m, RowOf(m))

(* A request that changes keys is alone; once it has synced every module,  *)
(* and while check-ins come and go, every licence has its key.             *)
RestsOnKeys ==
  /\ \A p \in Requests : req[p].pc = "assign" => req[p].kind \in Changers
  /\ \A p, q \in Requests : Changing(p) /\ q # p => req[q].pc = "idle"
  /\ \A p \in Requests : Fresh(req[p])
  /\ \A m \in Modules : Paired(RowOf(m))
  /\ \A p \in Requests :
       Changing(p) /\ req[p].pc # "assign" => ChangerKnows(req[p])
  /\ (\A p \in Requests : ~Changing(p)) => CheckInsSupported

OnlyCheckInsBeside == beside \subseteq {"checkInAll", "checkIn"} /\ aborts = 0
SupportInv == OnlyCheckInsBeside => RestsOnKeys

LEMMA SameKeys ==
  ASSUME UNCHANGED <<live, assigned>>
  PROVE  /\ KeyIdsByModule' = KeyIdsByModule
         /\ \A m : StoredKeys(m)' = StoredKeys(m)
         /\ \A m, row : Supported(m, row)' <=> Supported(m, row)
         /\ \A r : Fresh(r)' <=> Fresh(r)
BY DEF KeyIdsByModule, StoredKeys, CandidateKeyIds, Holders, Supported, Paired, Fresh

(* A request that is not about to ask or to save has nothing to know.      *)
LEMMA NothingToKnow ==
  ASSUME NEW r, r.pc \notin {"ask", "load", "plan", "write"}
  PROVE  CheckInKnows(r)
BY DEF CheckInKnows

LEMMA FreshCache ==
  ASSUME NEW p \in Requests, Fresh(req[p]), req[p].pc \notin {"idle", "assign"}
  PROVE  /\ Cached(p) = KeyIdsByModule
         /\ \A m : CandidateKeyIds(Cached(p), m) = StoredKeys(m)
BY DEF Fresh, Cached, StoredKeys

(* What a request learns without writing a row.                            *)
LEMMA CheckInLearns ==
  ASSUME IInv, CheckInsSupported, NEW p \in Requests,
         AttemptModule(p) \/ Loop(p) \/ Load(p) \/ Plan(p)
  PROVE  Fresh(req'[p]) /\ CheckInKnows(req'[p])
<1>1. /\ TypeOK /\ Sound(req[p]) /\ req[p] \in RequestStates
      /\ Fresh(req[p]) /\ CheckInKnows(req[p])
  BY DEF IInv, Chosen, TypeOK, CheckInsSupported
<1>2. ASSUME NEW m \in Modules, Attempt(p, m)
      PROVE  Fresh(req'[p]) /\ CheckInKnows(req'[p])
  <2>1. /\ Cached(p) = KeyIdsByModule
        /\ CandidateKeyIds(Cached(p), m) = StoredKeys(m)
    BY <1>1, <1>2, FreshCache, AttemptMoves
  <2>. QED
    BY <1>1, <1>2, <2>1, AttemptMoves DEF Fresh, CheckInKnows
<1>3. ASSUME NEW k \in Keys,
             SkipKey(p, k) \/ \E answer \in Results : Ask(p, k, answer)
      PROVE  Fresh(req'[p]) /\ CheckInKnows(req'[p])
  BY <1>1, <1>3, AskMoves DEF Fresh, CheckInKnows
<1>4. CASE EndAsk(p)
  BY <1>1, <1>4, EndAskMoves DEF Fresh, CheckInKnows
<1>5. CASE Loop(p)
  <2>1. Cached(p) = KeyIdsByModule
    BY <1>1, <1>5, FreshCache, LoopMoves
  <2>. QED
    BY <1>1, <1>5, <2>1, LoopMoves DEF Fresh, CheckInKnows
<1>6. CASE Load(p)
  <2>1. req[p].mod \in Modules /\ Supported(req[p].mod, RowOf(req[p].mod))
    BY <1>1, <1>6 DEF Sound, Working, Load, CheckInsSupported
  <2>2. LoadedRow(req'[p]) = RowOf(req[p].mod)
    BY <1>1, <1>6, LoadMoves DEF LoadedRow, RowOf
  <2>. QED
    BY <1>1, <1>6, <2>1, <2>2, LoadMoves DEF Fresh, CheckInKnows
<1>7. CASE Plan(p)
  <2>. DEFINE row == LoadedRow(req[p])
              keyIds == CandidateKeyIds(Cached(p), req[p].mod)
              changed == Changed(row, keyIds, req[p])
  <2>1. req[p].pc = "plan"
    BY <1>7 DEF Plan
  <2>2. /\ row \in Rows /\ Supported(req[p].mod, row)
        /\ row.key # None => RowOf(req[p].mod).key # None
        /\ Cached(p) = KeyIdsByModule /\ keyIds = StoredKeys(req[p].mod)
    BY <1>1, <2>1, EmptyRowIsRow, FreshCache DEF CheckInKnows, LoadedRow, RequestStates
  <2>3. ~Dropped(row, keyIds)
    BY <2>2 DEF Dropped, Supported
  <2>4. \/ changed.key = row.key /\ changed.success = row.success
        \/ req[p].change = "valid" /\ changed.key = req[p].found
    <3>1. PICK old \in Rows : old = row
      BY <2>2
    <3>2. CASE req[p].change = "none"
      BY <2>3, <3>2 DEF Changed
    <3>3. CASE req[p].change = "failed"
      <4>1. changed = [old EXCEPT !.result = req[p].result]
        BY <2>3, <3>1, <3>3 DEF Changed
      <4>. QED
        BY <3>1, <4>1 DEF Rows
    <3>4. CASE req[p].change = "valid"
      <4>1. changed = [old EXCEPT !.key = req[p].found, !.success = req[p].at,
                                  !.result = "valid"]
        BY <2>3, <3>1, <3>4 DEF Changed
      <4>. QED
        BY <3>1, <3>4, <4>1 DEF Rows
    <3>5. req[p].change \in {"none", "failed", "valid"}
      BY <1>1 DEF RequestStates
    <3>. HIDE DEF changed, row
    <3>. QED
      BY <3>2, <3>3, <3>4, <3>5
  <2>5. None \notin StoredKeys(req[p].mod)
    <3>1. req[p].mod \in Modules
      BY <1>1, <2>1 DEF Sound, Working
    <3>. QED
      BY <1>1, <3>1, KeyIdsAreKeys, CandidatesAreKeys, LicensingAssumption DEF StoredKeys
  <2>6. changed.key \in StoredKeys(req[p].mod) \/ changed.key = row.key
    BY <1>1, <2>1, <2>4 DEF CheckInKnows
  <2>7. /\ req'[p].after.key = changed.key /\ req'[p].after.success = changed.success
        /\ LoadedRow(req'[p]) = row
    BY <1>1, <1>7, PlanMoves DEF LoadedRow
  <2>. HIDE DEF changed, row, keyIds
  <2>8. /\ Supported(req[p].mod, req'[p].after)
        /\ row.key # None => req'[p].after.key # None
    BY <1>1, <2>1, <2>2, <2>4, <2>5, <2>6, <2>7 DEF Supported, Paired, CheckInKnows
  <2>9. /\ req'[p].pc \in {"next", "write"} /\ req'[p].mod = req[p].mod
        /\ req'[p].change = req[p].change /\ req'[p].found = req[p].found
        /\ req'[p].phase = req[p].phase /\ req'[p].cache = Cached(p)
    BY <1>1, <1>7, PlanMoves
  <2>. QED
    BY <1>1, <2>1, <2>2, <2>7, <2>8, <2>9 DEF Fresh, CheckInKnows
<1>. QED
  BY <1>2, <1>3, <1>4, <1>5, <1>6, <1>7 DEF AttemptModule

(* A check-in that saves leaves every row supported, and takes no key from *)
(* a row without putting another in its place.                             *)
LEMMA WriteSupports ==
  ASSUME IInv, CheckInsSupported, NEW p \in Requests, Write(p),
         NEW m \in Modules
  PROVE  /\ RowOf(m)' \in SupportedRows(m)
         /\ RowOf(m).key # None => RowOf(m)'.key # None
<1>1. PICK r \in RequestStates : r = req[p]
  BY DEF IInv, TypeOK
<1>2. /\ r.mod \in Modules /\ r.after \in Rows /\ r.pc = "write"
      /\ CheckInKnows(r) /\ LoadedIn(r, entitlements)
      /\ entitlements \in [Modules -> Rows \cup {NoRow}]
  BY <1>1 DEF Write, IInv, TypeOK, Chosen, LoadedStays, Sound, Working,
              CheckInsSupported, RequestStates
<1>3. PICK k \in Modules : k = r.mod
  BY <1>2
<1>. DEFINE stored == entitlements[k]
            row == IF stored = NoRow THEN r.after
                   ELSE Updated(stored, r.loaded, r.after)
<1>4. entitlements' = [entitlements EXCEPT ![k] = row] /\ ~Conflict(p)
  BY <1>1, <1>3 DEF Write
<1>5. /\ row \in Rows /\ Supported(k, row)
      /\ RowOf(k).key # None => row.key # None
  <2>1. /\ Supported(k, r.after)
        /\ LoadedRow(r).key # None => r.after.key # None
        /\ LoadedRow(r).key # None => RowOf(k).key # None
    BY <1>2, <1>3 DEF CheckInKnows
  <2>2. CASE stored = NoRow
    BY <1>2, <2>1, <2>2 DEF RowOf, EmptyRow
  <2>3. CASE stored # NoRow
    <3>1. r.loaded \in Rows /\ stored \in Rows
      BY <1>1, <1>2, <1>3, <1>4, <2>3 DEF Conflict, RequestStates
    <3>2. LoadedRow(r) = r.loaded /\ RowOf(k) = stored
      BY <2>3, <3>1, LicensingAssumption DEF LoadedRow, RowOf
    <3>3. row \in Rows
      BY <1>2, <2>3, <3>1, UpdatedIsRow
    <3>4. /\ row.key = IF r.after.key = r.loaded.key THEN stored.key ELSE r.after.key
          /\ row.success = IF r.after.success = r.loaded.success THEN stored.success
                           ELSE r.after.success
      BY <2>3 DEF Updated
    <3>5. Supported(k, stored)
      BY <3>2 DEF CheckInsSupported
    <3>. HIDE DEF row, stored
    <3>. QED
      BY <2>1, <3>2, <3>3, <3>4, <3>5 DEF Supported, Paired
  <2>. QED
    BY <2>2, <2>3
<1>. HIDE DEF row
<1>6. RowOf(k)' = row
  BY <1>2, <1>4, <1>5, LicensingAssumption DEF RowOf
<1>7. m # k => RowOf(m)' = RowOf(m)
  BY <1>2, <1>4 DEF RowOf
<1>. QED
  <2>1. RowOf(m) \in SupportedRows(m)
    BY EmptyRowIsRow DEF CheckInsSupported, SupportedRows, RowOf, IInv, TypeOK
  <2>2. row \in SupportedRows(k)
    BY <1>5 DEF SupportedRows
  <2>. QED
    BY <1>5, <1>6, <1>7, <2>1, <2>2

(* Check-ins, whoever else checks in meanwhile, leave every licence on a   *)
(* key that is stored.                                                     *)
LEMMA CheckInKeepsSupport ==
  ASSUME IInv, CheckInsSupported, NEW p \in Requests,
         AttemptModule(p) \/ Save(p) \/ Loop(p)
  PROVE  CheckInsSupported'
<1>1. UNCHANGED <<live, assigned>>
  BY DEF AttemptModule, Attempt, SkipKey, Ask, EndAsk, Save, Load, Plan, Write,
         WriteFails, Announce, Loop, EndLoop, SyncNext, tables
<1>2. \A m \in Modules : /\ RowOf(m)' \in SupportedRows(m)
                         /\ RowOf(m).key # None => RowOf(m)'.key # None
  <2>1. CASE Write(p)
    <3>. TAKE m \in Modules
    <3>. QED
      BY <2>1, WriteSupports
  <2>2. CASE ~Write(p)
    <3>1. entitlements' = entitlements
      <4>1. CASE AttemptModule(p)
        BY <4>1, AttemptMoves, AskMoves, EndAskMoves DEF AttemptModule, tables, IInv
      <4>2. CASE Loop(p)
        BY <4>2, LoopMoves DEF tables, IInv
      <4>3. CASE Save(p)
        BY <2>2, <4>3, LoadMoves, PlanMoves DEF Save, WriteFails, Announce, tables, IInv
      <4>. QED
        BY <4>1, <4>2, <4>3
    <3>2. \A m \in Modules : RowOf(m)' = RowOf(m)
      BY <3>1 DEF RowOf
    <3>. QED
      BY <3>2, EmptyRowIsRow DEF CheckInsSupported, SupportedRows, RowOf, IInv, TypeOK
  <2>. QED
    BY <2>1, <2>2
<1>3. /\ req' = [req EXCEPT ![p] = req'[p]]
      /\ Fresh(req'[p]) /\ CheckInKnows(req'[p])
  <2>1. CASE AttemptModule(p) \/ Loop(p) \/ Load(p) \/ Plan(p)
    <3>1. req' = [req EXCEPT ![p] = req'[p]]
      BY <2>1, AttemptMoves, AskMoves, EndAskMoves, LoopMoves, LoadMoves, PlanMoves
         DEF AttemptModule, IInv
    <3>. QED
      BY <2>1, <3>1, CheckInLearns
  <2>2. CASE Write(p) \/ WriteFails(p) \/ Announce(p)
    <3>1. Fresh(req[p])
      BY DEF CheckInsSupported
    <3>2. CheckInKnows(req'[p])
      BY <2>2, WriteMoves, NothingToKnow DEF IInv
    <3>3. Fresh(req'[p]) /\ req' = [req EXCEPT ![p] = req'[p]]
      BY <2>2, <3>1, WriteMoves DEF Fresh, IInv
    <3>. QED
      BY <3>2, <3>3
  <2>. QED
    BY <2>1, <2>2 DEF Save
<1>4. ASSUME NEW q \in Requests
      PROVE  (Fresh(req[q]) /\ CheckInKnows(req[q]))'
  <2>1. PICK r : r = req'[q]
    OBVIOUS
  <2>2. Fresh(r) /\ CheckInKnows(r)
    BY <1>3, <2>1 DEF CheckInsSupported, IInv, TypeOK
  <2>3. r.pc \in {"plan", "write"} => r.mod \in Modules
    <3>1. IInv'
      BY NextIInv DEF Next
    <3>. QED
      BY <2>1, <3>1 DEF IInv, Chosen, Sound, Working
  <2>4. Fresh(r)'
    BY <1>1, <2>2 DEF Fresh, KeyIdsByModule
  <2>5. PICK k : k = r.mod
    OBVIOUS
  <2>6. /\ StoredKeys(k)' = StoredKeys(k)
        /\ \A row : Supported(k, row)' <=> Supported(k, row)
    BY <1>1 DEF StoredKeys, KeyIdsByModule, CandidateKeyIds, Holders, Supported, Paired
  <2>7. CheckInKnows(r)'
    BY <1>2, <2>2, <2>3, <2>5, <2>6 DEF CheckInKnows, LoadedRow
  <2>. QED
    BY <2>1, <2>4, <2>7 DEF Fresh, CheckInKnows, LoadedRow
<1>5. ASSUME NEW m \in Modules
      PROVE  Supported(m, RowOf(m))'
  <2>1. PICK row : row = RowOf(m)'
    OBVIOUS
  <2>2. Supported(m, row)
    BY <1>2, <2>1 DEF SupportedRows
  <2>. QED
    BY <1>1, <2>1, <2>2 DEF StoredKeys, KeyIdsByModule, CandidateKeyIds, Holders,
       Supported, Paired
<1>. QED
  BY <1>4, <1>5, SMTT(40) DEF CheckInsSupported
(* The request that changed a key, syncing.                                *)
LEMMA ChangerGoes ==
  ASSUME UNCHANGED <<live, assigned>>, NEW p \in Requests, NEW new, req'[p] = new,
         new.phase = "sync",
         new.pc \in {"plan", "write"} => new.loaded = entitlements'[new.mod],
         new.pc = "write" => Supported(new.mod, new.after),
         \A m \in Modules \ new.todo :
           \/ new.pc \in {"load", "plan", "write"} /\ m = new.mod
           \/ RowOf(m)' \in SupportedRows(m)
  PROVE  ChangerKnows(req[p])'
<1>1. \A m : StoredKeys(m)' = StoredKeys(m)
  BY DEF StoredKeys, KeyIdsByModule, CandidateKeyIds, Holders
<1>2. \A m \in Modules : RowOf(m)' \in SupportedRows(m) => Supported(m, RowOf(m))'
  BY <1>1 DEF SupportedRows, Supported, Paired
<1>3. PICK k : k = new.mod
  OBVIOUS
<1>4. Supported(k, new.after) => Supported(k, new.after)'
  BY <1>1 DEF Supported, Paired
<1>. QED
  BY <1>2, <1>3, <1>4 DEF ChangerKnows, Supported

LEMMA NoRowChanges ==
  ASSUME UNCHANGED entitlements, TypeOK, NEW m \in Modules
  PROVE  /\ RowOf(m)' = RowOf(m)
         /\ Supported(m, RowOf(m)) => RowOf(m)' \in SupportedRows(m)
BY EmptyRowIsRow DEF RowOf, SupportedRows, TypeOK

(* What it plans drops a success whose key is not stored; a row it leaves  *)
(* alone has its key.                                                      *)
LEMMA ChangerPlans ==
  ASSUME IInv, NEW p \in Requests, Fresh(req[p]), ChangerKnows(req[p]), Plan(p),
         \A m \in Modules : Paired(RowOf(m))
  PROVE  /\ Supported(req[p].mod, req'[p].after)
         /\ req'[p].pc = "next" => Supported(req[p].mod, RowOf(req[p].mod))
<1>. DEFINE row == LoadedRow(req[p])
            keyIds == CandidateKeyIds(Cached(p), req[p].mod)
            changed == Changed(row, keyIds, req[p])
<1>1. /\ TypeOK /\ req[p] \in RequestStates
      /\ req[p].pc = "plan" /\ req[p].mod \in Modules
      /\ req[p].phase = "sync" /\ req[p].change = "none"
      /\ req[p].loaded = entitlements[req[p].mod]
  BY DEF IInv, TypeOK, Chosen, Sound, Working, Plan, Fresh, ChangerKnows
<1>2. /\ row = RowOf(req[p].mod) /\ row \in Rows /\ Paired(row)
      /\ keyIds = StoredKeys(req[p].mod)
  BY <1>1, EmptyRowIsRow, FreshCache DEF LoadedRow, RowOf, TypeOK
<1>3. ~Dropped(row, keyIds) => Supported(req[p].mod, row)
  BY <1>2 DEF Dropped, Supported
<1>4. Supported(req[p].mod, changed)
  <2>1. CASE Dropped(row, keyIds)
    <3>1. PICK old \in Rows : old = row
      BY <1>2
    <3>2. changed = [old EXCEPT !.key = None, !.success = None, !.result = "null"]
      BY <1>1, <2>1, <3>1 DEF Changed
    <3>. QED
      BY <3>2 DEF Rows, Supported, Paired
  <2>2. CASE ~Dropped(row, keyIds)
    BY <1>1, <1>3, <2>2 DEF Changed
  <2>. QED
    BY <2>1, <2>2
<1>5. /\ req'[p].after.key = changed.key /\ req'[p].after.success = changed.success
      /\ req'[p].pc = "next" => ~Dropped(row, keyIds)
  BY <1>1, PlanMoves
<1>. HIDE DEF row, keyIds, changed
<1>. QED
  BY <1>2, <1>3, <1>4, <1>5 DEF Supported, Paired

(* What it writes is what it planned: nobody else has touched the row.     *)
LEMMA ChangerWrites ==
  ASSUME IInv, NEW p \in Requests, ChangerKnows(req[p]), Write(p),
         NEW k \in Modules, k = req[p].mod
  PROVE  /\ RowOf(k)' \in SupportedRows(k)
         /\ \A m \in Modules \ {k} : RowOf(m)' = RowOf(m)
<1>1. PICK r \in RequestStates : r = req[p]
  BY DEF IInv, TypeOK
<1>2. /\ r.mod \in Modules /\ r.after \in Rows /\ r.pc = "write"
      /\ r.loaded = entitlements[r.mod] /\ Supported(r.mod, r.after)
      /\ entitlements \in [Modules -> Rows \cup {NoRow}]
  BY <1>1 DEF Write, IInv, TypeOK, Chosen, Sound, Working, ChangerKnows, RequestStates
<1>3. k = r.mod
  BY <1>1
<1>. DEFINE row == IF r.loaded = NoRow THEN r.after
                   ELSE Updated(r.loaded, r.loaded, r.after)
<1>4. entitlements' = [entitlements EXCEPT ![k] = row]
  BY <1>1, <1>2, <1>3 DEF Write
<1>5. row \in Rows /\ row.key = r.after.key /\ row.success = r.after.success
  <2>1. CASE r.loaded = NoRow
    BY <1>2, <2>1
  <2>2. CASE r.loaded # NoRow
    BY <1>1, <1>2, <2>2, UpdatedIsRow DEF RequestStates, Updated
  <2>. QED
    BY <2>1, <2>2
<1>. HIDE DEF row
<1>6. RowOf(k)' = row
  BY <1>2, <1>4, <1>5, LicensingAssumption DEF RowOf
<1>7. row \in SupportedRows(k)
  BY <1>2, <1>3, <1>5 DEF SupportedRows, Supported, Paired
<1>8. \A m \in Modules \ {k} : RowOf(m)' = RowOf(m)
  BY <1>2, <1>4 DEF RowOf
<1>. QED
  BY <1>6, <1>7, <1>8
LEMMA ChangerSteps ==
  ASSUME IInv, RestsOnKeys, NEW p \in Requests, Changing(p), req[p].pc # "assign",
         AttemptModule(p) \/ Save(p) \/ Loop(p)
  PROVE  /\ req' = [req EXCEPT ![p] = req'[p]]
         /\ Fresh(req'[p])
         /\ req'[p].pc # "assign"
         /\ \A m \in Modules : Paired(RowOf(m)')
         /\ \/ /\ ChangerKnows(req[p])'
               /\ req'[p].pc # "idle" /\ req'[p].kind = req[p].kind
            \/ /\ req'[p].pc = "idle" \/ req'[p].kind = "checkIn"
               /\ req'[p].pc \in {"idle", "next"}
               /\ \A m \in Modules : RowOf(m)' \in SupportedRows(m)
<1>1. /\ TypeOK /\ Fresh(req[p]) /\ req[p].phase = "sync" /\ req[p].change = "none"
      /\ req[p].cache \in {NoCache, KeyIdsByModule} /\ ChangerKnows(req[p])
      /\ req[p].pc \notin {"idle", "ask"} /\ req[p] \in RequestStates /\ Sound(req[p])
      /\ Cached(p) = KeyIdsByModule
      /\ \A m \in Modules : Paired(RowOf(m))
  BY FreshCache, SMTT(40) DEF IInv, RestsOnKeys, Changing, Fresh, ChangerKnows, TypeOK, Chosen
<1>2. UNCHANGED <<live, assigned>>
  BY DEF AttemptModule, Attempt, SkipKey, Ask, EndAsk, Save, Load, Plan, Write,
         WriteFails, Announce, Loop, EndLoop, SyncNext, tables
<1>3. CASE AttemptModule(p)
  BY <1>1, <1>3, AttemptMoves, AskMoves, EndAskMoves DEF AttemptModule
<1>4. PICK new : new = req'[p]
  OBVIOUS
<1>5. CASE Loop(p)
  <2>1. entitlements' = entitlements
    BY <1>1, <1>5, LoopMoves DEF tables
  <2>2. \A m \in Modules \ req[p].todo : RowOf(m)' \in SupportedRows(m)
    BY <1>1, <1>5, <2>1, NoRowChanges, LoopMoves DEF ChangerKnows
  <2>3. \A m \in Modules : Paired(RowOf(m)')
    BY <1>1, <2>1 DEF RowOf
  <2>4. CASE new.pc = "load"
    <3>1. new.phase = "sync" /\ new.todo = req[p].todo \ {new.mod}
          /\ new.kind = req[p].kind
      BY <1>1, <1>4, <1>5, <2>4, LoopMoves
    <3>2. ChangerKnows(req[p])'
      BY <1>2, <1>4, <2>2, <2>4, <3>1, ChangerGoes
    <3>. QED
      BY <1>1, <1>4, <1>5, <2>3, <2>4, <3>1, <3>2, LoopMoves DEF Fresh
  <2>5. CASE new.pc # "load"
    <3>1. /\ req[p].todo = {} /\ new.pc \in {"idle", "next"}
          /\ \/ new.pc = "idle"
             \/ /\ new.kind = "checkIn" /\ new.phase = "attempt"
                /\ new.cache = KeyIdsByModule
      BY <1>1, <1>4, <1>5, <2>5, LoopMoves
    <3>. QED
      BY <1>1, <1>4, <1>5, <2>2, <2>3, <3>1, LoopMoves DEF Fresh
  <2>. QED
    BY <2>4, <2>5
<1>6. CASE Load(p) \/ Plan(p)
  <2>1. /\ entitlements' = entitlements /\ req' = [req EXCEPT ![p] = new]
        /\ new.pc \in {"plan", "next", "write"} /\ new.kind = req[p].kind
        /\ new.phase = req[p].phase /\ new.cache \in {req[p].cache, Cached(p)}
        /\ new.change = req[p].change /\ new.todo = req[p].todo
        /\ new.mod = req[p].mod /\ new.loaded = entitlements[new.mod]
        /\ req[p].pc \in {"load", "plan"}
    BY <1>1, <1>4, <1>6, LoadMoves, PlanMoves DEF tables, ChangerKnows
  <2>2. \A m \in Modules : Paired(RowOf(m)')
    BY <1>1, <2>1 DEF RowOf
  <2>3. /\ new.pc = "write" => Supported(new.mod, new.after)
        /\ new.pc = "next" => Supported(new.mod, RowOf(new.mod))
    BY <1>1, <1>4, <1>6, <2>1, LoadMoves, ChangerPlans
  <2>4. \A m \in Modules \ new.todo :
           \/ new.pc \in {"load", "plan", "write"} /\ m = new.mod
           \/ RowOf(m)' \in SupportedRows(m)
    BY <1>1, <2>1, <2>3, NoRowChanges DEF ChangerKnows
  <2>5. ChangerKnows(req[p])'
    BY <1>1, <1>2, <1>4, <2>1, <2>3, <2>4, ChangerGoes
  <2>. QED
    BY <1>1, <1>4, <2>1, <2>2, <2>5 DEF Fresh
<1>7. CASE Write(p) \/ WriteFails(p) \/ Announce(p)
  <2>1. /\ req' = [req EXCEPT ![p] = new]
        /\ req[p].pc \in {"write", "announce"}
        /\ new.pc \in {"next", "announce"} /\ new.kind = req[p].kind
        /\ new.phase = req[p].phase /\ new.cache = req[p].cache
        /\ new.change = req[p].change /\ new.todo = req[p].todo
    BY <1>1, <1>4, <1>7, WriteMoves
  <2>2. ~WriteFails(p)
    BY <1>1 DEF WriteFails, Conflict, ChangerKnows
  <2>3. \A m \in Modules : Paired(RowOf(m)')
                           /\ (m \notin new.todo => RowOf(m)' \in SupportedRows(m))
    <3>1. CASE Announce(p)
      <4>1. entitlements' = entitlements /\ req[p].pc = "announce"
        BY <3>1 DEF Announce, tables
      <4>2. \A m \in Modules : Paired(RowOf(m)')
        BY <1>1, <4>1 DEF RowOf
      <4>. QED
        BY <1>1, <2>1, <4>1, <4>2, NoRowChanges DEF ChangerKnows
    <3>2. CASE Write(p)
      <4>1. PICK k \in Modules : k = req[p].mod
        BY <1>1, <3>2 DEF Write, Sound, Working
      <4>2. /\ RowOf(k)' \in SupportedRows(k)
            /\ \A m \in Modules \ {k} : RowOf(m)' = RowOf(m)
        BY <1>1, <3>2, <4>1, ChangerWrites
      <4>3. \A m \in Modules \ {k} : m \notin new.todo => RowOf(m) \in SupportedRows(m)
        BY <1>1, <2>1, <4>1, EmptyRowIsRow DEF ChangerKnows, SupportedRows, TypeOK, RowOf
      <4>4. \A m \in Modules \ {k} : Paired(RowOf(m)')
        BY <1>1, <4>2
      <4>. QED
        BY <4>2, <4>3, <4>4 DEF SupportedRows, Supported
    <3>. QED
      BY <1>7, <2>2, <3>1, <3>2
  <2>4. ChangerKnows(req[p])'
    BY <1>1, <1>2, <1>4, <2>1, <2>3, ChangerGoes
  <2>. QED
    BY <1>1, <1>4, <2>1, <2>3, <2>4 DEF Fresh
<1>. QED
  BY <1>3, <1>5, <1>6, <1>7 DEF Save

(* A step of one request that touches no table.                            *)
LEMMA QuietStep ==
  ASSUME IInv, CheckInsSupported, NEW p \in Requests, NEW new,
         req' = [req EXCEPT ![p] = new], UNCHANGED <<live, assigned, entitlements>>,
         Fresh(new), new.pc \notin {"ask", "load", "plan", "write"}
  PROVE  CheckInsSupported'
<1>1. req'[p] = new /\ \A q \in Requests \ {p} : req'[q] = req[q]
  BY OthersStay DEF IInv
<1>2. /\ \A m : RowOf(m)' = RowOf(m) /\ StoredKeys(m)' = StoredKeys(m)
      /\ KeyIdsByModule' = KeyIdsByModule
  BY DEF RowOf, StoredKeys, KeyIdsByModule, CandidateKeyIds, Holders
<1>3. \A m \in Modules : Supported(m, RowOf(m))'
  BY <1>2 DEF CheckInsSupported, Supported, Paired
<1>4. \A q \in Requests : Fresh(req[q])'
  BY <1>1, <1>2 DEF CheckInsSupported, Fresh
<1>5. CheckInKnows(req[p])'
  BY <1>1 DEF CheckInKnows
<1>6. ASSUME NEW q \in Requests \ {p}
      PROVE  CheckInKnows(req[q])'
  <2>1. PICK r : r = req[q] /\ r = req'[q]
    BY <1>1
  <2>2. CheckInKnows(r)
    BY <2>1 DEF CheckInsSupported
  <2>3. CheckInKnows(r)'
    BY <1>2, <2>2 DEF CheckInKnows, LoadedRow, Supported, Paired
  <2>. QED
    BY <2>1, <2>3 DEF CheckInKnows, LoadedRow
<1>. QED
  BY <1>3, <1>4, <1>5, <1>6 DEF CheckInsSupported

(* A request begins: a check-in beside other check-ins, or a change of     *)
(* keys on its own.                                                        *)
LEMMA BeginsSupported ==
  ASSUME IInv, RestsOnKeys, NEW p \in Requests, BeginRequest(p), OnlyCheckInsBeside'
  PROVE  RestsOnKeys'
<1>1. PICK kind, new :
        /\ Begin(p, kind, new)
        /\ new.kind = kind /\ new.phase = "attempt" /\ new.cache = NoCache
        /\ \/ kind \in {"checkInAll", "checkIn"} /\ new.pc = "next"
              /\ UNCHANGED <<live, assigned>>
           \/ kind \in Changers /\ new.pc = "assign"
  <2>1. ASSUME NEW loadable \in SUBSET Modules, CheckInAll(p, loadable)
        PROVE  \E new : /\ Begin(p, "checkInAll", new)
                        /\ new.kind = "checkInAll" /\ new.phase = "attempt"
                        /\ new.cache = NoCache /\ new.pc = "next"
                        /\ UNCHANGED <<live, assigned>>
    <3>1. /\ Begin(p, "checkInAll", [IdleRequest EXCEPT !.pc = "next",
                                      !.kind = "checkInAll", !.todo = loadable])
          /\ UNCHANGED <<live, assigned>>
      BY <2>1 DEF CheckInAll, tables
    <3>. QED
      BY <3>1 DEF IdleRequest
  <2>2. ASSUME NEW m \in Modules, CheckIn(p, m)
        PROVE  /\ Begin(p, "checkIn", [IdleRequest EXCEPT !.pc = "next", !.todo = {m}])
               /\ UNCHANGED <<live, assigned>>
    BY <2>2 DEF CheckIn, tables
  <2>3. ASSUME NEW m \in Modules, CheckIn(p, m)
        PROVE  \E new : /\ Begin(p, "checkIn", new)
                        /\ new.kind = "checkIn" /\ new.phase = "attempt"
                        /\ new.cache = NoCache /\ new.pc = "next"
                        /\ UNCHANGED <<live, assigned>>
    BY <2>2, <2>3 DEF IdleRequest
  <2>4. ASSUME NEW k \in Keys,
               \/ RemoveKey(p, k)
               \/ \E wanted \in SUBSET Modules :
                    AddKey(p, k, wanted) \/ UpdateKey(p, k, wanted)
        PROVE  \E kind \in Changers : \E dels, adds :
                 Begin(p, kind, Assigning(kind, k, dels, adds))
    BY <2>4 DEF RemoveKey, AddKey, UpdateKey, Changers
  <2>5. \A kind, k, dels, adds :
          LET new == Assigning(kind, k, dels, adds)
          IN  /\ new.kind = kind /\ new.phase = "attempt" /\ new.cache = NoCache
              /\ new.pc = "assign"
    BY DEF Assigning, IdleRequest
  <2>. QED
    BY <2>1, <2>3, <2>4, <2>5 DEF BeginRequest, OtherRequest
<1>2. /\ TypeOK /\ entitlements' = entitlements
      /\ req' = [req EXCEPT ![p] = new] /\ req[p].pc = "idle"
  BY <1>1 DEF BeginRequest, OtherRequest, CheckInAll, CheckIn, RemoveKey, AddKey,
     UpdateKey, Begin, IInv, tables
<1>3. UnderWay = {} \/ UnderWay \cup {kind} \subseteq {"checkInAll", "checkIn"}
  BY <1>1 DEF Begin, OnlyCheckInsBeside
<1>4. \A q \in Requests : ~Changing(q)
  BY <1>3 DEF UnderWay, Changing, Changers
<1>5. kind \in Changers => \A q \in Requests : req[q].pc = "idle"
  BY <1>3 DEF UnderWay, Changers
<1>6. CheckInsSupported
  BY <1>4 DEF RestsOnKeys
<1>7. req'[p] = new /\ \A q \in Requests \ {p} : req'[q] = req[q]
  BY <1>2, OthersStay
<1>8. \A m \in Modules : RowOf(m)' = RowOf(m)
  BY <1>2 DEF RowOf
<1>9. CASE kind \in Changers
  <2>1. /\ new.pc = "assign" /\ new.kind \in Changers
        /\ \A q \in Requests \ {p} : req'[q].pc = "idle"
    BY <1>1, <1>5, <1>7, <1>9 DEF Changers
  <2>2. Changing(p)'
    BY <1>7, <2>1 DEF Changing
  <2>3. \A q \in Requests : Fresh(req[q])'
    BY <1>7, <2>1 DEF Fresh
  <2>4. \A m \in Modules : Paired(RowOf(m))'
    BY <1>8 DEF RestsOnKeys, Paired
  <2>. QED
    BY <1>7, <2>1, <2>2, <2>3, <2>4 DEF RestsOnKeys, Changing
<1>10. CASE kind \notin Changers
  <2>1. /\ new.pc = "next" /\ new.kind = kind /\ UNCHANGED <<live, assigned>>
    BY <1>1, <1>10
  <2>2. Fresh(new)
    BY <1>1, <2>1 DEF Fresh
  <2>3. CheckInsSupported'
    BY <1>2, <1>6, <2>1, <2>2, QuietStep
  <2>4. \A q \in Requests : ~Changing(q)' /\ req'[q].pc # "assign"
    BY <1>4, <1>7, <1>10, <2>1 DEF RestsOnKeys, Changing
  <2>. QED
    BY <2>3, <2>4 DEF RestsOnKeys, CheckInsSupported, Supported
<1>. QED
  BY <1>9, <1>10

(* Keys are assigned by one that is on its own.                            *)
LEMMA AssignsSupported ==
  ASSUME IInv, RestsOnKeys, NEW p \in Requests, AssignKey(p)
  PROVE  RestsOnKeys'
<1>1. PICK new : new = req'[p]
  OBVIOUS
<1>2. /\ TypeOK /\ entitlements' = entitlements /\ req' = [req EXCEPT ![p] = new]
      /\ req[p].pc = "assign" /\ new.kind = req[p].kind
      /\ \/ new.pc = "assign"
         \/ /\ new.pc = "next" /\ new.phase = "sync" /\ new.todo = Modules
            /\ new.cache = NoCache /\ new.change = "none"
  BY <1>1, AssignMoves, EndAssignMoves DEF AssignKey, IInv
<1>3. /\ req[p].kind \in Changers /\ Changing(p)
      /\ \A q \in Requests \ {p} : req[q].pc = "idle"
  BY <1>2 DEF RestsOnKeys, Changing
<1>4. req'[p] = new /\ \A q \in Requests \ {p} : req'[q].pc = "idle"
  BY <1>2, <1>3, OthersStay
<1>5. Changing(p)'
  BY <1>2, <1>3, <1>4 DEF Changing
<1>6. \A q \in Requests : Fresh(req[q])'
  BY <1>2, <1>4 DEF Fresh
<1>7. \A m \in Modules : Paired(RowOf(m))'
  BY <1>2 DEF RestsOnKeys, Paired, RowOf
<1>8. req'[p].pc # "assign" => ChangerKnows(req[p])'
  BY <1>2, <1>4 DEF ChangerKnows
<1>. QED
  BY <1>2, <1>3, <1>4, <1>5, <1>6, <1>7, <1>8 DEF RestsOnKeys, Changing

LEMMA StepsSupported ==
  ASSUME IInv, RestsOnKeys, NEW p \in Requests,
         AttemptModule(p) \/ Save(p) \/ Loop(p)
  PROVE  RestsOnKeys'
<1>1. TypeOK /\ req[p].pc \notin {"idle", "assign"}
  BY DEF IInv, AttemptModule, Attempt, SkipKey, Ask, EndAsk, Save, Load, Plan, Write,
         WriteFails, Announce, Loop, EndLoop, SyncNext
<1>2. CASE Changing(p)
  <2>1. \A q \in Requests \ {p} : req[q].pc = "idle"
    BY <1>2 DEF RestsOnKeys
  <2>2. PICK new : /\ new = req'[p] /\ req' = [req EXCEPT ![p] = new]
                   /\ Fresh(new) /\ new.pc # "assign"
    BY <1>1, <1>2, ChangerSteps
  <2>3. req'[p] = new /\ \A q \in Requests \ {p} : req'[q].pc = "idle"
    BY <1>1, <2>1, <2>2, OthersStay
  <2>4. UNCHANGED <<live, assigned>>
    BY DEF AttemptModule, Attempt, SkipKey, Ask, EndAsk, Save, Load, Plan, Write,
           WriteFails, Announce, Loop, EndLoop, SyncNext, tables
  <2>5. \A q \in Requests : Fresh(req[q])'
    BY <2>2, <2>3, <2>4 DEF Fresh, KeyIdsByModule
  <2>6. \A m \in Modules : Paired(RowOf(m))'
    BY <1>1, <1>2, ChangerSteps DEF Paired
  <2>7. CASE ChangerKnows(req[p])' /\ new.pc # "idle" /\ new.kind = req[p].kind
    <3>1. Changing(p)'
      BY <1>2, <2>3, <2>7 DEF Changing
    <3>. QED
      BY <2>2, <2>3, <2>5, <2>6, <2>7, <3>1 DEF RestsOnKeys, Changing
  <2>8. CASE /\ new.pc = "idle" \/ new.kind = "checkIn"
             /\ new.pc \in {"idle", "next"}
             /\ \A m \in Modules : RowOf(m)' \in SupportedRows(m)
    <3>1. \A q \in Requests : ~Changing(q)' /\ req'[q].pc \in {"idle", "next"}
      BY <2>3, <2>8 DEF Changing, Changers
    <3>2. \A q \in Requests : CheckInKnows(req[q])'
      BY <3>1 DEF CheckInKnows
    <3>3. \A m : StoredKeys(m)' = StoredKeys(m)
      BY <2>4 DEF StoredKeys, KeyIdsByModule, CandidateKeyIds, Holders
    <3>4. \A m \in Modules : Supported(m, RowOf(m))'
      BY <2>8, <3>3 DEF SupportedRows, Supported, Paired
    <3>5. CheckInsSupported'
      BY <2>5, <3>2, <3>4 DEF CheckInsSupported
    <3>. QED
      BY <2>5, <2>6, <3>1, <3>5 DEF RestsOnKeys
  <2>. QED
    BY <1>1, <1>2, <2>2, <2>7, <2>8, ChangerSteps
<1>3. CASE ~Changing(p)
  <2>1. \A q \in Requests : ~Changing(q)
    BY <1>1, <1>3 DEF RestsOnKeys
  <2>2. CheckInsSupported
    BY <2>1 DEF RestsOnKeys
  <2>3. CheckInsSupported'
    BY <2>2, CheckInKeepsSupport
  <2>4. /\ req' = [req EXCEPT ![p] = req'[p]]
        /\ req'[p].pc # "assign"
        /\ req'[p].pc = "idle" \/ req'[p].kind \in {req[p].kind, "checkIn"}
    <3>1. CASE AttemptModule(p) \/ Loop(p)
      BY <1>1, <3>1, AttemptMoves, AskMoves, EndAskMoves, LoopMoves DEF AttemptModule
    <3>2. CASE Save(p)
      BY <1>1, <3>2, LoadMoves, PlanMoves, WriteMoves DEF Save
    <3>. QED
      BY <3>1, <3>2
  <2>5. PICK new : /\ new = req'[p] /\ req' = [req EXCEPT ![p] = new]
                   /\ new.pc # "assign"
                   /\ new.pc = "idle" \/ new.kind \in {req[p].kind, "checkIn"}
    BY <2>4
  <2>6. req'[p] = new /\ \A q \in Requests \ {p} : req'[q] = req[q]
    BY <1>1, <2>5, OthersStay
  <2>7. \A q \in Requests : ~Changing(q)' /\ req'[q].pc # "assign"
    <3>1. \A q \in Requests : req[q].pc # "assign"
      BY <2>1 DEF RestsOnKeys, Changing
    <3>. QED
      BY <1>1, <2>1, <2>5, <2>6, <3>1 DEF Changing, Changers
  <2>. QED
    BY <2>3, <2>7 DEF RestsOnKeys, CheckInsSupported, Supported
<1>. QED
  BY <1>2, <1>3, SMTT(40)

LEMMA NextSupported == IInv /\ SupportInv /\ [Next]_vars => SupportInv'
<1>. SUFFICES ASSUME IInv, SupportInv, [Next]_vars, OnlyCheckInsBeside'
              PROVE  RestsOnKeys'
  BY DEF SupportInv
<1>1. RestsOnKeys /\ TypeOK
  BY RecordsStay DEF IInv, SupportInv, OnlyCheckInsBeside
<1>2. ASSUME NEW p \in Requests, BeginRequest(p)
      PROVE  RestsOnKeys'
  BY <1>1, <1>2, BeginsSupported
<1>3. ASSUME NEW p \in Requests, AssignKey(p)
      PROVE  RestsOnKeys'
  BY <1>1, <1>3, AssignsSupported
<1>4. ASSUME NEW p \in Requests, AttemptModule(p) \/ Save(p) \/ Loop(p)
      PROVE  RestsOnKeys'
  BY <1>1, <1>4, StepsSupported
<1>5. ASSUME NEW p \in Requests, Abort(p)
      PROVE  FALSE
  BY <1>1, <1>5 DEF Abort, OnlyCheckInsBeside, TypeOK
<1>6. CASE Tick \/ UNCHANGED vars
  <2>1. UNCHANGED <<req, live, assigned, entitlements>>
    BY <1>6 DEF Tick, vars, tables
  <2>2. /\ \A m : RowOf(m)' = RowOf(m) /\ StoredKeys(m)' = StoredKeys(m)
        /\ KeyIdsByModule' = KeyIdsByModule
    BY <2>1 DEF RowOf, StoredKeys, KeyIdsByModule, CandidateKeyIds, Holders
  <2>3. \A p \in Requests :
          /\ Fresh(req[p])' <=> Fresh(req[p])
          /\ Changing(p)' <=> Changing(p)
    BY <2>1, <2>2 DEF Fresh, Changing
  <2>4. \A p \in Requests :
          /\ CheckInKnows(req[p])' <=> CheckInKnows(req[p])
          /\ ChangerKnows(req[p])' <=> ChangerKnows(req[p])
    BY <2>1, <2>2 DEF ChangerKnows, CheckInKnows, Supported, Paired, LoadedRow
  <2>5. CheckInsSupported' <=> CheckInsSupported
    BY <2>2, <2>3, <2>4 DEF CheckInsSupported, Supported, Paired
  <2>. QED
    BY <1>1, <2>1, <2>2, <2>3, <2>4, <2>5 DEF RestsOnKeys, Paired
<1>. QED
  BY <1>2, <1>3, <1>4, <1>5, <1>6 DEF Next

(* "Check-in history belongs to the key that earned it": a licensed module *)
(* was validated by a key that is still stored for it.                     *)
THEOREM LicencesRestOnKeys == Spec => []LicensedByStoredKey
<1>1. Init => SupportInv
  <2>. SUFFICES ASSUME Init PROVE RestsOnKeys
    BY DEF SupportInv
  <2>1. \A p \in Requests : req[p].pc = "idle"
    BY DEF Init, IdleRequest
  <2>2. \A m \in Modules : RowOf(m) = EmptyRow
    BY DEF Init, RowOf
  <2>. QED
    BY <2>1, <2>2 DEF RestsOnKeys, Changing, Fresh, CheckInsSupported, CheckInKnows,
       Supported, Paired, EmptyRow
<1>2. IInv /\ SupportInv /\ [Next]_vars => SupportInv'
  BY NextSupported
<1>3. IInv /\ SupportInv => LicensedByStoredKey
  <2>. SUFFICES ASSUME SupportInv, UnderWay = {}, OnlyCheckInsBeside,
                       NEW m \in Modules, IsLicensed(m)
                PROVE  RowOf(m).key \in StoredKeys(m)
    BY DEF LicensedByStoredKey, OnlyCheckInsBeside
  <2>1. Supported(m, RowOf(m))
    BY DEF UnderWay, SupportInv, RestsOnKeys, Changing, CheckInsSupported
  <2>2. RowOf(m).success # None
    BY DEF IsLicensed, EntitlementState, StateOf, LicensedStates
  <2>. QED
    BY <2>1, <2>2 DEF Supported, Paired
<1>. QED
  BY <1>1, <1>2, <1>3, InvariantHolds, PTL DEF Spec

-----------------------------------------------------------------------------
(* The claim of the day.                                                   *)
-----------------------------------------------------------------------------

LEMMA ClaimsAssumption ==
  /\ MaxTime \in Nat
  /\ CrossesMidnight \in BOOLEAN
  /\ {NoRow, Null, Earlier} \cap Claims!Days = {}
BY LicensingAssumption, LicensedDaysAssumption

(* A caller that is claiming works on today's date; once its UPDATE found  *)
(* nothing to do, the row is missing or says today.                        *)
Punctual ==
  \A c \in Requests :
    /\ Claims!Claiming(c) => caller[c].today = now
    /\ caller[c].pc \in {"select", "insert"} => claim \in {NoRow, now}

(* The row, and every copy of it that a request has cached, names a day    *)
(* that was claimed; no day is claimed twice, today's claim is in the row, *)
(* and no day to come is claimed.                                          *)
RowNamesTheClaim ==
  /\ claim \in Claims!Days => claims[claim] = 1
  /\ \A c \in Requests :
       caller[c].cached \in Claims!Days => claims[caller[c].cached] = 1
  /\ \A d \in Claims!Days : claims[d] <= 1 /\ (d > now => claims[d] = 0)
  /\ claims[now] = 1 => claim = now

ClaimInv == Claims!TypeOK /\ Punctual /\ RowNamesTheClaim /\ Claims!TurnedAwayFromTaken

LEMMA ClaimInitInv == Claims!Init => ClaimInv
BY ClaimsAssumption
   DEF Claims!Init, Claims!IdleCaller, ClaimInv, Claims!TypeOK, Claims!CallerStates,
       Claims!Values, Claims!Days, Punctual, Claims!Claiming,
       RowNamesTheClaim, Claims!TurnedAwayFromTaken

LEMMA GoesTyped ==
  ASSUME Claims!TypeOK, NEW c \in Requests,
         NEW pc \in {"idle", "ask", "update", "select", "insert", "won", "lost"},
         Claims!Goes(c, pc)
  PROVE  /\ caller' \in [Requests -> Claims!CallerStates]
         /\ \A b \in Requests :
              /\ caller'[b].pc = IF b = c THEN pc ELSE caller[b].pc
              /\ caller'[b].cached = caller[b].cached
              /\ caller'[b].today = caller[b].today
BY DEF Claims!TypeOK, Claims!Goes, Claims!CallerStates

(* The step that gives a caller the day: nobody had it, and the row says   *)
(* so to everyone after.                                                   *)
LEMMA WinKeepsIInv ==
  ASSUME ClaimInv, NEW c \in Requests, Claims!Claiming(c), claim # caller[c].today,
         claim' = caller[c].today, Claims!Wins(c), Claims!Goes(c, "won"), UNCHANGED now
  PROVE  ClaimInv'
<1>1. /\ Claims!TypeOK /\ now \in Claims!Days /\ caller[c].today = now
      /\ claims \in [Claims!Days -> Nat] /\ claims[now] = 0
  BY DEF ClaimInv, Claims!TypeOK, Punctual, RowNamesTheClaim, Claims!Days
<1>2. \A d \in Claims!Days : claims'[d] = IF d = now THEN 1 ELSE claims[d]
  BY <1>1 DEF Claims!Wins
<1>3. /\ caller' \in [Requests -> Claims!CallerStates]
      /\ \A b \in Requests :
           /\ caller'[b].pc = IF b = c THEN "won" ELSE caller[b].pc
           /\ caller'[b].cached = caller[b].cached
           /\ caller'[b].today = caller[b].today
  BY <1>1, GoesTyped
<1>4. Claims!TypeOK'
  BY <1>1, <1>3 DEF Claims!TypeOK, Claims!Wins, Claims!Values
<1>5. Punctual'
  BY <1>1, <1>3 DEF ClaimInv, Punctual, Claims!Claiming
<1>6. \A b \in Requests : caller[b].cached \in Claims!Days => caller[b].cached # now
  BY <1>1 DEF ClaimInv, RowNamesTheClaim
<1>7. RowNamesTheClaim'
  <2>1. now' = now /\ claim' = now
    BY <1>1
  <2>2. \A d \in Claims!Days : claims'[d] <= 1 /\ (d > now => claims'[d] = 0)
    <3>1. now \in Int /\ \A d \in Claims!Days : d \in Int
      BY <1>1, ClaimsAssumption DEF Claims!Days
    <3>2. \A d \in Claims!Days : claims[d] <= 1 /\ (d > now => claims[d] = 0)
      BY DEF ClaimInv, RowNamesTheClaim
    <3>. QED
      BY <1>2, <3>1, <3>2
  <2>3. \A b \in Requests :
          caller'[b].cached \in Claims!Days => claims'[caller'[b].cached] = 1
    BY <1>1, <1>2, <1>3, <1>6 DEF ClaimInv, RowNamesTheClaim
  <2>. QED
    BY <1>1, <1>2, <2>1, <2>2, <2>3 DEF RowNamesTheClaim
<1>8. \A b \in Requests : caller[b].today \in Claims!Days
  BY <1>1 DEF Claims!TypeOK, Claims!CallerStates
<1>9. Claims!TurnedAwayFromTaken'
  BY <1>1, <1>2, <1>3, <1>8 DEF ClaimInv, Claims!TurnedAwayFromTaken
<1>. QED
  BY <1>4, <1>5, <1>7, <1>9 DEF ClaimInv

(* Every other step of a caller leaves the row and the claims alone.       *)
LEMMA NoWinKeepsIInv ==
  ASSUME ClaimInv, NEW c \in Requests, UNCHANGED <<now, claim, claims>>,
         NEW pc \in {"idle", "select", "insert", "lost"}, Claims!Goes(c, pc),
         pc = "select" => Claims!Claiming(c) /\ claim \in {NoRow, now},
         pc = "insert" => Claims!Claiming(c) /\ claim = NoRow,
         pc = "lost" => Claims!Claiming(c) /\ claim = now
  PROVE  ClaimInv'
<1>1. /\ caller' \in [Requests -> Claims!CallerStates]
      /\ \A b \in Requests :
           /\ caller'[b].pc = IF b = c THEN pc ELSE caller[b].pc
           /\ caller'[b].cached = caller[b].cached
           /\ caller'[b].today = caller[b].today
  BY GoesTyped DEF ClaimInv
<1>2. Claims!TypeOK'
  BY <1>1 DEF ClaimInv, Claims!TypeOK
<1>3. Punctual'
  BY <1>1 DEF ClaimInv, Punctual, Claims!Claiming
<1>4. RowNamesTheClaim'
  BY <1>1 DEF ClaimInv, RowNamesTheClaim
<1>5. pc = "lost" => caller[c].today = now /\ claims[now] = 1
  BY DEF ClaimInv, Claims!TypeOK, Punctual, RowNamesTheClaim
<1>6. Claims!TurnedAwayFromTaken'
  BY <1>1, <1>5 DEF ClaimInv, Claims!TurnedAwayFromTaken
<1>. QED
  BY <1>2, <1>3, <1>4, <1>6 DEF ClaimInv

(* A caller that ends, or is lost, takes nothing back.                     *)
LEMMA EndKeepsIInv ==
  ASSUME ClaimInv, NEW c \in Requests, Claims!Ends(c), UNCHANGED <<now, claim, claims>>
  PROVE  ClaimInv'
<1>1. /\ caller' \in [Requests -> Claims!CallerStates]
      /\ \A b \in Requests : b # c => caller'[b] = caller[b]
      /\ caller'[c].pc = "idle" /\ caller'[c].cached = NoRow
  BY ClaimsAssumption
     DEF Claims!Ends, Claims!IdleCaller, ClaimInv, Claims!TypeOK,
         Claims!CallerStates, Claims!Values, Claims!Days
<1>2. Claims!TypeOK' /\ Punctual'
  BY <1>1 DEF ClaimInv, Claims!TypeOK, Punctual, Claims!Claiming
<1>3. RowNamesTheClaim'
  BY <1>1, ClaimsAssumption DEF ClaimInv, RowNamesTheClaim
<1>4. Claims!TurnedAwayFromTaken'
  BY <1>1 DEF ClaimInv, Claims!TurnedAwayFromTaken
<1>. QED
  BY <1>2, <1>3, <1>4 DEF ClaimInv

LEMMA ClaimNextInv ==
  ASSUME ~CrossesMidnight
  PROVE  ClaimInv /\ [Claims!Next]_(Claims!vars) => ClaimInv'
<1>. SUFFICES ASSUME ClaimInv, [Claims!Next]_(Claims!vars) PROVE ClaimInv'
  OBVIOUS
<1>. USE ClaimsAssumption
<1>1. ASSUME NEW c \in Requests, Claims!ReadSettings(c)
      PROVE  ClaimInv'
  <2>1. /\ caller' \in [Requests -> Claims!CallerStates]
        /\ \A b \in Requests :
             /\ caller'[b].pc = IF b = c THEN "ask" ELSE caller[b].pc
             /\ caller'[b].cached = IF b = c THEN claim ELSE caller[b].cached
             /\ caller'[b].today = caller[b].today
    BY <1>1 DEF Claims!ReadSettings, ClaimInv, Claims!TypeOK, Claims!CallerStates
  <2>2. UNCHANGED <<now, claim, claims>>
    BY <1>1 DEF Claims!ReadSettings
  <2>. QED
    BY <2>1, <2>2 DEF ClaimInv, Claims!TypeOK, Punctual, Claims!Claiming,
                      RowNamesTheClaim,
                      Claims!TurnedAwayFromTaken
<1>2. ASSUME NEW c \in Requests, Claims!DailyCheckInDue(c)
      PROVE  ClaimInv'
  <2>1. /\ caller' \in [Requests -> Claims!CallerStates]
        /\ \A b \in Requests :
             /\ b # c => caller'[b] = caller[b]
             /\ caller'[b].cached = caller[b].cached
        /\ caller'[c].pc = IF caller[c].cached = now THEN "lost" ELSE "update"
        /\ caller'[c].today = now
    BY <1>2 DEF Claims!DailyCheckInDue, ClaimInv, Claims!TypeOK, Claims!CallerStates
  <2>2. UNCHANGED <<now, claim, claims>>
    BY <1>2 DEF Claims!DailyCheckInDue
  <2>3. Claims!TypeOK' /\ Punctual' /\ RowNamesTheClaim'
    BY <2>1, <2>2 DEF ClaimInv, Claims!TypeOK, Punctual, Claims!Claiming,
                      RowNamesTheClaim
  <2>4. caller[c].cached = now => claims[now] = 1
    BY DEF ClaimInv, Claims!TypeOK, RowNamesTheClaim
  <2>5. Claims!TurnedAwayFromTaken'
    BY <2>1, <2>2, <2>4 DEF ClaimInv, Claims!TurnedAwayFromTaken
  <2>. QED
    BY <2>3, <2>5 DEF ClaimInv
<1>3. ASSUME NEW c \in Requests, Claims!Update(c)
      PROVE  ClaimInv'
  BY <1>3, WinKeepsIInv DEF Claims!Update, Claims!Matches, Claims!Claiming
<1>4. ASSUME NEW c \in Requests, Claims!UpdateMatchesNothing(c)
      PROVE  ClaimInv'
  <2>1. Claims!Claiming(c) /\ claim \in {NoRow, now}
    BY <1>4 DEF Claims!UpdateMatchesNothing, Claims!Matches, Claims!Claiming,
                ClaimInv, Punctual
  <2>. QED
    BY <1>4, <2>1, NoWinKeepsIInv DEF Claims!UpdateMatchesNothing
<1>5. ASSUME NEW c \in Requests, Claims!Select(c)
      PROVE  ClaimInv'
  <2>1. Claims!Claiming(c) /\ claim \in {NoRow, now}
    BY <1>5 DEF Claims!Select, Claims!Claiming, ClaimInv, Punctual
  <2>. QED
    BY <1>5, <2>1, NoWinKeepsIInv DEF Claims!Select
<1>6. ASSUME NEW c \in Requests, Claims!Insert(c)
      PROVE  ClaimInv'
  <2>1. claim # caller[c].today
    BY <1>6 DEF Claims!Insert, ClaimInv, Claims!TypeOK, Claims!CallerStates
  <2>. QED
    BY <1>6, <2>1, WinKeepsIInv DEF Claims!Insert, Claims!Claiming
<1>7. ASSUME NEW c \in Requests, Claims!InsertFails(c)
      PROVE  ClaimInv'
  <2>1. Claims!Claiming(c) /\ claim = now
    BY <1>7 DEF Claims!InsertFails, Claims!Claiming, ClaimInv, Punctual
  <2>. QED
    BY <1>7, <2>1, NoWinKeepsIInv DEF Claims!InsertFails
<1>8. ASSUME NEW c \in Requests, Claims!End(c)
      PROVE  ClaimInv'
  BY <1>8, EndKeepsIInv DEF Claims!End
<1>9. CASE Claims!Midnight
  <2>1. /\ now' = now + 1 /\ now' \in Claims!Days /\ now \in Claims!Days
        /\ UNCHANGED <<claim, caller, claims>>
    BY <1>9 DEF Claims!Midnight, ClaimInv, Claims!TypeOK, Claims!Days
  <2>2. \A c \in Requests : ~Claims!Claiming(c)
    BY <1>9 DEF Claims!Midnight
  <2>3. claims'[now'] = 0
    BY <2>1 DEF ClaimInv, RowNamesTheClaim, Claims!Days
  <2>4. Punctual'
    BY <2>1, <2>2 DEF Punctual, Claims!Claiming
  <2>5. RowNamesTheClaim'
    BY <2>1, <2>3 DEF ClaimInv, RowNamesTheClaim, Claims!Days
  <2>. QED
    BY <2>1, <2>4, <2>5 DEF ClaimInv, Claims!TypeOK, Claims!TurnedAwayFromTaken
<1>10. CASE UNCHANGED Claims!vars
  BY <1>10 DEF Claims!vars, ClaimInv, Claims!TypeOK, Punctual, Claims!Claiming,
               RowNamesTheClaim,
               Claims!TurnedAwayFromTaken
<1>. QED
  BY <1>1, <1>2, <1>3, <1>4, <1>5, <1>6, <1>7, <1>8, <1>9, <1>10 DEF Claims!Next

(* Unless midnight overtakes a caller that is claiming, no two callers are *)
(* told that the same day's check-in is theirs (claimDay()), and none is   *)
(* turned away from a day that nobody has.                                 *)
THEOREM DayClaimedOnce ==
  ASSUME ~CrossesMidnight
  PROVE  Claims!Spec => [](Claims!OneClaimPerDay /\ Claims!TurnedAwayFromTaken)
<1>1. ClaimInv => Claims!OneClaimPerDay /\ Claims!TurnedAwayFromTaken
  BY DEF ClaimInv, RowNamesTheClaim, Claims!OneClaimPerDay
<1>. QED
  BY <1>1, ClaimInitInv, ClaimNextInv, PTL DEF Claims!Spec

-----------------------------------------------------------------------------
(* The two together.                                                       *)
-----------------------------------------------------------------------------

(* No step of Licensing but its Tick moves the clock.                      *)
LEMMA LicenceStepKeepsTime ==
  ASSUME NEW c \in Requests, LicenceStep(c) PROVE now' = now
<1>1. BeginRequest(c) => now' = now
  BY DEF BeginRequest, OtherRequest, CheckInAll, CheckIn, AddKey, UpdateKey, RemoveKey
<1>2. AssignKey(c) => now' = now
  BY SMTT(40) DEF AssignKey, EndAssign, Unassign, Assign
<1>3. AttemptModule(c) => now' = now
  BY DEF AttemptModule, Attempt, SkipKey, Ask, EndAsk
<1>4. Save(c) => now' = now
  BY SMTT(40) DEF Save, Load, Plan, Write, WriteFails, Announce
<1>5. Loop(c) \/ Abort(c) => now' = now
  BY DEF Loop, EndLoop, SyncNext, Abort
<1> QED
  BY <1>1, <1>2, <1>3, <1>4, <1>5 DEF LicenceStep, BeginRequest

LEMMA ClaimStepKeepsTime ==
  ASSUME NEW c \in Requests, ClaimStep(c) PROVE now' = now
BY DEF ClaimStep, Claims!ReadSettings, Claims!DailyCheckInDue, Claims!Update,
   Claims!UpdateMatchesNothing, Claims!Select, Claims!Insert, Claims!InsertFails,
   Claims!End

(* The daily check-in as DailyClaim sees it.                               *)
THEOREM DaysClaim == SpecOfDays => Claims!Spec
<1>1. InitDays => Claims!Init
  BY DEF InitDays
<1>2. ASSUME [NextOfDays]_dayVars PROVE [Claims!Next]_(Claims!vars)
  <2>. USE DEF claimVars
  <2>1. ASSUME NEW c \in Requests, LicenceStep(c) PROVE UNCHANGED Claims!vars
    BY <2>1, LicenceStepKeepsTime DEF LicenceStep, Claims!vars
  <2>2. ASSUME NEW c \in Requests, ClaimStep(c) PROVE Claims!Next
    BY <2>2 DEF ClaimStep, Claims!Next
  <2>3. ASSUME NEW c \in Requests, NEW loadable \in SUBSET Modules,
               CheckInDue(c, loadable)
        PROVE  Claims!Next
    <3>1. Claims!End(c)
      BY <2>3 DEF CheckInDue, CheckInAll, Claims!End
    <3> QED BY <3>1 DEF Claims!Next
  <2>4. ASSUME NEW c \in Requests, DiesBeforeCheckIn(c) PROVE Claims!Next
    <3>1. Claims!End(c)
      BY <2>4 DEF DiesBeforeCheckIn, Claims!End
    <3> QED BY <3>1 DEF Claims!Next
  <2>5. CASE NextDay
    BY <2>5 DEF NextDay, Claims!Next
  <2>6. CASE UNCHANGED dayVars
    BY <2>6 DEF dayVars, Claims!vars
  <2>7. ASSUME NEW c \in Requests, NEW loadable \in SUBSET Modules,
               CheckAll(c, loadable)
        PROVE  UNCHANGED Claims!vars
    BY <2>7 DEF CheckAll, CheckInAll, Claims!vars
  <2> QED
    BY <1>2, <2>1, <2>2, <2>3, <2>4, <2>5, <2>6, <2>7 DEF NextOfDays
<1> QED
  BY <1>1, <1>2, PTL DEF SpecOfDays, Claims!Spec

(* The daily check-in as Licensing sees it.                                *)
LEMMA DayIsLicensing == [NextOfDays]_dayVars => [Next]_vars
<1> SUFFICES ASSUME [NextOfDays]_dayVars PROVE [Next]_vars
  OBVIOUS
<1>1. ASSUME NEW c \in Requests, LicenceStep(c) PROVE Next
  BY <1>1 DEF LicenceStep, Next, BeginRequest
<1>2. ASSUME NEW c \in Requests, ClaimStep(c) PROVE UNCHANGED vars
  BY <1>2, ClaimStepKeepsTime DEF ClaimStep, licenceVars, vars
<1>3. ASSUME NEW c \in Requests, NEW loadable \in SUBSET Modules,
             CheckAll(c, loadable) \/ CheckInDue(c, loadable)
      PROVE  Next
  BY <1>3 DEF CheckAll, CheckInDue, Next, BeginRequest
<1>4. ASSUME NEW c \in Requests, DiesBeforeCheckIn(c) PROVE UNCHANGED vars
  BY <1>4 DEF DiesBeforeCheckIn, licenceVars, vars
<1>5. CASE NextDay
  <2>1. Tick
    BY <1>5 DEF NextDay, Claims!Midnight, licenceVars, Tick, tables, bounds
  <2> QED BY <2>1 DEF Next
<1>6. CASE UNCHANGED dayVars
  BY <1>6 DEF dayVars, licenceVars, vars
<1> QED
  BY <1>1, <1>2, <1>3, <1>4, <1>5, <1>6 DEF NextOfDays

THEOREM DaysLicense == SpecOfDays => Spec
BY DayIsLicensing, PTL DEF InitDays, SpecOfDays, Spec

(* With check-ins, removals and crashes beside them, no two requests or    *)
(* cron passes owe the same day's check-in ("at most once per calendar     *)
(* day"), unless midnight overtakes one that is claiming.                  *)
THEOREM OneCheckInPerDay ==
  ASSUME ~CrossesMidnight
  PROVE  SpecOfDays => []OneClaimPerDay
<1>1. Claims!Spec => [](Claims!OneClaimPerDay /\ Claims!TurnedAwayFromTaken)
  BY DayClaimedOnce
<1>2. Claims!OneClaimPerDay => OneClaimPerDay
  BY DEF OneClaimPerDay
<1> QED
  BY <1>1, <1>2, DaysClaim, PTL

(* "Only a successful check-in moves that timestamp", however the day's    *)
(* check-in and those of the screen and the command line overlap.          *)
THEOREM DaysMoveSuccessBySuccess == SpecOfDays => OnlySuccessMovesSuccess
BY DaysLicense, SuccessMovesOnlyBySuccess

-----------------------------------------------------------------------------
(* Only time ends a licence.                                               *)
-----------------------------------------------------------------------------

(* What validated did so today; what is about to be written keeps the last *)
(* success or puts this one in its place.                                  *)
Timely(r) ==
  r.pc \in {"ask", "load", "plan", "write"} /\ r.change = "valid" => r.at = now
KeepsSuccess(r) ==
  r.pc = "write" => \/ r.after.success = LoadedRow(r).success
                    \/ r.change = "valid" /\ r.after.success = r.at

NoKeysSaved == Kinds \cap {"addKey", "updateKey"} = {}

(* Keys are only ever removed, and a removal takes its key with it: while  *)
(* no key is touched, nobody has come further than to the assignments.     *)
OnlyRemovals ==
  /\ assigned \subseteq Stored
  /\ \A p \in Requests :
       /\ req[p].pc # "idle" => req[p].kind \in {"checkInAll", "checkIn", "removeKey"}
       /\ req[p].pc = "assign" =>
            req[p].kind = "removeKey" /\ req[p].key \in used /\ req[p].adds = {}

Kept ==
  /\ CheckInsSupported
  /\ \A p \in Requests :
       /\ req[p].pc \notin {"idle", "assign"} => req[p].kind # "removeKey"
       /\ Timely(req[p]) /\ KeepsSuccess(req[p])

KeptInv == OnlyRemovals /\ (KeysUntouched => Kept)

(* The request that a removal or a check-in begins as.                     *)
LEMMA Begins ==
  ASSUME IInv, KeptInv, NoKeysSaved, NEW p \in Requests, BeginRequest(p)
  PROVE  /\ UNCHANGED <<now, live, used, assigned, entitlements>>
         /\ req' = [req EXCEPT ![p] = req'[p]]
         /\ Fresh(req'[p])
         /\ \/ req'[p].pc = "next" /\ req'[p].kind \in {"checkInAll", "checkIn"}
            \/ /\ req'[p].pc = "assign" /\ req'[p].kind = "removeKey"
               /\ req'[p].key \in used /\ req'[p].adds = {}
<1>. DEFINE Stays == UNCHANGED <<now, live, used, assigned, entitlements>>
            Begun(new) == /\ Fresh(new)
                          /\ \/ /\ new.pc = "next"
                                /\ new.kind \in {"checkInAll", "checkIn"}
                             \/ /\ new.pc = "assign" /\ new.kind = "removeKey"
                                /\ new.key \in used /\ new.adds = {}
<1>1. TypeOK /\ live \subseteq used
  BY DEF IInv, TypeOK
<1>2. ASSUME NEW loadable \in SUBSET Modules, CheckInAll(p, loadable)
      PROVE  Stays /\ req' = [req EXCEPT ![p] = req'[p]] /\ Begun(req'[p])
  <2>. DEFINE new == [IdleRequest EXCEPT !.pc = "next", !.kind = "checkInAll",
                                         !.todo = loadable]
  <2>1. req' = [req EXCEPT ![p] = new] /\ Stays
    BY <1>2 DEF CheckInAll, Begin, tables
  <2>2. Begun(new)
    BY DEF IdleRequest, Fresh
  <2>. HIDE DEF new
  <2>. QED
    BY <1>1, <2>1, <2>2, OthersStay
<1>3. ASSUME NEW m \in Modules, CheckIn(p, m)
      PROVE  Stays /\ req' = [req EXCEPT ![p] = req'[p]] /\ Begun(req'[p])
  <2>. DEFINE new == [IdleRequest EXCEPT !.pc = "next", !.todo = {m}]
  <2>1. req' = [req EXCEPT ![p] = new] /\ Stays
    BY <1>3 DEF CheckIn, Begin, tables
  <2>2. Begun(new)
    BY DEF IdleRequest, Fresh
  <2>. HIDE DEF new
  <2>. QED
    BY <1>1, <2>1, <2>2, OthersStay
<1>4. ASSUME NEW k \in Keys, RemoveKey(p, k)
      PROVE  Stays /\ req' = [req EXCEPT ![p] = req'[p]] /\ Begun(req'[p])
  <2>. DEFINE new == Assigning("removeKey", k, AssignedTo(k), {})
  <2>1. req' = [req EXCEPT ![p] = new] /\ Stays /\ k \in live
    BY <1>4 DEF RemoveKey, Begin, tables
  <2>2. Begun(new)
    BY <1>1, <2>1 DEF IdleRequest, Assigning, Fresh
  <2>. HIDE DEF new
  <2>. QED
    BY <1>1, <2>1, <2>2, OthersStay
<1>5. ASSUME NEW k \in Keys, NEW wanted \in SUBSET Modules,
             AddKey(p, k, wanted) \/ UpdateKey(p, k, wanted)
      PROVE  FALSE
  BY <1>5, LicensingAssumption DEF AddKey, UpdateKey, Begin, NoKeysSaved
<1>. QED
  BY <1>2, <1>3, <1>4, <1>5 DEF BeginRequest, OtherRequest

(* What a check-in writes keeps the success, while keys stay stored.       *)
LEMMA TimelySteps ==
  ASSUME IInv, CheckInsSupported, NEW p \in Requests,
         AttemptModule(p) \/ Save(p) \/ Loop(p), Timely(req[p])
  PROVE  Timely(req'[p]) /\ KeepsSuccess(req'[p]) /\ now' = now
<1>1. TypeOK /\ req[p] \in RequestStates /\ Sound(req[p]) /\ Fresh(req[p])
      /\ CheckInKnows(req[p])
  BY DEF IInv, TypeOK, Chosen, CheckInsSupported
<1>2. CASE AttemptModule(p)
  BY <1>1, <1>2, AttemptMoves, AskMoves, EndAskMoves
     DEF AttemptModule, Timely, KeepsSuccess
<1>3. CASE Loop(p)
  BY <1>1, <1>3, LoopMoves DEF Timely, KeepsSuccess, Fresh
<1>4. CASE Load(p)
  BY <1>1, <1>4, LoadMoves DEF Timely, KeepsSuccess
<1>5. CASE Plan(p)
  <2>. DEFINE row == LoadedRow(req[p])
              keyIds == CandidateKeyIds(Cached(p), req[p].mod)
              changed == Changed(row, keyIds, req[p])
  <2>1. req[p].pc = "plan"
    BY <1>5 DEF Plan
  <2>2. row \in Rows /\ Supported(req[p].mod, row) /\ keyIds = StoredKeys(req[p].mod)
    BY <1>1, <2>1, EmptyRowIsRow, FreshCache DEF CheckInKnows, LoadedRow, RequestStates
  <2>3. ~Dropped(row, keyIds)
    BY <2>2 DEF Dropped, Supported
  <2>4. PICK old \in Rows : old = row
    BY <2>2
  <2>5. \/ changed.success = row.success
        \/ req[p].change = "valid" /\ changed.success = req[p].at
    <3>1. CASE req[p].change = "none"
      BY <2>3, <3>1 DEF Changed
    <3>2. CASE req[p].change = "failed"
      <4>1. changed = [old EXCEPT !.result = req[p].result]
        BY <2>3, <2>4, <3>2 DEF Changed
      <4>. QED
        BY <2>4, <4>1 DEF Rows
    <3>3. CASE req[p].change = "valid"
      <4>1. changed = [old EXCEPT !.key = req[p].found, !.success = req[p].at,
                                  !.result = "valid"]
        BY <2>3, <2>4, <3>3 DEF Changed
      <4>. QED
        BY <2>4, <3>3, <4>1 DEF Rows
    <3>4. req[p].change \in {"none", "failed", "valid"}
      BY <1>1 DEF RequestStates
    <3>. HIDE DEF changed, row
    <3>. QED
      BY <3>1, <3>2, <3>3, <3>4
  <2>6. /\ req'[p].after.success = changed.success
        /\ req'[p].loaded = req[p].loaded /\ req'[p].change = req[p].change
        /\ req'[p].at = req[p].at /\ now' = now
    BY <1>1, <1>5, PlanMoves
  <2>7. LoadedRow(req'[p]) = row
    BY <2>6 DEF LoadedRow
  <2>. HIDE DEF changed, row, keyIds
  <2>. QED
    BY <2>1, <2>5, <2>6, <2>7 DEF Timely, KeepsSuccess
<1>6. CASE Write(p) \/ WriteFails(p) \/ Announce(p)
  BY <1>1, <1>6, WriteMoves DEF Timely, KeepsSuccess
<1>. QED
  BY <1>2, <1>3, <1>4, <1>5, <1>6 DEF Save

(* A removal, once it has unassigned or removed, has touched the keys.     *)
LEMMA UntouchedBefore ==
  ASSUME IInv, KeptInv, NoKeysSaved, [Next]_vars, KeysUntouched'
  PROVE  /\ KeysUntouched /\ UNCHANGED <<live, used, assigned>>
         /\ \A p \in Requests : ~EndAssign(p)
<1>1. /\ live \subseteq used /\ assigned \subseteq Stored
  BY DEF IInv, TypeOK, KeptInv, OnlyRemovals
<1>2. ASSUME NEW p \in Requests, BeginRequest(p)
      PROVE  UNCHANGED <<live, used, assigned>>
  BY <1>2, Begins
<1>3. ASSUME NEW p \in Requests, NEW m \in Modules, Unassign(p, m)
      PROVE  UNCHANGED <<live, used, assigned>>
  BY <1>1, <1>3 DEF Unassign, KeysUntouched
<1>4. ASSUME NEW p \in Requests, NEW m \in Modules, Assign(p, m)
      PROVE  FALSE
  BY <1>4 DEF Assign, KeptInv, OnlyRemovals
<1>5. ASSUME NEW p \in Requests, EndAssign(p)
      PROVE  FALSE
  BY <1>1, <1>5 DEF EndAssign, KeptInv, OnlyRemovals, KeysUntouched
<1>6. ASSUME NEW p \in Requests, AttemptModule(p) \/ Save(p) \/ Loop(p)
      PROVE  UNCHANGED <<live, used, assigned>>
  BY <1>6 DEF AttemptModule, Attempt, SkipKey, Ask, EndAsk, Save, Load, Plan, Write,
     WriteFails, Announce, Loop, EndLoop, SyncNext, tables
<1>7. ASSUME NEW p \in Requests, Abort(p)
      PROVE  UNCHANGED <<live, used, assigned>>
  BY <1>7 DEF Abort, tables
<1>8. ASSUME Tick \/ UNCHANGED vars
      PROVE  UNCHANGED <<live, used, assigned>>
  BY <1>8 DEF Tick, vars, tables
<1>9. UNCHANGED <<live, used, assigned>>
  BY <1>2, <1>3, <1>4, <1>5, <1>6, <1>7, <1>8 DEF Next, AssignKey
<1>. QED
  BY <1>5, <1>9 DEF KeysUntouched

(* What any step makes of the requests' kinds.                             *)
LEMMA RemovalsStay ==
  ASSUME IInv, OnlyRemovals, NEW p \in Requests, NEW new,
         req' = [req EXCEPT ![p] = new], used \subseteq used',
         assigned' \subseteq assigned,
         new.pc # "idle" => new.kind \in {"checkInAll", "checkIn", "removeKey"},
         new.pc = "assign" =>
           new.kind = "removeKey" /\ new.key \in used /\ new.adds = {}
  PROVE  OnlyRemovals'
<1>1. req'[p] = new /\ \A q \in Requests \ {p} : req'[q] = req[q]
  BY OthersStay DEF IInv
<1>. QED
  BY <1>1 DEF OnlyRemovals

(* A step of one request that is not checking in, or has just begun to.    *)
LEMMA QuietlyKept ==
  ASSUME IInv, Kept, NEW p \in Requests, NEW new,
         req' = [req EXCEPT ![p] = new],
         UNCHANGED <<now, live, assigned, entitlements>>,
         Fresh(new), new.pc \notin {"ask", "load", "plan", "write"},
         new.pc \notin {"idle", "assign"} => new.kind # "removeKey"
  PROVE  Kept'
<1>1. req'[p] = new /\ \A q \in Requests \ {p} : req'[q] = req[q]
  BY OthersStay DEF IInv
<1>2. CheckInsSupported'
  BY QuietStep DEF Kept
<1>3. \A q \in Requests : Timely(req[q])' /\ KeepsSuccess(req[q])'
  BY <1>1 DEF Kept, Timely, KeepsSuccess, LoadedRow
<1>. QED
  BY <1>1, <1>2, <1>3 DEF Kept

LEMMA NextKept ==
  ASSUME IInv, KeptInv, NoKeysSaved, [Next]_vars,
         now' = now \/ \A p \in Requests : req[p].pc = "idle"
  PROVE  KeptInv'
<1>. SUFFICES OnlyRemovals' /\ (KeysUntouched' => Kept')
  BY DEF KeptInv
<1>1. TypeOK /\ OnlyRemovals
  BY DEF IInv, KeptInv
<1>2. KeysUntouched' => /\ Kept /\ UNCHANGED <<live, used, assigned>>
                        /\ \A p \in Requests : ~EndAssign(p)
  BY UntouchedBefore DEF KeptInv
<1>3. ASSUME NEW p \in Requests, BeginRequest(p)
      PROVE  OnlyRemovals' /\ (KeysUntouched' => Kept')
  <2>1. PICK new :
          /\ req' = [req EXCEPT ![p] = new]
          /\ UNCHANGED <<now, live, used, assigned, entitlements>>
          /\ Fresh(new)
          /\ \/ new.pc = "next" /\ new.kind \in {"checkInAll", "checkIn"}
             \/ /\ new.pc = "assign" /\ new.kind = "removeKey"
                /\ new.key \in used /\ new.adds = {}
    BY <1>3, Begins
  <2>. QED
    BY <1>1, <1>2, <2>1, RemovalsStay, QuietlyKept
<1>4. ASSUME NEW p \in Requests, AssignKey(p)
      PROVE  OnlyRemovals' /\ (KeysUntouched' => Kept')
  <2>1. PICK new : new = req'[p]
    OBVIOUS
  <2>2. /\ req[p] \in RequestStates /\ req[p].pc = "assign"
        /\ req[p].kind = "removeKey" /\ req[p].key \in used /\ req[p].adds = {}
    BY <1>1, <1>4 DEF AssignKey, EndAssign, Unassign, Assign, OnlyRemovals, TypeOK
  <2>3. CASE EndAssign(p)
    <3>1. /\ req' = [req EXCEPT ![p] = new] /\ new.kind = "removeKey" /\ new.pc = "next"
          /\ UNCHANGED <<used, assigned>>
      BY <1>1, <2>1, <2>2, <2>3, EndAssignMoves
    <3>. QED
      BY <1>1, <1>2, <2>3, <3>1, RemovalsStay
  <2>4. ASSUME NEW m \in Modules, Unassign(p, m)
        PROVE  OnlyRemovals' /\ (KeysUntouched' => Kept')
    <3>1. /\ req' = [req EXCEPT ![p] = new] /\ new.kind = "removeKey"
          /\ new.pc = "assign" /\ UNCHANGED <<now, used, entitlements>>
      BY <1>1, <2>1, <2>2, <2>4, AssignMoves
    <3>2. /\ assigned' \subseteq assigned
          /\ new.key \in used /\ new.adds = {}
      BY <1>1, <2>1, <2>2, <2>4 DEF Unassign, TypeOK, RequestStates
    <3>3. Fresh(new)
      BY <3>1 DEF Fresh
    <3>. QED
      BY <1>1, <1>2, <3>1, <3>2, <3>3, RemovalsStay, QuietlyKept
  <2>5. ASSUME NEW m \in Modules, Assign(p, m)
        PROVE  FALSE
    BY <2>2, <2>5 DEF Assign
  <2>. QED
    BY <1>4, <2>3, <2>4, <2>5 DEF AssignKey
<1>5. ASSUME NEW p \in Requests, AttemptModule(p) \/ Save(p) \/ Loop(p)
      PROVE  OnlyRemovals' /\ (KeysUntouched' => Kept')
  <2>1. /\ req[p].pc \notin {"idle", "assign"} /\ UNCHANGED <<used, assigned>>
    BY <1>5 DEF AttemptModule, Attempt, SkipKey, Ask, EndAsk, Save, Load, Plan, Write,
       WriteFails, Announce, Loop, EndLoop, SyncNext, tables
  <2>2. /\ req' = [req EXCEPT ![p] = req'[p]]
        /\ req'[p].pc # "assign"
        /\ req'[p].pc = "idle" \/ req'[p].kind \in {req[p].kind, "checkIn"}
    <3>1. CASE AttemptModule(p) \/ Loop(p)
      BY <1>1, <3>1, AttemptMoves, AskMoves, EndAskMoves, LoopMoves DEF AttemptModule
    <3>2. CASE Save(p)
      BY <1>1, <3>2, LoadMoves, PlanMoves, WriteMoves DEF Save
    <3>. QED
      BY <1>5, <3>1, <3>2
  <2>3. PICK new : new = req'[p]
    OBVIOUS
  <2>4. OnlyRemovals'
    BY <1>1, <2>1, <2>2, <2>3, RemovalsStay DEF OnlyRemovals
  <2>5. ASSUME KeysUntouched'
        PROVE  Kept'
    <3>1. Kept
      BY <1>2, <2>5
    <3>2. CheckInsSupported' /\ Timely(new) /\ KeepsSuccess(new) /\ now' = now
      BY <1>5, <2>3, <3>1, CheckInKeepsSupport, TimelySteps DEF Kept
    <3>3. req'[p] = new /\ \A q \in Requests \ {p} : req'[q] = req[q]
      BY <1>1, <2>2, <2>3, OthersStay
    <3>4. \A q \in Requests : Timely(req[q])' /\ KeepsSuccess(req[q])'
      BY <3>1, <3>2, <3>3 DEF Kept, Timely, KeepsSuccess, LoadedRow
    <3>5. \A q \in Requests :
            req'[q].pc \notin {"idle", "assign"} => req'[q].kind # "removeKey"
      BY <2>1, <2>2, <2>3, <3>1, <3>3 DEF Kept
    <3>. QED
      BY <3>2, <3>4, <3>5 DEF Kept
  <2>. QED
    BY <2>4, <2>5, SMTT(40)
<1>6. ASSUME NEW p \in Requests, Abort(p)
      PROVE  OnlyRemovals' /\ (KeysUntouched' => Kept')
  <2>1. /\ req' = [req EXCEPT ![p] = IdleRequest]
        /\ UNCHANGED <<now, live, used, assigned, entitlements>>
    BY <1>6 DEF Abort, tables
  <2>2. IdleRequest.pc = "idle"
    BY DEF IdleRequest
  <2>3. Fresh(IdleRequest)
    BY <2>2 DEF Fresh
  <2>. QED
    BY <1>1, <1>2, <2>1, <2>2, <2>3, RemovalsStay, QuietlyKept
<1>7. CASE Tick \/ UNCHANGED vars
  <2>1. UNCHANGED <<req, live, used, assigned, entitlements>>
    BY <1>7 DEF Tick, vars, tables
  <2>2. OnlyRemovals'
    BY <1>1, <2>1 DEF OnlyRemovals
  <2>3. ASSUME Kept
        PROVE  Kept'
    <3>1. /\ \A m : RowOf(m)' = RowOf(m) /\ StoredKeys(m)' = StoredKeys(m)
          /\ KeyIdsByModule' = KeyIdsByModule
      BY <2>1 DEF RowOf, StoredKeys, KeyIdsByModule, CandidateKeyIds, Holders
    <3>2. CheckInsSupported'
      BY <2>1, <2>3, <3>1 DEF Kept, CheckInsSupported, Fresh, CheckInKnows, Supported,
         Paired, LoadedRow
    <3>3. \A q \in Requests : Timely(req[q])' /\ KeepsSuccess(req[q])'
      <4>1. \A q \in Requests : req'[q] = req[q]
        BY <2>1
      <4>2. CASE now' = now
        BY <2>3, <4>1, <4>2 DEF Kept, Timely, KeepsSuccess, LoadedRow
      <4>3. CASE \A q \in Requests : req[q].pc = "idle"
        BY <4>1, <4>3 DEF Timely, KeepsSuccess
      <4>. QED
        BY <4>2, <4>3
    <3>. QED
      BY <2>1, <2>3, <3>2, <3>3 DEF Kept
  <2>. QED
    BY <1>2, <2>2, <2>3
<1>. QED
  BY <1>3, <1>4, <1>5, <1>6, <1>7 DEF Next

(* What IsLicensed comes to.                                               *)
LEMMA WhatLicenses ==
  ASSUME NEW m \in Modules
  PROVE  IsLicensed(m) <=> /\ StoredKeys(m) # {} /\ RowOf(m).success # None
                           /\ ~(now - RowOf(m).success > GraceDays)
BY DEF IsLicensed, EntitlementState, StateOf, LicensedStates

(* What has been kept stays so, all days.                                  *)
LEMMA KeptHolds ==
  ASSUME ~CrossesMidnight, NoKeysSaved
  PROVE  SpecOfDays => []KeptInv
<1>1. InitDays => KeptInv
  <2>. SUFFICES ASSUME Init PROVE KeptInv
    BY DEF InitDays
  <2>1. \A p \in Requests : req[p].pc = "idle"
    BY DEF Init, IdleRequest
  <2>2. \A m \in Modules : RowOf(m) = EmptyRow
    BY DEF Init, RowOf
  <2>3. assigned = Stored
    BY DEF Init
  <2>. QED
    BY <2>1, <2>2, <2>3 DEF KeptInv, OnlyRemovals, Kept, Fresh, CheckInsSupported,
       CheckInKnows, Supported, Paired, EmptyRow, Timely, KeepsSuccess
<1>2. [NextOfDays]_dayVars => now' = now \/ \A p \in Requests : req[p].pc = "idle"
  <2>1. ASSUME NEW c \in Requests,
               \/ DiesBeforeCheckIn(c)
               \/ \E loadable \in SUBSET Modules :
                    CheckAll(c, loadable) \/ CheckInDue(c, loadable)
        PROVE  now' = now
    BY <2>1 DEF CheckAll, CheckInDue, CheckInAll, DiesBeforeCheckIn
  <2>2. NextDay => \A p \in Requests : req[p].pc = "idle"
    BY DEF NextDay, Resting
  <2>3. UNCHANGED dayVars => now' = now
    BY DEF dayVars
  <2>. QED
    BY <2>1, <2>2, <2>3, LicenceStepKeepsTime, ClaimStepKeepsTime DEF NextOfDays
<1>3. IInv /\ KeptInv /\ [NextOfDays]_dayVars => KeptInv'
  BY <1>2, DayIsLicensing, NextKept
<1>. QED
  BY <1>1, <1>3, DaysLicense, InvariantHolds, PTL DEF SpecOfDays

(* While keys are left alone, only time ends a licence: not an outage, a   *)
(* refusal, a crash, or another request's check-in that read the row       *)
(* before or after -- as long as midnight does not overtake a check-in,    *)
(* and no key is being saved that would be taken away again.               *)
THEOREM OnlyTimeEndsLicences ==
  ASSUME ~CrossesMidnight, NoKeysSaved
  PROVE  SpecOfDays => LicenceKept
<1>. DEFINE LicenceStays ==
       \A m \in Modules :
         /\ IsLicensed(m)
         /\ KeysUntouched /\ KeysUntouched'
         /\ now' = now
         => IsLicensed(m)'
<1>1. IInv /\ KeptInv /\ [NextOfDays]_dayVars => [LicenceStays]_vars
  <2>. SUFFICES ASSUME IInv, KeptInv, Next, KeysUntouched, KeysUntouched', now' = now,
                       NEW m \in Modules, IsLicensed(m)
                PROVE  IsLicensed(m)'
    BY DayIsLicensing
  <2>1. StoredKeys(m)' = StoredKeys(m)
    BY UntouchedBefore DEF StoredKeys, KeyIdsByModule, CandidateKeyIds, Holders
  <2>2. \/ RowOf(m).success' = RowOf(m).success
        \/ RowOf(m).success' = now
    <3>1. CASE entitlements' = entitlements
      BY <3>1 DEF RowOf
    <3>2. ASSUME NEW p \in Requests, Write(p)
          PROVE  \/ RowOf(m).success' = RowOf(m).success
                 \/ RowOf(m).success' = now
      <4>1. /\ req[p].pc = "write" /\ req[p].mod \in Modules
            /\ Timely(req[p]) /\ KeepsSuccess(req[p])
        BY <3>2 DEF Write, IInv, Chosen, Sound, Working, KeptInv, Kept
      <4>2. PICK k \in Modules : k = req[p].mod
        BY <4>1
      <4>. QED
        BY <3>2, <4>1, <4>2, WriteSetsSuccess DEF Timely, KeepsSuccess
    <3>. QED
      BY <3>1, <3>2, SavesWrite
  <2>3. now \in Nat /\ now - now = 0 /\ ~(0 > GraceDays) /\ None \notin Nat
    BY LicensingAssumption DEF IInv, TypeOK
  <2>4. /\ StoredKeys(m) # {} /\ RowOf(m).success # None
        /\ ~(now - RowOf(m).success > GraceDays)
    BY WhatLicenses
  <2>5. /\ RowOf(m)'.success # None /\ ~(now' - RowOf(m)'.success > GraceDays)
        /\ StoredKeys(m)' # {}
    BY <2>1, <2>2, <2>3, <2>4
  <2>. QED
    BY <2>5 DEF IsLicensed, EntitlementState, StateOf, LicensedStates
<1>. QED
  BY <1>1, KeptHolds, DaysLicense, InvariantHolds, PTL DEF SpecOfDays, LicenceKept

-----------------------------------------------------------------------------
(* A day that is claimed renews what is in use.                            *)
-----------------------------------------------------------------------------

(* What the day's check-in is for: modules with a stored key, but those    *)
(* that a check-in of the day has left out.                                *)
Renewable == {m \in Modules \ leftOut : StoredKeys(m) # {}}

(* The server has answered for the module, or was not there, and what it   *)
(* accepted it accepted today.                                             *)
Renewed(m) ==
  /\ RowOf(m).result # "null"
  /\ RowOf(m).result = "valid" => RowOf(m).success = now

Attempting == {"ask", "load", "plan", "write"}

(* What is about to be written is the row that was loaded with this        *)
(* attempt's answer in it.                                                 *)
Planned(r) ==
  /\ r.change = "none" =>
       /\ r.after.result = LoadedRow(r).result
       /\ r.after.success = LoadedRow(r).success
  /\ r.change = "failed" =>
       /\ r.after.result \in {"rejected", "unreachable"}
       /\ r.after.success = LoadedRow(r).success
  /\ r.change = "valid" => r.after.result = "valid" /\ r.after.success = now

Answers(r) ==
  /\ r.pc \in Attempting /\ r.change = "failed" =>
       r.result \in {"rejected", "unreachable"}
  /\ r.pc \in Attempting /\ r.phase = "attempt" /\ r.mod \in Renewable =>
       r.change # "none"
  /\ r.pc = "write" => Planned(r)

(* What has become of a row since a request loaded it.                     *)
Seen(r) ==
  r.pc \in {"plan", "write"} /\ r.mod \in Renewable =>
    \/ /\ r.loaded = NoRow /\ r.change # "none"
       /\ entitlements[r.mod] # NoRow => Renewed(r.mod)
    \/ /\ r.loaded # NoRow
       /\ r.loaded.result # "null" => RowOf(r.mod).result # "null"
       /\ RowOf(r.mod).result = "valid" =>
            r.loaded.result = "valid" \/ RowOf(r.mod).success = now
       /\ r.loaded.success = now => RowOf(r.mod).success = now

(* What a check-in of all modules has still to attempt.                    *)
Owes(r, m) ==
  /\ r.kind = "checkInAll" /\ r.phase = "attempt" /\ r.pc \notin {"idle", "assign"}
  /\ m \in r.todo \/ (r.mod = m /\ r.pc \in Attempting)

(* It gives every module with a key a row before it syncs.                 *)
Visits(r) ==
  /\ r.kind = "checkInAll" \/ r.phase = "sync"
  /\ r.pc \notin {"idle", "assign"}
  => \A m \in Renewable : Owes(r, m) \/ entitlements[m] # NoRow

(* The claim is renewed, is about to be, or is being renewed.              *)
DayRenewed ==
  claim = now /\ aborts = 0 =>
    \A m \in Renewable :
      \/ Renewed(m)
      \/ \E c \in Requests : caller[c].pc = "won" \/ Owes(req[c], m)

WonToday == \A c \in Requests : caller[c].pc = "won" => caller[c].today = now

RequestsFit ==
  \A p \in Requests : Answers(req[p]) /\ Seen(req[p]) /\ Visits(req[p])

Renewing == RequestsFit /\ DayRenewed

RenewInv == leftOut \subseteq Modules /\ WonToday /\ (KeysUntouched => Renewing)

(* What each step of an attempt makes of its answer.                       *)
LEMMA AttemptAnswers ==
  ASSUME TypeOK, NEW p \in Requests, NEW m \in Modules, Attempt(p, m)
  PROVE  /\ req'[p].todo = req[p].todo \ {m}
         /\ req'[p].change = "none" => CandidateKeyIds(Cached(p), m) = {}
         /\ req'[p].result \in {"rejected", "unreachable"}
<1>1. PICK keys, pc, result, change :
        /\ req' = [req EXCEPT ![p] =
              [req[p] EXCEPT !.todo = req[p].todo \ {m}, !.mod = m,
                             !.cache = Cached(p), !.keys = keys, !.pc = pc,
                             !.change = change, !.result = result]]
        /\ change = "none" => CandidateKeyIds(Cached(p), m) = {}
        /\ result \in {"rejected", "unreachable"}
  <2>. DEFINE candidates == CandidateKeyIds(Cached(p), m)
              asked == IF req[p].unreachable THEN {} ELSE candidates
              why == IF req[p].unreachable THEN "unreachable" ELSE "rejected"
              change == IF candidates = {} THEN "none" ELSE "failed"
              pc == IF asked = {} THEN "load" ELSE "ask"
  <2>1. req' = [req EXCEPT ![p] =
              [req[p] EXCEPT !.todo = req[p].todo \ {m}, !.mod = m,
                             !.cache = Cached(p), !.keys = asked, !.pc = pc,
                             !.change = change, !.result = why]]
    BY DEF Attempt
  <2>2. /\ change = "none" => candidates = {}
        /\ why \in {"rejected", "unreachable"}
    OBVIOUS
  <2>. HIDE DEF candidates, asked, why, change, pc
  <2>. QED
    BY <2>1, <2>2 DEF candidates
<1>2. req[p] \in RequestStates /\ req \in [Requests -> RequestStates]
  BY DEF TypeOK
<1>. QED
  BY <1>1, <1>2 DEF RequestStates

LEMMA AskAnswers ==
  ASSUME TypeOK, NEW p \in Requests, NEW k \in Keys,
         SkipKey(p, k) \/ \E answer \in Results : Ask(p, k, answer)
  PROVE  \/ req'[p].change = req[p].change /\ req'[p].result = req[p].result
         \/ req'[p].change = "failed" /\ req'[p].result \in {"rejected", "unreachable"}
         \/ req'[p].change = "valid"
<1>1. req[p] \in RequestStates /\ req \in [Requests -> RequestStates]
  BY DEF TypeOK
<1>2. CASE SkipKey(p, k)
  BY <1>1, <1>2 DEF SkipKey, RequestStates
<1>3. ASSUME NEW answer \in Results, Ask(p, k, answer)
      PROVE  \/ /\ req'[p].change = "failed"
                /\ req'[p].result \in {"rejected", "unreachable"}
             \/ req'[p].change = "valid"
  BY <1>1, <1>3 DEF Ask, RequestStates, Results
<1>. QED
  BY <1>2, <1>3

LEMMA OthersAnswer ==
  ASSUME TypeOK, NEW p \in Requests, EndAsk(p) \/ Load(p)
  PROVE  req'[p].result = req[p].result
BY DEF TypeOK, RequestStates, EndAsk, Load

LEMMA PlanAnswers ==
  ASSUME TypeOK, NEW p \in Requests, Plan(p)
  PROVE  /\ req'[p].result = req[p].result
         /\ req'[p].after.result =
              Changed(LoadedRow(req[p]),
                      CandidateKeyIds(Cached(p), req[p].mod), req[p]).result
         /\ req'[p].pc = "next" => req[p].change = "none"
<1>. DEFINE row == LoadedRow(req[p])
            keyIds == CandidateKeyIds(Cached(p), req[p].mod)
            changed == Changed(row, keyIds, req[p])
<1>1. req[p] \in RequestStates /\ req \in [Requests -> RequestStates]
  BY DEF TypeOK
<1>2. changed \in Rows
  BY <1>1, EmptyRowIsRow, ChangedIsRow DEF LoadedRow, RequestStates
<1>3. PICK pc, state :
        /\ req' = [req EXCEPT ![p] =
              [req[p] EXCEPT !.pc = pc, !.cache = Cached(p),
                             !.after = [changed EXCEPT !.state = state]]]
        /\ pc = "next" => req[p].change = "none"
  <2>. DEFINE st == StateOf(keyIds # {}, changed.success, changed.result, now)
              nothing == /\ req[p].change = "none"
                         /\ ~Dropped(row, keyIds)
                         /\ st = row.state
              pc0 == IF nothing THEN "next" ELSE "write"
  <2>1. req' = [req EXCEPT ![p] =
                  [req[p] EXCEPT !.pc = IF nothing THEN "next" ELSE "write",
                            !.cache = Cached(p),
                            !.after = [changed EXCEPT !.state = st]]]
    BY DEF Plan
  <2>2. pc0 = "next" => req[p].change = "none"
    OBVIOUS
  <2>3. req' = [req EXCEPT ![p] =
                  [req[p] EXCEPT !.pc = pc0, !.cache = Cached(p),
                                 !.after = [changed EXCEPT !.state = st]]]
    BY <2>1
  <2>. HIDE DEF changed, row, keyIds, st, pc0
  <2>. QED
    BY <2>2, <2>3
<1>4. [changed EXCEPT !.state = state].result = changed.result
  BY <1>2 DEF Rows
<1>. HIDE DEF changed, row, keyIds
<1>5. /\ req'[p].pc = pc /\ req'[p].result = req[p].result
      /\ req'[p].after = [changed EXCEPT !.state = state]
  BY <1>1, <1>3 DEF RequestStates
<1>. QED
  BY <1>3, <1>4, <1>5 DEF changed, row, keyIds

(* A loop ends when it has been through its modules.                       *)
LEMMA LoopEnds ==
  ASSUME TypeOK, NEW p \in Requests, Loop(p)
  PROVE  /\ req[p].pc = "next" /\ req'[p].pc \in {"next", "load", "idle"}
         /\ req'[p].pc = "load" =>
              /\ req[p].phase = "sync" /\ req'[p].phase = "sync"
              /\ req'[p].kind = req[p].kind
         /\ req'[p].phase = "sync" /\ req'[p].pc = "next" =>
              req[p].kind = "checkInAll" /\ req[p].phase = "attempt"
         /\ req'[p].phase = "attempt" /\ req'[p].pc # "idle" =>
              req'[p].kind = "checkIn"
         /\ req'[p].pc # "load" => req[p].todo = {}
<1>1. req[p] \in RequestStates /\ req \in [Requests -> RequestStates]
  BY DEF TypeOK
<1>2. ASSUME NEW m \in Modules, SyncNext(p, m)
      PROVE  /\ req[p].pc = "next" /\ req'[p].pc = "load"
             /\ req[p].phase = "sync" /\ req'[p].phase = "sync"
             /\ req'[p].kind = req[p].kind
  BY <1>1, <1>2 DEF SyncNext, RequestStates
<1>3. CASE EndLoop(p)
  <2>. DEFINE back == [req[p] EXCEPT !.phase = "attempt", !.cache = Cached(p),
                                     !.kind = "checkIn",
                                     !.todo = TriedWith(Cached(p), req[p].key)]
  <2>1. /\ req[p].pc = "next" /\ req[p].todo = {}
        /\ \/ /\ req' = [req EXCEPT ![p] = Synced(req[p])]
              /\ req[p].phase = "attempt" /\ req[p].kind = "checkInAll"
           \/ req' = [req EXCEPT ![p] = back]
           \/ req' = [req EXCEPT ![p] = IdleRequest]
    BY <1>3 DEF EndLoop
  <2>2. /\ back.pc = req[p].pc /\ back.kind = "checkIn" /\ back.phase = "attempt"
        /\ Synced(req[p]).pc = "next" /\ Synced(req[p]).phase = "sync"
        /\ IdleRequest.pc = "idle"
    BY <1>1 DEF RequestStates, Synced, IdleRequest
  <2>3. PICK new : /\ req' = [req EXCEPT ![p] = new]
                   /\ \/ /\ new = Synced(req[p])
                         /\ req[p].phase = "attempt" /\ req[p].kind = "checkInAll"
                      \/ new = back \/ new = IdleRequest
    BY <2>1
  <2>. HIDE DEF back
  <2>4. req'[p] = new
    BY <1>1, <2>3
  <2>. QED
    BY <2>1, <2>2, <2>3, <2>4
<1>. QED
  BY <1>2, <1>3 DEF Loop

(* What a request plans to write over a row it has loaded.                 *)
LEMMA ChangedKeeps ==
  ASSUME NEW r \in RequestStates, NEW keyIds, NEW row \in Rows, ~Dropped(row, keyIds)
  PROVE  LET changed == Changed(row, keyIds, r) IN
         /\ r.change = "none" =>
              changed.result = row.result /\ changed.success = row.success
         /\ r.change = "failed" =>
              changed.result = r.result /\ changed.success = row.success
         /\ r.change = "valid" =>
              changed.result = "valid" /\ changed.success = r.at
<1>1. CASE r.change = "none"
  BY <1>1 DEF Changed
<1>2. CASE r.change = "failed"
  <2>1. Changed(row, keyIds, r) = [row EXCEPT !.result = r.result]
    BY <1>2 DEF Changed
  <2>. QED
    BY <1>2, <2>1 DEF Rows
<1>3. CASE r.change = "valid"
  <2>1. Changed(row, keyIds, r) =
          [row EXCEPT !.key = r.found, !.success = r.at, !.result = "valid"]
    BY <1>3 DEF Changed
  <2>. QED
    BY <1>3, <2>1 DEF Rows
<1>. QED
  BY <1>1, <1>2, <1>3 DEF RequestStates

LEMMA StepAnswers ==
  ASSUME IInv, CheckInsSupported, NEW p \in Requests,
         AttemptModule(p) \/ Save(p) \/ Loop(p),
         Timely(req[p]), Answers(req[p])
  PROVE  Answers(req'[p])
<1>1. TypeOK /\ req[p] \in RequestStates /\ Sound(req[p]) /\ Fresh(req[p])
      /\ CheckInKnows(req[p])
  BY DEF IInv, TypeOK, Chosen, CheckInsSupported
<1>2. ASSUME NEW m \in Modules, Attempt(p, m)
      PROVE  Answers(req'[p])
  <2>1. /\ req'[p].pc \in {"ask", "load"} /\ req'[p].mod = m
        /\ req'[p].result \in {"rejected", "unreachable"}
        /\ req'[p].change = "none" => StoredKeys(m) = {}
    BY <1>1, <1>2, AttemptMoves, AttemptAnswers, FreshCache
  <2>. QED
    BY <2>1 DEF Answers, Renewable
<1>3. ASSUME NEW k \in Keys, SkipKey(p, k) \/ \E answer \in Results : Ask(p, k, answer)
      PROVE  Answers(req'[p])
  BY <1>1, <1>3, AskMoves, AskAnswers DEF Answers, Attempting
<1>4. CASE EndAsk(p) \/ Load(p)
  BY <1>1, <1>4, EndAskMoves, LoadMoves, OthersAnswer DEF Answers, Attempting
<1>5. CASE Plan(p)
  <2>. DEFINE row == LoadedRow(req[p])
              keyIds == CandidateKeyIds(Cached(p), req[p].mod)
              changed == Changed(row, keyIds, req[p])
  <2>1. req[p].pc = "plan"
    BY <1>5 DEF Plan
  <2>2. row \in Rows /\ Supported(req[p].mod, row) /\ keyIds = StoredKeys(req[p].mod)
    BY <1>1, <2>1, EmptyRowIsRow, FreshCache DEF CheckInKnows, LoadedRow, RequestStates
  <2>3. ~Dropped(row, keyIds)
    BY <2>2 DEF Dropped, Supported
  <2>4. /\ req[p].change = "none" =>
              changed.result = row.result /\ changed.success = row.success
        /\ req[p].change = "failed" =>
              changed.result = req[p].result /\ changed.success = row.success
        /\ req[p].change = "valid" =>
              changed.result = "valid" /\ changed.success = req[p].at
    BY <1>1, <2>2, <2>3, ChangedKeeps
  <2>5. /\ req'[p].after.success = changed.success
        /\ req'[p].after.result = changed.result
        /\ req'[p].loaded = req[p].loaded /\ req'[p].change = req[p].change
        /\ req'[p].result = req[p].result /\ req'[p].mod = req[p].mod
        /\ req'[p].phase = req[p].phase
    BY <1>1, <1>5, PlanMoves, PlanAnswers
  <2>6. LoadedRow(req'[p]) = row
    BY <2>5 DEF LoadedRow
  <2>7. req[p].change = "valid" => req[p].at = now
    BY <2>1 DEF Timely
  <2>8. req[p].change = "failed" => req[p].result \in {"rejected", "unreachable"}
    BY <2>1 DEF Answers, Attempting
  <2>9. req[p].change \in {"none", "failed", "valid"}
    BY <1>1 DEF RequestStates
  <2>. HIDE DEF changed, row, keyIds
  <2>10. Planned(req'[p])
    BY <2>4, <2>5, <2>6, <2>7, <2>8, <2>9 DEF Planned
  <2>. QED
    BY <2>1, <2>5, <2>10 DEF Answers, Attempting
<1>6. CASE Write(p) \/ WriteFails(p) \/ Announce(p)
  BY <1>1, <1>6, WriteMoves DEF Answers, Attempting
<1>7. CASE Loop(p)
  <2>1. /\ req'[p].pc = "load" => req'[p].phase = "sync" /\ req'[p].change = "none"
        /\ req'[p].pc \in {"next", "load", "idle"}
    BY <1>1, <1>7, LoopEnds, LoopMoves DEF Fresh
  <2>. QED
    BY <2>1 DEF Answers, Attempting
<1>. QED
  BY <1>2, <1>3, <1>4, <1>5, <1>6, <1>7 DEF AttemptModule, Save

(* What is still owed of a check-in of all modules stays owed, or is being *)
(* written at last.                                                        *)
LEMMA OwedStays ==
  ASSUME IInv, NEW p \in Requests, AttemptModule(p) \/ Save(p) \/ Loop(p),
         Answers(req[p]), NEW m \in Renewable, Owes(req[p], m)
  PROVE  \/ Owes(req'[p], m)
         \/ /\ Write(p) \/ WriteFails(p)
            /\ req[p].mod = m /\ req[p].change # "none"
<1>1. TypeOK /\ req[p] \in RequestStates /\ m \in Modules
  BY DEF IInv, TypeOK, Renewable
<1>2. ASSUME NEW h \in Modules, Attempt(p, h)
      PROVE  Owes(req'[p], m)
  BY <1>1, <1>2, AttemptMoves, AttemptAnswers DEF Owes, Attempting
<1>3. ASSUME NEW k \in Keys, SkipKey(p, k) \/ \E answer \in Results : Ask(p, k, answer)
      PROVE  Owes(req'[p], m)
  BY <1>1, <1>3, AskMoves DEF Owes, Attempting
<1>4. CASE EndAsk(p) \/ Load(p)
  BY <1>1, <1>4, EndAskMoves, LoadMoves DEF Owes, Attempting
<1>5. CASE Plan(p)
  <2>1. /\ req[p].pc = "plan" /\ req'[p].pc \in {"next", "write"}
        /\ req'[p].pc = "next" => req[p].change = "none"
        /\ req'[p].mod = req[p].mod /\ req'[p].kind = req[p].kind
        /\ req'[p].phase = req[p].phase /\ req'[p].todo = req[p].todo
    BY <1>1, <1>5, PlanMoves, PlanAnswers
  <2>2. req[p].mod = m => req[p].change # "none"
    BY <2>1 DEF Answers, Attempting, Owes
  <2>. QED
    BY <2>1, <2>2 DEF Owes, Attempting
<1>6. CASE Write(p) \/ WriteFails(p)
  <2>1. /\ req[p].pc = "write" /\ req'[p].pc \in {"next", "announce"}
        /\ req'[p].kind = req[p].kind
        /\ req'[p].phase = req[p].phase /\ req'[p].todo = req[p].todo
    BY <1>1, <1>6, WriteMoves DEF Write, WriteFails
  <2>2. req[p].mod = m => req[p].change # "none"
    BY <2>1 DEF Answers, Attempting, Owes
  <2>. QED
    BY <1>6, <2>1, <2>2, SMTT(40) DEF Owes, Attempting
<1>7. CASE Announce(p)
  <2>1. req[p].pc = "announce"
    BY <1>7 DEF Announce
  <2>. QED
    BY <1>1, <1>7, <2>1, WriteMoves DEF Owes, Attempting
<1>8. CASE Loop(p)
  <2>1. req[p].phase = "attempt" /\ req[p].pc = "next" /\ req[p].todo = {}
    BY <1>1, <1>8, LoopEnds DEF Owes
  <2>. QED
    BY <2>1 DEF Owes, Attempting
<1>. QED
  BY <1>2, <1>3, <1>4, <1>5, <1>6, <1>7, <1>8 DEF AttemptModule, Save

(* What one request makes of the row that it writes.                       *)
Moves(m) ==
  \/ entitlements'[m] = entitlements[m]
  \/ /\ entitlements'[m] # NoRow
     /\ entitlements[m] = NoRow \/ RowOf(m).result # "null" =>
          RowOf(m)'.result # "null"
     /\ RowOf(m)'.result = "valid" =>
          \/ RowOf(m)'.success = now
          \/ entitlements[m] # NoRow /\ RowOf(m).result = "valid"
     /\ RowOf(m).success = now => RowOf(m)'.success = now

LEMMA WriteRenews ==
  ASSUME IInv, NEW p \in Requests, Write(p),
         Answers(req[p]), Seen(req[p]), NEW k \in Renewable, k = req[p].mod
  PROVE  /\ Moves(k) /\ entitlements'[k] # NoRow
         /\ req[p].change # "none" =>
              /\ RowOf(k)'.result # "null"
              /\ RowOf(k)'.result = "valid" => RowOf(k)'.success = now
         /\ \A m \in Modules : m # k => entitlements'[m] = entitlements[m]
<1>. DEFINE r == req[p]
            stored == entitlements[k]
            new == IF stored = NoRow THEN r.after
                   ELSE Updated(stored, r.loaded, r.after)
<1>1. /\ r \in RequestStates /\ k \in Modules /\ r.after \in Rows
      /\ r.pc = "write" /\ LoadedIn(r, entitlements)
      /\ entitlements \in [Modules -> Rows \cup {NoRow}]
  BY DEF Write, IInv, TypeOK, Chosen, LoadedStays, RequestStates, Renewable
<1>2. entitlements' = [entitlements EXCEPT ![k] = new]
  BY DEF Write
<1>3. r.loaded = NoRow <=> stored = NoRow
  BY <1>1 DEF Write, Conflict, LoadedIn
<1>4. Planned(r)
  BY <1>1 DEF Answers
<1>5. r.change \in {"none", "failed", "valid"} /\ now \in Nat /\ None # now
  BY <1>1, LicensingAssumption DEF RequestStates, IInv, TypeOK
<1>6. /\ new \in Rows
      /\ \/ stored = NoRow \/ stored.result # "null" \/ r.change # "none"
         => new.result # "null"
      /\ new.result = "valid" =>
           \/ new.success = now
           \/ stored # NoRow /\ stored.result = "valid"
      /\ RowOf(k).success = now => new.success = now
      /\ r.change # "none" => (new.result = "valid" => new.success = now)
  <2>1. CASE stored = NoRow
    <3>1. r.loaded = NoRow /\ r.change # "none" /\ new = r.after
      BY <1>1, <1>3, <2>1 DEF Seen
    <3>2. /\ LoadedRow(r).success = None /\ RowOf(k).success = None
      BY <2>1, <3>1 DEF LoadedRow, RowOf, EmptyRow
    <3>. QED
      BY <1>1, <1>4, <1>5, <3>1, <3>2 DEF Planned
  <2>2. CASE stored # NoRow
    <3>1. /\ stored \in Rows /\ r.loaded \in Rows /\ LoadedRow(r) = r.loaded
          /\ RowOf(k) = stored /\ new = Updated(stored, r.loaded, r.after)
      BY <1>1, <1>3, <2>2 DEF RequestStates, LoadedRow, RowOf
    <3>2. /\ new \in Rows
          /\ new.success = IF r.after.success = r.loaded.success
                             THEN stored.success ELSE r.after.success
          /\ new.result = IF r.after.result = r.loaded.result
                            THEN stored.result ELSE r.after.result
      BY <1>1, <3>1, UpdatedIsRow DEF Updated
    <3>3. /\ r.loaded.result # "null" => stored.result # "null"
          /\ stored.result = "valid" =>
               r.loaded.result = "valid" \/ stored.success = now
          /\ r.loaded.success = now => stored.success = now
      BY <1>1, <1>3, <2>2, <3>1 DEF Seen
    <3>. HIDE DEF new, stored
    <3>4. CASE r.change = "none"
      <4>1. r.after.result = r.loaded.result /\ r.after.success = r.loaded.success
        BY <1>4, <3>1, <3>4 DEF Planned
      <4>. QED
        BY <2>2, <3>1, <3>2, <3>3, <3>4, <4>1
    <3>5. CASE r.change = "failed"
      <4>1. r.after.result \in {"rejected", "unreachable"}
            /\ r.after.success = r.loaded.success
        BY <1>4, <3>1, <3>5 DEF Planned
      <4>. QED
        BY <2>2, <3>1, <3>2, <3>3, <3>5, <4>1
    <3>6. CASE r.change = "valid"
      <4>1. r.after.result = "valid" /\ r.after.success = now
        BY <1>4, <3>6 DEF Planned
      <4>2. new.success = now
        BY <3>2, <3>3, <4>1
      <4>. QED
        BY <2>2, <3>1, <3>2, <3>3, <3>6, <4>1, <4>2
    <3>. QED
      BY <1>5, <3>4, <3>5, <3>6
  <2>. QED
    BY <2>1, <2>2
<1>. HIDE DEF new
<1>7. /\ entitlements'[k] = new /\ new # NoRow
      /\ \A m \in Modules : m # k => entitlements'[m] = entitlements[m]
  BY <1>1, <1>2, <1>6, LicensingAssumption
<1>8. RowOf(k)' = new /\ (stored # NoRow => RowOf(k) = stored)
  BY <1>7 DEF RowOf
<1>. QED
  BY <1>6, <1>7, <1>8 DEF Moves

(* What is known of the rows stays known while they move.                  *)
LEMMA RowsMove ==
  ASSUME UNCHANGED <<now, live, assigned>>, leftOut \subseteq leftOut',
         \A m \in Renewable : Moves(m)
  PROVE  /\ Renewable' \subseteq Renewable
         /\ \A m \in Renewable :
              /\ Renewed(m) => Renewed(m)'
              /\ entitlements[m] # NoRow => entitlements'[m] # NoRow
              /\ entitlements[m] = NoRow /\ entitlements'[m] # NoRow => Renewed(m)'
<1>1. Renewable' \subseteq Renewable
  BY SameKeys DEF Renewable
<1>2. ASSUME NEW m \in Renewable
      PROVE  /\ Renewed(m) => Renewed(m)'
             /\ entitlements[m] # NoRow => entitlements'[m] # NoRow
             /\ entitlements[m] = NoRow /\ entitlements'[m] # NoRow => Renewed(m)'
  <2>1. CASE entitlements'[m] = entitlements[m]
    BY <1>2, <2>1 DEF Renewed, RowOf
  <2>2. CASE entitlements'[m] # entitlements[m]
    <3>1. RowOf(m)' = entitlements'[m]
      BY <2>2, <1>2 DEF Moves, RowOf
    <3>. QED
      BY <2>2, <1>2, <3>1 DEF Moves, Renewed
  <2>. QED
    BY <2>1, <2>2
<1>. QED
  BY <1>1, <1>2

LEMMA FitStays ==
  ASSUME UNCHANGED <<now, live, assigned>>, leftOut \subseteq leftOut',
         \A m \in Renewable : Moves(m),
         NEW r, Answers(r)
  PROVE  Answers(r)' /\ (Seen(r) => Seen(r)') /\ (Visits(r) => Visits(r)')
<1>1. Renewable' \subseteq Renewable
  BY RowsMove
<1>2. Answers(r)'
  BY <1>1 DEF Answers, Planned, LoadedRow
<1>3. ASSUME Seen(r)
      PROVE  Seen(r)'
  <2>1. CASE r.pc \in {"plan", "write"} /\ r.mod \in Renewable
    <3>1. PICK m \in Renewable : m = r.mod
      BY <2>1
    <3>2. CASE r.loaded = NoRow
      <4>1. r.change # "none" /\ (entitlements[m] # NoRow => Renewed(m))
        BY <1>3, <2>1, <3>1, <3>2 DEF Seen
      <4>2. entitlements'[m] # NoRow => Renewed(m)'
        BY <4>1, RowsMove
      <4>3. entitlements'[r.mod] # NoRow => Renewed(r.mod)'
        BY <3>1, <4>2 DEF Renewed, RowOf
      <4>. QED
        BY <3>2, <4>1, <4>3 DEF Seen
    <3>3. CASE r.loaded # NoRow
      <4>1. /\ r.loaded.result # "null" => RowOf(m).result # "null"
            /\ RowOf(m).result = "valid" =>
                 r.loaded.result = "valid" \/ RowOf(m).success = now
            /\ r.loaded.success = now => RowOf(m).success = now
        BY <1>3, <2>1, <3>1, <3>3 DEF Seen
      <4>2. CASE entitlements'[m] = entitlements[m]
        BY <3>1, <3>3, <4>1, <4>2 DEF Seen, RowOf
      <4>3. CASE entitlements'[m] # entitlements[m]
        <5>1. /\ r.loaded.result # "null" => RowOf(m)'.result # "null"
              /\ RowOf(m)'.result = "valid" =>
                   r.loaded.result = "valid" \/ RowOf(m)'.success = now
              /\ r.loaded.success = now => RowOf(m)'.success = now
          BY <4>1, <4>3 DEF Moves
        <5>2. RowOf(r.mod)' = RowOf(m)'
          BY <3>1 DEF RowOf
        <5>. QED
          BY <3>3, <4>1, <5>1, <5>2 DEF Seen
      <4>. QED
        BY <4>2, <4>3
    <3>. QED
      BY <3>2, <3>3
  <2>2. CASE ~(r.pc \in {"plan", "write"} /\ r.mod \in Renewable)
    BY <1>1, <2>2 DEF Seen
  <2>. QED
    BY <2>1, <2>2
<1>4. ASSUME Visits(r)
      PROVE  Visits(r)'
  BY <1>1, <1>4, RowsMove DEF Visits, Owes
<1>. QED
  BY <1>2, <1>3, <1>4

(* All that a step of one request has to show.                             *)
LEMMA OneRenews ==
  ASSUME IInv, RequestsFit, NEW p \in Requests, NEW new,
         req' = [req EXCEPT ![p] = new], UNCHANGED <<now, live, assigned>>,
         leftOut \subseteq leftOut',
         \A m \in Renewable : Moves(m),
         Answers(new), Seen(new)', Visits(new)'
  PROVE  /\ RequestsFit' /\ Renewable' \subseteq Renewable
         /\ \A m \in Renewable : Renewed(m) => Renewed(m)'
         /\ req'[p] = new /\ \A q \in Requests \ {p} : req'[q] = req[q]
<1>1. req'[p] = new /\ \A q \in Requests \ {p} : req'[q] = req[q]
  BY OthersStay DEF IInv
<1>2. Answers(new)'
  BY FitStays
<1>3. \A q \in Requests \ {p} : Answers(req[q])' /\ Seen(req[q])' /\ Visits(req[q])'
  <2>. TAKE q \in Requests \ {p}
  <2>1. PICK s : s = req[q]
    OBVIOUS
  <2>2. req'[q] = s /\ Answers(s) /\ Seen(s) /\ Visits(s)
    BY <1>1, <2>1 DEF RequestsFit
  <2>3. Answers(s)' /\ Seen(s)' /\ Visits(s)'
    BY <2>2, FitStays
  <2>4. Answers(req[q])'
    BY <2>2, <2>3 DEF Answers, Planned, LoadedRow
  <2>5. Seen(req[q])'
    BY <2>2, <2>3 DEF Seen, Renewed, RowOf
  <2>6. Visits(req[q])'
    BY <2>2, <2>3 DEF Visits, Owes
  <2>. QED
    BY <2>4, <2>5, <2>6
<1>4. Answers(req[p])' /\ Seen(req[p])' /\ Visits(req[p])'
  <2>1. Answers(req[p])'
    BY <1>1, <1>2 DEF Answers, Planned, LoadedRow
  <2>2. Seen(req[p])'
    BY <1>1 DEF Seen, Renewed, RowOf
  <2>3. Visits(req[p])'
    BY <1>1 DEF Visits, Owes
  <2>. QED
    BY <2>1, <2>2, <2>3
<1>. QED
  BY <1>1, <1>3, <1>4, RowsMove DEF RequestsFit

(* What the requests that begin have to do.                                *)
LEMMA BeginsFit ==
  ASSUME IInv, NEW p \in Requests, BeginRequest(p)
  PROVE  /\ req' = [req EXCEPT ![p] = req'[p]]
         /\ UNCHANGED <<now, entitlements>> /\ req[p].pc = "idle"
         /\ req'[p].pc \in {"next", "assign"}
         /\ req'[p].pc = "next" => req'[p].phase = "attempt"
<1>. DEFINE Fits(new) ==
              /\ UNCHANGED <<now, entitlements>> /\ req[p].pc = "idle"
              /\ new.pc \in {"next", "assign"}
              /\ new.pc = "next" => new.phase = "attempt"
<1>1. \E new : req' = [req EXCEPT ![p] = new] /\ Fits(new)
  <2>1. ASSUME NEW loadable \in SUBSET Modules, CheckInAll(p, loadable)
        PROVE  \E new : req' = [req EXCEPT ![p] = new] /\ Fits(new)
    <3>. DEFINE new == [IdleRequest EXCEPT !.pc = "next", !.kind = "checkInAll",
                                           !.todo = loadable]
    <3>1. req' = [req EXCEPT ![p] = new] /\ Fits(new)
      BY <2>1 DEF CheckInAll, Begin, tables, IdleRequest
    <3>. HIDE DEF new, Fits
    <3>. QED
      BY <3>1
  <2>2. ASSUME NEW m \in Modules, CheckIn(p, m)
        PROVE  \E new : req' = [req EXCEPT ![p] = new] /\ Fits(new)
    <3>. DEFINE new == [IdleRequest EXCEPT !.pc = "next", !.todo = {m}]
    <3>1. req' = [req EXCEPT ![p] = new] /\ Fits(new)
      BY <2>2 DEF CheckIn, Begin, tables, IdleRequest
    <3>. HIDE DEF new, Fits
    <3>. QED
      BY <3>1
  <2>3. ASSUME NEW k \in Keys, NEW wanted \in SUBSET Modules,
               AddKey(p, k, wanted) \/ UpdateKey(p, k, wanted) \/ RemoveKey(p, k)
        PROVE  \E new : req' = [req EXCEPT ![p] = new] /\ Fits(new)
    <3>1. PICK kind, dels, adds :
            req' = [req EXCEPT ![p] = Assigning(kind, k, dels, adds)]
      BY <2>3 DEF AddKey, UpdateKey, RemoveKey, Begin
    <3>2. /\ UNCHANGED <<now, entitlements>> /\ req[p].pc = "idle"
          /\ Assigning(kind, k, dels, adds).pc = "assign"
      BY <2>3 DEF AddKey, UpdateKey, RemoveKey, Begin, tables, Assigning, IdleRequest
    <3>. QED
      BY <3>1, <3>2
  <2>4. ASSUME NEW k \in Keys, RemoveKey(p, k)
        PROVE  \E new : req' = [req EXCEPT ![p] = new] /\ Fits(new)
    <3>1. {} \in SUBSET Modules
      OBVIOUS
    <3>. HIDE DEF Fits
    <3>. QED
      BY <2>3, <2>4, <3>1
  <2>. HIDE DEF Fits
  <2>. QED
    BY <2>1, <2>2, <2>3, <2>4 DEF BeginRequest, OtherRequest
<1>2. PICK new : req' = [req EXCEPT ![p] = new] /\ Fits(new)
  BY <1>1
<1>3. req'[p] = new
  BY <1>2, OthersStay DEF IInv
<1>. QED
  BY <1>2, <1>3

(* A check-in of all modules that begins leaves out what it does not visit.*)
LeftOutAtFirst(p) ==
  req[p].pc = "idle" /\ req'[p].pc = "next" /\ req'[p].kind = "checkInAll" =>
    Modules \ req'[p].todo \subseteq leftOut'

(* A step of one request while the keys stay as they were: every row, and  *)
(* what requests know of it, fits again; a module that is renewed stays    *)
(* so, and what is owed stays owed, or is renewed, unless somebody dies.   *)
LEMMA StepRenews ==
  ASSUME IInv, KeptInv, NoKeysSaved, [Next]_vars, KeysUntouched',
         RequestsFit, NEW p \in Requests,
         \/ BeginRequest(p) \/ AssignKey(p) \/ AttemptModule(p)
         \/ Save(p) \/ Loop(p) \/ Abort(p),
         leftOut \subseteq leftOut', LeftOutAtFirst(p)
  PROVE  /\ RequestsFit' /\ Renewable' \subseteq Renewable
         /\ \A m \in Renewable :
              /\ Renewed(m) => Renewed(m)'
              /\ \A q \in Requests :
                   Owes(req[q], m) => \/ Owes(req'[q], m) \/ Renewed(m)'
                                      \/ aborts' # 0
         /\ \A q \in Requests \ {p} : req'[q] = req[q]
<1>1. /\ TypeOK /\ KeysUntouched /\ UNCHANGED <<live, used, assigned>>
      /\ ~EndAssign(p) /\ Kept
  BY UntouchedBefore DEF IInv, KeptInv
<1>. DEFINE Goal == /\ RequestsFit' /\ Renewable' \subseteq Renewable
                    /\ \A m \in Renewable :
                         /\ Renewed(m) => Renewed(m)'
                         /\ \A q \in Requests :
                              Owes(req[q], m) => \/ Owes(req'[q], m) \/ Renewed(m)'
                                                 \/ aborts' # 0
                    /\ \A q \in Requests \ {p} : req'[q] = req[q]
<1>2. ASSUME NEW new, req' = [req EXCEPT ![p] = new],
             UNCHANGED <<now, entitlements>>, new.pc \notin Attempting,
             new.pc \notin {"idle", "assign"} =>
               /\ new.phase = "attempt"
               /\ new.kind = "checkInAll" => Modules \ new.todo \subseteq leftOut',
             req[p].pc \in {"idle", "assign"} \/ aborts' # 0
      PROVE  Goal
  <2>1. \A m \in Renewable : Moves(m)
    BY <1>2 DEF Moves
  <2>2. Answers(new) /\ Seen(new)' /\ Visits(new)'
    BY <1>2 DEF Answers, Seen, Visits, Owes, Attempting, Renewable
  <2>3. /\ RequestsFit' /\ Renewable' \subseteq Renewable
        /\ \A m \in Renewable : Renewed(m) => Renewed(m)'
        /\ \A q \in Requests \ {p} : req'[q] = req[q]
    BY <1>1, <1>2, <2>1, <2>2, OneRenews
  <2>4. ASSUME NEW m \in Renewable, NEW q \in Requests, Owes(req[q], m)
        PROVE  Owes(req'[q], m) \/ aborts' # 0
    BY <1>2, <2>3, <2>4 DEF Owes
  <2>. QED
    BY <2>3, <2>4
<1>3. ASSUME BeginRequest(p)
      PROVE  Goal
  <2>1. PICK new : new = req'[p]
    OBVIOUS
  <2>. HIDE DEF Goal
  <2>. QED
    BY <1>2, <1>3, <2>1, BeginsFit DEF Attempting, LeftOutAtFirst
<1>4. ASSUME AssignKey(p)
      PROVE  Goal
  <2>1. PICK new : new = req'[p]
    OBVIOUS
  <2>2. /\ req' = [req EXCEPT ![p] = new] /\ UNCHANGED <<now, entitlements>>
        /\ req[p].pc = "assign" /\ new.pc = "assign"
    BY <1>1, <1>4, <2>1, AssignMoves DEF AssignKey
  <2>. HIDE DEF Goal
  <2>. QED
    BY <1>2, <2>2 DEF Attempting
<1>5. ASSUME Abort(p)
      PROVE  Goal
  <2>1. /\ req' = [req EXCEPT ![p] = IdleRequest] /\ UNCHANGED <<now, entitlements>>
        /\ aborts' # 0 /\ IdleRequest.pc = "idle"
    BY <1>1, <1>5 DEF Abort, tables, TypeOK, IdleRequest
  <2>. HIDE DEF Goal
  <2>. QED
    BY <1>2, <2>1 DEF Attempting
<1>6. ASSUME AttemptModule(p) \/ Save(p) \/ Loop(p)
      PROVE  Goal
  <2>1. PICK new : new = req'[p]
    OBVIOUS
  <2>2. /\ req' = [req EXCEPT ![p] = new] /\ now' = now
        /\ req[p] \in RequestStates
        /\ Answers(req[p]) /\ Seen(req[p]) /\ Visits(req[p])
    <3>1. CASE AttemptModule(p) \/ Loop(p)
      BY <1>1, <2>1, <3>1, AttemptMoves, AskMoves, EndAskMoves, LoopMoves
         DEF AttemptModule, RequestsFit, TypeOK
    <3>2. CASE Save(p)
      BY <1>1, <2>1, <3>2, LoadMoves, PlanMoves, WriteMoves
         DEF Save, RequestsFit, TypeOK
    <3>. QED
      BY <1>6, <3>1, <3>2
  <2>3. Answers(new)
    BY <1>1, <1>6, <2>1, <2>2, StepAnswers DEF Kept
  <2>4. /\ ~Write(p) => entitlements' = entitlements
        /\ Write(p) =>
             /\ req[p].mod \in Modules
             /\ req[p].mod \notin Renewable =>
                  \A m \in Renewable : entitlements'[m] = entitlements[m]
    <3>1. ~Write(p) => entitlements' = entitlements
      BY <1>6 DEF AttemptModule, Attempt, SkipKey, Ask, EndAsk, Loop, SyncNext,
         EndLoop, Save, Load, Plan, WriteFails, Announce, tables
    <3>2. Write(p) => req[p].mod \in Modules
      BY DEF Write, IInv, Chosen, Sound, Working
    <3>3. ASSUME Write(p), NEW m \in Modules, m # req[p].mod
          PROVE  entitlements'[m] = entitlements[m]
      BY <1>1, <3>3 DEF Write, TypeOK
    <3>. QED
      BY <3>1, <3>2, <3>3, SMTT(40) DEF Renewable
  <2>5. \A m \in Renewable : Moves(m)
    <3>1. CASE Write(p) /\ req[p].mod \in Renewable
      <4>1. PICK k \in Renewable : k = req[p].mod
        BY <3>1
      <4>2. Moves(k) /\ \A m \in Modules : m # k => entitlements'[m] = entitlements[m]
        BY <2>2, <3>1, <4>1, WriteRenews
      <4>. QED
        BY <4>2 DEF Moves, Renewable
    <3>. QED
      BY <2>4, <3>1 DEF Moves
  <2>6. Seen(new)'
    <3>1. CASE Load(p)
      <4>1. /\ new.loaded = entitlements[new.mod] /\ new.phase = req[p].phase
            /\ new.mod = req[p].mod /\ new.change = req[p].change
            /\ req[p].pc = "load" /\ UNCHANGED <<entitlements, live, assigned>>
        BY <1>1, <2>1, <3>1, LoadMoves DEF tables
      <4>2. Renewable' \subseteq Renewable
        BY <4>1, SameKeys DEF Renewable
      <4>3. ASSUME new.mod \in Renewable, entitlements[new.mod] = NoRow
            PROVE  new.change # "none"
        <5>1. req[p].phase # "sync"
          BY <2>2, <4>1, <4>3 DEF Visits, Owes
        <5>. QED
          BY <2>2, <4>1, <4>3, <5>1 DEF Answers, Attempting, RequestStates
      <4>. QED
        BY <2>2, <4>1, <4>2, <4>3 DEF Seen, RowOf
    <3>2. CASE Plan(p)
      <4>1. /\ new.loaded = req[p].loaded /\ new.mod = req[p].mod
            /\ new.change = req[p].change /\ req[p].pc = "plan"
        BY <1>1, <2>1, <3>2, PlanMoves
      <4>2. Seen(new)
        BY <2>2, <4>1 DEF Seen
      <4>. QED
        BY <1>1, <2>2, <2>3, <2>5, <4>2, FitStays
    <3>3. CASE AttemptModule(p) \/ Loop(p) \/ Write(p) \/ WriteFails(p) \/ Announce(p)
      <4>1. new.pc \notin {"plan", "write"}
        BY <1>1, <2>1, <3>3, AttemptMoves, AskMoves, EndAskMoves, LoopMoves, WriteMoves
           DEF AttemptModule
      <4>. QED
        BY <4>1 DEF Seen
    <3>. QED
      BY <1>6, <3>1, <3>2, <3>3 DEF Save
  <2>7. ASSUME NEW m \in Renewable, Owes(req[p], m)
        PROVE  Owes(new, m) \/ (entitlements'[m] # NoRow /\ Renewed(m)')
    <3>1. CASE Write(p) /\ req[p].mod = m /\ req[p].change # "none"
      <4>1. /\ entitlements'[m] # NoRow /\ RowOf(m)'.result # "null"
            /\ RowOf(m)'.result = "valid" => RowOf(m)'.success = now
        BY <2>2, <2>7, <3>1, WriteRenews
      <4>. QED
        BY <2>2, <4>1 DEF Renewed
    <3>2. CASE WriteFails(p) /\ req[p].mod = m
      <4>1. /\ req[p].loaded = NoRow /\ entitlements[m] # NoRow
            /\ req[p].pc = "write" /\ entitlements' = entitlements
        BY <3>2 DEF WriteFails, Conflict, tables
      <4>2. Renewed(m)
        BY <2>2, <2>7, <3>2, <4>1 DEF Seen
      <4>. QED
        BY <2>2, <4>1, <4>2 DEF Renewed, RowOf
    <3>3. \/ Owes(req'[p], m)
          \/ /\ Write(p) \/ WriteFails(p)
             /\ req[p].mod = m /\ req[p].change # "none"
      BY <1>6, <2>2, <2>7, OwedStays
    <3>. QED
      BY <2>1, <3>1, <3>2, <3>3
  <2>8. Visits(new)'
    <3>1. /\ Renewable' \subseteq Renewable
          /\ \A m \in Renewable : entitlements[m] # NoRow => entitlements'[m] # NoRow
      BY <1>1, <2>2, <2>5, RowsMove
    <3>2. CASE Loop(p)
      <4>1. /\ req[p].pc = "next" /\ new.pc \in {"next", "load", "idle"}
            /\ new.pc = "load" => req[p].phase = "sync" /\ new.phase = "sync"
            /\ new.phase = "sync" /\ new.pc = "next" =>
                 req[p].kind = "checkInAll" /\ req[p].phase = "attempt"
            /\ new.phase = "attempt" /\ new.pc # "idle" => new.kind = "checkIn"
            /\ new.pc # "load" => req[p].todo = {}
        BY <1>1, <2>1, <3>2, LoopEnds
      <4>2. CASE new.pc = "load"
        <5>1. \A m \in Renewable : entitlements[m] # NoRow
          BY <2>2, <4>1, <4>2 DEF Visits, Owes
        <5>. QED
          BY <3>1, <5>1 DEF Visits
      <4>3. CASE new.pc = "next" /\ new.phase = "sync"
        <5>1. \A m \in Renewable : entitlements[m] # NoRow
          BY <2>2, <4>1, <4>3 DEF Visits, Owes, Attempting
        <5>. QED
          BY <3>1, <5>1 DEF Visits
      <4>4. CASE new.pc = "idle"
        BY <4>4 DEF Visits
      <4>5. new.phase \in {"attempt", "sync"}
        <5>1. req'[p] \in RequestStates
          BY NextIInv DEF IInv, TypeOK
        <5>. QED
          BY <2>1, <5>1 DEF RequestStates
      <4>6. CASE new.pc = "next" /\ new.phase = "attempt"
        BY <4>1, <4>6 DEF Visits
      <4>. QED
        BY <4>1, <4>2, <4>3, <4>4, <4>5, <4>6
    <3>3. CASE AttemptModule(p) \/ Save(p)
      <4>1. /\ new.kind = req[p].kind /\ new.phase = req[p].phase
            /\ req[p].pc \notin {"idle", "assign"}
        BY <1>1, <2>1, <3>3, AttemptMoves, AskMoves, EndAskMoves, LoadMoves, PlanMoves,
           WriteMoves DEF AttemptModule, Save
      <4>2. ASSUME new.kind = "checkInAll" \/ new.phase = "sync", NEW m \in Renewable
            PROVE  Owes(new, m) \/ entitlements'[m] # NoRow
        <5>1. Owes(req[p], m) \/ entitlements[m] # NoRow
          BY <2>2, <4>1, <4>2 DEF Visits
        <5>. QED
          BY <2>7, <3>1, <5>1
      <4>. QED
        BY <3>1, <4>2 DEF Visits, Owes
    <3>. QED
      BY <1>6, <3>2, <3>3
  <2>9. /\ RequestsFit' /\ Renewable' \subseteq Renewable
        /\ \A m \in Renewable : Renewed(m) => Renewed(m)'
        /\ req'[p] = new /\ \A q \in Requests \ {p} : req'[q] = req[q]
    BY <1>1, <2>2, <2>3, <2>5, <2>6, <2>8, OneRenews
  <2>10. ASSUME NEW m \in Renewable, NEW q \in Requests, Owes(req[q], m)
         PROVE  Owes(req'[q], m) \/ Renewed(m)'
    BY <2>7, <2>9, <2>10
  <2>. QED
    BY <2>9, <2>10
<1>. HIDE DEF Goal
<1>7. Goal
  BY <1>3, <1>4, <1>5, <1>6
<1>. QED
  BY <1>7 DEF Goal

(* Where no row, request or key moves, everything fits as before.          *)
LEMMA StillFits ==
  ASSUME RequestsFit, UNCHANGED <<now, licenceVars>>, leftOut \subseteq leftOut'
  PROVE  RequestsFit'
<1>1. UNCHANGED <<live, assigned, entitlements, req>>
  BY DEF licenceVars
<1>2. \A m \in Renewable : Moves(m)
  BY <1>1 DEF Moves
<1>3. ASSUME NEW q \in Requests
      PROVE  Answers(req[q])' /\ Seen(req[q])' /\ Visits(req[q])'
  <2>1. PICK s : s = req[q]
    OBVIOUS
  <2>2. req'[q] = s /\ Answers(s) /\ Seen(s) /\ Visits(s)
    BY <1>1, <2>1 DEF RequestsFit
  <2>3. Answers(s)' /\ Seen(s)' /\ Visits(s)'
    BY <1>1, <1>2, <2>2, FitStays
  <2>4. Answers(req[q])'
    BY <2>2, <2>3 DEF Answers, Planned, LoadedRow
  <2>5. Seen(req[q])'
    BY <2>2, <2>3 DEF Seen, Renewed, RowOf
  <2>6. Visits(req[q])'
    BY <2>2, <2>3 DEF Visits, Owes
  <2>. QED
    BY <2>4, <2>5, <2>6
<1>. QED
  BY <1>1, <1>2, <1>3, RowsMove DEF RequestsFit

(* Of the claim, beside the requests.                                      *)
LEMMA ClaimStepRenews ==
  ASSUME IInv, ClaimInv, WonToday, NEW c \in Requests, ClaimStep(c)
  PROVE  /\ UNCHANGED <<now, licenceVars, leftOut>> /\ WonToday'
         /\ claim' = claim \/ caller'[c].pc = "won"
         /\ \A b \in Requests : caller[b].pc = "won" => caller'[b].pc = "won"
<1>1. caller \in [Requests -> Claims!CallerStates] /\ Punctual
  BY DEF ClaimInv, Claims!TypeOK
<1>2. UNCHANGED <<now, licenceVars, leftOut>>
  BY ClaimStepKeepsTime DEF ClaimStep
<1>3. ASSUME Claims!Update(c) \/ Claims!Insert(c)
      PROVE  /\ caller[c].pc # "won" /\ caller'[c].pc = "won" /\ caller'[c].today = now
             /\ \A b \in Requests \ {c} : caller'[b] = caller[b]
  <2>1. caller[c].pc \in {"update", "insert"} /\ caller' = [caller EXCEPT ![c].pc = "won"]
    BY <1>3 DEF Claims!Update, Claims!Insert, Claims!Goes
  <2>2. caller[c].today = now
    BY <1>1, <2>1 DEF Punctual, Claims!Claiming
  <2>. QED
    BY <1>1, <2>1, <2>2 DEF Claims!CallerStates
<1>4. ASSUME \/ Claims!ReadSettings(c) \/ Claims!DailyCheckInDue(c)
             \/ Claims!UpdateMatchesNothing(c) \/ Claims!Select(c)
             \/ Claims!InsertFails(c) \/ (caller[c].pc # "won" /\ Claims!End(c))
      PROVE  /\ caller[c].pc # "won" /\ caller'[c].pc # "won" /\ claim' = claim
             /\ \A b \in Requests \ {c} : caller'[b] = caller[b]
  <2>1. CASE Claims!ReadSettings(c)
    BY <1>1, <2>1 DEF Claims!ReadSettings, Claims!CallerStates
  <2>2. CASE Claims!DailyCheckInDue(c)
    <3>1. PICK pc : /\ pc \in {"lost", "update"}
                    /\ caller' = [caller EXCEPT ![c].pc = pc, ![c].today = now]
      <4>. DEFINE pc == IF caller[c].cached = now THEN "lost" ELSE "update"
      <4>1. /\ caller' = [caller EXCEPT ![c].pc = pc, ![c].today = now]
            /\ pc \in {"lost", "update"}
        BY <2>2 DEF Claims!DailyCheckInDue
      <4>. HIDE DEF pc
      <4>. QED
        BY <4>1
    <3>2. caller[c].pc = "ask" /\ claim' = claim
      BY <2>2 DEF Claims!DailyCheckInDue
    <3>. QED
      BY <1>1, <3>1, <3>2 DEF Claims!CallerStates
  <2>3. CASE Claims!UpdateMatchesNothing(c) \/ Claims!InsertFails(c)
    BY <1>1, <2>3 DEF Claims!UpdateMatchesNothing, Claims!InsertFails, Claims!Goes,
       Claims!CallerStates
  <2>4. CASE Claims!Select(c)
    <3>1. PICK pc : /\ pc \in {"lost", "insert"}
                    /\ caller' = [caller EXCEPT ![c].pc = pc]
      <4>. DEFINE pc == IF claim = NoRow THEN "insert" ELSE "lost"
      <4>1. caller' = [caller EXCEPT ![c].pc = pc] /\ pc \in {"lost", "insert"}
        BY <2>4 DEF Claims!Select, Claims!Goes
      <4>. HIDE DEF pc
      <4>. QED
        BY <4>1
    <3>2. caller[c].pc = "select" /\ claim' = claim
      BY <2>4 DEF Claims!Select
    <3>. QED
      BY <1>1, <3>1, <3>2 DEF Claims!CallerStates
  <2>5. CASE caller[c].pc # "won" /\ Claims!End(c)
    BY <1>1, <2>5 DEF Claims!End, Claims!Ends, Claims!IdleCaller
  <2>. QED
    BY <1>4, <2>1, <2>2, <2>3, <2>4, <2>5
<1>. QED
  <2>1. CASE Claims!Update(c) \/ Claims!Insert(c)
    BY <1>2, <1>3, <2>1 DEF WonToday
  <2>2. CASE ~(Claims!Update(c) \/ Claims!Insert(c))
    <3>1. /\ caller[c].pc # "won" /\ caller'[c].pc # "won" /\ claim' = claim
          /\ \A b \in Requests \ {c} : caller'[b] = caller[b]
      BY <1>4, <2>2 DEF ClaimStep
    <3>. QED
      BY <1>2, <3>1 DEF WonToday
  <2>. QED
    BY <2>1, <2>2

(* Of the requests but the check-ins of all modules, none leaves any out.  *)
LEMMA StepsLeaveOut ==
  ASSUME TypeOK, NEW c \in Requests, LicenceStep(c)
  PROVE  LeftOutAtFirst(c)
<1>1. req \in [Requests -> RequestStates]
  BY DEF TypeOK
<1>2. ASSUME OtherRequest(c)
      PROVE  req'[c].pc # "next" \/ req'[c].kind # "checkInAll"
  <2>1. ASSUME NEW m \in Modules, CheckIn(c, m)
        PROVE  req'[c].kind # "checkInAll"
    BY <1>1, <2>1 DEF CheckIn, Begin, IdleRequest
  <2>2. ASSUME NEW k \in Keys, NEW wanted \in SUBSET Modules,
               AddKey(c, k, wanted) \/ UpdateKey(c, k, wanted) \/ RemoveKey(c, k)
        PROVE  req'[c].pc # "next"
    <3>1. \E kind, dels, adds : Begin(c, kind, Assigning(kind, k, dels, adds))
      BY <2>2, ZenonT(30) DEF AddKey, UpdateKey, RemoveKey
    <3>2. PICK kind, dels, adds : Begin(c, kind, Assigning(kind, k, dels, adds))
      BY <3>1
    <3>3. Assigning(kind, k, dels, adds).pc = "assign"
      BY DEF Assigning, IdleRequest
    <3>4. req' = [req EXCEPT ![c] = Assigning(kind, k, dels, adds)]
      BY <3>2, SMTT(40) DEF Begin
    <3>. QED
      BY <1>1, <3>3, <3>4
  <2>. QED
    BY <1>2, <2>1, <2>2 DEF OtherRequest
<1>3. AssignKey(c) \/ AttemptModule(c) \/ Save(c) \/ Loop(c) => req[c].pc # "idle"
  BY DEF AssignKey, EndAssign, Assign, Unassign, AttemptModule, Attempt, SkipKey, Ask,
     EndAsk, Save, Load, Plan, Write, WriteFails, Announce, Loop, EndLoop, SyncNext
<1>4. Abort(c) => req[c].pc # "idle"
  BY DEF Abort
<1>. QED
  BY <1>2, <1>3, <1>4 DEF LicenceStep, LeftOutAtFirst

(* The caller that won begins the check-in of all modules, or dies.        *)
LEMMA OwedDayRenews ==
  ASSUME IInv, ClaimInv, NEW c \in Requests, NEW loadable \in SUBSET Modules,
         CheckInDue(c, loadable) \/ DiesBeforeCheckIn(c)
  PROVE  /\ caller[c].pc = "won" /\ caller'[c].pc = "idle"
         /\ \A b \in Requests \ {c} : caller'[b] = caller[b]
         /\ UNCHANGED <<now, claim>>
<1>1. caller \in [Requests -> Claims!CallerStates]
  BY DEF ClaimInv, Claims!TypeOK
<1>. QED
  BY <1>1 DEF CheckInDue, CheckInAll, DiesBeforeCheckIn, Claims!Ends, Claims!IdleCaller

LEMMA NextRenews ==
  ASSUME ~CrossesMidnight, NoKeysSaved, IInv, ClaimInv, KeptInv, RenewInv,
         [NextOfDays]_dayVars
  PROVE  RenewInv'
<1>1. [Next]_vars /\ TypeOK /\ WonToday /\ leftOut \subseteq Modules
  BY DayIsLicensing DEF IInv, RenewInv
<1>2. ASSUME KeysUntouched'
      PROVE  /\ RequestsFit /\ DayRenewed /\ UNCHANGED <<live, assigned>>
             /\ leftOut \subseteq leftOut' => Renewable' \subseteq Renewable
  BY <1>1, <1>2, UntouchedBefore, SameKeys DEF RenewInv, Renewing, Renewable
(* A step of one request; what it owes stands in for the claim.            *)
<1>3. ASSUME NEW c \in Requests, now' = now, claim' = claim,
             leftOut \subseteq leftOut', LeftOutAtFirst(c),
             \/ BeginRequest(c) \/ AssignKey(c) \/ AttemptModule(c)
             \/ Save(c) \/ Loop(c) \/ Abort(c),
             \A b \in Requests : caller[b].pc = "won" =>
               \/ caller'[b].pc = "won"
               \/ \A m \in Modules \ leftOut' : Owes(req'[b], m),
             KeysUntouched'
      PROVE  Renewing'
  <2>1. /\ RequestsFit'
        /\ \A m \in Renewable :
             /\ Renewed(m) => Renewed(m)'
             /\ \A q \in Requests :
                  Owes(req[q], m) => \/ Owes(req'[q], m) \/ Renewed(m)'
                                     \/ aborts' # 0
    BY <1>1, <1>2, <1>3, StepRenews
  <2>2. aborts' = 0 => aborts = 0
    BY <1>1, RecordsStay
  <2>3. ASSUME claim' = now', aborts' = 0, NEW m \in Renewable'
        PROVE  \/ Renewed(m)'
               \/ \E b \in Requests : caller'[b].pc = "won" \/ Owes(req'[b], m)
    <3>1. \/ Renewed(m)
          \/ \E b \in Requests : caller[b].pc = "won" \/ Owes(req[b], m)
      BY <1>2, <1>3, <2>2, <2>3 DEF DayRenewed
    <3>2. m \in Renewable /\ m \in Modules \ leftOut'
      BY <1>2, <1>3, <2>3 DEF Renewable
    <3>. QED
      BY <1>3, <2>1, <2>3, <3>1, <3>2
  <2>4. DayRenewed'
    BY <1>2, <1>3, <2>3 DEF DayRenewed, Owes
  <2>. QED
    BY <2>1, <2>4 DEF Renewing
<1>4. ASSUME NEW c \in Requests, LicenceStep(c)
      PROVE  RenewInv'
  <2>1. UNCHANGED <<now, claim, caller, leftOut>>
    BY <1>4, LicenceStepKeepsTime DEF LicenceStep, claimVars
  <2>2. WonToday' /\ leftOut' \subseteq Modules
    BY <1>1, <2>1 DEF WonToday
  <2>3. LeftOutAtFirst(c)
    BY <1>1, <1>4, StepsLeaveOut
  <2>4. KeysUntouched' => Renewing'
    BY <1>3, <1>4, <2>1, <2>3 DEF LicenceStep, BeginRequest
  <2>. QED
    BY <2>2, <2>4 DEF RenewInv
<1>5. ASSUME NEW c \in Requests, ClaimStep(c)
      PROVE  RenewInv'
  <2>1. /\ UNCHANGED <<now, licenceVars, leftOut>> /\ WonToday'
        /\ claim' = claim \/ caller'[c].pc = "won"
        /\ \A b \in Requests : caller[b].pc = "won" => caller'[b].pc = "won"
    BY <1>1, <1>5, ClaimStepRenews
  <2>2. /\ UNCHANGED <<entitlements, req, aborts>>
        /\ \A m : RowOf(m)' = RowOf(m)
    BY <2>1 DEF licenceVars, RowOf
  <2>3. ASSUME KeysUntouched'
        PROVE  Renewing'
    <3>1. RequestsFit'
      BY <1>2, <2>1, <2>3, StillFits
    <3>3. DayRenewed'
      <4>1. CASE claim' = claim
        BY <1>2, <2>1, <2>2, <2>3, <4>1 DEF DayRenewed, Renewed, Owes
      <4>2. CASE caller'[c].pc = "won"
        BY <4>2 DEF DayRenewed
      <4>. QED
        BY <2>1, <4>1, <4>2
    <3>. QED
      BY <3>1, <3>3 DEF Renewing
  <2>. QED
    BY <1>1, <2>1, <2>3 DEF RenewInv
<1>6. ASSUME NEW c \in Requests, NEW loadable \in SUBSET Modules,
             CheckAll(c, loadable) \/ CheckInDue(c, loadable)
      PROVE  RenewInv'
  <2>1. /\ UNCHANGED <<now, claim>> /\ CheckInAll(c, loadable)
        /\ leftOut' = leftOut \cup (Modules \ loadable)
    BY <1>6 DEF CheckAll, CheckInDue, LeavesOut, CheckInAll, claimVars
  <2>2. \/ caller' = caller
        \/ /\ caller[c].pc = "won" /\ caller'[c].pc = "idle"
           /\ \A b \in Requests \ {c} : caller'[b] = caller[b]
    BY <1>6, OwedDayRenews DEF CheckAll, claimVars
  <2>3. WonToday'
    BY <1>1, <2>1, <2>2 DEF WonToday
  <2>4. /\ req'[c].todo = loadable
        /\ \A m \in Modules \ leftOut' : Owes(req'[c], m)
    <3>. DEFINE new == [IdleRequest EXCEPT !.pc = "next", !.kind = "checkInAll",
                                           !.todo = loadable]
    <3>1. req' = [req EXCEPT ![c] = new]
      BY <2>1 DEF CheckInAll, Begin
    <3>2. new.todo = loadable /\ \A m \in loadable : Owes(new, m)
      BY DEF Owes, IdleRequest
    <3>. HIDE DEF new
    <3>. QED
      BY <1>1, <2>1, <3>1, <3>2, OthersStay
  <2>5. LeftOutAtFirst(c)
    BY <2>1, <2>4 DEF LeftOutAtFirst
  <2>6. KeysUntouched' => Renewing'
    BY <1>3, <2>1, <2>2, <2>4, <2>5 DEF BeginRequest
  <2>. QED
    BY <1>1, <2>1, <2>3, <2>6 DEF RenewInv
<1>7. ASSUME NEW c \in Requests, DiesBeforeCheckIn(c)
      PROVE  RenewInv'
  <2>1. /\ caller[c].pc = "won" /\ caller'[c].pc = "idle"
        /\ \A b \in Requests \ {c} : caller'[b] = caller[b]
        /\ UNCHANGED <<now, claim, licenceVars>>
        /\ leftOut' = Modules
    BY <1>7, OwedDayRenews DEF DiesBeforeCheckIn
  <2>2. WonToday' /\ Renewable' = {} /\ leftOut \subseteq leftOut'
    BY <1>1, <2>1 DEF WonToday, Renewable
  <2>3. ASSUME KeysUntouched'
        PROVE  Renewing'
    <3>1. RequestsFit'
      BY <1>2, <2>1, <2>2, <2>3, StillFits
    <3>. QED
      BY <2>2, <3>1 DEF DayRenewed, Renewing
  <2>. QED
    BY <2>1, <2>2, <2>3 DEF RenewInv
<1>8. CASE NextDay
  <2>1. /\ now \in Nat /\ now' = now + 1 /\ now' \in Claims!Days
        /\ UNCHANGED <<claim, caller, licenceVars>> /\ leftOut' = {}
        /\ \A c \in Requests : req[c].pc = "idle" /\ caller[c].pc # "won"
    BY <1>1, <1>8, LicensingAssumption
       DEF NextDay, Claims!Midnight, Claims!Days, Resting, TypeOK
  <2>2. WonToday'
    BY <2>1 DEF WonToday
  <2>3. claim' # now'
    <3>1. claim \in Claims!Days => claims[claim] = 1
      BY DEF ClaimInv, RowNamesTheClaim
    <3>2. now' > now => claims[now'] = 0
      BY <2>1 DEF ClaimInv, RowNamesTheClaim
    <3>. QED
      BY <2>1, <3>1, <3>2
  <2>4. ASSUME KeysUntouched'
        PROVE  Renewing'
    <3>1. UNCHANGED <<entitlements, req>>
      BY <2>1 DEF licenceVars
    <3>2. RequestsFit'
      BY <2>1, <3>1 DEF RequestsFit, Answers, Seen, Visits, Attempting
    <3>. QED
      BY <2>3, <3>2 DEF DayRenewed, Renewing
  <2>. QED
    BY <2>1, <2>2, <2>4 DEF RenewInv
<1>9. CASE UNCHANGED dayVars
  <2>1. UNCHANGED <<now, claim, caller, leftOut, licenceVars>>
    BY <1>9 DEF dayVars, claimVars
  <2>2. WonToday'
    BY <1>1, <2>1 DEF WonToday
  <2>3. ASSUME KeysUntouched'
        PROVE  Renewing'
    <3>1. RequestsFit'
      BY <1>2, <2>1, <2>3, StillFits
    <3>2. DayRenewed'
      BY <1>2, <2>1, <2>3 DEF DayRenewed, Renewed, RowOf, Owes, licenceVars
    <3>. QED
      BY <3>1, <3>2 DEF Renewing
  <2>. QED
    BY <1>1, <2>1, <2>2, <2>3 DEF RenewInv
<1>. QED
  BY <1>4, <1>5, <1>6, <1>7, <1>8, <1>9 DEF NextOfDays

(* "Whichever comes first that day does it": once a day is claimed and     *)
(* everybody has finished, each module with a stored key that no check-in  *)
(* found disabled has been asked about on that day, whatever               *)
(* requests were made beside the one that claimed it -- unless a request   *)
(* died, midnight overtook one, or keys were saved.                        *)
THEOREM ClaimRenewsAll ==
  ASSUME ~CrossesMidnight, NoKeysSaved
  PROVE  SpecOfDays => []ClaimedDayRenews
<1>1. InitDays => RenewInv
  <2>. SUFFICES ASSUME InitDays PROVE RenewInv
    OBVIOUS
  <2>1. /\ \A p \in Requests : req[p].pc = "idle" /\ caller[p].pc = "idle"
        /\ entitlements = [m \in Modules |-> NoRow] /\ now = 0
        /\ claim \in {NoRow, Null, Earlier} /\ leftOut = {}
    BY DEF InitDays, Init, IdleRequest, Claims!Init, Claims!IdleCaller
  <2>2. claim # now
    BY <2>1, ClaimsAssumption DEF Claims!Days
  <2>. QED
    BY <2>1, <2>2 DEF RenewInv, WonToday, Renewing, RequestsFit, DayRenewed,
       Renewable, Answers, Seen, Visits, Attempting
<1>2. IInv /\ ClaimInv /\ KeptInv /\ RenewInv /\ [NextOfDays]_dayVars => RenewInv'
  BY NextRenews
<1>3. SpecOfDays => []ClaimInv
  BY ClaimInitInv, ClaimNextInv, DaysClaim, PTL DEF Claims!Spec
<1>4. SpecOfDays => []KeptInv
  BY KeptHolds
<1>5. RenewInv => ClaimedDayRenews
  <2>. SUFFICES ASSUME RenewInv, claim = now, aborts = 0,
                       \A c \in Requests : Resting(c), KeysUntouched,
                       NEW m \in Modules \ leftOut, StoredKeys(m) # {}
                PROVE  Renewed(m)
    BY DEF ClaimedDayRenews, Renewed
  <2>. QED
    BY DEF RenewInv, Renewing, DayRenewed, Resting, Owes, Renewable
<1>. QED
  BY <1>1, <1>2, <1>3, <1>4, <1>5, DaysLicense, InvariantHolds, PTL DEF SpecOfDays
=============================================================================
