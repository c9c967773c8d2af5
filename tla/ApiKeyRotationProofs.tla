------------------------ MODULE ApiKeyRotationProofs ------------------------
(***************************************************************************)
(* Proofs about ApiKeyRotation, for every set of users, keys and requests, *)
(* and for saves that write all columns or the changed ones.               *)
(*                                                                         *)
(* A save from an object that is as old as the row, or of a row that is in *)
(* `stale` ever after: every other save only takes something from the key  *)
(* (NoBetter).  So what was loaded, told to a client or settled is never   *)
(* less than what the row still has (StateLosses, PromisesHeld).           *)
(*                                                                         *)
(* That the newest key in hand works (NewestWorks) holds of stale rows as  *)
(* well.  Whatever a lasting key has lost, in the table or in an object    *)
(* that may be saved over it, is accounted for by a younger lasting key of *)
(* its user (Excused): it is revoked only where the younger one's token    *)
(* has arrived, and expires only where it has, or not before its grace is  *)
(* over.  What accounts for a loss once does so ever after.                *)
(***************************************************************************)
EXTENDS ApiKeyRotation, TLAPS

(* A row has lost what an older one had, or is the same.                   *)
NoBetter(row, old) ==
  /\ old.revoked => row.revoked
  /\ old.expires # Never => row.expires # Never /\ row.expires <= old.expires

(* What a request at each of its steps holds.                              *)
StateShape(s) ==
  /\ s.pc \in {"idle", "user", "touch", "act"} =>
       /\ s.expires = Never /\ s.loaded = NothingLoaded /\ s.before = {}
       /\ s.new = 0
  /\ s.pc \in {"user", "touch"} => s.key # 0 /\ s.own # NoRow
  /\ s.key # 0 => s.key \in KeyIds
  /\ s.new # 0 => s.new \in KeyIds
  /\ s.pc = "issue" => s.expires = Never \/ s.loaded = NothingLoaded
  /\ s.pc = "find" => s.target \in purged /\ s.new = 0
  /\ s.pc \notin {"find", "revoke", "respond"} => s.before = {}
  /\ s.before \subseteq KeyIds

(* Whose the keys are that it holds.                                       *)
StateOwners(s) ==
  /\ s.pc \in {"user", "touch"} => s.own.user = api_keys[s.key].user
  /\ \A k \in Ids :
       s.loaded[k] # NoRow =>
         /\ k \in KeyIds
         /\ s.loaded[k].user = api_keys[k].user
         /\ s.pc = "issue" => api_keys[k].user = s.target
  /\ s.pc = "find" => \A k \in s.before : api_keys[k].user = s.target

(* Since they were loaded keys have only lost, and what a deactivation has *)
(* done with is revoked.                                                   *)
StateLosses(s) ==
  /\ \A k \in Ids \ stale :
       s.loaded[k] # NoRow => NoBetter(api_keys[k], s.loaded[k])
  /\ \A k \in s.before \ stale :
       s.pc # "find" => api_keys[k].revoked \/ k \in s.todo \cup unsaved

PromisesHeld ==
  \A k \in Ids :
    promised[k] # Never =>
      /\ k \in KeyIds
      /\ k \notin stale =>
           api_keys[k].expires # Never /\ api_keys[k].expires <= promised[k]

SettledRevoked ==
  /\ settled \subseteq KeyIds
  /\ \A k \in settled \ stale : api_keys[k].revoked \/ k \in unsaved

(* What a lasting key may have lost, where nobody took a key of its user   *)
(* away on purpose or too early.                                           *)
Excused(k, expires, revoked) ==
  k \in lasting /\ api_keys[k].user \notin purged \cup hasty =>
    /\ revoked => \E j \in Successors(k) : j \in known
    /\ expires # Never =>
         \E j \in Successors(k) :
           j \in known \/ (due[j] # Never /\ due[j] <= expires)

(* The objects that a request may save.                                    *)
StateExcused(s) ==
  /\ s.key # 0 => s.key \in known
  /\ s.pc \in {"user", "touch"} => Excused(s.key, s.own.expires, s.own.revoked)
  /\ \A k \in Ids :
       s.loaded[k] # NoRow =>
         Excused(k, s.loaded[k].expires, s.loaded[k].revoked)
  /\ s.pc = "expire" =>
       \A k \in s.todo : Excused(k, s.deadline, s.loaded[k].revoked)
  /\ s.pc = "revoke" =>
       \A k \in s.todo : Excused(k, s.loaded[k].expires, TRUE)

Good(s) == StateShape(s) /\ StateOwners(s) /\ StateLosses(s) /\ StateExcused(s)

RowsExcused ==
  \A k \in KeyIds : Excused(k, api_keys[k].expires, api_keys[k].revoked)

IInv ==
  /\ TypeOK
  /\ \A r \in Requests : Good(req[r])
  /\ PromisesHeld
  /\ SettledRevoked
  /\ RowsExcused

-----------------------------------------------------------------------------
(* The states of requests.                                                 *)

(* What the lists of a request say.                                        *)
Fits(s) ==
  /\ s.todo \subseteq {k \in KeyIds : s.loaded[k] # NoRow}
  /\ s.pc \in {"expire", "revoke"} <=> s.todo # {}

LEMMA IdleFields ==
  /\ Idle \in RequestStates
  /\ Idle.pc = "idle" /\ Idle.key = 0 /\ Idle.new = 0 /\ Idle.own = NoRow /\ Idle.expires = Never
  /\ Idle.loaded = NothingLoaded /\ Idle.todo = {} /\ Idle.before = {}
<1>1. /\ (CHOOSE u \in Users : TRUE) \in Users
      /\ (CHOOSE n \in Names : TRUE) \in Names
  BY ApiKeysAssumption DEF ApiKeysAssumption
<1>2. NothingLoaded \in [Ids -> Rows \cup {NoRow}] /\ Never \in Times
  BY DEF NothingLoaded, Times
<1>. QED
  BY <1>1, <1>2 DEF Idle, RequestStates, AllKinds

LEMMA KeysStored ==
  ASSUME TypeOK
  PROVE  /\ KeyIds \subseteq Ids
         /\ \A k \in Ids : k \in KeyIds <=> api_keys[k] # NoRow
         /\ \A k \in KeyIds : api_keys[k] \in Rows
BY ApiKeysAssumption DEF TypeOK, KeyIds, Ids, ApiKeysAssumption

LEMMA RowFields ==
  ASSUME NEW row \in Rows
  PROVE  /\ row # NoRow /\ row.user \in Users /\ row.expires \in Times
         /\ row.revoked \in BOOLEAN /\ row.name \in Names
BY ApiKeysAssumption DEF Rows, ApiKeysAssumption

LEMMA SameIsNoBetter ==
  ASSUME NEW row \in Rows
  PROVE  NoBetter(row, row)
BY ApiKeysAssumption DEF Rows, Times, NoBetter, ApiKeysAssumption

LEMMA NoBetterTwice ==
  ASSUME NEW a \in Rows, NEW b \in Rows, NEW c \in Rows,
         NoBetter(a, b), NoBetter(b, c)
  PROVE  NoBetter(a, c)
BY ApiKeysAssumption DEF Rows, Times, NoBetter, ApiKeysAssumption

LEMMA LoadedKeys ==
  ASSUME TypeOK, NEW S \in SUBSET KeyIds
  PROVE  /\ Loads(S) \in [Ids -> Rows \cup {NoRow}]
         /\ \A k \in Ids : Loads(S)[k] # NoRow <=> k \in S
         /\ \A k \in S : Loads(S)[k] = api_keys[k]
BY KeysStored DEF Loads, TypeOK

(* A request that has loaded nothing.                                      *)
LEMMA BlankIsGood ==
  ASSUME TypeOK, NEW s \in RequestStates,
         s.loaded = NothingLoaded, s.todo = {}, s.before = {}, s.new = 0,
         s.pc \in {"idle", "act", "issue", "respond"},
         s.pc \in {"idle", "act"} => s.expires = Never,
         s.key # 0 => s.key \in known
  PROVE  Good(s) /\ Fits(s)
<1>1. s.key # 0 => s.key \in KeyIds
  BY DEF TypeOK, KeyIds
<1>. QED
  BY <1>1 DEF Good, StateShape, StateOwners, StateLosses, StateExcused, Fits,
              NothingLoaded

(* A request that has loaded some keys just now.                           *)
LEMMA LoadedFits ==
  ASSUME TypeOK, NEW s \in RequestStates, NEW S \in SUBSET KeyIds,
         s.loaded = Loads(S), s.new = 0,
         \/ /\ s.pc = "issue" /\ s.expires = Never /\ s.before = {} /\ s.todo = {}
            /\ \A k \in S : api_keys[k].user = s.target
         \/ s.pc = "revoke" /\ s.todo = S /\ S # {},
         s.key # 0 => s.key \in known,
         s.before \subseteq KeyIds,
         \A k \in s.before : api_keys[k].revoked \/ k \in s.todo
  PROVE  /\ StateShape(s) /\ StateOwners(s) /\ StateLosses(s) /\ Fits(s)
         /\ \A k \in Ids :
              s.loaded[k] # NoRow => k \in KeyIds /\ k \in S /\ s.loaded[k] = api_keys[k]
         /\ \A k \in S : s.loaded[k] = api_keys[k]
<1>1. \A k \in Ids :
        s.loaded[k] # NoRow => k \in KeyIds /\ k \in S /\ s.loaded[k] = api_keys[k]
  BY LoadedKeys
<1>2. StateShape(s)
  BY DEF StateShape, TypeOK, KeyIds
<1>3. StateOwners(s)
  BY <1>1 DEF StateOwners
<1>4. StateLosses(s)
  BY <1>1, KeysStored, SameIsNoBetter DEF StateLosses
<1>5. Fits(s)
  BY KeysStored, LoadedKeys DEF Fits
<1>. QED
  BY <1>1, <1>2, <1>3, <1>4, <1>5, LoadedKeys

-----------------------------------------------------------------------------
(* What a step may do to the tables, and that it leaves the states of the  *)
(* requests that do not take it as they should be.                         *)

TableMoves ==
  /\ now' \in 0..MaxTime /\ is_active' \in [Users -> BOOLEAN]
  /\ requests' \in 0..MaxRequests /\ faults' \in 0..MaxFaults
  /\ issued' \in 0..MaxKeys /\ issued <= issued'
  /\ api_keys' \in [Ids -> Rows \cup {NoRow}]
  /\ \A k \in Ids : api_keys'[k] = NoRow <=> k > issued'
  /\ purged \subseteq purged' /\ purged' \subseteq Users
  /\ stale \subseteq stale' /\ stale' \subseteq Ids
  /\ \A k \in KeyIds :
       /\ api_keys'[k] \in Rows
       /\ api_keys'[k].user = api_keys[k].user
       /\ k \notin stale' => NoBetter(api_keys'[k], api_keys[k])
  /\ lasting \subseteq lasting' /\ lasting' \subseteq KeyIds'
  /\ known \subseteq known' /\ known' \subseteq KeyIds'
  /\ hasty \subseteq hasty' /\ hasty' \subseteq Users
  /\ due' \in [Ids -> Times] /\ unsaved' \subseteq Ids
  /\ \A k \in KeyIds :
       /\ k \in lasting' => k \in lasting
       /\ due'[k] = due[k]
       /\ k \in unsaved \ unsaved' => k \in stale' \/ api_keys'[k].revoked

LEMMA KeysAreKept ==
  ASSUME TypeOK, TableMoves
  PROVE  KeyIds \subseteq KeyIds' /\ KeyIds \subseteq Ids
BY ApiKeysAssumption, SMTT(40) DEF TypeOK, TableMoves, KeyIds, Ids, ApiKeysAssumption

LEMMA StillExcused ==
  ASSUME TypeOK, TableMoves, NEW k \in KeyIds, NEW expires, NEW revoked,
         Excused(k, expires, revoked)
  PROVE  Excused(k, expires, revoked)'
<1>1. \A j \in lasting : j \in KeyIds /\ j \in lasting'
  BY DEF TypeOK, TableMoves, KeyIds
<1>2. \A j \in Successors(k) :
        j \in Successors(k)' /\ due'[j] = due[j] /\ (j \in known => j \in known')
  BY <1>1 DEF Successors, TableMoves
<1>3. /\ k \in lasting' => k \in lasting
      /\ api_keys'[k].user \notin purged' \cup hasty'
           => api_keys[k].user \notin purged \cup hasty
  BY DEF TableMoves
<1>. QED
  BY <1>2, <1>3 DEF Excused

LEMMA OthersStayGood ==
  ASSUME TypeOK, TableMoves, NEW s \in RequestStates, Good(s), Fits(s)
  PROVE  Good(s)' /\ Fits(s)'
<1>1. KeyIds \subseteq KeyIds' /\ KeyIds \subseteq Ids
  BY KeysAreKept
<1>2. StateShape(s)'
  BY <1>1 DEF Good, StateShape, TableMoves
<1>3. StateOwners(s)'
  BY <1>1 DEF Good, StateShape, StateOwners, TableMoves
<1>4. StateLosses(s)'
  <2>1. ASSUME NEW k \in Ids \ stale', s.loaded[k] # NoRow
        PROVE  NoBetter(api_keys'[k], s.loaded[k])
    <3>1. k \in KeyIds /\ k \notin stale /\ s.loaded[k] \in Rows
      BY <2>1 DEF Good, StateOwners, TableMoves, RequestStates
    <3>2. NoBetter(api_keys[k], s.loaded[k]) /\ NoBetter(api_keys'[k], api_keys[k])
      BY <2>1, <3>1 DEF Good, StateLosses, TableMoves
    <3>3. api_keys[k] \in Rows /\ api_keys'[k] \in Rows
      BY <3>1, KeysStored DEF TableMoves
    <3>. QED
      BY <3>1, <3>2, <3>3, NoBetterTwice
  <2>2. ASSUME NEW k \in s.before \ stale', s.pc # "find"
        PROVE  api_keys'[k].revoked \/ k \in s.todo \cup unsaved'
    <3>1. k \in KeyIds /\ k \notin stale
      BY <2>2 DEF Good, StateShape, TableMoves
    <3>. QED
      BY <2>2, <3>1 DEF Good, StateLosses, TableMoves, NoBetter
  <2>. QED
    BY <2>1, <2>2 DEF StateLosses
<1>5. Fits(s)'
  BY <1>1 DEF Fits
<1>6. StateExcused(s)'
  <2>1. s.key # 0 => s.key \in known'
    BY DEF Good, StateExcused, TableMoves
  <2>2. s.pc \in {"user", "touch"} => Excused(s.key, s.own.expires, s.own.revoked)'
    BY StillExcused DEF Good, StateExcused, StateShape
  <2>3. ASSUME NEW k \in Ids, s.loaded[k] # NoRow
        PROVE  Excused(k, s.loaded[k].expires, s.loaded[k].revoked)'
    BY <2>3, StillExcused DEF Good, StateExcused, StateOwners
  <2>4. ASSUME NEW k \in s.todo
        PROVE  /\ s.pc = "expire" => Excused(k, s.deadline, s.loaded[k].revoked)'
               /\ s.pc = "revoke" => Excused(k, s.loaded[k].expires, TRUE)'
    <3>1. k \in KeyIds
      BY DEF Fits
    <3>. QED
      BY <3>1, StillExcused DEF Good, StateExcused
  <2>. QED
    BY <2>1, <2>2, <2>3, <2>4 DEF StateExcused
<1>. QED
  BY <1>2, <1>3, <1>4, <1>5, <1>6 DEF Good

LEMMA RequestMoves ==
  ASSUME TypeOK, NEW r \in Requests, NEW s, Goes(r, s)
  PROVE  req'[r] = s /\ \A q \in Requests : q # r => req'[q] = req[q]
BY DEF TypeOK, Goes

LEMMA TypesOfRequests ==
  ASSUME TypeOK, NEW r \in Requests
  PROVE  req[r] \in RequestStates /\ Fits(req[r])
BY DEF TypeOK, Fits, KeyIds

(* One request goes on to s.                                               *)
LEMMA StepKeeps ==
  ASSUME IInv, NEW r \in Requests, NEW s \in RequestStates, Goes(r, s),
         TableMoves, Good(s)', Fits(s)',
         promised' \in [Ids -> Times], settled' \subseteq Ids,
         PromisesHeld', SettledRevoked', RowsExcused'
  PROVE  IInv'
<1>1. TypeOK
  BY DEF IInv
<1>2. \A q \in Requests :
        req'[q] \in RequestStates /\ Good(req[q])' /\ Fits(req[q])'
  <2>1. \A q \in Requests : req[q] \in RequestStates /\ Good(req[q]) /\ Fits(req[q])
    BY <1>1, TypesOfRequests DEF IInv
  <2>2. ASSUME NEW q \in Requests, q # r
        PROVE  req'[q] \in RequestStates /\ Good(req[q])' /\ Fits(req[q])'
    <3>1. PICK t : t = req[q]
      OBVIOUS
    <3>2. t \in RequestStates /\ Good(t) /\ Fits(t)
      BY <2>1, <3>1
    <3>3. Good(t)' /\ Fits(t)'
      BY <1>1, <3>2, OthersStayGood
    <3>4. req'[q] = t
      BY <1>1, <2>2, <3>1, RequestMoves
    <3>. QED
      BY <3>2, <3>3, <3>4
  <2>3. req'[r] = s
    BY <1>1, RequestMoves
  <2>. QED
    BY <2>2, <2>3
<1>3. req' \in [Requests -> RequestStates]
  BY <1>1 DEF TypeOK, Goes
<1>4. TypeOK'
  BY <1>2, <1>3 DEF TypeOK, TableMoves, Fits, KeyIds
<1>5. \A q \in Requests : Good(req[q])'
  BY <1>2
<1>. QED
  BY <1>4, <1>5 DEF IInv

LEMMA HistoryKept ==
  ASSUME IInv, TableMoves
  PROVE  /\ UNCHANGED promised => promised' \in [Ids -> Times] /\ PromisesHeld'
         /\ UNCHANGED settled => settled' \subseteq Ids /\ SettledRevoked'
<1>1. KeyIds \subseteq KeyIds' /\ KeyIds \subseteq Ids
  BY KeysAreKept DEF IInv
<1>2. ASSUME UNCHANGED promised
      PROVE  promised' \in [Ids -> Times] /\ PromisesHeld'
  <2>1. ASSUME NEW k \in Ids, promised[k] # Never, k \notin stale'
        PROVE  api_keys'[k].expires # Never /\ api_keys'[k].expires <= promised[k]
    <3>1. /\ k \in KeyIds /\ api_keys[k] \in Rows /\ api_keys'[k] \in Rows
          /\ promised[k] \in Nat
      BY <2>1, KeysStored DEF IInv, PromisesHeld, TypeOK, Times, TableMoves
    <3>2. /\ api_keys[k].expires # Never /\ api_keys[k].expires <= promised[k]
          /\ NoBetter(api_keys'[k], api_keys[k])
      BY <2>1, <3>1 DEF IInv, PromisesHeld, TableMoves
    <3>. QED
      BY <3>1, <3>2, RowFields DEF NoBetter, Times
  <2>. QED
    BY <1>1, <1>2, <2>1 DEF IInv, TypeOK, PromisesHeld
<1>3. ASSUME UNCHANGED settled
      PROVE  settled' \subseteq Ids /\ SettledRevoked'
  BY <1>1, <1>3 DEF IInv, TypeOK, SettledRevoked, TableMoves, NoBetter
<1>. QED
  BY <1>2, <1>3

(* Rows that a step leaves as they are.                                    *)
LEMMA RowsStayExcused ==
  ASSUME IInv, TableMoves, NEW k \in KeyIds, api_keys'[k] = api_keys[k]
  PROVE  Excused(k, api_keys[k].expires, api_keys[k].revoked)'
<1>1. PICK row : row = api_keys[k]
  OBVIOUS
<1>2. Excused(k, row.expires, row.revoked)
  BY <1>1 DEF IInv, RowsExcused
<1>3. Excused(k, row.expires, row.revoked)'
  BY <1>2, StillExcused DEF IInv
<1>. QED
  BY <1>1, <1>3

(* A step that writes no key.                                              *)
Quiet ==
  /\ UNCHANGED <<api_keys, issued, stale, lasting, due>>
  /\ purged \subseteq purged' /\ purged' \subseteq Users
  /\ hasty \subseteq hasty' /\ hasty' \subseteq Users
  /\ known \subseteq known' /\ known' \subseteq KeyIds
  /\ unsaved \subseteq unsaved' /\ unsaved' \subseteq Ids
  /\ now' \in 0..MaxTime /\ is_active' \in [Users -> BOOLEAN]
  /\ requests' \in 0..MaxRequests /\ faults' \in 0..MaxFaults

LEMMA QuietTable ==
  ASSUME TypeOK, Quiet
  PROVE  TableMoves
<1>1. \A k \in KeyIds : api_keys[k] \in Rows /\ NoBetter(api_keys[k], api_keys[k])
  BY KeysStored, SameIsNoBetter
<1>2. issued <= issued'
  BY ApiKeysAssumption DEF TypeOK, ApiKeysAssumption, Quiet
<1>. QED
  BY <1>1, <1>2 DEF TypeOK, TableMoves, Quiet, KeyIds

LEMMA QuietStep ==
  ASSUME IInv, NEW r \in Requests, NEW s \in RequestStates, Goes(r, s),
         Quiet, UNCHANGED <<promised, settled>>, Good(s)', Fits(s)
  PROVE  IInv'
<1>1. TypeOK /\ TableMoves
  BY QuietTable DEF IInv
<1>2. RowsExcused'
  BY <1>1, RowsStayExcused DEF Quiet, RowsExcused, KeyIds
<1>3. Fits(s)'
  BY DEF Fits, KeyIds, Quiet
<1>. QED
  BY <1>1, <1>2, <1>3, HistoryKept, StepKeeps

(* The same, for a state that is as it should be before the step.          *)
LEMMA SilentStep ==
  ASSUME IInv, NEW r \in Requests, NEW s \in RequestStates, Goes(r, s),
         Quiet, UNCHANGED <<promised, settled>>, Good(s), Fits(s)
  PROVE  IInv'
<1>1. TypeOK /\ TableMoves
  BY QuietTable DEF IInv
<1>2. Good(s)'
  BY <1>1, OthersStayGood
<1>. QED
  BY <1>2, QuietStep

(* The types of what a step of a request leaves alone.                     *)
LEMMA PlainTypes ==
  ASSUME TypeOK
  PROVE  /\ UNCHANGED now => now' \in 0..MaxTime
         /\ UNCHANGED is_active => is_active' \in [Users -> BOOLEAN]
         /\ UNCHANGED requests => requests' \in 0..MaxRequests
         /\ requests < MaxRequests /\ requests' = requests + 1
              => requests' \in 0..MaxRequests
         /\ UNCHANGED faults \/ Fault => faults' \in 0..MaxFaults
         /\ UNCHANGED purged => purged \subseteq purged' /\ purged' \subseteq Users
         /\ UNCHANGED hasty => hasty \subseteq hasty' /\ hasty' \subseteq Users
         /\ UNCHANGED known => known \subseteq known' /\ known' \subseteq KeyIds
         /\ UNCHANGED unsaved => unsaved \subseteq unsaved' /\ unsaved' \subseteq Ids
BY ApiKeysAssumption DEF TypeOK, Fault, KeyIds, ApiKeysAssumption

(* A step that changes the bounds alone.                                   *)
LEMMA StillQuiet ==
  ASSUME TypeOK,
         UNCHANGED <<now, is_active, api_keys, issued, stale, purged, unsaved,
                     tokens, hasty>>,
         \/ UNCHANGED requests
         \/ requests < MaxRequests /\ requests' = requests + 1,
         UNCHANGED faults \/ Fault
  PROVE  Quiet
BY PlainTypes DEF Quiet, tokens

-----------------------------------------------------------------------------
(* The actions that write no key.                                          *)

LEMMA EndsKeeps ==
  ASSUME IInv, NEW r \in Requests, Ends(r), Quiet, UNCHANGED <<promised, settled>>
  PROVE  IInv'
<1>1. PICK s \in RequestStates : s = Idle
  BY IdleFields
<1>2. Good(s) /\ Fits(s)
  BY <1>1, IdleFields, BlankIsGood DEF IInv
<1>3. Goes(r, s)
  BY <1>1 DEF Ends
<1>. QED
  BY <1>2, <1>3, SilentStep

LEMMA EndingsKeep ==
  ASSUME IInv, NEW r \in Requests, Other(r) \/ UsersAction(r) \/ Dies(r)
  PROVE  IInv'
<1>1. /\ TypeOK /\ Ends(r)
      /\ UNCHANGED <<now, api_keys, issued, stale, promised, settled, purged,
                     unsaved, tokens, hasty, requests>>
      /\ UNCHANGED faults \/ Fault
  BY DEF IInv, Other, UsersAction, Dies, history, bounds, tokens
<1>2. is_active' \in [Users -> BOOLEAN]
  BY <1>1 DEF TypeOK, Other, UsersAction, Dies
<1>3. Quiet
  BY <1>1, <1>2, PlainTypes DEF Quiet, tokens
<1>. QED
  BY <1>1, <1>3, EndsKeeps

(* Authentication, before the key is saved.                                *)
LEMMA SignInKeeps ==
  ASSUME IInv, NEW r \in Requests, FindKey(r) \/ FindUser(r) \/ Session(r)
  PROVE  IInv'
<1>1. TypeOK /\ KeyIds \subseteq Ids
  BY KeysStored DEF IInv
<1>2. CASE FindKey(r)
  <2>1. PICK k \in known :
          /\ Begin(r, [Idle EXCEPT !.pc = "user", !.caller = api_keys[k].user,
                                   !.key = k, !.own = api_keys[k]])
          /\ UNCHANGED purged
    BY <1>2 DEF FindKey
  <2>2. k \in KeyIds /\ k # 0 /\ k \in Ids
    BY <1>1 DEF TypeOK, KeyIds
  <2>3. api_keys[k] \in Rows /\ api_keys[k].user \in Users /\ api_keys[k] # NoRow
    BY <1>1, <2>2, KeysStored, RowFields
  <2>4. PICK s : s = [Idle EXCEPT !.pc = "user", !.caller = api_keys[k].user,
                                  !.key = k, !.own = api_keys[k]]
    OBVIOUS
  <2>5. /\ s \in RequestStates /\ s.pc = "user" /\ s.key = k
        /\ s.own = api_keys[k] /\ s.expires = Never /\ s.new = 0
        /\ s.loaded = NothingLoaded /\ s.todo = {} /\ s.before = {}
    BY <2>2, <2>3, <2>4, IdleFields DEF RequestStates
  <2>6. Good(s) /\ Fits(s)
    BY <2>2, <2>3, <2>5
       DEF Good, StateShape, StateOwners, StateLosses, StateExcused, Fits,
           NothingLoaded, IInv, RowsExcused
  <2>7. /\ Goes(r, s)
        /\ UNCHANGED <<api_keys, issued, stale, promised, settled, purged, now,
                       is_active, unsaved, tokens, hasty, faults>>
        /\ requests < MaxRequests /\ requests' = requests + 1
    BY <2>1, <2>4 DEF Begin
  <2>. QED
    BY <1>1, <2>5, <2>6, <2>7, StillQuiet, SilentStep
<1>3. CASE FindUser(r)
  <2>1. /\ req[r].pc = "user" /\ req[r] \in RequestStates
        /\ Good(req[r]) /\ Fits(req[r])
        /\ UNCHANGED <<api_keys, issued, stale, promised, settled, purged, now,
                       is_active, unsaved, tokens, hasty, faults, requests>>
    BY <1>1, <1>3, TypesOfRequests DEF FindUser, IInv, history, bounds, tokens
  <2>2. Quiet
    BY <1>1, <2>1, StillQuiet
  <2>3. CASE Ends(r)
    BY <2>1, <2>2, <2>3, EndsKeeps
  <2>4. CASE Goes(r, [req[r] EXCEPT !.pc = "touch"])
    <3>1. PICK s : s = [req[r] EXCEPT !.pc = "touch"]
      OBVIOUS
    <3>2. /\ s \in RequestStates /\ s.pc = "touch" /\ s.key = req[r].key
          /\ s.own = req[r].own /\ s.expires = req[r].expires
          /\ s.loaded = req[r].loaded /\ s.todo = req[r].todo
          /\ s.before = req[r].before /\ s.new = req[r].new /\ Goes(r, s)
      BY <2>1, <2>4, <3>1 DEF RequestStates
    <3>3. Good(s) /\ Fits(s)
      BY <2>1, <3>2
         DEF Good, StateShape, StateOwners, StateLosses, StateExcused, Fits
    <3>. QED
      BY <2>1, <2>2, <3>2, <3>3, SilentStep
  <2>. QED
    BY <1>3, <2>3, <2>4 DEF FindUser, Ends
<1>4. CASE Session(r)
  <2>1. PICK u \in Users : Begin(r, [Idle EXCEPT !.pc = "act", !.caller = u])
    BY <1>4 DEF Session
  <2>2. PICK s : s = [Idle EXCEPT !.pc = "act", !.caller = u]
    OBVIOUS
  <2>3. /\ s \in RequestStates /\ s.pc = "act" /\ s.key = 0 /\ s.expires = Never
        /\ s.new = 0 /\ s.loaded = NothingLoaded /\ s.todo = {} /\ s.before = {}
    BY <2>2, IdleFields DEF RequestStates
  <2>4. Good(s) /\ Fits(s)
    BY <1>1, <2>3, BlankIsGood
  <2>5. /\ Goes(r, s)
        /\ UNCHANGED <<api_keys, issued, stale, promised, settled, purged, now,
                       is_active, unsaved, tokens, hasty, faults>>
        /\ requests < MaxRequests /\ requests' = requests + 1
    BY <1>4, <2>1, <2>2 DEF Begin, Session
  <2>. QED
    BY <1>1, <2>3, <2>4, <2>5, StillQuiet, SilentStep
<1>. QED
  BY <1>2, <1>3, <1>4

(* What a request that acts holds: nothing yet.                            *)
LEMMA ActingIsBlank ==
  ASSUME IInv, NEW r \in Requests, req[r].pc = "act"
  PROVE  /\ req[r] \in RequestStates /\ req[r].expires = Never
         /\ req[r].loaded = NothingLoaded /\ req[r].todo = {}
         /\ req[r].before = {} /\ req[r].new = 0
         /\ req[r].key # 0 => req[r].key \in KeyIds /\ req[r].key \in known
<1>1. req[r] \in RequestStates /\ Fits(req[r]) /\ Good(req[r])
  BY TypesOfRequests DEF IInv
<1>. QED
  BY <1>1 DEF Fits, Good, StateShape, StateExcused

(* rotateAction() and rotateKeysAction().                                  *)
LEMMA RotationsKeep ==
  ASSUME IInv, NEW r \in Requests, Rotate(r) \/ RotateKeys(r)
  PROVE  IInv'
<1>1. /\ TypeOK /\ KeyIds \subseteq Ids /\ req[r].pc = "act"
      /\ UNCHANGED <<promised, settled>> /\ Quiet
  BY KeysStored, StillQuiet DEF IInv, Rotate, RotateKeys, Acts, history, bounds, tokens
<1>2. ASSUME NEW S \in SUBSET KeyIds, NEW s \in RequestStates, Goes(r, s),
             s.loaded = Loads(S), s.pc = "issue", s.expires = Never,
             s.before = {}, s.todo = {}, s.new = 0, s.key # 0 => s.key \in known,
             \A k \in S : api_keys[k].user = s.target
      PROVE  IInv'
  <2>1. Good(s) /\ Fits(s)
    BY <1>1, <1>2, LoadedFits DEF Good, StateExcused, IInv, RowsExcused
  <2>. QED
    BY <1>1, <1>2, <2>1, SilentStep
<1>3. CASE Rotate(r)
  <2>0. /\ req[r] \in RequestStates /\ req[r].expires = Never
        /\ req[r].loaded = NothingLoaded /\ req[r].todo = {}
        /\ req[r].before = {} /\ req[r].new = 0
        /\ req[r].key # 0 => req[r].key \in KeyIds /\ req[r].key \in known
    BY <1>3, ActingIsBlank DEF Rotate, RotateKeys, IssueKey, Acts
  <2>1. PICK grace \in Graces :
          Goes(r, [req[r] EXCEPT
                     !.pc = "issue", !.kind = "rotate", !.grace = grace,
                     !.target = api_keys[req[r].key].user,
                     !.name = api_keys[req[r].key].name,
                     !.loaded = Loads({req[r].key}), !.todo = {}])
    BY <1>3 DEF Rotate
  <2>2. PICK k : k = req[r].key
    OBVIOUS
  <2>3. /\ k \in KeyIds /\ api_keys[k] \in Rows /\ api_keys[k].user \in Users
        /\ api_keys[k].name \in Names /\ grace \in Nat
        /\ {k} \in SUBSET KeyIds
    <3>1. grace \in Nat /\ k \in KeyIds
      BY <1>3, <2>0, <2>2, ApiKeysAssumption DEF Rotate, WithKey, ApiKeysAssumption
    <3>. QED
      BY <1>1, <3>1, KeysStored, RowFields
  <2>4. PICK loaded : loaded = Loads({k})
    OBVIOUS
  <2>5. loaded \in [Ids -> Rows \cup {NoRow}]
    BY <1>1, <2>3, <2>4, LoadedKeys
  <2>6. PICK s : s = [req[r] EXCEPT
                        !.pc = "issue", !.kind = "rotate", !.grace = grace,
                        !.target = api_keys[k].user, !.name = api_keys[k].name,
                        !.loaded = loaded, !.todo = {}]
    OBVIOUS
  <2>7. /\ s \in RequestStates /\ s.loaded = loaded /\ s.pc = "issue"
        /\ s.expires = Never /\ s.before = {} /\ s.todo = {} /\ s.key = k
        /\ s.target = api_keys[k].user /\ s.new = 0
    BY <1>1, <2>0, <2>2, <2>3, <2>5, <2>6, ZenonT(60) DEF RequestStates, AllKinds
  <2>8. Goes(r, s) /\ k \in known
    BY <2>0, <2>1, <2>2, <2>4, <2>6, <1>3 DEF Rotate, WithKey
  <2>. QED
    BY <1>2, <2>3, <2>4, <2>7, <2>8, SMTT(40)
<1>4. CASE RotateKeys(r)
  <2>0. /\ req[r] \in RequestStates /\ req[r].expires = Never
        /\ req[r].loaded = NothingLoaded /\ req[r].todo = {}
        /\ req[r].before = {} /\ req[r].new = 0
        /\ req[r].key # 0 => req[r].key \in KeyIds /\ req[r].key \in known
    BY <1>4, ActingIsBlank DEF Rotate, RotateKeys, IssueKey, Acts
  <2>1. PICK u \in Users, name \in Names, grace \in Graces :
          Goes(r, [req[r] EXCEPT
                     !.pc = "issue", !.kind = "rotateKeys", !.grace = grace,
                     !.target = u, !.name = name, !.loaded = Loads(Unrevoked(u))])
    BY <1>4 DEF RotateKeys
  <2>2. /\ Unrevoked(u) \in SUBSET KeyIds /\ grace \in Nat
        /\ \A k \in Unrevoked(u) : api_keys[k].user = u
    BY ApiKeysAssumption DEF Unrevoked, Holds, ApiKeysAssumption
  <2>3. PICK loaded : loaded = Loads(Unrevoked(u))
    OBVIOUS
  <2>4. loaded \in [Ids -> Rows \cup {NoRow}]
    BY <1>1, <2>2, <2>3, LoadedKeys
  <2>5. PICK s : s = [req[r] EXCEPT
                        !.pc = "issue", !.kind = "rotateKeys", !.grace = grace,
                        !.target = u, !.name = name, !.loaded = loaded]
    OBVIOUS
  <2>6. /\ s \in RequestStates /\ s.loaded = loaded /\ s.pc = "issue"
        /\ s.expires = Never /\ s.before = {} /\ s.todo = {}
        /\ s.key = req[r].key /\ s.target = u /\ s.new = 0
    BY <1>1, <2>0, <2>2, <2>4, <2>5 DEF RequestStates, AllKinds
  <2>7. Goes(r, s) /\ (s.key # 0 => s.key \in known)
    BY <2>0, <2>1, <2>3, <2>5, <2>6
  <2>. QED
    BY <1>2, <2>2, <2>3, <2>6, <2>7
<1>. QED
  BY <1>3, <1>4

(* issueKeyAction() and the account's own screen.                          *)
LEMMA IssuingsKeep ==
  ASSUME IInv, NEW r \in Requests, IssueKey(r) \/ Create(r)
  PROVE  IInv'
<1>1. TypeOK /\ KeyIds \subseteq Ids
  BY KeysStored DEF IInv
<1>2. ASSUME NEW s \in RequestStates, Goes(r, s),
             s.loaded = NothingLoaded, s.todo = {}, s.before = {}, s.pc = "issue",
             s.new = 0, s.key # 0 => s.key \in known,
             Quiet, UNCHANGED <<promised, settled>>
      PROVE  IInv'
  <2>1. Good(s) /\ Fits(s)
    BY <1>1, <1>2, BlankIsGood
  <2>. QED
    BY <1>2, <2>1, SilentStep
<1>3. CASE IssueKey(r)
  <2>0. /\ req[r] \in RequestStates /\ req[r].expires = Never
        /\ req[r].loaded = NothingLoaded /\ req[r].todo = {}
        /\ req[r].before = {} /\ req[r].new = 0
        /\ req[r].key # 0 => req[r].key \in KeyIds /\ req[r].key \in known
    BY <1>3, ActingIsBlank DEF Rotate, RotateKeys, IssueKey, Acts
  <2>1. PICK u \in Users, name \in Names,
             expires \in {Never} \cup {now + d : d \in Lifetimes} :
          Goes(r, [req[r] EXCEPT
                     !.pc = "issue", !.kind = "issueKey", !.target = u,
                     !.name = name, !.expires = expires])
    BY <1>3 DEF IssueKey
  <2>2. expires \in Times
    <3>1. now \in Nat /\ Lifetimes \subseteq Nat
      BY <1>1, ApiKeysAssumption DEF TypeOK, ApiKeysAssumption
    <3>. QED
      BY <3>1 DEF Times
  <2>3. PICK s : s = [req[r] EXCEPT
                        !.pc = "issue", !.kind = "issueKey", !.target = u,
                        !.name = name, !.expires = expires]
    OBVIOUS
  <2>4. /\ s \in RequestStates /\ s.loaded = NothingLoaded /\ s.todo = {}
        /\ s.before = {} /\ s.pc = "issue" /\ s.key = req[r].key /\ s.new = 0
    BY <2>0, <2>2, <2>3 DEF RequestStates, AllKinds
  <2>5. Goes(r, s) /\ (s.key # 0 => s.key \in known)
    BY <2>0, <2>1, <2>3, <2>4
  <2>6. Quiet /\ UNCHANGED <<promised, settled>>
    BY <1>1, <1>3, StillQuiet DEF IssueKey, history, bounds, tokens
  <2>. QED
    BY <1>2, <2>4, <2>5, <2>6
<1>4. CASE Create(r)
  <2>1. PICK u \in Users, name \in Names :
          Begin(r, [Idle EXCEPT !.pc = "issue", !.kind = "create",
                                !.target = u, !.name = name])
    BY <1>4 DEF Create
  <2>2. PICK s : s = [Idle EXCEPT !.pc = "issue", !.kind = "create",
                                  !.target = u, !.name = name]
    OBVIOUS
  <2>3. /\ s \in RequestStates /\ s.loaded = NothingLoaded /\ s.todo = {}
        /\ s.before = {} /\ s.pc = "issue" /\ s.key = 0 /\ s.new = 0
    BY <2>2, IdleFields DEF RequestStates, AllKinds
  <2>4. /\ UNCHANGED <<api_keys, issued, stale, promised, settled, purged, now,
                       is_active, unsaved, tokens, hasty, faults>>
        /\ Goes(r, s) /\ requests < MaxRequests /\ requests' = requests + 1
    BY <1>4, <2>1, <2>2 DEF Create, Begin
  <2>5. Quiet
    BY <1>1, <2>4, StillQuiet
  <2>. QED
    BY <1>2, <2>3, <2>4, <2>5
<1>. QED
  BY <1>3, <1>4

(* A list of keys to revoke is drawn up: those that it takes from somebody *)
(* who is not purged have a successor in hand.                             *)
LEMMA ListKeeps ==
  ASSUME IInv, NEW r \in Requests, NEW s \in RequestStates, Goes(r, s),
         NEW S \in SUBSET KeyIds, S # {},
         s.pc = "revoke", s.loaded = Loads(S), s.todo = S, s.new = 0,
         s.key # 0 => s.key \in known, s.before \subseteq KeyIds,
         \A k \in s.before : api_keys[k].revoked \/ k \in S,
         \A k \in S : Excused(k, api_keys[k].expires, TRUE)',
         Quiet, UNCHANGED <<promised, settled>>
  PROVE  IInv'
<1>1. TypeOK /\ KeyIds \subseteq Ids /\ TableMoves /\ KeyIds' = KeyIds
  BY KeysStored, QuietTable DEF IInv, Quiet, KeyIds
<1>2. /\ StateShape(s) /\ StateOwners(s) /\ StateLosses(s) /\ Fits(s)
      /\ \A k \in Ids :
           s.loaded[k] # NoRow => k \in KeyIds /\ k \in S /\ s.loaded[k] = api_keys[k]
      /\ \A k \in S : s.loaded[k] = api_keys[k]
  BY <1>1, LoadedFits
<1>3. StateShape(s)' /\ StateOwners(s)' /\ StateLosses(s)'
  BY <1>1, <1>2 DEF StateShape, StateOwners, StateLosses, Quiet
<1>4. StateExcused(s)'
  <2>1. \A k \in KeyIds : Excused(k, api_keys[k].expires, api_keys[k].revoked)'
    BY <1>1, RowsStayExcused DEF Quiet
  <2>2. api_keys' = api_keys /\ known \subseteq known'
    BY DEF Quiet
  <2>3. \A k \in KeyIds :
          Excused(k, api_keys[k].expires, api_keys[k].revoked)'
            <=> Excused(k, s.loaded[k].expires, s.loaded[k].revoked)'
                \/ s.loaded[k] # api_keys[k]
    BY <2>1, <2>2 DEF Excused
  <2>4. \A k \in S : Excused(k, s.loaded[k].expires, TRUE)'
    BY <1>2, <2>2 DEF Excused
  <2>. QED
    BY <1>2, <2>1, <2>2, <2>3, <2>4 DEF StateExcused
<1>. QED
  BY <1>2, <1>3, <1>4, QuietStep DEF Good

(* The list is empty: the answer is next.                                  *)
LEMMA NothingToRevoke ==
  ASSUME IInv, NEW r \in Requests, NEW s \in RequestStates, Goes(r, s),
         s.pc = "respond", s.loaded = req[r].loaded, s.todo = {},
         req[r].pc \in {"act", "find"}, s.key = req[r].key, s.new = req[r].new,
         s.before \subseteq KeyIds,
         \A k \in s.before : api_keys[k].revoked,
         Quiet, UNCHANGED <<promised, settled>>
  PROVE  IInv'
<1>1. Good(req[r])
  BY DEF IInv
<1>2. Good(s) /\ Fits(s)
  BY <1>1
     DEF Good, StateShape, StateOwners, StateLosses, StateExcused, Fits
<1>. QED
  BY <1>2, SilentStep

(* confirmAction(): a client holds the token of the key it was made with,  *)
(* and the keys it takes from somebody who is not hasty are older.         *)
LEMMA ConfirmKeeps ==
  ASSUME IInv, NEW r \in Requests, Confirm(r)
  PROVE  IInv'
<1>1. /\ TypeOK /\ KeyIds \subseteq Ids /\ req[r].pc = "act" /\ req[r].key # 0
      /\ UNCHANGED <<api_keys, issued, stale, promised, settled, purged, unsaved,
                     lasting, known, due, now, is_active, faults, requests>>
  BY KeysStored DEF IInv, Confirm, Acts, WithKey, tokens, bounds
<1>2. PICK c : c = req[r].key
  OBVIOUS
<1>3. /\ req[r] \in RequestStates /\ req[r].loaded = NothingLoaded
      /\ req[r].todo = {} /\ req[r].before = {} /\ req[r].new = 0
      /\ c \in KeyIds /\ c \in known
  BY <1>1, <1>2, ActingIsBlank
<1>4. PICK S : S = ExpiringBeside(c)
  OBVIOUS
<1>5. S \subseteq KeyIds /\ \A k \in S : k # c /\ api_keys[k].user = api_keys[c].user
  BY <1>4 DEF ExpiringBeside, Unrevoked, Holds
<1>6. /\ hasty \subseteq hasty' /\ hasty' \subseteq Users
      /\ TooEarly(c) => api_keys[c].user \in hasty'
  <2>1. api_keys[c].user \in Users
    BY <1>1, <1>3, KeysStored, RowFields
  <2>. QED
    BY <1>1, <1>2, <2>1 DEF Confirm, TypeOK
<1>7. Quiet
  BY <1>1, <1>6, PlainTypes DEF Quiet
<1>8. ASSUME NEW k \in S
      PROVE  Excused(k, api_keys[k].expires, TRUE)'
  <2>1. Excused(k, api_keys[k].expires, api_keys[k].revoked)'
    BY <1>1, <1>5, <1>7, QuietTable, RowsStayExcused DEF Quiet
  <2>2. CASE TooEarly(c)
    BY <1>1, <1>5, <1>6, <2>2 DEF Excused
  <2>3. CASE ~ TooEarly(c)
    <3>1. c \in lasting /\ k < c
      <4>1. k \in Nat /\ c \in Nat
        BY <1>3, <1>5 DEF KeyIds
      <4>. QED
        BY <1>4, <1>5, <2>3, <4>1 DEF TooEarly
    <3>2. c \in Successors(k)' /\ c \in known'
      BY <1>1, <1>3, <1>5, <3>1 DEF Successors
    <3>. QED
      BY <2>1, <3>2 DEF Excused
  <2>. QED
    BY <2>2, <2>3
<1>9. PICK s : s = [RevokesAll(r, S) EXCEPT !.kind = "confirm"]
  OBVIOUS
<1>10. Goes(r, s)
  BY <1>2, <1>4, <1>9 DEF Confirm
<1>11. CASE S = {}
  <2>1. s = [[req[r] EXCEPT !.pc = "respond"] EXCEPT !.kind = "confirm"]
    BY <1>9, <1>11 DEF RevokesAll
  <2>2. /\ s \in RequestStates /\ s.pc = "respond" /\ s.loaded = req[r].loaded
        /\ s.todo = {} /\ s.key = req[r].key /\ s.before = {} /\ s.new = req[r].new
    BY <1>3, <2>1 DEF RequestStates, AllKinds
  <2>. QED
    BY <1>1, <1>7, <1>10, <2>2, NothingToRevoke
<1>12. CASE S # {}
  <2>1. PICK loaded \in [Ids -> Rows \cup {NoRow}] : loaded = Loads(S)
    BY <1>1, <1>5, LoadedKeys
  <2>2. s = [[req[r] EXCEPT !.pc = "revoke", !.loaded = loaded, !.todo = S]
               EXCEPT !.kind = "confirm"]
    BY <1>9, <1>12, <2>1 DEF RevokesAll
  <2>3. /\ s \in RequestStates /\ s.pc = "revoke" /\ s.loaded = loaded
        /\ s.todo = S /\ s.key = c /\ s.before = {} /\ s.new = 0
    BY <1>1, <1>2, <1>3, <1>5, <2>2 DEF RequestStates, AllKinds
  <2>. QED
    BY <1>1, <1>3, <1>5, <1>7, <1>8, <1>10, <1>12, <2>1, <2>3, ListKeeps, ZenonT(60)
<1>. QED
  BY <1>11, <1>12

LEMMA DeactivateKeeps ==
  ASSUME IInv, NEW r \in Requests, Deactivate(r)
  PROVE  IInv'
<1>1. /\ TypeOK /\ KeyIds \subseteq Ids /\ req[r].pc = "act"
      /\ UNCHANGED <<api_keys, issued, stale, promised, settled, unsaved, tokens,
                     hasty, now, faults, requests>>
  BY KeysStored DEF IInv, Deactivate, Acts, bounds
<1>2. /\ req[r] \in RequestStates /\ req[r].loaded = NothingLoaded
      /\ req[r].todo = {} /\ req[r].new = 0
      /\ req[r].key # 0 => req[r].key \in KeyIds /\ req[r].key \in known
  BY <1>1, ActingIsBlank
<1>3. PICK u \in Users :
        /\ is_active' = [is_active EXCEPT ![u] = FALSE]
        /\ purged' = purged \cup {u}
        /\ Goes(r, [req[r] EXCEPT !.pc = "find", !.kind = "deactivate",
                                  !.target = u,
                                  !.before = {k \in KeyIds : Holds(u, k)}])
  BY DEF Deactivate
<1>4. PICK before : before = {k \in KeyIds : Holds(u, k)}
  OBVIOUS
<1>5. before \subseteq KeyIds /\ \A k \in before : api_keys[k].user = u
  BY <1>4 DEF Holds
<1>6. PICK s : s = [req[r] EXCEPT !.pc = "find", !.kind = "deactivate",
                                  !.target = u, !.before = before]
  OBVIOUS
<1>7. /\ s \in RequestStates /\ s.pc = "find" /\ s.target = u /\ s.todo = {}
      /\ s.before = before /\ s.loaded = NothingLoaded /\ s.key = req[r].key
      /\ s.new = 0
  BY <1>1, <1>2, <1>5, <1>6 DEF RequestStates, AllKinds
<1>8. Goes(r, s)
  BY <1>3, <1>4, <1>6
<1>9. KeyIds' = KeyIds /\ u \in purged'
  BY <1>1, <1>3 DEF KeyIds
<1>10. Good(s)' /\ Fits(s)
  BY <1>1, <1>2, <1>5, <1>7, <1>9
     DEF Good, StateShape, StateOwners, StateLosses, StateExcused, Fits,
         NothingLoaded, tokens
<1>11. /\ is_active' \in [Users -> BOOLEAN]
       /\ purged \subseteq purged' /\ purged' \subseteq Users
  BY <1>1, <1>3 DEF TypeOK
<1>12. Quiet
  BY <1>1, <1>11, PlainTypes DEF Quiet, tokens
<1>. QED
  BY <1>1, <1>7, <1>8, <1>10, <1>12, QuietStep

(* Whoever is to be deactivated is purged already, and all keys that are   *)
(* not revoked are on the list.                                            *)
LEMMA FindKeysKeeps ==
  ASSUME IInv, NEW r \in Requests, FindKeys(r)
  PROVE  IInv'
<1>1. /\ TypeOK /\ KeyIds \subseteq Ids /\ req[r].pc = "find"
      /\ UNCHANGED <<promised, settled, purged, api_keys>> /\ Quiet
  BY KeysStored, StillQuiet DEF IInv, FindKeys, history, bounds, tokens
<1>2. req[r] \in RequestStates /\ Good(req[r]) /\ Fits(req[r])
  BY <1>1, TypesOfRequests DEF IInv
<1>3. PICK u : u = req[r].target
  OBVIOUS
<1>4. /\ u \in purged /\ req[r].before \subseteq KeyIds /\ req[r].todo = {}
      /\ \A k \in req[r].before : api_keys[k].user = u
      /\ req[r].key # 0 => req[r].key \in known
      /\ req[r].new = 0
  BY <1>1, <1>2, <1>3 DEF Good, StateShape, StateOwners, StateExcused, Fits
<1>5. PICK S : S = Unrevoked(u)
  OBVIOUS
<1>6. /\ S \subseteq KeyIds /\ \A k \in S : api_keys[k].user = u
      /\ \A k \in req[r].before : api_keys[k].revoked \/ k \in S
  BY <1>4, <1>5 DEF Unrevoked, Holds
<1>7. PICK s : s = RevokesAll(r, S)
  OBVIOUS
<1>8. Goes(r, s)
  BY <1>3, <1>5, <1>7 DEF FindKeys
<1>9. CASE S = {}
  <2>1. s = [req[r] EXCEPT !.pc = "respond"]
    BY <1>7, <1>9 DEF RevokesAll
  <2>2. /\ s \in RequestStates /\ s.pc = "respond" /\ s.loaded = req[r].loaded
        /\ s.todo = {} /\ s.key = req[r].key /\ s.before = req[r].before
        /\ s.new = req[r].new
    BY <1>2, <1>4, <2>1 DEF RequestStates
  <2>. QED
    BY <1>1, <1>4, <1>6, <1>8, <1>9, <2>2, NothingToRevoke
<1>10. CASE S # {}
  <2>1. PICK loaded \in [Ids -> Rows \cup {NoRow}] : loaded = Loads(S)
    BY <1>1, <1>6, LoadedKeys
  <2>2. s = [req[r] EXCEPT !.pc = "revoke", !.loaded = loaded, !.todo = S]
    BY <1>7, <1>10, <2>1 DEF RevokesAll
  <2>3. /\ s \in RequestStates /\ s.pc = "revoke" /\ s.loaded = loaded
        /\ s.todo = S /\ s.key = req[r].key /\ s.before = req[r].before
        /\ s.new = 0
    BY <1>1, <1>2, <1>4, <1>6, <2>2 DEF RequestStates
  <2>4. \A k \in S : Excused(k, api_keys[k].expires, TRUE)'
    BY <1>1, <1>4, <1>6 DEF Excused
  <2>5. /\ s.key # 0 => s.key \in known
        /\ s.before \subseteq KeyIds
        /\ \A k \in s.before : api_keys[k].revoked \/ k \in S
        /\ S \in SUBSET KeyIds
    BY <1>4, <1>6, <2>3
  <2>6. s.loaded = Loads(S) /\ S # {} /\ promised' = promised /\ settled' = settled
    BY <1>1, <1>10, <2>1, <2>3
  <2>. QED
    BY <1>1, <1>8, <2>3, <2>4, <2>5, <2>6, ListKeeps, ZenonT(40)
<1>. QED
  BY <1>9, <1>10

(* The account's own screen.                                               *)
LEMMA RevocationsKeep ==
  ASSUME IInv, NEW r \in Requests, RevokeOne(r) \/ RevokeMany(r)
  PROVE  IInv'
<1>1. TypeOK /\ KeyIds \subseteq Ids
  BY KeysStored DEF IInv
<1>2. ASSUME NEW kind, NEW u \in Users, NEW S \in SUBSET KeyIds,
             \A k \in S : api_keys[k].user = u, Revokes(r, kind, u, S)
      PROVE  IInv'
  <2>1. /\ S # {} /\ kind \in AllKinds /\ purged' = purged \cup {u}
        /\ Begin(r, [Idle EXCEPT !.pc = "revoke", !.kind = kind, !.target = u,
                                 !.loaded = Loads(S), !.todo = S])
    BY <1>2, ApiKeysAssumption DEF Revokes, ApiKeysAssumption
  <2>2. PICK loaded \in [Ids -> Rows \cup {NoRow}] : loaded = Loads(S)
    BY <1>1, LoadedKeys
  <2>3. PICK s : s = [Idle EXCEPT !.pc = "revoke", !.kind = kind, !.target = u,
                                  !.loaded = loaded, !.todo = S]
    OBVIOUS
  <2>4. /\ s \in RequestStates /\ s.pc = "revoke" /\ s.loaded = loaded
        /\ s.todo = S /\ s.key = 0 /\ s.before = {} /\ s.new = 0
    BY <1>1, <2>1, <2>3, IdleFields DEF RequestStates
  <2>5. /\ Goes(r, s) /\ requests < MaxRequests /\ requests' = requests + 1
        /\ UNCHANGED <<api_keys, issued, stale, promised, settled, now, is_active,
                       unsaved, tokens, hasty, faults>>
    BY <2>1, <2>2, <2>3 DEF Begin
  <2>6. \A k \in S : Excused(k, api_keys[k].expires, TRUE)'
    BY <1>2, <2>1, <2>5 DEF Excused
  <2>7. purged \subseteq purged' /\ purged' \subseteq Users
    BY <1>1, <2>1 DEF TypeOK
  <2>8. Quiet
    BY <1>1, <2>5, <2>7, PlainTypes DEF Quiet, tokens
  <2>. QED
    BY <1>2, <2>1, <2>2, <2>4, <2>5, <2>6, <2>8, ListKeeps
<1>3. CASE RevokeOne(r)
  <2>1. PICK k \in KeyIds : Revokes(r, "revoke", api_keys[k].user, {k})
    BY <1>3 DEF RevokeOne
  <2>2. api_keys[k].user \in Users
    BY <1>1, KeysStored, RowFields
  <2>. QED
    BY <1>2, <2>1, <2>2
<1>4. CASE RevokeMany(r)
  <2>1. PICK u \in Users : \E S \in SUBSET Unrevoked(u) : Revokes(r, "bulk", u, S)
    BY <1>4 DEF RevokeMany
  <2>2. PICK S \in SUBSET Unrevoked(u) : Revokes(r, "bulk", u, S)
    BY <2>1
  <2>3. S \in SUBSET KeyIds /\ \A k \in S : api_keys[k].user = u
    BY DEF Unrevoked, Holds
  <2>. QED
    BY <1>2, <2>2, <2>3
<1>. QED
  BY <1>3, <1>4

(* A new key: it accounts for what the keys it is to replace will lose.    *)
LEMMA IssueKeeps ==
  ASSUME IInv, NEW r \in Requests, Issue(r)
  PROVE  IInv' /\ TableMoves
<1>1. /\ TypeOK /\ KeyIds \subseteq Ids /\ req[r].pc = "issue" /\ issued < MaxKeys
      /\ UNCHANGED <<stale, promised, settled, purged, unsaved, known, hasty, now,
                     is_active, faults, requests>>
  BY KeysStored DEF IInv, Issue, bounds
<1>2. PICK old \in RequestStates : old = req[r]
  BY <1>1, TypesOfRequests
<1>3. Good(old) /\ Fits(old) /\ old.pc = "issue"
  BY <1>1, <1>2, TypesOfRequests DEF IInv
<1>4. PICK n : n = issued + 1
  OBVIOUS
<1>5. /\ n \in Ids /\ n \notin KeyIds /\ issued' = n /\ KeyIds' = KeyIds \cup {n}
      /\ \A k \in KeyIds : n > k
  BY <1>1, <1>4, ApiKeysAssumption
     DEF TypeOK, KeyIds, Ids, Issue, ApiKeysAssumption
<1>6. PICK row : row = NewKey(r)
  OBVIOUS
<1>7. /\ row \in Rows /\ row.user = old.target /\ ~ row.revoked
      /\ row.expires = old.expires
  BY <1>2, <1>6 DEF NewKey, Rows, RequestStates
<1>8. api_keys' = [api_keys EXCEPT ![n] = row]
  BY <1>4, <1>6 DEF Issue
<1>9. PICK T : T = ToExpire(r)
  OBVIOUS
<1>10. /\ T \subseteq KeyIds /\ \A k \in Ids : k \in T <=> old.loaded[k] # NoRow
       /\ \A k \in T : api_keys[k].user = old.target
  BY <1>1, <1>2, <1>3, <1>9 DEF ToExpire, Good, StateOwners
<1>11. PICK deadline \in Nat : deadline = now + old.grace
  BY <1>1, ApiKeysAssumption DEF TypeOK, RequestStates, ApiKeysAssumption
<1>12. PICK s : s = [old EXCEPT
                       !.pc = IF T = {} THEN "respond" ELSE "expire",
                       !.todo = T, !.new = n, !.deadline = deadline]
  OBVIOUS
<1>13. /\ s \in RequestStates /\ s.pc = IF T = {} THEN "respond" ELSE "expire"
       /\ s.todo = T /\ s.loaded = old.loaded /\ s.before = old.before
       /\ s.key = old.key /\ s.new = n /\ s.deadline = deadline
  BY <1>1, <1>5, <1>10, <1>12, ZenonT(60) DEF RequestStates
<1>14. Goes(r, s)
  BY <1>2, <1>4, <1>9, <1>11, <1>12 DEF Issue
<1>15. /\ lasting' = IF old.expires = Never THEN lasting \cup {n} ELSE lasting
       /\ due' = IF T = {} THEN due ELSE [due EXCEPT ![n] = deadline]
  BY <1>2, <1>4, <1>9, <1>11 DEF Issue
<1>16. \A k \in KeyIds : api_keys'[k] = api_keys[k] /\ api_keys[k] \in Rows
  BY <1>1, <1>5, <1>8, KeysStored DEF TypeOK
<1>17. api_keys' \in [Ids -> Rows \cup {NoRow}] /\ api_keys'[n] = row
  BY <1>1, <1>5, <1>7, <1>8 DEF TypeOK
<1>18. TableMoves
  <2>1. \A k \in Ids : k # n => api_keys'[k] = api_keys[k]
    BY <1>1, <1>8 DEF TypeOK
  <2>2. \A k \in Ids : api_keys'[k] = NoRow <=> k > issued'
    BY <1>1, <1>4, <1>5, <1>7, <1>17, <2>1, RowFields DEF TypeOK, Ids
  <2>3. issued' \in 0..MaxKeys /\ issued <= issued'
    BY <1>1, <1>4, <1>5, ApiKeysAssumption DEF TypeOK, ApiKeysAssumption
  <2>4. \A k \in KeyIds : NoBetter(api_keys'[k], api_keys[k])
    BY <1>16, SameIsNoBetter
  <2>5. /\ lasting \subseteq lasting' /\ lasting' \subseteq KeyIds'
        /\ \A k \in KeyIds : k \in lasting' => k \in lasting
    BY <1>1, <1>5, <1>15 DEF TypeOK, KeyIds
  <2>6. due' \in [Ids -> Times] /\ \A k \in KeyIds : due'[k] = due[k]
    BY <1>1, <1>5, <1>15 DEF TypeOK, Times
  <2>7. known' \subseteq KeyIds' /\ unsaved' \subseteq Ids
    BY <1>1, <1>5 DEF TypeOK, KeyIds
  <2>. QED
    BY <1>1, <1>16, <1>17, <2>2, <2>3, <2>4, <2>5, <2>6, <2>7, PlainTypes
       DEF TableMoves, TypeOK
<1>19. Good(old)'
  BY <1>1, <1>3, <1>18, OthersStayGood
<1>20. StateExcused(s)'
  <2>1. ASSUME NEW k \in T
        PROVE  Excused(k, deadline, old.loaded[k].revoked)'
    <3>1. Excused(k, old.loaded[k].expires, old.loaded[k].revoked)' /\ k \in KeyIds
      BY <1>1, <1>10, <1>19 DEF Good, StateExcused
    <3>2. old.expires = Never
      BY <1>1, <1>3, <1>10 DEF Good, StateShape, NothingLoaded
    <3>3. n \in lasting' /\ due'[n] = deadline /\ due'[n] # Never
      BY <1>1, <1>5, <1>11, <1>15, <3>2, ApiKeysAssumption
         DEF TypeOK, ApiKeysAssumption
    <3>4. n \in Successors(k)'
      BY <1>5, <1>7, <1>10, <1>16, <1>17, <3>1, <3>3 DEF Successors
    <3>. QED
      BY <1>11, <3>1, <3>3, <3>4 DEF Excused
  <2>. QED
    BY <1>13, <1>19, <2>1 DEF Good, StateExcused
<1>21. Good(s)' /\ Fits(s)'
  <2>1. StateShape(s)'
    BY <1>3, <1>5, <1>13, <1>19 DEF Good, StateShape
  <2>2. StateOwners(s)' /\ StateLosses(s)'
    BY <1>3, <1>13, <1>19 DEF Good, StateShape, StateOwners, StateLosses
  <2>3. Fits(s)'
    BY <1>1, <1>5, <1>10, <1>13 DEF Fits
  <2>. QED
    BY <1>20, <2>1, <2>2, <2>3 DEF Good
<1>22. RowsExcused'
  <2>1. \A k \in KeyIds : Excused(k, api_keys[k].expires, api_keys[k].revoked)'
    BY <1>16, <1>18, RowsStayExcused
  <2>2. Excused(n, api_keys[n].expires, api_keys[n].revoked)'
    BY <1>1, <1>5, <1>7, <1>15, <1>17 DEF Excused, TypeOK, KeyIds
  <2>. QED
    BY <1>5, <2>1, <2>2 DEF RowsExcused
<1>. QED
  BY <1>1, <1>13, <1>14, <1>18, <1>21, <1>22, HistoryKept, StepKeeps

-----------------------------------------------------------------------------
(* Saves.                                                                  *)

(* A save from an object as old as the row leaves what it saved; one from  *)
(* an older object leaves a stale row, of the same user.                   *)
LEMMA SaveMoves ==
  ASSUME TypeOK, NEW k \in KeyIds, NEW loaded \in Rows, NEW saved \in Rows,
         loaded.user = api_keys[k].user, saved.user = loaded.user,
         NoBetter(saved, loaded), Save(k, loaded, saved),
         UNCHANGED <<now, is_active, issued, purged, tokens, hasty, requests, faults>>,
         unsaved' \subseteq Ids,
         unsaved \subseteq unsaved' \cup (IF saved.revoked THEN {k} ELSE {})
  PROVE  /\ TableMoves
         /\ \A j \in Ids : j # k => api_keys'[j] = api_keys[j]
         /\ k \notin stale' => api_keys'[k] = saved
         /\ api_keys'[k].expires \in {saved.expires, api_keys[k].expires}
         /\ api_keys'[k].revoked \in {saved.revoked, api_keys[k].revoked}
<1>1. KeyIds \subseteq Ids /\ api_keys[k] \in Rows
  BY KeysStored
<1>2. PICK row : row = Stored(k, loaded, saved)
  OBVIOUS
<1>3. /\ api_keys' = [api_keys EXCEPT ![k] = row]
      /\ stale' = IF loaded = api_keys[k] THEN stale ELSE stale \cup {k}
  BY <1>2 DEF Save
<1>4. row = IF FullRowSave THEN saved ELSE
        [user |-> api_keys[k].user,
         name |-> IF saved.name = loaded.name THEN api_keys[k].name ELSE saved.name,
         expires |-> IF saved.expires = loaded.expires THEN api_keys[k].expires
                     ELSE saved.expires,
         revoked |-> IF saved.revoked = loaded.revoked THEN api_keys[k].revoked
                     ELSE saved.revoked]
  BY <1>2 DEF Stored
<1>5. row \in Rows /\ row.user = api_keys[k].user
  BY <1>1, <1>4 DEF Rows
<1>6. loaded = api_keys[k] => row = saved
  BY <1>1, <1>4 DEF Rows
<1>7. /\ row.expires \in {saved.expires, api_keys[k].expires}
      /\ row.revoked \in {saved.revoked, api_keys[k].revoked}
  BY <1>4
<1>8. api_keys'[k] = row /\ \A j \in Ids : j # k => api_keys'[j] = api_keys[j]
  BY <1>1, <1>3 DEF TypeOK
<1>9. k \notin stale' => loaded = api_keys[k]
  BY <1>3
<1>10. TableMoves
  <2>1. api_keys' \in [Ids -> Rows \cup {NoRow}]
    BY <1>1, <1>3, <1>5 DEF TypeOK
  <2>2. \A j \in Ids : api_keys'[j] = NoRow <=> j > issued'
    BY <1>1, <1>5, <1>8, RowFields DEF TypeOK
  <2>3. stale \subseteq stale' /\ stale' \subseteq Ids
    BY <1>1, <1>3 DEF TypeOK
  <2>4. ASSUME NEW j \in KeyIds
        PROVE  /\ api_keys'[j] \in Rows /\ api_keys'[j].user = api_keys[j].user
               /\ j \notin stale' => NoBetter(api_keys'[j], api_keys[j])
    <3>1. CASE j = k
      BY <1>5, <1>6, <1>8, <1>9, <3>1
    <3>2. CASE j # k
      BY <1>1, <1>8, <3>2, KeysStored, SameIsNoBetter
    <3>. QED
      BY <3>1, <3>2
  <2>5. issued' \in 0..MaxKeys /\ issued <= issued'
    BY ApiKeysAssumption DEF TypeOK, ApiKeysAssumption
  <2>6. \A j \in KeyIds :
          j \in unsaved \ unsaved' => j \in stale' \/ api_keys'[j].revoked
    BY <1>6, <1>8, <1>9
  <2>7. KeyIds' = KeyIds
    BY DEF KeyIds
  <2>. QED
    BY <2>1, <2>2, <2>3, <2>4, <2>5, <2>6, <2>7, PlainTypes
       DEF TableMoves, TypeOK, KeyIds, tokens
<1>. QED
  BY <1>6, <1>7, <1>8, <1>9, <1>10

(* The row is excused where what it held and what is saved were.           *)
LEMMA SaveExcused ==
  ASSUME IInv, TableMoves, NEW k \in KeyIds, NEW saved \in Rows,
         Excused(k, saved.expires, saved.revoked),
         \A j \in Ids : j # k => api_keys'[j] = api_keys[j],
         api_keys'[k].expires \in {saved.expires, api_keys[k].expires},
         api_keys'[k].revoked \in {saved.revoked, api_keys[k].revoked},
         UNCHANGED issued
  PROVE  RowsExcused'
<1>1. TypeOK /\ KeyIds \subseteq Ids /\ KeyIds' = KeyIds
  BY KeysStored DEF IInv, KeyIds
<1>2. PICK row : row = api_keys[k]
  OBVIOUS
<1>3. Excused(k, row.expires, row.revoked)
  BY <1>2 DEF IInv, RowsExcused
<1>4. Excused(k, row.expires, row.revoked)' /\ Excused(k, saved.expires, saved.revoked)'
  BY <1>1, <1>3, StillExcused
<1>5. Excused(k, api_keys[k].expires, api_keys[k].revoked)'
  BY <1>2, <1>4 DEF Excused
<1>6. ASSUME NEW j \in KeyIds, j # k
      PROVE  Excused(j, api_keys[j].expires, api_keys[j].revoked)'
  BY <1>1, <1>6, RowsStayExcused
<1>. QED
  BY <1>1, <1>5, <1>6 DEF RowsExcused

(* One key of the list is done with; row is what is remembered of it.      *)
LEMMA OneIsDone ==
  ASSUME IInv, NEW r \in Requests, req[r].pc \in {"expire", "revoke"},
         NEW k \in req[r].todo, NEW row \in Rows, row.user = api_keys[k].user,
         NEW s, s = Saved(r, k, row),
         Goes(r, s), TableMoves, UNCHANGED <<promised, settled, purged>>,
         \A j \in Ids : j # k => api_keys'[j] = api_keys[j],
         k \notin stale' => NoBetter(api_keys'[k], row),
         k \in req[r].before /\ k \notin stale' =>
           api_keys'[k].revoked \/ k \in unsaved',
         Excused(k, row.expires, row.revoked), RowsExcused'
  PROVE  IInv'
<1>1. TypeOK /\ KeyIds \subseteq Ids
  BY KeysStored DEF IInv
<1>2. req[r] \in RequestStates /\ Good(req[r]) /\ Fits(req[r])
  BY <1>1, TypesOfRequests DEF IInv
<1>3. k \in KeyIds /\ KeyIds \subseteq KeyIds'
  BY <1>1, <1>2, KeysAreKept DEF Fits
<1>4. PICK loaded : loaded = [req[r].loaded EXCEPT ![k] = row]
  OBVIOUS
<1>5. /\ loaded \in [Ids -> Rows \cup {NoRow}] /\ loaded[k] = row /\ row # NoRow
      /\ \A j \in Ids : j # k => loaded[j] = req[r].loaded[j]
  BY <1>1, <1>2, <1>3, <1>4, RowFields DEF RequestStates
<1>6. PICK pc : pc = IF req[r].todo = {k} THEN "respond" ELSE req[r].pc
  OBVIOUS
<1>7. s = [req[r] EXCEPT !.pc = pc, !.loaded = loaded, !.todo = req[r].todo \ {k}]
  BY <1>2, <1>4, <1>6 DEF Saved, RequestStates
<1>8. /\ s \in RequestStates /\ s.pc = pc /\ s.loaded = loaded
      /\ s.todo = req[r].todo \ {k} /\ s.before = req[r].before
      /\ s.key = req[r].key /\ s.new = req[r].new /\ s.deadline = req[r].deadline
  <2>1. req[r].todo \ {k} \in SUBSET Ids
    BY <1>1, <1>2 DEF RequestStates
  <2>2. pc \in {"expire", "revoke", "respond"}
    BY <1>6
  <2>. QED
    BY <1>2, <1>5, <1>7, <2>1, <2>2, ZenonT(60) DEF RequestStates
<1>9. PICK old : old = req[r]
  OBVIOUS
<1>10. Fits(s)'
  <2>1. \A j \in s.todo : j \in KeyIds' /\ s.loaded[j] # NoRow
    BY <1>1, <1>2, <1>3, <1>5, <1>8 DEF Fits
  <2>2. s.pc \in {"expire", "revoke"} <=> s.todo # {}
    BY <1>6, <1>8
  <2>. QED
    BY <2>1, <2>2 DEF Fits
<1>11. StateShape(s)'
  BY <1>2, <1>3, <1>6, <1>8 DEF Good, StateShape
<1>12. StateOwners(s)'
  BY <1>2, <1>3, <1>5, <1>6, <1>8 DEF Good, StateOwners, TableMoves
<1>13. StateLosses(s)'
  <2>1. ASSUME NEW j \in Ids \ stale', s.loaded[j] # NoRow
        PROVE  NoBetter(api_keys'[j], s.loaded[j])
    <3>1. CASE j = k
      BY <1>5, <1>8, <2>1, <3>1
    <3>2. CASE j # k
      BY <1>2, <1>5, <1>8, <2>1, <3>2 DEF Good, StateLosses, TableMoves
    <3>. QED
      BY <3>1, <3>2
  <2>2. ASSUME NEW j \in s.before \ stale'
        PROVE  api_keys'[j].revoked \/ j \in s.todo \cup unsaved'
    <3>1. /\ j \in req[r].before /\ j \in KeyIds /\ j \in Ids /\ j \notin stale
          /\ j \in unsaved \ unsaved' => api_keys'[j].revoked
      BY <1>1, <1>2, <1>8, <2>2 DEF Good, StateShape, TableMoves
    <3>2. api_keys[j].revoked \/ j \in req[r].todo \cup unsaved
      BY <1>2, <3>1 DEF Good, StateLosses
    <3>3. CASE j = k
      BY <1>8, <2>2, <3>3
    <3>4. CASE j # k
      BY <1>8, <3>1, <3>2, <3>4
    <3>. QED
      BY <3>3, <3>4
  <2>. QED
    BY <2>1, <2>2 DEF StateLosses
<1>14. StateExcused(s)'
  <2>1. Good(old) /\ Fits(old) /\ old \in RequestStates
    BY <1>2, <1>9
  <2>2. Good(old)'
    BY <1>1, <2>1, OthersStayGood
  <2>3. Excused(k, row.expires, row.revoked)'
    BY <1>1, <1>3, StillExcused
  <2>4. \A j \in s.todo : j \in old.todo /\ j \in Ids /\ s.loaded[j] = old.loaded[j]
    BY <1>5, <1>8, <1>9, <2>1 DEF RequestStates
  <2>5. \A j \in Ids : s.loaded[j] # NoRow =>
          Excused(j, s.loaded[j].expires, s.loaded[j].revoked)'
    BY <1>5, <1>8, <1>9, <2>2, <2>3 DEF Good, StateExcused
  <2>6. s.key = old.key /\ s.deadline = old.deadline /\ s.pc \in {old.pc, "respond"}
    BY <1>6, <1>8, <1>9
  <2>. QED
    BY <2>2, <2>4, <2>5, <2>6, <1>9 DEF Good, StateExcused
<1>. QED
  BY <1>8, <1>10, <1>11, <1>12, <1>13, <1>14, HistoryKept, StepKeeps DEF Good

(* What an object on the list is.                                          *)
LEMMA OnTheList ==
  ASSUME IInv, NEW r \in Requests, NEW k \in req[r].todo
  PROVE  /\ k \in KeyIds /\ k \in Ids /\ req[r].loaded[k] \in Rows
         /\ req[r].loaded[k].user = api_keys[k].user
         /\ k \notin stale => NoBetter(api_keys[k], req[r].loaded[k])
         /\ req[r] \in RequestStates
         /\ Excused(k, req[r].loaded[k].expires, req[r].loaded[k].revoked)
         /\ req[r].pc = "expire" =>
              Excused(k, req[r].deadline, req[r].loaded[k].revoked)
         /\ req[r].pc = "revoke" => Excused(k, req[r].loaded[k].expires, TRUE)
<1>1. req[r] \in RequestStates /\ Good(req[r]) /\ Fits(req[r])
  BY TypesOfRequests DEF IInv
<1>2. k \in KeyIds /\ k \in Ids /\ req[r].loaded[k] # NoRow
  BY <1>1, KeysStored DEF Fits, IInv
<1>. QED
  BY <1>1, <1>2 DEF Good, StateOwners, StateLosses, StateExcused, RequestStates

LEMMA ExpireOldKeeps ==
  ASSUME IInv, NEW r \in Requests, ExpireOld(r)
  PROVE  IInv' /\ TableMoves
<1>1. /\ TypeOK /\ req[r].pc = "expire"
      /\ UNCHANGED <<now, is_active, issued, promised, purged, settled, unsaved,
                     tokens, hasty, requests, faults>>
  BY DEF IInv, ExpireOld, bounds
<1>2. PICK k \in req[r].todo :
        LET old == req[r].loaded[k]
            row == [old EXCEPT !.expires = req[r].deadline]
        IN  \/ /\ Later(old.expires, req[r].deadline)
               /\ Save(k, old, row)
               /\ Goes(r, Saved(r, k, row))
            \/ /\ ~ Later(old.expires, req[r].deadline)
               /\ Goes(r, Saved(r, k, old))
               /\ UNCHANGED <<api_keys, stale>>
  BY DEF ExpireOld
<1>3. PICK old : old = req[r].loaded[k]
  OBVIOUS
<1>4. /\ k \in KeyIds /\ old \in Rows /\ old.user = api_keys[k].user
      /\ k \notin stale => NoBetter(api_keys[k], old)
      /\ req[r] \in RequestStates
      /\ Excused(k, old.expires, old.revoked)
      /\ Excused(k, req[r].deadline, old.revoked)
  BY <1>1, <1>3, OnTheList
<1>5. req[r].before = {} /\ req[r].deadline \in Nat
  BY <1>1, <1>4 DEF IInv, Good, StateShape, RequestStates
<1>6. PICK row : row = [old EXCEPT !.expires = req[r].deadline]
  OBVIOUS
<1>7. /\ row \in Rows /\ row.user = old.user /\ row.expires = req[r].deadline
      /\ row.revoked = old.revoked
  BY <1>4, <1>5, <1>6 DEF Rows, Times
<1>8. CASE /\ Later(old.expires, req[r].deadline)
           /\ Save(k, old, row)
           /\ Goes(r, Saved(r, k, row))
  <2>1. NoBetter(row, old) /\ NoBetter(row, row)
    BY <1>4, <1>5, <1>7, <1>8, ApiKeysAssumption, SameIsNoBetter
       DEF Later, NoBetter, Rows, Times, ApiKeysAssumption
  <2>2. unsaved' \subseteq Ids /\ unsaved \subseteq unsaved'
    BY <1>1 DEF TypeOK
  <2>3. /\ TableMoves /\ \A j \in Ids : j # k => api_keys'[j] = api_keys[j]
        /\ k \notin stale' => api_keys'[k] = row
        /\ api_keys'[k].expires \in {row.expires, api_keys[k].expires}
        /\ api_keys'[k].revoked \in {row.revoked, api_keys[k].revoked}
    BY <1>1, <1>4, <1>7, <1>8, <2>1, <2>2, SaveMoves
  <2>4. Excused(k, row.expires, row.revoked) /\ RowsExcused'
    BY <1>1, <1>4, <1>7, <2>3, SaveExcused
  <2>5. PICK s : s = Saved(r, k, row)
    OBVIOUS
  <2>. QED
    BY <1>1, <1>4, <1>5, <1>7, <1>8, <2>1, <2>3, <2>4, <2>5, OneIsDone
<1>9. CASE /\ ~ Later(old.expires, req[r].deadline)
           /\ Goes(r, Saved(r, k, old))
           /\ UNCHANGED <<api_keys, stale>>
  <2>1. TableMoves
    BY <1>1, <1>9, StillQuiet, QuietTable
  <2>2. RowsExcused'
    BY <1>1, <1>9, <2>1, RowsStayExcused DEF RowsExcused, KeyIds
  <2>3. PICK s : s = Saved(r, k, old)
    OBVIOUS
  <2>. QED
    BY <1>1, <1>4, <1>5, <1>9, <2>1, <2>2, <2>3, OneIsDone
<1>. QED
  BY <1>2, <1>3, <1>6, <1>8, <1>9

LEMMA RevokeKeeps ==
  ASSUME IInv, NEW r \in Requests, Revoke(r)
  PROVE  IInv' /\ TableMoves
<1>1. /\ TypeOK /\ req[r].pc = "revoke"
      /\ UNCHANGED <<now, is_active, issued, promised, purged, settled, tokens,
                     hasty, requests, faults>>
  BY DEF IInv, Revoke, bounds
<1>2. PICK k \in req[r].todo :
        LET row == [req[r].loaded[k] EXCEPT !.revoked = TRUE]
        IN  /\ Save(k, req[r].loaded[k], row)
            /\ Goes(r, Saved(r, k, row))
            /\ unsaved' = unsaved \ {k}
  BY DEF Revoke
<1>3. PICK old : old = req[r].loaded[k]
  OBVIOUS
<1>4. /\ k \in KeyIds /\ old \in Rows /\ old.user = api_keys[k].user
      /\ Excused(k, old.expires, TRUE)
  BY <1>1, <1>3, OnTheList
<1>5. PICK row : row = [old EXCEPT !.revoked = TRUE]
  OBVIOUS
<1>6. /\ row \in Rows /\ row.user = old.user /\ row.expires = old.expires
      /\ row.revoked = TRUE
  BY <1>4, <1>5 DEF Rows
<1>7. /\ Save(k, old, row) /\ Goes(r, Saved(r, k, row))
      /\ unsaved' \subseteq Ids /\ unsaved \subseteq unsaved' \cup {k}
  BY <1>1, <1>2, <1>3, <1>5 DEF TypeOK
<1>8. NoBetter(row, old) /\ NoBetter(row, row)
  BY <1>4, <1>6, SameIsNoBetter DEF NoBetter
<1>9. /\ TableMoves /\ \A j \in Ids : j # k => api_keys'[j] = api_keys[j]
      /\ k \notin stale' => api_keys'[k] = row
      /\ api_keys'[k].expires \in {row.expires, api_keys[k].expires}
      /\ api_keys'[k].revoked \in {row.revoked, api_keys[k].revoked}
  BY <1>1, <1>4, <1>6, <1>7, <1>8, SaveMoves
<1>10. Excused(k, row.expires, row.revoked) /\ RowsExcused'
  BY <1>1, <1>4, <1>6, <1>9, SaveExcused
<1>11. PICK s : s = Saved(r, k, row)
  OBVIOUS
<1>. QED
  BY <1>1, <1>4, <1>6, <1>7, <1>8, <1>9, <1>10, <1>11, OneIsDone

LEMMA RevokeFailsKeeps ==
  ASSUME IInv, NEW r \in Requests, RevokeFails(r)
  PROVE  IInv'
<1>1. /\ TypeOK /\ req[r].pc = "revoke" /\ Fault
      /\ UNCHANGED <<now, is_active, api_keys, issued, promised, stale, purged,
                     settled, tokens, hasty, requests>>
  BY DEF IInv, RevokeFails
<1>2. PICK k \in req[r].todo :
        /\ Goes(r, Saved(r, k, req[r].loaded[k]))
        /\ unsaved' = unsaved \cup ({k} \cap req[r].before)
  BY DEF RevokeFails
<1>3. PICK old : old = req[r].loaded[k]
  OBVIOUS
<1>4. /\ k \in KeyIds /\ k \in Ids /\ old \in Rows /\ old.user = api_keys[k].user
      /\ k \notin stale => NoBetter(api_keys[k], old)
      /\ Excused(k, old.expires, old.revoked)
  BY <1>3, OnTheList
<1>5. unsaved \subseteq unsaved' /\ unsaved' \subseteq Ids
  BY <1>1, <1>2, <1>4 DEF TypeOK
<1>6. Quiet
  BY <1>1, <1>5, PlainTypes DEF Quiet, tokens
<1>7. TableMoves
  BY <1>1, <1>6, QuietTable
<1>8. RowsExcused'
  BY <1>1, <1>7, RowsStayExcused DEF RowsExcused, KeyIds
<1>9. PICK s : s = Saved(r, k, old)
  OBVIOUS
<1>. QED
  BY <1>1, <1>2, <1>3, <1>4, <1>7, <1>8, <1>9, OneIsDone

(* The save() that stamps last_used_at.                                    *)
LEMMA TouchKeeps ==
  ASSUME IInv, NEW r \in Requests, Touch(r)
  PROVE  IInv' /\ TableMoves
<1>1. /\ TypeOK /\ KeyIds \subseteq Ids /\ req[r].pc = "touch"
      /\ UNCHANGED <<now, is_active, issued, promised, purged, settled, unsaved,
                     tokens, hasty, requests, faults>>
  BY KeysStored DEF IInv, Touch, bounds
<1>2. req[r] \in RequestStates /\ Good(req[r]) /\ Fits(req[r])
  BY <1>1, TypesOfRequests DEF IInv
<1>3. PICK k, own : k = req[r].key /\ own = req[r].own
  OBVIOUS
<1>4. /\ k \in KeyIds /\ own \in Rows /\ own.user = api_keys[k].user
      /\ req[r].expires = Never /\ req[r].loaded = NothingLoaded
      /\ req[r].todo = {} /\ req[r].before = {} /\ req[r].new = 0
      /\ k \in known /\ Excused(k, own.expires, own.revoked)
  BY <1>1, <1>2, <1>3
     DEF Good, StateShape, StateOwners, StateExcused, Fits, RequestStates
<1>5. Save(k, own, own) /\ unsaved' \subseteq Ids /\ unsaved \subseteq unsaved'
  BY <1>1, <1>3 DEF Touch, TypeOK
<1>6. PICK s : s = [req[r] EXCEPT !.pc = "act"]
  OBVIOUS
<1>7. /\ s \in RequestStates /\ s.pc = "act" /\ s.expires = Never
      /\ s.loaded = NothingLoaded /\ s.todo = {} /\ s.before = {} /\ s.key = k
      /\ s.new = 0 /\ Goes(r, s)
  BY <1>2, <1>3, <1>4, <1>6 DEF RequestStates, Touch
<1>8. Good(s) /\ Fits(s)
  BY <1>1, <1>4, <1>7, BlankIsGood
<1>9. /\ TableMoves /\ \A j \in Ids : j # k => api_keys'[j] = api_keys[j]
      /\ api_keys'[k].expires \in {own.expires, api_keys[k].expires}
      /\ api_keys'[k].revoked \in {own.revoked, api_keys[k].revoked}
  BY <1>1, <1>4, <1>5, SameIsNoBetter, SaveMoves
<1>10. Good(s)' /\ Fits(s)'
  BY <1>1, <1>7, <1>8, <1>9, OthersStayGood
<1>11. RowsExcused'
  BY <1>1, <1>4, <1>9, SaveExcused
<1>. QED
  BY <1>1, <1>7, <1>9, <1>10, <1>11, HistoryKept, StepKeeps

(* The answer: what it says of the old keys is what they have, or more.    *)
LEMMA RespondKeeps ==
  ASSUME IInv, NEW r \in Requests, Respond(r)
  PROVE  IInv'
<1>1. /\ TypeOK /\ KeyIds \subseteq Ids /\ req[r].pc = "respond" /\ Ends(r)
      /\ UNCHANGED <<now, is_active, api_keys, issued, stale, purged, unsaved,
                     lasting, due, hasty, requests, faults>>
  BY KeysStored DEF IInv, Respond, bounds
<1>2. req[r] \in RequestStates /\ Good(req[r]) /\ Fits(req[r])
  BY <1>1, TypesOfRequests DEF IInv
<1>3. TableMoves
  <2>1. known \subseteq known' /\ known' \subseteq KeyIds
    BY <1>1, <1>2 DEF Respond, Good, StateShape, TypeOK, KeyIds
  <2>2. Quiet
    BY <1>1, <2>1, PlainTypes DEF Quiet
  <2>. QED
    BY <1>1, <2>2, QuietTable
<1>4. PICK loaded \in [Ids -> Rows \cup {NoRow}] : loaded = req[r].loaded
  BY <1>2 DEF RequestStates
<1>5. \A k \in Ids :
        loaded[k] # NoRow =>
          /\ k \in KeyIds /\ loaded[k] \in Rows /\ loaded[k].expires \in Times
          /\ k \notin stale => NoBetter(api_keys[k], loaded[k])
  BY <1>2, <1>4, RowFields DEF Good, StateOwners, StateLosses
<1>6. ASSUME UNCHANGED promised
      PROVE  promised' \in [Ids -> Times] /\ PromisesHeld'
  BY <1>3, <1>6, HistoryKept
<1>7. ASSUME promised' = [k \in Ids |->
                            IF loaded[k] = NoRow THEN promised[k]
                            ELSE Earliest(promised[k], loaded[k].expires)]
      PROVE  promised' \in [Ids -> Times] /\ PromisesHeld'
  <2>1. ASSUME NEW k \in Ids
        PROVE  /\ promised'[k] \in Times
               /\ \/ promised'[k] = promised[k]
                  \/ loaded[k] # NoRow /\ promised'[k] = loaded[k].expires
    BY <1>1, <1>5, <1>7 DEF Earliest, TypeOK
  <2>2. promised' \in [Ids -> Times]
    BY <1>7, <2>1
  <2>3. ASSUME NEW k \in Ids, promised'[k] # Never
        PROVE  /\ k \in KeyIds
               /\ k \notin stale =>
                    /\ api_keys[k].expires # Never
                    /\ api_keys[k].expires <= promised'[k]
    <3>1. CASE promised'[k] = promised[k]
      BY <2>3, <3>1 DEF IInv, PromisesHeld
    <3>2. CASE loaded[k] # NoRow /\ promised'[k] = loaded[k].expires
      BY <1>5, <2>3, <3>2 DEF NoBetter
    <3>. QED
      BY <2>1, <3>1, <3>2
  <2>4. PromisesHeld'
    BY <1>1, <2>3 DEF PromisesHeld, KeyIds
  <2>. QED
    BY <2>2, <2>4
<1>8. promised' \in [Ids -> Times] /\ PromisesHeld'
  BY <1>4, <1>6, <1>7 DEF Respond
<1>9. settled' \subseteq Ids /\ SettledRevoked'
  <2>1. settled' = settled \cup req[r].before
    BY DEF Respond
  <2>2. \A k \in req[r].before \ stale : api_keys[k].revoked \/ k \in unsaved
    BY <1>1, <1>2 DEF Good, StateLosses, Fits
  <2>3. req[r].before \subseteq KeyIds
    BY <1>2 DEF Good, StateShape
  <2>. QED
    BY <1>1, <2>1, <2>2, <2>3 DEF IInv, SettledRevoked, KeyIds
<1>10. PICK s \in RequestStates : s = Idle
  BY IdleFields
<1>11. Good(s) /\ Fits(s) /\ Goes(r, s)
  BY <1>1, <1>10, IdleFields, BlankIsGood DEF Ends
<1>12. Good(s)' /\ Fits(s)'
  BY <1>1, <1>3, <1>11, OthersStayGood
<1>13. RowsExcused'
  BY <1>1, <1>3, RowsStayExcused DEF RowsExcused, KeyIds
<1>. QED
  BY <1>3, <1>8, <1>9, <1>11, <1>12, <1>13, StepKeeps

LEMMA IdlingKeeps ==
  ASSUME IInv, UNCHANGED vars \/ Tick
  PROVE  IInv'
<1>1. UNCHANGED <<is_active, api_keys, issued, req, promised, stale, purged,
                  settled, unsaved, lasting, known, due, hasty, requests, faults>>
  BY DEF vars, Tick, history, bounds
<1>2. TypeOK'
  <2>1. now' \in 0..MaxTime
    BY ApiKeysAssumption DEF IInv, TypeOK, vars, Tick, ApiKeysAssumption
  <2>. QED
    BY <1>1, <2>1 DEF IInv, TypeOK
<1>3. \A r \in Requests : Good(req[r])'
  BY <1>1 DEF IInv, Good, StateShape, StateOwners, StateLosses, StateExcused,
              Excused, Successors, KeyIds
<1>4. PromisesHeld' /\ SettledRevoked'
  BY <1>1 DEF IInv, PromisesHeld, SettledRevoked, KeyIds
<1>5. RowsExcused'
  BY <1>1 DEF IInv, RowsExcused, Excused, Successors, KeyIds
<1>. QED
  BY <1>2, <1>3, <1>4, <1>5 DEF IInv

LEMMA InitIInv == Init => IInv
<1>. SUFFICES ASSUME Init PROVE IInv
  OBVIOUS
<1>1. PICK n \in 0..MaxKeys : DOMAIN Initial = 1..n /\ issued = n
  BY DEF Init
<1>2. /\ KeyIds = DOMAIN Initial /\ KeyIds \subseteq Ids
      /\ Initial \in [DOMAIN Initial -> Rows] /\ n \in Nat
  BY <1>1, ApiKeysAssumption DEF KeyIds, Ids, ApiKeysAssumption
<1>3. \A k \in Ids :
        api_keys[k] = IF k \in KeyIds THEN Initial[k] ELSE NoRow
  BY <1>2 DEF Init
<1>4. api_keys \in [Ids -> Rows \cup {NoRow}]
  BY <1>2 DEF Init
<1>5. \A k \in Ids : api_keys[k] = NoRow <=> k > issued
  BY <1>1, <1>2, <1>3, RowFields DEF KeyIds, Ids
<1>6. \A r \in Requests : req[r] = Idle
  BY DEF Init
<1>7. TypeOK
  <2>1. req \in [Requests -> RequestStates]
    BY IdleFields DEF Init
  <2>2. \A r \in Requests :
          /\ req[r].todo \subseteq {k \in 1..issued : req[r].loaded[k] # NoRow}
          /\ req[r].pc \in {"expire", "revoke"} <=> req[r].todo # {}
    BY <1>6, IdleFields
  <2>3. /\ now \in 0..MaxTime /\ requests \in 0..MaxRequests
        /\ faults \in 0..MaxFaults /\ is_active \in [Users -> BOOLEAN]
        /\ promised \in [Ids -> Times]
        /\ stale \in SUBSET Ids /\ settled \in SUBSET Ids /\ purged \in SUBSET Users
        /\ unsaved \in SUBSET Ids /\ hasty \in SUBSET Users
        /\ due \in [Ids -> Times]
    BY ApiKeysAssumption DEF Init, Times, ApiKeysAssumption
  <2>4. lasting \subseteq 1..issued /\ known \subseteq 1..issued
    BY <1>1 DEF Init
  <2>. QED
    BY <1>1, <1>4, <1>5, <2>1, <2>2, <2>3, <2>4 DEF TypeOK
<1>8. Good(Idle)
  BY <1>7, IdleFields, BlankIsGood
<1>9. \A r \in Requests : Good(req[r])
  BY <1>6, <1>8
<1>10. PromisesHeld /\ SettledRevoked
  BY DEF Init, PromisesHeld, SettledRevoked
<1>11. RowsExcused
  <2>1. ASSUME NEW k \in KeyIds
        PROVE  k \in lasting =>
                 ~ api_keys[k].revoked /\ api_keys[k].expires = Never
    BY <1>2, <1>3, <2>1 DEF Init
  <2>. QED
    BY <2>1 DEF RowsExcused, Excused
<1>. QED
  BY <1>7, <1>9, <1>10, <1>11 DEF IInv

LEMMA NextKeepsIInv == IInv /\ [Next]_vars => IInv'
<1>. SUFFICES ASSUME IInv, [Next]_vars PROVE IInv'
  OBVIOUS
<1>1. CASE UNCHANGED vars \/ Tick
  BY <1>1, IdlingKeeps
<1>2. ASSUME NEW r \in Requests,
             \/ FindKey(r) \/ FindUser(r) \/ Touch(r) \/ Session(r)
             \/ Other(r) \/ Rotate(r) \/ RotateKeys(r) \/ IssueKey(r) \/ Confirm(r)
             \/ UsersAction(r) \/ Deactivate(r) \/ FindKeys(r)
             \/ Create(r) \/ RevokeOne(r) \/ RevokeMany(r)
             \/ Issue(r) \/ ExpireOld(r) \/ Revoke(r) \/ RevokeFails(r)
             \/ Respond(r) \/ Dies(r)
      PROVE  IInv'
  BY <1>2, SignInKeeps, TouchKeeps, EndingsKeep, RotationsKeep, IssuingsKeep,
     ConfirmKeeps, DeactivateKeeps, FindKeysKeeps, RevocationsKeep, IssueKeeps,
     ExpireOldKeeps, RevokeKeeps, RevokeFailsKeeps, RespondKeeps
<1>. QED
  BY <1>1, <1>2 DEF Next

LEMMA Invariance == Spec => []IInv
BY InitIInv, NextKeepsIInv, PTL DEF Spec

-----------------------------------------------------------------------------
(* Every variable keeps its type, and what a request has still to save is  *)
(* what it has loaded.                                                     *)
THEOREM TypeCorrect == Spec => []TypeOK
BY Invariance, PTL DEF IInv

(* Of the lasting keys whose tokens a client holds the newest of each user *)
(* works, however rotations, confirmations and the saves that stamp a key  *)
(* overlap and wherever they stop, until the grace of a later rotation     *)
(* whose answer has not arrived is over: also where saves are of old       *)
(* objects.  Excepted are users with a key revoked on purpose, or with a   *)
(* confirmation that was not made with the new key.                        *)
THEOREM LockedOutOnlyByLostAnswers == Spec => []NewestWorks
<1>1. IInv => NewestWorks
  <2>1. SUFFICES ASSUME IInv, NEW k \in known \cap lasting,
                        api_keys[k].user \notin purged \cup hasty,
                        Successors(k) \cap known = {}, ~ Live(k)
                 PROVE  \E j \in Successors(k) : due[j] # Never /\ due[j] <= now
    BY DEF NewestWorks
  <2>2. TypeOK /\ k \in KeyIds /\ now \in Nat
    BY <2>1, ApiKeysAssumption DEF IInv, TypeOK, KeyIds, ApiKeysAssumption
  <2>3. k \in Ids /\ api_keys[k].expires \in Times
    BY <2>2, KeysStored, RowFields
  <2>4. Excused(k, api_keys[k].expires, api_keys[k].revoked)
    BY <2>1, <2>2 DEF IInv, RowsExcused
  <2>5. ~ api_keys[k].revoked
    BY <2>1, <2>4 DEF Excused
  <2>6. api_keys[k].expires # Never /\ api_keys[k].expires <= now
    BY <2>1, <2>5 DEF Live, Expired
  <2>7. PICK j \in Successors(k) : due[j] # Never /\ due[j] <= api_keys[k].expires
    <3>1. \E j \in Successors(k) :
            j \in known \/ (due[j] # Never /\ due[j] <= api_keys[k].expires)
      BY <2>1, <2>4, <2>6 DEF Excused
    <3>. QED
      BY <2>1, <3>1
  <2>8. due[j] \in Times
    BY <2>2, <2>7, KeysStored DEF Successors, TypeOK, KeyIds
  <2>9. due[j] \in Nat /\ api_keys[k].expires \in Nat
    BY <2>3, <2>6, <2>7, <2>8 DEF Times
  <2>10. due[j] <= now
    BY <2>2, <2>6, <2>7, <2>9
  <2>. QED
    BY <2>7, <2>10
<1>. QED
  BY <1>1, Invariance, PTL

(* A rotated key is dead at the time that any answer named, or before,     *)
(* unless it was saved since from an object older than the row.            *)
THEOREM OldKeysDie == Spec => []DiesAsTold
<1>1. IInv => DiesAsTold
  <2>1. SUFFICES ASSUME IInv, NEW k \in KeyIds \ stale, promised[k] # Never,
                        now >= promised[k]
                 PROVE  ~ Live(k)
    BY DEF DiesAsTold
  <2>2. k \in Ids /\ api_keys[k].expires \in Times /\ promised[k] \in Times
    <3>1. TypeOK /\ k \in KeyIds
      BY <2>1 DEF IInv
    <3>2. k \in Ids /\ api_keys[k] \in Rows
      BY <3>1, KeysStored
    <3>. QED
      BY <3>1, <3>2, RowFields DEF TypeOK
  <2>3. api_keys[k].expires # Never /\ api_keys[k].expires <= promised[k]
    BY <2>2, <2>1 DEF IInv, PromisesHeld
  <2>4. now \in Nat
    BY <2>1, ApiKeysAssumption DEF IInv, TypeOK, ApiKeysAssumption
  <2>5. api_keys[k].expires \in Nat /\ promised[k] \in Nat
    BY <2>1, <2>2, <2>3 DEF Times
  <2>6. api_keys[k].expires <= now
    BY <2>1, <2>3, <2>4, <2>5
  <2>. QED
    BY <2>3, <2>6 DEF Live, Expired
<1>. QED
  BY <1>1, Invariance, PTL

(* Once the answer of a deactivation has arrived, every key that the user  *)
(* had when it began is revoked, whatever other requests did with it       *)
(* meanwhile, except one whose own save() failed and that no request has   *)
(* revoked since, and one saved since from an object older than the row.   *)
(* Nothing is said of keys that the user is issued after that beginning.   *)
THEOREM DeactivatedIsRevoked == Spec => []DeactivationRevokes
<1>1. IInv => DeactivationRevokes
  BY DEF IInv, SettledRevoked, DeactivationRevokes
<1>. QED
  BY <1>1, Invariance, PTL

(* No step revives a key or puts its expiry off, except a save of an       *)
(* object older than the row.                                              *)
THEOREM KeysOnlyLose == Spec => OnlyLoses
<1>1. ASSUME IInv, Next, NEW k \in KeyIds, k \notin stale'
      PROVE  /\ api_keys[k].revoked => api_keys'[k].revoked
             /\ \/ api_keys'[k].expires = api_keys[k].expires
                \/ /\ api_keys'[k].expires # Never
                   /\ \/ api_keys[k].expires = Never
                      \/ api_keys'[k].expires < api_keys[k].expires
  <2>1. CASE UNCHANGED api_keys
    BY <2>1
  <2>2. CASE TableMoves
    <3>1. api_keys[k] \in Rows /\ api_keys'[k] \in Rows
      BY <1>1, <2>2, KeysStored DEF IInv, TableMoves
    <3>2. NoBetter(api_keys'[k], api_keys[k])
      BY <1>1, <2>2 DEF TableMoves
    <3>. QED
      BY <3>1, <3>2, RowFields, ApiKeysAssumption
         DEF NoBetter, Times, ApiKeysAssumption
  <2>3. ASSUME NEW r \in Requests,
               Touch(r) \/ Issue(r) \/ ExpireOld(r) \/ Revoke(r)
        PROVE  TableMoves
    BY <1>1, <2>3, TouchKeeps, IssueKeeps, ExpireOldKeeps, RevokeKeeps, SMTT(40)
  <2>4. ASSUME NEW r \in Requests,
               \/ FindKey(r) \/ FindUser(r) \/ Session(r)
               \/ Other(r) \/ Rotate(r) \/ RotateKeys(r) \/ IssueKey(r) \/ Confirm(r)
               \/ UsersAction(r) \/ Deactivate(r) \/ FindKeys(r)
               \/ Create(r) \/ RevokeOne(r) \/ RevokeMany(r)
               \/ RevokeFails(r) \/ Respond(r) \/ Dies(r)
        PROVE  UNCHANGED api_keys
    BY <2>4 DEF FindKey, FindUser, Session, Other, Rotate, RotateKeys, IssueKey,
                Confirm, UsersAction, Deactivate, FindKeys, Create, RevokeOne,
                RevokeMany, Revokes, RevokeFails, Respond, Dies, Begin
  <2>5. Tick => UNCHANGED api_keys
    BY DEF Tick
  <2>. QED
    BY <1>1, <2>1, <2>2, <2>3, <2>4, <2>5 DEF Next
<1>2. IInv /\ [Next]_vars =>
        [\A k \in KeyIds :
           \/ k \in stale'
           \/ /\ api_keys[k].revoked => api_keys'[k].revoked
              /\ \/ api_keys'[k].expires = api_keys[k].expires
                 \/ /\ api_keys'[k].expires # Never
                    /\ \/ api_keys[k].expires = Never
                       \/ api_keys'[k].expires < api_keys[k].expires]_vars
  BY <1>1
<1>. QED
  BY <1>2, Invariance, PTL DEF Spec, OnlyLoses
=============================================================================
