--------------------------- MODULE ApiKeyRotation ---------------------------
(***************************************************************************)
(* API keys: how a request is authenticated with one (ApiKeyAuth), how the *)
(* provisioning API issues, rotates, confirms and revokes them             *)
(* (ProvisionController), and the account's own screen (ApiKeysController).*)
(*                                                                         *)
(* Requests interleave at every query.  Rows are read into objects, and    *)
(* save() writes all the columns of the object back; `stale` remembers the *)
(* keys that were written from an object older than the row.  The client   *)
(* of a rotation may lose the answer, and a process may die at any point.  *)
(*                                                                         *)
(* Roles are fixed: no endpoint here grants or takes the admin role.  What *)
(* other endpoints do with an authenticated request is left out, and so    *)
(* are requests that are turned away by the validation of their arguments, *)
(* and reversals from the audit log, which write rows by SQL of their own. *)
(***************************************************************************)
EXTENDS Naturals

CONSTANTS
  Users,
  Admins,       \* users with the admin role
  RotateAny,    \* users whose email is in Provisioning::rotateAnyEmails()
  Names,        \* labels of keys
  Initial,      \* the keys stored to begin with: a sequence of rows
  Graces,       \* the grace_seconds asked for
  Lifetimes,    \* the expires_in_days asked for
  Requests,
  Kinds,        \* the kinds of request made
  Never,        \* SQL NULL in expires_at
  NoRow,        \* an id that api_keys has not given out
  FullRowSave,  \* Model::save() writes all columns, as it does for ApiKeys
  MaxKeys,      \* bound: keys issued
  MaxTime,      \* bound: the clock stops here
  MaxRequests,  \* bound: requests made
  MaxFaults     \* bound: answers lost, processes that die, failed INSERTs and UPDATEs

AllKinds == {"other", "rotate", "rotateKeys", "confirm", "issueKey", "users",
             "deactivate", "create", "revoke", "bulk"}

Ids == 1..MaxKeys
Times == Nat \cup {Never}
Rows == [user: Users, name: Names, expires: Times, revoked: BOOLEAN]

ASSUME ApiKeysAssumption ==
  /\ Users # {} /\ Names # {}
  /\ Admins \subseteq Users /\ RotateAny \subseteq Users
  /\ Initial \in [DOMAIN Initial -> Rows]
  /\ \E n \in 0..MaxKeys : DOMAIN Initial = 1..n
  /\ Graces \subseteq Nat \ {0} /\ Lifetimes \subseteq Nat \ {0}
  /\ Kinds \subseteq AllKinds
  /\ Never \notin Nat /\ NoRow \notin Rows
  /\ FullRowSave \in BOOLEAN
  /\ MaxKeys \in Nat /\ MaxTime \in Nat /\ MaxRequests \in Nat /\ MaxFaults \in Nat

VARIABLES
  now,
  is_active,    \* users.is_active
  api_keys,     \* per id, its row
  issued,       \* the last id given out
  req,          \* per request, its local state
  promised,     \* history: per key, the earliest expires_at a client was told
  stale,        \* history: keys saved from an object older than the row
  purged,       \* history: users with a key revoked on purpose
  settled,      \* history: keys that a deactivation answered for
  unsaved,      \* history: those of them whose own save() failed
  lasting,      \* history: keys issued without an expiry
  known,        \* history: keys whose token has reached a client
  due,          \* history: when the grace that a rotation gives ends, per new key
  hasty,        \* history: users whose confirmation revoked what it should not
  requests, faults

tokens == <<lasting, known, due>>
history == <<promised, stale, purged, settled, unsaved, lasting, known, due, hasty>>
bounds == <<requests, faults>>
vars == <<now, is_active, api_keys, issued, req, promised, stale, purged,
          settled, unsaved, lasting, known, due, hasty, requests, faults>>

(* caller: the principal; key, own: the key it was authenticated with, if  *)
(* any, and its object; loaded: the objects it has read to change them,    *)
(* todo: those it has not saved yet; new: the key it issued; deadline:     *)
(* when the old ones are to expire; before: what the user that it          *)
(* deactivates had (history).                                              *)
RequestStates ==
  [pc: {"idle", "user", "touch", "act", "find", "issue", "expire", "revoke",
        "respond"},
   kind: AllKinds, caller: Users, key: {0} \cup Ids, own: Rows \cup {NoRow},
   target: Users, name: Names, expires: Times, grace: Nat,
   loaded: [Ids -> Rows \cup {NoRow}], todo: SUBSET Ids,
   new: {0} \cup Ids, deadline: Nat, before: SUBSET Ids]

NothingLoaded == [k \in Ids |-> NoRow]

Idle ==
  [pc |-> "idle", kind |-> "other", caller |-> CHOOSE u \in Users : TRUE,
   key |-> 0, own |-> NoRow, target |-> CHOOSE u \in Users : TRUE, name |-> CHOOSE n \in Names : TRUE,
   expires |-> Never, grace |-> 0, loaded |-> NothingLoaded, todo |-> {},
   new |-> 0, deadline |-> 0, before |-> {}]

TypeOK ==
  /\ now \in 0..MaxTime
  /\ is_active \in [Users -> BOOLEAN]
  /\ issued \in 0..MaxKeys
  /\ api_keys \in [Ids -> Rows \cup {NoRow}]
  /\ \A k \in Ids : api_keys[k] = NoRow <=> k > issued
  /\ req \in [Requests -> RequestStates]
  /\ \A r \in Requests :
       /\ req[r].todo \subseteq {k \in 1..issued : req[r].loaded[k] # NoRow}
       /\ req[r].pc \in {"expire", "revoke"} <=> req[r].todo # {}
  /\ promised \in [Ids -> Times]
  /\ stale \in SUBSET Ids /\ settled \in SUBSET Ids /\ unsaved \in SUBSET Ids
  /\ lasting \in SUBSET (1..issued) /\ known \in SUBSET (1..issued)
  /\ due \in [Ids -> Times]
  /\ purged \in SUBSET Users /\ hasty \in SUBSET Users
  /\ requests \in 0..MaxRequests
  /\ faults \in 0..MaxFaults

Init ==
  /\ now = 0
  /\ is_active = [u \in Users |-> TRUE]
  /\ api_keys = [k \in Ids |-> IF k \in DOMAIN Initial THEN Initial[k] ELSE NoRow]
  /\ \E n \in 0..MaxKeys : DOMAIN Initial = 1..n /\ issued = n
  /\ req = [r \in Requests |-> Idle]
  /\ promised = [k \in Ids |-> Never]
  /\ stale = {} /\ purged = {} /\ settled = {} /\ unsaved = {} /\ hasty = {}
  /\ lasting = {k \in DOMAIN Initial :
                  Initial[k].expires = Never /\ ~ Initial[k].revoked}
  /\ known = DOMAIN Initial
  /\ due = [k \in Ids |-> Never]
  /\ requests = 0
  /\ faults = 0

-----------------------------------------------------------------------------
KeyIds == 1..issued

(* Mutant of Expired: a key still works at its expires_at.                 *)
Expired_AfterIt(row) == row.expires # Never /\ row.expires < now

Expired(row) == row.expires # Never /\ row.expires <= now
Live(k) == ~ api_keys[k].revoked /\ ~ Expired(api_keys[k])

(* Mutant of Later: the key gets the new deadline in any case.             *)
Later_InAnyCase(expires, deadline) == TRUE

Later(expires, deadline) == expires # Never => expires > deadline

Holds(u, k) == api_keys[k].user = u
Unrevoked(u) == {k \in KeyIds : Holds(u, k) /\ ~ api_keys[k].revoked}

(* mayManageKeysOf().                                                      *)
MayManageKeysOf(caller, target) ==
  \/ caller \in RotateAny
  \/ caller \in Admins /\ target \notin Admins

Goes(r, state) == req' = [req EXCEPT ![r] = state]
Ends(r) == Goes(r, Idle)
Fault == faults < MaxFaults /\ faults' = faults + 1
NoFault == UNCHANGED faults

Loads(S) == [k \in Ids |-> IF k \in S THEN api_keys[k] ELSE NoRow]

(* Model::save() on an object loaded as `loaded` and now holding `saved`.  *)
Stored(k, loaded, saved) ==
  LET Merged(col) ==
        IF saved[col] = loaded[col] THEN api_keys[k][col] ELSE saved[col]
  IN  IF FullRowSave
      THEN saved
      ELSE [user |-> Merged("user"), name |-> Merged("name"),
            expires |-> Merged("expires"), revoked |-> Merged("revoked")]

Save(k, loaded, saved) ==
  /\ api_keys' = [api_keys EXCEPT ![k] = Stored(k, loaded, saved)]
  /\ stale' = IF loaded = api_keys[k] THEN stale ELSE stale \cup {k}

-----------------------------------------------------------------------------
(* Authentication, ApiKeyAuth::resolve(): a live key, its active user, and *)
(* a save() of the key with the time it was used.                          *)

Begin(r, state) ==
  /\ req[r].pc = "idle"
  /\ requests < MaxRequests
  /\ requests' = requests + 1
  /\ Goes(r, state)
  /\ UNCHANGED <<now, is_active, api_keys, issued, promised, stale, settled,
                 unsaved, tokens, hasty, faults>>

(* Who sends a token has been given it.                                    *)
FindKey(r) ==
  \E k \in known :
    /\ Live(k)
    /\ Begin(r, [Idle EXCEPT !.pc = "user", !.caller = api_keys[k].user,
                             !.key = k, !.own = api_keys[k]])
    /\ UNCHANGED purged

FindUser(r) ==
  /\ req[r].pc = "user"
  /\ Goes(r, IF is_active[req[r].caller]
             THEN [req[r] EXCEPT !.pc = "touch"] ELSE Idle)
  /\ UNCHANGED <<now, is_active, api_keys, issued, history, bounds>>

Touch(r) ==
  /\ req[r].pc = "touch"
  /\ Save(req[r].key, req[r].own, req[r].own)
  /\ Goes(r, [req[r] EXCEPT !.pc = "act"])
  /\ UNCHANGED <<now, is_active, issued, promised, purged, settled, unsaved,
                 tokens, hasty, bounds>>

(* A session is taken at its word.                                         *)
Session(r) ==
  /\ \E u \in Users : Begin(r, [Idle EXCEPT !.pc = "act", !.caller = u])
  /\ UNCHANGED purged

-----------------------------------------------------------------------------
(* The endpoints, up to what each loads.                                   *)

Caller(r) == req[r].caller
IsAdmin(r) == Caller(r) \in Admins

Acts(r, kind) == req[r].pc = "act" /\ kind \in Kinds

(* ownKey(): "This endpoint needs an API key, not a session".              *)
WithKey(r) == req[r].key # 0

Other(r) ==
  /\ Acts(r, "other")
  /\ Ends(r)
  /\ UNCHANGED <<now, is_active, api_keys, issued, history, bounds>>

(* rotateAction(): the caller's own key is read again, by its id.          *)
Rotate(r) ==
  /\ Acts(r, "rotate")
  /\ WithKey(r)
  /\ \E grace \in Graces :
       Goes(r, [req[r] EXCEPT
                  !.pc = "issue", !.kind = "rotate", !.grace = grace,
                  !.target = api_keys[req[r].key].user,
                  !.name = api_keys[req[r].key].name,
                  !.loaded = Loads({req[r].key}), !.todo = {}])
  /\ UNCHANGED <<now, is_active, api_keys, issued, history, bounds>>

(* rotateKeysAction(): every unrevoked key of the user is loaded before    *)
(* the new one is issued.                                                  *)
RotateKeys(r) ==
  /\ Acts(r, "rotateKeys")
  /\ \E u \in Users, name \in Names, grace \in Graces :
       /\ MayManageKeysOf(Caller(r), u)
       /\ is_active[u]
       /\ Goes(r, [req[r] EXCEPT
                     !.pc = "issue", !.kind = "rotateKeys", !.grace = grace,
                     !.target = u, !.name = name,
                     !.loaded = Loads(Unrevoked(u))])
  /\ UNCHANGED <<now, is_active, api_keys, issued, history, bounds>>

(* issueKeyAction().                                                       *)
IssueKey(r) ==
  /\ Acts(r, "issueKey")
  /\ IsAdmin(r)
  /\ \E u \in Users, name \in Names, expires \in {Never} \cup {now + d : d \in Lifetimes} :
       /\ MayManageKeysOf(Caller(r), u)
       /\ is_active[u]
       /\ Goes(r, [req[r] EXCEPT
                     !.pc = "issue", !.kind = "issueKey", !.target = u,
                     !.name = name, !.expires = expires])
  /\ UNCHANGED <<now, is_active, api_keys, issued, history, bounds>>

(* What confirmAction() finds: the other keys of that name that are to     *)
(* expire.                                                                 *)
ExpiringBeside(k) ==
  {j \in Unrevoked(api_keys[k].user) \ {k} :
     api_keys[j].name = api_keys[k].name /\ api_keys[j].expires # Never}

(* The loop that revokes each of the keys found.                           *)
RevokesAll(r, keys) ==
  IF keys = {} THEN [req[r] EXCEPT !.pc = "respond"]
  ELSE [req[r] EXCEPT !.pc = "revoke", !.loaded = Loads(keys), !.todo = keys]

(* Not "with the new key": one of the keys found was issued after k, or k  *)
(* was issued for a time only (history).                                   *)
TooEarly(k) ==
  \E j \in ExpiringBeside(k) : j > k \/ k \notin lasting

Confirm(r) ==
  /\ Acts(r, "confirm")
  /\ WithKey(r)
  /\ Goes(r, [RevokesAll(r, ExpiringBeside(req[r].key)) EXCEPT !.kind = "confirm"])
  /\ hasty' = IF TooEarly(req[r].key)
              THEN hasty \cup {api_keys[req[r].key].user} ELSE hasty
  /\ UNCHANGED <<now, is_active, api_keys, issued, promised, stale, purged,
                 settled, unsaved, tokens, bounds>>

(* usersAction() for a user that exists: active or not, as asked for; the  *)
(* keys are left alone.                                                    *)
UsersAction(r) ==
  /\ Acts(r, "users")
  /\ IsAdmin(r)
  /\ \E u \in Users \ Admins, active \in BOOLEAN :
       is_active' = [is_active EXCEPT ![u] = active]
  /\ Ends(r)
  /\ UNCHANGED <<now, api_keys, issued, history, bounds>>

Deactivate(r) ==
  /\ Acts(r, "deactivate")
  /\ IsAdmin(r)
  /\ \E u \in Users \ (Admins \cup {Caller(r)}) :
       /\ is_active' = [is_active EXCEPT ![u] = FALSE]
       /\ purged' = purged \cup {u}
       /\ Goes(r, [req[r] EXCEPT !.pc = "find", !.kind = "deactivate",
                                 !.target = u,
                                 !.before = {k \in KeyIds : Holds(u, k)}])
  /\ UNCHANGED <<now, api_keys, issued, promised, stale, settled, unsaved,
                 tokens, hasty, bounds>>

FindKeys(r) ==
  /\ req[r].pc = "find"
  /\ Goes(r, RevokesAll(r, Unrevoked(req[r].target)))
  /\ UNCHANGED <<now, is_active, api_keys, issued, history, bounds>>

(* The account's own screen: a session, not a key.                         *)
Create(r) ==
  /\ "create" \in Kinds
  /\ \E u \in Users, name \in Names :
       Begin(r, [Idle EXCEPT !.pc = "issue", !.kind = "create",
                             !.target = u, !.name = name])
  /\ UNCHANGED purged

Revokes(r, kind, u, S) ==
  /\ kind \in Kinds
  /\ S # {}
  /\ Begin(r, [Idle EXCEPT !.pc = "revoke", !.kind = kind, !.target = u,
                           !.loaded = Loads(S), !.todo = S])
  /\ purged' = purged \cup {u}

RevokeOne(r) ==
  \E k \in KeyIds : Revokes(r, "revoke", api_keys[k].user, {k})

RevokeMany(r) ==
  \E u \in Users : \E S \in SUBSET Unrevoked(u) : Revokes(r, "bulk", u, S)

-----------------------------------------------------------------------------
(* The writes.                                                             *)

(* issue(), and the deadline that is worked out next.                      *)
NewKey(r) ==
  [user |-> req[r].target, name |-> req[r].name, expires |-> req[r].expires,
   revoked |-> FALSE]

ToExpire(r) == {k \in Ids : req[r].loaded[k] # NoRow}

(* Mutant of Issue: the keys to expire are found after the new one is      *)
(* stored.                                                                 *)
Issue_ThenFinds(r) ==
  /\ req[r].pc = "issue"
  /\ issued < MaxKeys
  /\ issued' = issued + 1
  /\ api_keys' = [api_keys EXCEPT ![issued + 1] = NewKey(r)]
  /\ Goes(r, [req[r] EXCEPT
                !.pc = IF ToExpire(r) = {} THEN "respond" ELSE "expire",
                !.loaded = IF ToExpire(r) = {} THEN @
                           ELSE [@ EXCEPT ![issued + 1] = NewKey(r)],
                !.todo = IF ToExpire(r) = {} THEN {}
                         ELSE ToExpire(r) \cup {issued + 1},
                !.new = issued + 1, !.deadline = now + req[r].grace])
  /\ lasting' = IF req[r].expires = Never THEN lasting \cup {issued + 1} ELSE lasting
  /\ due' = IF ToExpire(r) = {} THEN due
            ELSE [due EXCEPT ![issued + 1] = now + req[r].grace]
  /\ UNCHANGED <<now, is_active, promised, stale, purged, settled, unsaved,
                 known, hasty, bounds>>

Issue(r) ==
  /\ req[r].pc = "issue"
  /\ issued < MaxKeys
  /\ issued' = issued + 1
  /\ api_keys' = [api_keys EXCEPT ![issued + 1] = NewKey(r)]
  /\ Goes(r, [req[r] EXCEPT
                !.pc = IF ToExpire(r) = {} THEN "respond" ELSE "expire",
                !.todo = ToExpire(r), !.new = issued + 1,
                !.deadline = now + req[r].grace])
  /\ lasting' = IF req[r].expires = Never THEN lasting \cup {issued + 1} ELSE lasting
  /\ due' = IF ToExpire(r) = {} THEN due
            ELSE [due EXCEPT ![issued + 1] = now + req[r].grace]
  /\ UNCHANGED <<now, is_active, promised, stale, purged, settled, unsaved,
                 known, hasty, bounds>>

(* The object in hand is done with; what it holds now is what the answer   *)
(* says of it.                                                             *)
Saved(r, k, row) ==
  [req[r] EXCEPT !.pc = IF req[r].todo = {k} THEN "respond" ELSE req[r].pc,
                 !.loaded[k] = row, !.todo = req[r].todo \ {k}]

(* "Never lengthen an expiry the key already had."                         *)
ExpireOld(r) ==
  /\ req[r].pc = "expire"
  /\ \E k \in req[r].todo :
       LET old == req[r].loaded[k]
           row == [old EXCEPT !.expires = req[r].deadline]
       IN  \/ /\ Later(old.expires, req[r].deadline)
              /\ Save(k, old, row)
              /\ Goes(r, Saved(r, k, row))
           \/ /\ ~ Later(old.expires, req[r].deadline)
              /\ Goes(r, Saved(r, k, old))
              /\ UNCHANGED <<api_keys, stale>>
  /\ UNCHANGED <<now, is_active, issued, promised, purged, settled, unsaved,
                 tokens, hasty, bounds>>

Revoke(r) ==
  /\ req[r].pc = "revoke"
  /\ \E k \in req[r].todo :
       LET row == [req[r].loaded[k] EXCEPT !.revoked = TRUE]
       IN  /\ Save(k, req[r].loaded[k], row)
           /\ Goes(r, Saved(r, k, row))
           /\ unsaved' = unsaved \ {k}
  /\ UNCHANGED <<now, is_active, issued, promised, purged, settled, tokens,
                 hasty, bounds>>

(* Mutant of RevokeFails: a save() that fails ends the loop.               *)
RevokeFails_Stops(r) ==
  /\ req[r].pc = "revoke"
  /\ Fault
  /\ \E k \in req[r].todo :
       /\ Goes(r, [req[r] EXCEPT !.pc = "respond", !.todo = {}])
       /\ unsaved' = unsaved \cup ({k} \cap req[r].before)
  /\ UNCHANGED <<now, is_active, api_keys, issued, promised, stale, purged,
                 settled, tokens, hasty, requests>>

(* Where a save() fails, the loop goes on, the key is not counted and the  *)
(* answer is 200 all the same.                                             *)
RevokeFails(r) ==
  /\ req[r].pc = "revoke"
  /\ Fault
  /\ \E k \in req[r].todo :
       /\ Goes(r, Saved(r, k, req[r].loaded[k]))
       /\ unsaved' = unsaved \cup ({k} \cap req[r].before)
  /\ UNCHANGED <<now, is_active, api_keys, issued, promised, stale, purged,
                 settled, tokens, hasty, requests>>

Earliest(s, t) == IF s = Never \/ (t # Never /\ t < s) THEN t ELSE s

(* The answer arrives, and with it the token of a new key.                 *)
Respond(r) ==
  /\ req[r].pc = "respond"
  /\ promised' = IF req[r].kind \in {"rotate", "rotateKeys"}
                 THEN [k \in Ids |->
                         IF req[r].loaded[k] = NoRow THEN promised[k]
                         ELSE Earliest(promised[k], req[r].loaded[k].expires)]
                 ELSE promised
  /\ settled' = settled \cup req[r].before
  /\ known' = known \cup ({req[r].new} \ {0})
  /\ Ends(r)
  /\ UNCHANGED <<now, is_active, api_keys, issued, stale, purged, unsaved,
                 lasting, due, hasty, bounds>>

(* The answer is lost, the process dies, or issue() or the save() of an    *)
(* old key fails and ends the request with status 500.                     *)
Dies(r) ==
  /\ req[r].pc # "idle"
  /\ Fault
  /\ Ends(r)
  /\ UNCHANGED <<now, is_active, api_keys, issued, history, requests>>

Tick ==
  /\ now < MaxTime
  /\ now' = now + 1
  /\ UNCHANGED <<is_active, api_keys, issued, req, history, bounds>>

Next ==
  \/ Tick
  \/ \E r \in Requests :
       \/ FindKey(r) \/ FindUser(r) \/ Touch(r) \/ Session(r)
       \/ Other(r) \/ Rotate(r) \/ RotateKeys(r) \/ IssueKey(r) \/ Confirm(r)
       \/ UsersAction(r) \/ Deactivate(r) \/ FindKeys(r)
       \/ Create(r) \/ RevokeOne(r) \/ RevokeMany(r)
       \/ Issue(r) \/ ExpireOld(r) \/ Revoke(r) \/ RevokeFails(r)
       \/ Respond(r) \/ Dies(r)

Spec == Init /\ [][Next]_vars

-----------------------------------------------------------------------------
(* The lasting keys of the user of k that were issued after k.             *)
Successors(k) == {j \in lasting : j > k /\ api_keys[j].user = api_keys[k].user}

(* "An interrupted rotation never locks the user out", as far as the code  *)
(* goes.  Of the keys without an expiry whose tokens a client holds, the   *)
(* newest of each user works, however rotations and confirmations overlap  *)
(* and wherever they stop, until a rotation whose answer has not arrived   *)
(* runs out of the grace it gave.  Then the user is locked out: the old    *)
(* keys die and nobody has the token of the new one.  Excepted are users   *)
(* with a key revoked on purpose, and those with a confirmation that was   *)
(* not made "with the new key".                                            *)
NewestWorks ==
  \A k \in known \cap lasting :
    \/ api_keys[k].user \in purged \cup hasty
    \/ Successors(k) \cap known # {}
    \/ Live(k)
    \/ \E j \in Successors(k) : due[j] # Never /\ due[j] <= now

(* "If the agent never confirms, the old key still dies at its expiry": at *)
(* the time the answer named, or before, unless it was saved since then    *)
(* from an object older than the row.                                      *)
DiesAsTold ==
  \A k \in KeyIds \ stale :
    promised[k] # Never /\ now >= promised[k] => ~ Live(k)

(* A key only loses: its expiry is never put off and it is never revived,  *)
(* except by such a save.                                                  *)
OnlyLoses ==
  [][\A k \in KeyIds :
       \/ k \in stale'
       \/ /\ api_keys[k].revoked => api_keys'[k].revoked
          /\ \/ api_keys'[k].expires = api_keys[k].expires
             \/ /\ api_keys'[k].expires # Never
                /\ \/ api_keys[k].expires = Never
                   \/ api_keys'[k].expires < api_keys[k].expires]_vars

(* Once a deactivation has answered, every key the user had when it began  *)
(* is revoked, whatever else was done with the keys meanwhile, except      *)
(* those whose own save() failed, which the answer of status 200 leaves    *)
(* out of keys_revoked, until a later request revokes them, and those      *)
(* saved since from an object older than the row.  It says nothing of a    *)
(* key that a rotation under way issues to the user after that.            *)
DeactivationRevokes ==
  \A k \in settled \ (stale \cup unsaved) : api_keys[k].revoked
=============================================================================
