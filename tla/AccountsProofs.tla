---------------------------- MODULE AccountsProofs ----------------------------
(***************************************************************************)
(* Proofs about Accounts, for every set of users, roles and requests.      *)
(*                                                                         *)
(* A request that no other has overtaken on its user (clean) still sees    *)
(* what it has read: the row it loaded has the primary role that is        *)
(* stored, the role set it compares with is the one in user_roles, and a   *)
(* user that was found to be no administrator is none.  One that none has  *)
(* overtaken on any user (alone) still sees the administrators it counted. *)
(* The tokens of password links are kept apart by TokenInv below.          *)
(***************************************************************************)
EXTENDS Accounts, TLAPS

Loaded(s) == s.pc \in {"guard", "count", "save"}
Syncing(s) == s.pc \in {"current", "sync"}

(* What a request holds at each of its steps.                              *)
StateShape(s) ==
  /\ Loaded(s) => s.row \in Rows
  /\ s.pc = "guard" => s.kind \in {"provision", "deactivate", "delete"}
  /\ s.pc = "count" => s.kind = "delete"
  /\ s.pc \in {"guard", "count"} => ~s.new
  /\ Syncing(s) => s.kind \in WithRoleSet
  /\ s.new => s.kind \in {"create", "signUp", "provision"}
  /\ s.pc = "save" /\ s.kind \in WithRoleSet => s.row.primary \in s.all
  /\ s.kind = "provision" /\ (s.pc = "save" \/ Syncing(s)) => Admin \notin s.all
  /\ s.alone => s.clean

(* What a request may rely on while nobody has written to its user.        *)
SeesUser(s) ==
  /\ s.pc \in {"guard", "count"} => s.row = users[s.user]
  /\ s.pc = "save" /\ ~s.new /\ s.kind \notin WithRoleSet =>
       s.row.primary = users[s.user].primary
  /\ s.pc = "save" /\ ~s.new /\ s.kind \in {"provision", "deactivate"} =>
       Admin \notin RoleIds(s.user)
  /\ Syncing(s) => users[s.user].primary \in s.all
  /\ Syncing(s) /\ s.kind = "provision" => Admin \notin user_roles[s.user]
  /\ s.pc = "sync" => s.known = user_roles[s.user]

Holders == {v \in Users : Admin \in user_roles[v]}

(* What a deletion may rely on while nobody has written to any user.       *)
SeesAdmins(s) ==
  /\ s.pc = "count" => s.known = Holders
  /\ s.pc = "save" => \/ Admin \notin RoleIds(s.user)
                      \/ \E v \in ActiveAdmins : v # s.user

Sees(s) ==
  /\ (Loaded(s) /\ ~s.new) \/ Syncing(s) => users[s.user] # NoRow
  /\ s.clean => SeesUser(s)
  /\ s.alone /\ s.kind = "delete" => SeesAdmins(s)

(* Roles are where a user is, and as they were posted.                     *)
RolesOf(u) ==
  /\ users[u] = NoRow => user_roles[u] = {} /\ posted[u] = {}
  /\ posted[u] # {} => RoleIds(u) = posted[u]

RequestsSee == \A r \in Requests : StateShape(req[r]) /\ Sees(req[r])

Inv ==
  /\ TypeOK
  /\ RequestsSee
  /\ \A u \in Users : RolesOf(u)

-----------------------------------------------------------------------------
(* Requests that move, and steps that write.                               *)

LEMMA IdleState ==
  /\ Idle \in RequestStates /\ Idle.pc = "idle" /\ Idle.kind = "edit"
  /\ Idle.new = FALSE /\ Idle.alone = TRUE /\ Idle.clean = TRUE
  /\ Idle.row = NoRow /\ Idle.all = {} /\ Idle.known = {} /\ Idle.token = 0
<1>1. (CHOOSE u \in Users : TRUE) \in Users
  BY AccountsAssumption DEF AccountsAssumption
<1>. QED
  BY <1>1 DEF Idle, RequestStates, Kinds

LEMMA IdleSees == StateShape(Idle) /\ Sees(Idle)
BY IdleState DEF StateShape, Sees, SeesUser, SeesAdmins, Loaded, Syncing

(* A request moves, and no table that it looks at changes.                 *)
LEMMA MoveKept ==
  ASSUME Inv, NEW r \in Requests, NEW s \in RequestStates, StateShape(s), Sees(s),
         Goes(r, s), UNCHANGED <<users, user_roles>>
  PROVE  RequestsSee' /\ req' \in [Requests -> RequestStates]
<1>1. /\ req' \in [Requests -> RequestStates]
      /\ \A q \in Requests : req'[q] = IF q = r THEN s ELSE req[q]
  BY DEF Inv, TypeOK, Goes
<1>2. \A q \in Requests : StateShape(req'[q]) /\ Sees(req'[q])
  BY <1>1 DEF Inv, RequestsSee
<1>3. ASSUME NEW q \in Requests PROVE (StateShape(req[q]) /\ Sees(req[q]))'
  <2>1. StateShape(req'[q]) /\ Sees(req'[q])
    BY <1>2
  <2>. QED
    BY <2>1 DEF StateShape, Sees, SeesUser, SeesAdmins, Holders, RoleIds,
                ActiveAdmins, Loaded, Syncing
<1>. QED
  BY <1>1, <1>3 DEF RequestsSee

(* A request writes to u, and may rely on what it then sees; the others    *)
(* may rely on nothing of u, nor on any set of administrators.             *)
LEMMA WriteKept ==
  ASSUME Inv, NEW r \in Requests, NEW u \in Users, NEW s \in RequestStates,
         StateShape(s), Sees(s)', Writes(r, u, s),
         users' \in [Users -> Rows \cup {NoRow}], users[u] # NoRow => users'[u] # NoRow,
         \A v \in Users : v # u => users'[v] = users[v] /\ user_roles'[v] = user_roles[v]
  PROVE  RequestsSee' /\ req' \in [Requests -> RequestStates]
<1>. DEFINE Overtaken(q) ==
       [req[q] EXCEPT !.clean = req[q].clean /\ req[q].user # u, !.alone = FALSE]
<1>1. \A q \in Requests : req[q] \in RequestStates
  BY DEF Inv, TypeOK
<1>2. \A q \in Requests : Overtaken(q) \in RequestStates
  BY <1>1, ZenonT(60) DEF RequestStates
<1>3. \A q \in Requests :
        req'[q] = IF q = r THEN s
                  ELSE IF req[q].pc = "idle" THEN req[q] ELSE Overtaken(q)
  BY DEF Writes
<1>4. req' \in [Requests -> RequestStates]
  BY <1>1, <1>2 DEF Writes
<1>5. ASSUME NEW q \in Requests PROVE (StateShape(req[q]) /\ Sees(req[q]))'
  <2>1. CASE q = r
    <3>1. req'[q] = s
      BY <1>3, <2>1
    <3>. QED
      BY <3>1 DEF StateShape, Sees, SeesUser, SeesAdmins, Loaded, Syncing
  <2>2. CASE q # r /\ req[q].pc = "idle"
    <3>1. req'[q] = req[q] /\ StateShape(req[q])
      BY <1>3, <2>2 DEF Inv, RequestsSee
    <3>. QED
      BY <2>2, <3>1 DEF StateShape, Sees, SeesUser, SeesAdmins, Loaded, Syncing
  <2>3. CASE q # r /\ req[q].pc # "idle"
    <3>. DEFINE t == req[q]
    <3>1. StateShape(t) /\ Sees(t) /\ t \in RequestStates /\ t.user \in Users
      BY <1>1 DEF Inv, RequestsSee, RequestStates
    <3>2. PICK o : o = Overtaken(q)
      OBVIOUS
    <3>3. /\ o.pc = t.pc /\ o.kind = t.kind /\ o.user = t.user /\ o.row = t.row
          /\ o.new = t.new /\ o.all = t.all /\ o.known = t.known
      BY <1>1, <3>2 DEF RequestStates
    <3>4. o.clean = (t.clean /\ t.user # u) /\ o.alone = FALSE
      BY <1>1, <3>2 DEF RequestStates
    <3>5. req'[q] = o
      BY <1>3, <2>3, <3>2
    <3>. HIDE DEF Overtaken, t
    <3>6. StateShape(o)
      BY <3>1, <3>3, <3>4 DEF StateShape, Loaded, Syncing
    <3>7. Sees(o)'
      <4>1. (Loaded(t) /\ ~t.new) \/ Syncing(t) => users'[t.user] # NoRow
        BY <3>1 DEF Sees
      <4>2. ASSUME t.clean, t.user # u PROVE SeesUser(o)'
        <5>1. SeesUser(t)
          BY <3>1, <4>2 DEF Sees
        <5>2. users'[t.user] = users[t.user] /\ user_roles'[t.user] = user_roles[t.user]
          BY <3>1, <4>2
        <5>. QED
          BY <3>3, <5>1, <5>2 DEF SeesUser, RoleIds, Syncing
      <4>. QED
        BY <3>3, <3>4, <4>1, <4>2 DEF Sees, Loaded, Syncing
    <3>. QED
      BY <3>5, <3>6, <3>7 DEF StateShape, Sees, SeesUser, SeesAdmins, Loaded, Syncing
  <2>. QED
    BY <2>1, <2>2, <2>3
<1>. QED
  BY <1>4, <1>5 DEF RequestsSee

-----------------------------------------------------------------------------
(* Requests that begin.                                                    *)

LEMMA MoveInv ==
  ASSUME Inv, RequestsSee', req' \in [Requests -> RequestStates],
         UNCHANGED <<tables, session, expired, history>>,
         drawn' \in drawn..MaxTokens, requests' \in 0..MaxRequests,
         faults' \in 0..MaxFaults
  PROVE  Inv'
<1>1. drawn \in 0..MaxTokens /\ MaxTokens \in Nat /\ expired \subseteq 1..drawn
  BY AccountsAssumption DEF Inv, TypeOK, AccountsAssumption
<1>2. drawn' \in 0..MaxTokens /\ expired' \subseteq 1..drawn'
  BY <1>1
<1>3. TypeOK'
  BY <1>2 DEF Inv, TypeOK, tables, history
<1>4. \A u \in Users : RolesOf(u)'
  BY DEF Inv, RolesOf, RoleIds, tables, history
<1>. QED
  BY <1>3, <1>4 DEF Inv

(* The state of a request that has begun.                                  *)
Fresh(s, pc, kind, u, row, new, all) ==
  /\ s \in RequestStates
  /\ s.pc = pc /\ s.kind = kind /\ s.user = u /\ s.row = row /\ s.new = new
  /\ s.all = all /\ s.clean /\ s.alone

LEMMA FreshInv ==
  ASSUME Inv, NEW r \in Requests, NEW s \in RequestStates, StateShape(s), Sees(s),
         Goes(r, s), requests < MaxRequests, requests' = requests + 1,
         drawn' \in drawn..MaxTokens,
         UNCHANGED <<tables, session, expired, history, faults>>
  PROVE  Inv'
<1>1. RequestsSee' /\ req' \in [Requests -> RequestStates]
  BY MoveKept DEF tables
<1>2. requests' \in 0..MaxRequests /\ faults' \in 0..MaxFaults
  BY AccountsAssumption DEF Inv, TypeOK, AccountsAssumption
<1>. QED
  BY <1>1, <1>2, MoveInv

LEMMA RowUpdated ==
  ASSUME NEW row \in Rows, NEW primary \in Roles, NEW active \in BOOLEAN,
         NEW token \in {0} \cup Tokens
  PROVE  /\ [row EXCEPT !.primary = primary, !.active = active] \in Rows
         /\ [row EXCEPT !.primary = primary, !.active = active].primary = primary
         /\ NewRow(primary, active) \in Rows
         /\ NewRow(primary, active).primary = primary
         /\ [row EXCEPT !.token = token] \in Rows
         /\ [row EXCEPT !.token = token].primary = row.primary
         /\ [row EXCEPT !.active = active] \in Rows
         /\ [row EXCEPT !.active = active].primary = row.primary
         /\ Trashed(row) \in Rows
         /\ Trashed(row).primary = row.primary
BY DEF Rows, NewRow, Trashed

LEMMA LiveRow ==
  ASSUME Inv, NEW u \in Users, Live(u)
  PROVE  users[u] \in Rows /\ users[u] # NoRow
BY DEF Inv, TypeOK, Live

LEMMA RolesAreRoles == Inv => roles \subseteq Roles
BY DEF Inv, TypeOK

(* What a handler posts for a user that is there.                          *)
LEMMA SaveActionInv ==
  ASSUME Inv, NEW r \in Requests, NEW u \in Users, SaveAction(r, u)
  PROVE  Inv'
<1>1. PICK all \in PostedRoles, active \in BOOLEAN : \E primary \in all :
        Goes(r, [Idle EXCEPT
          !.pc = "save", !.kind = "edit", !.user = u, !.all = all,
          !.row = [users[u] EXCEPT !.primary = primary, !.active = active]])
  BY DEF SaveAction
<1>2. PICK primary \in all :
        Goes(r, [Idle EXCEPT
          !.pc = "save", !.kind = "edit", !.user = u, !.all = all,
          !.row = [users[u] EXCEPT !.primary = primary, !.active = active]])
  BY <1>1
<1>. DEFINE row == [users[u] EXCEPT !.primary = primary, !.active = active]
            s == [Idle EXCEPT !.pc = "save", !.kind = "edit", !.user = u,
                              !.all = all, !.row = row]
<1>3. all \subseteq Roles /\ users[u] \in Rows /\ users[u] # NoRow
  BY LiveRow, RolesAreRoles DEF PostedRoles, SaveAction
<1>4. row \in Rows /\ row.primary = primary
  BY <1>3 DEF Rows
<1>. HIDE DEF row
<1>5. Goes(r, s) /\ Fresh(s, "save", "edit", u, row, FALSE, all)
  <2>1. Goes(r, s)
    BY <1>2 DEF row
  <2>2. Fresh(s, "save", "edit", u, row, FALSE, all)
    BY <1>3, <1>4, IdleState DEF Fresh, RequestStates, Kinds
  <2>. QED
    BY <2>1, <2>2
<1>. HIDE DEF s
<1>6. s \in RequestStates /\ StateShape(s) /\ Sees(s)
  BY <1>3, <1>4, <1>5 DEF Fresh, StateShape, Sees, SeesUser, SeesAdmins, Loaded,
     Syncing, WithRoleSet
<1>7. drawn' \in drawn..MaxTokens
  BY DEF Inv, TypeOK, SaveAction
<1>. QED
  BY <1>3, <1>4, <1>5, <1>6, <1>7, FreshInv DEF SaveAction, Kinds

LEMMA CreateActionInv ==
  ASSUME Inv, NEW r \in Requests, NEW u \in Users, CreateAction(r, u)
  PROVE  Inv'
<1>1. PICK all \in PostedRoles, active \in BOOLEAN : \E primary \in all :
        Goes(r, [Idle EXCEPT
          !.pc = "save", !.kind = "create", !.user = u, !.all = all,
          !.new = TRUE, !.row = NewRow(primary, active)])
  BY DEF CreateAction
<1>2. PICK primary \in all :
        Goes(r, [Idle EXCEPT
          !.pc = "save", !.kind = "create", !.user = u, !.all = all,
          !.new = TRUE, !.row = NewRow(primary, active)])
  BY <1>1
<1>. DEFINE row == NewRow(primary, active)
            s == [Idle EXCEPT !.pc = "save", !.kind = "create", !.user = u,
                              !.all = all, !.new = TRUE, !.row = row]
<1>3. all \subseteq Roles
  BY RolesAreRoles DEF PostedRoles
<1>4. row \in Rows /\ row.primary = primary
  BY <1>3 DEF Rows, NewRow
<1>. HIDE DEF row
<1>5. Goes(r, s) /\ Fresh(s, "save", "create", u, row, TRUE, all)
  <2>1. Goes(r, s)
    BY <1>2 DEF row
  <2>2. Fresh(s, "save", "create", u, row, TRUE, all)
    BY <1>3, <1>4, IdleState DEF Fresh, RequestStates, Kinds
  <2>. QED
    BY <2>1, <2>2
<1>. HIDE DEF s
<1>6. s \in RequestStates /\ StateShape(s) /\ Sees(s)
  BY <1>3, <1>4, <1>5 DEF Fresh, StateShape, Sees, SeesUser, SeesAdmins, Loaded,
     Syncing, WithRoleSet
<1>7. drawn' \in drawn..MaxTokens
  BY DEF Inv, TypeOK, CreateAction
<1>. QED
  BY <1>3, <1>4, <1>5, <1>6, <1>7, FreshInv DEF CreateAction, Kinds

LEMMA SignUpInv ==
  ASSUME Inv, NEW r \in Requests, NEW u \in Users, SignUp(r, u)
  PROVE  Inv'
<1>1. PICK primary \in Roles \ {Admin} :
        Goes(r, [Idle EXCEPT !.pc = "save", !.kind = "signUp", !.user = u,
                             !.new = TRUE, !.row = NewRow(primary, TRUE)])
  BY DEF SignUp
<1>. DEFINE row == NewRow(primary, TRUE)
            s == [Idle EXCEPT !.pc = "save", !.kind = "signUp", !.user = u,
                              !.new = TRUE, !.row = row]
<1>2. row \in Rows
  BY DEF Rows, NewRow
<1>. HIDE DEF row
<1>3. Goes(r, s) /\ Fresh(s, "save", "signUp", u, row, TRUE, {})
  <2>1. Goes(r, s)
    BY <1>1 DEF row
  <2>2. Fresh(s, "save", "signUp", u, row, TRUE, {})
    BY <1>2, IdleState DEF Fresh, RequestStates, Kinds
  <2>. QED
    BY <2>1, <2>2
<1>. HIDE DEF s
<1>4. s \in RequestStates /\ StateShape(s) /\ Sees(s)
  BY <1>2, <1>3 DEF Fresh, StateShape, Sees, SeesUser, SeesAdmins, Loaded,
     Syncing, WithRoleSet
<1>5. drawn' \in drawn..MaxTokens
  BY DEF Inv, TypeOK, SignUp
<1>. QED
  BY <1>2, <1>3, <1>4, <1>5, FreshInv DEF SignUp, Kinds

(* Handlers that begin with the row as it is, or with a change of it that  *)
(* leaves its primary role.                                                *)
LEMMA BeginInv ==
  ASSUME Inv, NEW r \in Requests, NEW u \in Users, Live(u), NEW row \in Rows,
         row.primary = users[u].primary,
         NEW pc \in {"guard", "save"}, NEW kind \in Kinds,
         NEW token \in {0} \cup Tokens,
         pc = "guard" =>
           row = users[u] /\ kind \in {"provision", "deactivate", "delete"},
         pc = "save" => kind \in {"profile", "send", "reset"},
         Goes(r, [Idle EXCEPT !.pc = pc, !.kind = kind, !.user = u, !.row = row,
                              !.token = token]),
         requests < MaxRequests, requests' = requests + 1,
         drawn' \in drawn..MaxTokens,
         UNCHANGED <<tables, session, expired, history, faults>>
  PROVE  Inv'
<1>. DEFINE s == [Idle EXCEPT !.pc = pc, !.kind = kind, !.user = u, !.row = row,
                              !.token = token]
<1>1. users[u] # NoRow
  BY LiveRow
<1>2. Goes(r, s) /\ Fresh(s, pc, kind, u, row, FALSE, {})
  <2>1. Goes(r, s)
    OBVIOUS
  <2>2. Fresh(s, pc, kind, u, row, FALSE, {})
    BY IdleState DEF Fresh, RequestStates, Kinds
  <2>. QED
    BY <2>1, <2>2
<1>. HIDE DEF s
<1>3. s \in RequestStates /\ StateShape(s) /\ Sees(s)
  BY <1>1, <1>2 DEF Fresh, StateShape, Sees, SeesUser, SeesAdmins, Loaded,
     Syncing, WithRoleSet
<1>. QED
  BY <1>2, <1>3, FreshInv

LEMMA GuardedBeginInv ==
  ASSUME Inv, NEW r \in Requests, NEW u \in Users, Live(u),
         NEW kind \in {"provision", "deactivate", "delete"},
         Begin(r, kind, u, "guard", users[u]), UNCHANGED drawn
  PROVE  Inv'
<1>1. users[u] \in Rows
  BY LiveRow
<1>2. Goes(r, [Idle EXCEPT !.pc = "guard", !.kind = kind, !.user = u,
                           !.row = users[u], !.token = 0])
  BY IdleState DEF Begin, RequestStates
<1>3. drawn' \in drawn..MaxTokens
  BY DEF Inv, TypeOK
<1>. QED
  BY <1>1, <1>2, <1>3, BeginInv, ZenonT(60) DEF Begin, Kinds

LEMMA ProvisionInv ==
  ASSUME Inv, NEW r \in Requests, NEW u \in Users, Provision(r, u)
  PROVE  Inv'
<1>1. CASE Live(u)
  BY <1>1, GuardedBeginInv DEF Provision
<1>2. CASE ~Live(u)
  <2>0. /\ requests < MaxRequests /\ requests' = requests + 1
        /\ UNCHANGED <<tables, session, drawn, expired, history, faults>>
    BY <1>2 DEF Provision
  <2>1. PICK all \in PostedRoles, active \in BOOLEAN : \E primary \in all :
          /\ Admin \notin all
          /\ Goes(r, [Idle EXCEPT
               !.pc = "save", !.kind = "provision", !.user = u, !.all = all,
               !.new = TRUE, !.row = NewRow(primary, active)])
    BY <1>2 DEF Provision
  <2>2. PICK primary \in all :
          /\ Admin \notin all
          /\ Goes(r, [Idle EXCEPT
               !.pc = "save", !.kind = "provision", !.user = u, !.all = all,
               !.new = TRUE, !.row = NewRow(primary, active)])
    BY <2>1
  <2>. DEFINE row == NewRow(primary, active)
              s == [Idle EXCEPT !.pc = "save", !.kind = "provision", !.user = u,
                                !.all = all, !.new = TRUE, !.row = row]
  <2>3. all \subseteq Roles
    BY RolesAreRoles DEF PostedRoles
  <2>4. row \in Rows /\ row.primary = primary
    BY <2>3 DEF Rows, NewRow
  <2>. HIDE DEF row
  <2>5. Goes(r, s) /\ Fresh(s, "save", "provision", u, row, TRUE, all)
    <3>1. Goes(r, s)
      BY <2>2 DEF row
    <3>2. Fresh(s, "save", "provision", u, row, TRUE, all)
      BY <2>3, <2>4, IdleState DEF Fresh, RequestStates, Kinds
    <3>. QED
      BY <3>1, <3>2
  <2>. HIDE DEF s
  <2>6. s \in RequestStates /\ StateShape(s) /\ Sees(s)
    BY <2>2, <2>3, <2>4, <2>5 DEF Fresh, StateShape, Sees, SeesUser, SeesAdmins, Loaded,
       Syncing, WithRoleSet
  <2>7. drawn' \in drawn..MaxTokens
    BY <2>0 DEF Inv, TypeOK
  <2>. QED
    BY <2>0, <2>3, <2>4, <2>5, <2>6, <2>7, FreshInv DEF Kinds
<1>. QED
  BY <1>1, <1>2

LEMMA LinksInv ==
  ASSUME Inv, NEW r \in Requests, NEW u \in Users,
         UpdateProfile(r, u) \/ SendLink(r, u) \/ UseLink(r, u)
  PROVE  Inv'
<1>1. users[u] \in Rows /\ Live(u)
  BY LiveRow DEF UpdateProfile, SendLink, UseLink
<1>2. CASE UpdateProfile(r, u)
  <2>1. Goes(r, [Idle EXCEPT !.pc = "save", !.kind = "profile", !.user = u,
                             !.row = users[u], !.token = 0])
    BY <1>2, IdleState DEF UpdateProfile, Begin, RequestStates
  <2>2. drawn' \in drawn..MaxTokens
    BY <1>2 DEF Inv, TypeOK, UpdateProfile
  <2>. QED
    BY <1>1, <1>2, <2>1, <2>2, BeginInv DEF UpdateProfile, Begin, Kinds
<1>3. CASE SendLink(r, u)
  <2>. DEFINE row == [users[u] EXCEPT !.token = drawn + 1]
  <2>1. drawn + 1 \in Tokens /\ drawn' \in drawn..MaxTokens
    BY <1>3, AccountsAssumption DEF Inv, TypeOK, SendLink, Tokens, AccountsAssumption
  <2>2. row \in Rows /\ row.primary = users[u].primary
    BY <1>1, <2>1 DEF Rows
  <2>. HIDE DEF row
  <2>3. Goes(r, [Idle EXCEPT !.pc = "save", !.kind = "send", !.user = u,
                             !.row = row, !.token = 0])
    BY <1>3, IdleState DEF SendLink, Begin, RequestStates, row
  <2>. QED
    BY <1>1, <1>3, <2>1, <2>2, <2>3, BeginInv DEF SendLink, Begin, Kinds
<1>4. CASE UseLink(r, u)
  <2>. DEFINE row == Cleared(users[u])
  <2>1. row \in Rows /\ row.primary = users[u].primary /\ users[u].token \in {0} \cup Tokens
    BY <1>1 DEF Cleared, Rows
  <2>. HIDE DEF row
  <2>2. Goes(r, [Idle EXCEPT !.pc = "save", !.kind = "reset", !.user = u,
                             !.row = row, !.token = users[u].token])
    BY <1>4 DEF UseLink, row
  <2>3. drawn' \in drawn..MaxTokens
    BY <1>4 DEF Inv, TypeOK, UseLink
  <2>4. /\ requests < MaxRequests /\ requests' = requests + 1
        /\ UNCHANGED <<tables, session, expired, history, faults>>
    BY <1>4 DEF UseLink
  <2>5. users[u].token \in {0} \cup Tokens /\ "reset" \in Kinds
    BY <2>1 DEF Kinds
  <2>. QED
    BY <1>1, <2>1, <2>2, <2>3, <2>4, <2>5, BeginInv
<1>. QED
  BY <1>2, <1>3, <1>4

LEMMA DeleteRoleInv ==
  ASSUME Inv, NEW r \in Requests, NEW role \in Roles, DeleteRole(r, role)
  PROVE  Inv'
<1>. DEFINE u == Idle.user
            s == [Idle EXCEPT !.pc = "drop", !.kind = "deleteRole", !.all = {role}]
<1>1. u \in Users
  BY IdleState DEF RequestStates
<1>. HIDE DEF u
<1>2. Goes(r, s) /\ Fresh(s, "drop", "deleteRole", u, NoRow, FALSE, {role})
  <2>1. Goes(r, s)
    BY DEF DeleteRole
  <2>2. Fresh(s, "drop", "deleteRole", u, NoRow, FALSE, {role})
    BY <1>1, IdleState DEF Fresh, RequestStates, Kinds, u
  <2>. QED
    BY <2>1, <2>2
<1>. HIDE DEF s
<1>3. s \in RequestStates /\ StateShape(s) /\ Sees(s)
  BY <1>1, <1>2 DEF Fresh, StateShape, Sees, SeesUser, SeesAdmins, Loaded,
     Syncing, WithRoleSet
<1>4. drawn' \in drawn..MaxTokens
  BY DEF Inv, TypeOK, DeleteRole
<1>. QED
  BY <1>1, <1>2, <1>3, <1>4, FreshInv DEF DeleteRole, Kinds

-----------------------------------------------------------------------------
(* Requests that go on.                                                    *)

(* A request goes on, or ends, and nothing else changes.                   *)
LEMMA StepInv ==
  ASSUME Inv, NEW r \in Requests, NEW s \in RequestStates, StateShape(s), Sees(s),
         Goes(r, s), UNCHANGED <<tables, session, drawn, expired, history, requests>>,
         faults' \in 0..MaxFaults
  PROVE  Inv'
<1>1. RequestsSee' /\ req' \in [Requests -> RequestStates]
  BY MoveKept DEF tables
<1>2. drawn' \in drawn..MaxTokens /\ requests' \in 0..MaxRequests
  BY DEF Inv, TypeOK
<1>. QED
  BY <1>1, <1>2, MoveInv

LEMMA GoesIdleInv ==
  ASSUME Inv, NEW r \in Requests, Goes(r, Idle),
         UNCHANGED <<tables, session, drawn, expired, history, requests>>,
         faults' \in 0..MaxFaults
  PROVE  Inv'
BY IdleState, IdleSees, StepInv

LEMMA RequestTyped ==
  ASSUME Inv, NEW r \in Requests
  PROVE  /\ req[r] \in RequestStates /\ req[r].user \in Users
         /\ StateShape(req[r]) /\ Sees(req[r]) /\ faults \in 0..MaxFaults
BY DEF Inv, TypeOK, RequestsSee, RequestStates

LEMMA GuardProvisionInv ==
  ASSUME Inv, NEW r \in Requests, GuardProvision(r)
  PROVE  Inv'
<1>. DEFINE t == req[r]
            u == t.user
<1>1. /\ t \in RequestStates /\ u \in Users /\ StateShape(t) /\ Sees(t)
      /\ faults \in 0..MaxFaults
  BY RequestTyped
<1>2. /\ t.pc = "guard" /\ t.kind \in {"provision", "deactivate"}
      /\ UNCHANGED <<tables, session, drawn, expired, history, requests, faults>>
  BY DEF GuardProvision
<1>3. t.row \in Rows /\ ~t.new /\ users[u] # NoRow /\ (t.clean => t.row = users[u])
  BY <1>1, <1>2 DEF StateShape, Sees, SeesUser, Loaded
<1>4. t.clean /\ ~HoldsAdmin(t.row, user_roles[u]) => Admin \notin RoleIds(u)
  BY <1>3 DEF HoldsAdmin, RoleIds
<1>5. CASE Goes(r, Idle)
  BY <1>1, <1>2, <1>5, GoesIdleInv
<1>6. CASE /\ ~HoldsAdmin(t.row, user_roles[u])
           /\ t.kind = "deactivate"
           /\ Goes(r, [t EXCEPT !.pc = "save", !.row.active = FALSE])
  <2>. DEFINE row == [t.row EXCEPT !.active = FALSE]
              s == [t EXCEPT !.pc = "save", !.row = row]
  <2>1. row \in Rows /\ row.primary = t.row.primary
    BY <1>3 DEF Rows
  <2>2. Goes(r, s)
    BY <1>6
  <2>. HIDE DEF row
  <2>3. /\ s \in RequestStates /\ s.pc = "save" /\ s.kind = t.kind /\ s.user = u
        /\ s.row = row /\ s.new = t.new /\ s.clean = t.clean /\ s.alone = t.alone
    BY <1>1, <2>1 DEF RequestStates
  <2>. HIDE DEF s, t, u
  <2>4. StateShape(s)
    BY <1>1, <1>3, <1>6, <2>1, <2>3 DEF StateShape, Loaded, Syncing, WithRoleSet
  <2>5. Sees(s)
    BY <1>1, <1>3, <1>4, <1>6, <2>1, <2>3
       DEF Sees, SeesUser, SeesAdmins, Loaded, Syncing, WithRoleSet
  <2>. QED
    BY <1>1, <1>2, <2>2, <2>3, <2>4, <2>5, StepInv
<1>7. CASE /\ ~HoldsAdmin(t.row, user_roles[u])
           /\ t.kind = "provision"
           /\ \E all \in PostedRoles, active \in BOOLEAN : \E primary \in all :
                /\ Admin \notin all
                /\ Goes(r, [t EXCEPT
                     !.pc = "save", !.all = all,
                     !.row = [t.row EXCEPT !.primary = primary,
                                           !.active = active]])
  <2>1. PICK all \in PostedRoles, active \in BOOLEAN : \E primary \in all :
                /\ Admin \notin all
                /\ Goes(r, [t EXCEPT
                     !.pc = "save", !.all = all,
                     !.row = [t.row EXCEPT !.primary = primary,
                                           !.active = active]])
    BY <1>7
  <2>2. PICK primary \in all :
                /\ Admin \notin all
                /\ Goes(r, [t EXCEPT
                     !.pc = "save", !.all = all,
                     !.row = [t.row EXCEPT !.primary = primary,
                                           !.active = active]])
    BY <2>1
  <2>. DEFINE row == [t.row EXCEPT !.primary = primary, !.active = active]
              s == [t EXCEPT !.pc = "save", !.all = all, !.row = row]
  <2>3. all \subseteq Roles
    BY RolesAreRoles DEF PostedRoles
  <2>4. row \in Rows /\ row.primary = primary
    BY <1>3, <2>3 DEF Rows
  <2>5. Goes(r, s)
    BY <2>2
  <2>. HIDE DEF row
  <2>6. /\ s \in RequestStates /\ s.pc = "save" /\ s.kind = t.kind /\ s.user = u
        /\ s.row = row /\ s.new = t.new /\ s.clean = t.clean /\ s.alone = t.alone
        /\ s.all = all
    BY <1>1, <2>3, <2>4 DEF RequestStates
  <2>. HIDE DEF s, t, u
  <2>7. StateShape(s)
    BY <1>1, <1>3, <1>7, <2>2, <2>4, <2>6 DEF StateShape, Loaded, Syncing, WithRoleSet
  <2>8. Sees(s)
    BY <1>1, <1>3, <1>4, <1>7, <2>6
       DEF Sees, SeesUser, SeesAdmins, Loaded, Syncing, WithRoleSet
  <2>. QED
    BY <1>1, <1>2, <2>5, <2>6, <2>7, <2>8, StepInv
<1>. QED
  BY <1>5, <1>6, <1>7 DEF GuardProvision

(* A deletion that finds its user to be no administrator, or another       *)
(* active administrator, may save.                                         *)
LEMMA TrashInv ==
  ASSUME Inv, NEW r \in Requests, req[r].pc \in {"guard", "count"},
         req[r].kind = "delete", NEW known \in SUBSET (Roles \cup Users),
         req[r].alone => \/ Admin \notin RoleIds(req[r].user)
                         \/ \E v \in ActiveAdmins : v # req[r].user,
         Goes(r, [req[r] EXCEPT !.pc = "save", !.known = known,
                                !.row = Trashed(req[r].row)]),
         UNCHANGED <<tables, session, drawn, expired, history, requests, faults>>
  PROVE  Inv'
<1>. DEFINE t == req[r]
            u == t.user
            row == Trashed(t.row)
            s == [t EXCEPT !.pc = "save", !.known = known, !.row = row]
<1>1. /\ t \in RequestStates /\ u \in Users /\ StateShape(t) /\ Sees(t)
      /\ faults \in 0..MaxFaults
  BY RequestTyped
<1>2. t.row \in Rows /\ ~t.new /\ users[u] # NoRow /\ (t.clean => t.row = users[u])
  BY <1>1 DEF StateShape, Sees, SeesUser, Loaded
<1>3. row \in Rows /\ row.primary = t.row.primary
  BY <1>2 DEF Rows, Trashed
<1>4. Goes(r, s)
  OBVIOUS
<1>. HIDE DEF row
<1>5. /\ s \in RequestStates /\ s.pc = "save" /\ s.kind = t.kind /\ s.user = u
      /\ s.row = row /\ s.new = t.new /\ s.clean = t.clean /\ s.alone = t.alone
  BY <1>1, <1>3 DEF RequestStates
<1>6. t.kind = "delete" /\ (t.alone => \/ Admin \notin RoleIds(u)
                                       \/ \E v \in ActiveAdmins : v # u)
  OBVIOUS
<1>. HIDE DEF s, t, u
<1>7. StateShape(s)
  BY <1>1, <1>2, <1>3, <1>5, <1>6 DEF StateShape, Loaded, Syncing, WithRoleSet
<1>8. Sees(s)
  BY <1>1, <1>2, <1>3, <1>5, <1>6
     DEF Sees, SeesUser, SeesAdmins, Loaded, Syncing, WithRoleSet
<1>. QED
  BY <1>1, <1>4, <1>5, <1>7, <1>8, StepInv

LEMMA ReadHoldersInv ==
  ASSUME Inv, NEW r \in Requests, ReadHolders(r)
  PROVE  Inv'
<1>. DEFINE t == req[r]
            u == t.user
<1>1. /\ t \in RequestStates /\ u \in Users /\ StateShape(t) /\ Sees(t)
      /\ faults \in 0..MaxFaults
  BY RequestTyped
<1>2. /\ t.pc = "guard" /\ t.kind = "delete"
      /\ UNCHANGED <<tables, session, drawn, expired, history, requests, faults>>
  BY DEF ReadHolders
<1>3. t.row \in Rows /\ ~t.new /\ users[u] # NoRow /\ (t.clean => t.row = users[u])
      /\ (t.alone => t.clean)
  BY <1>1, <1>2 DEF StateShape, Sees, SeesUser, Loaded
<1>4. CASE HoldsAdmin(t.row, user_roles[u])
  <2>. DEFINE s == [t EXCEPT !.pc = "count", !.known = Holders]
  <2>1. Goes(r, s)
    BY <1>4 DEF ReadHolders, Holders
  <2>2. Holders \in SUBSET (Roles \cup Users)
    BY DEF Holders
  <2>3. /\ s \in RequestStates /\ s.pc = "count" /\ s.kind = t.kind /\ s.user = u
        /\ s.row = t.row /\ s.new = t.new /\ s.clean = t.clean /\ s.alone = t.alone
        /\ s.known = Holders
    BY <1>1, <2>2 DEF RequestStates
  <2>. HIDE DEF s, t, u
  <2>4. StateShape(s)
    BY <1>1, <1>2, <1>3, <2>3 DEF StateShape, Loaded, Syncing, WithRoleSet
  <2>5. Sees(s)
    BY <1>1, <1>2, <1>3, <2>3 DEF Sees, SeesUser, SeesAdmins, Loaded, Syncing
  <2>. QED
    BY <1>1, <1>2, <2>1, <2>3, <2>4, <2>5, StepInv
<1>5. CASE ~HoldsAdmin(t.row, user_roles[u])
  <2>1. t.alone => Admin \notin RoleIds(u)
    BY <1>3, <1>5 DEF HoldsAdmin, RoleIds
  <2>2. Goes(r, [t EXCEPT !.pc = "save", !.row = Trashed(t.row)])
    BY <1>5 DEF ReadHolders
  <2>3. t.known \in SUBSET (Roles \cup Users)
    BY <1>1 DEF RequestStates
  <2>4. [t EXCEPT !.pc = "save", !.row = Trashed(t.row)] =
          [t EXCEPT !.pc = "save", !.known = t.known, !.row = Trashed(t.row)]
    BY <1>1 DEF RequestStates
  <2>. QED
    BY <1>1, <1>2, <2>1, <2>2, <2>3, <2>4, TrashInv
<1>. QED
  BY <1>4, <1>5

LEMMA CountAdminsInv ==
  ASSUME Inv, NEW r \in Requests, CountAdmins(r)
  PROVE  Inv'
<1>. DEFINE t == req[r]
            u == t.user
<1>1. /\ t \in RequestStates /\ u \in Users /\ StateShape(t) /\ Sees(t)
      /\ faults \in 0..MaxFaults
  BY RequestTyped
<1>2. /\ t.pc = "count" /\ t.kind = "delete"
      /\ UNCHANGED <<tables, session, drawn, expired, history, requests, faults>>
  BY DEF CountAdmins
<1>3. CASE OtherActiveAdmins(u, t.known) = {}
  <2>1. Goes(r, Idle)
    BY <1>3 DEF CountAdmins
  <2>. QED
    BY <1>1, <1>2, <2>1, GoesIdleInv
<1>4. CASE OtherActiveAdmins(u, t.known) # {}
  <2>1. t.alone => \E v \in ActiveAdmins : v # u
    <3>1. SUFFICES ASSUME t.alone PROVE \E v \in ActiveAdmins : v # u
      OBVIOUS
    <3>2. t.known = Holders
      BY <1>1, <1>2, <3>1 DEF Sees, SeesAdmins
    <3>3. PICK v \in Users \ {u} :
            /\ Live(v) /\ users[v].active
            /\ users[v].primary = Admin \/ v \in t.known
      BY <1>4 DEF OtherActiveAdmins
    <3>. QED
      BY <3>2, <3>3 DEF ActiveAdmins, Holders, Live
  <2>2. Goes(r, [t EXCEPT !.pc = "save", !.known = {}, !.row = Trashed(t.row)])
    BY <1>4 DEF CountAdmins
  <2>3. {} \in SUBSET (Roles \cup Users)
    OBVIOUS
  <2>. QED
    BY <1>1, <1>2, <2>1, <2>2, <2>3, TrashInv
<1>. QED
  BY <1>3, <1>4

LEMMA ReadCurrentInv ==
  ASSUME Inv, NEW r \in Requests, ReadCurrent(r)
  PROVE  Inv'
<1>. DEFINE t == req[r]
            u == t.user
            s == [t EXCEPT !.pc = "sync", !.known = user_roles[u]]
<1>1. /\ t \in RequestStates /\ u \in Users /\ StateShape(t) /\ Sees(t)
      /\ faults \in 0..MaxFaults
  BY RequestTyped
<1>2. /\ t.pc = "current" /\ Goes(r, s)
      /\ UNCHANGED <<tables, session, drawn, expired, history, requests, faults>>
  BY DEF ReadCurrent
<1>3. user_roles[u] \subseteq Roles
  BY <1>1 DEF Inv, TypeOK
<1>4. /\ s \in RequestStates /\ s.pc = "sync" /\ s.kind = t.kind /\ s.user = u
      /\ s.row = t.row /\ s.new = t.new /\ s.clean = t.clean /\ s.alone = t.alone
      /\ s.all = t.all /\ s.known = user_roles[u]
  BY <1>1, <1>3 DEF RequestStates
<1>. HIDE DEF s, t
<1>5. StateShape(s)
  BY <1>1, <1>2, <1>4 DEF StateShape, Loaded, Syncing, WithRoleSet
<1>6. Sees(s)
  BY <1>1, <1>2, <1>4 DEF Sees, SeesUser, SeesAdmins, Loaded, Syncing, StateShape,
                          WithRoleSet
<1>. QED
  BY <1>1, <1>2, <1>4, <1>5, <1>6, StepInv

-----------------------------------------------------------------------------
(* Steps that write.                                                       *)

LEMMA SaveRowWrites ==
  ASSUME Inv, NEW r \in Requests, SaveRow(r)
  PROVE  LET t == req[r]
             u == t.user
         IN /\ t.row \in Rows /\ t.row # NoRow /\ t.row.primary \in roles
            /\ t.new => users[u] = NoRow /\ user_roles[u] = {} /\ posted[u] = {}
            /\ ~t.new => users[u] # NoRow
            /\ users' \in [Users -> Rows \cup {NoRow}] /\ users'[u] = t.row
            /\ \A v \in Users : v # u => users'[v] = users[v]
<1>. DEFINE t == req[r]
            u == t.user
<1>1. /\ t \in RequestStates /\ u \in Users /\ StateShape(t) /\ Sees(t)
  BY RequestTyped
<1>2. /\ t.pc = "save" /\ ~Refused(r) /\ users' = [users EXCEPT ![u] = t.row]
  BY DEF SaveRow
<1>3. t.row \in Rows /\ t.row # NoRow /\ t.row.primary \in roles
  BY <1>1, <1>2, AccountsAssumption
     DEF StateShape, Loaded, Refused, AccountsAssumption
<1>4. (t.new => users[u] = NoRow) /\ (~t.new => users[u] # NoRow)
  BY <1>1, <1>2 DEF Sees, Loaded, Refused
<1>5. users[u] = NoRow => user_roles[u] = {} /\ posted[u] = {}
  BY <1>1 DEF Inv, RolesOf
<1>6. users \in [Users -> Rows \cup {NoRow}]
  BY DEF Inv, TypeOK
<1>7. /\ users' \in [Users -> Rows \cup {NoRow}] /\ users'[u] = t.row
      /\ \A v \in Users : v # u => users'[v] = users[v]
  BY <1>1, <1>2, <1>3, <1>6
<1>. QED
  BY <1>3, <1>4, <1>5, <1>7

LEMMA SaveRowSees ==
  ASSUME Inv, NEW r \in Requests, SaveRow(r)
  PROVE  RequestsSee' /\ req' \in [Requests -> RequestStates]
<1>. DEFINE t == req[r]
            u == t.user
            next == IF t.kind \in WithRoleSet
                      THEN [t EXCEPT !.pc = "current", !.row = NoRow] ELSE Idle
<1>1. /\ t \in RequestStates /\ u \in Users /\ StateShape(t) /\ Sees(t)
  BY RequestTyped
<1>2. t.pc = "save" /\ Writes(r, u, next) /\ user_roles' = user_roles
  BY DEF SaveRow
<1>3. /\ t.row \in Rows /\ t.row # NoRow
      /\ t.new => user_roles[u] = {}
      /\ users' \in [Users -> Rows \cup {NoRow}] /\ users'[u] = t.row
      /\ \A v \in Users : v # u => users'[v] = users[v]
  BY SaveRowWrites
<1>4. users[u] # NoRow => users'[u] # NoRow
  BY <1>3
<1>5. \A v \in Users : v # u => users'[v] = users[v] /\ user_roles'[v] = user_roles[v]
  BY <1>2, <1>3
<1>6. PICK s : s = next
  OBVIOUS
<1>7. s \in RequestStates /\ StateShape(s) /\ Sees(s)'
  <2>1. CASE t.kind \in WithRoleSet
    <3>1. /\ s \in RequestStates /\ s.pc = "current" /\ s.kind = t.kind
          /\ s.user = u /\ s.new = t.new /\ s.clean = t.clean /\ s.alone = t.alone
          /\ s.all = t.all
      BY <1>1, <1>6, <2>1 DEF RequestStates
    <3>. HIDE DEF next
    <3>2. StateShape(s)
      <4>. HIDE DEF t
      <4>. QED
        BY <1>1, <1>2, <2>1, <3>1 DEF StateShape, Loaded, Syncing
    <3>3. t.row.primary \in t.all
      BY <1>1, <1>2, <2>1 DEF StateShape
    <3>4. t.clean /\ t.kind = "provision" => Admin \notin user_roles[u]
      BY <1>1, <1>2, <1>3 DEF Sees, SeesUser, RoleIds
    <3>5. users'[u] # NoRow /\ users'[u].primary \in t.all
      BY <1>3, <3>3
    <3>6. SeesUser(s)' \/ ~s.clean
      BY <1>2, <3>1, <3>4, <3>5 DEF SeesUser, Syncing
    <3>7. s.kind # "delete"
      BY <2>1, <3>1 DEF WithRoleSet
    <3>8. Sees(s)'
      BY <3>1, <3>5, <3>6, <3>7 DEF Sees, Loaded, Syncing
    <3>. QED
      BY <3>1, <3>2, <3>8
  <2>2. CASE t.kind \notin WithRoleSet
    <3>1. s = Idle
      BY <1>6, <2>2
    <3>. QED
      BY <3>1, IdleState DEF StateShape, Sees, SeesUser, SeesAdmins, Loaded, Syncing
  <2>. QED
    BY <2>1, <2>2
<1>8. Writes(r, u, s)
  BY <1>2, <1>6
<1>. HIDE DEF next, t, u
<1>. QED
  BY <1>1, <1>3, <1>4, <1>5, <1>7, <1>8, WriteKept

LEMMA SaveRowInv ==
  ASSUME Inv, NEW r \in Requests, SaveRow(r)
  PROVE  Inv'
<1>. DEFINE t == req[r]
            u == t.user
<1>1. /\ t \in RequestStates /\ u \in Users /\ StateShape(t) /\ Sees(t)
      /\ t.token \in {0} \cup Tokens
  BY RequestTyped DEF RequestStates
<1>2. /\ t.pc = "save"
      /\ UNCHANGED <<user_roles, roles, session, drawn, expired, requests, faults>>
  BY DEF SaveRow
<1>3. /\ t.row \in Rows /\ t.row # NoRow /\ t.row.primary \in roles
      /\ t.new => posted[u] = {}
      /\ users' \in [Users -> Rows \cup {NoRow}] /\ users'[u] = t.row
      /\ \A v \in Users : v # u => users'[v] = users[v]
  BY SaveRowWrites
<1>4. /\ posted \in [Users -> SUBSET Roles] /\ sent \in [Users -> 0..MaxTokens]
      /\ used \subseteq {0} \cup Tokens /\ restored \subseteq Tokens
  BY DEF Inv, TypeOK
<1>5. posted' = IF t.kind \in WithRoleSet \/ ~t.clean
                  THEN [posted EXCEPT ![u] = {}] ELSE posted
  BY DEF SaveRow
<1>6. /\ sent' = IF t.kind = "send" THEN [sent EXCEPT ![u] = t.row.token] ELSE sent
      /\ used' = IF t.kind = "reset" THEN used \cup {t.token} ELSE used
      /\ restored' \in {restored, restored \cup {t.row.token}}
      /\ t.row.token # 0 \/ restored' = restored
  BY DEF SaveRow, BringsBack
<1>7. t.row.token \in 0..MaxTokens /\ t.row.token \in {0} \cup Tokens
  BY <1>3, AccountsAssumption DEF Rows, Tokens, AccountsAssumption
<1>. HIDE DEF t, u
<1>8. sent' \in [Users -> 0..MaxTokens] /\ used' \subseteq {0} \cup Tokens
      /\ restored' \subseteq Tokens
  BY <1>1, <1>4, <1>6, <1>7
<1>9. posted' \in [Users -> SUBSET Roles] /\ \A v \in Users : v # u => posted'[v] = posted[v]
  BY <1>1, <1>4, <1>5
<1>10. \A v \in Users : users'[v] # NoRow => users'[v].primary \in roles
  BY <1>1, <1>3 DEF Inv, TypeOK
<1>11. RequestsSee' /\ req' \in [Requests -> RequestStates]
  BY SaveRowSees
<1>12. TypeOK'
  BY <1>2, <1>3, <1>8, <1>9, <1>10, <1>11 DEF Inv, TypeOK
<1>13. ASSUME NEW v \in Users PROVE RolesOf(v)'
  <2>1. RolesOf(v)
    BY DEF Inv
  <2>2. CASE v # u
    BY <1>2, <1>3, <1>9, <2>1, <2>2 DEF RolesOf, RoleIds
  <2>3. CASE v = u
    <3>1. CASE posted'[u] = {}
      BY <1>3, <2>3, <3>1 DEF RolesOf
    <3>2. CASE posted'[u] # {}
      <4>1. /\ t.kind \notin WithRoleSet /\ t.clean /\ posted'[u] = posted[u]
            /\ ~t.new
        BY <1>1, <1>3, <1>4, <1>5, <3>2
      <4>2. t.row.primary = users[v].primary
        BY <1>1, <1>2, <2>3, <4>1 DEF Sees, SeesUser, u
      <4>3. RoleIds(v)' = RoleIds(v) /\ users'[v] # NoRow /\ posted'[v] = posted[v]
        BY <1>2, <1>3, <2>3, <4>1, <4>2 DEF RoleIds
      <4>. QED
        BY <2>1, <2>3, <3>2, <4>1, <4>3 DEF RolesOf
    <3>. QED
      BY <3>1, <3>2
  <2>. QED
    BY <2>2, <2>3
<1>. QED
  BY <1>11, <1>12, <1>13 DEF Inv

LEMMA SyncForUserInv ==
  ASSUME Inv, NEW r \in Requests, SyncForUser(r)
  PROVE  Inv'
<1>. DEFINE t == req[r]
            u == t.user
            missing == t.all \ t.known
            held == Synced(user_roles[u], t.all, t.known)
<1>1. /\ t \in RequestStates /\ u \in Users /\ StateShape(t) /\ Sees(t)
      /\ t.all \subseteq Roles /\ faults \in 0..MaxFaults
  BY RequestTyped DEF RequestStates
<1>2. /\ t.pc = "sync"
      /\ UNCHANGED <<users, roles, session, drawn, expired, sent, used, restored,
                     requests, faults>>
  BY DEF SyncForUser
<1>3. users[u] # NoRow /\ (t.clean => t.known = user_roles[u] /\ users[u].primary \in t.all)
  BY <1>1, <1>2 DEF Sees, SeesUser, Syncing
<1>4. user_roles \in [Users -> SUBSET roles] /\ posted \in [Users -> SUBSET Roles]
  BY DEF Inv, TypeOK
<1>5. CASE missing \subseteq roles /\ missing \cap user_roles[u] = {}
  <2>1. /\ user_roles' = [user_roles EXCEPT ![u] = held]
        /\ Writes(r, u, Idle)
        /\ posted' = [posted EXCEPT ![u] = IF t.clean THEN t.all ELSE {}]
    BY <1>5 DEF SyncForUser
  <2>2. held \subseteq roles
    BY <1>1, <1>4, <1>5 DEF Synced
  <2>3. t.clean => held = t.all
    BY <1>3 DEF Synced
  <2>. HIDE DEF held, missing
  <2>4. /\ user_roles' \in [Users -> SUBSET roles] /\ user_roles'[u] = held
        /\ posted' \in [Users -> SUBSET Roles]
        /\ posted'[u] = (IF t.clean THEN t.all ELSE {})
    BY <1>1, <1>4, <2>1, <2>2
  <2>5. \A v \in Users : v # u => user_roles'[v] = user_roles[v] /\ posted'[v] = posted[v]
    BY <1>1, <1>4, <2>1
  <2>. HIDE DEF t, u
  <2>6. RequestsSee' /\ req' \in [Requests -> RequestStates]
    <3>1. StateShape(Idle) /\ Sees(Idle)'
      BY IdleState DEF StateShape, Sees, SeesUser, SeesAdmins, Loaded, Syncing
    <3>2. users' \in [Users -> Rows \cup {NoRow}] /\ users' = users
      BY <1>2 DEF Inv, TypeOK
    <3>. QED
      BY <1>1, <2>1, <2>5, <3>1, <3>2, IdleState, WriteKept
  <2>7. TypeOK'
    BY <1>2, <2>4, <2>6 DEF Inv, TypeOK
  <2>8. ASSUME NEW v \in Users PROVE RolesOf(v)'
    <3>1. RolesOf(v)
      BY DEF Inv
    <3>2. CASE v # u
      BY <1>2, <2>5, <3>1, <3>2 DEF RolesOf, RoleIds
    <3>3. CASE v = u
      BY <1>2, <1>3, <2>3, <2>4, <3>3 DEF RolesOf, RoleIds
    <3>. QED
      BY <3>2, <3>3
  <2>. QED
    BY <2>6, <2>7, <2>8 DEF Inv
<1>6. CASE ~(missing \subseteq roles /\ missing \cap user_roles[u] = {})
  <2>1. Goes(r, Idle) /\ UNCHANGED <<user_roles, posted>>
    BY <1>6 DEF SyncForUser
  <2>2. UNCHANGED <<tables, session, drawn, expired, history, requests>>
    BY <1>2, <2>1 DEF tables, history
  <2>. QED
    BY <1>1, <1>2, <2>1, <2>2, GoesIdleInv
<1>. QED
  BY <1>5, <1>6

LEMMA DropRoleInv ==
  ASSUME Inv, NEW r \in Requests, DropRole(r)
  PROVE  Inv'
<1>1. /\ Goes(r, Idle)
      /\ UNCHANGED <<users, user_roles, session, drawn, expired, history, requests,
                     faults>>
  BY DEF DropRole
<1>2. RequestsSee' /\ req' \in [Requests -> RequestStates]
  BY <1>1, IdleState, IdleSees, MoveKept
<1>3. /\ user_roles \in [Users -> SUBSET roles] /\ roles \subseteq Roles
      /\ \A u \in Users : users[u] # NoRow => users[u].primary \in roles
  BY DEF Inv, TypeOK
<1>4. /\ user_roles \in [Users -> SUBSET roles'] /\ roles' \subseteq Roles
      /\ \A u \in Users : users[u] # NoRow => users[u].primary \in roles'
  <2>1. CASE \E role \in req[r].all : Held(role)
    BY <1>3, <2>1 DEF DropRole
  <2>2. CASE ~\E role \in req[r].all : Held(role)
    <3>1. roles' = roles \ req[r].all
      BY <2>2 DEF DropRole
    <3>2. \A u \in Users : /\ user_roles[u] \cap req[r].all = {}
                           /\ users[u] # NoRow => users[u].primary \notin req[r].all
      BY <2>2 DEF Held
    <3>3. \A u \in Users : user_roles[u] \subseteq roles'
      BY <1>3, <3>1, <3>2
    <3>. QED
      BY <1>3, <3>1, <3>2, <3>3
  <2>. QED
    BY <2>1, <2>2
<1>5. TypeOK'
  BY <1>1, <1>2, <1>4 DEF Inv, TypeOK, history
<1>6. \A u \in Users : RolesOf(u)'
  BY <1>1 DEF Inv, RolesOf, RoleIds, history
<1>. QED
  BY <1>2, <1>5, <1>6 DEF Inv

(* Steps of the users and of time, which leave every table alone.          *)
LEMMA ElsewhereInv ==
  ASSUME Inv, UNCHANGED <<tables, drawn, req, history, requests, faults>>,
         session' \in [Users -> SUBSET Roles], expired' \subseteq 1..drawn
  PROVE  Inv'
<1>1. UNCHANGED <<users, user_roles, roles, drawn, req, posted, sent, used, restored,
                  requests, faults>>
  BY DEF tables, history
<1>2. TypeOK'
  BY <1>1 DEF Inv, TypeOK
<1>3. ASSUME NEW r \in Requests PROVE (StateShape(req[r]) /\ Sees(req[r]))'
  BY <1>1 DEF Inv, RequestsSee, StateShape, Sees, SeesUser, SeesAdmins, Holders,
              RoleIds, ActiveAdmins, Loaded, Syncing
<1>4. ASSUME NEW u \in Users PROVE RolesOf(u)'
  BY <1>1 DEF Inv, RolesOf, RoleIds
<1>. QED
  BY <1>2, <1>3, <1>4 DEF Inv, RequestsSee

LEMMA SessionsInv ==
  ASSUME Inv, \/ \E u \in Users : SignIn(u) \/ Logout(u)
              \/ \E t \in Tokens : Expire(t)
  PROVE  Inv'
<1>1. ASSUME NEW u \in Users, SignIn(u) PROVE Inv'
  <2>1. users[u] \in Rows /\ users[u].primary \in Roles /\ user_roles[u] \subseteq Roles
    BY <1>1, LiveRow DEF SignIn, Inv, TypeOK, Rows
  <2>2. session' \in [Users -> SUBSET Roles]
    BY <1>1, <2>1 DEF SignIn, Inv, TypeOK, RoleIds
  <2>3. expired' \subseteq 1..drawn
    BY <1>1 DEF SignIn, Inv, TypeOK
  <2>. QED
    BY <1>1, <2>2, <2>3, ElsewhereInv DEF SignIn
<1>2. ASSUME NEW u \in Users, Logout(u) PROVE Inv'
  <2>1. session' \in [Users -> SUBSET Roles] /\ expired' \subseteq 1..drawn
    BY <1>2 DEF Logout, Inv, TypeOK
  <2>. QED
    BY <1>2, <2>1, ElsewhereInv DEF Logout
<1>3. ASSUME NEW t \in Tokens, Expire(t) PROVE Inv'
  <2>1. session' \in [Users -> SUBSET Roles] /\ expired' \subseteq 1..drawn
    BY <1>3 DEF Expire, Inv, TypeOK
  <2>. QED
    BY <1>3, <2>1, ElsewhereInv DEF Expire
<1>. QED
  BY <1>1, <1>2, <1>3

-----------------------------------------------------------------------------
(* The invariant, and what follows from it.                                *)

LEMMA InvInit == Init => Inv
<1>. SUFFICES ASSUME Init PROVE Inv
  OBVIOUS
<1>. DEFINE first == [primary |-> Admin, active |-> TRUE, deleted |-> FALSE,
                      token |-> 0]
<1>1. first \in Rows /\ first.primary = Admin
  BY AccountsAssumption DEF Rows, AccountsAssumption
<1>. HIDE DEF first
<1>2. /\ users = [u \in Users |-> IF u \in Seeded THEN first ELSE NoRow]
      /\ user_roles = [u \in Users |-> IF u \in Seeded THEN {Admin} ELSE {}]
      /\ roles = Roles /\ posted = [u \in Users |-> {}]
  BY DEF Init, first
<1>3. \A u \in Users : users[u] = NoRow \/ users[u] = first
  BY <1>2
<1>4. \A u \in Users : users[u] # NoRow => users[u].primary \in roles
  BY <1>1, <1>2, <1>3, AccountsAssumption DEF AccountsAssumption
<1>5. users \in [Users -> Rows \cup {NoRow}] /\ user_roles \in [Users -> SUBSET roles]
      /\ posted \in [Users -> SUBSET Roles]
  BY <1>1, <1>2, AccountsAssumption DEF AccountsAssumption
<1>6. /\ session \in [Users -> SUBSET Roles] /\ sent \in [Users -> 0..MaxTokens]
      /\ drawn \in 0..MaxTokens /\ requests \in 0..MaxRequests /\ faults \in 0..MaxFaults
      /\ expired = {} /\ used = {} /\ restored = {}
      /\ req \in [Requests -> RequestStates]
  BY IdleState, AccountsAssumption DEF Init, AccountsAssumption
<1>7. TypeOK
  BY <1>2, <1>4, <1>5, <1>6 DEF TypeOK
<1>8. RequestsSee
  BY IdleSees DEF Init, RequestsSee
<1>9. ASSUME NEW u \in Users PROVE RolesOf(u)
  <2>1. u \in Seeded => users[u] # NoRow
    BY <1>1, <1>2, AccountsAssumption DEF AccountsAssumption
  <2>. QED
    BY <1>2, <2>1 DEF RolesOf
<1>. QED
  BY <1>7, <1>8, <1>9 DEF Inv

LEMMA InvNext == Inv /\ [Next]_vars => Inv'
<1>. SUFFICES ASSUME Inv, [Next]_vars PROVE Inv'
  OBVIOUS
<1>1. ASSUME NEW r \in Requests, NEW u \in Users,
             \/ SaveAction(r, u) \/ CreateAction(r, u) \/ SignUp(r, u)
             \/ Provision(r, u) \/ Deactivate(r, u) \/ DeleteAction(r, u)
             \/ UpdateProfile(r, u) \/ SendLink(r, u) \/ UseLink(r, u)
      PROVE  Inv'
  <2>1. CASE Deactivate(r, u)
    BY <2>1, GuardedBeginInv DEF Deactivate
  <2>2. CASE DeleteAction(r, u)
    BY <2>2, GuardedBeginInv DEF DeleteAction
  <2>. QED
    BY <1>1, <2>1, <2>2, SaveActionInv, CreateActionInv, SignUpInv, ProvisionInv, LinksInv
<1>2. ASSUME NEW r \in Requests, NEW role \in Roles, DeleteRole(r, role) PROVE Inv'
  BY <1>2, DeleteRoleInv
<1>3. ASSUME NEW r \in Requests, GuardProvision(r) \/ ReadHolders(r) \/ CountAdmins(r)
      PROVE  Inv'
  BY <1>3, GuardProvisionInv, ReadHoldersInv, CountAdminsInv
<1>4. ASSUME NEW r \in Requests, SaveRow(r) PROVE Inv'
  BY <1>4, SaveRowInv
<1>5. ASSUME NEW r \in Requests, SaveRefused(r) PROVE Inv'
  BY <1>5, RequestTyped, GoesIdleInv DEF SaveRefused
<1>6. ASSUME NEW r \in Requests, ReadCurrent(r) PROVE Inv'
  BY <1>6, ReadCurrentInv
<1>7. ASSUME NEW r \in Requests, SyncForUser(r) PROVE Inv'
  BY <1>7, SyncForUserInv
<1>8. ASSUME NEW r \in Requests, DropRole(r) PROVE Inv'
  BY <1>8, DropRoleInv
<1>9. ASSUME NEW r \in Requests, Abort(r) PROVE Inv'
  <2>1. faults' \in 0..MaxFaults
    BY <1>9, AccountsAssumption DEF Abort, Inv, TypeOK, AccountsAssumption
  <2>. QED
    BY <1>9, <2>1, GoesIdleInv DEF Abort
<1>10. CASE UNCHANGED vars
  BY <1>10, ElsewhereInv DEF vars, Inv, TypeOK
<1>. QED
  BY <1>1, <1>2, <1>3, <1>4, <1>5, <1>6, <1>7, <1>8, <1>9, <1>10, SessionsInv DEF Next

LEMMA InvHolds == Spec => []Inv
BY InvInit, InvNext, PTL DEF Spec

(* Every state has the types that TypeOK gives: above all, no role that    *)
(* somebody holds, by the users row or by user_roles, is ever deleted.     *)
THEOREM TypeCorrect == Spec => []TypeOK
<1>1. Inv => TypeOK
  BY DEF Inv
<1>. QED
  BY <1>1, InvHolds, PTL

(* A save of a user that no other request on it overlaps ends in exactly   *)
(* the roles that were posted, whatever dead requests and stale saves left *)
(* before it.                                                              *)
THEOREM RolesStayPosted == Spec => []RolesAsPosted
<1>1. Inv => RolesAsPosted
  BY DEF Inv, RolesOf, RolesAsPosted, RoleIds
<1>. QED
  BY <1>1, InvHolds, PTL

(* Provisioning writes to no administrator, whichever of the two tables    *)
(* says that the user is one, unless it became one under the request.      *)
THEOREM AdministratorsSpared == Spec => ProvisioningSparesAdmins
<1>. DEFINE Spared(r) ==
       (/\ req[r].kind \in {"provision", "deactivate"} /\ req[r].clean
        /\ users[req[r].user] # NoRow
        /\ Admin \in user_roles[req[r].user] \cup {users[req[r].user].primary}
        /\ SaveRow(r) \/ SyncForUser(r))
       => UNCHANGED <<users, user_roles>>
<1>1. ASSUME Inv, NEW r \in Requests PROVE Spared(r)
  <2>. SUFFICES ASSUME req[r].kind \in {"provision", "deactivate"}, req[r].clean,
                       users[req[r].user] # NoRow,
                       Admin \in RoleIds(req[r].user),
                       SaveRow(r) \/ SyncForUser(r)
                PROVE  FALSE
    BY DEF RoleIds
  <2>1. StateShape(req[r]) /\ SeesUser(req[r])
    BY <1>1, RequestTyped DEF Sees
  <2>2. CASE SaveRow(r)
    <3>1. req[r].pc = "save" /\ ~req[r].new
      BY <2>2 DEF SaveRow, Refused
    <3>. QED
      BY <2>1, <3>1 DEF SeesUser
  <2>3. CASE SyncForUser(r)
    <3>1. req[r].pc = "sync" /\ req[r].kind = "provision"
      BY <2>1, <2>3 DEF SyncForUser, StateShape, Syncing, WithRoleSet
    <3>. QED
      BY <2>1, <3>1 DEF StateShape, SeesUser, Syncing, RoleIds
  <2>. QED
    BY <2>2, <2>3
<1>2. Inv => \A r \in Requests : Spared(r)
  BY <1>1
<1>. QED
  BY <1>2, InvHolds, PTL DEF ProvisioningSparesAdmins

(* A deletion that no other write overlaps leaves an active administrator. *)
THEOREM AnAdministratorRemains == Spec => AdminRemains
<1>. DEFINE Kept(r) ==
       req[r].kind = "delete" /\ req[r].alone /\ SaveRow(r)
         /\ ActiveAdmins # {} => ActiveAdmins' # {}
<1>1. ASSUME Inv, NEW r \in Requests PROVE Kept(r)
  <2>. SUFFICES ASSUME req[r].kind = "delete", req[r].alone, SaveRow(r),
                       ActiveAdmins # {}
                PROVE  ActiveAdmins' # {}
    OBVIOUS
  <2>. DEFINE u == req[r].user
  <2>1. req[r].pc = "save" /\ user_roles' = user_roles
    BY DEF SaveRow
  <2>2. \/ Admin \notin RoleIds(u)
        \/ \E v \in ActiveAdmins : v # u
    BY <1>1, <2>1, RequestTyped DEF Sees, SeesAdmins
  <2>3. PICK v \in ActiveAdmins : v # u
    <3>1. PICK w \in ActiveAdmins : TRUE
      OBVIOUS
    <3>2. Admin \in RoleIds(w)
      BY DEF ActiveAdmins, RoleIds
    <3>. QED
      BY <2>2, <3>1, <3>2
  <2>4. v \in Users /\ users'[v] = users[v]
    BY <1>1, <2>3, SaveRowWrites DEF ActiveAdmins
  <2>5. v \in ActiveAdmins'
    BY <2>1, <2>4 DEF ActiveAdmins
  <2>. QED
    BY <2>5
<1>2. Inv => \A r \in Requests : Kept(r)
  BY <1>1
<1>. QED
  BY <1>2, InvHolds, PTL DEF AdminRemains

-----------------------------------------------------------------------------
(* Password links.  A token belongs to one user; one that is about to be   *)
(* mailed is nowhere else; and a token that no save from an older row has  *)
(* brought back is in its row only as that of the last link, unused.       *)

(* The tokens that a request has in memory, and those of a user.           *)
InHand(s) == {s.token} \cup (IF Loaded(s) THEN {s.row.token} ELSE {})

Carries(u, k) ==
  \/ users[u] # NoRow /\ users[u].token = k
  \/ \E r \in Requests : req[r].user = u /\ k \in InHand(req[r])

Sending(s) == s.pc = "save" /\ s.kind = "send"

(* A token that is about to be mailed is new.                              *)
Unseen(r) ==
  LET k == req[r].row.token
  IN /\ k # 0 /\ k \notin used
     /\ \A u \in Users : users[u] # NoRow => users[u].token # k
     /\ \A q \in Requests \ {r} : k \notin InHand(req[q])

(* Users that are inserted have no token, and a used link takes it away.   *)
TokenShape(s) ==
  /\ Loaded(s) /\ s.new => s.row.token = 0
  /\ s.pc = "save" /\ s.kind = "reset" => s.row.token = 0

TokensBounded ==
  /\ used \subseteq 0..drawn
  /\ \A u \in Users : users[u] # NoRow => users[u].token \in 0..drawn
  /\ \A r \in Requests : InHand(req[r]) \subseteq 0..drawn

TokensApart ==
  \A u, v \in Users : \A k \in Tokens : Carries(u, k) /\ Carries(v, k) => u = v

TokensSeen ==
  \A r \in Requests :
    /\ Sending(req[r]) => Unseen(r)
    /\ TokenShape(req[r])

LastLink(u) ==
  users[u] # NoRow /\ users[u].token \notin {0} \cup restored =>
    users[u].token = sent[u] /\ users[u].token \notin used

TokenInv ==
  /\ TokensBounded
  /\ TokensApart
  /\ TokensSeen
  /\ \A u \in Users : LastLink(u)

(* The tokens in s are those that the request or its user had before.      *)
From(r, s) ==
  \A k \in InHand(s) :
    \/ k = 0
    \/ s.user = req[r].user /\ k \in InHand(req[r])
    \/ users[s.user] # NoRow /\ k = users[s.user].token

(* q is where it was, with what it had.                                    *)
Follows(q) ==
  /\ req'[q].pc = req[q].pc /\ req'[q].kind = req[q].kind
  /\ req'[q].user = req[q].user /\ req'[q].row = req[q].row
  /\ req'[q].new = req[q].new /\ req'[q].token = req[q].token

LEMMA TokensKept ==
  ASSUME Inv, Inv', TokensBounded, TokensApart, TokensSeen,
         NEW r \in Requests, NEW s \in RequestStates,
         req'[r] = s, From(r, s), ~Sending(s), TokenShape(s)',
         \A q \in Requests : q # r => Follows(q),
         \A v \in Users :
           \/ users'[v] = users[v]
           \/ v = req[r].user /\ users'[v] # NoRow /\ users'[v].token \in InHand(req[r]),
         used' \subseteq used \cup {req[r].token}, drawn' = drawn
  PROVE  TokensBounded' /\ TokensApart' /\ TokensSeen'
<1>1. \A q \in Requests : q # r =>
        /\ InHand(req'[q]) = InHand(req[q]) /\ req'[q].user = req[q].user
        /\ Sending(req'[q]) <=> Sending(req[q])
  BY DEF Follows, InHand, Loaded, Sending
<1>2. /\ \A q \in Requests : req[q].user \in Users /\ req[q].token \in InHand(req[q])
      /\ s.user \in Users /\ drawn \in 0..MaxTokens
  BY DEF Inv, TypeOK, RequestStates, InHand
<1>3. 0 \in 0..drawn
  BY <1>2, AccountsAssumption DEF AccountsAssumption
<1>4. InHand(s) \subseteq 0..drawn
  BY <1>2, <1>3 DEF From, TokensBounded
<1>5. TokensBounded'
  <2>1. \A q \in Requests : InHand(req'[q]) \subseteq 0..drawn
    BY <1>1, <1>4 DEF TokensBounded
  <2>2. \A v \in Users : users'[v] # NoRow => users'[v].token \in 0..drawn
    BY DEF TokensBounded
  <2>3. used' \subseteq 0..drawn
    BY <1>2 DEF TokensBounded
  <2>4. \A q \in Requests : (InHand(req[q]) \subseteq 0..drawn)'
    BY <2>1 DEF InHand, Loaded
  <2>. QED
    BY <2>2, <2>3, <2>4 DEF TokensBounded
<1>6. ASSUME NEW v \in Users, NEW k \in Tokens, Carries(v, k)' PROVE Carries(v, k)
  <2>1. k # 0
    BY AccountsAssumption DEF Tokens, AccountsAssumption
  <2>2. \/ users'[v] # NoRow /\ users'[v].token = k
        \/ \E q \in Requests : req'[q].user = v /\ k \in InHand(req'[q])
    BY <1>6 DEF Carries, InHand, Loaded
  <2>3. CASE users'[v] # NoRow /\ users'[v].token = k
    BY <2>3 DEF Carries
  <2>4. CASE \E q \in Requests : req'[q].user = v /\ k \in InHand(req'[q])
    <3>1. PICK q \in Requests : req'[q].user = v /\ k \in InHand(req'[q])
      BY <2>4
    <3>2. CASE q = r
      BY <2>1, <3>1, <3>2 DEF From, Carries
    <3>3. CASE q # r
      BY <1>1, <3>1, <3>3 DEF Carries
    <3>. QED
      BY <3>2, <3>3
  <2>. QED
    BY <2>2, <2>3, <2>4
<1>7. TokensApart'
  BY <1>6 DEF TokensApart
<1>8. ASSUME NEW q \in Requests PROVE (Sending(req[q]) => Unseen(q))' /\ TokenShape(req[q])'
  <2>1. CASE q = r
    BY <2>1 DEF TokenShape, Sending, Loaded
  <2>2. CASE q # r
    <3>1. Follows(q) /\ TokenShape(req[q])
      BY <2>2 DEF TokensSeen
    <3>2. TokenShape(req[q])'
      BY <3>1 DEF Follows, TokenShape, Loaded
    <3>3. ASSUME Sending(req[q])' PROVE Unseen(q)'
      <4>1. PICK k : k = req[q].row.token
        OBVIOUS
      <4>2. Unseen(q)
        BY <3>1, <3>3 DEF Sending, Follows, TokensSeen
      <4>3. /\ k # 0 /\ k \notin used
            /\ \A u \in Users : users[u] # NoRow => users[u].token # k
            /\ \A p \in Requests \ {q} : k \notin InHand(req[p])
        BY <4>1, <4>2 DEF Unseen
      <4>4. k \notin InHand(req[r])
        BY <2>2, <4>3
      <4>5. k \notin InHand(s)
        BY <1>2, <4>3, <4>4 DEF From
      <4>6. \A p \in Requests \ {q} : k \notin InHand(req'[p])
        BY <1>1, <4>3, <4>5
      <4>7. \A u \in Users : users'[u] # NoRow => users'[u].token # k
        BY <4>3, <4>4
      <4>8. k \notin used'
        BY <1>2, <4>3, <4>4
      <4>9. req'[q].row.token = k
        BY <3>1, <4>1 DEF Follows
      <4>10. \A p \in Requests \ {q} : (k \notin InHand(req[p]))'
        BY <4>6 DEF InHand, Loaded
      <4>. QED
        BY <4>3, <4>7, <4>8, <4>9, <4>10 DEF Unseen
    <3>. QED
      BY <3>2, <3>3
  <2>. QED
    BY <2>1, <2>2
<1>9. TokensSeen'
  BY <1>8 DEF TokensSeen
<1>. QED
  BY <1>5, <1>7, <1>9

(* A request moves, and what the links rest on stays.                      *)
LEMMA MoveTokens ==
  ASSUME Inv, Inv', TokenInv, NEW r \in Requests, NEW s \in RequestStates,
         Goes(r, s), From(r, s), ~Sending(s), TokenShape(s),
         UNCHANGED <<users, drawn, sent, used, restored>>
  PROVE  TokenInv'
<1>1. req' = [req EXCEPT ![r] = s] /\ req \in [Requests -> RequestStates]
  BY DEF Goes, Inv, TypeOK
<1>2. req'[r] = s /\ \A q \in Requests : q # r => Follows(q)
  BY <1>1 DEF Follows
<1>3. TokenShape(s)'
  BY DEF TokenShape, Loaded
<1>4. TokensBounded' /\ TokensApart' /\ TokensSeen'
  BY <1>2, <1>3, TokensKept DEF TokenInv
<1>5. \A u \in Users : LastLink(u)'
  BY DEF TokenInv, LastLink
<1>. QED
  BY <1>4, <1>5 DEF TokenInv

LEMMA IdleTokens ==
  ASSUME NEW r \in Requests
  PROVE  /\ Idle \in RequestStates /\ From(r, Idle) /\ ~Sending(Idle)
         /\ InHand(Idle) = {0} /\ TokenShape(Idle)
BY IdleState DEF From, InHand, Sending, TokenShape, Loaded

LEMMA GoesIdleTokens ==
  ASSUME Inv, Inv', TokenInv, NEW r \in Requests, Goes(r, Idle),
         UNCHANGED <<users, drawn, sent, used, restored>>
  PROVE  TokenInv'
BY IdleTokens, MoveTokens

(* A request that begins, but for a new link.                              *)
LEMMA BeginTokens ==
  ASSUME Inv, Inv', TokenInv, NEW r \in Requests, NEW s \in RequestStates,
         Goes(r, s), UNCHANGED <<users, drawn, sent, used, restored>>,
         s.kind # "send",
         s.kind # "reset" => s.token = 0,
         Loaded(s) /\ s.new => s.row.token = 0 /\ s.kind # "reset",
         Loaded(s) /\ ~s.new => users[s.user] # NoRow,
         Loaded(s) /\ ~s.new /\ s.kind # "reset" => s.row.token = users[s.user].token,
         s.kind = "reset" => /\ s.pc = "save" /\ s.token = users[s.user].token
                             /\ s.token # 0 /\ s.row.token = 0
  PROVE  TokenInv'
<1>1. ~Sending(s) /\ TokenShape(s)
  BY DEF Sending, TokenShape
<1>2. s.kind = "reset" => Loaded(s) /\ ~s.new
  BY DEF Loaded
<1>3. From(r, s)
  BY <1>2 DEF From, InHand
<1>. QED
  BY <1>1, <1>3, MoveTokens

LEMMA SaveActionTokens ==
  ASSUME Inv, Inv', TokenInv, NEW r \in Requests, NEW u \in Users, SaveAction(r, u)
  PROVE  TokenInv'
<1>1. PICK all \in PostedRoles, active \in BOOLEAN : \E primary \in all :
        Goes(r, [Idle EXCEPT
          !.pc = "save", !.kind = "edit", !.user = u, !.all = all,
          !.row = [users[u] EXCEPT !.primary = primary, !.active = active]])
  BY DEF SaveAction
<1>2. PICK primary \in all :
        Goes(r, [Idle EXCEPT
          !.pc = "save", !.kind = "edit", !.user = u, !.all = all,
          !.row = [users[u] EXCEPT !.primary = primary, !.active = active]])
  BY <1>1
<1>. DEFINE row == [users[u] EXCEPT !.primary = primary, !.active = active]
            s == [Idle EXCEPT !.pc = "save", !.kind = "edit", !.user = u,
                              !.all = all, !.row = row]
<1>3. all \subseteq Roles /\ users[u] \in Rows /\ users[u] # NoRow
  BY LiveRow, RolesAreRoles DEF PostedRoles, SaveAction
<1>4. row \in Rows /\ row.token = users[u].token
  BY <1>3 DEF Rows
<1>5. Goes(r, s) /\ UNCHANGED <<users, drawn, sent, used, restored>>
  BY <1>2 DEF SaveAction, tables, history
<1>. HIDE DEF row
<1>6. /\ s \in RequestStates /\ s.pc = "save" /\ s.kind = "edit" /\ s.user = u
      /\ s.new = FALSE /\ s.row = row /\ s.token = 0
  BY <1>3, <1>4, IdleState DEF RequestStates, Kinds
<1>. HIDE DEF s
<1>. QED
  BY <1>3, <1>4, <1>5, <1>6, BeginTokens

(* Handlers that insert a user.                                            *)
LEMMA NewTokens ==
  ASSUME Inv, Inv', TokenInv, NEW r \in Requests, NEW u \in Users,
         NEW kind \in {"create", "signUp", "provision"}, NEW all \in SUBSET Roles,
         NEW primary \in Roles, NEW active \in BOOLEAN,
         Goes(r, [Idle EXCEPT
           !.pc = "save", !.kind = kind, !.user = u, !.all = all,
           !.new = TRUE, !.row = NewRow(primary, active)]),
         UNCHANGED <<users, drawn, sent, used, restored>>
  PROVE  TokenInv'
<1>. DEFINE row == NewRow(primary, active)
            s == [Idle EXCEPT !.pc = "save", !.kind = kind, !.user = u,
                              !.all = all, !.new = TRUE, !.row = row]
<1>1. row \in Rows /\ row.token = 0
  BY DEF Rows, NewRow
<1>2. Goes(r, s)
  OBVIOUS
<1>. HIDE DEF row
<1>3. /\ s \in RequestStates /\ s.pc = "save" /\ s.kind = kind /\ s.new = TRUE
      /\ s.row = row /\ s.token = 0
  BY <1>1, IdleState DEF RequestStates, Kinds
<1>. HIDE DEF s
<1>. QED
  BY <1>1, <1>2, <1>3, BeginTokens

LEMMA InsertsTokens ==
  ASSUME Inv, Inv', TokenInv, NEW r \in Requests, NEW u \in Users,
         CreateAction(r, u) \/ SignUp(r, u) \/ (Provision(r, u) /\ ~Live(u))
  PROVE  TokenInv'
<1>1. UNCHANGED <<users, drawn, sent, used, restored>>
  BY DEF CreateAction, SignUp, Provision, tables, history
<1>2. CASE CreateAction(r, u)
  <2>1. PICK all \in PostedRoles, active \in BOOLEAN : \E primary \in all :
          Goes(r, [Idle EXCEPT
            !.pc = "save", !.kind = "create", !.user = u, !.all = all,
            !.new = TRUE, !.row = NewRow(primary, active)])
    BY <1>2 DEF CreateAction
  <2>2. all \subseteq Roles
    BY RolesAreRoles DEF PostedRoles
  <2>. QED
    BY <1>1, <2>1, <2>2, NewTokens
<1>3. CASE SignUp(r, u)
  <2>1. PICK primary \in Roles \ {Admin} :
          Goes(r, [Idle EXCEPT !.pc = "save", !.kind = "signUp", !.user = u,
                               !.new = TRUE, !.row = NewRow(primary, TRUE)])
    BY <1>3 DEF SignUp
  <2>2. Goes(r, [Idle EXCEPT !.pc = "save", !.kind = "signUp", !.user = u,
                   !.all = {}, !.new = TRUE, !.row = NewRow(primary, TRUE)])
    BY <2>1, IdleState DEF RequestStates
  <2>. QED
    BY <1>1, <2>2, NewTokens
<1>4. CASE Provision(r, u) /\ ~Live(u)
  <2>1. PICK all \in PostedRoles, active \in BOOLEAN : \E primary \in all :
          Goes(r, [Idle EXCEPT
            !.pc = "save", !.kind = "provision", !.user = u, !.all = all,
            !.new = TRUE, !.row = NewRow(primary, active)])
    BY <1>4 DEF Provision
  <2>2. all \subseteq Roles
    BY RolesAreRoles DEF PostedRoles
  <2>. QED
    BY <1>1, <2>1, <2>2, NewTokens
<1>. QED
  BY <1>2, <1>3, <1>4

(* Handlers that begin with the row as it is.                              *)
LEMMA LoadsTokens ==
  ASSUME Inv, Inv', TokenInv, NEW r \in Requests, NEW u \in Users,
         \/ Provision(r, u) /\ Live(u)
         \/ Deactivate(r, u) \/ DeleteAction(r, u) \/ UpdateProfile(r, u)
  PROVE  TokenInv'
<1>1. UNCHANGED <<users, drawn, sent, used, restored>> /\ Live(u)
  BY DEF Provision, Deactivate, DeleteAction, UpdateProfile, Begin, tables, history
<1>2. PICK pc \in {"guard", "save"},
           kind \in {"provision", "deactivate", "delete", "profile"} :
        Goes(r, [Idle EXCEPT !.pc = pc, !.kind = kind, !.user = u, !.row = users[u]])
  BY DEF Provision, Deactivate, DeleteAction, UpdateProfile, Begin
<1>. DEFINE s == [Idle EXCEPT !.pc = pc, !.kind = kind, !.user = u, !.row = users[u]]
<1>3. users[u] \in Rows /\ users[u] # NoRow
  BY <1>1, LiveRow
<1>4. Goes(r, s)
  BY <1>2
<1>5. /\ s \in RequestStates /\ s.kind = kind /\ s.user = u /\ s.new = FALSE
      /\ s.row = users[u] /\ s.token = 0
  BY <1>3, IdleState DEF RequestStates, Kinds
<1>. HIDE DEF s
<1>. QED
  BY <1>1, <1>3, <1>4, <1>5, BeginTokens

LEMMA UseLinkTokens ==
  ASSUME Inv, Inv', TokenInv, NEW r \in Requests, NEW u \in Users, UseLink(r, u)
  PROVE  TokenInv'
<1>. DEFINE row == Cleared(users[u])
            s == [Idle EXCEPT !.pc = "save", !.kind = "reset", !.user = u,
                              !.row = row, !.token = users[u].token]
<1>1. /\ users[u] \in Rows /\ users[u] # NoRow /\ users[u].token # 0
      /\ UNCHANGED <<users, drawn, sent, used, restored>> /\ Goes(r, s)
  BY LiveRow DEF UseLink, tables, history
<1>2. row \in Rows /\ row.token = 0 /\ users[u].token \in {0} \cup Tokens
  BY <1>1 DEF Cleared, Rows
<1>. HIDE DEF row
<1>3. /\ s \in RequestStates /\ s.pc = "save" /\ s.kind = "reset" /\ s.user = u
      /\ s.new = FALSE /\ s.row = row /\ s.token = users[u].token
  BY <1>1, <1>2, IdleState DEF RequestStates, Kinds
<1>. HIDE DEF s
<1>. QED
  BY <1>1, <1>2, <1>3, BeginTokens

LEMMA DeleteRoleTokens ==
  ASSUME Inv, Inv', TokenInv, NEW r \in Requests, NEW role \in Roles,
         DeleteRole(r, role)
  PROVE  TokenInv'
<1>. DEFINE s == [Idle EXCEPT !.pc = "drop", !.kind = "deleteRole", !.all = {role}]
<1>1. Goes(r, s) /\ UNCHANGED <<users, drawn, sent, used, restored>>
  BY DEF DeleteRole, tables, history
<1>2. s \in RequestStates /\ s.pc = "drop" /\ s.kind = "deleteRole" /\ s.token = 0
  BY IdleState DEF RequestStates, Kinds
<1>. HIDE DEF s
<1>. QED
  BY <1>1, <1>2, BeginTokens DEF Loaded

(* A new link takes a token that nobody has had.                           *)
LEMMA SendLinkTokens ==
  ASSUME Inv, Inv', TokenInv, NEW r \in Requests, NEW u \in Users, SendLink(r, u)
  PROVE  TokenInv'
<1>. DEFINE k == drawn + 1
            row == [users[u] EXCEPT !.token = k]
            s == [Idle EXCEPT !.pc = "save", !.kind = "send", !.user = u, !.row = row]
<1>1. /\ users[u] \in Rows /\ users[u] # NoRow /\ drawn' = k /\ k \in Tokens
      /\ drawn \in 0..MaxTokens /\ Goes(r, s)
      /\ UNCHANGED <<users, sent, used, restored>>
  BY LiveRow, AccountsAssumption
     DEF SendLink, Begin, Inv, TypeOK, Tokens, tables, history, AccountsAssumption
<1>2. row \in Rows /\ row.token = k
  BY <1>1 DEF Rows
<1>. HIDE DEF row
<1>3. /\ s \in RequestStates /\ s.pc = "save" /\ s.kind = "send" /\ s.user = u
      /\ s.new = FALSE /\ s.row = row /\ s.token = 0
  BY <1>1, <1>2, IdleState DEF RequestStates, Kinds
<1>4. /\ req'[r] = s /\ \A q \in Requests : q # r => req'[q] = req[q]
  BY <1>1 DEF Goes, Inv, TypeOK
<1>. HIDE DEF s
<1>5. InHand(s) = {0, k}
  BY <1>2, <1>3 DEF InHand, Loaded
<1>6. /\ k \notin 0..drawn /\ 0..drawn \subseteq 0..k /\ k \in 0..k /\ 0 \in 0..k
      /\ k # 0
  BY <1>1, AccountsAssumption DEF AccountsAssumption
<1>7. /\ used \subseteq 0..drawn
      /\ \A v \in Users : users[v] # NoRow => users[v].token \in 0..drawn
      /\ \A q \in Requests : InHand(req[q]) \subseteq 0..drawn
  BY DEF TokenInv, TokensBounded
<1>. HIDE DEF k
<1>8. TokensBounded'
  <2>1. \A q \in Requests : InHand(req'[q]) \subseteq 0..k
    BY <1>4, <1>5, <1>6, <1>7
  <2>2. \A q \in Requests : (InHand(req[q]) \subseteq 0..drawn)'
    BY <1>1, <2>1 DEF InHand, Loaded
  <2>. QED
    BY <1>1, <1>6, <1>7, <2>2 DEF TokensBounded
<1>9. ASSUME NEW v \in Users, NEW n \in Tokens, Carries(v, n)'
      PROVE  Carries(v, n) \/ (n = k /\ v = u)
  <2>1. n # 0
    BY AccountsAssumption DEF Tokens, AccountsAssumption
  <2>2. \/ users[v] # NoRow /\ users[v].token = n
        \/ \E q \in Requests : req'[q].user = v /\ n \in InHand(req'[q])
    BY <1>1, <1>9 DEF Carries, InHand, Loaded
  <2>. QED
    BY <1>3, <1>4, <1>5, <2>1, <2>2 DEF Carries
<1>10. \A v \in Users : ~Carries(v, k)
  BY <1>6, <1>7 DEF Carries
<1>11. TokensApart'
  BY <1>9, <1>10 DEF TokenInv, TokensApart
<1>12. ASSUME NEW q \in Requests
       PROVE  (Sending(req[q]) => Unseen(q))' /\ TokenShape(req[q])'
  <2>1. CASE q = r
    <3>1. TokenShape(req[q])'
      BY <1>3, <1>4, <2>1 DEF TokenShape, Loaded
    <3>2. \A p \in Requests \ {q} : (k \notin InHand(req[p])) /\ req'[p] = req[p]
      BY <1>4, <1>6, <1>7, <2>1
    <3>3. req'[q].row.token = k
      BY <1>2, <1>3, <1>4, <2>1
    <3>4. /\ k \notin used' /\ \A v \in Users : users'[v] # NoRow => users'[v].token # k
      BY <1>1, <1>6, <1>7
    <3>5. Unseen(q)'
      BY <1>6, <3>2, <3>3, <3>4 DEF Unseen, InHand, Loaded
    <3>. QED
      BY <3>1, <3>5
  <2>2. CASE q # r
    <3>1. req'[q] = req[q] /\ TokenShape(req[q])
      BY <1>4, <2>2 DEF TokenInv, TokensSeen
    <3>2. TokenShape(req[q])'
      BY <1>1, <3>1 DEF TokenShape, Loaded
    <3>3. ASSUME Sending(req[q])' PROVE Unseen(q)'
      <4>1. PICK n : n = req[q].row.token
        OBVIOUS
      <4>2. Unseen(q) /\ Loaded(req[q])
        BY <3>1, <3>3 DEF Sending, TokenInv, TokensSeen, Loaded
      <4>3. n \in 0..drawn /\ n # 0
        BY <1>7, <4>1, <4>2 DEF InHand, Unseen
      <4>4. n \notin InHand(s)
        BY <1>5, <1>6, <4>3
      <4>5. \A p \in Requests \ {q} : n \notin InHand(req'[p])
        BY <1>4, <4>1, <4>2, <4>4 DEF Unseen
      <4>6. \A p \in Requests \ {q} : (n \notin InHand(req[p]))'
        BY <4>5 DEF InHand, Loaded
      <4>7. req'[q].row.token = n
        BY <3>1, <4>1
      <4>8. n \notin used' /\ \A v \in Users : users'[v] # NoRow => users'[v].token # n
        BY <1>1, <4>1, <4>2 DEF Unseen
      <4>. QED
        BY <4>3, <4>6, <4>7, <4>8 DEF Unseen
    <3>. QED
      BY <3>2, <3>3
  <2>. QED
    BY <2>1, <2>2
<1>13. \A v \in Users : LastLink(v)'
  BY <1>1 DEF TokenInv, LastLink
<1>. QED
  BY <1>8, <1>11, <1>12, <1>13 DEF TokenInv, TokensSeen

(* A request goes on with the token that it has.                           *)
LEMMA GoesOnTokens ==
  ASSUME Inv, Inv', TokenInv, NEW r \in Requests, NEW s \in RequestStates,
         Goes(r, s), UNCHANGED <<users, drawn, sent, used, restored>>,
         s.user = req[r].user, s.new = req[r].new, s.token = req[r].token,
         s.clean = req[r].clean, s.pc # "idle" => s.kind = req[r].kind,
         Loaded(s) => /\ s.kind \notin {"send", "reset"} /\ Loaded(req[r])
                      /\ s.row.token = req[r].row.token
  PROVE  TokenInv'
<1>1. ~Sending(s)
  BY DEF Sending, Loaded
<1>2. From(r, s)
  BY DEF From, InHand
<1>3. TokenShape(req[r])
  BY DEF TokenInv, TokensSeen
<1>4. TokenShape(s)
  BY <1>3 DEF TokenShape, Loaded
<1>. QED
  BY <1>1, <1>2, <1>4, MoveTokens

LEMMA GuardTokens ==
  ASSUME Inv, Inv', TokenInv, NEW r \in Requests,
         GuardProvision(r) \/ ReadHolders(r) \/ CountAdmins(r)
  PROVE  TokenInv'
<1>. DEFINE t == req[r]
<1>1. /\ t \in RequestStates /\ StateShape(t)
      /\ t.pc \in {"guard", "count"} /\ t.kind \in {"provision", "deactivate", "delete"}
      /\ UNCHANGED <<users, drawn, sent, used, restored>>
  BY RequestTyped DEF GuardProvision, ReadHolders, CountAdmins, tables, history
<1>2. t.row \in Rows /\ Loaded(t)
  BY <1>1 DEF StateShape, Loaded
<1>3. CASE Goes(r, Idle)
  BY <1>1, <1>3, GoesIdleTokens
<1>4. ASSUME NEW row \in Rows, row.token = t.row.token,
             NEW pc \in {"count", "save"}, NEW all \in SUBSET Roles,
             NEW known \in SUBSET (Roles \cup Users),
             Goes(r, [t EXCEPT !.pc = pc, !.row = row, !.all = all, !.known = known])
      PROVE  TokenInv'
  <2>. DEFINE s == [t EXCEPT !.pc = pc, !.row = row, !.all = all, !.known = known]
  <2>1. Goes(r, s)
    BY <1>4
  <2>2. /\ s \in RequestStates /\ s.user = t.user /\ s.new = t.new
        /\ s.token = t.token /\ s.clean = t.clean /\ s.kind = t.kind /\ s.row = row
    BY <1>1, <1>4 DEF RequestStates
  <2>. HIDE DEF s
  <2>. QED
    BY <1>1, <1>2, <1>4, <2>1, <2>2, GoesOnTokens
<1>5. /\ t.all \in SUBSET Roles /\ t.known \in SUBSET (Roles \cup Users)
      /\ Holders \in SUBSET (Roles \cup Users) /\ {} \in SUBSET (Roles \cup Users)
  BY <1>1 DEF RequestStates, Holders
<1>6. CASE GuardProvision(r)
  <2>1. CASE Goes(r, [t EXCEPT !.pc = "save", !.row.active = FALSE])
    <3>. DEFINE row == [t.row EXCEPT !.active = FALSE]
    <3>1. row \in Rows /\ row.token = t.row.token
      BY <1>2 DEF Rows
    <3>2. [t EXCEPT !.pc = "save", !.row.active = FALSE] =
            [t EXCEPT !.pc = "save", !.row = row, !.all = t.all, !.known = t.known]
      BY <1>1 DEF RequestStates
    <3>. QED
      BY <1>4, <1>5, <2>1, <3>1, <3>2
  <2>2. CASE \E all \in PostedRoles, active \in BOOLEAN : \E primary \in all :
               Goes(r, [t EXCEPT
                 !.pc = "save", !.all = all,
                 !.row = [t.row EXCEPT !.primary = primary, !.active = active]])
    <3>1. PICK all \in PostedRoles, active \in BOOLEAN : \E primary \in all :
               Goes(r, [t EXCEPT
                 !.pc = "save", !.all = all,
                 !.row = [t.row EXCEPT !.primary = primary, !.active = active]])
      BY <2>2
    <3>2. PICK primary \in all :
               Goes(r, [t EXCEPT
                 !.pc = "save", !.all = all,
                 !.row = [t.row EXCEPT !.primary = primary, !.active = active]])
      BY <3>1
    <3>. DEFINE row == [t.row EXCEPT !.primary = primary, !.active = active]
    <3>3. all \in SUBSET Roles
      BY RolesAreRoles DEF PostedRoles
    <3>4. row \in Rows /\ row.token = t.row.token
      BY <1>2, <3>3 DEF Rows
    <3>5. [t EXCEPT !.pc = "save", !.all = all, !.row = row] =
            [t EXCEPT !.pc = "save", !.row = row, !.all = all, !.known = t.known]
      BY <1>1 DEF RequestStates
    <3>6. Goes(r, [t EXCEPT !.pc = "save", !.all = all, !.row = row])
      BY <3>2
    <3>. HIDE DEF row
    <3>. QED
      BY <1>4, <1>5, <3>3, <3>4, <3>5, <3>6
  <2>. QED
    BY <1>3, <1>6, <2>1, <2>2 DEF GuardProvision
<1>7. Trashed(t.row) \in Rows /\ Trashed(t.row).token = t.row.token
  BY <1>2 DEF Trashed, Rows
<1>8. CASE ReadHolders(r)
  <2>1. CASE Goes(r, [t EXCEPT !.pc = "count", !.known = Holders])
    <3>1. [t EXCEPT !.pc = "count", !.known = Holders] =
            [t EXCEPT !.pc = "count", !.row = t.row, !.all = t.all, !.known = Holders]
      BY <1>1 DEF RequestStates
    <3>. QED
      BY <1>2, <1>4, <1>5, <2>1, <3>1
  <2>2. CASE Goes(r, [t EXCEPT !.pc = "save", !.row = Trashed(t.row)])
    <3>1. [t EXCEPT !.pc = "save", !.row = Trashed(t.row)] =
            [t EXCEPT !.pc = "save", !.row = Trashed(t.row), !.all = t.all,
                      !.known = t.known]
      BY <1>1 DEF RequestStates
    <3>. QED
      BY <1>4, <1>5, <1>7, <2>2, <3>1
  <2>. QED
    BY <1>8, <2>1, <2>2 DEF ReadHolders, Holders
<1>9. CASE CountAdmins(r)
  <2>1. CASE Goes(r, [t EXCEPT !.pc = "save", !.known = {}, !.row = Trashed(t.row)])
    <3>1. [t EXCEPT !.pc = "save", !.known = {}, !.row = Trashed(t.row)] =
            [t EXCEPT !.pc = "save", !.row = Trashed(t.row), !.all = t.all,
                      !.known = {}]
      BY <1>1 DEF RequestStates
    <3>. QED
      BY <1>4, <1>5, <1>7, <2>1, <3>1
  <2>. QED
    BY <1>3, <1>9, <2>1 DEF CountAdmins
<1>. QED
  BY <1>6, <1>8, <1>9

LEMMA ReadCurrentTokens ==
  ASSUME Inv, Inv', TokenInv, NEW r \in Requests, ReadCurrent(r)
  PROVE  TokenInv'
<1>. DEFINE t == req[r]
            s == [t EXCEPT !.pc = "sync", !.known = user_roles[t.user]]
<1>1. t \in RequestStates /\ user_roles[t.user] \subseteq Roles
  BY RequestTyped DEF Inv, TypeOK
<1>2. Goes(r, s) /\ UNCHANGED <<users, drawn, sent, used, restored>>
  BY DEF ReadCurrent, tables, history
<1>3. /\ s \in RequestStates /\ s.user = t.user /\ s.new = t.new /\ s.kind = t.kind
      /\ s.token = t.token /\ s.clean = t.clean /\ s.pc = "sync"
  BY <1>1 DEF RequestStates
<1>. HIDE DEF s
<1>. QED
  BY <1>2, <1>3, GoesOnTokens DEF Loaded

(* A write, as the other requests see it.                                  *)
LEMMA WriteFollows ==
  ASSUME Inv, NEW r \in Requests, NEW u \in Users, NEW s \in RequestStates,
         Writes(r, u, s)
  PROVE  req'[r] = s /\ \A q \in Requests : q # r => Follows(q)
<1>1. req'[r] = s
  BY DEF Writes
<1>2. ASSUME NEW q \in Requests, q # r PROVE Follows(q)
  <2>1. req[q] \in RequestStates /\ req[q].user \in Users
    BY RequestTyped
  <2>2. CASE req[q].pc = "idle"
    BY <1>2, <2>2 DEF Writes, Follows
  <2>3. CASE req[q].pc # "idle"
    <3>1. req'[q] = [req[q] EXCEPT !.clean = req[q].clean /\ req[q].user # u,
                                   !.alone = FALSE]
      BY <1>2, <2>3 DEF Writes
    <3>. QED
      BY <2>1, <3>1 DEF RequestStates, Follows
  <2>. QED
    BY <2>2, <2>3
<1>. QED
  BY <1>1, <1>2

LEMMA SyncTokens ==
  ASSUME Inv, Inv', TokenInv, NEW r \in Requests, SyncForUser(r)
  PROVE  TokenInv'
<1>1. UNCHANGED <<users, drawn, sent, used, restored>> /\ req[r].user \in Users
  BY RequestTyped DEF SyncForUser
<1>2. CASE Goes(r, Idle)
  BY <1>1, <1>2, GoesIdleTokens
<1>3. CASE Writes(r, req[r].user, Idle)
  <2>1. req'[r] = Idle /\ \A q \in Requests : q # r => Follows(q)
    BY <1>1, <1>3, IdleTokens, WriteFollows
  <2>2. TokenShape(Idle)'
    BY IdleState DEF TokenShape, Loaded
  <2>3. TokensBounded' /\ TokensApart' /\ TokensSeen'
    BY <1>1, <2>1, <2>2, IdleTokens, TokensKept DEF TokenInv
  <2>4. \A u \in Users : LastLink(u)'
    BY <1>1 DEF TokenInv, LastLink
  <2>. QED
    BY <2>3, <2>4 DEF TokenInv
<1>. QED
  BY <1>2, <1>3 DEF SyncForUser

(* What the save of a row leaves of the links.                             *)
LEMMA SaveRowTokens ==
  ASSUME Inv, Inv', TokenInv, NEW r \in Requests, SaveRow(r)
  PROVE  TokenInv'
<1>. DEFINE t == req[r]
            u == t.user
            next == IF t.kind \in WithRoleSet
                      THEN [t EXCEPT !.pc = "current", !.row = NoRow] ELSE Idle
<1>1. /\ t \in RequestStates /\ u \in Users /\ t.pc = "save" /\ Loaded(t)
      /\ Writes(r, u, next) /\ drawn' = drawn
  BY RequestTyped DEF SaveRow, Loaded
<1>2. /\ t.row \in Rows /\ t.row # NoRow
      /\ users'[u] = t.row /\ \A v \in Users : v # u => users'[v] = users[v]
  BY SaveRowWrites
<1>3. /\ restored' = IF BringsBack(r) THEN restored \cup {t.row.token} ELSE restored
      /\ sent' = IF t.kind = "send" THEN [sent EXCEPT ![u] = t.row.token] ELSE sent
      /\ used' = IF t.kind = "reset" THEN used \cup {t.token} ELSE used
      /\ sent \in [Users -> 0..MaxTokens]
  BY DEF SaveRow, Inv, TypeOK
<1>4. PICK s : s = next
  OBVIOUS
<1>5. /\ s \in RequestStates /\ ~Loaded(s)
      /\ s.token = 0 \/ (s.user = u /\ s.token = t.token)
  <2>1. CASE t.kind \in WithRoleSet
    BY <1>1, <1>4, <2>1 DEF RequestStates, Loaded
  <2>2. CASE t.kind \notin WithRoleSet
    BY <1>4, <2>2, IdleState DEF Loaded
  <2>. QED
    BY <2>1, <2>2
<1>6. From(r, s) /\ ~Sending(s) /\ TokenShape(s)'
  BY <1>5 DEF From, InHand, Sending, TokenShape, Loaded
<1>7. req'[r] = s /\ \A q \in Requests : q # r => Follows(q)
  <2>1. Writes(r, u, s)
    BY <1>1, <1>4
  <2>. HIDE DEF t, u, next
  <2>. QED
    BY <1>1, <1>2, <1>5, <2>1, WriteFollows
<1>. HIDE DEF next
<1>8. t.row.token \in InHand(t) /\ t.token \in InHand(t)
  BY <1>1 DEF InHand
<1>9. TokensBounded' /\ TokensApart' /\ TokensSeen'
  BY <1>1, <1>2, <1>3, <1>5, <1>6, <1>7, <1>8, TokensKept DEF TokenInv
<1>10. /\ TokenShape(t) /\ (t.kind = "send" => Unseen(r))
       /\ t.new => t.row.token = 0
       /\ ~t.new => users[u] # NoRow
  BY <1>1, SaveRowWrites DEF TokenInv, TokensSeen, Sending, TokenShape
<1>11. ASSUME NEW v \in Users PROVE LastLink(v)'
  <2>. SUFFICES ASSUME users'[v] # NoRow, users'[v].token \notin {0} \cup restored'
                PROVE  users'[v].token = sent'[v] /\ users'[v].token \notin used'
    BY DEF LastLink
  <2>1. LastLink(v) /\ users'[v].token \notin {0} \cup restored
    BY <1>3 DEF TokenInv
  <2>2. CASE v # u
    <3>1. /\ users'[v] = users[v] /\ sent'[v] = sent[v]
          /\ users[v].token \notin used /\ users[v].token = sent[v]
      BY <1>1, <1>2, <1>3, <2>1, <2>2 DEF LastLink
    <3>2. users[v].token # t.token
      <4>. SUFFICES ASSUME users[v].token = t.token PROVE FALSE
        OBVIOUS
      <4>1. Carries(v, t.token) /\ Carries(u, t.token)
        BY <1>2, <1>8, <2>2 DEF Carries
      <4>2. t.token \in Tokens
        BY <1>1, <1>2, <2>1, <2>2 DEF RequestStates
      <4>. QED
        BY <1>1, <2>2, <4>1, <4>2 DEF TokenInv, TokensApart
    <3>. QED
      BY <1>3, <3>1, <3>2
  <2>3. CASE v = u
    <3>1. users'[u] = t.row /\ t.row.token \notin {0} \cup restored'
      BY <1>2, <2>3
    <3>2. users[u] # NoRow /\ t.kind # "reset" /\ used' = used
      BY <1>1, <1>3, <1>10, <3>1 DEF TokenShape
    <3>3. CASE t.kind = "send"
      BY <1>1, <1>3, <1>10, <2>3, <3>1, <3>2, <3>3 DEF Unseen
    <3>4. CASE t.kind # "send"
      <4>1. t.row.token = users[u].token
        BY <1>3, <3>1, <3>4 DEF BringsBack
      <4>2. users[u].token = sent[u] /\ users[u].token \notin used
        BY <2>1, <2>3, <3>1, <3>2, <4>1 DEF LastLink
      <4>. QED
        BY <1>3, <2>3, <3>1, <3>2, <3>4, <4>1, <4>2
    <3>. QED
      BY <3>3, <3>4
  <2>. QED
    BY <2>2, <2>3
<1>. QED
  BY <1>9, <1>11 DEF TokenInv

(* Steps that touch no request and no row.                                 *)
LEMMA ElsewhereTokens ==
  ASSUME TokenInv, UNCHANGED <<users, drawn, req, sent, used, restored>>
  PROVE  TokenInv'
BY DEF TokenInv, TokensBounded, TokensApart, TokensSeen, Carries, InHand, Sending,
       Unseen, TokenShape, LastLink, Loaded

LEMMA TokenInit == Init => TokenInv
<1>. SUFFICES ASSUME Init PROVE TokenInv
  OBVIOUS
<1>1. /\ \A r \in Requests : req[r] = Idle
      /\ \A u \in Users : users[u] # NoRow => users[u].token = 0
      /\ used = {} /\ drawn = 0
  BY DEF Init
<1>2. /\ \A r \in Requests : InHand(req[r]) = {0} /\ TokenShape(req[r])
      /\ \A r \in Requests : ~Sending(req[r])
  BY <1>1, IdleTokens
<1>3. \A u \in Users, k \in Tokens : ~Carries(u, k)
  BY <1>1, <1>2, AccountsAssumption DEF Carries, Tokens, AccountsAssumption
<1>. QED
  BY <1>1, <1>2, <1>3 DEF TokenInv, TokensBounded, TokensApart, TokensSeen, LastLink

LEMMA TokenNext == Inv /\ Inv' /\ TokenInv /\ [Next]_vars => TokenInv'
<1>. SUFFICES ASSUME Inv, Inv', TokenInv, [Next]_vars PROVE TokenInv'
  OBVIOUS
<1>1. ASSUME NEW r \in Requests, NEW u \in Users,
             \/ SaveAction(r, u) \/ CreateAction(r, u) \/ SignUp(r, u)
             \/ Provision(r, u) \/ Deactivate(r, u) \/ DeleteAction(r, u)
             \/ UpdateProfile(r, u) \/ SendLink(r, u) \/ UseLink(r, u)
      PROVE  TokenInv'
  BY <1>1, SaveActionTokens, InsertsTokens, LoadsTokens, SendLinkTokens, UseLinkTokens
<1>2. ASSUME NEW r \in Requests, NEW role \in Roles, DeleteRole(r, role)
      PROVE  TokenInv'
  BY <1>2, DeleteRoleTokens
<1>3. ASSUME NEW r \in Requests, GuardProvision(r) \/ ReadHolders(r) \/ CountAdmins(r)
      PROVE  TokenInv'
  BY <1>3, GuardTokens
<1>4. ASSUME NEW r \in Requests, SaveRow(r) PROVE TokenInv'
  BY <1>4, SaveRowTokens
<1>5. ASSUME NEW r \in Requests, ReadCurrent(r) PROVE TokenInv'
  BY <1>5, ReadCurrentTokens
<1>6. ASSUME NEW r \in Requests, SyncForUser(r) PROVE TokenInv'
  BY <1>6, SyncTokens
<1>7. ASSUME NEW r \in Requests, SaveRefused(r) \/ DropRole(r) \/ Abort(r)
      PROVE  TokenInv'
  BY <1>7, GoesIdleTokens DEF SaveRefused, DropRole, Abort, tables, history
<1>8. CASE \/ \E u \in Users : SignIn(u) \/ Logout(u)
           \/ \E k \in Tokens : Expire(k)
  BY <1>8, ElsewhereTokens DEF SignIn, Logout, Expire, tables, history
<1>9. CASE UNCHANGED vars
  BY <1>9, ElsewhereTokens DEF vars, tables, history
<1>. QED
  BY <1>1, <1>2, <1>3, <1>4, <1>5, <1>6, <1>7, <1>8, <1>9 DEF Next

(* A link that has set a password is refused, and so is one that a later  *)
(* link has replaced, unless a save from an older row has brought its token*)
(* back.                                                                   *)
THEOREM UsedLinksStayRefused == Spec => UsedLinksRefused
<1>. DEFINE Refuses(r, u) ==
       UseLink(r, u) /\ users[u].token \notin restored
         => users[u].token \notin used /\ users[u].token = sent[u]
<1>1. ASSUME TokenInv, NEW r \in Requests, NEW u \in Users PROVE Refuses(r, u)
  <2>1. LastLink(u)
    BY <1>1 DEF TokenInv
  <2>2. UseLink(r, u) => users[u] # NoRow /\ users[u].token # 0
    BY DEF UseLink, Live
  <2>. QED
    BY <2>1, <2>2 DEF LastLink
<1>2. Inv /\ TokenInv => \A r \in Requests, u \in Users : Refuses(r, u)
  BY <1>1
<1>3. Spec => [](Inv /\ TokenInv)
  BY InvInit, InvNext, TokenInit, TokenNext, PTL DEF Spec
<1>. QED
  BY <1>2, <1>3, PTL DEF UsedLinksRefused
=============================================================================
