------------------------------ MODULE Accounts ------------------------------
(***************************************************************************)
(* User accounts: the Users and Roles screens, provisioning over the API,  *)
(* sign-up, the profile page, password links and sign-in.                  *)
(*                                                                         *)
(* A user holds a primary role, in the users row, and the set of roles in  *)
(* user_roles; every handler loads a row, checks, and saves all of its     *)
(* columns, then the role set in a transaction of its own.  Requests       *)
(* interleave between those steps and may die.  Names, passwords, changes  *)
(* of address, profile pictures and settings are left out, as are the      *)
(* limit on sign-in attempts, the names of roles, new roles, the check of  *)
(* an address by mail, and reversals from the audit log, which write rows  *)
(* of users and roles by SQL of their own.                                 *)
(***************************************************************************)
EXTENDS Naturals, FiniteSets

CONSTANTS
  Users,
  Seeded,       \* administrators that exist from the start
  Roles,
  Admin,        \* the role `admin`
  NoRow,        \* no such row
  Requests,
  MaxRequests,  \* bound: requests made
  MaxTokens,    \* bound: password links drawn
  MaxFaults     \* bound: requests that die

Tokens == 1..MaxTokens
Rows == [primary: Roles, active: BOOLEAN, deleted: BOOLEAN,
         token: {0} \cup Tokens]

ASSUME AccountsAssumption ==
  /\ Users # {}
  /\ Seeded \subseteq Users
  /\ Admin \in Roles
  /\ NoRow \notin Rows
  /\ MaxRequests \in Nat /\ MaxTokens \in Nat /\ MaxFaults \in Nat

VARIABLES
  users,       \* per user, the row; a user stands for an e-mail address
  user_roles,  \* per user, the roles in user_roles
  roles,       \* the roles that exist
  session,     \* per user, the roles in the session; {}: not signed in
  drawn,       \* the last token drawn for a password link
  expired,     \* the tokens whose hour is over
  req,         \* per request, its local state
  posted,      \* history: per user, the roles last posted, {} if unsettled
  sent,        \* history: per user, the token of the last link mailed
  used,        \* history: the tokens that set a password
  restored,    \* history: the tokens a save from an older row brought back
  requests, faults

tables == <<users, user_roles, roles>>
history == <<posted, sent, used, restored>>
vars == <<tables, session, drawn, expired, req, history, requests, faults>>

Kinds == {"edit", "create", "provision", "deactivate", "delete", "signUp",
          "profile", "send", "reset", "deleteRole"}

(* row: what is to be saved; new: by an INSERT; all: the role set posted;  *)
(* known: the role set, or its holders, as read before; clean: no other    *)
(* request has written to the user since it began; alone: to any user.     *)
RequestStates ==
  [pc: {"idle", "guard", "count", "save", "current", "sync", "drop"},
   kind: Kinds, user: Users, row: Rows \cup {NoRow}, new: BOOLEAN,
   all: SUBSET Roles, known: SUBSET (Roles \cup Users), token: {0} \cup Tokens,
   clean: BOOLEAN, alone: BOOLEAN]

Idle ==
  [pc |-> "idle", kind |-> "edit", user |-> CHOOSE u \in Users : TRUE,
   row |-> NoRow, new |-> FALSE, all |-> {}, known |-> {}, token |-> 0,
   clean |-> TRUE, alone |-> TRUE]

TypeOK ==
  /\ users \in [Users -> Rows \cup {NoRow}]
  /\ user_roles \in [Users -> SUBSET roles]
  /\ roles \subseteq Roles
  /\ \A u \in Users : users[u] # NoRow => users[u].primary \in roles
  /\ session \in [Users -> SUBSET Roles]
  /\ drawn \in 0..MaxTokens
  /\ expired \subseteq 1..drawn
  /\ req \in [Requests -> RequestStates]
  /\ posted \in [Users -> SUBSET Roles]
  /\ sent \in [Users -> 0..MaxTokens]
  /\ used \subseteq {0} \cup Tokens
  /\ restored \subseteq Tokens
  /\ requests \in 0..MaxRequests
  /\ faults \in 0..MaxFaults

Init ==
  /\ users = [u \in Users |-> IF u \in Seeded
                THEN [primary |-> Admin, active |-> TRUE, deleted |-> FALSE,
                      token |-> 0]
                ELSE NoRow]
  /\ user_roles = [u \in Users |-> IF u \in Seeded THEN {Admin} ELSE {}]
  /\ roles = Roles
  /\ session = [u \in Users |-> {}]
  /\ drawn = 0
  /\ expired = {}
  /\ req = [r \in Requests |-> Idle]
  /\ posted = [u \in Users |-> {}]
  /\ sent = [u \in Users |-> 0]
  /\ used = {}
  /\ restored = {}
  /\ requests = 0
  /\ faults = 0

-----------------------------------------------------------------------------
Live(u) == users[u] # NoRow /\ ~users[u].deleted

(* Users::roleIds(): "the union, so a row written by a path that only sets *)
(* role_id still holds that role".                                         *)
RoleIds(u) == user_roles[u] \cup {users[u].primary}

SignedInAdmin(u) == Admin \in session[u]

Goes(r, state) == req' = [req EXCEPT ![r] = state]

(* r has written to u: what the others hold of u is old.                   *)
Writes(r, u, state) ==
  req' = [q \in Requests |->
    IF q = r THEN state
    ELSE IF req[q].pc = "idle" THEN req[q]
    ELSE [req[q] EXCEPT !.clean = req[q].clean /\ req[q].user # u,
                        !.alone = FALSE]]

Begin(r, kind, u, pc, row) ==
  /\ req[r].pc = "idle"
  /\ requests < MaxRequests
  /\ requests' = requests + 1
  /\ Goes(r, [Idle EXCEPT !.pc = pc, !.kind = kind, !.user = u, !.row = row])
  /\ UNCHANGED <<tables, session, expired, history, faults>>

(* postedRoles(): a set of roles that exist, and one of them the primary.  *)
PostedRoles == {all \in SUBSET roles : all # {}}

NewRow(primary, active) ==
  [primary |-> primary, active |-> active, deleted |-> FALSE, token |-> 0]

-----------------------------------------------------------------------------
(* Handlers up to the save of the users row.                               *)

SaveAction(r, u) ==
  /\ \E a \in Users : SignedInAdmin(a)
  /\ Live(u)
  /\ req[r].pc = "idle" /\ requests < MaxRequests
  /\ requests' = requests + 1
  /\ \E all \in PostedRoles, active \in BOOLEAN : \E primary \in all :
       Goes(r, [Idle EXCEPT
         !.pc = "save", !.kind = "edit", !.user = u, !.all = all,
         !.row = [users[u] EXCEPT !.primary = primary, !.active = active]])
  /\ UNCHANGED <<tables, session, drawn, expired, history, faults>>

(* createAction() of the Users screen does not look for the address: the   *)
(* unique index refuses it, also when its user is deleted.                 *)
CreateAction(r, u) ==
  /\ \E a \in Users : SignedInAdmin(a)
  /\ req[r].pc = "idle" /\ requests < MaxRequests
  /\ requests' = requests + 1
  /\ \E all \in PostedRoles, active \in BOOLEAN : \E primary \in all :
       Goes(r, [Idle EXCEPT
         !.pc = "save", !.kind = "create", !.user = u, !.all = all,
         !.new = TRUE, !.row = NewRow(primary, active)])
  /\ UNCHANGED <<tables, session, drawn, expired, history, faults>>

(* Sign-up, into a role that is written in the code, and `create-agent`:   *)
(* the primary role is all they set.                                       *)
SignUp(r, u) ==
  /\ ~Live(u)
  /\ req[r].pc = "idle" /\ requests < MaxRequests
  /\ requests' = requests + 1
  /\ \E primary \in Roles \ {Admin} :
       Goes(r, [Idle EXCEPT !.pc = "save", !.kind = "signUp", !.user = u,
                            !.new = TRUE, !.row = NewRow(primary, TRUE)])
  /\ UNCHANGED <<tables, session, drawn, expired, history, faults>>

(* usersAction() of the provisioning API.                                  *)
Provision(r, u) ==
  \/ /\ Live(u)
     /\ Begin(r, "provision", u, "guard", users[u])
     /\ UNCHANGED drawn
  \/ /\ ~Live(u)
     /\ req[r].pc = "idle" /\ requests < MaxRequests
     /\ requests' = requests + 1
     /\ \E all \in PostedRoles, active \in BOOLEAN : \E primary \in all :
          /\ Admin \notin all
          /\ Goes(r, [Idle EXCEPT
               !.pc = "save", !.kind = "provision", !.user = u, !.all = all,
               !.new = TRUE, !.row = NewRow(primary, active)])
     /\ UNCHANGED <<tables, session, drawn, expired, history, faults>>

Deactivate(r, u) ==
  /\ Live(u)
  /\ Begin(r, "deactivate", u, "guard", users[u])
  /\ UNCHANGED drawn

(* Mutant of HoldsAdmin: the primary role is all it looks at.              *)
HoldsAdmin_Primary(row, held) == row.primary = Admin

HoldsAdmin(row, held) == Admin \in held \cup {row.primary}

(* "An admin user cannot be changed through the provisioning API".         *)
GuardProvision(r) ==
  /\ req[r].pc = "guard" /\ req[r].kind \in {"provision", "deactivate"}
  /\ LET row == req[r].row
     IN \/ /\ HoldsAdmin(row, user_roles[req[r].user])
           /\ Goes(r, Idle)
        \/ /\ ~HoldsAdmin(row, user_roles[req[r].user])
           /\ req[r].kind = "deactivate"
           /\ Goes(r, [req[r] EXCEPT !.pc = "save", !.row.active = FALSE])
        \/ /\ ~HoldsAdmin(row, user_roles[req[r].user])
           /\ req[r].kind = "provision"
           /\ \E all \in PostedRoles, active \in BOOLEAN : \E primary \in all :
                /\ Admin \notin all
                /\ Goes(r, [req[r] EXCEPT
                     !.pc = "save", !.all = all,
                     !.row = [row EXCEPT !.primary = primary,
                                         !.active = active]])
  /\ UNCHANGED <<tables, session, drawn, expired, history, requests, faults>>

(* deleteAction(): "You cannot delete your own account".                   *)
DeleteAction(r, u) ==
  /\ \E a \in Users \ {u} : SignedInAdmin(a)
  /\ Live(u)
  /\ Begin(r, "delete", u, "guard", users[u])
  /\ UNCHANGED drawn

Trashed(row) == [row EXCEPT !.deleted = TRUE]

(* It reads user_roles, for the user and for all holders of the role.      *)
ReadHolders(r) ==
  /\ req[r].pc = "guard" /\ req[r].kind = "delete"
  /\ IF HoldsAdmin(req[r].row, user_roles[req[r].user])
       THEN Goes(r, [req[r] EXCEPT !.pc = "count",
              !.known = {v \in Users : Admin \in user_roles[v]}])
       ELSE Goes(r, [req[r] EXCEPT !.pc = "save", !.row = Trashed(req[r].row)])
  /\ UNCHANGED <<tables, session, drawn, expired, history, requests, faults>>

(* Mutant of OtherActiveAdmins: deleted administrators count as well.      *)
OtherActiveAdmins_WithTrashed(u, holders) ==
  {v \in Users \ {u} : users[v] # NoRow /\ users[v].active
                       /\ (users[v].primary = Admin \/ v \in holders)}

OtherActiveAdmins(u, holders) ==
  {v \in Users \ {u} : Live(v) /\ users[v].active
                       /\ (users[v].primary = Admin \/ v \in holders)}

CountAdmins(r) ==
  /\ req[r].pc = "count" /\ req[r].kind = "delete"
  /\ IF OtherActiveAdmins(req[r].user, req[r].known) = {}
       THEN Goes(r, Idle)
       ELSE Goes(r, [req[r] EXCEPT !.pc = "save", !.known = {},
                                   !.row = Trashed(req[r].row)])
  /\ UNCHANGED <<tables, session, drawn, expired, history, requests, faults>>

(* updateAction() of the profile page: only names change, every column is  *)
(* saved.                                                                  *)
UpdateProfile(r, u) ==
  /\ session[u] # {}
  /\ Live(u)
  /\ Begin(r, "profile", u, "save", users[u])
  /\ UNCHANGED drawn

(* sendAction(): a password link, which replaces the one sent before.      *)
SendLink(r, u) ==
  /\ Live(u)
  /\ drawn < MaxTokens
  /\ drawn' = drawn + 1
  /\ Begin(r, "send", u, "save", [users[u] EXCEPT !.token = drawn + 1])

(* Mutant of Cleared: the token stays in the row.                          *)
Cleared_Not(row) == row

Cleared(row) == [row EXCEPT !.token = 0]

(* updateAction() of the password page.                                    *)
UseLink(r, u) ==
  /\ Live(u)
  /\ users[u].token # 0 /\ users[u].token \notin expired
  /\ req[r].pc = "idle" /\ requests < MaxRequests
  /\ requests' = requests + 1
  /\ Goes(r, [Idle EXCEPT !.pc = "save", !.kind = "reset", !.user = u,
                          !.row = Cleared(users[u]), !.token = users[u].token])
  /\ UNCHANGED <<tables, session, drawn, expired, history, faults>>

-----------------------------------------------------------------------------
(* The save of the row.                                                    *)

(* An address that is there already, or a role that is gone.               *)
Refused(r) ==
  \/ req[r].new /\ users[req[r].user] # NoRow
  \/ req[r].row.primary \notin roles

(* Every column is saved: also a token that the row has lost since it was  *)
(* loaded.                                                                 *)
BringsBack(r) ==
  /\ req[r].kind # "send" /\ req[r].row.token # 0
  /\ req[r].row.token # users[req[r].user].token

WithRoleSet == {"edit", "create", "provision"}

(* After it the handlers that were given a role set save that.             *)
SaveRow(r) ==
  LET u == req[r].user
      kind == req[r].kind
  IN /\ req[r].pc = "save"
     /\ ~Refused(r)
     /\ users' = [users EXCEPT ![u] = req[r].row]
     /\ Writes(r, u, IF kind \in WithRoleSet
                       THEN [req[r] EXCEPT !.pc = "current", !.row = NoRow]
                       ELSE Idle)
     /\ posted' = IF kind \in WithRoleSet \/ ~req[r].clean
                    THEN [posted EXCEPT ![u] = {}] ELSE posted
     /\ restored' = IF BringsBack(r) THEN restored \cup {req[r].row.token}
                                     ELSE restored
     /\ sent' = IF kind = "send" THEN [sent EXCEPT ![u] = req[r].row.token]
                                 ELSE sent
     /\ used' = IF kind = "reset" THEN used \cup {req[r].token} ELSE used
     /\ UNCHANGED <<user_roles, roles, session, drawn, expired, requests,
                    faults>>

SaveRefused(r) ==
  /\ req[r].pc = "save"
  /\ Refused(r)
  /\ Goes(r, Idle)
  /\ UNCHANGED <<tables, session, drawn, expired, history, requests, faults>>

(* syncForUser() reads the role set before its transaction.                *)
ReadCurrent(r) ==
  /\ req[r].pc = "current"
  /\ Goes(r, [req[r] EXCEPT !.pc = "sync", !.known = user_roles[req[r].user]])
  /\ UNCHANGED <<tables, session, drawn, expired, history, requests, faults>>

(* Mutant of Synced: the rows of roles no longer held are not deleted.     *)
Synced_AddsOnly(held, wanted, current) == held \cup (wanted \ current)

(* "rows for roles no longer held are deleted, missing ones inserted".     *)
Synced(held, wanted, current) == (held \cap wanted) \cup (wanted \ current)

(* An INSERT fails on a row that is there meanwhile, or a role that is     *)
(* gone, and all of it is rolled back.                                     *)
SyncForUser(r) ==
  LET u == req[r].user
      missing == req[r].all \ req[r].known
  IN /\ req[r].pc = "sync"
     /\ IF missing \subseteq roles /\ missing \cap user_roles[u] = {}
          THEN /\ user_roles' = [user_roles EXCEPT
                    ![u] = Synced(@, req[r].all, req[r].known)]
               /\ Writes(r, u, Idle)
               /\ posted' = [posted EXCEPT
                    ![u] = IF req[r].clean THEN req[r].all ELSE {}]
          ELSE /\ Goes(r, Idle)
               /\ UNCHANGED <<user_roles, posted>>
     /\ UNCHANGED <<users, roles, session, drawn, expired, sent, used,
                    restored, requests, faults>>

-----------------------------------------------------------------------------
(* Roles.                                                                  *)

Held(role) ==
  \E u \in Users :
    \/ role \in user_roles[u]
    \/ users[u] # NoRow /\ users[u].primary = role

(* deleteAction() and bulkAction() of the Roles screen, for one role:      *)
(* refused while anybody holds it, deleted users included.                 *)
DeleteRole(r, role) ==
  /\ \E a \in Users : SignedInAdmin(a)
  /\ role \in roles
  /\ ~Held(role)
  /\ req[r].pc = "idle" /\ requests < MaxRequests
  /\ requests' = requests + 1
  /\ Goes(r, [Idle EXCEPT !.pc = "drop", !.kind = "deleteRole",
                          !.all = {role}])
  /\ UNCHANGED <<tables, session, drawn, expired, history, faults>>

(* The foreign keys refuse a role that somebody has been given meanwhile.  *)
DropRole(r) ==
  /\ req[r].pc = "drop"
  /\ roles' = IF \E role \in req[r].all : Held(role) THEN roles
                                                      ELSE roles \ req[r].all
  /\ Goes(r, Idle)
  /\ UNCHANGED <<users, user_roles, session, drawn, expired, history, requests,
                 faults>>

-----------------------------------------------------------------------------
(* check() of Auth: the session keeps the roles as they are at this time.  *)
SignIn(u) ==
  /\ session[u] = {}
  /\ Live(u) /\ users[u].active
  /\ session' = [session EXCEPT ![u] = RoleIds(u)]
  /\ UNCHANGED <<tables, drawn, expired, req, history, requests, faults>>

Logout(u) ==
  /\ session[u] # {}
  /\ session' = [session EXCEPT ![u] = {}]
  /\ UNCHANGED <<tables, drawn, expired, req, history, requests, faults>>

(* The hour of a link is over.                                             *)
Expire(t) ==
  /\ t \in (1..drawn) \ expired
  /\ expired' = expired \cup {t}
  /\ UNCHANGED <<tables, session, drawn, req, history, requests, faults>>

(* A process dies: a transaction is rolled back, what it saved stays.      *)
Abort(r) ==
  /\ req[r].pc # "idle"
  /\ faults < MaxFaults
  /\ faults' = faults + 1
  /\ Goes(r, Idle)
  /\ UNCHANGED <<tables, session, drawn, expired, history, requests>>

Next ==
  \/ \E r \in Requests :
       \/ \E u \in Users :
            \/ SaveAction(r, u) \/ CreateAction(r, u) \/ SignUp(r, u)
            \/ Provision(r, u) \/ Deactivate(r, u) \/ DeleteAction(r, u)
            \/ UpdateProfile(r, u) \/ SendLink(r, u) \/ UseLink(r, u)
       \/ \E role \in Roles : DeleteRole(r, role)
       \/ GuardProvision(r) \/ ReadHolders(r) \/ CountAdmins(r)
       \/ SaveRow(r) \/ SaveRefused(r) \/ ReadCurrent(r) \/ SyncForUser(r)
       \/ DropRole(r) \/ Abort(r)
  \/ \E u \in Users : SignIn(u) \/ Logout(u)
  \/ \E t \in Tokens : Expire(t)

Spec == Init /\ [][Next]_vars

-----------------------------------------------------------------------------
(* Every role a user holds decides, so a save that no other request on the *)
(* user overlaps ends in exactly the roles that were posted, whatever the  *)
(* saves of other columns, failed syncs and dead requests before it left.  *)
RolesAsPosted ==
  \A u \in Users :
    posted[u] # {} => user_roles[u] \cup {users[u].primary} = posted[u]

ActiveAdmins ==
  {u \in Users : users[u] # NoRow /\ users[u].active /\ ~users[u].deleted
                 /\ (users[u].primary = Admin \/ Admin \in user_roles[u])}

(* "Cannot delete the last active admin account": a deletion that no other *)
(* request's write overlaps leaves an active administrator, also when the  *)
(* one who deletes has been deleted or demoted and is still signed in.     *)
AdminRemains ==
  [][\A r \in Requests :
       req[r].kind = "delete" /\ req[r].alone /\ SaveRow(r)
         /\ ActiveAdmins # {} => ActiveAdmins' # {}]_vars

(* Provisioning never writes to a user who is an administrator by either   *)
(* of the two tables, unless it has become one since the request began.    *)
ProvisioningSparesAdmins ==
  [][\A r \in Requests :
       (/\ req[r].kind \in {"provision", "deactivate"} /\ req[r].clean
        /\ users[req[r].user] # NoRow
        /\ Admin \in user_roles[req[r].user] \cup {users[req[r].user].primary}
        /\ SaveRow(r) \/ SyncForUser(r))
       => UNCHANGED <<users, user_roles>>]_vars

(* A link that has set a password is refused, and so is one that a later  *)
(* link has replaced, unless a save from an older row has brought its token*)
(* back.  Two requests that look the link up before either has saved are   *)
(* both let in, and both set a password: it is what comes after the save   *)
(* that is refused.                                                        *)
UsedLinksRefused ==
  [][\A r \in Requests, u \in Users :
       UseLink(r, u) /\ users[u].token \notin restored
         => users[u].token \notin used /\ users[u].token = sent[u]]_vars
=============================================================================
