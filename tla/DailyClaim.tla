----------------------------- MODULE DailyClaim -----------------------------
(***************************************************************************)
(* dailyCheckInDue() and claimDay() of LicenseManager: which of the day's  *)
(* requests and cron passes owes the licence check-in.  A caller compares  *)
(* today with the settings it read when its request began, then claims the *)
(* day with an UPDATE, a SELECT and an INSERT of one settings row.         *)
(* LicensedDays instantiates it, and says what it assumes of the constants.*)
(***************************************************************************)
EXTENDS Integers

CONSTANTS
  Callers,         \* requests and cron passes
  CrossesMidnight, \* a caller may be overtaken by midnight
  NoRow,           \* the settings row does not exist
  Null,            \* it exists, with no value
  Earlier,         \* it holds a day before the first one
  MaxDay           \* bound: the last day

Days == 0..MaxDay
Values == Days \cup {NoRow, Null, Earlier}

VARIABLES
  now,     \* today
  claim,   \* settings.license_checkin_attempted_on
  caller,  \* per caller: where it is, the value it has cached, its $today
  claims   \* history: how many callers were told a day is theirs

vars == <<now, claim, caller, claims>>

CallerStates ==
  [pc: {"idle", "ask", "update", "select", "insert", "won", "lost"},
   cached: Values, today: Days]

IdleCaller == [pc |-> "idle", cached |-> NoRow, today |-> 0]

TypeOK ==
  /\ now \in Days
  /\ claim \in Values
  /\ caller \in [Callers -> CallerStates]
  /\ claims \in [Days -> Nat]

Init ==
  /\ now = 0
  /\ claim \in {NoRow, Null, Earlier}
  /\ caller = [c \in Callers |-> IdleCaller]
  /\ claims = [d \in Days |-> 0]

Goes(c, pc) == caller' = [caller EXCEPT ![c].pc = pc]

(* A request reads every setting once, whenever it first needs one.        *)
ReadSettings(c) ==
  /\ caller[c].pc = "idle"
  /\ caller' = [caller EXCEPT ![c].pc = "ask", ![c].cached = claim]
  /\ UNCHANGED <<now, claim, claims>>

DailyCheckInDue(c) ==
  /\ caller[c].pc = "ask"
  /\ caller' = [caller EXCEPT
       ![c].pc = IF caller[c].cached = now THEN "lost" ELSE "update",
       ![c].today = now]
  /\ UNCHANGED <<now, claim, claims>>

(* Mutant of Matches: the WHERE clause names the key only.                 *)
Matches_AnyDay(value, today) == value # NoRow

(* "the UPDATE only matches while the stored date is not yet today's"      *)
Matches(value, today) == value # NoRow /\ value # today

Wins(c) == claims' = [claims EXCEPT ![caller[c].today] = @ + 1]

Update(c) ==
  /\ caller[c].pc = "update"
  /\ Matches(claim, caller[c].today)
  /\ claim' = caller[c].today
  /\ Wins(c)
  /\ Goes(c, "won")
  /\ UNCHANGED now

UpdateMatchesNothing(c) ==
  /\ caller[c].pc = "update"
  /\ ~Matches(claim, caller[c].today)
  /\ Goes(c, "select")
  /\ UNCHANGED <<now, claim, claims>>

Select(c) ==
  /\ caller[c].pc = "select"
  /\ Goes(c, IF claim = NoRow THEN "insert" ELSE "lost")
  /\ UNCHANGED <<now, claim, claims>>

(* "setting_key is UNIQUE, so of two first-ever claimants one fails here." *)
Insert(c) ==
  /\ caller[c].pc = "insert"
  /\ claim = NoRow
  /\ claim' = caller[c].today
  /\ Wins(c)
  /\ Goes(c, "won")
  /\ UNCHANGED now

InsertFails(c) ==
  /\ caller[c].pc = "insert"
  /\ claim # NoRow
  /\ Goes(c, "lost")
  /\ UNCHANGED <<now, claim, claims>>

Ends(c) == caller' = [caller EXCEPT ![c] = IdleCaller]

(* The request ends, or is lost at any point before it has an answer.      *)
End(c) ==
  /\ caller[c].pc # "idle"
  /\ Ends(c)
  /\ UNCHANGED <<now, claim, claims>>

Claiming(c) == caller[c].pc \in {"update", "select", "insert"}

Midnight ==
  /\ now < MaxDay
  /\ CrossesMidnight \/ \A c \in Callers : ~Claiming(c)
  /\ now' = now + 1
  /\ UNCHANGED <<claim, caller, claims>>

Next ==
  \/ \E c \in Callers :
       \/ ReadSettings(c) \/ DailyCheckInDue(c)
       \/ Update(c) \/ UpdateMatchesNothing(c) \/ Select(c)
       \/ Insert(c) \/ InsertFails(c) \/ End(c)
  \/ Midnight

Spec == Init /\ [][Next]_vars

(* "True for exactly one caller per day": no two callers are told that     *)
(* the same day's check-in is theirs.                                      *)
OneClaimPerDay == \A d \in Days : claims[d] <= 1

(* A caller is only turned away from a day that another has claimed: the   *)
(* day's check-in is not left to nobody.                                   *)
TurnedAwayFromTaken ==
  \A c \in Callers : caller[c].pc = "lost" => claims[caller[c].today] >= 1
=============================================================================
