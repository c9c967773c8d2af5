---------------------------- MODULE LicensedDays ----------------------------
(***************************************************************************)
(* The daily check-in as a whole: checkInAfterResponse() and               *)
(* checkInIfDue(), where a request or a cron pass that has claimed the day *)
(* (DailyClaim) goes on to checkInAll() (Licensing), while the Licences    *)
(* screen and `./run license checkin` make requests of their own.  The two *)
(* modules share the clock, and a caller is in one of them at a time.      *)
(***************************************************************************)
EXTENDS Licensing

CONSTANTS
  CrossesMidnight, Null, Earlier   \* as in DailyClaim

VARIABLES
  claim, caller, claims,
  leftOut  \* history: the modules that a check-in of this day left out

Claims == INSTANCE DailyClaim WITH Callers <- Requests, MaxDay <- MaxTime

(* No date is one of the values of a row without a date.                   *)
ASSUME LicensedDaysAssumption ==
  /\ CrossesMidnight \in BOOLEAN
  /\ {NoRow, Null, Earlier} \cap Claims!Days = {}

claimVars == <<claim, caller, claims>>
licenceVars ==
  <<live, used, assigned, entitlements, heard, req, beside, requests, aborts>>
dayVars == <<now, claimVars, licenceVars, leftOut>>

InitDays == Init /\ Claims!Init /\ leftOut = {}

(* A request of another kind begins, or goes on.                           *)
LicenceStep(c) ==
  /\ \/ caller[c].pc = "idle" /\ OtherRequest(c)
     \/ AssignKey(c)
     \/ AttemptModule(c)
     \/ Save(c)
     \/ Loop(c)
     \/ Abort(c)
  /\ UNCHANGED <<claimVars, leftOut>>

(* dailyCheckInDue(), up to its answer; one that is told no is done.       *)
ClaimStep(c) ==
  /\ req[c].pc = "idle"
  /\ \/ Claims!ReadSettings(c) \/ Claims!DailyCheckInDue(c)
     \/ Claims!Update(c) \/ Claims!UpdateMatchesNothing(c) \/ Claims!Select(c)
     \/ Claims!Insert(c) \/ Claims!InsertFails(c)
     \/ caller[c].pc # "won" /\ Claims!End(c)
  /\ UNCHANGED <<licenceVars, leftOut>>

LeavesOut(loadable) == leftOut' = leftOut \cup (Modules \ loadable)

(* "Check all" of the Licences screen, and `./run license checkin`.        *)
CheckAll(c, loadable) ==
  /\ caller[c].pc = "idle"
  /\ CheckInAll(c, loadable)
  /\ LeavesOut(loadable)
  /\ UNCHANGED claimVars

(* Mutant of CheckInDue: the day is given back if the check-in is left.    *)
CheckInDue_ScreenOnly(c, loadable) ==
  /\ caller[c].pc = "won"
  /\ LeavesOut(loadable)
  /\ Claims!Ends(c)
  /\ UNCHANGED <<now, claim, claims, licenceVars>>

(* checkInAfterResponse() and checkInIfDue(): the caller that was told     *)
(* that the day is its own checks in the modules that are enabled then.    *)
CheckInDue(c, loadable) ==
  /\ caller[c].pc = "won"
  /\ CheckInAll(c, loadable)
  /\ LeavesOut(loadable)
  /\ Claims!Ends(c)
  /\ UNCHANGED <<claim, claims>>

(* It dies, or throws, before it does: "a check-in that fails is not       *)
(* retried until tomorrow".                                                *)
DiesBeforeCheckIn(c) ==
  /\ caller[c].pc = "won"
  /\ leftOut' = Modules
  /\ Claims!Ends(c)
  /\ UNCHANGED <<now, claim, claims, licenceVars>>

(* Callers that are done, or only asking.                                  *)
Resting(c) == req[c].pc = "idle" /\ caller[c].pc # "won"

(* Midnight overtakes a check-in only where it may overtake a claim.       *)
NextDay ==
  /\ Claims!Midnight
  /\ CrossesMidnight \/ \A c \in Requests : Resting(c)
  /\ leftOut' = {}
  /\ UNCHANGED licenceVars

NextOfDays ==
  \/ \E c \in Requests :
       \/ LicenceStep(c) \/ ClaimStep(c) \/ DiesBeforeCheckIn(c)
       \/ \E loadable \in SUBSET Modules :
            CheckAll(c, loadable) \/ CheckInDue(c, loadable)
  \/ NextDay

SpecOfDays == InitDays /\ [][NextOfDays]_dayVars

(***************************************************************************)
(* Properties, beside those that Licensing states: OnlySuccessMovesSuccess *)
(* and LicenceKept, while the day's check-in overlaps with the others.     *)
(***************************************************************************)

(* "True for exactly one caller per day", with every other request beside. *)
OneClaimPerDay == Claims!OneClaimPerDay

(* "Whichever comes first that day does it": once a day is claimed and     *)
(* everybody has finished, each module with a stored key has been asked    *)
(* about on that day, if every check-in of all modules found it enabled    *)
(* and no caller died before its own began.  A disabled module is not      *)
(* asked about; the row that a check-in writes for it in passing can even  *)
(* make another's first answer for it fail to be stored.                   *)
ClaimedDayRenews ==
  /\ claim = now
  /\ aborts = 0
  /\ \A c \in Requests : Resting(c)
  /\ KeysUntouched
  =>
  \A m \in Modules \ leftOut : StoredKeys(m) # {} =>
    LET row == RowOf(m) IN
    /\ row.result # "null"
    /\ row.result = "valid" => row.success = now
=============================================================================
