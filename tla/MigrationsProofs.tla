-------------------------- MODULE MigrationsProofs --------------------------
(***************************************************************************)
(* Proofs about Migrations, for every set of files, every length, every    *)
(* number of runs that overlap, and faults anywhere.                       *)
(*                                                                         *)
(* An open transaction holds exactly what its run has executed of the file *)
(* in hand (TxOfFile), and a file that is recorded in one is recorded      *)
(* nowhere else (RecordsApart): the primary key of schema_migrations is    *)
(* what keeps two runs from committing the same file.  A run holds every   *)
(* file that is not recorded yet (HoldsTheRest), which keeps the order.    *)
(***************************************************************************)
EXTENDS Migrations, WellFoundedInduction, TLAPS

Of(f) == {s \in Statements : s[1] = f}

(* What a run that is at statement `next` of its file has executed of it.  *)
Done(r) == {s \in Of(First(r.todo)) : s[2] < r.next}

Good(r, transactional) ==
  /\ r.todo = {} <=> r.pc \in {"idle", "pending"}
  /\ r.tx = IF transactional /\ r.pc \in {"apply", "record", "commit"}
            THEN Done(r) ELSE {}
  /\ r.pc = "pending" => r.next = 1
  /\ r.pc = "apply" => r.next \in 1..Length[First(r.todo)]
  /\ r.pc \in {"record", "commit"} => r.next = Length[First(r.todo)] + 1
  /\ r.pc = "commit" => transactional
  /\ r.recording <=> r.pc = "commit"

TxOfFile == \A p \in Processes : Good(run[p], Transactional)

RecordsApart ==
  /\ \A p \in Processes :
       run[p].recording => ~ Taken(Version[File(p)])
  /\ \A p, q \in Processes :
       run[p].recording /\ run[q].recording /\ p # q
       => Version[File(p)] # Version[File(q)]

HoldsTheRest ==
  \A p \in Processes :
    run[p].pc \in {"apply", "record", "commit"}
      => Files \ run[p].todo \subseteq schema_migrations

ExecutedWhereAutocommitted ==
  \A p \in Processes :
    ~ Transactional /\ run[p].pc \in {"apply", "record"}
      => \A s \in Done(run[p]) : executed[s] > 0

IInv ==
  /\ TypeOK
  /\ TxOfFile
  /\ RecordsApart
  /\ HoldsTheRest
  /\ ExecutedWhereAutocommitted
  /\ WholeFileOnce
  /\ RecordedInOrder

-----------------------------------------------------------------------------
(* Files and statements.                                                   *)

LEMMA LessThan == \A k, n \in Nat : k < n => <<k, n>> \in OpToRel(<, Nat)
BY DEF OpToRel

LEMMA FirstIsLeast ==
  ASSUME NEW todo \in SUBSET Files, todo # {}
  PROVE  /\ First(todo) \in todo
         /\ \A g \in todo : Position[First(todo)] <= Position[g]
<1> DEFINE places == {Position[f] : f \in todo}
<1>1. places \subseteq Nat /\ places # {}
  BY FilesAssumption
<1>2. \E n \in places : \A k \in places : ~ (<<k, n>> \in OpToRel(<, Nat))
  BY <1>1, NatLessThanWellFounded, WFMin
<1>3. PICK n \in places : \A k \in places : ~ (<<k, n>> \in OpToRel(<, Nat))
  BY <1>2
<1>4. \A k \in places : n <= k
  <2> HIDE DEF places
  <2>1. \A k \in places : k \in Nat /\ n \in Nat /\ ~ (k < n)
    BY <1>1, <1>3, LessThan
  <2>. QED
    BY <2>1
<1>5. PICK f \in todo : Position[f] = n
  BY <1>3
<1>6. \A g \in todo : Position[f] <= Position[g]
  BY <1>4, <1>5
<1>. QED
  BY <1>5, <1>6 DEF First

LEMMA StatementsOf ==
  ASSUME NEW f \in Files
  PROVE  /\ \A i \in 1..Length[f] : <<f, i>> \in Of(f)
         /\ \A s \in Of(f) : s \in Statements /\ s = <<f, s[2]>>
                               /\ s[2] \in 1..Length[f] /\ s[1] = f
BY FilesAssumption DEF Of, Statements

LEMMA FileInHand ==
  ASSUME TypeOK, NEW p \in Processes, run[p].pc \in {"apply", "record", "commit"}
  PROVE  /\ run[p].todo \in SUBSET Files /\ run[p].todo # {}
         /\ File(p) \in run[p].todo /\ File(p) \in Files
         /\ \A g \in run[p].todo : Position[File(p)] <= Position[g]
         /\ run[p] \in RunStates
<1>1. run[p] \in RunStates /\ run[p].todo # {}
  BY DEF TypeOK
<1>2. run[p].todo \in SUBSET Files
  BY <1>1 DEF RunStates
<1>. QED
  BY <1>1, <1>2, FirstIsLeast DEF File

LEMMA InitIInv == Init => IInv
<1> SUFFICES ASSUME Init PROVE IInv
  OBVIOUS
<1>1. /\ Idle \in RunStates /\ Idle.pc = "idle" /\ Idle.tx = {}
      /\ Idle.recording = FALSE /\ Idle.todo = {}
  BY DEF Idle, RunStates
<1>2. \A p \in Processes : run[p] = Idle
  BY DEF Init
<1>3. TypeOK
  <2>1. \A p \in Processes :
          run[p].todo = {} <=> run[p].pc \in {"idle", "pending"}
    BY <1>1, <1>2
  <2>2. run \in [Processes -> RunStates]
    BY <1>1 DEF Init
  <2>3. executed \in [Statements -> Nat]
    BY DEF Init
  <2>4. runs \in 0..MaxRuns /\ faults \in 0..MaxFaults
    BY FilesAssumption DEF Init
  <2>. QED
    BY <2>1, <2>2, <2>3, <2>4 DEF Init, TypeOK
<1>4. TxOfFile
  BY <1>1, <1>2 DEF TxOfFile, Good
<1>5. RecordsApart /\ HoldsTheRest /\ ExecutedWhereAutocommitted
  BY <1>1, <1>2 DEF RecordsApart, HoldsTheRest, ExecutedWhereAutocommitted
<1>6. WholeFileOnce /\ RecordedInOrder
  BY DEF Init, WholeFileOnce, RecordedInOrder
<1>. QED
  BY <1>3, <1>4, <1>5, <1>6 DEF IInv

-----------------------------------------------------------------------------
(* What a run does to its own state.                                       *)

LEMMA OneRunChanges ==
  ASSUME IInv, NEW p \in Processes, NEW r \in RunStates, Good(r, Transactional),
         run' = [run EXCEPT ![p] = r], UNCHANGED adapter,
         schema_migrations' \in SUBSET Files,
         executed' \in [Statements -> Nat],
         raced' \in BOOLEAN, runs' \in 0..MaxRuns, faults' \in 0..MaxFaults
  PROVE  /\ TypeOK' /\ TxOfFile'
         /\ run'[p] = r
         /\ \A q \in Processes : q # p => run'[q] = run[q]
<1>1. /\ run'[p] = r
      /\ \A q \in Processes : q # p => run'[q] = run[q]
  BY DEF IInv, TypeOK
<1>2. run' \in [Processes -> RunStates]
  BY DEF IInv, TypeOK
<1>3. \A q \in Processes : Good(run'[q], Transactional)
  BY <1>1 DEF IInv, TxOfFile
<1>4. \A q \in Processes :
        run'[q].todo = {} <=> run'[q].pc \in {"idle", "pending"}
  BY <1>3 DEF Good
<1>5. TypeOK'
  BY <1>2, <1>4 DEF IInv, TypeOK
<1>6. TxOfFile'
  <2>1. Transactional' = Transactional
    BY DEF Transactional
  <2>. QED
    BY <1>3, <2>1 DEF TxOfFile
<1>. QED
  BY <1>1, <1>5, <1>6

(* A run that starts, finds nothing, fails or dies touches no table.       *)
LEMMA LeavingKeepsIInv ==
  ASSUME IInv, NEW p \in Processes, NEW r \in RunStates,
         r.pc \in {"idle", "pending"}, r.todo = {}, r.tx = {},
         r.recording = FALSE, r.next = 1,
         run' = [run EXCEPT ![p] = r],
         UNCHANGED <<adapter, schema_migrations, executed>>,
         raced' \in BOOLEAN, runs' \in 0..MaxRuns, faults' \in 0..MaxFaults
  PROVE  IInv'
<1>1. Good(r, Transactional)
  BY DEF Good
<1>2. schema_migrations' \in SUBSET Files /\ executed' \in [Statements -> Nat]
  BY DEF IInv, TypeOK
<1>3. /\ TypeOK' /\ TxOfFile' /\ run'[p] = r
      /\ \A q \in Processes : q # p => run'[q] = run[q]
  BY <1>1, <1>2, OneRunChanges
<1>4. RecordsApart'
  BY <1>3 DEF IInv, RecordsApart, Taken, File
<1>5. HoldsTheRest'
  BY <1>3 DEF IInv, HoldsTheRest
<1>6. ExecutedWhereAutocommitted'
  BY <1>3 DEF IInv, ExecutedWhereAutocommitted, Transactional, Done
<1>7. WholeFileOnce' /\ RecordedInOrder'
  BY DEF IInv, WholeFileOnce, RecordedInOrder, Transactional
<1>. QED
  BY <1>3, <1>4, <1>5, <1>6, <1>7 DEF IInv

LEMMA LeavingStates ==
  /\ \A r \in {Idle, Failed, [Idle EXCEPT !.pc = "pending"]} :
       /\ r \in RunStates /\ r.pc \in {"idle", "pending"} /\ r.todo = {}
       /\ r.tx = {} /\ r.recording = FALSE /\ r.next = 1
<1>1. Idle \in RunStates
  BY DEF Idle, RunStates
<1>2. Failed \in RunStates /\ [Idle EXCEPT !.pc = "pending"] \in RunStates
  BY <1>1 DEF Failed, RunStates
<1>3. /\ Idle.pc = "idle" /\ Idle.todo = {} /\ Idle.tx = {}
      /\ Idle.recording = FALSE /\ Idle.next = 1
  BY DEF Idle
<1>4. /\ Failed.pc = "idle" /\ Failed.todo = {} /\ Failed.tx = {}
      /\ Failed.recording = FALSE /\ Failed.next = 1
  BY <1>1, <1>3 DEF Failed, RunStates
<1>. QED
  BY <1>1, <1>2, <1>3, <1>4 DEF RunStates

LEMMA FaultCounts ==
  ASSUME TypeOK, NoFault \/ Fault
  PROVE  faults' \in 0..MaxFaults
BY FilesAssumption DEF TypeOK, NoFault, Fault

LEMMA StopKeepsIInv ==
  ASSUME IInv, NEW p \in Processes, Stop(p),
         UNCHANGED <<adapter, schema_migrations, executed, raced, runs>>,
         NoFault \/ Fault
  PROVE  IInv'
<1>1. raced' \in BOOLEAN /\ runs' \in 0..MaxRuns /\ faults' \in 0..MaxFaults
  BY FaultCounts DEF IInv, TypeOK
<1>2. run' = [run EXCEPT ![p] = Failed]
  BY DEF Stop
<1>. QED
  BY <1>1, <1>2, LeavingStates, LeavingKeepsIInv

LEMMA StartKeepsIInv ==
  ASSUME IInv, NEW p \in Processes, Start(p)
  PROVE  IInv'
<1>1. raced' \in BOOLEAN /\ runs' \in 0..MaxRuns /\ faults' \in 0..MaxFaults
  BY FilesAssumption DEF IInv, TypeOK, Start
<1>2. /\ run' = [run EXCEPT ![p] = [Idle EXCEPT !.pc = "pending"]]
      /\ UNCHANGED <<adapter, schema_migrations, executed>>
  BY DEF Start
<1>. QED
  BY <1>1, <1>2, LeavingStates, LeavingKeepsIInv

LEMMA CrashKeepsIInv ==
  ASSUME IInv, NEW p \in Processes, Crash(p)
  PROVE  IInv'
BY StopKeepsIInv DEF Crash, Stop

LEMMA ReadPendingKeepsIInv ==
  ASSUME IInv, NEW p \in Processes, ReadPending(p)
  PROVE  IInv'
<1> DEFINE r == [run[p] EXCEPT !.pc = "apply", !.todo = Pending]
<1>1. /\ run[p] \in RunStates /\ run[p].pc = "pending" /\ run[p].tx = {}
      /\ run[p].next = 1 /\ run[p].recording = FALSE
  BY DEF IInv, TypeOK, TxOfFile, Good, ReadPending
<1>2. /\ schema_migrations' \in SUBSET Files /\ executed' \in [Statements -> Nat]
      /\ raced' \in BOOLEAN /\ runs' \in 0..MaxRuns /\ faults' \in 0..MaxFaults
      /\ UNCHANGED <<adapter, schema_migrations, executed>>
  BY DEF IInv, TypeOK, ReadPending, NoFault
<1>3. CASE Pending = {}
  BY <1>2, <1>3, LeavingStates, LeavingKeepsIInv DEF ReadPending
<1>4. CASE Pending # {}
  <2>1. /\ r \in RunStates /\ r.pc = "apply" /\ r.todo = Pending /\ r.next = 1
        /\ r.tx = {} /\ r.recording = FALSE
        /\ Pending \in SUBSET Files
    BY <1>1 DEF RunStates, Pending
  <2>2. run' = [run EXCEPT ![p] = r]
    BY <1>4 DEF ReadPending
  <2> HIDE DEF r
  <2>3. First(r.todo) \in Files
    BY <1>4, <2>1, FirstIsLeast
  <2>4. Done(r) = {}
    BY <2>1, <2>3, StatementsOf DEF Done
  <2>5. Good(r, Transactional)
    BY <1>4, <2>1, <2>3, <2>4, FilesAssumption DEF Good
  <2>6. /\ TypeOK' /\ TxOfFile' /\ run'[p] = r
        /\ \A q \in Processes : q # p => run'[q] = run[q]
    BY <1>2, <2>1, <2>2, <2>5, OneRunChanges
  <2>7. RecordsApart'
    BY <1>2, <2>1, <2>6 DEF IInv, RecordsApart, Taken, File
  <2>8. HoldsTheRest'
    BY <1>2, <2>1, <2>6 DEF IInv, HoldsTheRest, Pending
  <2>9. ExecutedWhereAutocommitted'
    BY <1>2, <2>4, <2>6 DEF IInv, ExecutedWhereAutocommitted, Transactional
  <2>10. WholeFileOnce' /\ RecordedInOrder'
    BY <1>2 DEF IInv, WholeFileOnce, RecordedInOrder, Transactional
  <2>. QED
    BY <2>6, <2>7, <2>8, <2>9, <2>10 DEF IInv
<1>. QED
  BY <1>3, <1>4

(* One statement more.                                                     *)
LEMMA ExecuteKeepsIInv ==
  ASSUME IInv, NEW p \in Processes, Execute(p)
  PROVE  IInv'
<1> DEFINE r == [run[p] EXCEPT
                   !.pc = IF run[p].next = Length[File(p)]
                          THEN "record" ELSE "apply",
                   !.next = run[p].next + 1,
                   !.tx = IF Transactional
                          THEN run[p].tx \cup {Statement(p)} ELSE {}]
<1>1. CASE Stop(p) /\ UNCHANGED executed
  BY <1>1, StopKeepsIInv DEF Execute
<1>2. CASE /\ run' = [run EXCEPT ![p] = r]
           /\ executed' = IF Transactional THEN executed
                          ELSE [executed EXCEPT ![Statement(p)] = @ + 1]
           /\ NoFault
  <2>1. /\ run[p].pc = "apply" /\ File(p) \in Files
        /\ run[p] \in RunStates /\ run[p].todo # {}
        /\ run[p].next \in 1..Length[File(p)]
        /\ Length[File(p)] \in Nat
        /\ run[p].tx = IF Transactional THEN Done(run[p]) ELSE {}
        /\ run[p].recording = FALSE
    <3>1. run[p].pc = "apply" /\ Good(run[p], Transactional)
      BY DEF IInv, TxOfFile, Execute
    <3>. QED
      BY <3>1, FileInHand, FilesAssumption DEF IInv, Good, File
  <2>2. /\ Statement(p) \in Statements /\ Statement(p)[1] = File(p)
        /\ Statement(p)[2] = run[p].next
        /\ Statement(p) \in Of(File(p))
    BY <2>1, StatementsOf DEF Statement
  <2>3. /\ r.todo = run[p].todo /\ r.next = run[p].next + 1
        /\ r.pc = IF run[p].next = Length[File(p)] THEN "record" ELSE "apply"
        /\ r.tx = IF Transactional THEN run[p].tx \cup {Statement(p)} ELSE {}
        /\ r.recording = FALSE
    BY <2>1 DEF RunStates
  <2>4. r \in RunStates
    <3>1. /\ run[p].tx \cup {Statement(p)} \in SUBSET Statements
          /\ run[p].next + 1 \in Nat
      BY <2>1, <2>2 DEF RunStates
    <3>. QED
      BY <2>1, <3>1 DEF RunStates
  <2> HIDE DEF r
  <2>5. Done(r) = Done(run[p]) \cup {Statement(p)}
    <3>1. \A s \in Of(File(p)) :
            s[2] < run[p].next + 1 <=> s[2] < run[p].next \/ s = Statement(p)
      BY <2>1, StatementsOf DEF Statement
    <3>. QED
      BY <2>2, <2>3, <3>1 DEF Done, File
  <2>6. First(r.todo) = File(p)
    BY <2>3 DEF File
  <2>7. Good(r, Transactional)
    BY <2>1, <2>3, <2>5, <2>6 DEF Good
  <2>8. /\ schema_migrations' \in SUBSET Files
        /\ executed' \in [Statements -> Nat]
        /\ raced' \in BOOLEAN /\ runs' \in 0..MaxRuns /\ faults' \in 0..MaxFaults
        /\ UNCHANGED <<adapter, schema_migrations>>
    BY <1>2, <2>2 DEF IInv, TypeOK, Execute, NoFault
  <2>9. /\ TypeOK' /\ TxOfFile' /\ run'[p] = r
        /\ \A q \in Processes : q # p => run'[q] = run[q]
    BY <1>2, <2>4, <2>7, <2>8, OneRunChanges
  <2>10. RecordsApart'
    BY <2>3, <2>8, <2>9 DEF IInv, RecordsApart, Taken, File
  <2>11. HoldsTheRest'
    BY <2>1, <2>3, <2>8, <2>9 DEF IInv, HoldsTheRest
  <2>12. \A s \in Statements :
           /\ executed[s] > 0 => executed'[s] > 0
           /\ ~ Transactional /\ s = Statement(p) => executed'[s] > 0
           /\ Transactional => executed'[s] = executed[s]
    BY <1>2 DEF IInv, TypeOK
  <2>13. ExecutedWhereAutocommitted'
    <3>1. \A q \in Processes : Done(run[q]) \subseteq Statements
      BY DEF Done, Of
    <3>2. ASSUME ~ Transactional
          PROVE  \A s \in Done(r) : executed'[s] > 0
      BY <2>1, <2>2, <2>5, <2>12, <3>1, <3>2
         DEF IInv, ExecutedWhereAutocommitted
    <3>. QED
      BY <2>8, <2>9, <2>12, <3>1, <3>2
         DEF IInv, ExecutedWhereAutocommitted, Transactional
  <2>14. WholeFileOnce' /\ RecordedInOrder'
    BY <2>8, <2>12 DEF IInv, WholeFileOnce, RecordedInOrder, Transactional
  <2>. QED
    BY <2>9, <2>10, <2>11, <2>13, <2>14 DEF IInv
<1>. QED
  BY <1>1, <1>2 DEF Execute

(* The file in hand is recorded, and the run goes on.                      *)
LEMMA NextFileIsGood ==
  ASSUME IInv, NEW p \in Processes, run[p].pc \in {"record", "commit"},
         NEW r, r = NextFile(p)
  PROVE  /\ r \in RunStates /\ Good(r, Transactional)
         /\ r.pc \in {"idle", "apply"} /\ r.recording = FALSE
         /\ Done(r) = {}
         /\ r.pc = "apply" => r.todo = run[p].todo \ {File(p)}
<1>1. /\ run[p].todo \in SUBSET Files /\ File(p) \in run[p].todo
  BY FileInHand DEF IInv
<1>2. CASE run[p].todo = {File(p)}
  <2>1. r = Idle
    BY <1>2 DEF NextFile
  <2>2. /\ r \in RunStates /\ r.pc = "idle" /\ r.todo = {} /\ r.tx = {}
        /\ r.recording = FALSE /\ r.next = 1
    BY <2>1 DEF Idle, RunStates
  <2>3. Done(r) = {}
    BY <2>2, FilesAssumption DEF Done, Of, Statements
  <2>. QED
    BY <2>2, <2>3 DEF Good
<1>3. CASE run[p].todo # {File(p)}
  <2>1. r = [Idle EXCEPT !.pc = "apply", !.todo = run[p].todo \ {File(p)}]
    BY <1>3 DEF NextFile
  <2>2. /\ r \in RunStates /\ r.pc = "apply" /\ r.tx = {}
        /\ r.todo = run[p].todo \ {File(p)}
        /\ r.recording = FALSE /\ r.next = 1
    <3>1. /\ Idle \in RunStates /\ Idle.tx = {}
          /\ Idle.recording = FALSE /\ Idle.next = 1
      BY DEF Idle, RunStates
    <3>. QED
      BY <1>1, <2>1, <3>1 DEF RunStates
  <2>3. r.todo # {} /\ r.todo \in SUBSET Files
    BY <1>1, <1>3, <2>2
  <2>4. First(r.todo) \in Files
    BY <2>3, FirstIsLeast
  <2>5. Done(r) = {}
    BY <2>2, <2>4, StatementsOf DEF Done
  <2>. QED
    BY <2>2, <2>3, <2>4, <2>5, FilesAssumption DEF Good
<1>. QED
  BY <1>2, <1>3

LEMMA WholeFileDone ==
  ASSUME IInv, NEW p \in Processes, run[p].pc \in {"record", "commit"}
  PROVE  Done(run[p]) = Of(File(p))
<1>1. run[p].next = Length[File(p)] + 1 /\ File(p) \in Files
  BY FileInHand DEF IInv, TxOfFile, Good, File
<1>2. \A s \in Of(File(p)) : s[2] < run[p].next
  BY <1>1, StatementsOf, FilesAssumption
<1>. QED
  BY <1>2 DEF Done, File

LEMMA RecordingKeepsOrder ==
  ASSUME IInv, NEW p \in Processes, run[p].pc \in {"record", "commit"},
         schema_migrations' = schema_migrations \cup {File(p)}
  PROVE  \A f, g \in Files :
           Position[f] < Position[g] /\ g \in schema_migrations'
           => f \in schema_migrations'
<1>1. /\ \A g \in run[p].todo : Position[File(p)] <= Position[g]
      /\ File(p) \in Files
  BY FileInHand DEF IInv
<1>2. Files \ run[p].todo \subseteq schema_migrations
  BY DEF IInv, HoldsTheRest
<1>3. \A f \in Files : Position[f] \in Nat
  BY FilesAssumption
<1>4. \A f \in Files : Position[f] < Position[File(p)] => f \in schema_migrations
  BY <1>1, <1>2, <1>3
<1>. QED
  BY <1>1, <1>4 DEF IInv, RecordedInOrder

LEMMA RestStillHeld ==
  ASSUME IInv, NEW p \in Processes, run[p].pc \in {"record", "commit"},
         schema_migrations' = schema_migrations \cup {File(p)},
         run'[p] = NextFile(p),
         \A q \in Processes : q # p => run'[q] = run[q]
  PROVE  HoldsTheRest'
<1>1. Files \ run[p].todo \subseteq schema_migrations
  BY DEF IInv, HoldsTheRest
<1>2. PICK r : r = NextFile(p)
  OBVIOUS
<1>3. /\ r.pc \in {"idle", "apply"}
      /\ r.pc = "apply" => r.todo = run[p].todo \ {File(p)}
  BY <1>2, NextFileIsGood
<1>4. run'[p] = r
  BY <1>2
<1>. QED
  BY <1>1, <1>3, <1>4 DEF IInv, HoldsTheRest

LEMMA RecordKeepsIInv ==
  ASSUME IInv, NEW p \in Processes, Record(p)
  PROVE  IInv'
<1>1. run[p].pc = "record" /\ Good(run[p], Transactional)
  BY DEF IInv, TxOfFile, Record
<1>2. CASE Stop(p) /\ UNCHANGED schema_migrations
  BY <1>2, StopKeepsIInv DEF Record
<1>3. ASSUME ~ Taken(Version[File(p)]), Insert(p), NoFault
      PROVE  IInv'
  <2>1. /\ executed' \in [Statements -> Nat] /\ raced' \in BOOLEAN
        /\ runs' \in 0..MaxRuns /\ faults' \in 0..MaxFaults
        /\ UNCHANGED <<adapter, executed>>
    BY <1>3 DEF IInv, TypeOK, Record, NoFault
  <2>2. File(p) \in Files /\ run[p] \in RunStates
    BY <1>1, FileInHand DEF IInv
  <2>3. CASE Transactional
    <3> DEFINE r == [run[p] EXCEPT !.pc = "commit", !.recording = TRUE]
    <3>1. run' = [run EXCEPT ![p] = r] /\ UNCHANGED schema_migrations
      BY <1>3, <2>3 DEF Insert
    <3>2. /\ r \in RunStates /\ r.pc = "commit" /\ r.recording = TRUE
          /\ r.todo = run[p].todo /\ r.next = run[p].next
          /\ r.tx = run[p].tx
      BY <2>2 DEF RunStates
    <3> HIDE DEF r
    <3>3. Done(r) = Done(run[p])
      BY <3>2 DEF Done
    <3>4. Good(r, Transactional)
      BY <1>1, <2>3, <3>2, <3>3 DEF Good
    <3>5. schema_migrations' \in SUBSET Files
      BY <3>1 DEF IInv, TypeOK
    <3>6. /\ TypeOK' /\ TxOfFile' /\ run'[p] = r
          /\ \A q \in Processes : q # p => run'[q] = run[q]
      BY <2>1, <3>1, <3>2, <3>4, <3>5, OneRunChanges
    <3>7. \A q \in Processes : First(run'[q].todo) = File(q)
      BY <3>2, <3>6 DEF File
    <3>8. \A q \in Processes \ {p} :
            run[q].recording => Version[File(q)] # Version[File(p)]
      BY DEF Record, VersionLocked
    <3>9. RecordsApart'
      BY <1>3, <3>1, <3>6, <3>7, <3>8 DEF IInv, RecordsApart, Taken, File
    <3>10. HoldsTheRest'
      BY <1>1, <3>1, <3>2, <3>6 DEF IInv, HoldsTheRest
    <3>11. ExecutedWhereAutocommitted'
      BY <2>1, <2>3 DEF ExecutedWhereAutocommitted, Transactional
    <3>12. WholeFileOnce' /\ RecordedInOrder'
      BY <2>1, <3>1 DEF IInv, WholeFileOnce, RecordedInOrder, Transactional
    <3>. QED
      BY <3>6, <3>9, <3>10, <3>11, <3>12 DEF IInv
  <2>4. CASE ~ Transactional
    <3>1. PICK r : r = NextFile(p)
      OBVIOUS
    <3>2. /\ r \in RunStates /\ Good(r, Transactional)
          /\ r.pc \in {"idle", "apply"} /\ r.recording = FALSE
          /\ Done(r) = {}
      BY <1>1, <3>1, NextFileIsGood
    <3>3. /\ run' = [run EXCEPT ![p] = r]
          /\ schema_migrations' = schema_migrations \cup {File(p)}
      BY <1>3, <2>4, <3>1 DEF Insert
    <3>4. schema_migrations' \in SUBSET Files
      BY <2>2, <3>3 DEF IInv, TypeOK
    <3>5. /\ TypeOK' /\ TxOfFile' /\ run'[p] = r
          /\ \A q \in Processes : q # p => run'[q] = run[q]
      BY <2>1, <3>2, <3>3, <3>4, OneRunChanges
    <3>6. \A q \in Processes : run'[q].recording = FALSE
      BY <2>4, <3>2, <3>5 DEF IInv, TypeOK, RunStates, TxOfFile, Good
    <3>7. RecordsApart'
      BY <3>6 DEF RecordsApart
    <3>8. HoldsTheRest'
      BY <1>1, <3>1, <3>3, <3>5, RestStillHeld
    <3>9. ExecutedWhereAutocommitted'
      BY <2>1, <3>2, <3>5
         DEF IInv, ExecutedWhereAutocommitted, Transactional
    <3>10. WholeFileOnce'
      BY <2>1, <2>4 DEF WholeFileOnce, Transactional
    <3>11. \A s \in Statements : s[1] = File(p) => executed[s] > 0
      BY <1>1, <2>4, WholeFileDone DEF IInv, ExecutedWhereAutocommitted, Of
    <3>12. RecordedInOrder'
      BY <1>1, <2>1, <3>3, <3>11, RecordingKeepsOrder
         DEF IInv, RecordedInOrder
    <3>. QED
      BY <3>5, <3>7, <3>8, <3>9, <3>10, <3>12 DEF IInv
  <2>. QED
    BY <2>3, <2>4
<1>. QED
  BY <1>2, <1>3 DEF Record

LEMMA CommitKeepsIInv ==
  ASSUME IInv, NEW p \in Processes, Commit(p)
  PROVE  IInv'
<1>1. /\ run[p].pc = "commit" /\ Transactional /\ run[p].recording
      /\ run[p].tx = Of(File(p)) /\ File(p) \in Files
  <2>1. run[p].pc = "commit" /\ Good(run[p], Transactional)
    BY DEF IInv, TxOfFile, Commit
  <2>. QED
    BY <2>1, WholeFileDone, FileInHand DEF IInv, Good
<1>2. CASE Stop(p) /\ UNCHANGED <<schema_migrations, executed>>
  BY <1>2, StopKeepsIInv DEF Commit
<1>3. ASSUME schema_migrations' = schema_migrations \cup {File(p)},
             executed' = [s \in Statements |->
                            executed[s] + IF s \in run[p].tx THEN 1 ELSE 0],
             run' = [run EXCEPT ![p] = NextFile(p)],
             NoFault
      PROVE  IInv'
  <2>1. \A s \in Statements :
          /\ executed[s] \in Nat
          /\ executed'[s] = IF s[1] = File(p) THEN executed[s] + 1
                            ELSE executed[s]
    BY <1>1, <1>3 DEF IInv, TypeOK, Of
  <2>2. executed' \in [Statements -> Nat]
    BY <1>3, <2>1
  <2>3. /\ schema_migrations' \in SUBSET Files /\ raced' \in BOOLEAN
        /\ runs' \in 0..MaxRuns /\ faults' \in 0..MaxFaults
        /\ UNCHANGED adapter
    BY <1>1, <1>3 DEF IInv, TypeOK, Commit, NoFault
  <2>4. PICK r : r = NextFile(p)
    OBVIOUS
  <2>5. /\ r \in RunStates /\ Good(r, Transactional)
        /\ r.pc \in {"idle", "apply"} /\ r.recording = FALSE
    BY <1>1, <2>4, NextFileIsGood
  <2>6. run' = [run EXCEPT ![p] = r]
    BY <1>3, <2>4
  <2>7. /\ TypeOK' /\ TxOfFile' /\ run'[p] = r
        /\ \A q \in Processes : q # p => run'[q] = run[q]
    BY <2>2, <2>3, <2>5, <2>6, OneRunChanges
  <2>8. File(p) \notin schema_migrations
    BY <1>1 DEF IInv, RecordsApart, Taken
  <2>9. RecordsApart'
    BY <1>1, <1>3, <2>5, <2>7 DEF IInv, RecordsApart, Taken, File
  <2>10. HoldsTheRest'
    BY <1>1, <1>3, <2>4, <2>7, RestStillHeld
  <2>11. ExecutedWhereAutocommitted'
    BY <1>1, <2>3 DEF ExecutedWhereAutocommitted, Transactional
  <2>12. WholeFileOnce'
    BY <1>1, <1>3, <2>1, <2>3, <2>8 DEF IInv, WholeFileOnce, Transactional
  <2>13. RecordedInOrder'
    BY <1>1, <1>3, <2>1, RecordingKeepsOrder DEF IInv, RecordedInOrder
  <2>. QED
    BY <2>7, <2>9, <2>10, <2>11, <2>12, <2>13 DEF IInv
<1>. QED
  BY <1>2, <1>3 DEF Commit

LEMMA NextKeepsIInv == IInv /\ [Next]_vars => IInv'
<1> SUFFICES ASSUME IInv, [Next]_vars PROVE IInv'
  OBVIOUS
<1>1. ASSUME NEW p \in Processes,
             \/ Start(p) \/ ReadPending(p) \/ Execute(p)
             \/ Record(p) \/ Commit(p) \/ Crash(p)
      PROVE  IInv'
  BY <1>1, StartKeepsIInv, ReadPendingKeepsIInv, ExecuteKeepsIInv,
     RecordKeepsIInv, CommitKeepsIInv, CrashKeepsIInv
<1>2. CASE UNCHANGED vars
  BY <1>2 DEF vars, IInv, TypeOK, TxOfFile, RecordsApart, Taken, File,
     HoldsTheRest, ExecutedWhereAutocommitted, WholeFileOnce,
     RecordedInOrder, Transactional
<1>. QED
  BY <1>1, <1>2 DEF Next

LEMMA Invariance == Spec => []IInv
BY InitIInv, NextKeepsIInv, PTL DEF Spec

-----------------------------------------------------------------------------
(* As long as runs come one after the other and nothing fails: what has    *)
(* been executed is recorded, or is of the file that is being applied.     *)

VersionsDiffer == \A f, g \in Files : Version[f] = Version[g] => f = g

Smooth ==
  /\ \A p \in Processes : ~ run[p].failed
  /\ \A p, q \in Processes : run[p].pc # "idle" /\ run[q].pc # "idle" => p = q
  /\ \A p \in Processes : run[p].todo \cap schema_migrations = {}
  /\ \A s \in Statements :
       executed[s] > 0 =>
         \/ s[1] \in schema_migrations
         \/ \E p \in Processes :
              run[p].pc \in {"apply", "record"} /\ s \in Done(run[p])

SmoothSoFar == ~ raced /\ faults = 0 => Smooth

(* The next statement of the one run has no effect yet, and its file is    *)
(* not recorded by this or another name.                                   *)
LEMMA NothingInTheWay ==
  ASSUME IInv, Smooth, VersionsDiffer, NEW p \in Processes,
         run[p].pc \in {"apply", "record"}
  PROVE  /\ File(p) \in Files /\ File(p) \notin schema_migrations
         /\ ~ Taken(Version[File(p)])
         /\ run[p].pc = "apply" =>
              /\ ~ (executed[Statement(p)] > 0)
              /\ ~ Contended(p, Statement(p))
<1>1. /\ File(p) \in Files /\ File(p) \in run[p].todo /\ Good(run[p], Transactional)
  BY FileInHand DEF IInv, TxOfFile
<1>2. File(p) \notin schema_migrations
  BY <1>1 DEF Smooth
<1>3. ~ Taken(Version[File(p)])
  BY <1>1, <1>2 DEF Taken, VersionsDiffer, IInv, TypeOK
<1>4. \A q \in Processes : q # p => run[q].pc = "idle"
  BY DEF Smooth
<1>5. ~ Contended(p, Statement(p))
  BY <1>4 DEF Contended, IInv, TxOfFile, Good
<1>6. ASSUME run[p].pc = "apply" PROVE ~ (executed[Statement(p)] > 0)
  <2>1. /\ Statement(p) \in Statements /\ Statement(p)[1] = File(p)
        /\ Statement(p)[2] = run[p].next /\ run[p].next \in Nat
    BY <1>1, <1>6, StatementsOf DEF Statement, Good, File, Of
  <2>2. Statement(p) \notin Done(run[p])
    BY <2>1 DEF Done
  <2>. QED
    BY <1>2, <1>4, <2>1, <2>2 DEF Smooth
<1>. QED
  BY <1>1, <1>2, <1>3, <1>5, <1>6

(* One run goes on, to r.                                                  *)
LEMMA GoesOn ==
  ASSUME IInv, Smooth, NEW p \in Processes, NEW r,
         run' = [run EXCEPT ![p] = r], ~ r.failed,
         r.pc # "idle" => \A q \in Processes : q # p => run[q].pc = "idle",
         r.todo \cap schema_migrations' = {},
         \A q \in Processes :
           q # p => run[q].todo \cap schema_migrations' = {},
         \A s \in Statements :
           executed'[s] > 0 =>
             \/ s[1] \in schema_migrations'
             \/ r.pc \in {"apply", "record"} /\ s \in Done(r)
             \/ \E q \in Processes :
                  /\ q # p /\ run[q].pc \in {"apply", "record"}
                  /\ s \in Done(run[q])
  PROVE  Smooth'
<1>1. run'[p] = r /\ \A q \in Processes : q # p => run'[q] = run[q]
  BY DEF IInv, TypeOK
<1>2. \A q \in Processes : ~ run'[q].failed
  BY <1>1 DEF Smooth
<1>3. \A q, t \in Processes : run'[q].pc # "idle" /\ run'[t].pc # "idle" => q = t
  BY <1>1 DEF Smooth
<1>4. \A q \in Processes : run'[q].todo \cap schema_migrations' = {}
  BY <1>1
<1>5. \A s \in Statements :
        executed'[s] > 0 =>
          \/ s[1] \in schema_migrations'
          \/ \E q \in Processes :
               run'[q].pc \in {"apply", "record"} /\ s \in Done(run'[q])
  BY <1>1
<1>6. \A q \in Processes : Done(run[q])' = Done(run'[q])
  BY DEF Done, Of
<1>. QED
  BY <1>2, <1>3, <1>4, <1>5, <1>6 DEF Smooth

LEMMA RunsSmoothly ==
  ASSUME IInv, Smooth, VersionsDiffer, NEW p \in Processes,
         faults' = faults, ~ Fault, ~ raced',
         \/ Start(p) \/ ReadPending(p) \/ Execute(p)
         \/ Record(p) \/ Commit(p) \/ Crash(p)
  PROVE  Smooth'
<1>1. CASE Start(p)
  <2>1. PICK r : r = [Idle EXCEPT !.pc = "pending"]
    OBVIOUS
  <2>2. ~ r.failed /\ r.todo = {} /\ r.pc = "pending"
    BY <2>1 DEF Idle
  <2>3. /\ run' = [run EXCEPT ![p] = r] /\ UNCHANGED <<schema_migrations, executed>>
        /\ \A q \in Processes : run[q].pc = "idle"
    BY <1>1, <2>1 DEF Start
  <2>. QED
    BY <2>2, <2>3, GoesOn DEF Smooth
<1>2. CASE ReadPending(p)
  <2>1. /\ run[p].pc = "pending" /\ run[p] \in RunStates
        /\ \A q \in Processes : q # p => run[q].pc = "idle"
        /\ ~ run[p].failed /\ UNCHANGED <<schema_migrations, executed>>
    BY <1>2 DEF ReadPending, IInv, TypeOK, Smooth
  <2>2. PICK r : r = IF Pending = {} THEN Idle
                     ELSE [run[p] EXCEPT !.pc = "apply", !.todo = Pending]
    OBVIOUS
  <2>3. ~ r.failed /\ r.todo \cap schema_migrations = {}
    BY <2>1, <2>2 DEF Idle, Pending, RunStates
  <2>4. run' = [run EXCEPT ![p] = r]
    BY <1>2, <2>2 DEF ReadPending
  <2>. QED
    BY <2>1, <2>3, <2>4, GoesOn DEF Smooth
<1>3. CASE Execute(p)
  <2>1. /\ run[p].pc = "apply" /\ run[p] \in RunStates
        /\ Good(run[p], Transactional) /\ ~ run[p].failed
        /\ \A q \in Processes : q # p => run[q].pc = "idle"
        /\ UNCHANGED schema_migrations /\ run[p].todo \cap schema_migrations = {}
    BY <1>3 DEF Execute, IInv, TypeOK, TxOfFile, Smooth
  <2>2. /\ File(p) \in Files /\ ~ (executed[Statement(p)] > 0)
        /\ ~ Contended(p, Statement(p))
    BY <2>1, NothingInTheWay
  <2>3. PICK r : r = [run[p] EXCEPT
                        !.pc = IF run[p].next = Length[File(p)]
                               THEN "record" ELSE "apply",
                        !.next = run[p].next + 1,
                        !.tx = IF Transactional
                               THEN run[p].tx \cup {Statement(p)} ELSE {}]
    OBVIOUS
  <2>4. /\ ~ r.failed /\ r.todo = run[p].todo /\ r.next = run[p].next + 1
        /\ r.pc \in {"apply", "record"}
    BY <2>1, <2>3 DEF RunStates
  <2>5. /\ run' = [run EXCEPT ![p] = r]
        /\ executed' = IF Transactional THEN executed
                       ELSE [executed EXCEPT ![Statement(p)] = @ + 1]
    BY <1>3, <2>2, <2>3 DEF Execute
  <2>6. /\ Statement(p) \in Of(File(p)) /\ Statement(p) \in Statements
        /\ Statement(p)[2] = run[p].next /\ run[p].next \in Nat
    BY <2>1, <2>2, StatementsOf DEF Statement, Good, File
  <2>7. /\ \A s \in Of(File(p)) : s[2] \in Nat
        /\ First(r.todo) = File(p)
    BY <2>2, <2>4, StatementsOf DEF File
  <2>8. Statement(p) \in Done(r) /\ Done(run[p]) \subseteq Done(r)
    BY <2>4, <2>6, <2>7 DEF Done, File
  <2>9. \A s \in Statements :
          executed'[s] > 0 => executed[s] > 0 \/ s = Statement(p)
    BY <2>5 DEF IInv, TypeOK
  <2>10. \A s \in Statements :
           executed'[s] > 0 => s[1] \in schema_migrations \/ s \in Done(r)
    BY <2>1, <2>8, <2>9 DEF Smooth
  <2>. QED
    BY <2>1, <2>4, <2>5, <2>10, GoesOn DEF Smooth
<1>4. ASSUME schema_migrations' = schema_migrations \cup {File(p)},
             run' = [run EXCEPT ![p] = NextFile(p)],
             run[p].pc \in {"record", "commit"},
             \A s \in Statements :
               executed'[s] > 0 => executed[s] > 0 \/ s \in Of(File(p))
      PROVE  Smooth'
  <2>1. PICK r : r = NextFile(p)
    OBVIOUS
  <2>2. /\ r.pc \in {"idle", "apply"}
        /\ r.pc = "apply" => r.todo = run[p].todo \ {File(p)}
    BY <1>4, <2>1, NextFileIsGood
  <2>3. ~ r.failed /\ r.todo \subseteq run[p].todo \ {File(p)}
    BY <2>1 DEF NextFile, Idle
  <2>4. \A q \in Processes : q # p => run[q].pc = "idle" /\ run[q].todo = {}
    BY <1>4 DEF Smooth, IInv, TxOfFile, Good
  <2>5. r.todo \cap schema_migrations' = {}
    BY <1>4, <2>3 DEF Smooth
  <2>6. \A s \in Done(run[p]) : s[1] = File(p)
    BY DEF Done, Of, File
  <2>7. \A s \in Statements : executed'[s] > 0 => s[1] \in schema_migrations'
    BY <1>4, <2>4, <2>6 DEF Smooth, Of
  <2>. QED
    BY <1>4, <2>1, <2>2, <2>3, <2>4, <2>5, <2>7, GoesOn
<1>5. CASE Record(p)
  <2>1. run[p].pc = "record" /\ ~ Taken(Version[File(p)])
    BY <1>5, NothingInTheWay DEF Record
  <2>2. Insert(p) /\ UNCHANGED executed
    BY <1>5, <2>1 DEF Record
  <2>3. CASE Transactional
    <3>1. PICK r : r = [run[p] EXCEPT !.pc = "commit", !.recording = TRUE]
      OBVIOUS
    <3>2. run' = [run EXCEPT ![p] = r] /\ UNCHANGED schema_migrations
      BY <2>2, <2>3, <3>1 DEF Insert
    <3>3. r.failed = run[p].failed /\ r.todo = run[p].todo /\ r.pc = "commit"
      BY <3>1 DEF IInv, TypeOK, RunStates
    <3>4. \A s \in Statements : executed'[s] > 0 => s[1] \in schema_migrations
      BY <2>2, <2>3 DEF IInv, WholeFileOnce
    <3>5. \A q \in Processes : q # p => run[q].pc = "idle"
      BY <2>1 DEF Smooth
    <3>. QED
      BY <3>2, <3>3, <3>4, <3>5, GoesOn DEF Smooth
  <2>4. CASE ~ Transactional
    BY <1>4, <2>1, <2>2, <2>4 DEF Insert
  <2>. QED
    BY <2>3, <2>4
<1>6. CASE Commit(p)
  <2>1. /\ schema_migrations' = schema_migrations \cup {File(p)}
        /\ executed' = [s \in Statements |->
                          executed[s] + IF s \in run[p].tx THEN 1 ELSE 0]
        /\ run' = [run EXCEPT ![p] = NextFile(p)]
        /\ run[p].pc = "commit"
    BY <1>6 DEF Commit
  <2>2. run[p].tx \subseteq Of(File(p))
    BY DEF IInv, TxOfFile, Good, Done, File
  <2>3. \A s \in Statements :
          executed'[s] > 0 => executed[s] > 0 \/ s \in Of(File(p))
    BY <2>1, <2>2 DEF IInv, TypeOK
  <2>. QED
    BY <1>4, <2>1, <2>3
<1>. QED
  BY <1>1, <1>2, <1>3, <1>5, <1>6 DEF Crash

LEMMA SmoothInit == Init => SmoothSoFar
BY DEF Init, Idle, SmoothSoFar, Smooth

LEMMA SmoothNext ==
  ASSUME VersionsDiffer
  PROVE  IInv /\ SmoothSoFar /\ [Next]_vars => SmoothSoFar'
<1> SUFFICES ASSUME IInv, SmoothSoFar, [Next]_vars, ~ raced', faults' = 0
             PROVE  Smooth'
  BY DEF SmoothSoFar
<1>1. ASSUME NEW p \in Processes,
             \/ Start(p) \/ ReadPending(p) \/ Execute(p)
             \/ Record(p) \/ Commit(p) \/ Crash(p)
      PROVE  Smooth'
  <2>1. faults \in Nat /\ (NoFault \/ Fault \/ UNCHANGED faults)
    BY <1>1 DEF IInv, TypeOK, Start, ReadPending, Execute, Record, Commit, Crash
  <2>2. faults = 0 /\ faults' = faults /\ ~ Fault
    BY <2>1 DEF NoFault, Fault
  <2>3. ~ raced
    BY <1>1 DEF Start, ReadPending, Execute, Record, Commit, Crash
  <2>4. Smooth
    BY <2>2, <2>3 DEF SmoothSoFar
  <2>. QED
    BY <1>1, <2>2, <2>4, RunsSmoothly
<1>2. CASE UNCHANGED vars
  BY <1>2 DEF vars, SmoothSoFar, Smooth, Done, Of
<1>. QED
  BY <1>1, <1>2 DEF Next

-----------------------------------------------------------------------------
(* Every variable keeps its type, and a run that holds no file is idle or  *)
(* has not read the table yet (MigrateTask::runAction).                    *)
THEOREM TypeCorrect == Spec => []TypeOK
BY Invariance, PTL DEF IInv

(* Where a file is one transaction, it is applied once and whole, however  *)
(* many runs overlap and wherever they die.                                *)
THEOREM AppliedOnceAndWhole == Spec => []WholeFileOnce
BY Invariance, PTL DEF IInv

(* On every database, a file is recorded only when all of it has been      *)
(* executed and every file before it has been recorded.                    *)
THEOREM AppliedInOrder == Spec => []RecordedInOrder
BY Invariance, PTL DEF IInv

(* Where the names of the files are distinct, also between modules, a run  *)
(* by itself fails only when a statement or the process does, however many *)
(* runs went before.  The condition cannot be dropped: see the run         *)
(* migrate_collision.                                                      *)
THEOREM FaultlessRunsSucceed ==
  ASSUME VersionsDiffer PROVE Spec => []FailsOnFaultsOnly
<1>1. IInv /\ SmoothSoFar => FailsOnFaultsOnly
  BY DEF SmoothSoFar, Smooth, FailsOnFaultsOnly
<1>2. Spec => [](IInv /\ SmoothSoFar)
  <2>1. IInv /\ SmoothSoFar /\ [Next]_vars => (IInv /\ SmoothSoFar)'
    BY NextKeepsIInv, SmoothNext
  <2>. QED
    BY <2>1, InitIInv, SmoothInit, PTL DEF Spec
<1>. QED
  BY <1>1, <1>2, PTL
=============================================================================
