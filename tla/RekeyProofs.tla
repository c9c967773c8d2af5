---------------------------- MODULE RekeyProofs ----------------------------
(***************************************************************************)
(* Proofs about Rekey, for every set of secrets, keys and stash files, and *)
(* any number of rekeys, requests and faults.                              *)
(*                                                                         *)
(* NoneStranded says that some key that is held reads every secret.  Which *)
(* key that is depends on how far the command has come (DataOnOneKey): the *)
(* key file's before the commit and after the swap, the stash file's in    *)
(* between and for as long as the operator has not copied it back.  The    *)
(* stash file is safe for that long, because no command reuses it and only *)
(* a verified one is deleted (StashesKept).                                *)
(*                                                                         *)
(* What the secrets are (DataKept), and that a command which nothing went  *)
(* wrong for leaves them on the key file's key (ReadableAtRest), takes a   *)
(* second invariant, KInv: what the command holds in memory, and what its  *)
(* transaction has written, is what is stored.                             *)
(***************************************************************************)
EXTENDS Rekey, TLAPS

Busy == {w \in Writers : writer[w].pc # "idle"}

(* What is typed beyond TypeOK, so that it is kept.                        *)
Sound ==
  /\ cmd.pc # "idle" => cmd.file \in Stashes
  /\ cmd.pc = "update" => cmd.todo \subseteq Found
  /\ \A w \in Writers :
       /\ writer[w].pc \in {"generate", "encrypt"} => writer[w].data \in Data
       /\ writer[w].pc # "idle" => writer[w].secret \in Secrets
       /\ writer[w].pc = "save" => writer[w].row \in Rows

Calm == ~ raced /\ ~ late

Stashed == {"update", "rollback", "swap", "write", "verify"}
PastCommit == {"swap", "write", "verify"}

(* One request at a time, and none beside the command.                     *)
Alone ==
  /\ \A w, v \in Busy : w = v
  /\ Busy # {} => cmd.pc = "idle"
  /\ \A w \in Writers :
       /\ writer[w].pc \in {"generate", "encrypt"} => owed = {}
       /\ writer[w].pc = "generate" => key_file = NoFile

NoKeyNoSecrets ==
  key_file = NoFile =>
    /\ cmd.pc = "idle" /\ owed = {}
    /\ \A s \in Secrets : rows[s] = NoRow
    /\ \A w \in Writers : writer[w].pc # "save"

StashesKept ==
  /\ \A f \in owed \cup verified : stash[f] \in Keys
  /\ owed \cap verified = {}
  /\ cmd.pc \in Stashed =>
       /\ cmd.new \in Keys
       /\ stash[cmd.file] = cmd.new
       /\ cmd.file \notin owed \cup verified

(* The values that were read are the values there are.                     *)
AllRead ==
  /\ cmd.pc = "read" =>
       \A s \in Secrets \ cmd.todo : rows[s] # NoRow => s \in Found
  /\ cmd.pc \in {"stash", "update"} =>
       \A s \in Secrets : rows[s] # NoRow => s \in Found

TxOnNewKey ==
  /\ cmd.pc \notin {"update", "rollback"} => tx = NoTx
  /\ \A s \in Secrets : tx[s] # NoRow => tx[s].key = cmd.new
  /\ cmd.pc = "update" =>
       \A s \in Found : s \in cmd.todo \/ tx[s] # NoRow

OnKey(key) ==
  /\ \A s \in Secrets : rows[s] # NoRow => rows[s].key = key
  /\ \A w \in Writers : writer[w].pc = "save" => writer[w].row.key = key

DataOnOneKey ==
  /\ cmd.pc \notin PastCommit =>
       /\ owed = {} => OnKey(key_file)
       /\ \A f \in owed : OnKey(stash[f])
  /\ cmd.pc \in PastCommit => owed = {} /\ OnKey(cmd.new)
  /\ cmd.pc = "verify" => key_file = cmd.new

Guarded ==
  /\ Alone
  /\ NoKeyNoSecrets
  /\ StashesKept
  /\ AllRead
  /\ TxOnNewKey
  /\ DataOnOneKey

IInv == TypeOK /\ Sound /\ (Calm => Guarded)

-----------------------------------------------------------------------------
(* Types.                                                                  *)
-----------------------------------------------------------------------------

CommandPcs ==
  {"idle", "read", "stash", "update", "rollback", "swap", "write", "verify"}

LEMMA NoCommandIsState ==
  NoCommand \in CommandStates /\ NoCommand.pc = "idle"
BY DEF NoCommand, CommandStates

LEMMA NoWriterIsState ==
  NoWriter \in WriterStates /\ NoWriter.pc = "idle"
BY DEF NoWriter, WriterStates

LEMMA GoesTyped ==
  ASSUME TypeOK, NEW pc \in CommandPcs, NEW todo \in SUBSET Secrets,
         Goes(pc, todo)
  PROVE  /\ cmd' \in CommandStates
         /\ cmd'.pc = pc /\ cmd'.todo = todo /\ cmd'.plain = cmd.plain
         /\ cmd'.new = cmd.new /\ cmd'.old = cmd.old /\ cmd'.file = cmd.file
         /\ Found' = Found
<1>1. cmd \in CommandStates /\ cmd' = [cmd EXCEPT !.pc = pc, !.todo = todo]
  BY DEF TypeOK, Goes
<1>2. /\ cmd' \in CommandStates
      /\ cmd'.pc = pc /\ cmd'.todo = todo /\ cmd'.plain = cmd.plain
      /\ cmd'.new = cmd.new /\ cmd'.old = cmd.old /\ cmd'.file = cmd.file
  BY <1>1 DEF CommandStates, CommandPcs
<1>. QED
  BY <1>2 DEF Found

LEMMA StopsTyped ==
  ASSUME Stops
  PROVE  cmd' \in CommandStates /\ cmd'.pc = "idle"
BY NoCommandIsState DEF Stops

LEMMA Counts ==
  ASSUME TypeOK, NoFault \/ Fault
  PROVE  /\ rekeys' \in 0..MaxRekeys /\ writes' \in 0..MaxWrites
         /\ faults' \in 0..MaxFaults
BY BoundsAssumption DEF TypeOK, NoFault, Fault

LEMMA FoundTyped ==
  ASSUME TypeOK
  PROVE  /\ cmd \in CommandStates /\ Found \subseteq Secrets
         /\ \A s \in Found : cmd.plain[s] \in Data
BY DEF TypeOK, Found, CommandStates

(* A step of the command that leaves the requests alone.                   *)
LEMMA CommandStepTyped ==
  ASSUME TypeOK, Sound, cmd' \in CommandStates,
         cmd'.pc # "idle" => cmd'.file \in Stashes,
         cmd'.pc = "update" => cmd'.todo \subseteq Found',
         key_file' \in Keys \cup {EmptyKey, Torn, NoFile},
         stash' \in [Stashes -> Keys \cup {Torn, NoFile}],
         used' \in SUBSET Keys,
         rows' \in [Secrets -> Rows \cup {NoRow}],
         tx' \in [Secrets -> Rows \cup {NoRow}],
         owed' \in SUBSET Stashes, verified' \in SUBSET Stashes,
         raced' \in BOOLEAN, UNCHANGED <<writer, late>>,
         rekeys' \in 0..MaxRekeys, writes' \in 0..MaxWrites,
         faults' \in 0..MaxFaults
  PROVE  TypeOK' /\ Sound'
BY DEF TypeOK, Sound

LEMMA StartTypes ==
  ASSUME TypeOK, Sound, NEW f \in Stashes, Start(f)
  PROVE  TypeOK' /\ Sound'
<1>1. /\ key_file \in Keys \cup {EmptyKey, Torn} /\ rekeys' \in 0..MaxRekeys
      /\ raced' \in BOOLEAN
  BY BoundsAssumption DEF TypeOK, Start
<1>2. /\ cmd' = [NoCommand EXCEPT !.pc = "read", !.todo = Secrets,
                                  !.old = key_file, !.file = f]
      /\ UNCHANGED <<key_file, stash, used, rows, tx, writer, owed, verified,
                     late, writes, faults>>
  BY DEF Start, operator
<1>3. /\ cmd' \in CommandStates /\ cmd'.pc = "read" /\ cmd'.file = f
  BY <1>1, <1>2 DEF NoCommand, CommandStates
<1>. QED
  BY <1>1, <1>2, <1>3, CommandStepTyped DEF TypeOK

LEMMA ReadSecretTypes ==
  ASSUME TypeOK, Sound, NEW s \in Secrets, ReadSecret(s)
  PROVE  TypeOK' /\ Sound'
<1>1. /\ UNCHANGED <<key_file, stash, used, rows, tx, writer, owed, verified,
                     raced, late, rekeys, writes, faults>>
      /\ cmd.pc = "read" /\ cmd \in CommandStates
  BY DEF ReadSecret, operator, history, NoFault, TypeOK
<1>2. /\ cmd' \in CommandStates
      /\ cmd'.pc \in {"idle", "read"}
      /\ cmd'.pc = "read" => cmd'.file = cmd.file
  <2>1. CASE Goes("read", cmd.todo \ {s})
    BY <1>1, <2>1, GoesTyped DEF CommandStates, CommandPcs
  <2>2. CASE /\ rows[s] # NoRow
             /\ cmd' = [cmd EXCEPT !.todo = cmd.todo \ {s},
                          !.plain = [cmd.plain EXCEPT ![s] = rows[s].data]]
    <3>1. rows[s].data \in Data
      BY <2>2 DEF TypeOK, Rows
    <3>2. [cmd.plain EXCEPT ![s] = rows[s].data] \in [Secrets -> Data \cup {NoRow}]
      BY <1>1, <3>1 DEF CommandStates
    <3>. QED
      BY <1>1, <2>2, <3>2 DEF CommandStates
  <2>3. CASE Stops
    BY <2>3, StopsTyped
  <2>. QED
    BY <2>1, <2>2, <2>3 DEF ReadSecret
<1>. QED
  BY <1>1, <1>2, CommandStepTyped DEF TypeOK, Sound

LEMMA ReadAllTypes ==
  ASSUME TypeOK, Sound, ReadAll
  PROVE  TypeOK' /\ Sound'
<1>1. /\ UNCHANGED <<key_file, stash, used, rows, tx, writer, owed, verified,
                     raced, late, rekeys, writes, faults>>
      /\ cmd.pc = "read" /\ Goes("stash", {})
  BY DEF ReadAll, operator, history, NoFault
<1>2. cmd' \in CommandStates /\ cmd'.pc = "stash" /\ cmd'.file = cmd.file
  BY <1>1, GoesTyped DEF CommandPcs
<1>. QED
  BY <1>1, <1>2, CommandStepTyped DEF TypeOK, Sound

LEMMA StashKeyTypes ==
  ASSUME TypeOK, Sound, StashKey
  PROVE  TypeOK' /\ Sound'
<1>1. /\ UNCHANGED <<key_file, rows, tx, writer, owed, verified, raced, late>>
      /\ cmd.pc = "stash" /\ cmd \in CommandStates /\ cmd.file \in Stashes
      /\ rekeys' \in 0..MaxRekeys /\ writes' \in 0..MaxWrites
      /\ faults' \in 0..MaxFaults
  BY Counts DEF StashKey, operator, history, TypeOK, Sound
<1>2. CASE Stops /\ UNCHANGED <<used, stash>>
  BY <1>1, <1>2, StopsTyped, CommandStepTyped DEF TypeOK
<1>3. ASSUME NEW new \in Keys, used' = used \cup {new},
             stash' = [stash EXCEPT ![cmd.file] = new],
             cmd' = [cmd EXCEPT !.pc = "update", !.todo = Found, !.new = new]
      PROVE  TypeOK' /\ Sound'
  <2>1. Found \subseteq Secrets
    BY FoundTyped
  <2>2. /\ cmd' \in CommandStates /\ cmd'.file = cmd.file
        /\ cmd'.todo = Found /\ cmd'.plain = cmd.plain
    BY <1>1, <1>3, <2>1 DEF CommandStates
  <2>3. Found' = Found
    BY <2>2 DEF Found
  <2>4. stash' \in [Stashes -> Keys \cup {Torn, NoFile}] /\ used' \in SUBSET Keys
    BY <1>3 DEF TypeOK
  <2>. QED
    BY <1>1, <2>2, <2>3, <2>4, CommandStepTyped DEF TypeOK
<1>4. ASSUME NEW new \in Keys, used' = used \cup {new},
             stash' = [stash EXCEPT ![cmd.file] = Torn], Stops
      PROVE  TypeOK' /\ Sound'
  <2>1. stash' \in [Stashes -> Keys \cup {Torn, NoFile}] /\ used' \in SUBSET Keys
    BY <1>4 DEF TypeOK
  <2>. QED
    BY <1>1, <1>4, <2>1, StopsTyped, CommandStepTyped DEF TypeOK
<1>. QED
  BY <1>2, <1>3, <1>4 DEF StashKey

LEMMA UpdateSecretTypes ==
  ASSUME TypeOK, Sound, NEW s \in Secrets, UpdateSecret(s)
  PROVE  TypeOK' /\ Sound'
<1>1. /\ UNCHANGED <<key_file, stash, used, rows, writer, owed, verified, raced,
                     late>>
      /\ cmd.pc = "update" /\ s \in cmd.todo /\ cmd \in CommandStates
      /\ rekeys' \in 0..MaxRekeys /\ writes' \in 0..MaxWrites
      /\ faults' \in 0..MaxFaults
  BY Counts DEF UpdateSecret, operator, history, TypeOK
<1>2. CASE /\ tx' = [tx EXCEPT ![s] = [key |-> cmd.new, data |-> cmd.plain[s]]]
           /\ Goes("update", cmd.todo \ {s})
  <2>1. cmd.todo \ {s} \in SUBSET Secrets
    BY <1>1 DEF CommandStates
  <2>2. /\ cmd' \in CommandStates /\ cmd'.todo = cmd.todo \ {s}
        /\ cmd'.file = cmd.file /\ Found' = Found
    BY <1>2, <2>1, GoesTyped DEF CommandPcs
  <2>3. [key |-> cmd.new, data |-> cmd.plain[s]] \in Rows
    BY <1>1, FoundTyped DEF Sound, Rows, CommandStates
  <2>4. tx' \in [Secrets -> Rows \cup {NoRow}]
    BY <1>2, <2>3 DEF TypeOK
  <2>. QED
    BY <1>1, <2>2, <2>4, CommandStepTyped DEF TypeOK, Sound
<1>3. CASE Goes("rollback", {}) /\ UNCHANGED tx
  <2>1. cmd' \in CommandStates /\ cmd'.pc = "rollback" /\ cmd'.file = cmd.file
    BY <1>3, GoesTyped DEF CommandPcs
  <2>. QED
    BY <1>1, <1>3, <2>1, CommandStepTyped DEF TypeOK, Sound
<1>. QED
  BY <1>2, <1>3 DEF UpdateSecret

LEMMA NoTxTyped == NoTx \in [Secrets -> Rows \cup {NoRow}]
BY DEF NoTx

LEMMA CommittedTyped ==
  TypeOK => Committed \in [Secrets -> Rows \cup {NoRow}]
BY DEF TypeOK, Committed

LEMMA CommitTypes ==
  ASSUME TypeOK, Sound, Commit
  PROVE  TypeOK' /\ Sound'
<1>1. /\ UNCHANGED <<key_file, stash, used, writer, verified, raced, late>>
      /\ rekeys' \in 0..MaxRekeys /\ writes' \in 0..MaxWrites
      /\ faults' \in 0..MaxFaults /\ cmd.pc = "update"
  BY Counts DEF Commit, history
<1>2. CASE rows' = Committed /\ tx' = NoTx /\ owed' = {} /\ Goes("swap", {})
  <2>1. cmd' \in CommandStates /\ cmd'.pc = "swap" /\ cmd'.file = cmd.file
    BY <1>2, GoesTyped DEF CommandPcs
  <2>. QED
    BY <1>1, <1>2, <2>1, NoTxTyped, CommittedTyped, CommandStepTyped
       DEF TypeOK, Sound
<1>3. CASE Goes("rollback", {}) /\ UNCHANGED <<rows, tx, owed>>
  <2>1. cmd' \in CommandStates /\ cmd'.pc = "rollback" /\ cmd'.file = cmd.file
    BY <1>3, GoesTyped DEF CommandPcs
  <2>. QED
    BY <1>1, <1>3, <2>1, CommandStepTyped DEF TypeOK, Sound
<1>. QED
  BY <1>2, <1>3 DEF Commit

LEMMA RollbackTypes ==
  ASSUME TypeOK, Sound, Rollback
  PROVE  TypeOK' /\ Sound'
<1>1. /\ UNCHANGED <<key_file, used, rows, writer, owed, verified, raced, late>>
      /\ rekeys' \in 0..MaxRekeys /\ writes' \in 0..MaxWrites
      /\ faults' \in 0..MaxFaults /\ tx' = NoTx /\ Stops
  BY Counts DEF Rollback, operator, history
<1>2. stash' \in [Stashes -> Keys \cup {Torn, NoFile}]
  BY DEF TypeOK, Rollback
<1>. QED
  BY <1>1, <1>2, NoTxTyped, StopsTyped, CommandStepTyped DEF TypeOK

LEMMA SwapKeyTypes ==
  ASSUME TypeOK, Sound, SwapKey \/ WriteKey
  PROVE  TypeOK' /\ Sound'
<1>1. /\ UNCHANGED <<stash, used, rows, tx, writer, verified, raced, late>>
      /\ rekeys' \in 0..MaxRekeys /\ writes' \in 0..MaxWrites
      /\ faults' \in 0..MaxFaults /\ cmd.pc # "idle"
      /\ cmd.file \in Stashes /\ cmd.new \in Keys \cup {EmptyKey}
  BY Counts DEF SwapKey, WriteKey, history, TypeOK, Sound, CommandStates
<1>2. /\ key_file' \in Keys \cup {EmptyKey, Torn, NoFile}
      /\ owed' \in SUBSET Stashes
  BY <1>1 DEF SwapKey, WriteKey, TypeOK
<1>3. \/ Goes("write", {}) \/ Goes("verify", {}) \/ Stops
  BY DEF SwapKey, WriteKey
<1>4. /\ cmd' \in CommandStates /\ cmd'.pc \in {"idle", "write", "verify"}
      /\ cmd'.pc # "idle" => cmd'.file = cmd.file
  BY <1>3, GoesTyped, StopsTyped DEF CommandPcs
<1>. QED
  BY <1>1, <1>2, <1>4, CommandStepTyped DEF TypeOK

LEMMA VerifyTypes ==
  ASSUME TypeOK, Sound, Verify
  PROVE  TypeOK' /\ Sound'
<1>1. /\ UNCHANGED <<key_file, stash, used, rows, tx, writer, raced, late>>
      /\ rekeys' \in 0..MaxRekeys /\ writes' \in 0..MaxWrites
      /\ faults' \in 0..MaxFaults /\ Stops /\ cmd.file \in Stashes
  BY Counts DEF Verify, history, Sound
<1>2. owed' \in SUBSET Stashes /\ verified' \in SUBSET Stashes
  BY <1>1 DEF Verify, TypeOK
<1>. QED
  BY <1>1, <1>2, StopsTyped, CommandStepTyped DEF TypeOK

LEMMA CrashTypes ==
  ASSUME TypeOK, Sound, Crash
  PROVE  TypeOK' /\ Sound'
<1>1. /\ UNCHANGED <<key_file, used, rows, writer, verified, raced, late>>
      /\ rekeys' \in 0..MaxRekeys /\ writes' \in 0..MaxWrites
      /\ faults' \in 0..MaxFaults /\ Stops /\ cmd.file \in Stashes
      /\ tx' = NoTx
  BY Counts DEF Crash, history, Sound
<1>2. /\ owed' \in SUBSET Stashes
      /\ stash' \in [Stashes -> Keys \cup {Torn, NoFile}]
  BY <1>1 DEF Crash, TypeOK
<1>. QED
  BY <1>1, <1>2, NoTxTyped, StopsTyped, CommandStepTyped DEF TypeOK

(* A step of a request, or of the operator, that leaves the command alone. *)
WriterSound(r) ==
  /\ r.pc \in {"generate", "encrypt"} => r.data \in Data
  /\ r.pc # "idle" => r.secret \in Secrets
  /\ r.pc = "save" => r.row \in Rows

LEMMA WriterStepTyped ==
  ASSUME TypeOK, Sound, NEW w \in Writers, NEW r \in WriterStates,
         WriterSound(r), writer' = [writer EXCEPT ![w] = r],
         key_file' \in Keys \cup {EmptyKey, Torn, NoFile},
         used' \in SUBSET Keys, rows' \in [Secrets -> Rows \cup {NoRow}],
         raced' \in BOOLEAN, late' \in BOOLEAN, writes' \in 0..MaxWrites,
         UNCHANGED <<stash, tx, cmd, owed, verified, rekeys, faults>>
  PROVE  /\ TypeOK' /\ Sound'
         /\ writer'[w] = r
         /\ \A v \in Writers : v # w => writer'[v] = writer[v]
<1>1. /\ writer' \in [Writers -> WriterStates]
      /\ writer'[w] = r
      /\ \A v \in Writers : v # w => writer'[v] = writer[v]
  BY DEF TypeOK
<1>2. TypeOK'
  BY <1>1 DEF TypeOK
<1>3. Sound'
  BY <1>1 DEF Sound, WriterSound, Found
<1>. QED
  BY <1>1, <1>2, <1>3

LEMMA StoreFacts ==
  ASSUME TypeOK, Sound, NEW w \in Writers, Store(w)
  PROVE  /\ TypeOK' /\ Sound'
         /\ writer'[w].pc = IF key_file = NoFile THEN "generate" ELSE "encrypt"
         /\ \A v \in Writers : v # w => writer'[v] = writer[v]
<1>1. PICK s \in Secrets, d \in Data :
        writer' = [writer EXCEPT
                     ![w] = [NoWriter EXCEPT
                               !.pc = IF key_file = NoFile THEN "generate"
                                      ELSE "encrypt",
                               !.secret = s, !.data = d]]
  BY DEF Store
<1>2. PICK r : r = [NoWriter EXCEPT
                      !.pc = IF key_file = NoFile THEN "generate" ELSE "encrypt",
                      !.secret = s, !.data = d]
  OBVIOUS
<1>3. /\ r \in WriterStates /\ WriterSound(r)
      /\ r.pc = IF key_file = NoFile THEN "generate" ELSE "encrypt"
  BY <1>2 DEF NoWriter, WriterStates, WriterSound
<1>4. /\ writes' \in 0..MaxWrites /\ raced' \in BOOLEAN /\ late' \in BOOLEAN
      /\ UNCHANGED <<key_file, stash, used, rows, tx, cmd, owed, verified,
                     rekeys, faults>>
  BY BoundsAssumption DEF TypeOK, Store, operator
<1>. QED
  BY <1>1, <1>2, <1>3, <1>4, WriterStepTyped DEF TypeOK

LEMMA GenerateKeyFacts ==
  ASSUME TypeOK, Sound, NEW w \in Writers, GenerateKey(w)
  PROVE  /\ TypeOK' /\ Sound' /\ key_file' \in Keys
         /\ writer'[w].pc = "encrypt"
         /\ \A v \in Writers : v # w => writer'[v] = writer[v]
<1>1. PICK r : r = [writer[w] EXCEPT !.pc = "encrypt"]
  OBVIOUS
<1>2. /\ r \in WriterStates /\ WriterSound(r) /\ r.pc = "encrypt"
  BY <1>1 DEF GenerateKey, TypeOK, Sound, WriterStates, WriterSound
<1>3. /\ writer' = [writer EXCEPT ![w] = r]
      /\ UNCHANGED <<stash, rows, tx, cmd, owed, verified, raced, late, rekeys,
                     writes, faults>>
      /\ key_file' \in Keys /\ used' \in SUBSET Keys
  BY <1>1 DEF GenerateKey, operator, history, bounds, TypeOK
<1>. QED
  BY <1>2, <1>3, WriterStepTyped DEF TypeOK

LEMMA EncryptFacts ==
  ASSUME TypeOK, Sound, NEW w \in Writers, Encrypt(w)
  PROVE  /\ TypeOK' /\ Sound'
         /\ writer'[w].pc \in {"idle", "save"}
         /\ writer'[w].pc = "save" =>
              key_file \in Keys /\ writer'[w].row.key = key_file
         /\ \A v \in Writers : v # w => writer'[v] = writer[v]
<1>1. /\ writer[w] \in WriterStates /\ writer[w].data \in Data
      /\ writer[w].secret \in Secrets
      /\ UNCHANGED <<key_file, stash, used, rows, tx, cmd, owed, verified, raced,
                     late, rekeys, writes, faults>>
  BY DEF Encrypt, operator, history, bounds, TypeOK, Sound
<1>2. CASE key_file \in Keys
  <2>1. PICK r : r = [writer[w] EXCEPT
                        !.pc = "save",
                        !.row = [key |-> key_file, data |-> writer[w].data]]
    OBVIOUS
  <2>2. [key |-> key_file, data |-> writer[w].data] \in Rows
    BY <1>1, <1>2 DEF Rows
  <2>3. /\ r \in WriterStates /\ WriterSound(r) /\ r.pc = "save"
        /\ r.row.key = key_file
    BY <1>1, <2>1, <2>2 DEF WriterStates, WriterSound
  <2>4. writer' = [writer EXCEPT ![w] = r]
    BY <1>2, <2>1 DEF Encrypt
  <2>. QED
    BY <1>1, <1>2, <2>3, <2>4, WriterStepTyped DEF TypeOK
<1>3. CASE key_file \notin Keys
  <2>1. writer' = [writer EXCEPT ![w] = NoWriter]
    BY <1>3 DEF Encrypt
  <2>. QED
    BY <1>1, <2>1, NoWriterIsState, WriterStepTyped DEF TypeOK, WriterSound
<1>. QED
  BY <1>2, <1>3

LEMMA EditFacts ==
  ASSUME TypeOK, Sound, NEW w \in Writers, Edit(w)
  PROVE  /\ TypeOK' /\ Sound'
         /\ \E s \in Secrets : rows[s] # NoRow /\ writer'[w].row = rows[s]
         /\ \A v \in Writers : v # w => writer'[v] = writer[v]
<1>1. PICK s \in Secrets :
        /\ rows[s] # NoRow
        /\ writer' = [writer EXCEPT
                        ![w] = [NoWriter EXCEPT !.pc = "save", !.secret = s,
                                                !.row = rows[s]]]
  BY DEF Edit
<1>2. PICK r : r = [NoWriter EXCEPT !.pc = "save", !.secret = s, !.row = rows[s]]
  OBVIOUS
<1>3. /\ r \in WriterStates /\ WriterSound(r) /\ r.row = rows[s]
  BY <1>1, <1>2 DEF NoWriter, WriterStates, WriterSound, TypeOK
<1>4. /\ writes' \in 0..MaxWrites /\ raced' \in BOOLEAN
      /\ UNCHANGED <<key_file, stash, used, rows, tx, cmd, owed, verified, late,
                     rekeys, faults>>
  BY BoundsAssumption DEF TypeOK, Edit, operator
<1>. QED
  BY <1>1, <1>2, <1>3, <1>4, WriterStepTyped DEF TypeOK

LEMMA SaveSecretFacts ==
  ASSUME TypeOK, Sound, NEW w \in Writers, SaveSecret(w)
  PROVE  /\ TypeOK' /\ Sound'
         /\ writer'[w].pc = "idle"
         /\ \A v \in Writers : v # w => writer'[v] = writer[v]
         /\ \A s \in Secrets : rows'[s] \in {rows[s], writer[w].row}
<1>1. /\ writer' = [writer EXCEPT ![w] = NoWriter]
      /\ rows' = [rows EXCEPT ![writer[w].secret] = writer[w].row]
      /\ writer[w].row \in Rows
      /\ UNCHANGED <<key_file, stash, used, tx, cmd, owed, verified, raced,
                     late, rekeys, writes, faults>>
  BY DEF SaveSecret, operator, history, bounds, Sound
<1>2. /\ rows' \in [Secrets -> Rows \cup {NoRow}]
      /\ \A s \in Secrets : rows'[s] \in {rows[s], writer[w].row}
  BY <1>1 DEF TypeOK
<1>. QED
  BY <1>1, <1>2, NoWriterIsState, WriterStepTyped DEF TypeOK, WriterSound

LEMMA RemoveTypes ==
  ASSUME TypeOK, Sound, NEW s \in Secrets, Remove(s)
  PROVE  TypeOK' /\ Sound'
<1>1. /\ rows' = [rows EXCEPT ![s] = NoRow]
      /\ writes' \in 0..MaxWrites /\ raced' \in BOOLEAN
      /\ UNCHANGED <<key_file, stash, used, tx, cmd, writer, owed, verified,
                     late, rekeys, faults>>
  BY BoundsAssumption DEF TypeOK, Remove, operator
<1>2. rows' \in [Secrets -> Rows \cup {NoRow}]
  BY <1>1 DEF TypeOK
<1>3. TypeOK'
  BY <1>1, <1>2 DEF TypeOK
<1>4. Sound'
  BY <1>1 DEF Sound, Found
<1>. QED
  BY <1>3, <1>4

LEMMA OperatorTypes ==
  ASSUME TypeOK, Sound, NEW f \in Stashes, Restore(f) \/ Discard(f)
  PROVE  TypeOK' /\ Sound'
<1>1. /\ UNCHANGED <<used, rows, tx, cmd, writer, raced, late, rekeys, writes,
                     faults>>
      /\ key_file' \in Keys \cup {EmptyKey, Torn, NoFile}
      /\ stash' \in [Stashes -> Keys \cup {Torn, NoFile}]
      /\ owed' \in SUBSET Stashes /\ verified' \in SUBSET Stashes
  BY DEF TypeOK, Restore, Discard, history, bounds
<1>2. TypeOK'
  BY <1>1 DEF TypeOK
<1>3. Sound'
  BY <1>1 DEF Sound, Found
<1>. QED
  BY <1>2, <1>3

-----------------------------------------------------------------------------
(* The steps of the command keep Guarded.                                  *)
-----------------------------------------------------------------------------

Quiet == \A w \in Writers : writer[w].pc = "idle"

LEMMA CommandIsQuiet ==
  ASSUME Guarded, cmd.pc # "idle"
  PROVE  Quiet /\ key_file # NoFile
BY DEF Guarded, Alone, Busy, NoKeyNoSecrets, Quiet

LEMMA QuietStep ==
  ASSUME Quiet, UNCHANGED writer, key_file' # NoFile
  PROVE  Alone' /\ NoKeyNoSecrets'
BY DEF Quiet, Alone, Busy, NoKeyNoSecrets

(* Nothing but the command's own variables moves.                          *)
LEMMA LocalStep ==
  ASSUME Guarded, Calm, cmd.pc # "idle",
         UNCHANGED <<key_file, stash, rows, tx, writer, owed, verified>>,
         cmd.pc \notin Stashed, cmd'.pc \notin Stashed,
         AllRead'
  PROVE  Guarded'
<1>1. Quiet /\ key_file # NoFile
  BY CommandIsQuiet
<1>2. Alone' /\ NoKeyNoSecrets'
  BY <1>1, QuietStep
<1>3. StashesKept'
  BY DEF Guarded, StashesKept
<1>4. TxOnNewKey'
  <2>1. tx = NoTx
    BY DEF Guarded, TxOnNewKey, Stashed
  <2>. QED
    BY <2>1 DEF TxOnNewKey, Stashed, NoTx
<1>5. DataOnOneKey'
  BY DEF Guarded, DataOnOneKey, OnKey, PastCommit, Stashed
<1>. QED
  BY <1>2, <1>3, <1>4, <1>5 DEF Guarded

LEMMA StartKeepsGuarded ==
  ASSUME IInv, NEW f \in Stashes, Start(f), Calm'
  PROVE  Guarded'
<1>1. /\ cmd' = [NoCommand EXCEPT !.pc = "read", !.todo = Secrets,
                                  !.old = key_file, !.file = f]
      /\ UNCHANGED <<key_file, stash, rows, tx, writer, owed, verified>>
      /\ Quiet /\ Calm /\ key_file # NoFile /\ cmd.pc = "idle"
  BY DEF Start, operator, Calm, WriterBusy, Quiet
<1>2. cmd'.pc = "read" /\ cmd'.todo = Secrets
  BY <1>1 DEF NoCommand
<1>3. Guarded
  BY <1>1 DEF IInv
<1>4. Alone' /\ NoKeyNoSecrets'
  BY <1>1, QuietStep
<1>5. StashesKept'
  BY <1>1, <1>2, <1>3 DEF Guarded, StashesKept, Stashed
<1>6. AllRead'
  BY <1>2 DEF AllRead
<1>7. TxOnNewKey'
  <2>1. tx' = NoTx
    BY <1>1, <1>3 DEF Guarded, TxOnNewKey
  <2>. QED
    BY <1>2, <2>1 DEF TxOnNewKey, NoTx
<1>8. DataOnOneKey'
  BY <1>1, <1>2, <1>3 DEF Guarded, DataOnOneKey, OnKey, PastCommit
<1>. QED
  BY <1>4, <1>5, <1>6, <1>7, <1>8 DEF Guarded

LEMMA ReadSecretKeepsGuarded ==
  ASSUME IInv, NEW s \in Secrets, ReadSecret(s), Calm'
  PROVE  Guarded'
<1>1. /\ UNCHANGED <<key_file, stash, rows, tx, writer, owed, verified>>
      /\ cmd.pc = "read" /\ cmd \in CommandStates /\ Calm /\ Guarded
  BY DEF ReadSecret, operator, history, IInv, TypeOK, Calm
<1>2. \A q \in Secrets \ cmd.todo : rows[q] # NoRow => cmd.plain[q] # NoRow
  BY <1>1 DEF Guarded, AllRead, Found
<1>3. cmd'.pc \in {"idle", "read"} /\ AllRead'
  <2>1. CASE rows[s] = NoRow /\ Goes("read", cmd.todo \ {s})
    <3>1. /\ cmd'.pc = "read" /\ cmd'.todo = cmd.todo \ {s}
          /\ cmd'.plain = cmd.plain
      BY <1>1, <2>1, GoesTyped DEF CommandStates, CommandPcs, IInv
    <3>. QED
      BY <1>1, <1>2, <2>1, <3>1 DEF AllRead, Found
  <2>2. CASE /\ rows[s] # NoRow
             /\ cmd' = [cmd EXCEPT !.todo = cmd.todo \ {s},
                          !.plain = [cmd.plain EXCEPT ![s] = rows[s].data]]
    <3>1. rows[s].data \in Data
      BY <2>2 DEF IInv, TypeOK, Rows
    <3>2. /\ cmd'.pc = "read" /\ cmd'.todo = cmd.todo \ {s}
          /\ \A q \in Secrets : cmd'.plain[q] = IF q = s THEN rows[s].data
                                               ELSE cmd.plain[q]
      BY <1>1, <2>2 DEF CommandStates
    <3>3. \A q \in Secrets \ cmd'.todo : rows[q] # NoRow => cmd'.plain[q] # NoRow
      BY <1>2, <3>1, <3>2, NullsAssumption
    <3>. QED
      BY <1>1, <3>2, <3>3 DEF AllRead, Found
  <2>3. CASE Stops
    BY <2>3, StopsTyped DEF AllRead
  <2>. QED
    BY <2>1, <2>2, <2>3 DEF ReadSecret
<1>. QED
  BY <1>1, <1>3, LocalStep DEF Stashed

LEMMA ReadAllKeepsGuarded ==
  ASSUME IInv, ReadAll, Calm'
  PROVE  Guarded'
<1>1. /\ UNCHANGED <<key_file, stash, rows, tx, writer, owed, verified>>
      /\ cmd.pc = "read" /\ cmd.todo = {} /\ Goes("stash", {})
      /\ Calm /\ Guarded
  BY DEF ReadAll, operator, history, IInv, Calm
<1>2. cmd'.pc = "stash" /\ Found' = Found
  BY <1>1, GoesTyped DEF CommandPcs, IInv
<1>3. AllRead'
  BY <1>1, <1>2 DEF Guarded, AllRead
<1>. QED
  BY <1>1, <1>2, <1>3, LocalStep DEF Stashed

LEMMA StashKeyKeepsGuarded ==
  ASSUME IInv, StashKey, Calm'
  PROVE  Guarded'
<1>1. /\ UNCHANGED <<key_file, rows, tx, writer, owed, verified>>
      /\ cmd.pc = "stash" /\ cmd.file \in Stashes /\ cmd \in CommandStates
      /\ Calm /\ Guarded
  BY DEF StashKey, operator, history, IInv, Calm, Sound, TypeOK
<1>2. Quiet /\ key_file # NoFile /\ tx = NoTx
  BY <1>1, CommandIsQuiet DEF Guarded, TxOnNewKey
<1>3. Alone' /\ NoKeyNoSecrets'
  BY <1>1, <1>2, QuietStep
<1>4. CASE Stops /\ UNCHANGED stash
  <2>1. cmd'.pc = "idle" /\ AllRead'
    BY <1>4, StopsTyped DEF AllRead
  <2>. QED
    BY <1>1, <1>4, <2>1, LocalStep DEF Stashed
<1>5. ASSUME NEW key \in Keys \cup {Torn}, stash[cmd.file] = NoFile,
             stash' = [stash EXCEPT ![cmd.file] = key]
      PROVE  /\ \A f \in owed \cup verified : f # cmd.file /\ stash'[f] = stash[f]
             /\ stash'[cmd.file] = key
             /\ \A f \in owed \cup verified : stash'[f] \in Keys
  BY <1>1, <1>5, NullsAssumption DEF Guarded, StashesKept, IInv, TypeOK
<1>6. ASSUME NEW new \in Keys, stash[cmd.file] = NoFile,
             stash' = [stash EXCEPT ![cmd.file] = new],
             cmd' = [cmd EXCEPT !.pc = "update", !.todo = Found, !.new = new]
      PROVE  Guarded'
  <2>1. /\ cmd'.pc = "update" /\ cmd'.todo = Found /\ cmd'.new = new
        /\ cmd'.file = cmd.file /\ cmd'.plain = cmd.plain
    BY <1>1, <1>6 DEF CommandStates
  <2>2. /\ \A f \in owed \cup verified :
             f # cmd.file /\ stash'[f] = stash[f] /\ stash'[f] \in Keys
        /\ stash'[cmd.file] = new
    BY <1>5, <1>6
  <2>3. Found' = Found
    BY <2>1 DEF Found
  <2>4. StashesKept'
    BY <1>1, <2>1, <2>2 DEF Guarded, StashesKept
  <2>5. AllRead'
    BY <1>1, <2>1, <2>3 DEF Guarded, AllRead
  <2>6. TxOnNewKey'
    BY <1>1, <1>2, <2>1, <2>3 DEF TxOnNewKey, NoTx
  <2>7. DataOnOneKey'
    BY <1>1, <2>1, <2>2 DEF Guarded, DataOnOneKey, OnKey, PastCommit
  <2>. QED
    BY <1>3, <2>4, <2>5, <2>6, <2>7 DEF Guarded
<1>7. ASSUME stash[cmd.file] = NoFile,
             stash' = [stash EXCEPT ![cmd.file] = Torn], Stops
      PROVE  Guarded'
  <2>1. cmd'.pc = "idle"
    BY <1>7, StopsTyped
  <2>2. \A f \in owed \cup verified : stash'[f] = stash[f] /\ stash'[f] \in Keys
    BY <1>5, <1>7
  <2>3. StashesKept' /\ AllRead'
    BY <1>1, <2>1, <2>2 DEF Guarded, StashesKept, Stashed, AllRead
  <2>4. TxOnNewKey'
    BY <1>1, <1>2, <2>1 DEF TxOnNewKey, NoTx
  <2>5. DataOnOneKey'
    BY <1>1, <2>1, <2>2 DEF Guarded, DataOnOneKey, OnKey, PastCommit
  <2>. QED
    BY <1>3, <2>3, <2>4, <2>5 DEF Guarded
<1>. QED
  BY <1>4, <1>6, <1>7 DEF StashKey

LEMMA UpdateSecretKeepsGuarded ==
  ASSUME IInv, NEW s \in Secrets, UpdateSecret(s), Calm'
  PROVE  Guarded'
<1>1. /\ UNCHANGED <<key_file, stash, rows, writer, owed, verified>>
      /\ cmd.pc = "update" /\ s \in cmd.todo /\ cmd \in CommandStates
      /\ cmd.todo \subseteq Found /\ Found \subseteq Secrets
      /\ Calm /\ Guarded
  BY FoundTyped
     DEF UpdateSecret, operator, history, IInv, Calm, TypeOK, Sound
<1>2. Quiet /\ key_file # NoFile
  BY <1>1, CommandIsQuiet
<1>3. Alone' /\ NoKeyNoSecrets'
  BY <1>1, <1>2, QuietStep
<1>4. ASSUME NEW pc \in {"update", "rollback"}, NEW todo \in SUBSET Secrets,
             Goes(pc, todo), TxOnNewKey'
      PROVE  Guarded'
  <2>1. /\ cmd'.pc = pc /\ cmd'.todo = todo /\ cmd'.new = cmd.new
        /\ cmd'.file = cmd.file /\ Found' = Found
    BY <1>4, GoesTyped DEF CommandPcs, IInv
  <2>2. StashesKept' /\ AllRead'
    BY <1>1, <2>1 DEF Guarded, StashesKept, Stashed, AllRead
  <2>3. DataOnOneKey'
    BY <1>1, <2>1 DEF Guarded, DataOnOneKey, OnKey, PastCommit
  <2>. QED
    BY <1>3, <1>4, <2>2, <2>3 DEF Guarded
<1>5. CASE /\ tx' = [tx EXCEPT ![s] = [key |-> cmd.new, data |-> cmd.plain[s]]]
           /\ Goes("update", cmd.todo \ {s})
  <2>1. cmd.todo \ {s} \in SUBSET Secrets
    BY <1>1
  <2>2. /\ cmd'.pc = "update" /\ cmd'.todo = cmd.todo \ {s}
        /\ cmd'.new = cmd.new /\ Found' = Found
    BY <1>5, <2>1, GoesTyped DEF CommandPcs, IInv
  <2>3. [key |-> cmd.new, data |-> cmd.plain[s]] \in Rows
    BY <1>1, FoundTyped DEF IInv, Rows, CommandStates
  <2>4. /\ tx'[s] # NoRow /\ tx'[s].key = cmd.new
        /\ \A q \in Secrets : q # s => tx'[q] = tx[q]
    BY <1>5, <2>3, NullsAssumption DEF IInv, TypeOK
  <2>5. TxOnNewKey'
    BY <1>1, <2>2, <2>4 DEF Guarded, TxOnNewKey
  <2>. QED
    BY <1>4, <1>5, <2>1, <2>5
<1>6. CASE Goes("rollback", {}) /\ UNCHANGED tx
  <2>1. cmd'.pc = "rollback" /\ cmd'.new = cmd.new
    BY <1>6, GoesTyped DEF CommandPcs, IInv
  <2>2. TxOnNewKey'
    BY <1>1, <1>6, <2>1 DEF Guarded, TxOnNewKey
  <2>. QED
    BY <1>4, <1>6, <2>2
<1>. QED
  BY <1>5, <1>6 DEF UpdateSecret

(* All the secrets are on the new key at once.                             *)
LEMMA CommitKeepsGuarded ==
  ASSUME IInv, Commit, Calm'
  PROVE  Guarded'
<1>1. /\ UNCHANGED <<key_file, stash, writer, verified>>
      /\ cmd.pc = "update" /\ cmd.todo = {} /\ Calm /\ Guarded
  BY DEF Commit, history, IInv, Calm
<1>2. Quiet /\ key_file # NoFile
  BY <1>1, CommandIsQuiet
<1>3. Alone' /\ NoKeyNoSecrets'
  BY <1>1, <1>2, QuietStep
<1>4. CASE rows' = Committed /\ tx' = NoTx /\ owed' = {} /\ Goes("swap", {})
  <2>1. cmd'.pc = "swap" /\ cmd'.new = cmd.new /\ cmd'.file = cmd.file
    BY <1>4, GoesTyped DEF CommandPcs, IInv
  <2>2. \A s \in Secrets : rows'[s] = IF tx[s] = NoRow THEN rows[s] ELSE tx[s]
    BY <1>4 DEF Committed
  <2>3. \A s \in Secrets : rows[s] # NoRow => tx[s] # NoRow
    BY <1>1 DEF Guarded, AllRead, TxOnNewKey
  <2>4. \A s \in Secrets : rows'[s] # NoRow => rows'[s].key = cmd.new
    BY <1>1, <2>2, <2>3 DEF Guarded, TxOnNewKey
  <2>5. DataOnOneKey'
    BY <1>1, <1>2, <1>4, <2>1, <2>4 DEF DataOnOneKey, OnKey, PastCommit, Quiet
  <2>6. StashesKept'
    BY <1>1, <1>4, <2>1 DEF Guarded, StashesKept, Stashed
  <2>7. AllRead' /\ TxOnNewKey'
    BY <1>4, <2>1 DEF AllRead, TxOnNewKey, NoTx
  <2>. QED
    BY <1>3, <2>5, <2>6, <2>7 DEF Guarded
<1>5. CASE Goes("rollback", {}) /\ UNCHANGED <<rows, tx, owed>>
  <2>1. cmd'.pc = "rollback" /\ cmd'.new = cmd.new /\ cmd'.file = cmd.file
    BY <1>5, GoesTyped DEF CommandPcs, IInv
  <2>2. StashesKept' /\ AllRead' /\ TxOnNewKey'
    BY <1>1, <1>5, <2>1
       DEF Guarded, StashesKept, Stashed, AllRead, TxOnNewKey
  <2>3. DataOnOneKey'
    BY <1>1, <1>5, <2>1 DEF Guarded, DataOnOneKey, OnKey, PastCommit
  <2>. QED
    BY <1>3, <2>2, <2>3 DEF Guarded
<1>. QED
  BY <1>4, <1>5 DEF Commit

(* The command ends: what its stash file holds has become owed, is known   *)
(* to be in the key file, or never mattered.                               *)
LEMMA EndKeepsGuarded ==
  ASSUME IInv, Guarded, cmd.pc # "idle", cmd'.pc = "idle", tx' = NoTx,
         UNCHANGED <<rows, writer>>, key_file' # NoFile,
         owed' \in SUBSET Stashes,
         \A f \in owed' \cup verified' : stash'[f] \in Keys,
         owed' \cap verified' = {},
         owed' = {} => OnKey(key_file'),
         \A f \in owed' : OnKey(stash'[f])
  PROVE  Guarded'
<1>1. Quiet
  BY CommandIsQuiet
<1>2. Alone' /\ NoKeyNoSecrets'
  BY <1>1, QuietStep
<1>3. StashesKept' /\ AllRead' /\ TxOnNewKey'
  BY DEF StashesKept, Stashed, AllRead, TxOnNewKey, NoTx
<1>4. DataOnOneKey'
  BY DEF DataOnOneKey, OnKey, PastCommit
<1>. QED
  BY <1>2, <1>3, <1>4 DEF Guarded

LEMMA RollbackKeepsGuarded ==
  ASSUME IInv, Rollback, Calm'
  PROVE  Guarded'
<1>1. /\ UNCHANGED <<key_file, rows, writer, owed, verified>>
      /\ cmd.pc = "rollback" /\ tx' = NoTx /\ Stops /\ Calm /\ Guarded
      /\ cmd.file \in Stashes
  BY DEF Rollback, operator, history, IInv, Calm, Sound
<1>2. cmd'.pc = "idle" /\ key_file # NoFile
  BY <1>1, StopsTyped, CommandIsQuiet
<1>3. cmd.file \notin owed \cup verified
  BY <1>1 DEF Guarded, StashesKept, Stashed
<1>4. owed \subseteq Stashes /\ verified \subseteq Stashes
  BY DEF IInv, TypeOK
<1>5. \A f \in owed \cup verified : stash'[f] = stash[f] /\ stash[f] \in Keys
  BY <1>1, <1>3, <1>4 DEF Rollback, IInv, TypeOK, Guarded, StashesKept
<1>6. /\ owed = {} => OnKey(key_file)
      /\ \A f \in owed : OnKey(stash[f])
      /\ owed \cap verified = {}
  BY <1>1 DEF Guarded, DataOnOneKey, PastCommit, StashesKept
<1>. QED
  BY <1>1, <1>2, <1>4, <1>5, <1>6, EndKeepsGuarded

LEMMA PastCommitFacts ==
  ASSUME Guarded, Sound, TypeOK, cmd.pc \in PastCommit
  PROVE  /\ Quiet /\ key_file # NoFile /\ tx = NoTx
         /\ owed = {} /\ OnKey(cmd.new) /\ cmd.new \in Keys
         /\ cmd.file \in Stashes /\ stash[cmd.file] = cmd.new
         /\ cmd.file \notin verified
         /\ \A f \in verified : stash[f] \in Keys
         /\ cmd.pc = "verify" => key_file = cmd.new
BY CommandIsQuiet
   DEF Guarded, DataOnOneKey, PastCommit, StashesKept, Stashed, TxOnNewKey,
       Sound

(* The command stops after its commit: the stash file is owed.             *)
LEMMA OwedKeepsGuarded ==
  ASSUME IInv, Guarded, cmd.pc \in PastCommit, cmd'.pc = "idle", tx' = NoTx,
         UNCHANGED <<stash, rows, writer, verified>>, key_file' # NoFile,
         owed' = owed \cup {cmd.file}
  PROVE  Guarded'
<1>1. /\ cmd.pc # "idle" /\ owed = {} /\ OnKey(cmd.new) /\ cmd.new \in Keys
      /\ cmd.file \in Stashes /\ stash[cmd.file] = cmd.new
      /\ cmd.file \notin verified /\ \A f \in verified : stash[f] \in Keys
  BY PastCommitFacts DEF IInv, PastCommit
<1>2. owed' = {cmd.file}
  BY <1>1
<1>. QED
  BY <1>1, <1>2, EndKeepsGuarded

LEMMA SwapKeyKeepsGuarded ==
  ASSUME IInv, SwapKey \/ WriteKey, Calm'
  PROVE  Guarded'
<1>1. /\ UNCHANGED <<stash, rows, tx, writer, verified>>
      /\ cmd.pc \in {"swap", "write"} /\ Calm /\ Guarded
  BY DEF SwapKey, WriteKey, history, IInv, Calm
<1>2. /\ Quiet /\ key_file # NoFile /\ tx = NoTx
      /\ owed = {} /\ OnKey(cmd.new) /\ cmd.new \in Keys
      /\ cmd.file \in Stashes /\ stash[cmd.file] = cmd.new
      /\ cmd.file \notin verified
  BY <1>1, PastCommitFacts DEF IInv, PastCommit
<1>3. ASSUME NEW pc \in {"write", "verify"}, Goes(pc, {}), UNCHANGED owed,
             key_file' # NoFile, pc = "verify" => key_file' = cmd.new
      PROVE  Guarded'
  <2>1. cmd'.pc = pc /\ cmd'.new = cmd.new /\ cmd'.file = cmd.file
    BY <1>3, GoesTyped DEF CommandPcs, IInv
  <2>2. Alone' /\ NoKeyNoSecrets'
    BY <1>1, <1>2, <1>3, QuietStep
  <2>3. StashesKept' /\ AllRead' /\ TxOnNewKey'
    BY <1>1, <1>2, <1>3, <2>1
       DEF Guarded, StashesKept, Stashed, AllRead, TxOnNewKey, NoTx
  <2>4. DataOnOneKey'
    BY <1>1, <1>2, <1>3, <2>1 DEF DataOnOneKey, OnKey, PastCommit
  <2>. QED
    BY <2>2, <2>3, <2>4 DEF Guarded
<1>4. ASSUME Stops, key_file' # NoFile, owed' = owed \cup {cmd.file}
      PROVE  Guarded'
  BY <1>1, <1>2, <1>4, StopsTyped, OwedKeepsGuarded DEF PastCommit
<1>5. CASE SwapKey
  BY <1>2, <1>3, <1>4, <1>5, NullsAssumption DEF SwapKey
<1>6. CASE WriteKey
  BY <1>2, <1>3, <1>4, <1>6, NullsAssumption DEF WriteKey
<1>. QED
  BY <1>5, <1>6

LEMMA VerifyKeepsGuarded ==
  ASSUME IInv, Verify, Calm'
  PROVE  Guarded'
<1>1. /\ UNCHANGED <<key_file, stash, rows, tx, writer>>
      /\ cmd.pc = "verify" /\ Stops /\ Calm /\ Guarded
  BY DEF Verify, history, IInv, Calm
<1>2. cmd'.pc = "idle"
  BY <1>1, StopsTyped
<1>3. /\ Quiet /\ key_file # NoFile /\ tx = NoTx
      /\ owed = {} /\ OnKey(cmd.new) /\ cmd.new \in Keys
      /\ cmd.file \in Stashes /\ stash[cmd.file] = cmd.new
      /\ key_file = cmd.new /\ \A f \in verified : stash[f] \in Keys
  BY <1>1, PastCommitFacts DEF IInv, PastCommit
<1>4. CASE verified' = verified \cup {cmd.file} /\ UNCHANGED owed
  BY <1>1, <1>2, <1>3, <1>4, EndKeepsGuarded
<1>5. CASE owed' = owed \cup {cmd.file} /\ UNCHANGED verified
  BY <1>1, <1>2, <1>3, <1>5, OwedKeepsGuarded DEF PastCommit
<1>. QED
  BY <1>4, <1>5 DEF Verify

LEMMA CrashKeepsGuarded ==
  ASSUME IInv, Crash, Calm'
  PROVE  Guarded'
<1>1. /\ UNCHANGED <<key_file, rows, writer, verified>>
      /\ cmd.pc # "idle" /\ Stops /\ tx' = NoTx /\ Calm /\ Guarded
      /\ cmd.file \in Stashes
  BY DEF Crash, history, IInv, Calm, Sound
<1>2. cmd'.pc = "idle" /\ key_file # NoFile
  BY <1>1, StopsTyped, CommandIsQuiet
<1>3. CASE cmd.pc \in PastCommit
  <2>1. UNCHANGED stash /\ owed' = owed \cup {cmd.file}
    BY <1>3 DEF Crash, PastCommit
  <2>. QED
    BY <1>1, <1>2, <1>3, <2>1, OwedKeepsGuarded
<1>4. CASE cmd.pc \notin PastCommit
  <2>1. UNCHANGED owed
    BY <1>4 DEF Crash, PastCommit
  <2>2. owed \subseteq Stashes /\ verified \subseteq Stashes
    BY DEF IInv, TypeOK
  <2>3. \A f \in owed \cup verified : stash[f] \in Keys
    BY <1>1 DEF Guarded, StashesKept
  <2>4. \A f \in owed \cup verified : stash'[f] = stash[f]
    BY <2>2, <2>3, NullsAssumption DEF Crash, IInv, TypeOK
  <2>5. /\ owed = {} => OnKey(key_file)
        /\ \A f \in owed : OnKey(stash[f])
        /\ owed \cap verified = {}
    BY <1>1, <1>4 DEF Guarded, DataOnOneKey, StashesKept
  <2>. QED
    BY <1>1, <1>2, <2>1, <2>2, <2>3, <2>4, <2>5, EndKeepsGuarded
<1>. QED
  BY <1>3, <1>4
-----------------------------------------------------------------------------
(* So do the steps of the requests, which are alone, and of the operator.  *)
-----------------------------------------------------------------------------

OthersIdle(w) == \A v \in Writers : v # w => writer[v].pc = "idle"

LEMMA AtWork ==
  ASSUME IInv, Calm, NEW w \in Writers, writer[w].pc # "idle"
  PROVE  Guarded /\ cmd.pc = "idle" /\ OthersIdle(w)
BY DEF IInv, Guarded, Alone, Busy, OthersIdle

LEMMA Begins ==
  ASSUME IInv, NEW w \in Writers, Store(w) \/ Edit(w), Calm'
  PROVE  /\ Calm /\ Guarded /\ cmd.pc = "idle" /\ OthersIdle(w)
         /\ UNCHANGED <<key_file, stash, rows, tx, cmd, owed, verified>>
         /\ Store(w) => owed = {}
<1>1. /\ UNCHANGED <<key_file, stash, rows, tx, cmd, owed, verified>>
      /\ raced' = (raced \/ WriterBusy \/ cmd.pc # "idle")
      /\ late' = late \/ late' = (late \/ owed # {})
  BY DEF Store, Edit, operator
<1>2. ~ raced' /\ ~ late'
  BY DEF Calm
<1>3. raced \in BOOLEAN /\ late \in BOOLEAN
  BY DEF IInv, TypeOK
<1>4. Calm /\ ~ WriterBusy /\ cmd.pc = "idle"
  BY <1>1, <1>2, <1>3 DEF Calm
<1>5. OthersIdle(w)
  BY <1>4 DEF WriterBusy, OthersIdle
<1>6. Store(w) => owed = {}
  <2>1. Store(w) => late' = (late \/ owed # {})
    BY DEF Store
  <2>. QED
    BY <1>2, <1>3, <2>1
<1>. QED
  BY <1>1, <1>4, <1>5, <1>6 DEF IInv

LEMMA RequestStep ==
  ASSUME Guarded, NEW w \in Writers, cmd.pc = "idle",
         UNCHANGED <<stash, tx, cmd, owed, verified>>,
         OthersIdle(w), \A v \in Writers : v # w => writer'[v] = writer[v],
         writer'[w].pc \in {"generate", "encrypt"} => owed = {},
         writer'[w].pc = "generate" => key_file' = NoFile,
         NoKeyNoSecrets', DataOnOneKey'
  PROVE  Guarded'
<1>1. Alone'
  BY DEF OthersIdle, Alone, Busy
<1>2. StashesKept' /\ AllRead' /\ TxOnNewKey'
  BY DEF Guarded, StashesKept, Stashed, AllRead, TxOnNewKey, NoTx
<1>. QED
  BY <1>1, <1>2 DEF Guarded

LEMMA StoreKeepsGuarded ==
  ASSUME IInv, NEW w \in Writers, Store(w), Calm'
  PROVE  Guarded'
<1>1. /\ Guarded /\ cmd.pc = "idle" /\ OthersIdle(w) /\ owed = {}
      /\ UNCHANGED <<key_file, stash, rows, tx, cmd, owed, verified>>
  BY Begins
<1>2. /\ writer'[w].pc = IF key_file = NoFile THEN "generate" ELSE "encrypt"
      /\ \A v \in Writers : v # w => writer'[v] = writer[v]
  BY StoreFacts DEF IInv
<1>3. NoKeyNoSecrets'
  BY <1>1, <1>2 DEF Guarded, NoKeyNoSecrets
<1>4. DataOnOneKey'
  BY <1>1, <1>2 DEF Guarded, DataOnOneKey, OnKey, PastCommit
<1>. QED
  BY <1>1, <1>2, <1>3, <1>4, RequestStep

(* There was no key, and so there are no secrets yet.                      *)
LEMMA GenerateKeyKeepsGuarded ==
  ASSUME IInv, NEW w \in Writers, GenerateKey(w), Calm'
  PROVE  Guarded'
<1>1. /\ writer[w].pc = "generate"
      /\ UNCHANGED <<stash, rows, tx, cmd, owed, verified>> /\ Calm
  BY DEF GenerateKey, operator, history, bounds, Calm
<1>2. Guarded /\ cmd.pc = "idle" /\ OthersIdle(w)
  BY <1>1, AtWork
<1>3. /\ key_file = NoFile /\ owed = {} /\ \A s \in Secrets : rows[s] = NoRow
  BY <1>1, <1>2 DEF Guarded, Alone, NoKeyNoSecrets
<1>4. /\ key_file' \in Keys /\ writer'[w].pc = "encrypt"
      /\ \A v \in Writers : v # w => writer'[v] = writer[v]
  BY GenerateKeyFacts DEF IInv
<1>5. NoKeyNoSecrets'
  BY <1>4, NullsAssumption DEF NoKeyNoSecrets
<1>6. DataOnOneKey'
  BY <1>1, <1>2, <1>3, <1>4 DEF OthersIdle, DataOnOneKey, OnKey, PastCommit
<1>. QED
  BY <1>1, <1>2, <1>3, <1>4, <1>5, <1>6, RequestStep

LEMMA EncryptKeepsGuarded ==
  ASSUME IInv, NEW w \in Writers, Encrypt(w), Calm'
  PROVE  Guarded'
<1>1. /\ writer[w].pc = "encrypt"
      /\ UNCHANGED <<key_file, stash, rows, tx, cmd, owed, verified>> /\ Calm
  BY DEF Encrypt, operator, history, bounds, Calm
<1>2. Guarded /\ cmd.pc = "idle" /\ OthersIdle(w)
  BY <1>1, AtWork
<1>3. owed = {}
  BY <1>1, <1>2 DEF Guarded, Alone
<1>4. /\ writer'[w].pc \in {"idle", "save"}
      /\ writer'[w].pc = "save" =>
           key_file \in Keys /\ writer'[w].row.key = key_file
      /\ \A v \in Writers : v # w => writer'[v] = writer[v]
  BY EncryptFacts DEF IInv
<1>5. NoKeyNoSecrets'
  BY <1>1, <1>2, <1>4, NullsAssumption DEF Guarded, NoKeyNoSecrets
<1>6. DataOnOneKey'
  BY <1>1, <1>2, <1>3, <1>4 DEF Guarded, DataOnOneKey, OnKey, PastCommit
<1>. QED
  BY <1>1, <1>2, <1>3, <1>4, <1>5, <1>6, RequestStep

(* The row is saved as it was, on the key that it was on.                  *)
LEMMA EditKeepsGuarded ==
  ASSUME IInv, NEW w \in Writers, Edit(w), Calm'
  PROVE  Guarded'
<1>1. /\ Guarded /\ cmd.pc = "idle" /\ OthersIdle(w)
      /\ UNCHANGED <<key_file, stash, rows, tx, cmd, owed, verified>>
  BY Begins
<1>2. PICK s \in Secrets : rows[s] # NoRow /\ writer'[w].row = rows[s]
  BY EditFacts DEF IInv
<1>3. /\ writer'[w].pc = "save"
      /\ \A v \in Writers : v # w => writer'[v] = writer[v]
  BY EditFacts DEF IInv, Edit, NoWriter, TypeOK
<1>4. NoKeyNoSecrets'
  BY <1>1, <1>2 DEF Guarded, NoKeyNoSecrets
<1>5. DataOnOneKey'
  BY <1>1, <1>2, <1>3 DEF Guarded, DataOnOneKey, OnKey, PastCommit
<1>. QED
  BY <1>1, <1>3, <1>4, <1>5, RequestStep

LEMMA SaveSecretKeepsGuarded ==
  ASSUME IInv, NEW w \in Writers, SaveSecret(w), Calm'
  PROVE  Guarded'
<1>1. /\ writer[w].pc = "save"
      /\ UNCHANGED <<key_file, stash, tx, cmd, owed, verified>> /\ Calm
  BY DEF SaveSecret, operator, history, bounds, Calm
<1>2. Guarded /\ cmd.pc = "idle" /\ OthersIdle(w)
  BY <1>1, AtWork
<1>3. /\ writer'[w].pc = "idle"
      /\ \A v \in Writers : v # w => writer'[v] = writer[v]
      /\ \A s \in Secrets : rows'[s] \in {rows[s], writer[w].row}
  BY SaveSecretFacts DEF IInv
<1>4. NoKeyNoSecrets'
  BY <1>1, <1>2 DEF Guarded, NoKeyNoSecrets
<1>5. ASSUME NEW key, OnKey(key)
      PROVE  /\ \A s \in Secrets : rows'[s] # NoRow => rows'[s].key = key
             /\ \A v \in Writers : writer'[v].pc = "save" => writer'[v].row.key = key
  BY <1>1, <1>3, <1>5 DEF OnKey
<1>6. DataOnOneKey'
  BY <1>1, <1>2, <1>5 DEF Guarded, DataOnOneKey, OnKey, PastCommit
<1>. QED
  BY <1>1, <1>2, <1>3, <1>4, <1>6, RequestStep

LEMMA RemoveKeepsGuarded ==
  ASSUME IInv, NEW s \in Secrets, Remove(s), Calm'
  PROVE  Guarded'
<1>1. /\ UNCHANGED <<key_file, stash, tx, cmd, writer, owed, verified>>
      /\ cmd.pc = "idle" /\ Quiet /\ Guarded
      /\ \A q \in Secrets : rows'[q] \in {rows[q], NoRow}
  BY DEF Remove, operator, Calm, WriterBusy, Quiet, IInv, TypeOK
<1>2. Alone' /\ NoKeyNoSecrets'
  BY <1>1 DEF Guarded, Alone, Busy, Quiet, NoKeyNoSecrets
<1>3. StashesKept' /\ AllRead' /\ TxOnNewKey'
  BY <1>1 DEF Guarded, StashesKept, Stashed, AllRead, TxOnNewKey, NoTx
<1>4. DataOnOneKey'
  BY <1>1 DEF Guarded, DataOnOneKey, OnKey, PastCommit
<1>. QED
  BY <1>2, <1>3, <1>4 DEF Guarded

(* With a stash file owed, the secrets are on its key alone.               *)
LEMMA RestoreKeepsGuarded ==
  ASSUME IInv, NEW f \in Stashes, Restore(f), Calm'
  PROVE  Guarded'
<1>1. /\ f \in owed /\ cmd.pc = "idle" /\ key_file' = stash[f]
      /\ owed' = owed \ {f} /\ Guarded
      /\ UNCHANGED <<stash, rows, tx, cmd, writer, verified>>
  BY DEF Restore, history, bounds, Calm, IInv
<1>2. stash[f] \in Keys /\ OnKey(stash[f])
  BY <1>1 DEF Guarded, StashesKept, DataOnOneKey, PastCommit
<1>3. Alone' /\ NoKeyNoSecrets'
  BY <1>1, <1>2, NullsAssumption DEF Guarded, Alone, Busy, NoKeyNoSecrets
<1>4. StashesKept' /\ AllRead' /\ TxOnNewKey'
  BY <1>1 DEF Guarded, StashesKept, Stashed, AllRead, TxOnNewKey, NoTx
<1>5. DataOnOneKey'
  BY <1>1, <1>2 DEF Guarded, DataOnOneKey, OnKey, PastCommit
<1>. QED
  BY <1>3, <1>4, <1>5 DEF Guarded

LEMMA DiscardKeepsGuarded ==
  ASSUME IInv, NEW f \in Stashes, Discard(f), Calm'
  PROVE  Guarded'
<1>1. /\ f \in verified /\ verified' = verified \ {f} /\ Guarded
      /\ cmd.pc = "idle" \/ cmd.file # f
      /\ UNCHANGED <<key_file, rows, tx, cmd, writer, owed>>
      /\ \A g \in Stashes : g # f => stash'[g] = stash[g]
      /\ cmd.pc # "idle" => cmd.file \in Stashes
      /\ owed \subseteq Stashes /\ verified \subseteq Stashes
  BY DEF Discard, history, bounds, Calm, IInv, TypeOK, Sound
<1>2. f \notin owed /\ \A g \in owed : stash'[g] = stash[g]
  BY <1>1 DEF Guarded, StashesKept
<1>3. Alone' /\ NoKeyNoSecrets'
  BY <1>1 DEF Guarded, Alone, Busy, NoKeyNoSecrets
<1>4. StashesKept'
  <2>1. \A g \in owed' \cup verified' : stash'[g] \in Keys
    BY <1>1, <1>2 DEF Guarded, StashesKept
  <2>2. cmd.pc \in Stashed => stash'[cmd.file] = stash[cmd.file]
    BY <1>1 DEF Stashed
  <2>. QED
    BY <1>1, <2>1, <2>2 DEF Guarded, StashesKept, Stashed
<1>5. AllRead' /\ TxOnNewKey'
  BY <1>1 DEF Guarded, AllRead, Found, TxOnNewKey, NoTx
<1>6. DataOnOneKey'
  BY <1>1, <1>2 DEF Guarded, DataOnOneKey, OnKey, PastCommit
<1>. QED
  BY <1>3, <1>4, <1>5, <1>6 DEF Guarded

-----------------------------------------------------------------------------

LEMMA InitIInv == Init => IInv
<1>. SUFFICES ASSUME Init PROVE IInv
  OBVIOUS
<1>1. /\ cmd = NoCommand /\ cmd \in CommandStates /\ cmd.pc = "idle"
      /\ writer \in [Writers -> WriterStates]
      /\ \A w \in Writers : writer[w].pc = "idle"
      /\ tx = NoTx /\ owed = {} /\ verified = {}
  BY NoCommandIsState, NoWriterIsState DEF Init
<1>2. /\ rows \in [Secrets -> Rows \cup {NoRow}]
      /\ key_file \in Keys \cup {EmptyKey, NoFile}
      /\ \A s \in Secrets : rows[s] # NoRow => rows[s].key = key_file
      /\ key_file = NoFile => \A s \in Secrets : rows[s] = NoRow
  <2>1. CASE /\ key_file \in Keys \cup {EmptyKey}
             /\ rows \in [Secrets -> {[key |-> key_file, data |-> d] : d \in Data}
                                        \cup {NoRow}]
    <3>1. {[key |-> key_file, data |-> d] : d \in Data} \subseteq Rows
      BY <2>1 DEF Rows
    <3>2. /\ rows \in [Secrets -> Rows \cup {NoRow}]
          /\ \A s \in Secrets : rows[s] # NoRow => rows[s].key = key_file
      BY <2>1, <3>1
    <3>. QED
      BY <2>1, <3>2, NullsAssumption
  <2>2. CASE key_file = NoFile /\ rows = [s \in Secrets |-> NoRow]
    BY <2>2
  <2>. QED
    BY <2>1, <2>2 DEF Init
<1>3. TypeOK
  <2>1. /\ stash = [f \in Stashes |-> NoFile] /\ used = {key_file} \cap Keys
        /\ owed = {} /\ verified = {} /\ raced = FALSE /\ late = FALSE
        /\ rekeys = 0 /\ writes = 0 /\ faults = 0
    BY DEF Init
  <2>2. /\ stash \in [Stashes -> Keys \cup {Torn, NoFile}]
        /\ used \in SUBSET Keys /\ tx \in [Secrets -> Rows \cup {NoRow}]
    BY <1>1, <2>1, NoTxTyped
  <2>3. /\ rekeys \in 0..MaxRekeys /\ writes \in 0..MaxWrites
        /\ faults \in 0..MaxFaults
    BY <2>1, BoundsAssumption
  <2>. QED
    BY <1>1, <1>2, <2>1, <2>2, <2>3 DEF TypeOK
<1>4. Sound
  BY <1>1 DEF Sound
<1>5. Alone /\ NoKeyNoSecrets
  BY <1>1, <1>2 DEF Alone, Busy, NoKeyNoSecrets
<1>6. StashesKept /\ AllRead /\ TxOnNewKey
  BY <1>1 DEF StashesKept, Stashed, AllRead, TxOnNewKey, NoTx
<1>7. DataOnOneKey
  BY <1>1, <1>2 DEF DataOnOneKey, OnKey, PastCommit
<1>. QED
  BY <1>3, <1>4, <1>5, <1>6, <1>7 DEF IInv, Guarded

LEMMA NextKeepsIInv == IInv /\ [Next]_vars => IInv'
<1>. SUFFICES ASSUME IInv, [Next]_vars PROVE IInv'
  OBVIOUS
<1>. USE DEF IInv
<1>1. CASE Rekeying
  <2>1. ASSUME NEW f \in Stashes, Start(f) PROVE IInv'
    BY <2>1, StartTypes, StartKeepsGuarded
  <2>2. ASSUME NEW s \in Secrets, ReadSecret(s) PROVE IInv'
    BY <2>2, ReadSecretTypes, ReadSecretKeepsGuarded
  <2>3. CASE ReadAll
    BY <2>3, ReadAllTypes, ReadAllKeepsGuarded
  <2>4. CASE StashKey
    BY <2>4, StashKeyTypes, StashKeyKeepsGuarded
  <2>5. ASSUME NEW s \in Secrets, UpdateSecret(s) PROVE IInv'
    BY <2>5, UpdateSecretTypes, UpdateSecretKeepsGuarded
  <2>6. CASE Commit
    BY <2>6, CommitTypes, CommitKeepsGuarded
  <2>7. CASE Rollback
    BY <2>7, RollbackTypes, RollbackKeepsGuarded
  <2>8. CASE SwapKey \/ WriteKey
    BY <2>8, SwapKeyTypes, SwapKeyKeepsGuarded
  <2>9. CASE Verify
    BY <2>9, VerifyTypes, VerifyKeepsGuarded
  <2>10. CASE Crash
    BY <2>10, CrashTypes, CrashKeepsGuarded
  <2>. QED
    BY <1>1, <2>1, <2>2, <2>3, <2>4, <2>5, <2>6, <2>7, <2>8, <2>9, <2>10
       DEF Rekeying
<1>2. CASE Writing
  <2>1. ASSUME NEW w \in Writers, Store(w) PROVE IInv'
    BY <2>1, StoreFacts, StoreKeepsGuarded
  <2>2. ASSUME NEW w \in Writers, GenerateKey(w) PROVE IInv'
    BY <2>2, GenerateKeyFacts, GenerateKeyKeepsGuarded
  <2>3. ASSUME NEW w \in Writers, Encrypt(w) PROVE IInv'
    BY <2>3, EncryptFacts, EncryptKeepsGuarded
  <2>4. ASSUME NEW w \in Writers, Edit(w) PROVE IInv'
    BY <2>4, EditFacts, EditKeepsGuarded
  <2>5. ASSUME NEW w \in Writers, SaveSecret(w) PROVE IInv'
    BY <2>5, SaveSecretFacts, SaveSecretKeepsGuarded
  <2>6. ASSUME NEW s \in Secrets, Remove(s) PROVE IInv'
    BY <2>6, RemoveTypes, RemoveKeepsGuarded
  <2>. QED
    BY <1>2, <2>1, <2>2, <2>3, <2>4, <2>5, <2>6 DEF Writing
<1>3. CASE Operating
  <2>1. ASSUME NEW f \in Stashes, Restore(f) PROVE IInv'
    BY <2>1, OperatorTypes, RestoreKeepsGuarded
  <2>2. ASSUME NEW f \in Stashes, Discard(f) PROVE IInv'
    BY <2>2, OperatorTypes, DiscardKeepsGuarded
  <2>. QED
    BY <1>3, <2>1, <2>2 DEF Operating
<1>4. CASE UNCHANGED vars
  <2>1. TypeOK' /\ Sound'
    BY <1>4 DEF vars, TypeOK, Sound, Found
  <2>2. Calm' => Guarded'
    BY <1>4 DEF vars, Calm, Guarded, Alone, Busy, NoKeyNoSecrets, StashesKept,
                AllRead, Found, TxOnNewKey, DataOnOneKey, OnKey
  <2>. QED
    BY <2>1, <2>2
<1>. QED
  BY <1>1, <1>2, <1>3, <1>4 DEF Next

LEMMA Invariance == Spec => []IInv
BY InitIInv, NextKeepsIInv, PTL DEF Spec

(* The key file, the stash files, the encrypted columns and the local      *)
(* variables of the command and the requests stay what they are typed as.  *)
THEOREM TypeCorrect == Spec => []TypeOK
<1>1. IInv => TypeOK
  BY DEF IInv
<1>. QED
  BY <1>1, Invariance, PTL

(* "No crash can strand the data": whatever files and statements fail and  *)
(* wherever the command dies, one key that is held reads every secret --   *)
(* as long as no request stores one beside it, or before a swap that       *)
(* failed has been made good.                                              *)
THEOREM NoSecretStranded == Spec => []NoneStranded
<1>1. IInv => NoneStranded
  <2>. SUFFICES ASSUME IInv, Calm
                PROVE  \E key \in Held :
                         \A s \in Secrets : rows[s] # NoRow => rows[s].key = key
    BY DEF NoneStranded, Calm
  <2>1. Guarded /\ TypeOK /\ Sound
    BY DEF IInv
  <2>2. CASE cmd.pc \in PastCommit
    <3>1. OnKey(stash[cmd.file]) /\ stash[cmd.file] \in Held
      BY <2>1, <2>2, PastCommitFacts DEF Held
    <3>. QED
      BY <3>1 DEF OnKey
  <2>3. CASE cmd.pc \notin PastCommit /\ owed = {}
    <3>1. OnKey(key_file) /\ key_file \in Held
      BY <2>1, <2>3 DEF Guarded, DataOnOneKey, Held
    <3>. QED
      BY <3>1 DEF OnKey
  <2>4. CASE cmd.pc \notin PastCommit /\ owed # {}
    <3>1. PICK f \in Stashes : f \in owed
      BY <2>1, <2>4 DEF TypeOK
    <3>2. OnKey(stash[f]) /\ stash[f] \in Held
      BY <2>1, <2>4, <3>1 DEF Guarded, DataOnOneKey, Held
    <3>. QED
      BY <3>2 DEF OnKey
  <2>. QED
    BY <2>2, <2>3, <2>4
<1>. QED
  BY <1>1, Invariance, PTL
-----------------------------------------------------------------------------
(* What the secrets are.  Here a secret may be stored while a stash file   *)
(* is owed, as long as it is not stored beside the command: the command    *)
(* is alone, so that what it has read and written is what is stored.       *)
-----------------------------------------------------------------------------

Apart ==
  /\ \A w, v \in Busy : w = v
  /\ Busy # {} => cmd.pc = "idle"

PlainIsData ==
  cmd.pc # "idle" =>
    \A s \in Found : rows[s] # NoRow /\ rows[s].data = cmd.plain[s]

TxIsPlain ==
  /\ cmd.pc \notin {"update", "rollback"} => tx = NoTx
  /\ \A s \in Secrets : tx[s] # NoRow => s \in Found /\ tx[s].data = cmd.plain[s]

(* As long as nothing fails every value is verified, so no file is owed.   *)
NothingOwed == faults = 0 => owed = {} /\ ~ late

Kept ==
  /\ Apart
  /\ PlainIsData
  /\ TxIsPlain
  /\ NothingOwed

KInv == IInv /\ (~ raced => Kept)

(* No step takes a fault back.                                             *)
LEMMA OwesNothing ==
  ASSUME IInv, NothingOwed, UNCHANGED late, owed' \subseteq owed,
         UNCHANGED faults \/ Fault
  PROVE  NothingOwed'
BY BoundsAssumption DEF IInv, TypeOK, NothingOwed, Fault

LEMMA FaultOwes ==
  ASSUME IInv, Fault
  PROVE  NothingOwed'
<1>1. faults \in Nat /\ faults' = faults + 1
  BY BoundsAssumption DEF IInv, TypeOK, Fault
<1>2. faults' # 0
  BY <1>1
<1>. QED
  BY <1>2 DEF NothingOwed

LEMMA AlongKeepsKept ==
  ASSUME Kept, cmd.pc # "idle", UNCHANGED <<rows, writer>>, Found' = Found,
         cmd'.plain = cmd.plain, TxIsPlain', NothingOwed'
  PROVE  Kept'
BY DEF Kept, Apart, Busy, PlainIsData

LEMMA EndKeepsKept ==
  ASSUME Kept, cmd.pc # "idle", UNCHANGED writer, cmd'.pc = "idle", tx' = NoTx,
         NothingOwed'
  PROVE  Kept'
BY DEF Kept, Apart, Busy, PlainIsData, TxIsPlain, NoTx

(* Past the commit, and before the transaction, no row is in it.           *)
LEMMA NoTxKept ==
  ASSUME tx' = NoTx
  PROVE  TxIsPlain'
BY DEF TxIsPlain, NoTx

LEMMA StartKeepsKept ==
  ASSUME KInv, NEW f \in Stashes, Start(f), ~ raced'
  PROVE  Kept'
<1>1. /\ cmd' = [NoCommand EXCEPT !.pc = "read", !.todo = Secrets,
                                  !.old = key_file, !.file = f]
      /\ UNCHANGED <<rows, tx, writer, owed, late, faults>>
      /\ Quiet /\ Kept /\ IInv /\ cmd.pc = "idle"
  BY DEF Start, operator, WriterBusy, Quiet, KInv
<1>2. /\ cmd'.pc = "read" /\ cmd'.plain = [s \in Secrets |-> NoRow]
      /\ Found' = {}
  BY <1>1 DEF NoCommand, Found
<1>3. Apart'
  BY <1>1 DEF Apart, Busy, Quiet
<1>4. PlainIsData' /\ TxIsPlain'
  BY <1>1, <1>2, NoTxKept DEF Kept, PlainIsData, TxIsPlain
<1>5. NothingOwed'
  BY <1>1, OwesNothing DEF Kept
<1>. QED
  BY <1>3, <1>4, <1>5 DEF Kept

LEMMA ReadSecretKeepsKept ==
  ASSUME KInv, NEW s \in Secrets, ReadSecret(s), ~ raced'
  PROVE  Kept'
<1>1. /\ UNCHANGED <<rows, tx, writer, owed, late, faults>>
      /\ cmd.pc = "read" /\ Kept /\ IInv /\ cmd \in CommandStates
  BY DEF ReadSecret, operator, history, NoFault, KInv, IInv, TypeOK
<1>2. tx = NoTx /\ TxIsPlain' /\ NothingOwed'
  BY <1>1, OwesNothing, NoTxKept DEF Kept, TxIsPlain
<1>3. CASE Goes("read", cmd.todo \ {s})
  <2>1. cmd'.plain = cmd.plain /\ Found' = Found
    BY <1>1, <1>3, GoesTyped DEF CommandStates, CommandPcs, IInv
  <2>. QED
    BY <1>1, <1>2, <2>1, AlongKeepsKept
<1>4. CASE /\ rows[s] # NoRow
           /\ cmd' = [cmd EXCEPT !.todo = cmd.todo \ {s},
                        !.plain = [cmd.plain EXCEPT ![s] = rows[s].data]]
  <2>1. cmd'.plain = [cmd.plain EXCEPT ![s] = rows[s].data]
    BY <1>1, <1>4 DEF CommandStates
  <2>2. \A q \in Secrets :
          cmd'.plain[q] = IF q = s THEN rows[s].data ELSE cmd.plain[q]
    BY <1>1, <2>1 DEF CommandStates
  <2>3. \A q \in Found' : q = s \/ q \in Found
    BY <2>2 DEF Found
  <2>4. PlainIsData'
    <3>. SUFFICES ASSUME NEW q \in Found'
                  PROVE  rows[q] # NoRow /\ rows[q].data = cmd'.plain[q]
      BY <1>1 DEF PlainIsData
    <3>1. q \in Secrets
      BY DEF Found
    <3>2. CASE q = s
      BY <1>4, <2>2, <3>2
    <3>3. CASE q # s
      <4>1. q \in Found
        BY <2>3, <3>3
      <4>2. rows[q] # NoRow /\ rows[q].data = cmd.plain[q]
        BY <1>1, <4>1 DEF Kept, PlainIsData
      <4>. QED
        BY <2>2, <3>1, <3>3, <4>2
    <3>. QED
      BY <3>2, <3>3
  <2>5. Apart'
    BY <1>1 DEF Kept, Apart, Busy
  <2>. QED
    BY <1>2, <2>4, <2>5 DEF Kept
<1>5. CASE Stops
  BY <1>1, <1>2, <1>5, StopsTyped, EndKeepsKept
<1>. QED
  BY <1>3, <1>4, <1>5 DEF ReadSecret

LEMMA ReadAllKeepsKept ==
  ASSUME KInv, ReadAll, ~ raced'
  PROVE  Kept'
<1>1. /\ UNCHANGED <<rows, tx, writer, owed, late, faults>>
      /\ cmd.pc = "read" /\ Goes("stash", {}) /\ Kept /\ IInv
  BY DEF ReadAll, operator, history, NoFault, KInv
<1>2. tx = NoTx /\ TxIsPlain' /\ NothingOwed'
  BY <1>1, OwesNothing, NoTxKept DEF Kept, TxIsPlain
<1>3. cmd'.plain = cmd.plain /\ Found' = Found
  BY <1>1, GoesTyped DEF CommandPcs, IInv
<1>. QED
  BY <1>1, <1>2, <1>3, AlongKeepsKept

LEMMA StashKeyKeepsKept ==
  ASSUME KInv, StashKey, ~ raced'
  PROVE  Kept'
<1>1. /\ UNCHANGED <<rows, tx, writer, owed, late>> /\ (UNCHANGED faults \/ Fault)
      /\ cmd.pc = "stash" /\ Kept /\ IInv /\ cmd \in CommandStates
  BY DEF StashKey, operator, history, NoFault, KInv, IInv, TypeOK
<1>2. tx = NoTx /\ TxIsPlain' /\ NothingOwed'
  BY <1>1, OwesNothing, NoTxKept DEF Kept, TxIsPlain
<1>3. CASE Stops
  BY <1>1, <1>2, <1>3, StopsTyped, EndKeepsKept
<1>4. ASSUME NEW new,
             cmd' = [cmd EXCEPT !.pc = "update", !.todo = Found, !.new = new]
      PROVE  Kept'
  <2>1. cmd'.plain = cmd.plain
    BY <1>1, <1>4 DEF CommandStates
  <2>. QED
    BY <1>1, <1>2, <2>1, AlongKeepsKept DEF Found
<1>. QED
  BY <1>3, <1>4 DEF StashKey

LEMMA UpdateSecretKeepsKept ==
  ASSUME KInv, NEW s \in Secrets, UpdateSecret(s), ~ raced'
  PROVE  Kept'
<1>1. /\ UNCHANGED <<rows, writer, owed, late>> /\ (UNCHANGED faults \/ Fault)
      /\ cmd.pc = "update" /\ s \in cmd.todo /\ Kept /\ IInv
      /\ cmd \in CommandStates /\ cmd.todo \subseteq Found
  BY DEF UpdateSecret, operator, history, NoFault, KInv, IInv, TypeOK, Sound
<1>2. NothingOwed'
  BY <1>1, OwesNothing DEF Kept
<1>3. CASE /\ tx' = [tx EXCEPT ![s] = [key |-> cmd.new, data |-> cmd.plain[s]]]
           /\ Goes("update", cmd.todo \ {s})
  <2>1. cmd'.pc = "update" /\ cmd'.plain = cmd.plain /\ Found' = Found
    BY <1>1, <1>3, GoesTyped DEF CommandStates, CommandPcs, IInv
  <2>2. \A q \in Secrets :
          \/ tx'[q] = tx[q]
          \/ q = s /\ tx'[q].data = cmd.plain[q]
    BY <1>3 DEF IInv, TypeOK
  <2>3. \A q \in Secrets :
          tx'[q] # NoRow => q \in Found /\ tx'[q].data = cmd.plain[q]
    BY <1>1, <2>2 DEF Kept, TxIsPlain
  <2>4. TxIsPlain'
    BY <2>1, <2>3 DEF TxIsPlain
  <2>. QED
    BY <1>1, <1>2, <2>1, <2>4, AlongKeepsKept
<1>4. CASE Goes("rollback", {}) /\ UNCHANGED tx
  <2>1. cmd'.pc = "rollback" /\ cmd'.plain = cmd.plain /\ Found' = Found
    BY <1>4, GoesTyped DEF CommandPcs, IInv, KInv
  <2>2. TxIsPlain'
    BY <1>1, <1>4, <2>1 DEF Kept, TxIsPlain
  <2>. QED
    BY <1>1, <1>2, <2>1, <2>2, AlongKeepsKept
<1>. QED
  BY <1>3, <1>4 DEF UpdateSecret

(* What is committed are the values that were read, under another key.     *)
LEMMA CommittedData ==
  ASSUME Kept, cmd.pc # "idle", NEW s \in Secrets, rows[s] # NoRow
  PROVE  Committed[s] # NoRow /\ Committed[s].data = rows[s].data
<1>1. CASE tx[s] = NoRow
  BY <1>1 DEF Committed
<1>2. CASE tx[s] # NoRow
  <2>1. Committed[s] = tx[s] /\ s \in Found /\ tx[s].data = cmd.plain[s]
    BY <1>2 DEF Committed, Kept, TxIsPlain
  <2>. QED
    BY <1>2, <2>1 DEF Kept, PlainIsData
<1>. QED
  BY <1>1, <1>2

LEMMA CommitKeepsKept ==
  ASSUME KInv, Commit, ~ raced'
  PROVE  Kept'
<1>1. /\ UNCHANGED <<writer, late>> /\ (UNCHANGED faults \/ Fault)
      /\ cmd.pc = "update" /\ Kept /\ IInv
  BY DEF Commit, history, NoFault, KInv
<1>2. CASE rows' = Committed /\ tx' = NoTx /\ owed' = {} /\ Goes("swap", {})
  <2>1. cmd'.pc = "swap" /\ cmd'.plain = cmd.plain /\ Found' = Found
    BY <1>1, <1>2, GoesTyped DEF CommandPcs, IInv
  <2>2. \A s \in Found : /\ s \in Secrets /\ rows[s] # NoRow
                         /\ rows[s].data = cmd.plain[s]
    BY <1>1 DEF Kept, PlainIsData, Found
  <2>3. \A s \in Found : rows'[s] # NoRow /\ rows'[s].data = cmd.plain[s]
    BY <1>1, <1>2, <2>2, CommittedData
  <2>4. PlainIsData'
    BY <2>1, <2>3 DEF PlainIsData
  <2>5. TxIsPlain' /\ NothingOwed'
    BY <1>1, <1>2, NoTxKept, OwesNothing DEF Kept
  <2>6. Apart'
    BY <1>1 DEF Kept, Apart, Busy
  <2>. QED
    BY <2>4, <2>5, <2>6 DEF Kept
<1>3. CASE Goes("rollback", {}) /\ UNCHANGED <<rows, tx, owed>>
  <2>1. cmd'.pc = "rollback" /\ cmd'.plain = cmd.plain /\ Found' = Found
    BY <1>1, <1>3, GoesTyped DEF CommandPcs, IInv
  <2>2. TxIsPlain' /\ NothingOwed'
    BY <1>1, <1>3, <2>1, OwesNothing DEF Kept, TxIsPlain
  <2>. QED
    BY <1>1, <1>3, <2>1, <2>2, AlongKeepsKept
<1>. QED
  BY <1>2, <1>3 DEF Commit

LEMMA RollbackKeepsKept ==
  ASSUME KInv, Rollback, ~ raced'
  PROVE  Kept'
<1>1. /\ UNCHANGED <<writer, owed, late>> /\ (UNCHANGED faults \/ Fault)
      /\ cmd.pc = "rollback" /\ tx' = NoTx /\ Stops /\ Kept /\ IInv
  BY DEF Rollback, operator, history, NoFault, KInv
<1>2. NothingOwed'
  BY <1>1, OwesNothing DEF Kept
<1>. QED
  BY <1>1, <1>2, StopsTyped, EndKeepsKept

LEMMA SwapKeyKeepsKept ==
  ASSUME KInv, SwapKey \/ WriteKey, ~ raced'
  PROVE  Kept'
<1>1. /\ UNCHANGED <<rows, tx, writer, late>>
      /\ cmd.pc \in {"swap", "write"} /\ Kept /\ IInv
  BY DEF SwapKey, WriteKey, history, KInv
<1>2. tx = NoTx /\ TxIsPlain'
  BY <1>1, NoTxKept DEF Kept, TxIsPlain
<1>3. ASSUME NEW pc \in {"write", "verify"}, Goes(pc, {}), NoFault, UNCHANGED owed
      PROVE  Kept'
  <2>1. cmd'.plain = cmd.plain /\ Found' = Found
    BY <1>1, <1>3, GoesTyped DEF CommandPcs, IInv
  <2>2. NothingOwed'
    BY <1>1, <1>3, OwesNothing DEF Kept, NoFault
  <2>. QED
    BY <1>1, <1>2, <2>1, <2>2, AlongKeepsKept
<1>4. ASSUME Stops, Fault PROVE Kept'
  BY <1>1, <1>2, <1>4, FaultOwes, StopsTyped, EndKeepsKept
<1>. QED
  BY <1>3, <1>4 DEF SwapKey, WriteKey

(* With nothing late the rows are on the key that was written, and they    *)
(* hold what was read: they are verified.                                  *)
LEMMA Verifies ==
  ASSUME KInv, ~ raced, faults = 0, cmd.pc = "verify"
  PROVE  Verified
<1>1. Kept /\ Guarded /\ TypeOK /\ Sound
  BY DEF KInv, IInv, Calm, Kept, NothingOwed
<1>2. OnKey(cmd.new) /\ cmd.new \in Keys /\ key_file = cmd.new
  BY <1>1, PastCommitFacts DEF PastCommit
<1>3. \A s \in Found : s \in Secrets /\ rows[s] # NoRow
                       /\ rows[s].data = cmd.plain[s]
  BY <1>1 DEF Kept, PlainIsData, Found
<1>. QED
  BY <1>2, <1>3 DEF Verified, Reads, OnKey

LEMMA VerifyKeepsKept ==
  ASSUME KInv, Verify, ~ raced'
  PROVE  Kept'
<1>1. /\ UNCHANGED <<rows, tx, writer, raced, late, faults>>
      /\ cmd.pc = "verify" /\ Stops /\ Kept /\ ~ raced
  BY DEF Verify, history, NoFault, KInv
<1>2. tx' = NoTx
  BY <1>1 DEF Kept, TxIsPlain
<1>3. NothingOwed'
  <2>. SUFFICES ASSUME faults' = 0 PROVE owed' = {} /\ ~ late'
    BY DEF NothingOwed
  <2>1. faults = 0
    BY <1>1
  <2>2. Verified
    BY <1>1, <2>1, Verifies
  <2>3. UNCHANGED owed
    BY <2>2 DEF Verify
  <2>. QED
    BY <1>1, <2>1, <2>3 DEF Kept, NothingOwed
<1>. QED
  BY <1>1, <1>2, <1>3, StopsTyped, EndKeepsKept

LEMMA CrashKeepsKept ==
  ASSUME KInv, Crash, ~ raced'
  PROVE  Kept'
<1>1. /\ UNCHANGED writer /\ Fault /\ cmd.pc # "idle" /\ tx' = NoTx /\ Stops
      /\ Kept /\ IInv
  BY DEF Crash, history, KInv
<1>. QED
  BY <1>1, FaultOwes, StopsTyped, EndKeepsKept

(* A request that begins, or goes on, does so alone.                       *)
LEMMA RequestKeepsKept ==
  ASSUME Kept, NEW w \in Writers, cmd.pc = "idle", UNCHANGED <<tx, cmd>>,
         OthersIdle(w), \A v \in Writers : v # w => writer'[v] = writer[v],
         NothingOwed'
  PROVE  Kept'
<1>1. Apart'
  BY DEF Apart, Busy, OthersIdle
<1>2. PlainIsData'
  BY DEF PlainIsData
<1>3. TxIsPlain'
  BY DEF Kept, TxIsPlain, NoTx
<1>. QED
  BY <1>1, <1>2, <1>3 DEF Kept

LEMMA BeginsApart ==
  ASSUME KInv, NEW w \in Writers, Store(w) \/ Edit(w), ~ raced'
  PROVE  /\ Kept /\ cmd.pc = "idle" /\ OthersIdle(w)
         /\ UNCHANGED <<tx, cmd, owed, faults>>
         /\ Store(w) => late' = (late \/ owed # {})
         /\ Edit(w) => UNCHANGED late
<1>1. /\ UNCHANGED <<tx, cmd, owed, faults>>
      /\ raced' = (raced \/ WriterBusy \/ cmd.pc # "idle")
      /\ Store(w) => late' = (late \/ owed # {})
      /\ Edit(w) => UNCHANGED late
  BY DEF Store, Edit, operator
<1>2. raced \in BOOLEAN
  BY DEF KInv, IInv, TypeOK
<1>3. ~ raced /\ ~ WriterBusy /\ cmd.pc = "idle"
  BY <1>1, <1>2
<1>. QED
  BY <1>1, <1>3 DEF KInv, WriterBusy, OthersIdle

LEMMA AtWorkApart ==
  ASSUME KInv, ~ raced, NEW w \in Writers, writer[w].pc # "idle"
  PROVE  Kept /\ cmd.pc = "idle" /\ OthersIdle(w)
BY DEF KInv, Kept, Apart, Busy, OthersIdle

LEMMA StoreKeepsKept ==
  ASSUME KInv, NEW w \in Writers, Store(w) \/ Edit(w), ~ raced'
  PROVE  Kept'
<1>1. /\ Kept /\ cmd.pc = "idle" /\ OthersIdle(w)
      /\ UNCHANGED <<tx, cmd, owed, faults>>
      /\ Store(w) => late' = (late \/ owed # {})
      /\ Edit(w) => UNCHANGED late
  BY BeginsApart
<1>2. \A v \in Writers : v # w => writer'[v] = writer[v]
  BY StoreFacts, EditFacts DEF KInv, IInv
<1>3. NothingOwed'
  BY <1>1 DEF Kept, NothingOwed
<1>. QED
  BY <1>1, <1>2, <1>3, RequestKeepsKept

LEMMA GoOnKeepsKept ==
  ASSUME KInv, NEW w \in Writers,
         GenerateKey(w) \/ Encrypt(w) \/ SaveSecret(w), ~ raced'
  PROVE  Kept'
<1>1. /\ writer[w].pc # "idle" /\ UNCHANGED <<tx, cmd, owed, late, faults>>
      /\ ~ raced
  BY DEF GenerateKey, Encrypt, SaveSecret, operator, history, bounds
<1>2. Kept /\ cmd.pc = "idle" /\ OthersIdle(w)
  BY <1>1, AtWorkApart
<1>3. \A v \in Writers : v # w => writer'[v] = writer[v]
  BY GenerateKeyFacts, EncryptFacts, SaveSecretFacts DEF KInv, IInv
<1>4. NothingOwed'
  BY <1>1, <1>2 DEF Kept, NothingOwed
<1>. QED
  BY <1>1, <1>2, <1>3, <1>4, RequestKeepsKept

LEMMA RemoveKeepsKept ==
  ASSUME KInv, NEW s \in Secrets, Remove(s), ~ raced'
  PROVE  Kept'
<1>1. /\ UNCHANGED <<tx, cmd, writer, owed, late, faults>>
      /\ cmd.pc = "idle" /\ ~ raced
  BY DEF Remove, operator, KInv, IInv, TypeOK
<1>2. Kept
  BY <1>1 DEF KInv
<1>3. Apart' /\ PlainIsData' /\ NothingOwed'
  BY <1>1, <1>2 DEF Kept, Apart, Busy, PlainIsData, NothingOwed
<1>4. TxIsPlain'
  BY <1>1, <1>2 DEF Kept, TxIsPlain, NoTx
<1>. QED
  BY <1>3, <1>4 DEF Kept

LEMMA OperatorKeepsKept ==
  ASSUME KInv, NEW f \in Stashes, Restore(f) \/ Discard(f), ~ raced'
  PROVE  Kept'
<1>1. /\ UNCHANGED <<rows, tx, cmd, writer, raced, late, faults>>
      /\ owed' \subseteq owed
  BY DEF Restore, Discard, history, bounds
<1>2. Kept
  BY <1>1 DEF KInv
<1>3. Apart' /\ PlainIsData' /\ TxIsPlain'
  BY <1>1, <1>2 DEF Kept, Apart, Busy, PlainIsData, TxIsPlain, Found
<1>4. NothingOwed'
  BY <1>1, <1>2, OwesNothing DEF Kept, KInv
<1>. QED
  BY <1>3, <1>4 DEF Kept

LEMMA InitKInv == Init => KInv
<1>. SUFFICES ASSUME Init PROVE Kept
  BY InitIInv DEF KInv
<1>1. /\ cmd.pc = "idle" /\ tx = NoTx /\ owed = {} /\ late = FALSE
      /\ \A w \in Writers : writer[w].pc = "idle"
  BY NoCommandIsState, NoWriterIsState DEF Init
<1>. QED
  BY <1>1 DEF Kept, Apart, Busy, PlainIsData, TxIsPlain, NoTx, NothingOwed

LEMMA NextKeepsKept ==
  ASSUME KInv, Next, ~ raced'
  PROVE  Kept'
<1>1. CASE Rekeying
  BY <1>1, StartKeepsKept, ReadSecretKeepsKept, ReadAllKeepsKept,
     StashKeyKeepsKept, UpdateSecretKeepsKept, CommitKeepsKept,
     RollbackKeepsKept, SwapKeyKeepsKept, VerifyKeepsKept, CrashKeepsKept
     DEF Rekeying
<1>2. CASE Writing
  BY <1>2, StoreKeepsKept, GoOnKeepsKept, RemoveKeepsKept DEF Writing
<1>3. CASE Operating
  BY <1>3, OperatorKeepsKept DEF Operating
<1>. QED
  BY <1>1, <1>2, <1>3 DEF Next

LEMMA NextKeepsKInv == KInv /\ [Next]_vars => KInv'
<1>1. ASSUME KInv, Next PROVE KInv'
  BY <1>1, NextKeepsIInv, NextKeepsKept DEF KInv
<1>2. ASSUME KInv, UNCHANGED vars PROVE KInv'
  <2>1. IInv'
    BY <1>2, NextKeepsIInv DEF KInv
  <2>2. ~ raced' => Kept'
    BY <1>2 DEF vars, KInv, Kept, Apart, Busy, PlainIsData, TxIsPlain, Found,
                NothingOwed
  <2>. QED
    BY <2>1, <2>2 DEF KInv
<1>. QED
  BY <1>1, <1>2

LEMMA KInvariance == Spec => []KInv
BY InitKInv, NextKeepsKInv, PTL DEF Spec

(* Until something fails, no stash file is owed whenever the command is    *)
(* done: every secret is on the key that the key file holds, also when     *)
(* the command refused to start or rolled back.                            *)
THEOREM NoFaultLeavesAllReadable == Spec => []ReadableAtRest
<1>1. KInv => ReadableAtRest
  <2>. SUFFICES ASSUME KInv, ~ raced, faults = 0, cmd.pc = "idle"
                PROVE  \A s \in Secrets : rows[s] # NoRow => rows[s].key = key_file
    BY DEF ReadableAtRest
  <2>1. owed = {} /\ Guarded
    BY DEF KInv, IInv, Calm, Kept, NothingOwed
  <2>2. OnKey(key_file)
    BY <2>1 DEF Guarded, DataOnOneKey, PastCommit
  <2>. QED
    BY <2>2 DEF OnKey
<1>. QED
  BY <1>1, KInvariance, PTL

(* Whatever fails, and after whatever a secret was stored under, the       *)
(* command moves the secrets to another key and changes none of them.      *)
THEOREM RekeyingKeepsData == Spec => DataKept
<1>1. ASSUME KInv, Next
      PROVE  \A s \in Secrets :
               ~ raced' /\ cmd.pc # "idle" /\ rows[s] # NoRow
               => rows'[s] # NoRow /\ rows'[s].data = rows[s].data
  <2>. SUFFICES ASSUME NEW s \in Secrets, ~ raced', cmd.pc # "idle",
                       rows[s] # NoRow
                PROVE  rows'[s] # NoRow /\ rows'[s].data = rows[s].data
    OBVIOUS
  <2>1. CASE UNCHANGED rows
    BY <2>1
  <2>2. CASE Commit
    <3>1. UNCHANGED raced
      BY <2>2 DEF Commit, history
    <3>2. Kept
      BY <1>1, <3>1 DEF KInv
    <3>. QED
      BY <2>2, <3>2, CommittedData DEF Commit
  <2>3. ASSUME NEW w \in Writers, SaveSecret(w) PROVE FALSE
    <3>1. ~ raced /\ writer[w].pc # "idle"
      BY <2>3 DEF SaveSecret, history
    <3>. QED
      BY <1>1, <3>1, AtWorkApart
  <2>4. ASSUME NEW q \in Secrets, Remove(q) PROVE FALSE
    BY <1>1, <2>4 DEF Remove, KInv, IInv, TypeOK
  <2>. QED
    BY <1>1, <2>1, <2>2, <2>3, <2>4
       DEF Next, Rekeying, Writing, Operating, Start, ReadSecret, ReadAll,
           StashKey, UpdateSecret, Rollback, SwapKey, WriteKey, Verify, Crash,
           Store, GenerateKey, Encrypt, Edit, Restore, Discard
<1>2. KInv /\ [Next]_vars =>
        [\A s \in Secrets :
           ~ raced' /\ cmd.pc # "idle" /\ rows[s] # NoRow
           => rows'[s] # NoRow /\ rows'[s].data = rows[s].data]_vars
  BY <1>1
<1>. QED
  BY <1>2, KInvariance, PTL DEF Spec, DataKept
=============================================================================
