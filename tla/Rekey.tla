------------------------------- MODULE Rekey -------------------------------
(* `./run crypto rekey run <stash-file>` (CryptoTask) beside the requests  *)
(* that store secrets with Crypto::encrypt(): the key file, the stash      *)
(* files, the encrypted columns, and one database transaction.             *)
(*                                                                         *)
(* A process may die before any of its statements, and files and the       *)
(* database may refuse; both are counted as faults. A secret is a row of   *)
(* one of the encrypted columns (external_connections, license_keys, those *)
(* that modules declare), each column being read by a query of its own.    *)
EXTENDS Naturals

CONSTANTS
  Secrets,    \* rows of the encrypted columns
  Data,       \* plaintexts
  Keys,       \* keys of 32 bytes, each generated once
  Stashes,    \* stash file names the operator uses
  Writers,    \* requests that store or remove a secret
  EmptyKey,   \* the zero-length key of old installs, or a truncated key file
  Torn,       \* a file that was written in part
  NoFile,     \* no such file
  NoRow,      \* no such row, or nothing in hand
  MaxRekeys,  \* bound: times the command is started
  MaxWrites,  \* bound: requests that store or remove a secret
  MaxFaults   \* bound: crashes, and statements that fail

Rows == [key: Keys \cup {EmptyKey}, data: Data]

ASSUME NullsAssumption ==
  /\ NoRow \notin Rows
  /\ NoRow \notin Data
  /\ EmptyKey \notin Keys /\ Torn \notin Keys /\ NoFile \notin Keys
  /\ Torn # EmptyKey /\ NoFile # EmptyKey /\ Torn # NoFile

ASSUME BoundsAssumption ==
  /\ MaxRekeys \in Nat
  /\ MaxWrites \in Nat
  /\ MaxFaults \in Nat

VARIABLES
  key_file,  \* what .encryption_key holds
  stash,     \* what each stash file holds
  used,      \* keys that have been generated
  rows,      \* the encrypted columns, as committed
  tx,        \* the rows the open transaction has written
  cmd,       \* the rekey command: where it is, and its local variables
  writer,    \* per request: where it is, the row and the secret it is to save
  owed,      \* stash files whose key the data is on and the key file may not be
  verified,  \* stash files whose key the command has verified
  raced,     \* history: two of these processes have run at once
  late,      \* history: a secret was stored after a rekey that did not finish
  rekeys, writes, faults

operator == <<owed, verified>>
history == <<raced, late>>
bounds == <<rekeys, writes, faults>>
vars == <<key_file, stash, used, rows, tx, cmd, writer, owed, verified, raced,
          late, rekeys, writes, faults>>

CommandStates ==
  [pc: {"idle", "read", "stash", "update", "rollback", "swap", "write", "verify"},
   todo: SUBSET Secrets,
   old: Keys \cup {EmptyKey, Torn},
   plain: [Secrets -> Data \cup {NoRow}],
   new: Keys \cup {EmptyKey},
   file: Stashes \cup {NoFile}]

WriterStates ==
  [pc: {"idle", "generate", "encrypt", "save"},
   secret: Secrets \cup {NoRow}, data: Data \cup {NoRow}, row: Rows \cup {NoRow}]

NoCommand ==
  [pc |-> "idle", todo |-> {}, old |-> EmptyKey,
   plain |-> [s \in Secrets |-> NoRow], new |-> EmptyKey, file |-> NoFile]

NoWriter == [pc |-> "idle", secret |-> NoRow, data |-> NoRow, row |-> NoRow]
NoTx == [s \in Secrets |-> NoRow]

TypeOK ==
  /\ key_file \in Keys \cup {EmptyKey, Torn, NoFile}
  /\ stash \in [Stashes -> Keys \cup {Torn, NoFile}]
  /\ used \in SUBSET Keys
  /\ rows \in [Secrets -> Rows \cup {NoRow}]
  /\ tx \in [Secrets -> Rows \cup {NoRow}]
  /\ cmd \in CommandStates
  /\ writer \in [Writers -> WriterStates]
  /\ owed \in SUBSET Stashes
  /\ verified \in SUBSET Stashes
  /\ raced \in BOOLEAN
  /\ late \in BOOLEAN
  /\ rekeys \in 0..MaxRekeys
  /\ writes \in 0..MaxWrites
  /\ faults \in 0..MaxFaults

(* An install with a key, or with the empty one, and secrets stored under  *)
(* it; or one that has no key file yet and no secrets.                     *)
Init ==
  /\ \/ /\ key_file \in Keys \cup {EmptyKey}
        /\ rows \in [Secrets -> {[key |-> key_file, data |-> d] : d \in Data}
                                  \cup {NoRow}]
     \/ /\ key_file = NoFile
        /\ rows = [s \in Secrets |-> NoRow]
  /\ used = {key_file} \cap Keys
  /\ stash = [f \in Stashes |-> NoFile]
  /\ tx = NoTx
  /\ cmd = NoCommand
  /\ writer = [w \in Writers |-> NoWriter]
  /\ owed = {}
  /\ verified = {}
  /\ raced = FALSE
  /\ late = FALSE
  /\ rekeys = 0 /\ writes = 0 /\ faults = 0

WriterBusy == \E w \in Writers : writer[w].pc # "idle"

-----------------------------------------------------------------------------
(* The command. A fault is a step the machine may take against it.         *)
Stops == cmd' = NoCommand
Goes(pc, todo) == cmd' = [cmd EXCEPT !.pc = pc, !.todo = todo]
NoFault == UNCHANGED <<rekeys, writes, faults>>
Fault ==
  /\ faults < MaxFaults
  /\ faults' = faults + 1
  /\ UNCHANGED <<rekeys, writes>>

(* rekeyAction(): without a readable key file there is nothing to rekey.   *)
Start(f) ==
  /\ cmd.pc = "idle"
  /\ rekeys < MaxRekeys
  /\ rekeys' = rekeys + 1
  /\ key_file # NoFile
  /\ cmd' = [NoCommand EXCEPT !.pc = "read", !.todo = Secrets,
                              !.old = key_file, !.file = f]
  /\ raced' = (raced \/ WriterBusy)
  /\ UNCHANGED <<key_file, stash, used, rows, tx, writer, operator, late, writes,
                 faults>>

(* Step 1: decrypt every value; any failure stops the command.             *)
ReadSecret(s) ==
  /\ cmd.pc = "read" /\ s \in cmd.todo
  /\ \/ /\ rows[s] = NoRow
        /\ Goes("read", cmd.todo \ {s})
     \/ /\ rows[s] # NoRow
        /\ rows[s].key = cmd.old
        /\ cmd' = [cmd EXCEPT !.todo = cmd.todo \ {s},
                              !.plain = [cmd.plain EXCEPT ![s] = rows[s].data]]
     \/ /\ rows[s] # NoRow
        /\ rows[s].key # cmd.old
        /\ Stops
  /\ NoFault
  /\ UNCHANGED <<key_file, stash, used, rows, tx, writer, operator, history>>

ReadAll ==
  /\ cmd.pc = "read" /\ cmd.todo = {}
  /\ Goes("stash", {})
  /\ NoFault
  /\ UNCHANGED <<key_file, stash, used, rows, tx, writer, operator, history>>

(* The values that were read in step 1.                                    *)
Found == {s \in Secrets : cmd.plain[s] # NoRow}

(* Step 2: the new key goes to the stash file, which must not exist, and   *)
(* is read back; the transaction is begun.                                 *)
StashKey ==
  /\ cmd.pc = "stash"
  /\ \/ /\ stash[cmd.file] # NoFile
        /\ Stops
        /\ NoFault
        /\ UNCHANGED <<used, stash>>
     \/ \E new \in Keys \ used :
          /\ stash[cmd.file] = NoFile
          /\ used' = used \cup {new}
          /\ \/ /\ stash' = [stash EXCEPT ![cmd.file] = new]
                /\ cmd' = [cmd EXCEPT !.pc = "update", !.todo = Found, !.new = new]
                /\ NoFault
             \/ /\ stash' = [stash EXCEPT ![cmd.file] = Torn]
                /\ Stops
                /\ Fault
  /\ UNCHANGED <<key_file, rows, tx, writer, operator, history>>

(* Mutant of UpdateSecret: the UPDATE of a value reaches another one's row. *)
UpdateSecret_AnyPlain(s) ==
  /\ cmd.pc = "update" /\ s \in cmd.todo
  /\ rows[s] # NoRow
  /\ \E other \in Found :
       tx' = [tx EXCEPT ![s] = [key |-> cmd.new, data |-> cmd.plain[other]]]
  /\ Goes("update", cmd.todo \ {s})
  /\ NoFault
  /\ UNCHANGED <<key_file, stash, used, rows, writer, operator, history>>

(* Step 3: one UPDATE per value; an error, or a row that is gone, rolls    *)
(* back. A licence key that has been removed since is a row still, with an *)
(* empty column, and the UPDATE fills it again.                            *)
UpdateSecret(s) ==
  /\ cmd.pc = "update" /\ s \in cmd.todo
  /\ \/ /\ tx' = [tx EXCEPT ![s] = [key |-> cmd.new, data |-> cmd.plain[s]]]
        /\ Goes("update", cmd.todo \ {s})
        /\ NoFault
     \/ /\ rows[s] = NoRow
        /\ Goes("rollback", {})
        /\ NoFault
        /\ UNCHANGED tx
     \/ /\ Goes("rollback", {})
        /\ Fault
        /\ UNCHANGED tx
  /\ UNCHANGED <<key_file, stash, used, rows, writer, operator, history>>

Committed == [s \in Secrets |-> IF tx[s] = NoRow THEN rows[s] ELSE tx[s]]

(* Mutant of Commit: the key file is swapped before the commit.            *)
Commit_AfterSwap ==
  /\ cmd.pc = "update" /\ cmd.todo = {}
  /\ key_file' = cmd.new
  /\ \/ /\ rows' = Committed
        /\ tx' = NoTx
        /\ owed' = {}
        /\ Goes("swap", {})
        /\ NoFault
     \/ /\ Goes("rollback", {})
        /\ Fault
        /\ UNCHANGED <<rows, tx, owed>>
  /\ UNCHANGED <<stash, used, writer, verified, history>>

(* What an earlier command was owed, its stash file copied over the key    *)
(* file, is past once another one has committed.                           *)
Commit ==
  /\ cmd.pc = "update" /\ cmd.todo = {}
  /\ \/ /\ rows' = Committed
        /\ tx' = NoTx
        /\ owed' = {}
        /\ Goes("swap", {})
        /\ NoFault
     \/ /\ Goes("rollback", {})
        /\ Fault
        /\ UNCHANGED <<rows, tx, owed>>
  /\ UNCHANGED <<key_file, stash, used, writer, verified, history>>

(* The catch block: roll back, remove the stash file, stop. The exception  *)
(* may also come out of rollback() itself, and the file stays.             *)
Rollback ==
  /\ cmd.pc = "rollback"
  /\ tx' = NoTx
  /\ \/ /\ stash' = [stash EXCEPT ![cmd.file] = NoFile]
        /\ NoFault
     \/ /\ Fault
        /\ UNCHANGED stash
  /\ Stops
  /\ UNCHANGED <<key_file, used, rows, writer, operator, history>>

(* Step 4: the key file is opened and truncated in place ...               *)
SwapKey ==
  /\ cmd.pc = "swap"
  /\ \/ /\ key_file' = EmptyKey
        /\ Goes("write", {})
        /\ NoFault
        /\ UNCHANGED owed
     \/ /\ Stops
        /\ Fault
        /\ owed' = owed \cup {cmd.file}
        /\ UNCHANGED key_file
  /\ UNCHANGED <<stash, used, rows, tx, writer, verified, history>>

(* Mutant of WriteKey: the old key is written back.                        *)
WriteKey_Old ==
  /\ cmd.pc = "write"
  /\ key_file' = cmd.old
  /\ Goes("verify", {})
  /\ NoFault
  /\ UNCHANGED <<stash, used, rows, tx, writer, operator, history>>

(* ... and written.                                                        *)
WriteKey ==
  /\ cmd.pc = "write"
  /\ \/ /\ key_file' = cmd.new
        /\ Goes("verify", {})
        /\ NoFault
        /\ UNCHANGED owed
     \/ /\ key_file' = Torn
        /\ Stops
        /\ Fault
        /\ owed' = owed \cup {cmd.file}
  /\ UNCHANGED <<stash, used, rows, tx, writer, verified, history>>

(* Crypto::decrypt() with the key file as it is.                           *)
Reads(s) == rows[s] # NoRow /\ key_file \in Keys /\ rows[s].key = key_file

Verified == \A s \in Found : Reads(s) /\ rows[s].data = cmd.plain[s]

(* Step 5: every value is read back. The operator is told to back the      *)
(* stash file up and delete it, or that it holds the key of the data.      *)
Verify ==
  /\ cmd.pc = "verify"
  /\ IF Verified
     THEN /\ verified' = verified \cup {cmd.file}
          /\ UNCHANGED owed
     ELSE /\ owed' = owed \cup {cmd.file}
          /\ UNCHANGED verified
  /\ Stops
  /\ NoFault
  /\ UNCHANGED <<key_file, stash, used, rows, tx, writer, history>>

(* The command dies; the database rolls an open transaction back. A file   *)
(* it was about to write may have been written in part.                    *)
Crash ==
  /\ cmd.pc # "idle"
  /\ Fault
  /\ tx' = NoTx
  /\ Stops
  /\ \/ UNCHANGED stash
     \/ /\ cmd.pc = "stash"
        /\ stash[cmd.file] = NoFile
        /\ stash' = [stash EXCEPT ![cmd.file] = Torn]
  /\ owed' = IF cmd.pc \in {"swap", "write", "verify"}
             THEN owed \cup {cmd.file}
             ELSE owed
  /\ UNCHANGED <<key_file, used, rows, writer, verified, history>>

(* "If anything fails after step 3 commits, the stash file holds the key   *)
(* that matches the data: copy it over .encryption_key" -- by hand.        *)
Restore(f) ==
  /\ f \in owed
  /\ cmd.pc = "idle"
  /\ key_file' = stash[f]
  /\ owed' = owed \ {f}
  /\ UNCHANGED <<stash, used, rows, tx, cmd, writer, verified, history, bounds>>

(* "Now back up the stash file somewhere safe, then delete it" -- at any   *)
(* time after that.                                                        *)
Discard(f) ==
  /\ f \in verified
  /\ cmd.pc = "idle" \/ cmd.file # f
  /\ stash' = [stash EXCEPT ![f] = NoFile]
  /\ verified' = verified \ {f}
  /\ UNCHANGED <<key_file, used, rows, tx, cmd, writer, owed, history, bounds>>

-----------------------------------------------------------------------------
(* Crypto::encrypt() and the save that follows it, in a web request.       *)
Store(w) ==
  /\ writer[w].pc = "idle"
  /\ writes < MaxWrites
  /\ writes' = writes + 1
  /\ raced' = (raced \/ WriterBusy \/ cmd.pc # "idle")
  /\ late' = (late \/ owed # {})
  /\ \E s \in Secrets, d \in Data :
       writer' = [writer EXCEPT
                    ![w] = [NoWriter EXCEPT
                              !.pc = IF key_file = NoFile THEN "generate"
                                     ELSE "encrypt",
                              !.secret = s, !.data = d]]
  /\ UNCHANGED <<key_file, stash, used, rows, tx, cmd, operator, rekeys, faults>>

(* Crypto::key(): a key file that did not exist is written.                *)
GenerateKey(w) ==
  /\ writer[w].pc = "generate"
  /\ \E new \in Keys \ used :
       /\ used' = used \cup {new}
       /\ key_file' = new
  /\ writer' = [writer EXCEPT ![w] = [writer[w] EXCEPT !.pc = "encrypt"]]
  /\ UNCHANGED <<stash, rows, tx, cmd, operator, history, bounds>>

(* A key that is not 32 bytes long is refused.                             *)
Encrypt(w) ==
  /\ writer[w].pc = "encrypt"
  /\ writer' = [writer EXCEPT
                  ![w] = IF key_file \in Keys
                         THEN [writer[w] EXCEPT
                                 !.pc = "save",
                                 !.row = [key |-> key_file, data |-> writer[w].data]]
                         ELSE NoWriter]
  /\ UNCHANGED <<key_file, stash, used, rows, tx, cmd, operator, history, bounds>>

(* A form that leaves the secret alone: the row is loaded, and saved again *)
(* with every column it was loaded with.                                   *)
Edit(w) ==
  /\ writer[w].pc = "idle"
  /\ writes < MaxWrites
  /\ writes' = writes + 1
  /\ raced' = (raced \/ WriterBusy \/ cmd.pc # "idle")
  /\ \E s \in Secrets :
       /\ rows[s] # NoRow
       /\ writer' = [writer EXCEPT
                       ![w] = [NoWriter EXCEPT !.pc = "save", !.secret = s,
                                               !.row = rows[s]]]
  /\ UNCHANGED <<key_file, stash, used, rows, tx, cmd, operator, late, rekeys,
                 faults>>

(* A row that the open transaction has written is locked.                  *)
SaveSecret(w) ==
  /\ writer[w].pc = "save"
  /\ tx[writer[w].secret] = NoRow
  /\ rows' = [rows EXCEPT ![writer[w].secret] = writer[w].row]
  /\ writer' = [writer EXCEPT ![w] = NoWriter]
  /\ UNCHANGED <<key_file, stash, used, tx, cmd, operator, history, bounds>>

(* A licence key is removed, its column emptied; a module's row, deleted.  *)
Remove(s) ==
  /\ writes < MaxWrites
  /\ writes' = writes + 1
  /\ rows[s] # NoRow
  /\ tx[s] = NoRow
  /\ rows' = [rows EXCEPT ![s] = NoRow]
  /\ raced' = (raced \/ WriterBusy \/ cmd.pc # "idle")
  /\ UNCHANGED <<key_file, stash, used, tx, cmd, writer, operator, late, rekeys,
                 faults>>

Rekeying ==
  \/ \E f \in Stashes : Start(f)
  \/ \E s \in Secrets : ReadSecret(s)
  \/ ReadAll
  \/ StashKey
  \/ \E s \in Secrets : UpdateSecret(s)
  \/ Commit
  \/ Rollback
  \/ SwapKey
  \/ WriteKey
  \/ Verify
  \/ Crash

Writing ==
  \/ \E w \in Writers :
       Store(w) \/ GenerateKey(w) \/ Encrypt(w) \/ Edit(w) \/ SaveSecret(w)
  \/ \E s \in Secrets : Remove(s)

Operating == \E f \in Stashes : Restore(f) \/ Discard(f)

Next == Rekeying \/ Writing \/ Operating

Spec == Init /\ [][Next]_vars

-----------------------------------------------------------------------------
Held == {key_file} \cup {stash[f] : f \in Stashes}

(* "No crash can strand the data": at every moment, one key reads every    *)
(* secret there is, and that key is in the key file or in a stash file --  *)
(* as long as no request stores or removes a secret while the command      *)
(* runs, or before a swap that failed has been made good.                  *)
NoneStranded ==
  ~ raced /\ ~ late =>
    \E key \in Held : \A s \in Secrets : rows[s] # NoRow => rows[s].key = key

(* A command that met no fault has left every secret readable with the key *)
(* file, and so has one that refused to start.                             *)
ReadableAtRest ==
  ~ raced /\ faults = 0 /\ cmd.pc = "idle" =>
    \A s \in Secrets : rows[s] # NoRow => rows[s].key = key_file

(* Rekeying moves secrets to another key and changes none of them.         *)
DataKept ==
  [][\A s \in Secrets :
       ~ raced' /\ cmd.pc # "idle" /\ rows[s] # NoRow
       => rows'[s] # NoRow /\ rows'[s].data = rows[s].data]_vars
=============================================================================
