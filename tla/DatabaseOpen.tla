----------------------------- MODULE DatabaseOpen -----------------------------
(***************************************************************************)
(* Opening the production database: the passphrase that is derived once and*)
(* cached in MMKV, the encrypted file and its migrations, the one          *)
(* connection of DatabaseManager, the App effects that open and close it,  *)
(* the smoke test that derives the same passphrase, and the WAL checkpoint *)
(* scheduler.  JavaScript runs on one thread: what lies between two awaits *)
(* is one action.  A kill of the process keeps MMKV and the file.          *)
(*                                                                         *)
(* The Keystore's envelope is randomised: each derivation gives a          *)
(* passphrase of its own, a number.                                        *)
(***************************************************************************)
EXTENDS Integers, FiniteSets, Sequences

CONSTANTS
  MaxMounts,  \* bound: mounts of the App
  MaxKills,   \* bound: kills of the process
  MaxFrames,  \* bound: frames in the write-ahead log
  None        \* no connection

ASSUME OpenAssumption ==
  MaxMounts \in Nat /\ MaxKills \in Nat /\ MaxFrames \in Nat /\ None \notin Nat

VARIABLES
  passphrase,     \* MMKV: the cached passphrase, 0 for none
  file,           \* the database: passphrase (0: no file), migrations, events
  currentDb,      \* passphrase of the connection, or None
  currentOpenResult,   \* whether it is set
  lshLoaded,
  call,           \* [mount or smoke test -> step and passphrase in its hands]
  live,           \* the mount whose effect has not been cleaned up, 0 for none
  derived,        \* passphrases derived so far
  wal,            \* isRunning and retryTimer of the scheduler
  kills,          \* kills so far
  owed,           \* history only, and the rest too: a checkpoint left frames
  lapsed,         \* the scheduler was stopped or a checkpoint threw since
  raced,          \* two derivations were under way at once
  crowded,        \* mounts that came while an earlier one was still starting
  abandoned       \* a start failed after its mount was gone

memory == <<currentDb, currentOpenResult, lshLoaded>>
history == <<owed, lapsed, raced, crowded, abandoned>>
vars == <<passphrase, file, memory, call, live, derived, wal, kills, history>>

-----------------------------------------------------------------------------
Latest == 5                          \* of the migrations
AnchorsSince == 3                    \* the migration that brings the anchors' table
Smoke == 0                           \* the smoke test, among the callers
Mounts == 1 .. MaxMounts             \* in their order
Callers == Mounts \cup {Smoke}
MaxDerived == Cardinality(Callers) + 1
Keys == 0 .. MaxDerived
Starting == {"nonce", "derive", "open", "reuse", "lsh", "verify"}
Waiting == [pc |-> "none", key |-> 0]

\* A fresh install, or one of an older build, whose events all have anchors.
Init ==
  /\ \/ passphrase = 0 /\ file = [key |-> 0, version |-> 0, events |-> FALSE, anchored |-> TRUE]
        /\ derived = 0
     \/ /\ \E v \in 1 .. Latest : \E e \in {FALSE, v >= AnchorsSince} :
             file = [key |-> 1, version |-> v, events |-> e, anchored |-> TRUE]
        /\ passphrase = 1 /\ derived = 1
  /\ currentDb = None /\ currentOpenResult = FALSE /\ lshLoaded = FALSE
  /\ call = [c \in Callers |-> Waiting]
  /\ live = 0
  /\ wal = [running |-> FALSE, retryTimer |-> FALSE]
  /\ kills = 0
  /\ owed = FALSE /\ lapsed = FALSE /\ raced = FALSE /\ crowded = {} /\ abandoned = FALSE

-----------------------------------------------------------------------------
(* deriveSQLCipherPassphrase.  The nonce is created when there is none; it *)
(* only feeds the derivation.                                              *)

Goes(c, pc) == call' = [call EXCEPT ![c].pc = pc]

\* Where a call goes that has its passphrase.
Opens(c) == IF c = Smoke THEN "test" ELSE "open"

\* A start that throws is caught and logged.
Fails(c) ==
  /\ Goes(c, IF c = Smoke THEN "none" ELSE "failed")
  /\ abandoned' = (abandoned \/ (c # Smoke /\ c # live))

ReadCache(c) ==
  /\ call[c].pc = "nonce"
  /\ IF passphrase # 0
     THEN /\ call' = [call EXCEPT ![c] = [pc |-> Opens(c), key |-> passphrase]]
          /\ UNCHANGED raced
     ELSE /\ Goes(c, "derive")
          /\ raced' = (raced \/ \E d \in Callers : call[d].pc = "derive")
  /\ UNCHANGED <<passphrase, file, memory, live, derived, wal, kills,
                 owed, lapsed, crowded, abandoned>>

\* Mutant: a derived passphrase is not stored.
DerivedForgotten(c) ==
  /\ call[c].pc = "derive" /\ derived < MaxDerived
  /\ derived' = derived + 1
  /\ call' = [call EXCEPT ![c] = [pc |-> Opens(c), key |-> derived + 1]]
  /\ UNCHANGED <<passphrase, file, memory, live, wal, kills, history>>

\* The last to derive is the one that is stored.
Derived(c) ==
  /\ call[c].pc = "derive" /\ derived < MaxDerived
  /\ derived' = derived + 1
  /\ passphrase' = derived + 1
  /\ call' = [call EXCEPT ![c] = [pc |-> Opens(c), key |-> derived + 1]]
  /\ UNCHANGED <<file, memory, live, wal, kills, history>>

DeriveFails(c) ==
  /\ call[c].pc \in {"nonce", "derive"}
  /\ Fails(c)
  /\ UNCHANGED <<passphrase, file, memory, live, derived, wal, kills,
                 owed, lapsed, raced, crowded>>

-----------------------------------------------------------------------------
(* openDatabaseWithState, without an await from beginning to end.          *)

\* Migration 5 copies the ledger and drops the old table; foreign keys are on, so
\* the rows of boot_session_anchors go with it.
Migrated(f, v) ==
  [f EXCEPT !.version = v,
            !.anchored = @ /\ ~(f.events /\ f.version < 5 /\ v = 5)]

\* A mount whose passphrase comes late finds another's connection.
ReturnExisting(m) ==
  /\ call[m].pc = "open" /\ m # Smoke /\ currentOpenResult
  /\ Goes(m, "lsh")
  /\ UNCHANGED <<passphrase, file, memory, live, derived, wal, kills, history>>

\* The file as the library opens it: created with the call's passphrase.
Created(m) == IF file.key = 0 THEN [file EXCEPT !.key = call[m].key] ELSE file

Fits(m) == Created(m).key = call[m].key

\* The library has no encryption, or does not open the file.
OpenThrows(m) == Fails(m) /\ UNCHANGED <<file, currentDb, currentOpenResult>>

\* From now on the connection is there, and what throws leaves it there.  With a
\* passphrase that does not fit the first pragma does.
PragmasThrow(m) ==
  /\ file' = Created(m)
  /\ currentDb' = call[m].key
  /\ UNCHANGED currentOpenResult
  /\ Fails(m)

\* Each migration is a transaction of its own: those before it are committed.
MigrationThrows(m) ==
  /\ Fits(m)
  /\ \E v \in Created(m).version .. Latest - 1 : file' = Migrated(Created(m), v)
  /\ currentDb' = call[m].key
  /\ UNCHANGED currentOpenResult
  /\ Fails(m)

OpenReturns(m) ==
  /\ Fits(m)
  /\ file' = Migrated(Created(m), Latest)
  /\ currentDb' = call[m].key /\ currentOpenResult' = TRUE
  /\ Goes(m, "lsh")
  /\ UNCHANGED abandoned

Open(m) ==
  /\ call[m].pc = "open" /\ m # Smoke /\ ~currentOpenResult
  /\ OpenThrows(m) \/ PragmasThrow(m) \/ MigrationThrows(m) \/ OpenReturns(m)
  /\ UNCHANGED <<passphrase, lshLoaded, live, derived, wal, kills, owed, lapsed, raced, crowded>>

\* The hyperplanes are handed to the native module once.
LoadHyperplanes(m) ==
  /\ call[m].pc = "lsh"
  /\ \/ lshLoaded' = TRUE /\ Goes(m, "verify") /\ UNCHANGED abandoned
     \/ ~lshLoaded /\ Fails(m) /\ UNCHANGED lshLoaded
  /\ UNCHANGED <<passphrase, file, currentDb, currentOpenResult, live, derived, wal, kills,
                 owed, lapsed, raced, crowded>>

\* Mutant: the open result is kept.
CloseDatabaseKeeps == currentDb' = None /\ UNCHANGED currentOpenResult /\
                      lshLoaded' = (currentDb = None /\ lshLoaded)

\* closeDatabase; its last checkpoint is of no consequence.
CloseDatabase == currentDb' = None /\ currentOpenResult' = FALSE /\
                 lshLoaded' = (currentDb = None /\ lshLoaded)

\* Mutant: nobody looks whether the mount is still there.
AnswerRegardless(m, loaded) ==
  /\ IF ~currentOpenResult THEN Fails(m) /\ UNCHANGED wal
     ELSE Goes(m, "started") /\ wal' = [wal EXCEPT !.running = TRUE] /\ UNCHANGED abandoned
  /\ lshLoaded' = loaded /\ UNCHANGED <<currentDb, currentOpenResult>>

\* currentOpenResult is returned as it is by now, and without one the start throws.
\* A start whose mount is gone closes the database, whoever opened it.
Answer(m, loaded) ==
  IF currentOpenResult /\ m # live
  THEN Goes(m, "cancelled") /\ CloseDatabase /\ UNCHANGED <<wal, abandoned>>
  ELSE /\ IF ~currentOpenResult THEN Fails(m) /\ UNCHANGED wal
          ELSE Goes(m, "started") /\ wal' = [wal EXCEPT !.running = TRUE] /\ UNCHANGED abandoned
       /\ lshLoaded' = loaded /\ UNCHANGED <<currentDb, currentOpenResult>>

\* verifyChain has answered or thrown, which is logged and ignored alike.
Started(m) ==
  /\ call[m].pc = "verify"
  /\ Answer(m, lshLoaded)
  /\ UNCHANGED <<passphrase, file, live, derived, kills, owed, lapsed, raced, crowded>>

\* A start that found the database open waits for the hyperplanes only.
Reused(m) ==
  /\ call[m].pc = "reuse"
  /\ \/ Answer(m, TRUE)
     \/ ~lshLoaded /\ Fails(m) /\ UNCHANGED <<memory, wal>>
  /\ UNCHANGED <<passphrase, file, live, derived, kills, owed, lapsed, raced, crowded>>

-----------------------------------------------------------------------------
(* The App's effect and its cleanup, the smoke test, a kill.               *)

Mount(m) ==
  /\ live = 0 /\ call[m].pc = "none"
  /\ \A n \in Mounts : n < m => call[n].pc # "none"
  /\ live' = m
  /\ Goes(m, IF currentOpenResult THEN "reuse" ELSE "nonce")
  /\ crowded' = IF \E n \in Mounts : call[n].pc \in Starting THEN crowded \cup {m} ELSE crowded
  /\ UNCHANGED <<passphrase, file, memory, derived, wal, kills, owed, lapsed, raced, abandoned>>

Unmount ==
  /\ live # 0
  /\ live' = 0
  /\ wal' = [running |-> FALSE, retryTimer |-> FALSE]
  /\ lapsed' = TRUE
  /\ CloseDatabase
  /\ UNCHANGED <<passphrase, file, call, derived, kills, owed, raced, crowded, abandoned>>

\* A button; the test has a file of its own and closes it itself.
RunSmokeTest ==
  /\ live # 0 /\ call[Smoke].pc = "none"
  /\ Goes(Smoke, "nonce")
  /\ UNCHANGED <<passphrase, file, memory, live, derived, wal, kills, history>>

SmokeTestEnds ==
  /\ call[Smoke].pc = "test"
  /\ Goes(Smoke, "none")
  /\ UNCHANGED <<passphrase, file, memory, live, derived, wal, kills, history>>

\* recordEvent inserts an event and its anchor in one transaction.
RecordEvent ==
  /\ currentDb = file.key /\ file.version = Latest
  /\ file' = [file EXCEPT !.events = TRUE]
  /\ UNCHANGED <<passphrase, memory, call, live, derived, wal, kills, history>>

Kill ==
  /\ kills < MaxKills
  /\ kills' = kills + 1
  /\ currentDb' = None /\ currentOpenResult' = FALSE /\ lshLoaded' = FALSE
  /\ call' = [c \in Callers |->
       IF c = Smoke \/ call[c].pc = "none" THEN Waiting ELSE [pc |-> "killed", key |-> 0]]
  /\ live' = 0
  /\ wal' = [running |-> FALSE, retryTimer |-> FALSE]
  /\ lapsed' = TRUE
  /\ UNCHANGED <<passphrase, file, derived, owed, raced, crowded, abandoned>>

-----------------------------------------------------------------------------
(* WALCheckpointScheduler.                                                 *)

CanRead == currentDb # None /\ currentDb = file.key

\* What PRAGMA wal_checkpoint answers: busy, frames in the log, frames copied.
CheckpointRows ==
  {row \in (0 .. 1) \X (0 .. MaxFrames) \X (0 .. MaxFrames) : row[3] <= row[2]}

\* Mutant: busy is taken for the number of frames.
parseWALCheckpointResultShifted(row) ==
  [totalFrames |-> row[1], checkpointedFrames |-> row[2]]

\* A row of two columns has no busy.
parseWALCheckpointResult(row) ==
  [totalFrames |-> IF Len(row) >= 3 THEN row[2] ELSE IF Len(row) = 2 THEN row[1] ELSE 0,
   checkpointedFrames |-> IF Len(row) >= 3 THEN row[3] ELSE IF Len(row) = 2 THEN row[2] ELSE 0]

\* Getting the database or the pragma throws: nothing is tried again.
CheckpointThrows(timer) ==
  wal' = [wal EXCEPT !.retryTimer = timer] /\ lapsed' = TRUE /\ UNCHANGED owed

\* Mutant: a checkpoint that is complete leaves the timer armed.
RunPassiveCheckpointArmed(timer) ==
  \/ /\ CanRead
     /\ \E row \in CheckpointRows :
          LET stats == parseWALCheckpointResult(row) IN
          /\ owed' = (row[3] < row[2])
          /\ lapsed' = FALSE
          /\ wal' = [wal EXCEPT !.retryTimer =
                              timer \/ stats.checkpointedFrames < stats.totalFrames]
  \/ CheckpointThrows(timer)

\* A passive checkpoint may leave frames to a reader; inside a transaction or
\* without a readable database it throws.
RunPassiveCheckpoint(timer) ==
  \/ /\ CanRead
     /\ \E row \in CheckpointRows :
          LET stats == parseWALCheckpointResult(row) IN
          /\ owed' = (row[3] < row[2])
          /\ lapsed' = FALSE
          /\ wal' = [wal EXCEPT !.retryTimer =
                              stats.checkpointedFrames < stats.totalFrames]
  \/ CheckpointThrows(timer)

\* The application goes to the background or comes back, or an upload was
\* acknowledged (runNow, which does not ask whether the scheduler runs).
Trigger ==
  /\ RunPassiveCheckpoint(wal.retryTimer)
  /\ UNCHANGED <<passphrase, file, memory, call, live, derived, kills, raced, crowded, abandoned>>

RetryTimer ==
  /\ wal.retryTimer
  /\ RunPassiveCheckpoint(FALSE)
  /\ UNCHANGED <<passphrase, file, memory, call, live, derived, kills, raced, crowded, abandoned>>

-----------------------------------------------------------------------------
Step(c) ==
  \/ ReadCache(c) \/ Derived(c) \/ DeriveFails(c)
  \/ ReturnExisting(c) \/ Open(c) \/ LoadHyperplanes(c) \/ Started(c) \/ Reused(c)

Next ==
  \/ \E c \in Callers : Step(c)
  \/ \E m \in Mounts : Mount(m)
  \/ Unmount \/ RunSmokeTest \/ SmokeTestEnds \/ RecordEvent \/ Kill
  \/ Trigger \/ RetryTimer

Spec == Init /\ [][Next]_vars

-----------------------------------------------------------------------------
\* The types, and an open result is of an open connection (DatabaseManager.ts:266-279).
TypeOK ==
  /\ passphrase \in Keys /\ derived \in Keys
  /\ file \in [key : Keys, version : 0 .. Latest, events : BOOLEAN, anchored : BOOLEAN]
  /\ currentDb \in Keys \cup {None}
  /\ currentOpenResult => currentDb # None
  /\ {currentOpenResult, lshLoaded, owed, lapsed, raced, abandoned} \subseteq BOOLEAN
  /\ call \in [Callers -> [pc : Starting \cup {"none", "test", "started", "failed",
                                               "cancelled", "killed"}, key : Keys]]
  /\ live \in Mounts \cup {0}
  /\ wal \in [running : BOOLEAN, retryTimer : BOOLEAN]
  /\ kills \in 0 .. MaxKills
  /\ crowded \subseteq Mounts

\* The passphrase in MMKV opens the file, across kills, failed starts and
\* reinstallations of the App's effect, unless two derivations were once under
\* way together: the later one then replaces the passphrase the file was created
\* with, and the next start of the process cannot read it
\* (KeyDerivation.ts:84-110, DatabaseManager.ts:216-222).
KeyFits == file.key # 0 => passphrase = file.key \/ raced

\* While a mount that has started is there, the database is open, readable and
\* fully migrated, unless it came while an earlier one was still starting, whose
\* end closes everybody's database.  With no mount and no start under way it is
\* closed, unless a start failed behind its mount's back (App.tsx:372-380,
\* :398-402, DatabaseManager.ts:173, :242).
DatabaseFollowsTheApp ==
  /\ live # 0 /\ call[live].pc = "started" /\ live \notin crowded =>
       currentOpenResult /\ currentDb = file.key /\ file.version = Latest
  /\ live = 0 /\ (\A m \in Mounts : call[m].pc \notin Starting) /\ ~abandoned =>
       currentDb = None

\* A checkpoint that left frames in the log is tried again until one is complete,
\* unless one threw or the scheduler was stopped in between; and no timer is armed
\* for anything else (WALCheckpointScheduler.ts:118-144).
RetryWhileOwed ==
  /\ owed => wal.retryTimer \/ lapsed
  /\ wal.retryTimer => owed

\* docs/security/crypto-audit.md:234, "For each ledger event, the app stores a
\* mapping between wall-clock time, uptime, event id, and a session hash"
\* (005_erasure_ledger_support.ts:89).
EveryEventIsAnchored == file.events => file.anchored
=============================================================================
