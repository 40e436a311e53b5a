-------------------------- MODULE DatabaseOpenProofs --------------------------
(***************************************************************************)
(* What DatabaseOpen promises, for any number of mounts and kills: its     *)
(* types, KeyFits, DatabaseFollowsTheApp and RetryWhileOwed.               *)
(*                                                                         *)
(* KeyFits needs to know what the callers have in their hands: as long as  *)
(* no two derivations met, only one caller derives, while nothing is       *)
(* cached, and whoever is about to open has the passphrase that is cached  *)
(* (Sound).  DatabaseFollowsTheApp needs that the open result is of a      *)
(* readable, migrated file (Opened), and that next to a mount that came    *)
(* when none was starting no other can be (Alone): only a start whose      *)
(* mount is gone closes somebody else's database.                          *)
(***************************************************************************)
EXTENDS DatabaseOpen, FiniteSetTheorems, TLAPS

Pcs == Starting \cup {"none", "test", "started", "failed", "cancelled", "killed"}

CallStates == [pc : Pcs, key : Keys]

Sound ==
  \/ raced
  \/ /\ \A c, d \in Callers : call[c].pc = "derive" /\ call[d].pc = "derive" => c = d
     /\ \A c \in Callers : call[c].pc = "derive" => passphrase = 0
     /\ \A c \in Callers : call[c].pc = "open" => call[c].key = passphrase /\ passphrase # 0
     /\ file.key # 0 => passphrase = file.key

Opened == currentOpenResult => currentDb = file.key /\ file.version = Latest

Alone ==
  live # 0 /\ live \notin crowded =>
    /\ \A m \in Mounts : call[m].pc \in Starting => m = live
    /\ call[live].pc = "started" => currentOpenResult

\* The smoke test derives a passphrase and goes its own way.
SmokeOnly == call[Smoke].pc \in {"none", "nonce", "derive", "test"}

Closed ==
  live = 0 /\ (\A m \in Mounts : call[m].pc \notin Starting) /\ ~abandoned => currentDb = None

Inv == TypeOK /\ Sound /\ Opened /\ Alone /\ SmokeOnly /\ Closed /\ RetryWhileOwed

-----------------------------------------------------------------------------
LEMMA CallersAre ==
  /\ Mounts \subseteq Nat \ {0} /\ Smoke \notin Mounts /\ Smoke \in Callers
  /\ Mounts \subseteq Callers /\ \A c \in Callers : c \in Mounts \/ c = Smoke
  BY OpenAssumption DEF Mounts, Smoke, Callers

LEMMA KeysAre == MaxDerived \in Nat /\ 0 \in Keys /\ 1 \in Keys /\ Keys \subseteq Nat
<1>1. IsFiniteSet(Mounts)
  BY OpenAssumption, FS_Interval DEF Mounts
<1>2. IsFiniteSet(Callers) /\ Cardinality(Callers) \in Nat
  BY <1>1, FS_AddElement, FS_CardinalityType DEF Callers
<1>3. Cardinality(Callers) # 0
  BY <1>2, CallersAre, FS_EmptySet
<1> QED BY <1>2, <1>3 DEF Keys, MaxDerived

\* Call c is now at pc with key, the others are where they were.
Gone(c, pc, key) ==
  /\ call' \in [Callers -> CallStates]
  /\ call'[c].pc = pc /\ call'[c].key = key
  /\ \A d \in Callers \ {c} : call'[d] = call[d]

LEMMA GoesGone ==
  ASSUME call \in [Callers -> CallStates], NEW c \in Callers, NEW pc \in Pcs, Goes(c, pc)
  PROVE  Gone(c, pc, call[c].key)
  BY DEF Goes, Gone, CallStates

LEMMA WithKeyGone ==
  ASSUME call \in [Callers -> CallStates], NEW c \in Callers, NEW pc \in Pcs, NEW key \in Keys,
         call' = [call EXCEPT ![c] = [pc |-> pc, key |-> key]]
  PROVE  Gone(c, pc, key)
  BY DEF Gone, CallStates

LEMMA FailsGone ==
  ASSUME Inv, NEW c \in Callers, Fails(c)
  PROVE  /\ Gone(c, IF c = Smoke THEN "none" ELSE "failed", call[c].key)
         /\ abandoned' \in BOOLEAN /\ (abandoned => abandoned')
         /\ c \in Mounts /\ c # live => abandoned'
<1>1. /\ Goes(c, IF c = Smoke THEN "none" ELSE "failed")
      /\ abandoned' = (abandoned \/ (c # Smoke /\ c # live))
  BY DEF Fails
<1>2. Gone(c, IF c = Smoke THEN "none" ELSE "failed", call[c].key)
  BY <1>1, GoesGone DEF Inv, TypeOK, CallStates, Pcs
<1> QED BY <1>1, <1>2, CallersAre DEF Inv, TypeOK

-----------------------------------------------------------------------------
LEMMA InitInv == Init => Inv
<1> SUFFICES ASSUME Init PROVE Inv
  OBVIOUS
<1>1. call \in [Callers -> CallStates] /\ \A c \in Callers : call[c].pc = "none"
  BY KeysAre DEF Init, Waiting, CallStates, Pcs
<1>2. file \in [key : Keys, version : 0 .. Latest, events : BOOLEAN, anchored : BOOLEAN]
      /\ file.key = passphrase /\ passphrase \in Keys /\ derived \in Keys
  <2>1. CASE /\ passphrase = 0 /\ derived = 0
             /\ file = [key |-> 0, version |-> 0, events |-> FALSE, anchored |-> TRUE]
    BY <2>1, KeysAre DEF Latest
  <2>2. CASE /\ passphrase = 1 /\ derived = 1
             /\ \E v \in 1 .. Latest : \E e \in {FALSE, v >= AnchorsSince} :
                  file = [key |-> 1, version |-> v, events |-> e, anchored |-> TRUE]
    <3>1. PICK v \in 1 .. Latest : \E e \in {FALSE, v >= AnchorsSince} :
            file = [key |-> 1, version |-> v, events |-> e, anchored |-> TRUE]
      BY <2>2
    <3>2. PICK e \in BOOLEAN :
            file = [key |-> 1, version |-> v, events |-> e, anchored |-> TRUE]
      <4>1. (v >= AnchorsSince) \in BOOLEAN
        OBVIOUS
      <4> QED BY <3>1, <4>1, Zenon
    <3> QED BY <2>2, <3>1, <3>2, KeysAre DEF Latest
  <2> QED BY <2>1, <2>2 DEF Init
<1>3. TypeOK
  <2>1. wal \in [running : BOOLEAN, retryTimer : BOOLEAN]
    BY DEF Init
  <2>2. kills \in 0 .. MaxKills /\ live \in Mounts \cup {0} /\ crowded \subseteq Mounts
    BY OpenAssumption DEF Init
  <2>3. /\ currentDb \in Keys \cup {None} /\ (currentOpenResult => currentDb # None)
        /\ {currentOpenResult, lshLoaded, owed, lapsed, raced, abandoned} \subseteq BOOLEAN
    BY DEF Init
  <2> QED BY <1>1, <1>2, <2>1, <2>2, <2>3 DEF TypeOK, CallStates, Pcs
<1>4. Sound /\ Opened /\ Alone /\ SmokeOnly /\ Closed /\ RetryWhileOwed
  BY <1>1, <1>2, CallersAre DEF Init, Sound, Opened, Alone, SmokeOnly, Closed, RetryWhileOwed
<1> QED BY <1>3, <1>4 DEF Inv

\* ReadCache with a passphrase, and Derived, put a key in the caller's hands.
LEMMA ReadCacheInv ==
  ASSUME Inv, NEW c \in Callers, ReadCache(c)
  PROVE  Inv'
<1>1. /\ call[c].pc = "nonce" /\ call \in [Callers -> CallStates]
      /\ UNCHANGED <<passphrase, file, currentDb, currentOpenResult, lshLoaded, live, derived,
                     wal, kills, owed, lapsed, crowded, abandoned>>
  BY DEF ReadCache, memory, Inv, TypeOK, CallStates, Pcs
<1>2. CASE passphrase # 0
  <2>1. PICK pc \in {"test", "open"} : pc = Opens(c)
    BY DEF Opens
  <2>2. Gone(c, pc, passphrase) /\ raced' = raced
    <3>1. call' = [call EXCEPT ![c] = [pc |-> pc, key |-> passphrase]] /\ raced' = raced
      BY <1>2, <2>1 DEF ReadCache
    <3>2. passphrase \in Keys /\ pc \in Pcs
      BY DEF Inv, TypeOK, Pcs, Starting
    <3> QED BY <1>1, <3>1, <3>2, WithKeyGone
  <2>3. c = Smoke => pc = "test"
    BY <2>1 DEF Opens
  <2>4. c \in Mounts => pc = "open"
    BY <2>1, CallersAre DEF Opens
  <2>5. TypeOK'
    BY <1>1, <2>2 DEF Gone, Inv, TypeOK, CallStates, Pcs
  <2>6. Sound'
    BY <1>1, <1>2, <2>2 DEF Gone, Inv, Sound
  <2>7. Opened' /\ RetryWhileOwed'
    BY <1>1 DEF Inv, Opened, RetryWhileOwed
  <2>8. Alone' /\ Closed' /\ SmokeOnly'
    BY <1>1, <2>2, <2>3, <2>4, CallersAre DEF Gone, Inv, TypeOK, Alone, Closed, SmokeOnly, Starting
  <2> QED BY <2>5, <2>6, <2>7, <2>8 DEF Inv
<1>3. CASE passphrase = 0
  <2>1. /\ Gone(c, "derive", call[c].key)
        /\ raced' = (raced \/ \E d \in Callers : call[d].pc = "derive")
    BY <1>1, <1>3, GoesGone DEF ReadCache, Pcs, Starting
  <2>2. TypeOK'
    <3>1. raced' \in BOOLEAN
      BY <2>1 DEF Inv, TypeOK
    <3> QED BY <1>1, <2>1, <3>1 DEF Gone, Inv, TypeOK, CallStates, Pcs
  <2>3. Sound'
    BY <1>1, <1>3, <2>1 DEF Gone, Inv, Sound
  <2>4. Opened' /\ RetryWhileOwed'
    BY <1>1 DEF Inv, Opened, RetryWhileOwed
  <2>5. Alone' /\ Closed' /\ SmokeOnly'
    BY <1>1, <2>1, CallersAre DEF Gone, Inv, TypeOK, Alone, Closed, SmokeOnly, Starting
  <2> QED BY <2>2, <2>3, <2>4, <2>5 DEF Inv
<1> QED BY <1>2, <1>3

LEMMA DerivedInv ==
  ASSUME Inv, NEW c \in Callers, Derived(c)
  PROVE  Inv'
<1>1. /\ call[c].pc = "derive" /\ call \in [Callers -> CallStates]
      /\ derived < MaxDerived /\ derived' = derived + 1 /\ passphrase' = derived + 1
      /\ UNCHANGED <<file, currentDb, currentOpenResult, lshLoaded, live, wal, kills, owed,
                     lapsed, raced, crowded, abandoned>>
  BY DEF Derived, memory, history, Inv, TypeOK, CallStates, Pcs
<1>2. passphrase' \in Keys /\ passphrase' # 0 /\ derived' \in Keys
  BY <1>1, KeysAre DEF Inv, TypeOK, Keys
<1>3. PICK pc \in {"test", "open"} : pc = Opens(c)
  BY DEF Opens
<1>4. Gone(c, pc, passphrase')
  BY <1>1, <1>2, <1>3, WithKeyGone DEF Derived, Pcs, Starting
<1>5. (c = Smoke => pc = "test") /\ (c \in Mounts => pc = "open")
  BY <1>3, CallersAre DEF Opens
<1>6. TypeOK'
  BY <1>1, <1>2, <1>4 DEF Gone, Inv, TypeOK, CallStates, Pcs
<1>7. Sound'
  BY <1>1, <1>2, <1>4 DEF Gone, Inv, Sound
<1>8. Opened' /\ RetryWhileOwed'
  BY <1>1 DEF Inv, Opened, RetryWhileOwed
<1>9. Alone' /\ Closed' /\ SmokeOnly'
  BY <1>1, <1>4, <1>5, CallersAre DEF Gone, Inv, TypeOK, Alone, Closed, SmokeOnly, Starting
<1> QED BY <1>6, <1>7, <1>8, <1>9 DEF Inv

\* A call that fails, in whatever step, with memory and file as they are.
LEMMA FailsInv ==
  ASSUME Inv, NEW c \in Callers, call[c].pc \in Starting, Fails(c),
         UNCHANGED <<passphrase, file, currentDb, currentOpenResult, lshLoaded, live, derived,
                     wal, kills, owed, lapsed, raced, crowded>>
  PROVE  Inv'
<1>1. /\ Gone(c, IF c = Smoke THEN "none" ELSE "failed", call[c].key)
      /\ abandoned' \in BOOLEAN /\ (abandoned => abandoned')
      /\ c \in Mounts /\ c # live => abandoned'
  BY FailsGone, Zenon
<1>2. TypeOK'
  BY <1>1 DEF Gone, Inv, TypeOK, CallStates, Pcs
<1>3. Sound'
  BY <1>1 DEF Gone, Inv, Sound
<1>4. Opened' /\ RetryWhileOwed'
  BY DEF Inv, Opened, RetryWhileOwed
<1>5. Alone' /\ SmokeOnly'
  BY <1>1, CallersAre DEF Gone, Inv, TypeOK, Alone, SmokeOnly, Starting
<1>6. Closed'
  BY <1>1, CallersAre DEF Gone, Inv, TypeOK, Closed, Starting
<1> QED BY <1>2, <1>3, <1>4, <1>5, <1>6 DEF Inv

\* A start goes from one of its steps to the next, with memory and file as they
\* are.
LEMMA StepOnInv ==
  ASSUME Inv, NEW m \in Mounts, call[m].pc \in {"open", "lsh"},
         NEW pc \in {"lsh", "verify"}, Goes(m, pc), lshLoaded' \in BOOLEAN,
         UNCHANGED <<passphrase, file, currentDb, currentOpenResult, live, derived,
                     wal, kills, owed, lapsed, raced, crowded, abandoned>>
  PROVE  Inv'
<1>1. m \in Callers /\ m # Smoke
  BY CallersAre
<1>2. Gone(m, pc, call[m].key)
  BY <1>1, GoesGone DEF Inv, TypeOK, CallStates, Pcs, Starting
<1>3. TypeOK'
  BY <1>2 DEF Gone, Inv, TypeOK, CallStates, Pcs
<1>4. Sound'
  BY <1>1, <1>2 DEF Gone, Inv, Sound
<1>5. Opened' /\ RetryWhileOwed'
  BY DEF Inv, Opened, RetryWhileOwed
<1>6. Alone' /\ Closed' /\ SmokeOnly'
  BY <1>1, <1>2, CallersAre DEF Gone, Inv, TypeOK, Alone, Closed, SmokeOnly, Starting
<1> QED BY <1>3, <1>4, <1>5, <1>6 DEF Inv

LEMMA MigratedIs ==
  ASSUME NEW f \in [key : Keys, version : 0 .. Latest, events : BOOLEAN, anchored : BOOLEAN],
         NEW v \in 0 .. Latest
  PROVE  /\ Migrated(f, v) \in [key : Keys, version : 0 .. Latest, events : BOOLEAN,
                                anchored : BOOLEAN]
         /\ Migrated(f, v).key = f.key /\ Migrated(f, v).version = v
  BY DEF Migrated

LEMMA MigratedNowhere ==
  ASSUME NEW f \in [key : Keys, version : 0 .. Latest, events : BOOLEAN, anchored : BOOLEAN]
  PROVE  Migrated(f, f.version) = f
<1>1. f.version \in 0 .. 5 /\ f.anchored \in BOOLEAN
  BY DEF Latest
<1>2. (f.anchored /\ ~(f.events /\ f.version < 5 /\ f.version = 5)) = f.anchored
  BY <1>1
<1>3. Migrated(f, f.version) = [[f EXCEPT !.version = f.version] EXCEPT !.anchored = f.anchored]
  BY <1>2 DEF Migrated
<1> QED BY <1>3

LEMMA OpenInv ==
  ASSUME Inv, NEW m \in Callers, Open(m)
  PROVE  Inv'
<1> DEFINE Files == [key : Keys, version : 0 .. Latest, events : BOOLEAN, anchored : BOOLEAN]
           created == Created(m)
           fits == Fits(m)
<1>1. /\ call[m].pc = "open" /\ m # Smoke /\ m \in Mounts /\ ~currentOpenResult
      /\ UNCHANGED <<passphrase, lshLoaded, live, derived, wal, kills, owed, lapsed, raced,
                     crowded>>
  BY CallersAre DEF Open
<1>2. /\ call \in [Callers -> CallStates] /\ file \in Files /\ call[m].key \in Keys
  BY DEF Inv, TypeOK, CallStates, Pcs
<1>3. /\ created \in Files /\ created.version = file.version
      /\ created.key = IF file.key = 0 THEN call[m].key ELSE file.key
  BY <1>2 DEF Created
<1>4. \/ fits /\ file' = Migrated(created, Latest) /\ currentDb' = call[m].key
         /\ currentOpenResult' = TRUE /\ Goes(m, "lsh") /\ abandoned' = abandoned
      \/ /\ \E v \in {created.version} \cup (created.version .. Latest - 1) :
              (v = created.version \/ fits) /\ file' = Migrated(created, v)
         /\ currentDb' = call[m].key /\ currentOpenResult' = currentOpenResult /\ Fails(m)
      \/ Fails(m) /\ UNCHANGED <<file, currentDb, currentOpenResult>>
  <2>1. CASE PragmasThrow(m)
    <3>1. Migrated(created, created.version) = created
      BY <1>3, MigratedNowhere
    <3> QED BY <2>1, <3>1 DEF PragmasThrow
  <2>2. CASE OpenThrows(m) \/ MigrationThrows(m) \/ OpenReturns(m)
    BY <2>2 DEF OpenThrows, MigrationThrows, OpenReturns
  <2> QED BY <2>1, <2>2 DEF Open
<1> HIDE DEF created, Files
\* What the file is afterwards.
<1>5. ASSUME NEW v \in {created.version} \cup (created.version .. Latest - 1),
             file' = Migrated(created, v)
      PROVE  file' \in Files /\ file'.key = created.key
  <2>1. v \in 0 .. Latest
    BY <1>3 DEF Files, Latest
  <2> QED BY <1>3, <1>5, <2>1, MigratedIs DEF Files
<1>6. Sound => raced \/ created.key = passphrase
  BY <1>1, <1>3 DEF Sound
<1>7. RetryWhileOwed'
  BY <1>1 DEF Inv, RetryWhileOwed
<1>8. ASSUME call' \in [Callers -> CallStates], file' \in Files, file'.key = created.key,
             \A d \in Callers \ {m} : call'[d] = call[d], call'[m].pc \notin {"derive", "open"}
      PROVE  Sound'
  BY <1>1, <1>6, <1>8 DEF Inv, Sound
<1>9. CASE fits /\ file' = Migrated(created, Latest) /\ currentDb' = call[m].key
           /\ currentOpenResult' = TRUE /\ Goes(m, "lsh") /\ abandoned' = abandoned
  <2>1. file' \in Files /\ file'.key = created.key /\ file'.version = Latest
    BY <1>3, <1>9, MigratedIs DEF Files, Latest
  <2>2. Gone(m, "lsh", call[m].key)
    BY <1>2, <1>9, GoesGone DEF Pcs, Starting
  <2>3. Sound'
    BY <1>8, <2>1, <2>2 DEF Gone
  <2>4. Opened'
    BY <1>9, <2>1 DEF Opened, Fits, created
  <2>5. TypeOK'
    <3>1. currentDb' # None
      BY <1>2, <1>9, KeysAre, OpenAssumption
    <3> QED BY <1>1, <1>2, <1>9, <2>1, <2>2, <3>1 DEF Gone, Inv, TypeOK, CallStates, Pcs, Files
  <2>6. Alone' /\ Closed' /\ SmokeOnly'
    BY <1>1, <1>9, <2>2, CallersAre DEF Gone, Inv, TypeOK, Alone, Closed, SmokeOnly, Starting
  <2> QED BY <1>7, <2>3, <2>4, <2>5, <2>6 DEF Inv
<1>10. CASE /\ \E v \in {created.version} \cup (created.version .. Latest - 1) :
                 (v = created.version \/ fits) /\ file' = Migrated(created, v)
            /\ currentDb' = call[m].key /\ currentOpenResult' = currentOpenResult /\ Fails(m)
  <2>1. file' \in Files /\ file'.key = created.key
    BY <1>5, <1>10
  <2>2. /\ Gone(m, "failed", call[m].key) /\ abandoned' \in BOOLEAN /\ (abandoned => abandoned')
        /\ m # live => abandoned'
    <3>1. /\ Gone(m, IF m = Smoke THEN "none" ELSE "failed", call[m].key)
          /\ abandoned' \in BOOLEAN /\ (abandoned => abandoned')
          /\ m \in Mounts /\ m # live => abandoned'
      BY <1>10, FailsGone, Zenon
    <3> QED BY <1>1, <3>1
  <2>3. Sound'
    BY <1>8, <2>1, <2>2 DEF Gone
  <2>4. Opened'
    BY <1>1, <1>10 DEF Opened
  <2>5. TypeOK'
    BY <1>1, <1>2, <1>10, <2>1, <2>2 DEF Gone, Inv, TypeOK, CallStates, Pcs, Files
  <2>6. Alone' /\ SmokeOnly'
    BY <1>1, <1>10, <2>2, CallersAre DEF Gone, Inv, TypeOK, Alone, SmokeOnly, Starting
  <2>7. Closed'
    BY <1>1, <2>2, CallersAre DEF Closed
  <2> QED BY <1>7, <2>3, <2>4, <2>5, <2>6, <2>7 DEF Inv
<1>11. CASE Fails(m) /\ UNCHANGED <<file, currentDb, currentOpenResult>>
  BY <1>1, <1>11, FailsInv DEF Starting
<1> QED BY <1>4, <1>9, <1>10, <1>11

LEMMA LoadHyperplanesInv ==
  ASSUME Inv, NEW m \in Callers, LoadHyperplanes(m)
  PROVE  Inv'
<1>1. /\ call[m].pc = "lsh" /\ m \in Mounts
      /\ UNCHANGED <<passphrase, file, currentDb, currentOpenResult, live, derived, wal, kills,
                     owed, lapsed, raced, crowded>>
  BY CallersAre DEF LoadHyperplanes, Inv, SmokeOnly
<1>2. CASE lshLoaded' = TRUE /\ Goes(m, "verify") /\ UNCHANGED abandoned
  BY <1>1, <1>2, StepOnInv
<1>3. CASE ~lshLoaded /\ Fails(m) /\ UNCHANGED lshLoaded
  BY <1>1, <1>3, FailsInv DEF Starting
<1> QED BY <1>2, <1>3 DEF LoadHyperplanes

\* A start comes to its end.
LEMMA AnswerInv ==
  ASSUME Inv, NEW m \in Mounts, call[m].pc \in {"verify", "reuse"},
         NEW loaded \in BOOLEAN, Answer(m, loaded),
         UNCHANGED <<passphrase, file, live, derived, kills, owed, lapsed, raced, crowded>>
  PROVE  Inv'
<1>1. m \in Callers /\ m # Smoke /\ call[m].pc \in Starting
  BY CallersAre DEF Starting
<1>2. /\ call \in [Callers -> CallStates] /\ wal \in [running : BOOLEAN, retryTimer : BOOLEAN]
      /\ currentOpenResult \in BOOLEAN /\ lshLoaded \in BOOLEAN
  BY DEF Inv, TypeOK, CallStates, Pcs
<1>3. CASE currentOpenResult /\ m # live
  <2>1. /\ Goes(m, "cancelled") /\ currentDb' = None /\ currentOpenResult' = FALSE
        /\ lshLoaded' = (currentDb = None /\ lshLoaded)
        /\ wal' = wal /\ abandoned' = abandoned
    BY <1>3 DEF Answer, CloseDatabase
  <2>2. Gone(m, "cancelled", call[m].key)
    BY <1>1, <1>2, <2>1, GoesGone DEF Pcs
  <2>3. TypeOK'
    BY <1>2, <2>1, <2>2 DEF Gone, Inv, TypeOK, CallStates, Pcs
  <2>4. Sound' /\ Opened' /\ RetryWhileOwed'
    BY <1>1, <2>1, <2>2 DEF Gone, Inv, Sound, Opened, RetryWhileOwed
  <2>5. ~(live # 0 /\ live \notin crowded)
    BY <1>1, <1>3 DEF Inv, Alone
  <2>6. Alone' /\ Closed' /\ SmokeOnly'
    BY <1>1, <2>1, <2>2, <2>5, CallersAre DEF Gone, Inv, Alone, Closed, SmokeOnly
  <2> QED BY <2>3, <2>4, <2>6 DEF Inv
<1>4. CASE ~currentOpenResult
  <2>1. Fails(m) /\ UNCHANGED <<wal, currentDb, currentOpenResult>> /\ lshLoaded' = loaded
    BY <1>4 DEF Answer
  <2>2. /\ Gone(m, IF m = Smoke THEN "none" ELSE "failed", call[m].key)
        /\ abandoned' \in BOOLEAN /\ (abandoned => abandoned')
        /\ m \in Mounts /\ m # live => abandoned'
    BY <1>1, <2>1, FailsGone, Zenon
  <2>3. TypeOK'
    BY <1>2, <2>1, <2>2 DEF Gone, Inv, TypeOK, CallStates, Pcs
  <2>4. Sound' /\ Opened' /\ RetryWhileOwed'
    BY <1>1, <2>1, <2>2 DEF Gone, Inv, Sound, Opened, RetryWhileOwed
  <2>5. Alone' /\ SmokeOnly'
    BY <1>1, <2>1, <2>2, CallersAre DEF Gone, Inv, TypeOK, Alone, SmokeOnly, Starting
  <2>6. Closed'
    BY <1>1, <2>1, <2>2, CallersAre DEF Gone, Inv, TypeOK, Closed
  <2> QED BY <2>3, <2>4, <2>5, <2>6 DEF Inv
<1>5. CASE currentOpenResult /\ m = live
  <2>1. /\ Goes(m, "started") /\ wal' = [wal EXCEPT !.running = TRUE]
        /\ UNCHANGED <<currentDb, currentOpenResult, abandoned>> /\ lshLoaded' = loaded
    BY <1>5 DEF Answer
  <2>2. Gone(m, "started", call[m].key)
    BY <1>1, <1>2, <2>1, GoesGone DEF Pcs
  <2>3. wal' \in [running : BOOLEAN, retryTimer : BOOLEAN] /\ wal'.retryTimer = wal.retryTimer
    BY <1>2, <2>1
  <2>4. TypeOK'
    BY <1>2, <2>1, <2>2, <2>3 DEF Gone, Inv, TypeOK, CallStates, Pcs
  <2>5. Sound' /\ Opened' /\ RetryWhileOwed'
    BY <1>1, <2>1, <2>2, <2>3 DEF Gone, Inv, Sound, Opened, RetryWhileOwed
  <2>6. live # 0
    BY <1>1, <1>5 DEF Smoke
  <2>7. Alone' /\ Closed' /\ SmokeOnly'
    BY <1>1, <1>5, <2>1, <2>2, <2>6, CallersAre
       DEF Gone, Inv, TypeOK, Alone, Closed, SmokeOnly, Starting
  <2> QED BY <2>4, <2>5, <2>7 DEF Inv
<1> QED BY <1>3, <1>4, <1>5

LEMMA CallerStepInv ==
  ASSUME Inv, NEW c \in Callers, Step(c)
  PROVE  Inv'
<1>1. ASSUME DeriveFails(c) PROVE Inv'
  BY <1>1, FailsInv DEF DeriveFails, memory, Starting
<1>2. ASSUME ReturnExisting(c) PROVE Inv'
  <2>1. c \in Mounts /\ Goes(c, "lsh") /\ call[c].pc = "open"
    BY <1>2, CallersAre DEF ReturnExisting
  <2>2. lshLoaded' \in BOOLEAN
    BY <1>2 DEF ReturnExisting, memory, Inv, TypeOK
  <2> QED BY <1>2, <2>1, <2>2, StepOnInv DEF ReturnExisting, memory, history
<1>3. ASSUME Started(c) PROVE Inv'
  <2>1. c \in Mounts /\ lshLoaded \in BOOLEAN
    BY <1>3, CallersAre DEF Started, Inv, SmokeOnly, TypeOK
  <2> QED BY <1>3, <2>1, AnswerInv DEF Started
<1>4. ASSUME Reused(c) PROVE Inv'
  <2>1. c \in Mounts
    BY <1>4, CallersAre DEF Reused, Inv, SmokeOnly
  <2>2. CASE Answer(c, TRUE)
    BY <1>4, <2>1, <2>2, AnswerInv DEF Reused
  <2>3. CASE ~lshLoaded /\ Fails(c) /\ UNCHANGED <<memory, wal>>
    BY <1>4, <2>3, FailsInv DEF Reused, memory, Starting
  <2> QED BY <1>4, <2>2, <2>3 DEF Reused
<1> QED BY <1>1, <1>2, <1>3, <1>4, ReadCacheInv, DerivedInv, OpenInv, LoadHyperplanesInv DEF Step

-----------------------------------------------------------------------------
LEMMA MountInv ==
  ASSUME Inv, NEW m \in Mounts, Mount(m)
  PROVE  Inv'
<1>1. /\ live = 0 /\ call[m].pc = "none" /\ live' = m /\ m # 0 /\ m \in Callers /\ m # Smoke
      /\ crowded' = IF \E n \in Mounts : call[n].pc \in Starting THEN crowded \cup {m} ELSE crowded
      /\ UNCHANGED <<passphrase, file, currentDb, currentOpenResult, lshLoaded, derived, wal,
                     kills, owed, lapsed, raced, abandoned>>
  BY CallersAre DEF Mount, memory
<1>2. PICK pc \in {"reuse", "nonce"} : Goes(m, pc)
  BY DEF Mount
<1>3. Gone(m, pc, call[m].key)
  BY <1>1, <1>2, GoesGone DEF Inv, TypeOK, CallStates, Pcs, Starting
<1>4. TypeOK'
  BY <1>1, <1>3 DEF Gone, Inv, TypeOK, CallStates, Pcs
<1>5. Sound' /\ Opened' /\ RetryWhileOwed'
  BY <1>1, <1>3 DEF Gone, Inv, Sound, Opened, RetryWhileOwed
<1>6. Alone'
  <2>1. SUFFICES ASSUME m \notin crowded' PROVE Alone'
    BY <1>1 DEF Alone
  <2>2. \A n \in Mounts : call[n].pc \notin Starting
    BY <1>1, <2>1
  <2> QED BY <1>1, <1>3, <2>2, CallersAre DEF Gone, Alone
<1>7. Closed' /\ SmokeOnly'
  BY <1>1, <1>3, CallersAre DEF Gone, Inv, Closed, SmokeOnly
<1> QED BY <1>4, <1>5, <1>6, <1>7 DEF Inv

LEMMA UnmountInv ==
  ASSUME Inv, Unmount
  PROVE  Inv'
<1>1. /\ live' = 0 /\ wal' = [running |-> FALSE, retryTimer |-> FALSE] /\ lapsed' = TRUE
      /\ currentDb' = None /\ currentOpenResult' = FALSE
      /\ lshLoaded' = (currentDb = None /\ lshLoaded)
      /\ UNCHANGED <<passphrase, file, call, derived, kills, owed, raced, crowded, abandoned>>
  BY DEF Unmount, CloseDatabase
<1>2. TypeOK'
  <2>1. wal' \in [running : BOOLEAN, retryTimer : BOOLEAN]
    BY <1>1
  <2>2. lshLoaded' \in BOOLEAN
    BY <1>1 DEF Inv, TypeOK
  <2> QED BY <1>1, <2>1, <2>2 DEF Inv, TypeOK
<1>3. Sound' /\ Opened' /\ RetryWhileOwed'
  BY <1>1 DEF Inv, Sound, Opened, RetryWhileOwed
<1>4. Alone' /\ Closed' /\ SmokeOnly'
  BY <1>1 DEF Inv, Alone, Closed, SmokeOnly
<1> QED BY <1>2, <1>3, <1>4 DEF Inv

LEMMA SmokeInv ==
  ASSUME Inv, RunSmokeTest \/ SmokeTestEnds
  PROVE  Inv'
<1>1. PICK pc \in {"nonce", "none"} : Goes(Smoke, pc)
  BY DEF RunSmokeTest, SmokeTestEnds
<1>2. UNCHANGED <<passphrase, file, currentDb, currentOpenResult, lshLoaded, live, derived, wal,
                  kills, owed, lapsed, raced, crowded, abandoned>>
  BY DEF RunSmokeTest, SmokeTestEnds, memory, history
<1>3. Gone(Smoke, pc, call[Smoke].key)
  BY <1>1, CallersAre, GoesGone DEF Inv, TypeOK, CallStates, Pcs, Starting
<1>4. TypeOK'
  BY <1>2, <1>3 DEF Gone, Inv, TypeOK, CallStates, Pcs
<1>5. Sound' /\ Opened' /\ RetryWhileOwed'
  BY <1>2, <1>3, CallersAre DEF Gone, Inv, Sound, Opened, RetryWhileOwed
<1>6. Alone' /\ Closed' /\ SmokeOnly'
  BY <1>2, <1>3, CallersAre DEF Gone, Inv, TypeOK, Alone, Closed, SmokeOnly, Smoke
<1> QED BY <1>4, <1>5, <1>6 DEF Inv

LEMMA RecordEventInv ==
  ASSUME Inv, RecordEvent
  PROVE  Inv'
<1>1. /\ file' = [file EXCEPT !.events = TRUE]
      /\ UNCHANGED <<passphrase, currentDb, currentOpenResult, lshLoaded, call, live, derived,
                     wal, kills, owed, lapsed, raced, crowded, abandoned>>
  BY DEF RecordEvent, memory, history
<1>2. /\ file \in [key : Keys, version : 0 .. Latest, events : BOOLEAN, anchored : BOOLEAN]
  BY DEF Inv, TypeOK
<1>3. /\ file' \in [key : Keys, version : 0 .. Latest, events : BOOLEAN, anchored : BOOLEAN]
      /\ file'.key = file.key /\ file'.version = file.version
  BY <1>1, <1>2
<1> QED BY <1>1, <1>3 DEF Inv, TypeOK, Sound, Opened, Alone, SmokeOnly, Closed, RetryWhileOwed

LEMMA KillInv ==
  ASSUME Inv, Kill
  PROVE  Inv'
<1>1. /\ kills < MaxKills /\ kills' = kills + 1
      /\ currentDb' = None /\ currentOpenResult' = FALSE /\ lshLoaded' = FALSE
      /\ call' = [c \in Callers |->
           IF c = Smoke \/ call[c].pc = "none" THEN Waiting ELSE [pc |-> "killed", key |-> 0]]
      /\ live' = 0 /\ wal' = [running |-> FALSE, retryTimer |-> FALSE] /\ lapsed' = TRUE
      /\ UNCHANGED <<passphrase, file, derived, owed, raced, crowded, abandoned>>
  BY DEF Kill
<1>2. /\ call' \in [Callers -> CallStates]
      /\ \A c \in Callers : call'[c].pc \in {"none", "killed"}
      /\ call'[Smoke].pc = "none"
  BY <1>1, KeysAre, CallersAre DEF Waiting, CallStates, Pcs
<1>3. TypeOK'
  <2>1. wal' \in [running : BOOLEAN, retryTimer : BOOLEAN]
    BY <1>1
  <2>2. kills' \in 0 .. MaxKills
    BY <1>1, OpenAssumption DEF Inv, TypeOK
  <2> QED BY <1>1, <1>2, <2>1, <2>2 DEF Inv, TypeOK, CallStates, Pcs
<1>4. Sound' /\ Opened' /\ RetryWhileOwed'
  BY <1>1, <1>2 DEF Inv, Sound, Opened, RetryWhileOwed
<1>5. Alone' /\ Closed' /\ SmokeOnly'
  BY <1>1, <1>2 DEF Alone, Closed, SmokeOnly
<1> QED BY <1>3, <1>4, <1>5 DEF Inv

LEMMA ParsedRow ==
  ASSUME NEW row \in CheckpointRows
  PROVE  /\ parseWALCheckpointResult(row).totalFrames = row[2]
         /\ parseWALCheckpointResult(row).checkpointedFrames = row[3]
<1>1. PICK b \in 0 .. 1, n \in 0 .. MaxFrames, k \in 0 .. MaxFrames : row = <<b, n, k>>
  BY DEF CheckpointRows
<1>2. Len(row) = 3
  BY <1>1
<1> QED BY <1>2 DEF parseWALCheckpointResult

\* The timer is armed when the checkpoint left frames, and only then.
LEMMA CheckpointIs ==
  ASSUME NEW timer, RunPassiveCheckpoint(timer)
  PROVE  \/ /\ owed' \in BOOLEAN /\ lapsed' = FALSE
            /\ wal' = [wal EXCEPT !.retryTimer = owed']
         \/ CheckpointThrows(timer)
<1>1. CASE ~CheckpointThrows(timer)
  <2>1. PICK row \in CheckpointRows :
          /\ owed' = (row[3] < row[2])
          /\ lapsed' = FALSE
          /\ wal' = [wal EXCEPT !.retryTimer =
                       parseWALCheckpointResult(row).checkpointedFrames
                         < parseWALCheckpointResult(row).totalFrames]
    BY <1>1 DEF RunPassiveCheckpoint
  <2> QED BY <2>1, ParsedRow
<1> QED BY <1>1

LEMMA CheckpointInv ==
  ASSUME Inv, Trigger \/ RetryTimer
  PROVE  Inv'
<1>1. PICK timer \in {wal.retryTimer, FALSE} : RunPassiveCheckpoint(timer)
  BY DEF Trigger, RetryTimer
<1>2. UNCHANGED <<passphrase, file, currentDb, currentOpenResult, lshLoaded, call, live, derived,
                  kills, raced, crowded, abandoned>>
  BY DEF Trigger, RetryTimer, memory
<1>3. /\ wal \in [running : BOOLEAN, retryTimer : BOOLEAN]
      /\ owed \in BOOLEAN /\ lapsed \in BOOLEAN
  BY DEF Inv, TypeOK
<1>4. \/ /\ owed' \in BOOLEAN /\ lapsed' = FALSE
         /\ wal' = [wal EXCEPT !.retryTimer = owed']
      \/ CheckpointThrows(timer)
  BY <1>1, CheckpointIs, Zenon
<1>5. /\ wal' \in [running : BOOLEAN, retryTimer : BOOLEAN]
      /\ owed' \in BOOLEAN /\ lapsed' \in BOOLEAN
  BY <1>1, <1>3, <1>4 DEF CheckpointThrows
<1>6. RetryWhileOwed'
  BY <1>1, <1>3, <1>4 DEF CheckpointThrows, Inv, RetryWhileOwed
<1>7. TypeOK'
  BY <1>2, <1>5 DEF Inv, TypeOK
<1> QED BY <1>2, <1>6, <1>7 DEF Inv, Sound, Opened, Alone, SmokeOnly, Closed

LEMMA NextInv == Inv /\ [Next]_vars => Inv'
<1> SUFFICES ASSUME Inv, [Next]_vars PROVE Inv'
  OBVIOUS
<1>1. ASSUME UNCHANGED vars PROVE Inv'
  BY <1>1 DEF vars, memory, history, Inv, TypeOK, Sound, Opened, Alone, SmokeOnly, Closed,
              RetryWhileOwed
<1> QED BY <1>1, CallerStepInv, MountInv, UnmountInv, SmokeInv, RecordEventInv, KillInv,
           CheckpointInv DEF Next

LEMMA Invariant == Spec => []Inv
<1>1. Init => Inv
  BY InitInv
<1>2. Inv /\ [Next]_vars => Inv'
  BY NextInv
<1> QED BY <1>1, <1>2, PTL DEF Spec

\* Every variable has its type, and an open result is of an open connection.
THEOREM TypeCorrect == Spec => []TypeOK
<1>1. Inv => TypeOK
  BY DEF Inv
<1> QED BY <1>1, Invariant, PTL

\* The passphrase that is cached opens the file, unless two derivations met.
THEOREM CachedKeyFits == Spec => []KeyFits
<1>1. Inv => KeyFits
  BY DEF Inv, Sound, KeyFits
<1> QED BY <1>1, Invariant, PTL

\* A mount that came when no other was starting finds the database open, readable
\* and migrated from its start to its end; with no mount and no start under way
\* the database is closed, unless a start failed after its mount was gone.
THEOREM OpenWhileStarted == Spec => []DatabaseFollowsTheApp
<1>1. Inv => DatabaseFollowsTheApp
  BY DEF Inv, Opened, Alone, Closed, DatabaseFollowsTheApp
<1> QED BY <1>1, Invariant, PTL

\* A retry is armed exactly for a checkpoint that left frames, until one throws
\* or the scheduler is stopped.
THEOREM RetriesWhileOwed == Spec => []RetryWhileOwed
<1>1. Inv => RetryWhileOwed
  BY DEF Inv
<1> QED BY <1>1, Invariant, PTL
=============================================================================
