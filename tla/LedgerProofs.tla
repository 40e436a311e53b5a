---------------------------- MODULE LedgerProofs ----------------------------
(***************************************************************************)
(* Proofs about Ledger, for any sets of people, calls and erasures and any *)
(* bounds: its type invariant, that the rows are always one hash chain in  *)
(* increasing counter order, that the ledger implements AppendOnlyLog,     *)
(* whom the rows can name, that an audit answers exactly, and what alone   *)
(* can make it find fault with an untampered ledger.                       *)
(*                                                                         *)
(* ChainLinked alone is not inductive: an append inserts a row built from  *)
(* the hash and the counter it read several awaits earlier, and a ROLLBACK *)
(* brings back rows of an earlier moment.  OneAppendAtATime says that what *)
(* an append read is still current, and is what the promise chain in       *)
(* recordEvent is for; Undoable says that what a ROLLBACK brings back are  *)
(* the same events.  Named, Keyed and Purging relate names, personnel rows *)
(* and keys, now and after a ROLLBACK.  An audit reads its rows once and   *)
(* its keys one by one: Audited relates its cache to who was enrolled when *)
(* it began.  Orderly and Legible say what counters, times and rows are    *)
(* like while none of the known hazards has come to pass.                  *)
(***************************************************************************)
EXTENDS Ledger, SequenceTheorems, TLAPS

\* Two states of the ledger hold the same events: they differ at most in the
\* names and in which payload hashes are there.
SameEntries(rs, ss) ==
  /\ Len(rs) = Len(ss)
  /\ \A i \in 1 .. Len(rs) :
       /\ rs[i].counter = ss[i].counter /\ rs[i].ts = ss[i].ts
       /\ rs[i].prev = ss[i].prev /\ rs[i].hash = ss[i].hash
       /\ rs[i].sealed = ss[i].sealed

\* Nothing is inserted while a transaction is open, but the transaction's own.
Undoable ==
  /\ tx.open => SameEntries(rows, tx.rows)
  /\ ~tx.open => tx = Closed

IInv == TypeOK /\ ChainLinked /\ OneAppendAtATime /\ Undoable

\* The constants and states are well typed at the start.
LEMMA InitIInv == Init => IInv
<1> SUFFICES ASSUME Init PROVE IInv
  OBVIOUS
<1> USE BoundsAssumption, LegacyAssumption
<1>1. NoJob \in Job /\ NoAudit \in Audit /\ NoErasure \in Erasing /\ Closed \in Transaction
  BY DEF NoJob, Job, NoAudit, Audit, GENESIS_HASH, Time, NoErasure, Erasing, Closed,
         Transaction
<1>2. TypeOK
  <2>1. SteppedBefore \in BOOLEAN
    BY DEF SteppedBefore
  <2>2. hist \in History
    BY <2>1 DEF Init, History
  <2>3. erase \in [Erasures -> Erasing] /\ job \in [Calls -> Job]
    BY <1>1 DEF Init
  <2> QED
    BY <1>1, <2>2, <2>3 DEF Init, TypeOK, Time
<1>3. ChainLinked
  <2> SUFFICES ASSUME NEW i \in 1 .. Len(rows)
               PROVE  /\ rows[i].prev = HashBefore(rows, i)
                      /\ rows[i].counter < counter
                      /\ i > 1 => rows[i - 1].counter < rows[i].counter
    BY DEF ChainLinked
  <2>1. Len(rows) \in Nat /\ i \in Nat
    BY DEF Init
  <2>2. \A k \in 1 .. Len(rows) : rows[k].counter = k
    BY DEF Init
  <2>3. i > 1 => i - 1 \in 1 .. Len(rows)
    BY <2>1
  <2> QED
    BY <2>1, <2>2, <2>3 DEF Init
<1>4. OneAppendAtATime
  BY DEF Init, OneAppendAtATime, NoJob, InAppend, HoldsCounter
<1>5. Undoable
  BY DEF Init, Undoable, Closed
<1> QED
  BY <1>2, <1>3, <1>4, <1>5 DEF IInv

-----------------------------------------------------------------------------
(* The ways a step can touch the rows: not at all, by appending one, or by *)
(* changing names and payload hashes.                                      *)

LEMMA RowFacts ==
  ASSUME TypeOK
  PROVE  /\ rows \in Seq(Row)
         /\ Len(rows) \in Nat
         /\ counter \in Nat
         /\ \A i \in 1 .. Len(rows) : rows[i] \in Row
         /\ \A i \in 1 .. Len(rows) : rows[i].counter \in Nat
<1>1. rows \in Seq(Row) /\ counter \in Nat
  BY DEF TypeOK
<1>2. Len(rows) \in Nat /\ \A i \in 1 .. Len(rows) : rows[i] \in Row
  BY <1>1
<1>3. \A r \in Row : r.counter \in Nat
  BY DEF Row
<1> QED
  BY <1>1, <1>2, <1>3

LEMMA RowTimes ==
  ASSUME TypeOK
  PROVE  \A i \in 1 .. Len(rows) : rows[i].ts \in Nat
<1>1. \A t \in Time : t \in Nat
  BY BoundsAssumption DEF Time
<1>2. \A r \in Row : r.ts \in Time
  BY DEF Row
<1> QED BY <1>1, <1>2, RowFacts

LEMMA PreviousHashType ==
  ASSUME TypeOK
  PROVE  fetchPreviousHash \in Seq(Link)
<1>0. rows \in Seq(Row) /\ Len(rows) \in Nat
         /\ \A i \in 1 .. Len(rows) : rows[i] \in Row
  BY RowFacts
<1>1. \A r \in Row : r.hash \in Seq(Link)
  BY DEF Row
<1>2. <<>> \in Seq(Link)
  OBVIOUS
<1>3. Len(rows) > 0 => rows[Len(rows)].hash \in Seq(Link)
  BY <1>0, <1>1
<1>4. fetchPreviousHash = IF Len(rows) + 1 = 1 THEN <<>>
                          ELSE rows[(Len(rows) + 1) - 1].hash
  BY DEF fetchPreviousHash, HashBefore, GENESIS_HASH
<1> QED
  BY <1>0, <1>2, <1>3, <1>4

\* Rows with the same events are as good a chain.
LEMMA SameChain ==
  ASSUME TypeOK, ChainLinked, SameEntries(rows, rows'), rows' \in Seq(Row),
         counter' \in Nat, counter' >= counter
  PROVE  /\ ChainLinked'
         /\ fetchPreviousHash' = fetchPreviousHash
         /\ Len(rows') = Len(rows)
         /\ \A i \in 1 .. Len(rows) : rows'[i].counter = rows[i].counter
<1>1. /\ Len(rows) \in Nat /\ counter \in Nat
      /\ \A i \in 1 .. Len(rows) : rows[i].counter \in Nat
  BY RowFacts
<1>2. /\ Len(rows') = Len(rows)
      /\ \A i \in 1 .. Len(rows) : /\ rows'[i].counter = rows[i].counter
                                   /\ rows'[i].prev = rows[i].prev
                                   /\ rows'[i].hash = rows[i].hash
  BY DEF SameEntries
<1>3. \A i \in 1 .. Len(rows) : i > 1 => i - 1 \in 1 .. Len(rows)
  BY <1>1
<1>4. ChainLinked'
  <2> SUFFICES ASSUME NEW i \in 1 .. Len(rows)
               PROVE  /\ rows'[i].prev = HashBefore(rows', i)
                      /\ rows'[i].counter < counter'
                      /\ i > 1 => rows'[i - 1].counter < rows'[i].counter
    BY <1>2 DEF ChainLinked
  <2>1. /\ rows[i].prev = HashBefore(rows, i)
        /\ rows[i].counter < counter
        /\ i > 1 => rows[i - 1].counter < rows[i].counter
    BY DEF ChainLinked
  <2>2. HashBefore(rows', i) = HashBefore(rows, i)
    BY <1>2, <1>3 DEF HashBefore
  <2>3. rows[i].counter < counter'
    BY <1>1, <2>1
  <2> QED
    BY <1>2, <1>3, <2>1, <2>2, <2>3
<1>5. fetchPreviousHash' = fetchPreviousHash
  <2>1. Len(rows) > 0 => rows'[Len(rows)].hash = rows[Len(rows)].hash
    BY <1>1, <1>2
  <2>2. fetchPreviousHash = IF Len(rows) = 0 THEN GENESIS_HASH
                                             ELSE rows[Len(rows)].hash
    BY <1>1 DEF fetchPreviousHash, HashBefore
  <2>3. fetchPreviousHash' = IF Len(rows) = 0 THEN GENESIS_HASH
                                              ELSE rows'[Len(rows)].hash
    BY <1>1, <1>2 DEF fetchPreviousHash, HashBefore
  <2> QED
    BY <1>1, <2>1, <2>2, <2>3
<1> QED
  BY <1>2, <1>4, <1>5

\* Any rows hold the same events as themselves, and whatever holds the same as
\* they do, holds the same as each other.
LEMMA SameAsItself ==
  ASSUME NEW rs
  PROVE  SameEntries(rs, rs)
BY DEF SameEntries

LEMMA SameThrough ==
  ASSUME NEW rs, NEW ss, NEW ts, SameEntries(rs, ss), SameEntries(rs, ts)
  PROVE  SameEntries(ss, ts)
BY DEF SameEntries

LEMMA NewRowType ==
  ASSUME NEW j \in Job, NEW b \in BOOLEAN
  PROVE  /\ NewRow(j, b) \in Row
         /\ NewRow(j, b).counter = j.counter
         /\ NewRow(j, b).prev = j.prev
<1>1. [form |-> "sha", ts |-> j.ts, counter |-> j.counter] \in Link
  BY DEF Job, Link
<1>2. Digest(j.prev, "sha", j.ts, j.counter) \in Seq(Link)
  BY <1>1 DEF Digest, Job
<1> QED
  BY <1>2 DEF NewRow, Row, Job

LEMMA OneMoreRow ==
  ASSUME TypeOK, ChainLinked, NEW j \in Job, NEW b \in BOOLEAN,
         rows' = Append(rows, NewRow(j, b)),
         j.prev = fetchPreviousHash,
         \A i \in 1 .. Len(rows) : rows[i].counter < j.counter,
         counter' \in Nat, counter' >= counter, j.counter < counter'
  PROVE  rows' \in Seq(Row) /\ ChainLinked'
<1> DEFINE n == Len(rows)
           r == NewRow(j, b)
<1>1. r \in Row /\ r.counter = j.counter /\ r.prev = j.prev
  BY NewRowType
<1>2. /\ rows \in Seq(Row)
      /\ n \in Nat
      /\ \A i \in 1 .. n : rows[i] \in Row /\ rows[i].counter \in Nat
  BY RowFacts
<1> HIDE DEF r
<1>3. /\ rows' \in Seq(Row)
      /\ Len(rows') = n + 1
      /\ \A i \in 1 .. n : rows'[i] = rows[i]
      /\ rows'[n + 1] = r
  BY <1>1, <1>2, AppendProperties DEF r
<1>4. j.counter \in Nat /\ counter \in Nat
  BY DEF Job, TypeOK
<1>5. ASSUME NEW i \in 1 .. n
      PROVE  /\ rows'[i].prev = HashBefore(rows', i)
             /\ rows'[i].counter < counter'
             /\ i > 1 => rows'[i - 1].counter < rows'[i].counter
  <2>1. /\ rows[i].prev = HashBefore(rows, i)
        /\ rows[i].counter < counter
        /\ i > 1 => rows[i - 1].counter < rows[i].counter
    BY DEF ChainLinked
  <2>2. i > 1 => i - 1 \in 1 .. n
    BY <1>2
  <2>3. rows[i].counter < counter'
    BY <2>1, <1>2, <1>4
  <2> QED
    BY <1>2, <1>3, <2>1, <2>2, <2>3 DEF HashBefore
<1>6. /\ rows'[n + 1].prev = HashBefore(rows', n + 1)
      /\ rows'[n + 1].counter < counter'
      /\ n + 1 > 1 => rows'[n].counter < rows'[n + 1].counter
  <2>1. n > 0 => n \in 1 .. n
    BY <1>2
  <2>2. j.prev = HashBefore(rows, n + 1)
    BY DEF fetchPreviousHash
  <2>3. HashBefore(rows', n + 1) = HashBefore(rows, n + 1)
    BY <1>2, <1>3, <2>1 DEF HashBefore
  <2> QED
    BY <1>1, <1>2, <1>3, <2>1, <2>2, <2>3
<1>7. ASSUME NEW i \in 1 .. Len(rows')
      PROVE  i \in 1 .. n \/ i = n + 1
  BY <1>2, <1>3
<1>8. ChainLinked'
  <2> SUFFICES ASSUME NEW i \in 1 .. Len(rows')
               PROVE  /\ rows'[i].prev = HashBefore(rows', i)
                      /\ rows'[i].counter < counter'
                      /\ i > 1 => rows'[i - 1].counter < rows'[i].counter
    BY DEF ChainLinked
  <2>1. CASE i \in 1 .. n
    BY <2>1, <1>5
  <2>2. CASE i = n + 1
    <3>1. i - 1 = n
      BY <2>2, <1>2
    <3> QED
      BY <2>2, <3>1, <1>6
  <2> QED
    BY <1>7, <2>1, <2>2
<1> QED
  BY <1>3, <1>8

\* The soft purge redacts rows and keeps their events.
LEMMA PurgedRows ==
  ASSUME TypeOK, NEW p, rows' = Purged(p)
  PROVE  /\ rows' \in Seq(Row)
         /\ SameEntries(rows, rows')
         /\ Len(rows') = Len(rows)
         /\ \A i \in 1 .. Len(rows) :
              /\ rows[i].person # p => rows'[i] = rows[i]
              /\ rows[i].person = p => rows'[i] = [rows[i] EXCEPT !.person = Nobody]
              /\ rows[i].person = p => /\ rows'[i].person = Nobody
                                       /\ rows'[i].hashed = rows[i].hashed
<1>1. Len(rows) \in Nat /\ \A i \in 1 .. Len(rows) : rows[i] \in Row
  BY RowFacts
<1>2. ASSUME NEW r \in Row
      PROVE  /\ Anonymised(r, p) \in Row
             /\ Anonymised(r, p).counter = r.counter /\ Anonymised(r, p).ts = r.ts
             /\ Anonymised(r, p).prev = r.prev /\ Anonymised(r, p).hash = r.hash
             /\ Anonymised(r, p).sealed = r.sealed
             /\ r.person = p => /\ Anonymised(r, p).person = Nobody
                                /\ Anonymised(r, p).hashed = r.hashed
  BY DEF Anonymised, Row
<1>3. Len(rows') = Len(rows) /\ \A i \in 1 .. Len(rows) : rows'[i] = Anonymised(rows[i], p)
  BY <1>1 DEF Purged
<1>4. rows' \in Seq(Row)
  BY <1>1, <1>2 DEF Purged
<1>5. SameEntries(rows, rows')
  BY <1>1, <1>2, <1>3 DEF SameEntries
<1>6. \A r : /\ r.person # p => Anonymised(r, p) = r
             /\ r.person = p => Anonymised(r, p) = [r EXCEPT !.person = Nobody]
  BY DEF Anonymised
<1> QED
  BY <1>1, <1>2, <1>3, <1>4, <1>5, <1>6

\* The backfill of one row.
LEMMA BackfilledRows ==
  ASSUME TypeOK, NEW k, rows' = Backfilled(k)
  PROVE  /\ rows' \in Seq(Row)
         /\ SameEntries(rows, rows')
         /\ Len(rows') = Len(rows)
         /\ \A i \in 1 .. Len(rows) : rows'[i].person = rows[i].person
<1>1. rows \in Seq(Row) /\ Len(rows) \in Nat /\ \A i \in 1 .. Len(rows) : rows[i] \in Row
  BY RowFacts
<1>2. ASSUME NEW r \in Row
      PROVE  LET b == [r EXCEPT !.hashed = TRUE] IN
             /\ b \in Row /\ b.counter = r.counter /\ b.ts = r.ts /\ b.prev = r.prev
             /\ b.hash = r.hash /\ b.sealed = r.sealed /\ b.person = r.person
  BY DEF Row
<1>3. CASE k \in 1 .. Len(rows)
  <2> DEFINE b == [rows[k] EXCEPT !.hashed = TRUE]
  <2>1. /\ b \in Row /\ b.counter = rows[k].counter /\ b.ts = rows[k].ts
        /\ b.prev = rows[k].prev /\ b.hash = rows[k].hash
        /\ b.sealed = rows[k].sealed /\ b.person = rows[k].person
    BY <1>1, <1>2, <1>3
  <2>2. rows' = [rows EXCEPT ![k] = b]
    BY DEF Backfilled
  <2> HIDE DEF b
  <2>3. /\ rows' \in Seq(Row) /\ Len(rows') = Len(rows)
        /\ \A i \in 1 .. Len(rows) : rows'[i] = IF i = k THEN b ELSE rows[i]
    BY <1>1, <1>3, <2>1, <2>2, ExceptSeq
  <2> QED
    BY <2>1, <2>3 DEF SameEntries
<1>4. CASE k \notin 1 .. Len(rows)
  <2>1. rows' = rows
    BY <1>1, <1>4 DEF Backfilled
  <2> QED
    BY <1>1, <2>1, SameAsItself
<1> QED
  BY <1>3, <1>4

\* What a ROLLBACK leaves.
LEMMA RolledBack ==
  ASSUME TypeOK, Undoable, Rollback
  PROVE  /\ rows' \in Seq(Row) /\ SameEntries(rows, rows')
         /\ active' \in SUBSET People /\ tx' \in Transaction
         /\ Undoable'
<1>1. tx \in Transaction /\ Closed \in Transaction /\ ~Closed.open
  BY DEF TypeOK, Closed, Transaction
<1>2. tx.rows \in Seq(Row) /\ tx.active \in SUBSET People
  BY <1>1 DEF Transaction
<1> QED
  BY <1>1, <1>2, SameAsItself DEF Rollback, Undoable, TypeOK

\* What an audit keeps when a race is noted.
LEMMA RaceNoted ==
  ASSUME TypeOK, NotesRace
  PROVE  /\ audit' \in Audit
         /\ audit'.pc = audit.pc /\ audit'.snap = audit.snap /\ audit'.at = audit.at
         /\ audit'.deks = audit.deks /\ audit'.sound = audit.sound
         /\ audit'.threw = audit.threw
         /\ audit'.raced <=> audit.raced \/ (audit.pc = "read" /\ enrolled' # enrolled)
<1> DEFINE new == audit.raced \/ (audit.pc = "read" /\ enrolled' # enrolled)
<1>1. audit \in Audit /\ new \in BOOLEAN
  BY DEF TypeOK, Audit
<1>2. audit' = [audit EXCEPT !.raced = new]
  BY DEF NotesRace
<1> HIDE DEF new
<1>3. /\ audit' \in Audit
      /\ audit'.pc = audit.pc /\ audit'.snap = audit.snap /\ audit'.at = audit.at
      /\ audit'.deks = audit.deks /\ audit'.sound = audit.sound
      /\ audit'.threw = audit.threw /\ audit'.raced = new
  BY <1>1, <1>2 DEF Audit
<1> QED
  BY <1>3 DEF new

-----------------------------------------------------------------------------
(* One lemma per action of recordEvent.                                    *)

\* The history is a record of flags, whichever are raised.
LEMMA HistoryType ==
  ASSUME hist \in History, NEW a \in BOOLEAN, NEW b \in BOOLEAN
  PROVE  /\ [hist EXCEPT !.lost = a] \in History
         /\ [hist EXCEPT !.named = a] \in History
         /\ [hist EXCEPT !.stepped = a] \in History
         /\ [hist EXCEPT !.backfilled = a] \in History
         /\ [hist EXCEPT !.torn = a] \in History
         /\ [hist EXCEPT !.lost = a, !.torn = b] \in History
BY DEF History

\* A running call that settles leaves the chain of calls without a running
\* one, and moves it to the next.
LEMMA SettleFrees ==
  ASSUME TypeOK, OneAppendAtATime, NEW c \in Calls,
         job[c].pc \in InAppend, Settle(c)
  PROVE  /\ job' \in [Calls -> Job]
         /\ queue' \in Seq(Calls)
         /\ \A d \in Calls : job'[d].pc \notin InAppend
<1>1. NoJob \in Job /\ NoJob.pc \notin InAppend
  BY BoundsAssumption DEF NoJob, Job, GENESIS_HASH, Time, InAppend
<1>2. queue \in Seq(Calls) /\ queue # <<>> /\ c = Head(queue)
  BY DEF TypeOK, OneAppendAtATime
<1>3. queue' \in Seq(Calls)
  BY <1>2 DEF Settle
<1>4. job \in [Calls -> Job]
  BY DEF TypeOK
<1>5. \A d \in Calls : job[d].pc \in InAppend => d = c
  BY <1>2 DEF OneAppendAtATime
<1>6. \A d \in Calls : job'[d] = IF d = c THEN NoJob ELSE job[d]
  BY <1>4 DEF Settle
<1> QED
  BY <1>1, <1>3, <1>4, <1>5, <1>6 DEF Settle

\* With no call running there is nothing for OneAppendAtATime to say.
LEMMA NoneRunning ==
  ASSUME \A d \in Calls : job'[d].pc \notin InAppend
  PROVE  OneAppendAtATime'
BY DEF OneAppendAtATime, HoldsCounter, InAppend

\* A step that touches no running append, and the rows only where that keeps
\* their events.
LEMMA QuietIInv ==
  ASSUME IInv, UNCHANGED <<counter, queue, job>>, clock' \in Time,
         rows' \in Seq(Row), SameEntries(rows, rows'),
         active' \in SUBSET People, tx' \in Transaction, keys' \in SUBSET People,
         erase' \in [Erasures -> Erasing], audit' \in Audit, hist' \in History,
         Undoable'
  PROVE  IInv'
<1>1. TypeOK /\ ChainLinked /\ OneAppendAtATime /\ counter \in Nat /\ counter >= counter
  BY RowFacts DEF IInv
<1>2. TypeOK'
  BY <1>1 DEF TypeOK
<1>3. /\ ChainLinked' /\ fetchPreviousHash' = fetchPreviousHash
      /\ Len(rows') = Len(rows)
      /\ \A i \in 1 .. Len(rows) : rows'[i].counter = rows[i].counter
  BY <1>1, SameChain
<1>4. OneAppendAtATime'
  BY <1>1, <1>3 DEF OneAppendAtATime, HoldsCounter
<1> QED
  BY <1>2, <1>3, <1>4 DEF IInv

\* The rows are as they were, and so is what a ROLLBACK brings back.
LEMMA StillUndoable ==
  ASSUME IInv, UNCHANGED <<rows, tx>>
  PROVE  rows' \in Seq(Row) /\ SameEntries(rows, rows') /\ Undoable'
BY SameAsItself DEF IInv, TypeOK, Undoable, Closed

\* A call settles and leaves the events as they were.
LEMMA SettledIInv ==
  ASSUME IInv, NEW c \in Calls, job[c].pc \in InAppend, Settle(c),
         UNCHANGED <<clock, keys, erase>>, counter' \in Nat, counter' >= counter,
         rows' \in Seq(Row), SameEntries(rows, rows'),
         active' \in SUBSET People, tx' \in Transaction, audit' \in Audit,
         hist' \in History, Undoable'
  PROVE  IInv'
<1>1. TypeOK /\ ChainLinked /\ OneAppendAtATime
  BY DEF IInv
<1>2. ChainLinked'
  BY <1>1, SameChain
<1>3. /\ job' \in [Calls -> Job] /\ queue' \in Seq(Calls)
      /\ OneAppendAtATime'
  BY <1>1, SettleFrees, NoneRunning
<1> QED
  BY <1>1, <1>2, <1>3 DEF IInv, TypeOK

\* An append reaches its INSERT with what it read still current.
LEMMA InsertIInv ==
  ASSUME IInv, NEW c \in Calls, job[c].pc \in InAppend,
         NEW j \in Job, NEW b \in BOOLEAN, Insert(c, j, b),
         UNCHANGED <<clock, keys, erase>>, j.prev = fetchPreviousHash,
         \A i \in 1 .. Len(rows) : rows[i].counter < j.counter,
         counter' \in Nat, counter' >= counter, j.counter < counter'
  PROVE  IInv'
<1>1. TypeOK /\ ChainLinked /\ OneAppendAtATime /\ Undoable /\ Settle(c) /\ hist \in History
  BY DEF IInv, TypeOK, Insert
<1>2. CASE /\ ~tx.open /\ rows' = Append(rows, NewRow(j, b))
           /\ hist' = [hist EXCEPT !.named = hist.named \/ j.person \in People \ active]
           /\ UNCHANGED <<active, tx, audit>>
  <2>1. rows' \in Seq(Row) /\ ChainLinked'
    BY <1>1, <1>2, OneMoreRow
  <2>2. /\ job' \in [Calls -> Job] /\ queue' \in Seq(Calls)
        /\ OneAppendAtATime'
    BY <1>1, SettleFrees, NoneRunning
  <2>3. hist' \in History
    BY <1>1, <1>2, HistoryType DEF History
  <2>4. Undoable'
    BY <1>1, <1>2 DEF Undoable, Closed
  <2> QED
    BY <1>1, <1>2, <2>1, <2>2, <2>3, <2>4 DEF IInv, TypeOK
<1>3. CASE /\ tx.open /\ Rollback /\ NotesRace
           /\ hist' = [hist EXCEPT !.lost = TRUE, !.torn = hist.torn \/ Tears]
  <2>1. hist' \in History
    <3>1. (hist.torn \/ Tears) \in BOOLEAN
      OBVIOUS
    <3> QED
      BY <1>1, <1>3, <3>1, HistoryType
  <2>2. audit' \in Audit
    BY <1>1, <1>3, RaceNoted
  <2> QED
    BY <1>1, <1>3, <2>1, <2>2, RolledBack, SettledIInv
<1> QED
  BY <1>2, <1>3 DEF Insert

LEMMA RecordEventIInv ==
  ASSUME IInv, NEW c \in Calls, NEW s \in Subject, RecordEvent(c, s)
  PROVE  IInv'
<1>1. TypeOK /\ ChainLinked /\ OneAppendAtATime
  BY DEF IInv
<1>2. [NoJob EXCEPT !.pc = "queued", !.person = s] \in Job
  <2>1. NoJob \in Job
    BY BoundsAssumption DEF NoJob, Job, GENESIS_HASH, Time
  <2> QED
    BY <2>1 DEF Job
<1>3. job' \in [Calls -> Job] /\ queue' \in Seq(Calls)
  BY <1>1, <1>2 DEF RecordEvent, TypeOK
<1>4. TypeOK'
  BY <1>1, <1>3 DEF TypeOK, RecordEvent
<1>5. ChainLinked' /\ Undoable'
  <2>1. UNCHANGED <<rows, tx, counter>>
    BY DEF RecordEvent
  <2>2. counter \in Nat /\ counter >= counter
    BY <1>1, RowFacts
  <2> QED
    BY <1>1, <2>1, <2>2, StillUndoable, SameChain
<1>6. \A d \in Calls : job'[d].pc \in InAppend => d # c /\ job'[d] = job[d]
  <2>1. [NoJob EXCEPT !.pc = "queued", !.person = s].pc = "queued"
    BY DEF NoJob
  <2>2. \A d \in Calls :
          job'[d] = IF d = c
                    THEN [NoJob EXCEPT !.pc = "queued", !.person = s]
                    ELSE job[d]
    BY <1>1 DEF RecordEvent, TypeOK
  <2> QED
    BY <2>1, <2>2 DEF InAppend
<1>7. queue # <<>> => queue' # <<>> /\ Head(queue') = Head(queue)
  BY <1>1 DEF RecordEvent, TypeOK
<1>8. OneAppendAtATime'
  BY <1>1, <1>6, <1>7
     DEF OneAppendAtATime, HoldsCounter, InAppend, RecordEvent,
         fetchPreviousHash, HashBefore
<1> QED
  BY <1>4, <1>5, <1>8 DEF IInv

LEMMA StartEventIInv ==
  ASSUME IInv, NEW c \in Calls, StartEvent(c)
  PROVE  IInv'
<1>1. TypeOK /\ ChainLinked /\ OneAppendAtATime
  BY DEF IInv
<1>2. /\ job \in [Calls -> Job] /\ clock \in Time
      /\ job' = [job EXCEPT ![c].pc = "uptime", ![c].ts = clock]
  BY <1>1 DEF StartEvent, TypeOK
<1>3. [job[c] EXCEPT !.pc = "uptime", !.ts = clock] \in Job
  BY <1>2 DEF Job, InAppend
<1>4. job' \in [Calls -> Job]
  BY <1>2, <1>3
<1>5. TypeOK'
  BY <1>1, <1>4 DEF TypeOK, StartEvent
<1>6. ChainLinked' /\ Undoable'
  <2>1. UNCHANGED <<rows, tx, counter>> /\ counter \in Nat /\ counter >= counter
    BY <1>1, RowFacts DEF StartEvent
  <2> QED
    BY <1>1, <2>1, StillUndoable, SameChain
<1>7. \A d \in Calls : d # c => job'[d] = job[d]
  BY <1>2
<1>8. job'[c].pc = "uptime"
  BY <1>2 DEF Job
<1>9. OneAppendAtATime'
  BY <1>1, <1>7, <1>8
     DEF OneAppendAtATime, HoldsCounter, InAppend, StartEvent,
         fetchPreviousHash, HashBefore
<1> QED
  BY <1>5, <1>6, <1>9 DEF IInv

LEMMA TakeCounterIInv ==
  ASSUME IInv, NEW c \in Calls, TakeCounter(c)
  PROVE  IInv'
<1> DEFINE j == [job[c] EXCEPT !.pc = "unwrap", !.counter = counter,
                               !.prev = fetchPreviousHash]
<1>1. TypeOK /\ ChainLinked /\ OneAppendAtATime /\ Undoable /\ hist \in History
  BY DEF IInv, TypeOK
<1>2. /\ rows \in Seq(Row) /\ Len(rows) \in Nat /\ counter \in Nat
      /\ counter' = counter + 1 /\ counter' \in Nat /\ counter' >= counter
      /\ UNCHANGED <<clock, keys, erase>>
  BY <1>1, RowFacts DEF TakeCounter, getNext
<1>3. job[c] \in Job /\ job[c].pc = "uptime" /\ job[c].pc \in InAppend
  BY <1>1 DEF TakeCounter, TypeOK, InAppend
<1>4. fetchPreviousHash \in Seq(Link)
  BY <1>1, PreviousHashType
<1>5. /\ j \in Job /\ j.counter = counter /\ j.prev = fetchPreviousHash
      /\ j.person = job[c].person /\ j.pc = "unwrap"
  BY <1>2, <1>3, <1>4 DEF Job, InAppend
<1> HIDE DEF j
<1>6. \A i \in 1 .. Len(rows) : rows[i].counter < counter
  BY <1>1 DEF ChainLinked
<1>7. CASE Insert(c, j, FALSE)
  <2>1. j.counter < counter' /\ FALSE \in BOOLEAN
    BY <1>2, <1>5
  <2> QED
    BY <1>2, <1>3, <1>5, <1>6, <1>7, <2>1, InsertIInv
<1>8. CASE /\ Settle(c) /\ hist' = [hist EXCEPT !.lost = TRUE]
           /\ UNCHANGED <<rows, active, tx, audit>>
  <2>1. hist' \in History
    BY <1>1, <1>8, HistoryType
  <2> QED
    BY <1>1, <1>2, <1>3, <1>8, <2>1, StillUndoable, SettledIInv DEF TypeOK
<1>9. CASE /\ job' = [job EXCEPT ![c] = j]
           /\ UNCHANGED <<rows, active, tx, queue, audit, hist>>
  <2>1. ChainLinked' /\ Undoable' /\ fetchPreviousHash' = fetchPreviousHash
    BY <1>1, <1>2, <1>9, StillUndoable, SameChain
  <2>2. job' \in [Calls -> Job]
    BY <1>1, <1>5, <1>9 DEF TypeOK
  <2>3. TypeOK'
    BY <1>1, <1>2, <1>9, <2>2 DEF TypeOK
  <2>4. \A d \in Calls : job'[d] = IF d = c THEN j ELSE job[d]
    BY <1>1, <1>9 DEF TypeOK
  <2>5. \A d \in Calls : job[d].pc \in InAppend => d = c
    BY <1>1, <1>3 DEF OneAppendAtATime
  <2>6. queue # <<>> /\ c = Head(queue)
    BY <1>1, <1>3 DEF OneAppendAtATime
  <2>8. \A d \in Calls : job'[d].pc \in InAppend => d = c
    BY <2>4, <2>5
  <2>9. HoldsCounter(c)' =>
          /\ job'[c].prev = fetchPreviousHash'
          /\ job'[c].counter < counter'
          /\ \A i \in 1 .. Len(rows') : rows'[i].counter < job'[c].counter
    BY <1>2, <1>5, <1>6, <1>9, <2>1, <2>4
  <2>10. \A d \in Calls : HoldsCounter(d)' => job'[d].pc \in InAppend
    BY DEF HoldsCounter, InAppend
  <2>11. OneAppendAtATime'
    BY <1>9, <2>6, <2>8, <2>9, <2>10 DEF OneAppendAtATime
  <2> QED
    BY <2>1, <2>3, <2>11 DEF IInv
<1> QED
  BY <1>7, <1>8, <1>9 DEF TakeCounter, j

LEMMA UnwrapIInv ==
  ASSUME IInv, NEW c \in Calls, Unwrap(c)
  PROVE  IInv'
<1>1. TypeOK /\ ChainLinked /\ OneAppendAtATime
  BY DEF IInv
<1>2. /\ job \in [Calls -> Job] /\ job[c].pc = "unwrap"
      /\ job' = [job EXCEPT ![c].pc = "seal"]
  BY <1>1 DEF Unwrap, TypeOK
<1>3. /\ [job[c] EXCEPT !.pc = "seal"] \in Job
      /\ job'[c].pc = "seal"
      /\ job'[c].prev = job[c].prev /\ job'[c].counter = job[c].counter
  BY <1>2 DEF Job, InAppend
<1>4. job' \in [Calls -> Job]
  BY <1>2, <1>3
<1>5. TypeOK'
  BY <1>1, <1>4 DEF TypeOK, Unwrap
<1>6. ChainLinked' /\ Undoable'
  <2>1. UNCHANGED <<rows, tx, counter>> /\ counter \in Nat /\ counter >= counter
    BY <1>1, RowFacts DEF Unwrap
  <2> QED
    BY <1>1, <2>1, StillUndoable, SameChain
<1>7. \A d \in Calls : d # c => job'[d] = job[d]
  BY <1>2
<1>8. OneAppendAtATime'
  BY <1>1, <1>2, <1>3, <1>7
     DEF OneAppendAtATime, HoldsCounter, InAppend, Unwrap,
         fetchPreviousHash, HashBefore
<1> QED
  BY <1>5, <1>6, <1>8 DEF IInv

LEMMA InsertRowIInv ==
  ASSUME IInv, NEW c \in Calls, InsertRow(c)
  PROVE  IInv'
<1>1. TypeOK /\ ChainLinked /\ OneAppendAtATime
  BY DEF IInv
<1>2. /\ job[c] \in Job /\ job[c].pc = "seal"
      /\ job[c].pc \in InAppend /\ HoldsCounter(c)
  BY <1>1 DEF InsertRow, TypeOK, InAppend, HoldsCounter
<1>3. /\ job[c].prev = fetchPreviousHash
      /\ job[c].counter < counter
      /\ \A i \in 1 .. Len(rows) : rows[i].counter < job[c].counter
  BY <1>1, <1>2 DEF OneAppendAtATime
<1>4. UNCHANGED <<clock, counter, keys, erase>> /\ Insert(c, job[c], TRUE)
  BY DEF InsertRow
<1>5. counter' \in Nat /\ counter' >= counter /\ job[c].counter < counter'
  BY <1>1, <1>3, <1>4, RowFacts
<1>6. UNCHANGED <<clock, keys, erase>> /\ TRUE \in BOOLEAN
  BY <1>4
<1> QED
  BY <1>2, <1>3, <1>4, <1>5, <1>6, InsertIInv

LEMMA AppendFailsIInv ==
  ASSUME IInv, NEW c \in Calls, AppendFails(c)
  PROVE  IInv'
<1>1. /\ TypeOK /\ counter' \in Nat /\ counter' >= counter /\ hist \in History
      /\ (hist.lost \/ HoldsCounter(c)) \in BOOLEAN
  BY RowFacts DEF IInv, AppendFails, TypeOK
<1>2. /\ job[c].pc \in InAppend /\ Settle(c)
      /\ UNCHANGED <<clock, rows, active, tx, keys, erase, audit>>
      /\ hist' = [hist EXCEPT !.lost = hist.lost \/ HoldsCounter(c)]
  BY DEF AppendFails
<1>3. hist' \in History
  BY <1>1, <1>2, HistoryType
<1> QED
  BY <1>1, <1>2, <1>3, StillUndoable, SettledIInv DEF TypeOK

-----------------------------------------------------------------------------
(* One lemma per kind of step of an erasure and of the other writers.      *)

\* Where an erasure stands stays well typed.
LEMMA ErasureTypes ==
  ASSUME IInv, NEW e \in Erasures
  PROVE  /\ [erase EXCEPT ![e] = NoErasure] \in [Erasures -> Erasing]
         /\ \A pc \in InErase : [erase EXCEPT ![e].pc = pc] \in [Erasures -> Erasing]
         /\ \A k : [erase EXCEPT ![e].todo = erase[e].todo \ {k}] \in [Erasures -> Erasing]
<1>1. erase \in [Erasures -> Erasing] /\ NoErasure \in Erasing
  BY DEF IInv, TypeOK, NoErasure, Erasing
<1>2. erase[e] \in Erasing
  BY <1>1
<1>3. ASSUME NEW pc \in InErase
      PROVE  [erase[e] EXCEPT !.pc = pc] \in Erasing
  BY <1>2 DEF Erasing
<1>4. ASSUME NEW k
      PROVE  [erase[e] EXCEPT !.todo = erase[e].todo \ {k}] \in Erasing
  BY <1>2 DEF Erasing
<1> QED
  BY <1>1, <1>3, <1>4

LEMMA BeginEraseIInv ==
  ASSUME IInv, NEW e \in Erasures, NEW p \in People, BeginErase(e, p)
  PROVE  IInv'
<1>1. TypeOK /\ rows \in Seq(Row) /\ Len(rows) \in Nat /\ active \in SUBSET People
  BY RowFacts DEF IInv, TypeOK
<1> DEFINE old == {i \in 1 .. Len(rows) : /\ rows[i].person = p
                                          /\ rows[i].sealed /\ ~rows[i].hashed}
           new == [pc |-> IF old = {} THEN "backfill" ELSE "unwrap", person |-> p,
                   todo |-> old]
<1>2. old \in SUBSET Nat
  BY <1>1
<1> HIDE DEF old
<1>3. new \in Erasing
  BY <1>2 DEF Erasing, InErase
<1>4. /\ tx' = [open |-> TRUE, by |-> {e}, rows |-> rows, active |-> active]
      /\ erase' = [erase EXCEPT ![e] = new]
      /\ UNCHANGED <<clock, counter, rows, active, keys, queue, job, audit, hist>>
  BY DEF BeginErase, old
<1>5. erase' \in [Erasures -> Erasing]
  BY <1>1, <1>3, <1>4 DEF TypeOK
<1>6. tx' \in Transaction /\ Undoable'
  BY <1>1, <1>4, SameAsItself DEF Transaction, Undoable
<1> QED
  BY <1>1, <1>4, <1>5, <1>6, SameAsItself, QuietIInv DEF TypeOK

LEMMA UnwrapForBackfillIInv ==
  ASSUME IInv, NEW e \in Erasures, UnwrapForBackfill(e)
  PROVE  IInv'
<1>1. /\ erase' = [erase EXCEPT ![e].pc = "backfill"]
      /\ UNCHANGED <<clock, counter, rows, active, tx, keys, queue, job, audit, hist>>
  BY DEF UnwrapForBackfill
<1>2. erase' \in [Erasures -> Erasing]
  BY <1>1, ErasureTypes DEF InErase
<1> QED
  BY <1>1, <1>2, StillUndoable, QuietIInv DEF IInv, TypeOK

\* What a purge or a backfill does stays undoable.
LEMMA ChangeUndoable ==
  ASSUME IInv, SameEntries(rows, rows'), tx' = tx
  PROVE  Undoable'
<1>1. tx.open => SameEntries(rows', tx.rows)
  BY SameThrough DEF IInv, Undoable, SameEntries
<1> QED
  BY <1>1 DEF IInv, Undoable, Closed

LEMMA BackfillRowIInv ==
  ASSUME IInv, NEW e \in Erasures, NEW i, BackfillRow(e, i)
  PROVE  IInv'
<1>1. /\ rows' = Backfilled(i) /\ hist' = [hist EXCEPT !.backfilled = TRUE]
      /\ erase' = [erase EXCEPT ![e].todo = erase[e].todo \ {i}]
      /\ UNCHANGED <<clock, counter, active, tx, keys, queue, job, audit>>
  BY DEF BackfillRow
<1>2. erase' \in [Erasures -> Erasing]
  BY <1>1, ErasureTypes
<1>3. rows' \in Seq(Row) /\ SameEntries(rows, rows')
  BY <1>1, BackfilledRows DEF IInv
<1>4. hist' \in History
  BY <1>1, HistoryType DEF IInv, TypeOK
<1>5. Undoable'
  BY <1>1, <1>3, ChangeUndoable
<1> QED
  BY <1>1, <1>2, <1>3, <1>4, <1>5, QuietIInv DEF IInv, TypeOK

LEMMA PurgeRowsIInv ==
  ASSUME IInv, NEW e \in Erasures, PurgeRows(e)
  PROVE  IInv'
<1>1. /\ rows' = Purged(erase[e].person) /\ active' = active \ {erase[e].person}
      /\ erase' = [erase EXCEPT ![e].pc = "purged"] /\ NotesRace
      /\ UNCHANGED <<clock, counter, tx, keys, queue, job, hist>>
  BY DEF PurgeRows
<1>2. erase' \in [Erasures -> Erasing]
  BY <1>1, ErasureTypes DEF InErase
<1>3. rows' \in Seq(Row) /\ SameEntries(rows, rows')
  BY <1>1, PurgedRows DEF IInv
<1>4. audit' \in Audit
  BY <1>1, RaceNoted DEF IInv
<1>5. Undoable'
  BY <1>1, <1>3, ChangeUndoable
<1> QED
  BY <1>1, <1>2, <1>3, <1>4, <1>5, QuietIInv DEF IInv, TypeOK

LEMMA DestroyKeyIInv ==
  ASSUME IInv, NEW e \in Erasures, DestroyKey(e)
  PROVE  IInv'
<1>1. /\ keys' = keys \ {erase[e].person}
      /\ erase' = [erase EXCEPT ![e].pc = "destroyed"]
      /\ hist' = [hist EXCEPT !.torn = hist.torn \/ e \notin tx.by] /\ NotesRace
      /\ UNCHANGED <<clock, counter, rows, active, tx, queue, job>>
  BY DEF DestroyKey
<1>2. erase' \in [Erasures -> Erasing]
  BY <1>1, ErasureTypes DEF InErase
<1>3. hist' \in History
  <2>1. (hist.torn \/ e \notin tx.by) \in BOOLEAN /\ hist \in History
    BY DEF IInv, TypeOK
  <2> QED
    BY <1>1, <2>1, HistoryType
<1>4. audit' \in Audit
  BY <1>1, RaceNoted DEF IInv
<1> QED
  BY <1>1, <1>2, <1>3, <1>4, StillUndoable, QuietIInv DEF IInv, TypeOK

\* A transaction is begun on what is there, or committed.
LEMMA TransactionIInv ==
  ASSUME IInv,
         \/ tx' = Closed
         \/ tx' = [open |-> TRUE, by |-> {}, rows |-> rows, active |-> active],
         erase' \in [Erasures -> Erasing],
         UNCHANGED <<clock, counter, rows, active, keys, queue, job, audit, hist>>
  PROVE  IInv'
<1>1. tx' \in Transaction
  <2>1. rows \in Seq(Row) /\ active \in SUBSET People /\ <<>> \in Seq(Row)
    BY DEF IInv, TypeOK
  <2>2. CASE tx' = Closed
    BY <2>1, <2>2 DEF Transaction, Closed
  <2>3. CASE tx' = [open |-> TRUE, by |-> {}, rows |-> rows, active |-> active]
    BY <2>1, <2>3 DEF Transaction
  <2> QED
    BY <2>2, <2>3
<1>2. Undoable'
  BY SameAsItself DEF Undoable, Closed
<1> QED
  BY <1>1, <1>2, SameAsItself, QuietIInv DEF IInv, TypeOK

LEMMA EraseCommitsIInv ==
  ASSUME IInv, NEW e \in Erasures, EraseCommits(e)
  PROVE  IInv'
<1>1. erase' \in [Erasures -> Erasing]
  BY ErasureTypes DEF EraseCommits
<1> QED
  BY <1>1, TransactionIInv DEF EraseCommits

LEMMA OtherWritersIInv ==
  ASSUME IInv, OtherBegins \/ OtherCommits
  PROVE  IInv'
BY TransactionIInv DEF OtherBegins, OtherCommits, IInv, TypeOK

\* The rollbacks that no append executes.
LEMMA RollbackIInv ==
  ASSUME IInv, Rollback, UNCHANGED <<clock, counter, keys, queue, job>>, NotesRace,
         hist' = [hist EXCEPT !.torn = hist.torn \/ Tears],
         erase' \in [Erasures -> Erasing]
  PROVE  IInv'
<1>1. hist' \in History
  <2>1. (hist.torn \/ Tears) \in BOOLEAN /\ hist \in History
    BY DEF IInv, TypeOK
  <2> QED
    BY <2>1, HistoryType
<1>2. audit' \in Audit
  BY RaceNoted DEF IInv
<1> QED
  BY <1>1, <1>2, RolledBack, QuietIInv DEF IInv, TypeOK

LEMMA EraseFailsIInv ==
  ASSUME IInv, NEW e \in Erasures, EraseFails(e)
  PROVE  IInv'
<1>1. /\ erase' = [erase EXCEPT ![e] = NoErasure] /\ NotesRace
      /\ hist' = [hist EXCEPT !.torn = hist.torn \/ Tears]
      /\ UNCHANGED <<clock, counter, keys, queue, job>>
  BY DEF EraseFails
<1>2. erase' \in [Erasures -> Erasing]
  BY <1>1, ErasureTypes
<1>3. CASE Rollback
  BY <1>1, <1>2, <1>3, RollbackIInv
<1>4. CASE rows' = Purged(erase[e].person) /\ UNCHANGED <<active, tx>>
  <2>1. rows' \in Seq(Row) /\ SameEntries(rows, rows')
    BY <1>4, PurgedRows DEF IInv
  <2>2. audit' \in Audit
    BY <1>1, RaceNoted DEF IInv
  <2>3. hist' \in History
    <3>1. (hist.torn \/ Tears) \in BOOLEAN /\ hist \in History
      BY DEF IInv, TypeOK
    <3> QED
      BY <1>1, <3>1, HistoryType
  <2>4. Undoable'
    BY <1>4, <2>1, ChangeUndoable
  <2> QED
    BY <1>1, <1>2, <1>4, <2>1, <2>2, <2>3, <2>4, QuietIInv DEF IInv, TypeOK
<1> QED
  BY <1>3, <1>4 DEF EraseFails

LEMMA OtherRollsBackIInv ==
  ASSUME IInv, OtherRollsBack
  PROVE  IInv'
<1>1. erase' \in [Erasures -> Erasing]
  BY DEF OtherRollsBack, IInv, TypeOK
<1> QED
  BY <1>1, RollbackIInv DEF OtherRollsBack

-----------------------------------------------------------------------------
(* The other actions.                                                      *)

\* A step of the audit, or of the clock.
LEMMA ApartIInv ==
  ASSUME IInv, UNCHANGED <<counter, rows, active, tx, keys, erase, queue, job>>,
         clock' \in Time, audit' \in Audit, hist' \in History
  PROVE  IInv'
BY StillUndoable, QuietIInv DEF IInv, TypeOK

LEMMA StartAuditIInv ==
  ASSUME IInv, StartAudit
  PROVE  IInv'
<1>1. TypeOK
  BY DEF IInv
<1>2. NoAudit \in Audit
  BY DEF NoAudit, Audit
<1>3. Verifies(rows, enrolled) \in BOOLEAN
  BY DEF Verifies
<1>4. audit' = [NoAudit EXCEPT !.pc = "read", !.snap = rows,
                               !.sound = Verifies(rows, enrolled)]
  BY DEF StartAudit
<1>5. audit' \in Audit
  <2>1. rows \in Seq(Row)
    BY <1>1 DEF TypeOK
  <2> QED
    BY <1>2, <1>3, <1>4, <2>1 DEF Audit
<1> QED
  BY <1>1, <1>5, ApartIInv DEF StartAudit, TypeOK

LEMMA AuditRowIInv ==
  ASSUME IInv, AuditRow
  PROVE  IInv'
<1>1. TypeOK
  BY DEF IInv
<1>2. audit \in Audit /\ audit.at <= Len(audit.snap)
  BY <1>1 DEF TypeOK, AuditRow
<1>3. audit.snap \in Seq(Row) /\ audit.at \in Nat
  BY <1>2 DEF Audit
<1> DEFINE r == audit.snap[audit.at]
           next(ds) == [audit EXCEPT !.at = audit.at + 1, !.deks = ds]
<1>4. \/ audit' = next(audit.deks)
      \/ audit' = next(audit.deks \cup {r.person}) /\ NeedsKey(r)
            /\ Opens(r, enrolled \cup audit.deks)
      \/ audit' = [audit EXCEPT !.pc = "broken"]
  <2> DEFINE opens == Opens(r, enrolled \cup audit.deks)
             good == /\ InPlace(audit.snap, audit.at)
                     /\ NeedsKey(r) => opens
                     /\ Rehashes(r)
  <2>1. audit' = IF good THEN next(IF NeedsKey(r) THEN audit.deks \cup {r.person}
                                                  ELSE audit.deks)
                         ELSE [audit EXCEPT !.pc = "broken"]
    BY DEF AuditRow
  <2>2. good /\ NeedsKey(r) => opens
    OBVIOUS
  <2> HIDE DEF good, opens, next
  <2>3. CASE good /\ NeedsKey(r)
    BY <2>1, <2>2, <2>3 DEF opens
  <2>4. CASE good /\ ~NeedsKey(r)
    BY <2>1, <2>4
  <2>5. CASE ~good
    BY <2>1, <2>5
  <2> QED
    BY <2>3, <2>4, <2>5
<1>5. ASSUME NEW ds \in SUBSET (Subject \cup {Nobody})
      PROVE  next(ds) \in Audit
  <2> DEFINE S == Subject \cup {Nobody}
             T == Seq(Row)
  <2>1. audit.at + 1 \in Nat /\ ds \in SUBSET S
    BY <1>3
  <2>2. audit \in [pc : {"none", "read", "ok", "broken"}, snap : T, at : Nat,
                  deks : SUBSET S, sound : BOOLEAN, raced : BOOLEAN,
                  threw : BOOLEAN]
    BY <1>2 DEF Audit
  <2> HIDE DEF S, T
  <2>3. next(ds) \in [pc : {"none", "read", "ok", "broken"}, snap : T,
                     at : Nat, deks : SUBSET S, sound : BOOLEAN,
                     raced : BOOLEAN, threw : BOOLEAN]
    BY <2>1, <2>2
  <2> QED
    BY <2>3 DEF S, T, Audit
<1>6. audit.deks \in SUBSET (Subject \cup {Nobody})
  BY <1>2 DEF Audit
<1> HIDE DEF next
<1>7. CASE audit' = next(audit.deks)
  <2>1. audit' \in Audit
    BY <1>7, <1>5, <1>6
  <2> QED
    BY <1>1, <2>1, ApartIInv DEF AuditRow, TypeOK
<1>8. CASE audit' = next(audit.deks \cup {r.person}) /\ NeedsKey(r)
             /\ Opens(r, enrolled \cup audit.deks)
  <2>1. enrolled \subseteq Subject /\ audit.deks \subseteq Subject \cup {Nobody}
    BY <1>1, <1>2 DEF TypeOK, Audit, Subject, enrolled
  <2>2. r.person \in Subject \cup {Nobody}
    BY <1>8, <2>1 DEF Opens
  <2>3. audit.deks \cup {r.person} \in SUBSET (Subject \cup {Nobody})
    BY <2>1, <2>2
  <2>4. audit' \in Audit
    BY <1>8, <1>5, <2>3
  <2> QED
    BY <1>1, <2>4, ApartIInv DEF AuditRow, TypeOK
<1>9. CASE audit' = [audit EXCEPT !.pc = "broken"]
  <2>1. audit' \in Audit
    BY <1>2, <1>9 DEF Audit
  <2> QED
    BY <1>1, <2>1, ApartIInv DEF AuditRow, TypeOK
<1> QED
  BY <1>4, <1>7, <1>8, <1>9

LEMMA AuditEndsIInv ==
  ASSUME IInv, AuditRowThrows \/ AuditPasses \/ AuditReturns
  PROVE  IInv'
<1>1. TypeOK /\ audit \in Audit
  BY DEF IInv, TypeOK
<1>2. /\ NoAudit \in Audit /\ [audit EXCEPT !.pc = "ok"] \in Audit
      /\ [audit EXCEPT !.pc = "broken", !.threw = TRUE] \in Audit
  <2>1. NoAudit \in Audit
    BY DEF NoAudit, Audit
  <2>2. [audit EXCEPT !.pc = "ok"] \in Audit
    BY <1>1 DEF Audit
  <2>3. [audit EXCEPT !.pc = "broken", !.threw = TRUE] \in Audit
    BY <1>1 DEF Audit
  <2> QED
    BY <2>1, <2>2, <2>3
<1>3. audit' \in Audit
  BY <1>2 DEF AuditRowThrows, AuditPasses, AuditReturns
<1> QED
  BY <1>1, <1>3, ApartIInv DEF AuditRowThrows, AuditPasses, AuditReturns, TypeOK

LEMMA ClockIInv ==
  ASSUME IInv, Tick \/ SetClockBack
  PROVE  IInv'
<1>1. TypeOK /\ clock \in 0 .. MaxTime /\ hist \in History /\ MaxTime \in Nat
  BY BoundsAssumption DEF IInv, TypeOK, Time
<1>2. clock' \in Time
  BY <1>1 DEF Tick, SetClockBack, Time
<1>3. hist' \in History
  BY <1>1 DEF Tick, SetClockBack, History
<1> QED
  BY <1>1, <1>2, <1>3, ApartIInv DEF Tick, SetClockBack, TypeOK

LEMMA KillIInv ==
  ASSUME IInv, Kill
  PROVE  IInv'
<1>1. TypeOK /\ ChainLinked /\ Undoable /\ counter \in Nat /\ counter >= counter
  BY RowFacts DEF IInv
<1>2. NoJob \in Job /\ NoJob.pc \notin InAppend /\ NoAudit \in Audit /\ NoErasure \in Erasing
  BY BoundsAssumption
     DEF NoJob, Job, GENESIS_HASH, Time, InAppend, NoAudit, Audit, NoErasure, Erasing
<1>3. /\ job' \in [Calls -> Job] /\ erase' \in [Erasures -> Erasing]
      /\ \A d \in Calls : job'[d].pc \notin InAppend
      /\ Rollback /\ UNCHANGED <<clock, counter, keys>> /\ queue' = <<>> /\ audit' = NoAudit
  BY <1>2 DEF Kill
<1>4. hist' \in History
  <2> DEFINE held == \E c \in Calls : HoldsCounter(c)
  <2>1. /\ hist \in History /\ (hist.lost \/ held) \in BOOLEAN
        /\ (hist.torn \/ Tears) \in BOOLEAN
    BY <1>1 DEF TypeOK
  <2>2. hist' = [hist EXCEPT !.lost = hist.lost \/ held, !.torn = hist.torn \/ Tears]
    BY DEF Kill
  <2> HIDE DEF held
  <2> QED
    BY <2>1, <2>2, HistoryType
<1>5. /\ rows' \in Seq(Row) /\ SameEntries(rows, rows') /\ Undoable'
      /\ active' \in SUBSET People /\ tx' \in Transaction
  BY <1>1, <1>3, RolledBack
<1>6. TypeOK'
  BY <1>1, <1>2, <1>3, <1>4, <1>5 DEF TypeOK
<1>7. ChainLinked'
  BY <1>1, <1>3, <1>5, SameChain
<1>8. OneAppendAtATime'
  BY <1>3, NoneRunning
<1> QED
  BY <1>5, <1>6, <1>7, <1>8 DEF IInv

-----------------------------------------------------------------------------
(* The inductive invariant, and what follows from it.                      *)

LEMMA NextIInv ==
  ASSUME IInv, [Next]_vars
  PROVE  IInv'
<1>1. CASE UNCHANGED vars
  BY <1>1, ApartIInv DEF vars, IInv, TypeOK
<1>2. ASSUME NEW c \in Calls, AppendStep(c)
      PROVE  IInv'
  BY <1>2, StartEventIInv, TakeCounterIInv, UnwrapIInv, InsertRowIInv,
     AppendFailsIInv DEF AppendStep
<1>3. ASSUME NEW e \in Erasures, EraseStep(e)
      PROVE  IInv'
  BY <1>3, UnwrapForBackfillIInv, BackfillRowIInv, PurgeRowsIInv, DestroyKeyIInv,
     EraseCommitsIInv, EraseFailsIInv DEF EraseStep
<1>4. CASE OtherBegins \/ OtherCommits \/ OtherRollsBack
  BY <1>4, OtherWritersIInv, OtherRollsBackIInv
<1>5. CASE StartAudit \/ AuditRow \/ AuditRowThrows \/ AuditPasses \/ AuditReturns
  BY <1>5, StartAuditIInv, AuditRowIInv, AuditEndsIInv
<1> QED
  BY <1>1, <1>2, <1>3, <1>4, <1>5, RecordEventIInv, BeginEraseIInv, ClockIInv, KillIInv
     DEF Next

\* The invariant holds in every reachable state, for any people, calls,
\* legacy rows and bounds.
THEOREM Invariance == Spec => []IInv
<1>1. Init => IInv
  BY InitIInv
<1>2. IInv /\ [Next]_vars => IInv'
  BY NextIInv
<1> QED
  BY <1>1, <1>2, PTL DEF Spec

\* Every variable of the ledger keeps its type.
THEOREM TypeCorrect == Spec => []TypeOK
<1>1. IInv => TypeOK
  BY DEF IInv
<1> QED
  BY <1>1, Invariance, PTL

\* The rows of attendance_ledger are one hash chain in increasing counter
\* order, however recordEvent calls, failures, erasures, clock changes and
\* process kills interleave.
THEOREM ChainAlwaysLinked == Spec => []ChainLinked
<1>1. IInv => ChainLinked
  BY DEF IInv
<1> QED
  BY <1>1, Invariance, PTL

\* At most one append is past its start, and the hash and the counter it
\* holds are still current when it inserts its row.
THEOREM AppendsSerialised == Spec => []OneAppendAtATime
<1>1. IInv => OneAppendAtATime
  BY DEF IInv
<1> QED
  BY <1>1, Invariance, PTL
-----------------------------------------------------------------------------
(* What a step can do to rows, personnel, keys and the open transaction.   *)

\* An append that has a payload to encrypt is about a person.
Sealing == \A c \in Calls : HoldsCounter(c) => job[c].person \in People

Kept == UNCHANGED <<rows, active, tx, keys, erase>>

Grown(j, b) ==
  /\ ~tx.open
  /\ rows' = Append(rows, NewRow(j, b))
  /\ UNCHANGED <<active, tx, keys, erase>>
  /\ j.prev = fetchPreviousHash
  /\ \A i \in 1 .. Len(rows) : rows[i].counter < j.counter
  /\ j.person \in People \ active => hist'.named
  /\ Sealing /\ b => j.person \in People

Undone ==
  /\ Rollback
  /\ keys' = keys
  /\ Tears => hist'.torn
  /\ \A e \in Erasures : erase'[e] \in {erase[e], NoErasure}

\* The DELETE throws after the UPDATE, with no transaction to roll back.
LeftPurged(e) ==
  /\ ~tx.open
  /\ erase[e].pc = "backfill" /\ erase[e].todo = {}
  /\ rows' = Purged(erase[e].person)
  /\ UNCHANGED <<active, tx, keys>>
  /\ erase' = [erase EXCEPT ![e] = NoErasure]

Erases(e) ==
  \/ \E p \in People : BeginErase(e, p)
  \/ UnwrapForBackfill(e)
  \/ \E i \in erase[e].todo : BackfillRow(e, i)
  \/ PurgeRows(e) \/ DestroyKey(e) \/ EraseCommits(e)

LEMMA InsertStores ==
  ASSUME IInv, NEW c \in Calls, NEW j \in Job, NEW b \in BOOLEAN, Insert(c, j, b),
         UNCHANGED <<keys, erase>>, j.prev = fetchPreviousHash,
         \A i \in 1 .. Len(rows) : rows[i].counter < j.counter,
         Sealing /\ b => j.person \in People
  PROVE  Grown(j, b) \/ Undone
<1>1. hist \in History
  BY DEF IInv, TypeOK
<1>2. CASE /\ ~tx.open /\ rows' = Append(rows, NewRow(j, b)) /\ UNCHANGED <<active, tx>>
           /\ hist' = [hist EXCEPT !.named = hist.named \/ j.person \in People \ active]
  <2>1. j.person \in People \ active => hist'.named
    BY <1>1, <1>2 DEF History
  <2> QED
    BY <1>2, <2>1 DEF Grown
<1>3. CASE Rollback /\ hist' = [hist EXCEPT !.lost = TRUE, !.torn = hist.torn \/ Tears]
  <2>1. Tears => hist'.torn
    BY <1>1, <1>3 DEF History
  <2> QED
    BY <1>3, <2>1 DEF Undone
<1> QED
  BY <1>2, <1>3 DEF Insert

LEMMA AppendStores ==
  ASSUME IInv, NEW c \in Calls, AppendStep(c)
  PROVE  Kept \/ Undone \/ \E j \in Job, b \in BOOLEAN : Grown(j, b)
<1>1. TypeOK /\ ChainLinked /\ OneAppendAtATime
  BY DEF IInv
<1>2. CASE TakeCounter(c)
  <2> DEFINE j == [job[c] EXCEPT !.pc = "unwrap", !.counter = counter,
                                 !.prev = fetchPreviousHash]
  <2>1. job[c] \in Job /\ counter \in Nat
    BY <1>1 DEF TypeOK
  <2>2. fetchPreviousHash \in Seq(Link)
    BY <1>1, PreviousHashType
  <2>3. j \in Job /\ j.counter = counter /\ j.prev = fetchPreviousHash
    BY <2>1, <2>2 DEF Job, InAppend
  <2>4. \A i \in 1 .. Len(rows) : rows[i].counter < j.counter
    BY <1>1, <2>3 DEF ChainLinked
  <2>5. UNCHANGED <<keys, erase>> /\ (Insert(c, j, FALSE) \/ UNCHANGED <<rows, active, tx>>)
    BY <1>2 DEF TakeCounter
  <2> HIDE DEF j
  <2> QED
    BY <2>3, <2>4, <2>5, InsertStores DEF Kept
<1>3. CASE InsertRow(c)
  <2>1. job[c] \in Job /\ HoldsCounter(c) /\ TRUE \in BOOLEAN
    BY <1>1, <1>3 DEF InsertRow, TypeOK, HoldsCounter
  <2>2. job[c].prev = fetchPreviousHash /\ \A i \in 1 .. Len(rows) : rows[i].counter < job[c].counter
    BY <1>1, <2>1 DEF OneAppendAtATime
  <2>3. UNCHANGED <<keys, erase>> /\ Insert(c, job[c], TRUE)
    BY <1>3 DEF InsertRow
  <2>4. Sealing => job[c].person \in People
    BY <2>1 DEF Sealing
  <2> QED
    BY <2>1, <2>2, <2>3, <2>4, InsertStores
<1>4. CASE StartEvent(c) \/ Unwrap(c) \/ AppendFails(c)
  BY <1>4 DEF StartEvent, Unwrap, AppendFails, Kept
<1> QED
  BY <1>2, <1>3, <1>4 DEF AppendStep

LEMMA RollbackStores ==
  ASSUME IInv, hist' = [hist EXCEPT !.torn = hist.torn \/ Tears],
         Rollback, keys' = keys, \A e \in Erasures : erase'[e] \in {erase[e], NoErasure}
  PROVE  Undone
<1>1. Tears => hist'.torn
  BY DEF IInv, TypeOK, History
<1> QED
  BY <1>1 DEF Undone

LEMMA EraseStores ==
  ASSUME IInv, NEW e \in Erasures, EraseStep(e)
  PROVE  Erases(e) \/ LeftPurged(e) \/ Undone
<1>1. CASE EraseFails(e)
  <2>1. /\ erase' = [erase EXCEPT ![e] = NoErasure] /\ keys' = keys
        /\ hist' = [hist EXCEPT !.torn = hist.torn \/ Tears]
        /\ \/ Rollback
           \/ /\ ~tx.open /\ rows' = Purged(erase[e].person) /\ UNCHANGED <<active, tx>>
              /\ erase[e].pc = "backfill" /\ erase[e].todo = {}
    BY <1>1 DEF EraseFails
  <2>2. \A d \in Erasures : erase'[d] \in {erase[d], NoErasure}
    BY <2>1 DEF IInv, TypeOK
  <2>3. CASE Rollback
    BY <2>1, <2>2, <2>3, RollbackStores
  <2>4. CASE /\ ~tx.open /\ rows' = Purged(erase[e].person) /\ UNCHANGED <<active, tx>>
             /\ erase[e].pc = "backfill" /\ erase[e].todo = {}
    BY <2>1, <2>4 DEF LeftPurged
  <2> QED
    BY <2>1, <2>3, <2>4
<1>2. CASE ~EraseFails(e)
  BY <1>2 DEF EraseStep, Erases
<1> QED
  BY <1>1, <1>2

LEMMA StoreStep ==
  ASSUME IInv, [Next]_vars
  PROVE  \/ Kept \/ Undone
         \/ \E j \in Job, b \in BOOLEAN : Grown(j, b)
         \/ \E e \in Erasures : Erases(e) \/ LeftPurged(e)
         \/ OtherBegins \/ OtherCommits
<1>1. CASE OtherRollsBack
  <2>1. /\ Rollback /\ UNCHANGED <<keys, erase>>
        /\ hist' = [hist EXCEPT !.torn = hist.torn \/ Tears]
    BY <1>1 DEF OtherRollsBack
  <2> QED
    BY <2>1, RollbackStores
<1>2. CASE Kill
  <2>1. Rollback /\ keys' = keys /\ erase' = [e \in Erasures |-> NoErasure]
    BY <1>2 DEF Kill
  <2>2. Tears => hist'.torn
    <3> DEFINE held == \E c \in Calls : HoldsCounter(c)
    <3>1. hist' = [hist EXCEPT !.lost = hist.lost \/ held, !.torn = hist.torn \/ Tears]
      BY <1>2 DEF Kill
    <3> HIDE DEF held
    <3> QED
      BY <3>1 DEF IInv, TypeOK, History
  <2> QED
    BY <2>1, <2>2 DEF Undone
<1>3. CASE \/ \E c \in Calls, s \in Subject : RecordEvent(c, s)
           \/ StartAudit \/ AuditRow \/ AuditRowThrows \/ AuditPasses \/ AuditReturns
           \/ Tick \/ SetClockBack \/ UNCHANGED vars
  BY <1>3 DEF RecordEvent, StartAudit, AuditRow, AuditRowThrows, AuditPasses, AuditReturns,
     Tick, SetClockBack, vars, Kept
<1>4. CASE \E e \in Erasures, p \in People : BeginErase(e, p)
  BY <1>4 DEF Erases
<1> QED
  BY <1>1, <1>2, <1>3, <1>4, AppendStores, EraseStores DEF Next

\* No step but an append changes an event.
LEMMA EventsStay ==
  ASSUME IInv, [Next]_vars
  PROVE  \/ SameEntries(rows, rows')
         \/ \E j \in Job, b \in BOOLEAN : Grown(j, b)
<1>1. TypeOK /\ Undoable
  BY DEF IInv
<1>2. CASE Kept \/ OtherBegins \/ OtherCommits
  <2>1. rows' = rows
    BY <1>2 DEF Kept, OtherBegins, OtherCommits
  <2> QED
    BY <2>1, SameAsItself
<1>3. CASE Undone
  BY <1>1, <1>3, RolledBack DEF Undone
<1>4. ASSUME NEW e \in Erasures, Erases(e) \/ LeftPurged(e)
      PROVE  SameEntries(rows, rows')
  <2>1. \/ rows' = rows
        \/ rows' = Purged(erase[e].person)
        \/ \E i \in erase[e].todo : rows' = Backfilled(i)
    BY <1>4 DEF Erases, LeftPurged, BeginErase, UnwrapForBackfill, BackfillRow, PurgeRows,
       DestroyKey, EraseCommits
  <2> QED
    BY <1>1, <2>1, SameAsItself, PurgedRows, BackfilledRows
<1> QED
  BY <1>2, <1>3, <1>4, StoreStep

\* What has happened stays in the history.
LEMMA FlagsStay ==
  ASSUME IInv, [Next]_vars
  PROVE  /\ hist.lost => hist'.lost
         /\ hist.named => hist'.named
         /\ hist.stepped => hist'.stepped
         /\ hist.backfilled => hist'.backfilled
         /\ hist.torn => hist'.torn
<1>1. hist \in History
  BY DEF IInv, TypeOK
<1>2. \/ hist' = hist
      \/ \E a \in BOOLEAN, b \in BOOLEAN :
           \/ hist' = [hist EXCEPT !.lost = hist.lost \/ a, !.torn = hist.torn \/ b]
           \/ hist' = [hist EXCEPT !.lost = hist.lost \/ a]
           \/ hist' = [hist EXCEPT !.named = hist.named \/ a]
           \/ hist' = [hist EXCEPT !.torn = hist.torn \/ a]
      \/ hist' = [hist EXCEPT !.lost = TRUE, !.torn = hist.torn \/ Tears]
      \/ hist' = [hist EXCEPT !.lost = TRUE]
      \/ hist' = [hist EXCEPT !.stepped = TRUE]
      \/ hist' = [hist EXCEPT !.backfilled = TRUE]
  <2>1. ASSUME NEW c \in Calls, AppendStep(c) \/ \E s \in Subject : RecordEvent(c, s)
        PROVE  \/ hist' = hist
               \/ \E a \in BOOLEAN :
                    \/ hist' = [hist EXCEPT !.lost = hist.lost \/ a]
                    \/ hist' = [hist EXCEPT !.named = hist.named \/ a]
               \/ hist' = [hist EXCEPT !.lost = TRUE, !.torn = hist.torn \/ Tears]
               \/ hist' = [hist EXCEPT !.lost = TRUE]
    <3>1. ASSUME NEW j, NEW b, Insert(c, j, b)
          PROVE  \/ \E a \in BOOLEAN : hist' = [hist EXCEPT !.named = hist.named \/ a]
                 \/ hist' = [hist EXCEPT !.lost = TRUE, !.torn = hist.torn \/ Tears]
      <4>1. (j.person \in People \ active) \in BOOLEAN
        OBVIOUS
      <4> QED
        BY <3>1, <4>1 DEF Insert
    <3>2. CASE TakeCounter(c) \/ InsertRow(c)
      BY <3>1, <3>2 DEF TakeCounter, InsertRow
    <3>3. CASE AppendFails(c)
      <4>1. HoldsCounter(c) \in BOOLEAN
        BY DEF HoldsCounter
      <4> QED
        BY <3>3, <4>1 DEF AppendFails
    <3>4. CASE StartEvent(c) \/ Unwrap(c) \/ \E s \in Subject : RecordEvent(c, s)
      BY <3>4 DEF StartEvent, Unwrap, RecordEvent
    <3> QED
      BY <2>1, <3>2, <3>3, <3>4 DEF AppendStep
  <2>2. ASSUME NEW e \in Erasures, EraseStep(e) \/ \E p \in People : BeginErase(e, p)
        PROVE  \/ hist' = hist
               \/ \E a \in BOOLEAN : hist' = [hist EXCEPT !.torn = hist.torn \/ a]
               \/ hist' = [hist EXCEPT !.backfilled = TRUE]
    <3>1. Tears \in BOOLEAN /\ (e \notin tx.by) \in BOOLEAN
      BY DEF Tears
    <3> QED
      BY <2>2, <3>1 DEF EraseStep, BeginErase, UnwrapForBackfill, BackfillRow, PurgeRows,
         DestroyKey, EraseCommits, EraseFails
  <2>3. CASE OtherBegins \/ OtherCommits \/ OtherRollsBack
    <3>1. Tears \in BOOLEAN
      BY DEF Tears
    <3> QED
      BY <2>3, <3>1 DEF OtherBegins, OtherCommits, OtherRollsBack
  <2>4. CASE \/ StartAudit \/ AuditRow \/ AuditRowThrows \/ AuditPasses \/ AuditReturns
             \/ Tick \/ SetClockBack \/ UNCHANGED vars
    BY <2>4 DEF StartAudit, AuditRow, AuditRowThrows, AuditPasses, AuditReturns, Tick,
       SetClockBack, vars
  <2>5. CASE Kill
    <3> DEFINE held == \E c \in Calls : HoldsCounter(c)
    <3>1. held \in BOOLEAN /\ Tears \in BOOLEAN
      BY DEF Tears
    <3>2. hist' = [hist EXCEPT !.lost = hist.lost \/ held, !.torn = hist.torn \/ Tears]
      BY <2>5 DEF Kill
    <3> HIDE DEF held
    <3> QED
      BY <3>1, <3>2
  <2> QED
    BY <2>1, <2>2, <2>3, <2>4, <2>5 DEF Next
<1> QED
  BY <1>1, <1>2 DEF History

-----------------------------------------------------------------------------
(* The ledger implements the append-only log.                              *)

LEMMA EntriesType ==
  ASSUME TypeOK
  PROVE  Entries \in Seq(Log!Entry) /\ Len(Entries) = Len(rows)
<1>1. Len(rows) \in Nat /\ \A i \in 1 .. Len(rows) : rows[i] \in Row
  BY RowFacts
<1>2. \A r \in Row : [counter |-> r.counter, prev |-> r.prev, hash |-> r.hash]
                       \in Log!Entry
  BY DEF Row, Log!Entry
<1> QED
  BY <1>1, <1>2 DEF Entries

\* Rows with the same events are the same entries.
LEMMA SameEntriesSameLog ==
  ASSUME SameEntries(rows, rows')
  PROVE  Entries' = Entries
BY DEF SameEntries, Entries

\* A new row is an entry at the end, chained to the last one.
LEMMA InsertExtendsLog ==
  ASSUME IInv, TypeOK', NEW j \in Job, NEW b \in BOOLEAN,
         rows' = Append(rows, NewRow(j, b)),
         j.prev = fetchPreviousHash,
         \A i \in 1 .. Len(rows) : rows[i].counter < j.counter
  PROVE  Log!Next
<1> DEFINE n == Len(rows)
           r == NewRow(j, b)
<1>1. TypeOK
  BY DEF IInv
<1>2. rows \in Seq(Row) /\ n \in Nat
  BY <1>1, RowFacts
<1>3. r \in Row /\ r.counter = j.counter /\ r.prev = j.prev
  BY NewRowType
<1> HIDE DEF r
<1>4. /\ Len(rows') = n + 1
      /\ \A i \in 1 .. n : rows'[i] = rows[i]
      /\ rows'[n + 1] = r
  BY <1>2, <1>3, AppendProperties DEF r
<1>5. Len(Entries) = n /\ Entries \in Seq(Log!Entry)
  BY <1>1, EntriesType
<1>6. Len(Entries') = n + 1 /\ Entries' \in Seq(Log!Entry)
  <2>1. \A q \in Row : [counter |-> q.counter, prev |-> q.prev, hash |-> q.hash]
                         \in Log!Entry
    BY DEF Row, Log!Entry
  <2>2. \A i \in 1 .. n + 1 : rows'[i] \in Row
    BY <1>4, TypeOK' DEF TypeOK
  <2> QED
    BY <1>2, <1>4, <2>1, <2>2 DEF Entries
<1>7. \A i \in 1 .. n : Entries'[i] = Entries[i]
  BY <1>2, <1>4 DEF Entries
<1>8. Entries'[n + 1].counter = j.counter /\ Entries'[n + 1].prev = j.prev
  BY <1>2, <1>3, <1>4 DEF Entries
<1>9. Entries # <<>> => /\ Entries'[n + 1].counter > Entries[n].counter
                        /\ Entries'[n + 1].prev = Entries[n].hash
  <2> SUFFICES ASSUME Entries # <<>>
               PROVE  /\ Entries'[n + 1].counter > Entries[n].counter
                      /\ Entries'[n + 1].prev = Entries[n].hash
    OBVIOUS
  <2>1. n \in 1 .. n
    BY <1>2, <1>5
  <2>2. Entries[n].counter = rows[n].counter /\ Entries[n].hash = rows[n].hash
    BY <2>1 DEF Entries
  <2>3. fetchPreviousHash = rows[n].hash
    BY <1>2, <2>1 DEF fetchPreviousHash, HashBefore
  <2>4. rows[n].counter \in Nat /\ j.counter \in Nat
    BY <1>1, <2>1, RowFacts DEF Job
  <2> QED
    BY <1>8, <2>1, <2>2, <2>3, <2>4
<1> QED
  BY <1>5, <1>6, <1>7, <1>9 DEF Log!Next, Log!Extend, Log!Follows

\* The ledger implements AppendOnlyLog: entries are only added, at the end,
\* chained and with a larger counter; what an erasure, a rollback, a failed
\* append or a kill does is a stutter of the log.
THEOREM LedgerIsAppendOnly == Spec => AppendOnly
<1>1. Init => Log!Init
  BY InitIInv, EntriesType DEF IInv, Log!Init
<1>2. IInv /\ IInv' /\ [Next]_vars => [Log!Next]_Entries
  <2> SUFFICES ASSUME IInv, IInv', [Next]_vars PROVE [Log!Next]_Entries
    OBVIOUS
  <2>1. CASE SameEntries(rows, rows')
    BY <2>1, SameEntriesSameLog
  <2>2. ASSUME NEW j \in Job, NEW b \in BOOLEAN, Grown(j, b)
        PROVE  Log!Next
    BY <2>2, InsertExtendsLog DEF IInv, Grown
  <2> QED
    BY <2>1, <2>2, EventsStay
<1> QED
  BY <1>1, <1>2, Invariance, PTL DEF Spec, AppendOnly, Log!Spec

-----------------------------------------------------------------------------
(* Whom the rows name.                                                     *)

\* While no append has outlived its person's erasure, the rows name active
\* people only, and so do the rows a ROLLBACK would bring back.
Named ==
  ~hist.named =>
    /\ \A i \in 1 .. Len(rows) : rows[i].person \in People => rows[i].person \in active
    /\ tx.open => \A i \in 1 .. Len(tx.rows) :
                    tx.rows[i].person \in People => tx.rows[i].person \in tx.active

\* While no erasure has been torn, active people have their keys, and whoever a
\* ROLLBACK would make active again has a key or an erasure that destroyed it and
\* is about to COMMIT.
Keyed ==
  ~hist.torn =>
    /\ active \subseteq keys
    /\ \A p \in tx.active :
         p \in keys \/ \E e \in tx.by : erase[e].pc = "destroyed" /\ erase[e].person = p

\* In its own transaction, an erasure's purge stands.
Purging ==
  \A e \in tx.by :
    erase[e].pc \in {"purged", "destroyed"} => erase[e].person \notin active

\* Where the steps of an erasure lead.
LEMMA ErasureMoves ==
  ASSUME IInv, NEW e \in Erasures, Erases(e)
  PROVE  /\ \A d \in Erasures \ {e} : erase'[d] = erase[d]
         /\ \A p \in People : BeginErase(e, p) =>
              /\ erase'[e].pc \in {"unwrap", "backfill"} /\ erase'[e].person = p
              /\ tx' = [open |-> TRUE, by |-> {e}, rows |-> rows, active |-> active]
              /\ UNCHANGED <<rows, active, keys, hist>>
         /\ UnwrapForBackfill(e) =>
              /\ erase'[e].pc = "backfill" /\ erase[e].pc = "unwrap"
              /\ erase'[e].person = erase[e].person /\ erase'[e].todo = erase[e].todo
              /\ UNCHANGED <<rows, active, tx, keys, hist>>
         /\ \A i : BackfillRow(e, i) =>
              /\ erase'[e].pc = "backfill" /\ erase[e].pc = "backfill"
              /\ erase'[e].person = erase[e].person
              /\ rows' = Backfilled(i) /\ hist'.backfilled
              /\ UNCHANGED <<active, tx, keys>>
         /\ PurgeRows(e) =>
              /\ erase[e].pc = "backfill" /\ erase[e].todo = {} /\ erase'[e].pc = "purged"
              /\ erase'[e].person = erase[e].person /\ rows' = Purged(erase[e].person)
              /\ active' = active \ {erase[e].person}
              /\ UNCHANGED <<tx, keys, hist>>
         /\ DestroyKey(e) =>
              /\ erase[e].pc = "purged" /\ erase'[e].pc = "destroyed"
              /\ erase'[e].person = erase[e].person
              /\ keys' = keys \ {erase[e].person} /\ (e \notin tx.by => hist'.torn)
              /\ UNCHANGED <<rows, active, tx>>
         /\ EraseCommits(e) =>
              /\ erase'[e] = NoErasure /\ tx' = Closed /\ UNCHANGED <<rows, active, keys, hist>>
<1>1. erase \in [Erasures -> Erasing] /\ hist \in History /\ erase[e] \in Erasing
  BY DEF IInv, TypeOK
<1>2. \A d \in Erasures \ {e} : erase'[d] = erase[d]
  BY <1>1 DEF Erases, BeginErase, UnwrapForBackfill, BackfillRow, PurgeRows, DestroyKey,
     EraseCommits
<1>3. ASSUME NEW p \in People, BeginErase(e, p)
      PROVE  /\ erase'[e].pc \in {"unwrap", "backfill"} /\ erase'[e].person = p
             /\ tx' = [open |-> TRUE, by |-> {e}, rows |-> rows, active |-> active]
             /\ UNCHANGED <<rows, active, keys, hist>>
  BY <1>1, <1>3 DEF BeginErase
<1>4. ASSUME UnwrapForBackfill(e)
      PROVE  /\ erase'[e].pc = "backfill" /\ erase[e].pc = "unwrap"
             /\ erase'[e].person = erase[e].person /\ erase'[e].todo = erase[e].todo
             /\ UNCHANGED <<rows, active, tx, keys, hist>>
  BY <1>1, <1>4 DEF UnwrapForBackfill, Erasing
<1>5. ASSUME NEW i, BackfillRow(e, i)
      PROVE  /\ erase'[e].pc = "backfill" /\ erase[e].pc = "backfill"
             /\ erase'[e].person = erase[e].person
             /\ rows' = Backfilled(i) /\ hist'.backfilled
             /\ UNCHANGED <<active, tx, keys>>
  <2>1. /\ erase' = [erase EXCEPT ![e].todo = erase[e].todo \ {i}]
        /\ erase[e].pc = "backfill" /\ hist' = [hist EXCEPT !.backfilled = TRUE]
        /\ rows' = Backfilled(i) /\ UNCHANGED <<active, tx, keys>>
    BY <1>5 DEF BackfillRow
  <2> QED
    BY <1>1, <2>1 DEF Erasing, History
<1>6. ASSUME PurgeRows(e)
      PROVE  /\ erase[e].pc = "backfill" /\ erase[e].todo = {} /\ erase'[e].pc = "purged"
             /\ erase'[e].person = erase[e].person /\ rows' = Purged(erase[e].person)
             /\ active' = active \ {erase[e].person}
             /\ UNCHANGED <<tx, keys, hist>>
  BY <1>1, <1>6 DEF PurgeRows, Erasing
<1>7. ASSUME DestroyKey(e)
      PROVE  /\ erase[e].pc = "purged" /\ erase'[e].pc = "destroyed"
             /\ erase'[e].person = erase[e].person
             /\ keys' = keys \ {erase[e].person} /\ (e \notin tx.by => hist'.torn)
             /\ UNCHANGED <<rows, active, tx>>
  BY <1>1, <1>7 DEF DestroyKey, Erasing, History
<1>8. ASSUME EraseCommits(e)
      PROVE  /\ erase'[e] = NoErasure /\ tx' = Closed /\ UNCHANGED <<rows, active, keys, hist>>
  BY <1>1, <1>8 DEF EraseCommits
<1> QED
  BY <1>2, <1>3, <1>4, <1>5, <1>6, <1>7, <1>8

\* What is there when no transaction is open, or one is begun or rolled back.
LEMMA TransactionFacts ==
  ASSUME IInv
  PROVE  /\ tx.open \in BOOLEAN
         /\ ~tx.open => tx.by = {} /\ tx.active = {}
         /\ Undone => /\ tx.open => rows' = tx.rows /\ active' = tx.active
                      /\ ~tx.open => UNCHANGED <<rows, active>>
                      /\ ~tx'.open /\ tx'.by = {} /\ tx'.active = {}
         /\ OtherBegins => /\ tx' = [open |-> TRUE, by |-> {}, rows |-> rows, active |-> active]
                           /\ UNCHANGED <<rows, active, keys, erase, hist>>
         /\ OtherCommits => /\ ~tx'.open /\ tx'.by = {} /\ tx'.active = {}
                            /\ UNCHANGED <<rows, active, keys, erase, hist>>
BY DEF IInv, TypeOK, Transaction, Undoable, Closed, Undone, Rollback, OtherBegins, OtherCommits

\* A purge of names leaves nobody else named.
LEMMA PurgedNames ==
  ASSUME TypeOK, NEW p, rows' = Purged(p)
  PROVE  \A i \in 1 .. Len(rows') :
           rows'[i].person \in People => i \in 1 .. Len(rows) /\ rows'[i].person = rows[i].person
                                         /\ rows[i].person # p
<1>1. /\ Len(rows') = Len(rows)
      /\ \A i \in 1 .. Len(rows) :
           /\ rows[i].person # p => rows'[i] = rows[i]
           /\ rows[i].person = p => rows'[i].person = Nobody
  BY PurgedRows
<1> QED
  BY <1>1, BoundsAssumption

LEMMA NextNamed ==
  ASSUME IInv, Named, [Next]_vars
  PROVE  Named'
<1>1. TypeOK /\ (hist.named => hist'.named) /\ rows \in Seq(Row) /\ Len(rows) \in Nat
  BY FlagsStay, RowFacts DEF IInv
<1> SUFFICES ASSUME ~hist'.named
             PROVE  /\ \A i \in 1 .. Len(rows') :
                         rows'[i].person \in People => rows'[i].person \in active'
                    /\ tx'.open => \A i \in 1 .. Len(tx'.rows) :
                         tx'.rows[i].person \in People => tx'.rows[i].person \in tx'.active
  BY DEF Named
<1>2. /\ \A i \in 1 .. Len(rows) : rows[i].person \in People => rows[i].person \in active
      /\ tx.open => \A i \in 1 .. Len(tx.rows) :
           tx.rows[i].person \in People => tx.rows[i].person \in tx.active
  BY <1>1 DEF Named
<1>3. CASE Kept
  BY <1>2, <1>3 DEF Kept
<1>4. ASSUME NEW j \in Job, NEW b \in BOOLEAN, Grown(j, b)
      PROVE  /\ \A i \in 1 .. Len(rows') :
                  rows'[i].person \in People => rows'[i].person \in active'
             /\ ~tx'.open
  <2> DEFINE r == NewRow(j, b)
  <2>1. r.person = j.person /\ (j.person \in People => j.person \in active)
    BY <1>4 DEF NewRow, Grown
  <2>2. rows' = Append(rows, r) /\ UNCHANGED <<active, tx>> /\ ~tx.open
    BY <1>4 DEF Grown
  <2> HIDE DEF r
  <2>3. /\ Len(rows') = Len(rows) + 1
        /\ \A i \in 1 .. Len(rows) : rows'[i] = rows[i]
        /\ rows'[Len(rows) + 1] = r
        /\ \A i \in 1 .. Len(rows') : i \in 1 .. Len(rows) \/ i = Len(rows) + 1
    BY <1>1, <2>2
  <2> QED
    BY <1>2, <2>1, <2>2, <2>3
<1>5. CASE Undone
  BY <1>2, <1>5, TransactionFacts
<1>6. CASE OtherBegins \/ OtherCommits
  BY <1>2, <1>6, TransactionFacts
<1>7. ASSUME NEW e \in Erasures, Erases(e)
      PROVE  /\ \A i \in 1 .. Len(rows') :
                  rows'[i].person \in People => rows'[i].person \in active'
             /\ tx'.open => \A i \in 1 .. Len(tx'.rows) :
                  tx'.rows[i].person \in People => tx'.rows[i].person \in tx'.active
  <2>1. CASE \E p \in People : BeginErase(e, p)
    BY <1>2, <1>7, <2>1, ErasureMoves
  <2>2. CASE UnwrapForBackfill(e) \/ DestroyKey(e)
    BY <1>2, <1>7, <2>2, ErasureMoves
  <2>3. CASE \E i \in erase[e].todo : BackfillRow(e, i)
    <3>1. UNCHANGED <<active, tx>> /\ \E i : rows' = Backfilled(i)
      BY <1>7, <2>3, ErasureMoves
    <3> QED
      BY <1>1, <1>2, <3>1, BackfilledRows
  <2>4. CASE PurgeRows(e)
    <3>1. /\ rows' = Purged(erase[e].person) /\ active' = active \ {erase[e].person}
          /\ tx' = tx
      BY <1>7, <2>4, ErasureMoves
    <3> QED
      BY <1>1, <1>2, <3>1, PurgedNames
  <2>5. CASE EraseCommits(e)
    <3>1. tx' = Closed /\ UNCHANGED <<rows, active>>
      BY <1>7, <2>5, ErasureMoves
    <3> QED
      BY <1>2, <3>1 DEF Closed
  <2> QED
    BY <1>7, <2>1, <2>2, <2>3, <2>4, <2>5 DEF Erases
<1>8. ASSUME NEW e \in Erasures, LeftPurged(e)
      PROVE  /\ \A i \in 1 .. Len(rows') :
                  rows'[i].person \in People => rows'[i].person \in active'
             /\ ~tx'.open
  <2>1. rows' = Purged(erase[e].person) /\ UNCHANGED <<active, tx>> /\ ~tx.open
    BY <1>8 DEF LeftPurged
  <2> QED
    BY <1>1, <1>2, <2>1, PurgedNames
<1> QED
  BY <1>3, <1>4, <1>5, <1>6, <1>7, <1>8, StoreStep

LEMMA NextPurging ==
  ASSUME IInv, Purging, [Next]_vars
  PROVE  Purging'
<1>1. tx \in Transaction /\ tx.by \subseteq Erasures
  BY DEF IInv, TypeOK, Transaction
<1>2. CASE Kept
  BY <1>2 DEF Kept, Purging
<1>3. CASE Undone \/ OtherCommits
  BY <1>3, TransactionFacts DEF Purging
<1>4. CASE OtherBegins
  BY <1>4, TransactionFacts DEF Purging
<1>5. ASSUME NEW e \in Erasures, Erases(e)
      PROVE  Purging'
  <2>1. \A d \in Erasures \ {e} : erase'[d] = erase[d]
    BY <1>5, ErasureMoves
  <2>2. CASE \E p \in People : BeginErase(e, p)
    <3>1. tx'.by = {e} /\ erase'[e].pc \notin {"purged", "destroyed"}
      BY <1>5, <2>2, ErasureMoves
    <3> QED
      BY <3>1 DEF Purging
  <2>3. CASE UnwrapForBackfill(e) \/ \E i \in erase[e].todo : BackfillRow(e, i)
    <3>1. UNCHANGED <<active, tx>> /\ erase'[e].pc \notin {"purged", "destroyed"}
      BY <1>5, <2>3, ErasureMoves
    <3> QED
      BY <1>1, <2>1, <3>1 DEF Purging
  <2>4. CASE PurgeRows(e)
    <3>1. /\ tx' = tx /\ active' = active \ {erase[e].person}
          /\ erase'[e].person = erase[e].person
      BY <1>5, <2>4, ErasureMoves
    <3> QED
      BY <1>1, <2>1, <3>1 DEF Purging
  <2>5. CASE DestroyKey(e)
    <3>1. /\ UNCHANGED <<active, tx>> /\ erase[e].pc = "purged"
          /\ erase'[e].person = erase[e].person
      BY <1>5, <2>5, ErasureMoves
    <3> QED
      BY <1>1, <2>1, <3>1 DEF Purging
  <2>6. CASE EraseCommits(e)
    <3>1. tx'.by = {}
      BY <1>5, <2>6, ErasureMoves DEF Closed
    <3> QED
      BY <3>1 DEF Purging
  <2> QED
    BY <1>5, <2>2, <2>3, <2>4, <2>5, <2>6 DEF Erases
<1>6. ASSUME \/ \E j \in Job, b \in BOOLEAN : Grown(j, b)
             \/ \E e \in Erasures : LeftPurged(e)
      PROVE  Purging'
  <2>1. ~tx.open /\ tx' = tx
    BY <1>6 DEF Grown, LeftPurged
  <2>2. tx'.by = {}
    BY <2>1, TransactionFacts
  <2> QED
    BY <2>2 DEF Purging
<1> QED
  BY <1>2, <1>3, <1>4, <1>5, <1>6, StoreStep

LEMMA NextKeyed ==
  ASSUME IInv, Purging, Keyed, [Next]_vars
  PROVE  Keyed'
<1>1. /\ tx \in Transaction /\ tx.by \subseteq Erasures /\ (hist.torn => hist'.torn)
      /\ tx.by # {} => tx.open
  BY FlagsStay DEF IInv, TypeOK, Transaction, Undoable, Closed
<1> SUFFICES ASSUME ~hist'.torn
             PROVE  /\ active' \subseteq keys'
                    /\ \A p \in tx'.active :
                         \/ p \in keys'
                         \/ \E e \in tx'.by : erase'[e].pc = "destroyed" /\ erase'[e].person = p
  BY DEF Keyed
<1>2. /\ active \subseteq keys
      /\ \A p \in tx.active :
           p \in keys \/ \E e \in tx.by : erase[e].pc = "destroyed" /\ erase[e].person = p
  BY <1>1 DEF Keyed
<1>3. CASE Kept
  BY <1>2, <1>3 DEF Kept
<1>4. CASE Undone
  <2>1. ~Tears /\ keys' = keys
    BY <1>4 DEF Undone
  <2>2. tx.active \subseteq keys
    BY <1>2, <2>1 DEF Tears
  <2> QED
    BY <1>2, <1>4, <2>1, <2>2, TransactionFacts
<1>5. CASE OtherBegins \/ OtherCommits
  BY <1>2, <1>5, TransactionFacts
<1>6. ASSUME \/ \E j \in Job, b \in BOOLEAN : Grown(j, b)
             \/ \E e \in Erasures : LeftPurged(e)
      PROVE  active' \subseteq keys' /\ tx'.active = {}
  <2>1. ~tx.open /\ UNCHANGED <<tx, active, keys>>
    BY <1>6 DEF Grown, LeftPurged
  <2> QED
    BY <1>2, <2>1, TransactionFacts
<1>7. ASSUME NEW e \in Erasures, Erases(e)
      PROVE  /\ active' \subseteq keys'
             /\ \A p \in tx'.active :
                  \/ p \in keys'
                  \/ \E d \in tx'.by : erase'[d].pc = "destroyed" /\ erase'[d].person = p
  <2>1. \A d \in Erasures \ {e} : erase'[d] = erase[d]
    BY <1>7, ErasureMoves
  <2>2. CASE \E p \in People : BeginErase(e, p)
    BY <1>2, <1>7, <2>2, ErasureMoves
  <2>3. CASE UnwrapForBackfill(e) \/ (\E i \in erase[e].todo : BackfillRow(e, i)) \/ PurgeRows(e)
    <3>1. UNCHANGED <<tx, keys>> /\ active' \subseteq active /\ erase[e].pc # "destroyed"
      BY <1>7, <2>3, ErasureMoves
    <3> QED
      BY <1>1, <1>2, <2>1, <3>1
  <2>4. CASE DestroyKey(e)
    <3>1. /\ UNCHANGED <<active, tx>> /\ keys' = keys \ {erase[e].person} /\ e \in tx.by
          /\ erase[e].pc = "purged" /\ erase'[e].pc = "destroyed"
          /\ erase'[e].person = erase[e].person
      BY <1>7, <2>4, ErasureMoves
    <3>2. erase[e].person \notin active
      BY <3>1 DEF Purging
    <3> QED
      BY <1>1, <1>2, <2>1, <3>1, <3>2
  <2>5. CASE EraseCommits(e)
    <3>1. tx'.active = {} /\ UNCHANGED <<active, keys>>
      BY <1>7, <2>5, ErasureMoves DEF Closed
    <3> QED
      BY <1>2, <3>1
  <2> QED
    BY <1>7, <2>2, <2>3, <2>4, <2>5 DEF Erases
<1> QED
  BY <1>3, <1>4, <1>5, <1>6, <1>7, StoreStep

Names == Named /\ Purging /\ Keyed

LEMMA InitNames == Init => Names
<1> SUFFICES ASSUME Init PROVE Names
  OBVIOUS
<1>1. rows = LegacyRows /\ active = People /\ keys = People /\ tx = Closed
  BY DEF Init
<1> QED
  BY <1>1, LegacyAssumption DEF Names, Named, Purging, Keyed, Closed

LEMMA NamesInvariant == Spec => []Names
<1>1. IInv /\ Names /\ [Next]_vars => Names'
  BY NextNamed, NextPurging, NextKeyed DEF Names
<1> QED
  BY <1>1, InitNames, Invariance, PTL DEF Spec

\* However appends, erasures and the other writers' transactions interleave, no
\* row names a person who is not active, unless an append that had unwrapped the
\* key before was still to insert its row, and none names a person without a key,
\* unless in addition a purge was undone after the key was destroyed
\* (LedgerService.ts:282-337, ErasureService.ts:193-271).
THEOREM ErasureUnnames == Spec => []ErasedUnnamed
<1>1. Names => ErasedUnnamed
  BY DEF Names, Named, Keyed, ErasedUnnamed
<1> QED
  BY <1>1, NamesInvariant, PTL

-----------------------------------------------------------------------------
(* What an audit answers.                                                  *)

\* Those who are enrolled or whom a ROLLBACK may still make so.
Reach == (active \cup tx.active) \cap keys

\* Whoever a ROLLBACK would make active again is named by no row.
Returning ==
  \A i \in 1 .. Len(rows) : rows[i].person \in tx.active => rows[i].person \in active

\* known is who was enrolled when the audit read its rows.
Knows(known) ==
  /\ audit.deks \subseteq known
  /\ ~audit.raced => known = enrolled
  /\ audit.sound = Verifies(audit.snap, known)
  /\ \A i \in 1 .. Len(audit.snap) : i < audit.at => RowOk(audit.snap, i, known)
  /\ \A i \in 1 .. Len(audit.snap) : audit.snap[i].person \in Reach
                                       => audit.snap[i].person \in known

Audited == audit.pc = "read" => audit.at > 0 /\ \E known \in SUBSET People : Knows(known)

\* Nobody is enrolled again.
LEMMA ReachShrinks ==
  ASSUME IInv, [Next]_vars
  PROVE  Reach' \subseteq Reach
<1>1. CASE Kept \/ Undone \/ OtherBegins \/ OtherCommits
  BY <1>1, TransactionFacts DEF Kept, Undone, OtherBegins, OtherCommits, Reach
<1>2. CASE \E j \in Job, b \in BOOLEAN : Grown(j, b)
  BY <1>2 DEF Grown, Reach
<1>3. ASSUME NEW e \in Erasures, Erases(e)
      PROVE  Reach' \subseteq Reach
  <2>1. /\ active' \subseteq active /\ keys' \subseteq keys
        /\ tx'.active \subseteq active \cup tx.active
    <3>1. CASE \E p \in People : BeginErase(e, p)
      BY <1>3, <3>1, ErasureMoves
    <3>2. CASE UnwrapForBackfill(e) \/ (\E i \in erase[e].todo : BackfillRow(e, i))
                 \/ PurgeRows(e) \/ DestroyKey(e)
      BY <1>3, <3>2, ErasureMoves
    <3>3. CASE EraseCommits(e)
      BY <1>3, <3>3, ErasureMoves DEF Closed
    <3> QED
      BY <1>3, <3>1, <3>2, <3>3 DEF Erases
  <2> QED
    BY <2>1 DEF Reach
<1>4. ASSUME NEW e \in Erasures, LeftPurged(e)
      PROVE  Reach' \subseteq Reach
  BY <1>4 DEF LeftPurged, Reach
<1> QED
  BY <1>1, <1>2, <1>3, <1>4, StoreStep

LEMMA NextReturning ==
  ASSUME IInv, Returning, [Next]_vars
  PROVE  Returning'
<1>1. TypeOK /\ active \in SUBSET People /\ tx.active \in SUBSET People
  BY DEF IInv, TypeOK, Transaction
<1>2. CASE Kept
  BY <1>2 DEF Kept, Returning
<1>3. CASE Undone \/ OtherBegins \/ OtherCommits
  BY <1>3, TransactionFacts DEF Returning
<1>4. ASSUME \/ \E j \in Job, b \in BOOLEAN : Grown(j, b)
             \/ \E e \in Erasures : LeftPurged(e)
      PROVE  Returning'
  <2>1. ~tx.open /\ tx' = tx
    BY <1>4 DEF Grown, LeftPurged
  <2> QED
    BY <2>1, TransactionFacts DEF Returning
<1>5. ASSUME NEW e \in Erasures, Erases(e)
      PROVE  Returning'
  <2>1. CASE \E p \in People : BeginErase(e, p)
    BY <1>5, <2>1, ErasureMoves DEF Returning
  <2>2. CASE UnwrapForBackfill(e) \/ DestroyKey(e)
    <3>1. UNCHANGED <<rows, active, tx>>
      BY <1>5, <2>2, ErasureMoves
    <3> QED
      BY <3>1 DEF Returning
  <2>3. CASE \E i \in erase[e].todo : BackfillRow(e, i)
    <3>1. UNCHANGED <<active, tx>> /\ \E i : rows' = Backfilled(i)
      BY <1>5, <2>3, ErasureMoves
    <3> QED
      BY <1>1, <3>1, BackfilledRows DEF Returning
  <2>4. CASE PurgeRows(e)
    <3>1. /\ rows' = Purged(erase[e].person) /\ active' = active \ {erase[e].person}
          /\ tx' = tx
      BY <1>5, <2>4, ErasureMoves
    <3>2. \A i \in 1 .. Len(rows') : rows'[i].person \in People =>
            /\ i \in 1 .. Len(rows) /\ rows'[i].person = rows[i].person
            /\ rows[i].person # erase[e].person
      BY <1>1, <3>1, PurgedNames
    <3> QED
      BY <1>1, <3>1, <3>2 DEF Returning
  <2>5. CASE EraseCommits(e)
    <3>1. tx'.active = {}
      BY <1>5, <2>5, ErasureMoves DEF Closed
    <3> QED
      BY <3>1 DEF Returning
  <2> QED
    BY <1>5, <2>1, <2>2, <2>3, <2>4, <2>5 DEF Erases
<1> QED
  BY <1>2, <1>3, <1>4, <1>5, StoreStep

\* A step that is not the audit's: whoever's DEK can be had stays the same, or
\* the race is noted.
LEMMA AuditRests ==
  ASSUME IInv, Audited, AuditIsExact, Reach' \subseteq Reach,
         UNCHANGED <<audit, enrolled>> \/ NotesRace
  PROVE  Audited' /\ AuditIsExact'
<1>1. /\ audit'.pc = audit.pc /\ audit'.snap = audit.snap /\ audit'.at = audit.at
      /\ audit'.deks = audit.deks /\ audit'.sound = audit.sound
      /\ audit'.threw = audit.threw
      /\ audit.raced => audit'.raced
      /\ audit.pc = "read" /\ ~audit'.raced => enrolled' = enrolled
  BY RaceNoted DEF IInv
<1>2. AuditIsExact'
  BY <1>1 DEF AuditIsExact
<1>3. ASSUME NEW known \in SUBSET People, Knows(known), audit.pc = "read"
      PROVE  Knows(known)'
  BY <1>1, <1>3 DEF Knows
<1> QED
  BY <1>1, <1>2, <1>3 DEF Audited

LEMMA AuditRowExact ==
  ASSUME IInv, Audited, AuditIsExact, AuditRow
  PROVE  Audited' /\ AuditIsExact'
<1>1. /\ audit \in Audit /\ audit.pc = "read" /\ audit.at <= Len(audit.snap)
      /\ audit.at \in Nat /\ audit.at > 0 /\ audit.snap \in Seq(Row) /\ Len(audit.snap) \in Nat
      /\ UNCHANGED <<active, tx, keys>> /\ enrolled \subseteq Reach
  BY DEF IInv, TypeOK, Audit, AuditRow, Audited, enrolled, Reach
<1>2. PICK known \in SUBSET People : Knows(known)
  BY <1>1 DEF Audited
<1> DEFINE r == audit.snap[audit.at]
           ks == enrolled \cup audit.deks
           good == /\ InPlace(audit.snap, audit.at)
                   /\ NeedsKey(r) => Opens(r, ks)
                   /\ Rehashes(r)
           deks == IF NeedsKey(r) THEN audit.deks \cup {r.person} ELSE audit.deks
<1>3. audit' = IF good THEN [audit EXCEPT !.at = audit.at + 1, !.deks = deks]
                       ELSE [audit EXCEPT !.pc = "broken"]
  BY DEF AuditRow
<1>4. audit.at \in 1 .. Len(audit.snap) /\ audit.deks \subseteq known
      /\ (r.person \in ks => r.person \in known)
  BY <1>1, <1>2 DEF Knows
<1>5. good => RowOk(audit.snap, audit.at, known) /\ deks \subseteq known
  BY <1>4 DEF RowOk, Opens
<1>6. ~good => ~Verifies(audit.snap, known) \/ audit.raced
  <2> SUFFICES ASSUME ~good, ~audit.raced PROVE ~Verifies(audit.snap, known)
    OBVIOUS
  <2>1. known = ks
    BY <1>2, <1>4 DEF Knows
  <2> QED BY <1>4, <2>1 DEF Verifies, RowOk
<1> HIDE DEF good, deks
<1>7. CASE good
  <2>1. /\ audit'.pc = "read" /\ audit'.snap = audit.snap /\ audit'.at = audit.at + 1
        /\ audit'.deks = deks /\ audit'.sound = audit.sound /\ audit'.raced = audit.raced
    BY <1>1, <1>3, <1>7 DEF Audit
  <2>2. \A i \in 1 .. Len(audit.snap) : i < audit.at + 1 => RowOk(audit.snap, i, known)
    <3>1. \A i \in 1 .. Len(audit.snap) : i < audit.at + 1 => i < audit.at \/ i = audit.at
      BY <1>1
    <3> QED BY <1>2, <1>5, <1>7, <3>1 DEF Knows
  <2>3. enrolled' = enrolled /\ Reach' = Reach
    BY <1>1 DEF enrolled, Reach
  <2>4. Knows(known)'
    BY <1>2, <1>5, <1>7, <2>1, <2>2, <2>3 DEF Knows
  <2>5. audit'.at > 0
    BY <1>1, <2>1
  <2> QED BY <2>1, <2>4, <2>5 DEF Audited, AuditIsExact
<1>8. CASE ~good
  <2>1. /\ audit'.pc = "broken" /\ audit'.sound = audit.sound /\ audit'.raced = audit.raced
    BY <1>1, <1>3, <1>8 DEF Audit
  <2>2. audit.sound = Verifies(audit.snap, known)
    BY <1>2 DEF Knows
  <2> QED BY <1>6, <1>8, <2>1, <2>2 DEF Audited, AuditIsExact
<1> QED BY <1>7, <1>8

LEMMA StartAuditExact ==
  ASSUME IInv, Returning, StartAudit
  PROVE  Audited' /\ AuditIsExact'
<1>1. /\ audit' = [NoAudit EXCEPT !.pc = "read", !.snap = rows,
                                  !.sound = Verifies(rows, enrolled)]
      /\ UNCHANGED <<active, tx, keys>> /\ enrolled \in SUBSET People
  BY DEF StartAudit, IInv, TypeOK, enrolled
<1>2. /\ audit'.pc = "read" /\ audit'.snap = rows /\ audit'.at = 1 /\ audit'.deks = {}
      /\ audit'.sound = Verifies(rows, enrolled) /\ audit'.raced = FALSE
  BY <1>1 DEF NoAudit
<1>3. enrolled' = enrolled /\ Reach' = Reach
  BY <1>1 DEF enrolled, Reach
<1>4. \A i \in 1 .. Len(rows) : rows[i].person \in Reach => rows[i].person \in enrolled
  BY DEF Returning, Reach, enrolled
<1>5. \A i \in 1 .. Len(rows) : ~(i < 1)
  OBVIOUS
<1>6. Knows(enrolled)'
  BY <1>2, <1>3, <1>4, <1>5 DEF Knows
<1>7. \E k \in SUBSET People : Knows(k)'
  <2>1. enrolled' \in SUBSET People
    BY <1>1, <1>3
  <2> QED
    BY <1>6, <2>1
<1> QED
  BY <1>2, <1>7 DEF Audited, AuditIsExact

LEMMA NextExact ==
  ASSUME IInv, Returning, Audited, AuditIsExact, [Next]_vars
  PROVE  Audited' /\ AuditIsExact'
<1>1. audit \in Audit
  BY DEF IInv, TypeOK
<1>2. CASE StartAudit
  BY <1>2, StartAuditExact
<1>3. CASE AuditRow
  BY <1>3, AuditRowExact
<1>4. CASE AuditPasses
  <2>1. /\ audit.pc = "read" /\ audit.at > Len(audit.snap)
        /\ audit'.pc = "ok" /\ audit'.sound = audit.sound
    BY <1>1, <1>4 DEF AuditPasses, Audit
  <2>2. PICK known \in SUBSET People : Knows(known)
    BY <2>1 DEF Audited
  <2>3. \A i \in 1 .. Len(audit.snap) : i < audit.at
    <3>1. audit.at \in Nat /\ Len(audit.snap) \in Nat
      BY <1>1 DEF Audit
    <3> QED BY <2>1, <3>1
  <2>4. audit.sound
    BY <2>2, <2>3 DEF Verifies, Knows
  <2> QED BY <2>1, <2>4 DEF Audited, AuditIsExact
<1>5. CASE AuditReturns \/ Kill
  <2>1. audit'.pc = "none"
    BY <1>5 DEF AuditReturns, Kill, NoAudit
  <2> QED BY <2>1 DEF Audited, AuditIsExact
<1>6. CASE AuditRowThrows
  <2>1. audit'.pc = "broken" /\ audit'.threw
    BY <1>1, <1>6 DEF AuditRowThrows, Audit
  <2> QED BY <2>1 DEF Audited, AuditIsExact
<1>7. ASSUME NEW c \in Calls, AppendStep(c) \/ \E s \in Subject : RecordEvent(c, s)
      PROVE  Audited' /\ AuditIsExact'
  <2>1. ASSUME NEW j, NEW b, Insert(c, j, b), keys' = keys
        PROVE  UNCHANGED <<audit, enrolled>> \/ NotesRace
    BY <2>1 DEF Insert, enrolled
  <2>2. UNCHANGED <<audit, enrolled>> \/ NotesRace
    BY <1>7, <2>1 DEF AppendStep, RecordEvent, StartEvent, TakeCounter, Unwrap, InsertRow,
       AppendFails, enrolled
  <2> QED BY <2>2, AuditRests, ReachShrinks
<1>8. ASSUME NEW e \in Erasures, EraseStep(e) \/ \E p \in People : BeginErase(e, p)
      PROVE  Audited' /\ AuditIsExact'
  <2>1. UNCHANGED <<audit, enrolled>> \/ NotesRace
    BY <1>8 DEF EraseStep, BeginErase, UnwrapForBackfill, BackfillRow, PurgeRows, DestroyKey,
       EraseCommits, EraseFails, enrolled
  <2> QED BY <2>1, AuditRests, ReachShrinks
<1>9. CASE \/ OtherBegins \/ OtherCommits \/ OtherRollsBack \/ Tick \/ SetClockBack
           \/ UNCHANGED vars
  <2>1. UNCHANGED <<audit, enrolled>> \/ NotesRace
    BY <1>9 DEF OtherBegins, OtherCommits, OtherRollsBack, Tick, SetClockBack, vars, enrolled
  <2> QED BY <2>1, AuditRests, ReachShrinks
<1> QED
  BY <1>2, <1>3, <1>4, <1>5, <1>6, <1>7, <1>8, <1>9 DEF Next

\* The row-by-row audit, its key cache included, answers what the checks say of
\* the rows it read, though appends, erasures, rollbacks and clock changes come
\* between any two of its rows; a sound ledger is called broken only when a
\* native call threw, or when whose key can be had changed meanwhile
\* (LedgerService.ts:371-497).
THEOREM AuditsAreExact == Spec => []AuditIsExact
<1> DEFINE Exact == Returning /\ Audited /\ AuditIsExact
<1>1. Init => Exact
  BY DEF Init, NoAudit, Audited, AuditIsExact, Returning, Closed
<1>2. IInv /\ Exact /\ [Next]_vars => Exact'
  BY NextExact, NextReturning
<1>3. Exact => AuditIsExact
  OBVIOUS
<1> HIDE DEF Exact
<1> QED
  BY <1>1, <1>2, <1>3, Invariance, PTL DEF Spec

-----------------------------------------------------------------------------
(* What a verification finds fault with.  Orderly is about counters and    *)
(* times, which only appends and the clock change; Legible is about names, *)
(* keys and payload hashes, which a ROLLBACK may bring back.               *)

Unharmed == ~hist.lost /\ ~hist.stepped /\ ~hist.named /\ ~hist.backfilled /\ ~hist.torn

\* No counter is missing and no time goes back.
InOrder ==
  \A i \in 1 .. Len(rows) :
    /\ rows[i].counter = i
    /\ rows[i].ts <= clock
    /\ i > 1 => rows[i - 1].ts <= rows[i].ts

\* What a running append has read.
UpToDate(c) ==
  /\ job[c].ts <= clock
  /\ \A i \in 1 .. Len(rows) : rows[i].ts <= job[c].ts
  /\ HoldsCounter(c) => job[c].counter = Len(rows) + 1

\* The next counter is the next row's, or was given to the running append.
NoGap == counter = Len(rows) + (IF \E c \in Calls : HoldsCounter(c) THEN 2 ELSE 1)

Orderly ==
  Unharmed =>
    /\ InOrder /\ NoGap
    /\ \A c \in Calls : job[c].pc \in InAppend => UpToDate(c)

\* A row that verifyChain can open while the DEKs of ps can be had, or need not,
\* and whose hash is over what it holds.
Readable(r, ps) ==
  /\ r.sealed => r.person \in ps \cup {Nobody}
  /\ ~r.hashed => r.sealed /\ r.person \in ps
  /\ Rehashes(r)

\* An erasure that has not purged yet still has every row to backfill on its list.
Owed(rs) ==
  \A e \in Erasures : erase[e].pc \in {"unwrap", "backfill"} =>
    \A i \in 1 .. Len(rs) :
      rs[i].person = erase[e].person /\ ~rs[i].hashed => i \in erase[e].todo

Fine(rs, ps) == Owed(rs) /\ \A i \in 1 .. Len(rs) : Readable(rs[i], ps)

Legible == Unharmed => Fine(rows, active) /\ (tx.open => Fine(tx.rows, tx.active))

LEMMA IntactVerifies ==
  ASSUME IInv, Keyed, Orderly, Legible, Unharmed
  PROVE  Verifies(rows, enrolled)
<1> SUFFICES ASSUME NEW i \in 1 .. Len(rows) PROVE RowOk(rows, i, enrolled)
  BY DEF Verifies
<1>1. /\ i > 1 => i - 1 \in 1 .. Len(rows) /\ rows[i - 1].ts <= rows[i].ts
      /\ i > 1 => rows[i - 1].ts \in Int /\ rows[i].ts \in Int
      /\ rows[i].counter = i /\ Readable(rows[i], active) /\ rows[i] \in Row
  <2>1. i > 1 => i - 1 \in 1 .. Len(rows)
    BY RowFacts DEF IInv
  <2>2. \A k \in 1 .. Len(rows) : rows[k] \in Row /\ rows[k].ts \in Nat
    BY RowFacts, RowTimes DEF IInv
  <2> QED BY <2>1, <2>2 DEF Orderly, Legible, Fine, InOrder
<1>2. InPlace(rows, i)
  <2>1. rows[i].prev = HashBefore(rows, i)
    BY DEF IInv, ChainLinked
  <2> QED BY <1>1, <2>1 DEF InPlace
<1>3. enrolled = active
  BY DEF Keyed, Unharmed, enrolled
<1>4. (NeedsKey(rows[i]) => Opens(rows[i], active)) /\ Rehashes(rows[i])
  BY <1>1 DEF Readable, NeedsKey, Opens
<1> QED BY <1>2, <1>3, <1>4 DEF RowOk

LEMMA InitOrderly == Init => Sealing /\ Orderly
<1> SUFFICES ASSUME Init PROVE Sealing /\ Orderly
  OBVIOUS
<1>1. \A c \in Calls : job[c].pc \notin InAppend /\ ~HoldsCounter(c)
  BY DEF Init, NoJob, InAppend, HoldsCounter
<1>2. NoGap /\ Sealing
  <2>1. Sealing
    BY <1>1 DEF Sealing
  <2>2. ~\E c \in Calls : HoldsCounter(c)
    BY <1>1
  <2>3. counter = Len(rows) + 1
    BY DEF Init
  <2> QED BY <2>1, <2>2, <2>3 DEF NoGap
<1> SUFFICES ASSUME Unharmed PROVE InOrder
  BY <1>1, <1>2 DEF Orderly
<1>3. ~SteppedBefore /\ rows = LegacyRows /\ clock \in Time
  BY DEF Init, Unharmed
<1>4. \A i \in 1 .. Len(rows) : rows[i] \in Row /\ rows[i].ts \in Nat
  BY InitIInv, RowFacts, BoundsAssumption DEF IInv, Row, Time
<1> SUFFICES ASSUME NEW i \in 1 .. Len(rows)
             PROVE  /\ rows[i].counter = i /\ rows[i].ts <= clock
                    /\ i > 1 => rows[i - 1].ts <= rows[i].ts
  BY DEF InOrder
<1>5. ~(rows[i].ts > clock) /\ ~(i > 1 /\ rows[i].ts < rows[i - 1].ts)
  BY <1>3 DEF SteppedBefore
<1>6. i > 1 => i - 1 \in 1 .. Len(rows)
  BY <1>3, LegacyAssumption
<1>7. rows[i].ts \in Nat /\ clock \in Nat /\ (i > 1 => rows[i - 1].ts \in Nat)
  BY <1>3, <1>4, <1>6, BoundsAssumption DEF Time
<1> QED BY <1>3, <1>5, <1>7, LegacyAssumption

LEMMA InitLegible == Init => Legible
<1> SUFFICES ASSUME Init PROVE Legible
  OBVIOUS
<1>1. /\ rows = LegacyRows /\ active = People /\ ~tx.open
      /\ \A e \in Erasures : erase[e].pc = "none"
  BY DEF Init, Closed, NoErasure
<1>2. ASSUME NEW i \in 1 .. Len(rows) PROVE Readable(rows[i], active)
  BY <1>1, LegacyAssumption DEF Readable, Rehashes
<1>3. Owed(rows)
  BY <1>1 DEF Owed
<1> QED BY <1>1, <1>2, <1>3 DEF Legible, Fine

\* A step that leaves the events and the calls as they are.
LEMMA OrderlyRests ==
  ASSUME IInv, Orderly, SameEntries(rows, rows'), UNCHANGED <<counter, job>>,
         clock' \in Time, Unharmed' => Unharmed /\ clock' >= clock
  PROVE  Orderly'
<1> SUFFICES ASSUME Unharmed' PROVE
       InOrder' /\ NoGap' /\ \A c \in Calls : job'[c].pc \in InAppend => UpToDate(c)'
  BY DEF Orderly
<1>1. clock \in Nat /\ clock' \in Nat
  BY BoundsAssumption DEF IInv, TypeOK, Time
<1>2. \A i \in 1 .. Len(rows) : rows[i].ts \in Nat
  BY RowTimes DEF IInv
<1>3. \A c \in Calls : job[c].ts \in Nat
  BY BoundsAssumption DEF IInv, TypeOK, Job, Time
<1>4. Unharmed /\ InOrder /\ NoGap /\ \A c \in Calls : job[c].pc \in InAppend => UpToDate(c)
  BY DEF Orderly
<1>5. /\ Len(rows') = Len(rows) /\ Len(rows) \in Nat
      /\ \A i \in 1 .. Len(rows) : /\ rows'[i].counter = rows[i].counter
                                   /\ rows'[i].ts = rows[i].ts
      /\ \A i \in 1 .. Len(rows) : i > 1 => i - 1 \in 1 .. Len(rows)
  BY RowFacts DEF SameEntries, IInv
<1>6. InOrder'
  BY <1>1, <1>2, <1>4, <1>5 DEF InOrder
<1>7. NoGap'
  BY <1>4, <1>5 DEF NoGap, HoldsCounter
<1>8. \A c \in Calls : job'[c].pc \in InAppend => UpToDate(c)'
  BY <1>1, <1>3, <1>4, <1>5 DEF UpToDate, HoldsCounter
<1> QED BY <1>6, <1>7, <1>8

\* A call that ends without a row: if it held a counter, the counter is lost.
LEMMA OrderlySettles ==
  ASSUME IInv, Orderly, SameEntries(rows, rows'), UNCHANGED clock,
         \A c \in Calls : job'[c].pc \notin InAppend,
         Unharmed' => Unharmed /\ counter' = counter /\ \A c \in Calls : ~HoldsCounter(c)
  PROVE  Orderly'
<1>1. \A c \in Calls : ~HoldsCounter(c)'
  BY DEF HoldsCounter, InAppend
<1> SUFFICES ASSUME Unharmed' PROVE InOrder' /\ NoGap'
  BY DEF Orderly
<1>2. Unharmed /\ InOrder /\ NoGap
  BY DEF Orderly
<1>3. /\ Len(rows') = Len(rows) /\ Len(rows) \in Nat
      /\ \A i \in 1 .. Len(rows) : /\ rows'[i].counter = rows[i].counter
                                   /\ rows'[i].ts = rows[i].ts
      /\ \A i \in 1 .. Len(rows) : i > 1 => i - 1 \in 1 .. Len(rows)
  BY RowFacts DEF SameEntries, IInv
<1>4. InOrder'
  BY <1>2, <1>3 DEF InOrder
<1>5. NoGap'
  BY <1>1, <1>2, <1>3 DEF NoGap
<1> QED BY <1>4, <1>5

\* A call that is made, begins or goes on without a counter taken or given back.
LEMMA OrderlyGoesOn ==
  ASSUME IInv, Orderly, UNCHANGED <<rows, counter, clock, hist>>,
         \A c \in Calls :
           /\ HoldsCounter(c)' <=> HoldsCounter(c)
           /\ HoldsCounter(c) => job'[c].counter = job[c].counter
           /\ job'[c].pc \in InAppend =>
                \/ job[c].pc \in InAppend /\ job'[c].ts = job[c].ts
                \/ job'[c].ts = clock
  PROVE  Orderly'
<1> SUFFICES ASSUME Unharmed' PROVE
       InOrder' /\ NoGap' /\ \A c \in Calls : job'[c].pc \in InAppend => UpToDate(c)'
  BY DEF Orderly
<1>1. /\ Unharmed /\ InOrder /\ NoGap
      /\ \A c \in Calls : job[c].pc \in InAppend => UpToDate(c)
  BY DEF Orderly, Unharmed
<1>2. InOrder'
  BY <1>1 DEF InOrder
<1>3. NoGap'
  BY <1>1 DEF NoGap
<1>4. ASSUME NEW c \in Calls, job'[c].pc \in InAppend
      PROVE  UpToDate(c)'
  <2>1. clock <= clock
    BY BoundsAssumption DEF IInv, TypeOK, Time
  <2>2. job'[c].ts <= clock /\ \A i \in 1 .. Len(rows) : rows[i].ts <= job'[c].ts
    BY <1>1, <1>4, <2>1 DEF UpToDate, InOrder
  <2>3. HoldsCounter(c) => job[c].pc \in InAppend
    BY DEF HoldsCounter, InAppend
  <2>4. HoldsCounter(c)' => job'[c].counter = Len(rows) + 1
    BY <1>1, <2>3 DEF UpToDate
  <2> QED BY <2>2, <2>4 DEF UpToDate
<1> QED BY <1>2, <1>3, <1>4

\* A row is inserted: it has the next counter, and its time is not before the last
\* row's.
LEMMA OrderlyGrows ==
  ASSUME IInv, Orderly, NEW j \in Job, NEW b \in BOOLEAN,
         rows' = Append(rows, NewRow(j, b)), UNCHANGED clock,
         \A c \in Calls : job'[c].pc \notin InAppend,
         Unharmed' => /\ Unharmed
                      /\ j.ts <= clock /\ \A i \in 1 .. Len(rows) : rows[i].ts <= j.ts
                      /\ j.counter = Len(rows) + 1 /\ counter' = Len(rows) + 2
  PROVE  Orderly'
<1>1. \A c \in Calls : ~HoldsCounter(c)'
  BY DEF HoldsCounter, InAppend
<1> SUFFICES ASSUME Unharmed' PROVE InOrder' /\ NoGap'
  BY DEF Orderly
<1>2. InOrder
  BY DEF Orderly
<1> DEFINE n == Len(rows)
           r == NewRow(j, b)
<1>3. r.counter = j.counter /\ r.ts = j.ts
  BY DEF NewRow
<1>4. rows \in Seq(Row) /\ n \in Nat
  BY RowFacts DEF IInv
<1> HIDE DEF r
<1>5. /\ Len(rows') = n + 1
      /\ \A i \in 1 .. n : rows'[i] = rows[i]
      /\ rows'[n + 1] = r
      /\ \A i \in 1 .. n + 1 : i \in 1 .. n \/ i = n + 1
      /\ \A i \in 1 .. n : i > 1 => i - 1 \in 1 .. n
      /\ n + 1 > 1 => n \in 1 .. n
  BY <1>4 DEF r
<1>6. InOrder'
  <2> SUFFICES ASSUME NEW i \in 1 .. Len(rows')
               PROVE  /\ rows'[i].counter = i /\ rows'[i].ts <= clock
                      /\ i > 1 => rows'[i - 1].ts <= rows'[i].ts
    BY DEF InOrder
  <2>1. CASE i \in 1 .. n
    BY <1>2, <1>5, <2>1 DEF InOrder
  <2>2. CASE i = n + 1
    <3>1. i - 1 = n
      BY <1>4, <2>2
    <3>2. r.counter = n + 1 /\ r.ts <= clock /\ \A k \in 1 .. n : rows[k].ts <= r.ts
      BY <1>3
    <3> QED BY <1>5, <2>2, <3>1, <3>2
  <2> QED BY <1>5, <2>1, <2>2
<1>7. NoGap'
  BY <1>1, <1>4, <1>5 DEF NoGap
<1> QED BY <1>6, <1>7

\* The INSERT of a running append succeeds, or rolls back and loses the counter.
LEMMA OrderlyInserts ==
  ASSUME IInv, Orderly, NEW c \in Calls, NEW j \in Job, NEW b \in BOOLEAN,
         job[c].pc \in InAppend, Insert(c, j, b), UNCHANGED clock,
         Unharmed => /\ j.ts <= clock /\ \A i \in 1 .. Len(rows) : rows[i].ts <= j.ts
                     /\ j.counter = Len(rows) + 1 /\ counter' = Len(rows) + 2
  PROVE  Orderly'
<1>1. TypeOK /\ OneAppendAtATime /\ hist \in History /\ Undoable
  BY DEF IInv, TypeOK
<1>2. \A d \in Calls : job'[d].pc \notin InAppend
  BY <1>1, SettleFrees DEF Insert
<1>3. CASE /\ rows' = Append(rows, NewRow(j, b))
           /\ hist' = [hist EXCEPT !.named = hist.named \/ j.person \in People \ active]
  <2>1. Unharmed' => Unharmed
    BY <1>1, <1>3 DEF Unharmed, History
  <2> QED
    BY <1>2, <1>3, <2>1, OrderlyGrows
<1>4. CASE Rollback /\ hist' = [hist EXCEPT !.lost = TRUE, !.torn = hist.torn \/ Tears]
  <2>1. ~Unharmed'
    BY <1>1, <1>4 DEF Unharmed, History
  <2> QED
    BY <1>1, <1>2, <1>4, <2>1, RolledBack, OrderlySettles
<1> QED
  BY <1>3, <1>4 DEF Insert

LEMMA TakesInOrder ==
  ASSUME IInv, Sealing, Orderly, NEW c \in Calls, TakeCounter(c)
  PROVE  Sealing' /\ Orderly'
<1> DEFINE j == [job[c] EXCEPT !.pc = "unwrap", !.counter = counter,
                               !.prev = fetchPreviousHash]
<1>1. /\ TypeOK /\ job \in [Calls -> Job] /\ job[c] \in Job /\ job[c].pc = "uptime"
      /\ job[c].pc \in InAppend /\ counter \in Nat /\ counter' = counter + 1
      /\ Len(rows) \in Nat /\ UNCHANGED clock /\ OneAppendAtATime /\ active \in SUBSET People
  BY RowFacts DEF IInv, TypeOK, TakeCounter, getNext, InAppend
<1>2. /\ j \in Job /\ j.counter = counter /\ j.ts = job[c].ts
      /\ j.person = job[c].person /\ j.pc = "unwrap"
  BY <1>1, PreviousHashType DEF Job, InAppend
<1>3. \A d \in Calls : job[d].pc \in InAppend => d = c
  BY <1>1 DEF OneAppendAtATime
<1>4. \A d \in Calls : ~HoldsCounter(d)
  BY <1>1, <1>3 DEF HoldsCounter, InAppend
<1>5. Unharmed => /\ counter = Len(rows) + 1 /\ j.ts <= clock
                  /\ \A i \in 1 .. Len(rows) : rows[i].ts <= j.ts
  BY <1>1, <1>2, <1>4 DEF Orderly, NoGap, UpToDate
<1> HIDE DEF j
<1>6. CASE Insert(c, j, FALSE)
  <2>1. Unharmed => j.counter = Len(rows) + 1 /\ counter' = Len(rows) + 2
    BY <1>1, <1>2, <1>5
  <2>2. FALSE \in BOOLEAN
    OBVIOUS
  <2>3. Orderly'
    BY <1>1, <1>2, <1>5, <1>6, <2>1, <2>2, OrderlyInserts
  <2>4. \A d \in Calls : job'[d].pc \notin InAppend
    BY <1>1, <1>6, SettleFrees DEF Insert
  <2> QED BY <2>3, <2>4 DEF Sealing, HoldsCounter, InAppend
<1>7. CASE Settle(c) /\ hist' = [hist EXCEPT !.lost = TRUE] /\ UNCHANGED rows
  <2>1. \A d \in Calls : job'[d].pc \notin InAppend
    BY <1>1, <1>7, SettleFrees
  <2>2. ~Unharmed'
    BY <1>1, <1>7 DEF TypeOK, History, Unharmed
  <2>3. Orderly'
    BY <1>1, <1>7, <2>1, <2>2, SameAsItself, OrderlySettles
  <2> QED BY <2>1, <2>3 DEF Sealing, HoldsCounter, InAppend
<1>8. CASE /\ job[c].person \in active
           /\ job' = [job EXCEPT ![c] = j] /\ UNCHANGED <<rows, queue, hist>>
  <2>1. job'[c] = j /\ \A d \in Calls \ {c} : job'[d] = job[d]
    BY <1>1, <1>8
  <2>2. /\ HoldsCounter(c)' /\ \A d \in Calls : HoldsCounter(d)' => d = c
        /\ \A d \in Calls : job'[d].pc \in InAppend => d = c
    BY <1>2, <1>3, <1>4, <2>1 DEF HoldsCounter
  <2>3. Sealing'
    BY <1>1, <1>2, <1>8, <2>1, <2>2 DEF Sealing
  <2> SUFFICES ASSUME Unharmed' PROVE
         InOrder' /\ NoGap' /\ \A d \in Calls : job'[d].pc \in InAppend => UpToDate(d)'
    BY <2>3 DEF Orderly
  <2>4. Unharmed /\ InOrder
    BY <1>8 DEF Orderly, Unharmed
  <2>5. InOrder'
    BY <1>1, <1>8, <2>4 DEF InOrder
  <2>6. NoGap'
    BY <1>1, <1>5, <1>8, <2>2, <2>4 DEF NoGap
  <2>7. UpToDate(c)'
    BY <1>1, <1>2, <1>5, <1>8, <2>1, <2>4 DEF UpToDate
  <2> QED BY <2>2, <2>5, <2>6, <2>7
<1> QED
  BY <1>2, <1>6, <1>7, <1>8 DEF TakeCounter, j

LEMMA InsertsInOrder ==
  ASSUME IInv, Sealing, Orderly, NEW c \in Calls, InsertRow(c)
  PROVE  Sealing' /\ Orderly'
<1>1. /\ TypeOK /\ job[c] \in Job /\ job[c].pc = "seal"
      /\ job[c].pc \in InAppend /\ HoldsCounter(c) /\ OneAppendAtATime
  BY DEF IInv, TypeOK, InsertRow, InAppend, HoldsCounter
<1>2. Insert(c, job[c], TRUE) /\ UNCHANGED <<clock, counter>> /\ TRUE \in BOOLEAN
  BY DEF InsertRow
<1>3. Unharmed => /\ job[c].ts <= clock /\ \A i \in 1 .. Len(rows) : rows[i].ts <= job[c].ts
                  /\ job[c].counter = Len(rows) + 1 /\ counter' = Len(rows) + 2
  BY <1>1, <1>2 DEF Orderly, UpToDate, NoGap
<1>4. Orderly'
  BY <1>1, <1>2, <1>3, OrderlyInserts
<1>5. \A d \in Calls : job'[d].pc \notin InAppend
  BY <1>1, <1>2, SettleFrees DEF Insert
<1> QED BY <1>4, <1>5 DEF Sealing, HoldsCounter, InAppend

\* What is undone, purged or backfilled is the same events.
LEMMA OthersInOrder ==
  ASSUME IInv, Orderly, [Next]_vars, UNCHANGED <<clock, counter, job>>,
         \/ Rollback
         \/ rows' = rows
         \/ \E p : rows' = Purged(p)
         \/ \E i : rows' = Backfilled(i)
  PROVE  Orderly'
<1>1. TypeOK /\ Undoable /\ clock \in Time /\ clock >= clock
  BY BoundsAssumption DEF IInv, TypeOK, Time
<1>2. SameEntries(rows, rows')
  BY <1>1, SameAsItself, RolledBack, PurgedRows, BackfilledRows
<1>3. Unharmed' => Unharmed
  BY FlagsStay DEF Unharmed
<1> QED BY <1>1, <1>2, <1>3, OrderlyRests

LEMMA NextOrderly ==
  ASSUME IInv, Sealing, Orderly, [Next]_vars
  PROVE  Sealing' /\ Orderly'
<1>1. /\ TypeOK /\ hist \in History /\ job \in [Calls -> Job] /\ clock \in Time
      /\ OneAppendAtATime /\ Undoable
  BY DEF IInv, TypeOK
<1>2. ASSUME NEW c \in Calls, NEW s \in Subject, RecordEvent(c, s)
      PROVE  Sealing' /\ Orderly'
  <2>1. job[c].pc = "none" /\ job'[c].pc = "queued" /\ \A d \in Calls \ {c} : job'[d] = job[d]
    BY <1>1, <1>2 DEF RecordEvent, NoJob
  <2>2. UNCHANGED <<rows, counter, clock, hist>>
    BY <1>2 DEF RecordEvent
  <2> QED BY <2>1, <2>2, OrderlyGoesOn DEF HoldsCounter, InAppend, Sealing
<1>3. ASSUME NEW c \in Calls, StartEvent(c)
      PROVE  Sealing' /\ Orderly'
  <2>1. /\ job[c].pc = "queued" /\ job'[c].pc = "uptime" /\ job'[c].ts = clock
        /\ \A d \in Calls \ {c} : job'[d] = job[d]
    BY <1>1, <1>3 DEF StartEvent, Job
  <2>2. UNCHANGED <<rows, counter, clock, hist>>
    BY <1>3 DEF StartEvent
  <2> QED BY <2>1, <2>2, OrderlyGoesOn DEF HoldsCounter, InAppend, Sealing
<1>4. ASSUME NEW c \in Calls, Unwrap(c)
      PROVE  Sealing' /\ Orderly'
  <2>1. /\ job[c].pc = "unwrap" /\ job'[c].pc = "seal" /\ job'[c].ts = job[c].ts
        /\ job'[c].counter = job[c].counter /\ job'[c].person = job[c].person
        /\ \A d \in Calls \ {c} : job'[d] = job[d]
    BY <1>1, <1>4 DEF Unwrap, Job
  <2>2. UNCHANGED <<rows, counter, clock, hist>>
    BY <1>4 DEF Unwrap
  <2> QED BY <2>1, <2>2, OrderlyGoesOn DEF HoldsCounter, InAppend, Sealing
<1>5. ASSUME NEW c \in Calls, AppendFails(c)
      PROVE  Sealing' /\ Orderly'
  <2>1. /\ job[c].pc \in InAppend /\ Settle(c) /\ UNCHANGED <<rows, clock, counter>>
        /\ hist' = [hist EXCEPT !.lost = hist.lost \/ HoldsCounter(c)]
    BY <1>5 DEF AppendFails
  <2>2. \A d \in Calls : job'[d].pc \notin InAppend
    BY <1>1, <2>1, SettleFrees
  <2>3. Unharmed' => Unharmed /\ ~HoldsCounter(c)
    BY <1>1, <2>1 DEF Unharmed, History
  <2>4. \A d \in Calls : HoldsCounter(d) => d = c
    BY <1>1, <2>1 DEF OneAppendAtATime, HoldsCounter, InAppend
  <2>5. Orderly'
    BY <2>1, <2>2, <2>3, <2>4, SameAsItself, OrderlySettles
  <2> QED BY <2>2, <2>5 DEF Sealing, HoldsCounter, InAppend
<1>6. CASE Kill
  <2> DEFINE held == \E c \in Calls : HoldsCounter(c)
  <2>1. /\ UNCHANGED <<clock, counter>> /\ Rollback
        /\ hist' = [hist EXCEPT !.lost = hist.lost \/ held, !.torn = hist.torn \/ Tears]
        /\ job' = [c \in Calls |-> NoJob]
    BY <1>6 DEF Kill
  <2>2. \A d \in Calls : job'[d].pc \notin InAppend
    BY <2>1 DEF NoJob, InAppend
  <2>3. Unharmed' => Unharmed /\ ~held
    <3> HIDE DEF held
    <3> QED BY <1>1, <2>1 DEF Unharmed, History
  <2>4. SameEntries(rows, rows')
    BY <1>1, <2>1, RolledBack
  <2>5. Orderly'
    BY <2>1, <2>2, <2>3, <2>4, OrderlySettles
  <2> QED BY <2>2, <2>5 DEF Sealing, HoldsCounter, InAppend
<1>7. CASE Tick \/ SetClockBack
  <2>1. UNCHANGED <<rows, counter, job>>
    BY <1>7 DEF Tick, SetClockBack
  <2>2. clock' \in Time /\ (Unharmed' => Unharmed /\ clock' >= clock)
    <3>1. clock \in 0 .. MaxTime /\ MaxTime \in Nat
      BY <1>1, BoundsAssumption DEF Time
    <3>2. CASE Tick
      BY <3>1, <3>2 DEF Tick, Time, Unharmed
    <3>3. CASE SetClockBack
      <4>1. ~Unharmed'
        BY <1>1, <3>3 DEF SetClockBack, Unharmed, History
      <4>2. clock' \in Time
        BY <3>1, <3>3 DEF SetClockBack, Time
      <4> QED BY <4>1, <4>2
    <3> QED BY <1>7, <3>2, <3>3
  <2> QED BY <2>1, <2>2, SameAsItself, OrderlyRests DEF Sealing, HoldsCounter
<1>8. CASE \/ StartAudit \/ AuditRow \/ AuditRowThrows \/ AuditPasses \/ AuditReturns
           \/ OtherBegins \/ OtherCommits \/ OtherRollsBack \/ UNCHANGED vars
  <2>1. UNCHANGED <<clock, counter, job>> /\ (Rollback \/ rows' = rows)
    BY <1>8 DEF StartAudit, AuditRow, AuditRowThrows, AuditPasses, AuditReturns, OtherBegins,
       OtherCommits, OtherRollsBack, vars
  <2> QED BY <2>1, OthersInOrder DEF Sealing, HoldsCounter
<1>9. ASSUME NEW e \in Erasures, EraseStep(e) \/ \E p \in People : BeginErase(e, p)
      PROVE  Sealing' /\ Orderly'
  <2>1. /\ UNCHANGED <<clock, counter, job>>
        /\ \/ Rollback \/ rows' = rows
           \/ \E p : rows' = Purged(p)
           \/ \E i : rows' = Backfilled(i)
    BY <1>9 DEF EraseStep, BeginErase, UnwrapForBackfill, BackfillRow, PurgeRows, DestroyKey,
       EraseCommits, EraseFails
  <2> QED BY <2>1, OthersInOrder DEF Sealing, HoldsCounter
<1> QED
  BY <1>2, <1>3, <1>4, <1>5, <1>6, <1>7, <1>8, <1>9, TakesInOrder, InsertsInOrder
     DEF Next, AppendStep

-----------------------------------------------------------------------------
(* Names, keys and payload hashes.                                         *)

\* A purge of somebody whose rows all have their payload hash.
LEMMA PurgedFine ==
  ASSUME IInv, NEW e \in Erasures, erase[e].pc = "backfill", erase[e].todo = {},
         Fine(rows, active), rows' = Purged(erase[e].person),
         active' \in {active, active \ {erase[e].person}},
         \A d \in Erasures : \/ erase'[d] = erase[d]
                             \/ erase'[d].pc \notin {"unwrap", "backfill"}
  PROVE  Fine(rows, active)'
<1> DEFINE p == erase[e].person
<1>1. /\ Len(rows') = Len(rows)
      /\ \A i \in 1 .. Len(rows) :
           /\ rows[i].person # p => rows'[i] = rows[i]
           /\ rows[i].person = p => rows'[i].person = Nobody /\ rows'[i].hashed = rows[i].hashed
           /\ rows'[i].counter = rows[i].counter /\ rows'[i].ts = rows[i].ts
           /\ rows'[i].prev = rows[i].prev /\ rows'[i].hash = rows[i].hash
           /\ rows'[i].sealed = rows[i].sealed
  <2>1. TypeOK /\ rows' = Purged(p)
    BY DEF IInv
  <2>2. /\ SameEntries(rows, rows') /\ Len(rows') = Len(rows)
        /\ \A i \in 1 .. Len(rows) :
             /\ rows[i].person # p => rows'[i] = rows[i]
             /\ rows[i].person = p => rows'[i].person = Nobody /\ rows'[i].hashed = rows[i].hashed
    <3> HIDE DEF p
    <3> QED BY <2>1, PurgedRows
  <2> QED BY <2>2 DEF SameEntries
<1>2. \A i \in 1 .. Len(rows) : rows[i].person = p => rows[i].hashed
  BY DEF Fine, Owed
<1>3. ASSUME NEW i \in 1 .. Len(rows)
      PROVE  Readable(rows'[i], active')
  <2>1. Readable(rows[i], active)
    BY DEF Fine
  <2>2. CASE rows[i].person = p
    BY <1>1, <1>2, <2>1, <2>2 DEF Readable, Rehashes
  <2>3. CASE rows[i].person # p
    BY <1>1, <2>1, <2>3 DEF Readable
  <2> QED BY <2>2, <2>3
<1>4. Owed(rows)'
  <2> SUFFICES ASSUME NEW d \in Erasures, erase'[d].pc \in {"unwrap", "backfill"},
                      NEW i \in 1 .. Len(rows), rows'[i].person = erase'[d].person,
                      ~rows'[i].hashed
               PROVE  i \in erase'[d].todo
    BY <1>1 DEF Owed
  <2>1. erase'[d] = erase[d] /\ rows[i].person # p /\ rows'[i] = rows[i]
    BY <1>1, <1>2
  <2> QED BY <2>1 DEF Fine, Owed
<1> QED BY <1>1, <1>3, <1>4 DEF Fine

\* A new row has its payload hash, and is about nobody or somebody active.
LEMMA GrownFine ==
  ASSUME IInv, Sealing, Fine(rows, active), NEW j \in Job, NEW b \in BOOLEAN, Grown(j, b),
         ~hist'.named
  PROVE  Fine(rows, active)'
<1> DEFINE n == Len(rows)
           r == NewRow(j, b)
<1>1. /\ r.person = j.person /\ r.sealed = b /\ r.hashed = TRUE /\ r.prev = j.prev
      /\ r.ts = j.ts /\ r.counter = j.counter
      /\ r.hash = Digest(j.prev, "sha", j.ts, j.counter)
  BY DEF NewRow
<1>2. /\ rows \in Seq(Row) /\ n \in Nat /\ rows' = Append(rows, r)
      /\ UNCHANGED <<active, erase>> /\ (b => j.person \in active)
  BY RowFacts DEF IInv, Grown
<1> HIDE DEF r
<1>3. /\ Len(rows') = n + 1
      /\ \A i \in 1 .. n : rows'[i] = rows[i]
      /\ rows'[n + 1] = r
      /\ \A i \in 1 .. n + 1 : i \in 1 .. n \/ i = n + 1
  BY <1>2
<1>4. Readable(r, active)
  BY <1>1, <1>2 DEF Readable, Rehashes
<1>5. \A i \in 1 .. Len(rows') : Readable(rows'[i], active')
  BY <1>2, <1>3, <1>4 DEF Fine
<1>6. Owed(rows)'
  BY <1>1, <1>2, <1>3 DEF Fine, Owed
<1> QED BY <1>5, <1>6 DEF Fine

LEMMA ErasesLegibly ==
  ASSUME IInv, Legible, [Next]_vars, NEW e \in Erasures, Erases(e)
  PROVE  Legible'
<1>1. Unharmed' => Unharmed
  BY FlagsStay DEF Unharmed
<1> SUFFICES ASSUME Unharmed'
             PROVE  Fine(rows, active)' /\ (tx'.open => Fine(tx.rows, tx.active)')
  BY DEF Legible
<1>2. Fine(rows, active) /\ (tx.open => Fine(tx.rows, tx.active))
  BY <1>1 DEF Legible
<1>3. \A d \in Erasures \ {e} : erase'[d] = erase[d]
  BY ErasureMoves
<1>4. ASSUME NEW p \in People, BeginErase(e, p)
      PROVE  Fine(rows, active)' /\ Fine(tx.rows, tx.active)'
  <2> DEFINE old == {i \in 1 .. Len(rows) : /\ rows[i].person = p
                                            /\ rows[i].sealed /\ ~rows[i].hashed}
  <2>1. /\ erase'[e].person = p /\ UNCHANGED <<rows, active>>
        /\ tx' = [open |-> TRUE, by |-> {e}, rows |-> rows, active |-> active]
    BY <1>4, ErasureMoves
  <2>2. erase'[e].todo = old
    BY <1>4 DEF BeginErase, IInv, TypeOK
  <2>3. \A i \in 1 .. Len(rows) : ~rows[i].hashed => rows[i].sealed
    BY <1>2 DEF Fine, Readable
  <2>4. Owed(rows)'
    <3> SUFFICES ASSUME NEW d \in Erasures, erase'[d].pc \in {"unwrap", "backfill"},
                        NEW i \in 1 .. Len(rows), rows[i].person = erase'[d].person,
                        ~rows[i].hashed
                 PROVE  i \in erase'[d].todo
      BY <2>1 DEF Owed
    <3>1. CASE d = e
      BY <2>1, <2>2, <2>3, <3>1
    <3>2. CASE d # e
      BY <1>2, <1>3, <3>2 DEF Fine, Owed
    <3> QED BY <3>1, <3>2
  <2>5. Fine(rows, active)'
    BY <1>2, <2>1, <2>4 DEF Fine
  <2>6. tx'.rows = rows' /\ tx'.active = active'
    BY <2>1
  <2> QED BY <2>5, <2>6 DEF Fine, Owed
<1>5. CASE UnwrapForBackfill(e) \/ DestroyKey(e)
  <2>1. /\ UNCHANGED <<rows, active, tx>>
        /\ \A d \in Erasures : erase'[d].pc \in {"unwrap", "backfill"} =>
             /\ erase[d].pc \in {"unwrap", "backfill"}
             /\ erase'[d].person = erase[d].person /\ erase'[d].todo = erase[d].todo
    BY <1>3, <1>5, ErasureMoves
  <2>2. \A rs : Owed(rs) => Owed(rs)'
    BY <2>1 DEF Owed
  <2> QED BY <1>2, <2>1, <2>2 DEF Fine, Owed
<1>6. CASE \E i \in erase[e].todo : BackfillRow(e, i)
  <2>1. hist'.backfilled
    BY <1>6, ErasureMoves
  <2> QED BY <2>1 DEF Unharmed
<1>7. CASE PurgeRows(e)
  <2>1. /\ erase[e].pc = "backfill" /\ erase[e].todo = {} /\ erase'[e].pc = "purged"
        /\ rows' = Purged(erase[e].person) /\ active' = active \ {erase[e].person}
        /\ tx' = tx
    BY <1>7, ErasureMoves
  <2>2. Fine(rows, active)'
    BY <1>2, <1>3, <2>1, PurgedFine
  <2>3. \A d \in Erasures : erase'[d].pc \in {"unwrap", "backfill"} => erase'[d] = erase[d]
    BY <1>3, <2>1
  <2>4. tx'.open => Fine(tx.rows, tx.active)'
    BY <1>2, <2>1, <2>3 DEF Fine, Owed
  <2> QED BY <2>2, <2>4
<1>8. CASE EraseCommits(e)
  <2>1. /\ erase'[e].pc = "none" /\ ~tx'.open /\ UNCHANGED <<rows, active>>
    BY <1>8, ErasureMoves DEF NoErasure, Closed
  <2>2. \A d \in Erasures : erase'[d].pc \in {"unwrap", "backfill"} => erase'[d] = erase[d]
    BY <1>3, <2>1
  <2> QED BY <1>2, <2>1, <2>2 DEF Fine, Owed
<1> QED
  BY <1>4, <1>5, <1>6, <1>7, <1>8 DEF Erases

LEMMA NextLegible ==
  ASSUME IInv, Sealing, Legible, [Next]_vars
  PROVE  Legible'
<1>1. Unharmed' => Unharmed
  BY FlagsStay DEF Unharmed
<1>2. CASE Kept
  BY <1>1, <1>2 DEF Kept, Legible, Fine, Owed
<1>3. CASE Undone
  <2>1. \A e \in Erasures : erase'[e].pc \in {"unwrap", "backfill"} => erase'[e] = erase[e]
    BY <1>3 DEF Undone, NoErasure
  <2>2. /\ tx.open => rows' = tx.rows /\ active' = tx.active
        /\ ~tx.open => UNCHANGED <<rows, active>>
        /\ ~tx'.open
    BY <1>3, TransactionFacts
  <2> QED BY <1>1, <2>1, <2>2 DEF Legible, Fine, Owed
<1>4. CASE OtherBegins \/ OtherCommits
  <2>1. /\ UNCHANGED <<rows, active, erase>>
        /\ tx'.open => tx'.rows = rows /\ tx'.active = active
    BY <1>4, TransactionFacts
  <2> QED BY <1>1, <2>1 DEF Legible, Fine, Owed
<1>5. ASSUME NEW j \in Job, NEW b \in BOOLEAN, Grown(j, b)
      PROVE  Legible'
  <2>1. ~tx'.open
    BY <1>5 DEF Grown
  <2> QED BY <1>1, <1>5, <2>1, GrownFine DEF Legible, Unharmed
<1>6. ASSUME NEW e \in Erasures, LeftPurged(e)
      PROVE  Legible'
  <2>1. /\ ~tx'.open /\ active' = active /\ rows' = Purged(erase[e].person)
        /\ erase[e].pc = "backfill" /\ erase[e].todo = {}
        /\ \A d \in Erasures : erase'[d] = erase[d] \/ erase'[d].pc \notin {"unwrap", "backfill"}
    BY <1>6 DEF LeftPurged, NoErasure, IInv, TypeOK
  <2> QED BY <1>1, <2>1, PurgedFine DEF Legible
<1> QED
  BY <1>2, <1>3, <1>4, <1>5, <1>6, ErasesLegibly, StoreStep

\* However long appends, failures, kills, erasures, rollbacks and clock changes go
\* on, verifyChain finds fault with an untampered ledger only after one of five
\* things: a counter was spent without a row, the clock was set back, an append
\* outlived its person's erasure, rows of the older build were backfilled, or an
\* erasure that destroyed the key lost its transaction
\* (LedgerService.ts:271-497, EventCounter.ts:20-26, ErasureService.ts:193-271).
THEOREM FaultsAreKnown == Spec => []BrokenOnlyByKnownHazard
<1> DEFINE Intact == Sealing /\ Orderly /\ Legible
<1>1. Init => Intact
  BY InitOrderly, InitLegible
<1>2. IInv /\ Intact /\ [Next]_vars => Intact'
  BY NextOrderly, NextLegible
<1>3. IInv /\ Names /\ Intact => BrokenOnlyByKnownHazard
  BY IntactVerifies DEF Names, BrokenOnlyByKnownHazard, Unharmed
<1> HIDE DEF Intact
<1> QED
  BY <1>1, <1>2, <1>3, Invariance, NamesInvariant, PTL DEF Spec
=============================================================================
