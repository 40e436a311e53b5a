------------------------------- MODULE Ledger -------------------------------
(***************************************************************************)
(* The offline attendance ledger: LedgerService (recordEvent, verifyChain),*)
(* EventCounter, and what an erasure does to ledger rows.                  *)
(*                                                                         *)
(* recordEvent calls are chained on one promise, so one append runs at a   *)
(* time, but each append awaits native calls, and steps of erasures, clock *)
(* changes, audits and a process kill can come between any two of its      *)
(* steps.  An erasure awaits the Keystore inside a transaction, on the     *)
(* connection that the appends and everybody else use.  An action is the   *)
(* code between two awaits.  SHA-256 is taken as collision free: a hash is *)
(* the sequence of the links it was computed over.                         *)
(***************************************************************************)
EXTENDS Integers, Sequences

CONSTANTS
  People,         \* personnel identifiers
  Calls,          \* recordEvent calls that can be outstanding together
  Erasures,       \* calls of ErasureService.execute that can be in flight
  LegacyRows,     \* the rows an older build left in the table, oldest first
  MaxCounter,     \* bound: no event is requested once the counter is here
  MaxTime,        \* bound: last value of the wall clock
  Nobody          \* the NULL of the personnel_id column

ASSUME BoundsAssumption ==
  /\ MaxCounter \in Nat
  /\ MaxTime \in Nat
  /\ Nobody \notin People

VARIABLES
  clock,      \* Date.now(), which the user or the network may set back
  counter,    \* the persisted m3_event_counter: the next value to hand out
  rows,       \* attendance_ledger, in event_counter order, and
  active,     \* the people with an active personnel row: both as the
              \* connection sees them
  tx,         \* the transaction: is one open, which erasure began it (none:
              \* another writer did), and what a ROLLBACK brings back
  keys,       \* people with a face_embed_key_ alias in the Keystore
  erase,      \* where each erasure stands
  queue,      \* recordEventQueue: the outstanding calls, the running one first
  job,        \* where each recordEvent call stands
  audit,      \* the verifyChain call in progress
  hist        \* history only: what has happened so far that may break a chain

vars == <<clock, counter, rows, active, tx, keys, erase, queue, job, audit, hist>>

-----------------------------------------------------------------------------
(* Rows, links and hashes.                                                 *)

Time == 0 .. MaxTime

\* What one hash adds to the chain.  form tells whether the hash was taken
\* over the payload's digest ("sha") or over its canonical JSON ("json", the
\* rows of builds before the payload_hash column).  The counter stands for
\* the payload: no two events share one.
Link == [form : {"sha", "json"}, ts : Time, counter : Nat]

GENESIS_HASH == <<>>

Digest(prev, form, ts, ctr) ==
  Append(prev, [form |-> form, ts |-> ts, counter |-> ctr])

\* Collision free: nothing but x has this digest.
SHA256(x) == <<"sha256", x>>

\* The hashed identifier an ERASURE event is filed under.
Pseudonym(p) == SHA256(p)

Subject == People \cup {Pseudonym(p) : p \in People}

Row == [counter : Nat, ts : Time, prev : Seq(Link), hash : Seq(Link),
        person : Subject \cup {Nobody},
        sealed : BOOLEAN,      \* encrypted_payload is not NULL
        hashed : BOOLEAN]      \* payload_hash is not NULL

HashBefore(rs, i) == IF i = 1 THEN GENESIS_HASH ELSE rs[i - 1].hash

\* The rows of an older build: one chain, hashed over the JSON payloads, with
\* payload_hash NULL (migration 005 copies no other value).
ASSUME LegacyAssumption ==
  /\ LegacyRows \in Seq(Row)
  /\ \A i \in 1 .. Len(LegacyRows) :
       /\ LegacyRows[i].counter = i
       /\ LegacyRows[i].prev = HashBefore(LegacyRows, i)
       /\ LegacyRows[i].hash = Digest(LegacyRows[i].prev, "json",
                                     LegacyRows[i].ts, i)
       /\ LegacyRows[i].person \in People
       /\ LegacyRows[i].sealed /\ ~LegacyRows[i].hashed

fetchPreviousHash == HashBefore(rows, Len(rows) + 1)

-----------------------------------------------------------------------------
(* verifyChain, as a function of the rows it read.                         *)

\* The payload of row r can be decrypted while the DEKs of ps can be had.
Opens(r, ps) == r.sealed /\ r.person \in ps

\* The checks on counter, time and predecessor that need no key.
InPlace(rs, i) ==
  /\ rs[i].counter = i
  /\ i > 1 => rs[i].ts >= rs[i - 1].ts
  /\ rs[i].prev = HashBefore(rs, i)

NeedsKey(r) == IF r.hashed THEN r.person # Nobody /\ r.sealed ELSE TRUE

Rehashes(r) ==
  r.hash = Digest(r.prev, IF r.hashed THEN "sha" ELSE "json", r.ts, r.counter)

RowOk(rs, i, ps) ==
  /\ InPlace(rs, i)
  /\ NeedsKey(rs[i]) => Opens(rs[i], ps)
  /\ Rehashes(rs[i])

Verifies(rs, ps) == \A i \in 1 .. Len(rs) : RowOk(rs, i, ps)

-----------------------------------------------------------------------------
NoJob == [pc |-> "none", person |-> Nobody, ts |-> 0, counter |-> 0,
          prev |-> GENESIS_HASH]

NoAudit == [pc |-> "none", snap |-> <<>>, at |-> 1, deks |-> {},
            sound |-> TRUE, raced |-> FALSE, threw |-> FALSE]

NoErasure == [pc |-> "none", person |-> Nobody, todo |-> {}]

Closed == [open |-> FALSE, by |-> {}, rows |-> <<>>, active |-> {}]

\* The people whose DEK can be had: the row holds it wrapped by the key.
enrolled == active \cap keys

\* The wall clock was set back while the rows of the older build came in, or since.
SteppedBefore ==
  \E i \in 1 .. Len(LegacyRows) :
    LegacyRows[i].ts > clock \/ (i > 1 /\ LegacyRows[i].ts < LegacyRows[i - 1].ts)

Init ==
  /\ clock \in Time
  /\ counter = Len(LegacyRows) + 1
  /\ rows = LegacyRows
  /\ active = People
  /\ tx = Closed
  /\ keys = People
  /\ erase = [e \in Erasures |-> NoErasure]
  /\ queue = <<>>
  /\ job = [c \in Calls |-> NoJob]
  /\ audit = NoAudit
  /\ hist = [lost |-> FALSE, named |-> FALSE, stepped |-> SteppedBefore,
             backfilled |-> FALSE, torn |-> FALSE]

-----------------------------------------------------------------------------
(* The connection.                                                         *)

\* ROLLBACK, which ends whatever transaction is open, or throws.
Rollback ==
  /\ rows' = IF tx.open THEN tx.rows ELSE rows
  /\ active' = IF tx.open THEN tx.active ELSE active
  /\ tx' = Closed

\* A ROLLBACK now undoes the purge of an erasure that has destroyed the key.
Tears == \E e \in tx.by : erase[e].pc = "destroyed"

\* Whose DEK can be had has changed under the audit in progress.
NotesRace ==
  audit' = [audit EXCEPT !.raced = @ \/ (audit.pc = "read" /\ enrolled' # enrolled)]

-----------------------------------------------------------------------------
(* recordEvent.                                                            *)

InAppend == {"uptime", "unwrap", "seal"}    \* the running call's await points

HoldsCounter(c) == job[c].pc \in {"unwrap", "seal"}

\* A call joins the promise chain.  A verification may name somebody who has
\* been erased since the match; an erasure that got past the key's destruction
\* is filed under a pseudonym.
RecordEvent(c, s) ==
  /\ job[c].pc = "none"
  /\ counter + Len(queue) <= MaxCounter
  /\ s \in People \/ \E p \in People \ keys : s = Pseudonym(p)
  /\ job' = [job EXCEPT ![c] = [NoJob EXCEPT !.pc = "queued", !.person = s]]
  /\ queue' = Append(queue, c)
  /\ UNCHANGED <<clock, counter, rows, active, tx, keys, erase, audit, hist>>

\* Mutant: the promise chain is not awaited; a call starts when it is made.
StartEventAtOnce(c) ==
  /\ job[c].pc = "queued"
  /\ job' = [job EXCEPT ![c].pc = "uptime", ![c].ts = clock]
  /\ UNCHANGED <<clock, counter, rows, active, tx, keys, erase, queue, audit, hist>>

\* The chain reaches the call: it reads the clock and asks for the uptime.
StartEvent(c) ==
  /\ queue # <<>> /\ c = Head(queue)
  /\ job[c].pc = "queued"
  /\ job' = [job EXCEPT ![c].pc = "uptime", ![c].ts = clock]
  /\ UNCHANGED <<clock, counter, rows, active, tx, keys, erase, queue, audit, hist>>

\* Mutant: a call that rejects leaves the chain rejected, and nothing follows.
SettleBlocks(c) ==
  /\ job' = [job EXCEPT ![c] = NoJob]
  /\ queue' = IF job[c].pc = "seal" THEN Tail(queue) ELSE queue

\* The call resolves or rejects; either way the chain moves to the next one.
Settle(c) ==
  /\ job' = [job EXCEPT ![c] = NoJob]
  /\ queue' = Tail(queue)

NewRow(j, sealed) ==
  [counter |-> j.counter, ts |-> j.ts, prev |-> j.prev,
   hash |-> Digest(j.prev, "sha", j.ts, j.counter),
   person |-> j.person, sealed |-> sealed, hashed |-> TRUE]

\* idx_attendance_ledger_event_counter is UNIQUE.
CounterFree(ctr) == \A i \in 1 .. Len(rows) : rows[i].counter # ctr

\* insertLedgerRows: BEGIN IMMEDIATE, the row and its anchor, COMMIT.  When a
\* transaction is open BEGIN throws, the catch rolls that transaction back, and
\* the call rejects with its counter spent.
Insert(c, j, sealed) ==
  /\ Settle(c)
  /\ \/ /\ ~tx.open
        /\ CounterFree(j.counter)
        /\ rows' = Append(rows, NewRow(j, sealed))
        /\ hist' = [hist EXCEPT !.named = @ \/ j.person \in People \ active]
        /\ UNCHANGED <<active, tx, audit>>
     \/ /\ tx.open
        /\ Rollback
        /\ hist' = [hist EXCEPT !.lost = TRUE, !.torn = @ \/ Tears]
        /\ NotesRace

\* EventCounter.getNext: the persisted counter is read and stored in one stretch.
getNext == counter' = counter + 1

\* EventCounter.getNext and fetchPreviousHash, then what follows before the
\* next await: an ERASURE event has no payload to encrypt and is inserted at
\* once (or the insert fails); otherwise the wrapped DEK is looked up, and a
\* person who is no longer active fails the call with its counter spent.
TakeCounter(c) ==
  LET j == [job[c] EXCEPT !.pc = "unwrap", !.counter = counter,
                          !.prev = fetchPreviousHash] IN
  /\ job[c].pc = "uptime"
  /\ getNext
  /\ UNCHANGED <<clock, keys, erase>>
  /\ \/ /\ j.person \notin People
        /\ Insert(c, j, FALSE)
     \/ /\ j.person \notin active
        /\ Settle(c)
        /\ hist' = [hist EXCEPT !.lost = TRUE]
        /\ UNCHANGED <<rows, active, tx, audit>>
     \/ /\ j.person \in active
        /\ job' = [job EXCEPT ![c] = j]
        /\ UNCHANGED <<rows, active, tx, queue, audit, hist>>

\* The native unwrap finds the person's key and encryption starts.
Unwrap(c) ==
  /\ job[c].pc = "unwrap"
  /\ job[c].person \in keys
  /\ job' = [job EXCEPT ![c].pc = "seal"]
  /\ UNCHANGED <<clock, counter, rows, active, tx, keys, erase, queue, audit, hist>>

\* The payload is encrypted.
InsertRow(c) ==
  /\ job[c].pc = "seal"
  /\ UNCHANGED <<clock, counter, keys, erase>>
  /\ Insert(c, job[c], TRUE)

\* The uptime call, the unwrap, the encryption or the insert throws.
AppendFails(c) ==
  /\ job[c].pc \in InAppend
  /\ Settle(c)
  /\ hist' = [hist EXCEPT !.lost = @ \/ HoldsCounter(c)]
  /\ UNCHANGED <<clock, counter, rows, active, tx, keys, erase, audit>>

-----------------------------------------------------------------------------
(* execute, of ErasureService, as far as the ledger is concerned.           *)

\* Mutant: the name is replaced by a hash, taken after it was set to NULL.
AnonymisedTwice(r, p) ==
  IF r.person = p THEN [r EXCEPT !.person = Pseudonym(Nobody)] ELSE r

\* Mutant: the rows keep the name and lose only the consent.
AnonymisedNot(r, p) == r

Anonymised(r, p) == IF r.person = p THEN [r EXCEPT !.person = Nobody] ELSE r

Backfilled(i) == [rows EXCEPT ![i].hashed = TRUE]

Purged(p) == [i \in 1 .. Len(rows) |-> Anonymised(rows[i], p)]

InErase == {"unwrap", "backfill", "purged", "destroyed"}

\* The person is looked up, BEGIN TRANSACTION executed, and the rows without a
\* payload_hash selected.  While a transaction is open BEGIN throws and the call
\* rejects with no effect, which is no step here.
BeginErase(e, p) ==
  LET old == {i \in 1 .. Len(rows) : /\ rows[i].person = p
                                     /\ rows[i].sealed /\ ~rows[i].hashed} IN
  /\ erase[e].pc = "none"
  /\ p \in active
  /\ ~tx.open
  /\ tx' = [open |-> TRUE, by |-> {e}, rows |-> rows, active |-> active]
  /\ erase' = [erase EXCEPT ![e] =
       [pc |-> IF old = {} THEN "backfill" ELSE "unwrap", person |-> p, todo |-> old]]
  /\ UNCHANGED <<clock, counter, rows, active, keys, queue, job, audit, hist>>

\* unwrapDEK for the backfill.
UnwrapForBackfill(e) ==
  /\ erase[e].pc = "unwrap"
  /\ erase[e].person \in keys
  /\ erase' = [erase EXCEPT ![e].pc = "backfill"]
  /\ UNCHANGED <<clock, counter, rows, active, tx, keys, queue, job, audit, hist>>

\* One payload is decrypted, and the digest of its JSON becomes payload_hash.
\* Like the purge below, the UPDATE joins whatever transaction is open by now.
BackfillRow(e, i) ==
  /\ erase[e].pc = "backfill"
  /\ i \in erase[e].todo
  /\ rows' = Backfilled(i)
  /\ erase' = [erase EXCEPT ![e].todo = @ \ {i}]
  /\ hist' = [hist EXCEPT !.backfilled = TRUE]
  /\ UNCHANGED <<clock, counter, active, tx, keys, queue, job, audit>>

\* The soft purge, up to the call of destroyPersonKey.
PurgeRows(e) ==
  /\ erase[e].pc = "backfill" /\ erase[e].todo = {}
  /\ rows' = Purged(erase[e].person)
  /\ active' = active \ {erase[e].person}
  /\ erase' = [erase EXCEPT ![e].pc = "purged"]
  /\ UNCHANGED <<clock, counter, tx, keys, queue, job, hist>>
  /\ NotesRace

\* Mutant: the key is destroyed before the rows are purged.
DestroyKeyFirst(e) ==
  /\ erase[e].pc = "backfill"
  /\ erase[e].person \in keys
  /\ keys' = keys \ {erase[e].person}
  /\ UNCHANGED <<rows, active, tx, erase, clock, counter, queue, job, hist>>
  /\ NotesRace

\* The hard purge: the Keystore deletes the alias.
DestroyKey(e) ==
  /\ erase[e].pc = "purged"
  /\ erase[e].person \in keys
  /\ keys' = keys \ {erase[e].person}
  /\ erase' = [erase EXCEPT ![e].pc = "destroyed"]
  /\ hist' = [hist EXCEPT !.torn = @ \/ e \notin tx.by]
  /\ UNCHANGED <<clock, counter, rows, active, tx, queue, job>>
  /\ NotesRace

\* COMMIT, of whatever transaction is open.
EraseCommits(e) ==
  /\ erase[e].pc = "destroyed"
  /\ tx.open
  /\ tx' = Closed
  /\ erase' = [erase EXCEPT ![e] = NoErasure]
  /\ UNCHANGED <<clock, counter, rows, active, keys, queue, job, audit, hist>>

\* The unwrap, a decryption, a statement, the destruction of the key or the
\* COMMIT throws, and the catch executes ROLLBACK.  If the transaction is gone by
\* then, the anonymised rows may stay without the DELETE that threw.
EraseFails(e) ==
  /\ erase[e].pc \in InErase
  /\ \/ Rollback
     \/ /\ erase[e].pc = "backfill" /\ erase[e].todo = {} /\ ~tx.open
        /\ rows' = Purged(erase[e].person)
        /\ UNCHANGED <<active, tx>>
  /\ erase' = [erase EXCEPT ![e] = NoErasure]
  /\ hist' = [hist EXCEPT !.torn = @ \/ Tears]
  /\ UNCHANGED <<clock, counter, keys, queue, job>>
  /\ NotesRace

-----------------------------------------------------------------------------
(* The other writers of the connection: an enrollment holds a transaction  *)
(* open across awaits, and whoever's BEGIN throws rolls back (how their own *)
(* rows fare is the subject of SharedConnection).                           *)

OtherBegins ==
  /\ ~tx.open
  /\ tx' = [open |-> TRUE, by |-> {}, rows |-> rows, active |-> active]
  /\ UNCHANGED <<clock, counter, rows, active, keys, erase, queue, job, audit, hist>>

OtherCommits ==
  /\ tx.open
  /\ tx' = Closed
  /\ UNCHANGED <<clock, counter, rows, active, keys, erase, queue, job, audit, hist>>

OtherRollsBack ==
  /\ tx.open
  /\ Rollback
  /\ hist' = [hist EXCEPT !.torn = @ \/ Tears]
  /\ UNCHANGED <<clock, counter, keys, erase, queue, job>>
  /\ NotesRace

-----------------------------------------------------------------------------
(* verifyChain: one query, then row by row with awaits to decrypt.  Keys are *)
(* never made again here, so looking a row's DEK up and unwrapping it later  *)
(* gives what doing both at one of the two moments would give.               *)

StartAudit ==
  /\ audit.pc = "none"
  /\ audit' = [NoAudit EXCEPT !.pc = "read", !.snap = rows,
                              !.sound = Verifies(rows, enrolled)]
  /\ UNCHANGED <<clock, counter, rows, active, tx, keys, erase, queue, job, hist>>

\* Mutant: a row whose payload cannot be decrypted is passed over.
AuditRowLenient ==
  LET r == audit.snap[audit.at]
      good == InPlace(audit.snap, audit.at) /\ Rehashes(r) IN
  /\ audit.pc = "read" /\ audit.at <= Len(audit.snap)
  /\ audit' = IF good THEN [audit EXCEPT !.at = @ + 1]
                      ELSE [audit EXCEPT !.pc = "broken"]
  /\ UNCHANGED <<clock, counter, rows, active, tx, keys, erase, queue, job, hist>>

\* One turn of the loop.  A DEK fetched for an earlier row is in dekCache.
AuditRow ==
  LET r == audit.snap[audit.at]
      opens == Opens(r, enrolled \cup audit.deks)
      good == /\ InPlace(audit.snap, audit.at)
              /\ NeedsKey(r) => opens
              /\ Rehashes(r) IN
  /\ audit.pc = "read" /\ audit.at <= Len(audit.snap)
  /\ audit' = IF good
              THEN [audit EXCEPT !.at = @ + 1,
                                 !.deks = IF NeedsKey(r) THEN @ \cup {r.person}
                                                         ELSE @]
              ELSE [audit EXCEPT !.pc = "broken"]
  /\ UNCHANGED <<clock, counter, rows, active, tx, keys, erase, queue, job, hist>>

\* Mutant: a row that cannot be decrypted just now is left for another time.
AuditRowSkips ==
  LET r == audit.snap[audit.at] IN
  /\ audit.pc = "read" /\ audit.at <= Len(audit.snap)
  /\ InPlace(audit.snap, audit.at)
  /\ NeedsKey(r) /\ r.sealed /\ r.person # Nobody
  /\ audit' = [audit EXCEPT !.at = @ + 1, !.threw = TRUE]
  /\ UNCHANGED <<clock, counter, rows, active, tx, keys, erase, queue, job, hist>>

\* The look-up, the unwrap or the decryption throws, whoever is enrolled: the
\* catch takes that for a broken row.
AuditRowThrows ==
  LET r == audit.snap[audit.at] IN
  /\ audit.pc = "read" /\ audit.at <= Len(audit.snap)
  /\ InPlace(audit.snap, audit.at)
  /\ NeedsKey(r) /\ r.sealed /\ r.person # Nobody
  /\ audit' = [audit EXCEPT !.pc = "broken", !.threw = TRUE]
  /\ UNCHANGED <<clock, counter, rows, active, tx, keys, erase, queue, job, hist>>

AuditPasses ==
  /\ audit.pc = "read" /\ audit.at > Len(audit.snap)
  /\ audit' = [audit EXCEPT !.pc = "ok"]
  /\ UNCHANGED <<clock, counter, rows, active, tx, keys, erase, queue, job, hist>>

AuditReturns ==
  /\ audit.pc \in {"ok", "broken"}
  /\ audit' = NoAudit
  /\ UNCHANGED <<clock, counter, rows, active, tx, keys, erase, queue, job, hist>>

-----------------------------------------------------------------------------
(* The environment: time, and the process being killed.                    *)

Tick ==
  /\ clock < MaxTime
  /\ clock' = clock + 1
  /\ UNCHANGED <<counter, rows, active, tx, keys, erase, queue, job, audit, hist>>

SetClockBack ==
  /\ \E t \in 0 .. clock - 1 : clock' = t
  /\ hist' = [hist EXCEPT !.stepped = TRUE]
  /\ UNCHANGED <<counter, rows, active, tx, keys, erase, queue, job, audit>>

\* Committed rows, the counter and the Keystore survive; calls and the audit do
\* not, and SQLite recovers from an open transaction as ROLLBACK would.
Kill ==
  /\ job' = [c \in Calls |-> NoJob]
  /\ queue' = <<>>
  /\ audit' = NoAudit
  /\ erase' = [e \in Erasures |-> NoErasure]
  /\ Rollback
  /\ hist' = [hist EXCEPT !.lost = @ \/ \E c \in Calls : HoldsCounter(c),
                          !.torn = @ \/ Tears]
  /\ UNCHANGED <<clock, counter, keys>>

-----------------------------------------------------------------------------
AppendStep(c) == StartEvent(c) \/ TakeCounter(c) \/ Unwrap(c)
                   \/ InsertRow(c) \/ AppendFails(c)

EraseStep(e) ==
  \/ UnwrapForBackfill(e)
  \/ \E i \in erase[e].todo : BackfillRow(e, i)
  \/ PurgeRows(e) \/ DestroyKey(e) \/ EraseCommits(e) \/ EraseFails(e)

Next ==
  \/ \E c \in Calls : \/ \E s \in Subject : RecordEvent(c, s)
                      \/ AppendStep(c)
  \/ \E e \in Erasures : \/ \E p \in People : BeginErase(e, p)
                         \/ EraseStep(e)
  \/ OtherBegins \/ OtherCommits \/ OtherRollsBack
  \/ StartAudit \/ AuditRow \/ AuditRowThrows \/ AuditPasses \/ AuditReturns
  \/ Tick \/ SetClockBack \/ Kill

Spec == Init /\ [][Next]_vars

\* A native call settles and a settled promise's continuation runs; nothing
\* obliges anybody to record, erase or audit.
FairSpec == Spec /\ \A c \in Calls : WF_vars(AppendStep(c))

-----------------------------------------------------------------------------
(* Properties.                                                             *)

Job == [pc : {"none", "queued"} \cup InAppend, person : Subject \cup {Nobody},
        ts : Time, counter : Nat, prev : Seq(Link)]

Audit == [pc : {"none", "read", "ok", "broken"}, snap : Seq(Row), at : Nat,
          deks : SUBSET (Subject \cup {Nobody}), sound : BOOLEAN, raced : BOOLEAN,
          threw : BOOLEAN]

Erasing == [pc : {"none"} \cup InErase, person : People \cup {Nobody},
            todo : SUBSET Nat]

Transaction == [open : BOOLEAN, by : SUBSET Erasures, rows : Seq(Row),
                active : SUBSET People]

History == [lost : BOOLEAN, named : BOOLEAN, stepped : BOOLEAN,
            backfilled : BOOLEAN, torn : BOOLEAN]

\* Every variable has its type.
TypeOK ==
  /\ clock \in Time
  /\ counter \in Nat
  /\ rows \in Seq(Row)
  /\ active \in SUBSET People
  /\ tx \in Transaction
  /\ keys \in SUBSET People
  /\ erase \in [Erasures -> Erasing]
  /\ queue \in Seq(Calls)
  /\ job \in [Calls -> Job]
  /\ audit \in Audit
  /\ hist \in History

\* The rows are one hash chain in strictly increasing counter order, whatever
\* appends fail, whoever is erased and whenever the process is killed: the
\* promise chain in recordEvent keeps fetchPreviousHash and the INSERT of one
\* call together although encryption is awaited between them.
ChainLinked ==
  \A i \in 1 .. Len(rows) :
    /\ rows[i].prev = HashBefore(rows, i)
    /\ rows[i].counter < counter
    /\ i > 1 => rows[i - 1].counter < rows[i].counter

\* At most one append is past its start, and what it read when it took its
\* counter is still true when it inserts: its predecessor is the last row and
\* no row has reached its counter.
OneAppendAtATime ==
  /\ \A c \in Calls : job[c].pc \in InAppend
                        => queue # <<>> /\ c = Head(queue)
  /\ \A c \in Calls : HoldsCounter(c) =>
       /\ job[c].prev = fetchPreviousHash
       /\ job[c].counter < counter
       /\ \A i \in 1 .. Len(rows) : rows[i].counter < job[c].counter

\* verifyChain finds fault with an untampered ledger only after one of five
\* things: a spent counter with no row, a wall clock set back, an append that
\* finished after its person's erasure, the backfill of somebody's rows from
\* before the payload_hash column, or an erasure whose transaction did not last
\* from BEGIN to its own COMMIT although it destroyed the key.
BrokenOnlyByKnownHazard ==
  Verifies(rows, enrolled)
    \/ hist.lost \/ hist.stepped \/ hist.named \/ hist.backfilled \/ hist.torn

\* The ledger names only people who are still enrolled.  A row can outlive its
\* person in two ways only: an append that had already unwrapped the person's key
\* was still in flight, which leaves a name without a personnel row; or the
\* purge was undone although the key is gone, which leaves name and personnel row
\* for good, since the key cannot be destroyed a second time.
ErasedUnnamed ==
  \A i \in 1 .. Len(rows) :
    rows[i].person \in People =>
      /\ rows[i].person \in active \/ hist.named
      /\ rows[i].person \in keys \/ hist.named \/ hist.torn

\* The row-by-row audit, its key cache included, gives the answer the checks
\* give on the rows it read; only a native call that throws, or an erasure's step
\* during the audit, can make it reject rows that were sound.
AuditIsExact ==
  /\ audit.pc = "ok" => audit.sound
  /\ audit.pc = "broken" => ~audit.sound \/ audit.raced \/ audit.threw

\* The ledger implements an append-only log of chained entries.
Entries == [i \in 1 .. Len(rows) |-> [counter |-> rows[i].counter,
                                     prev |-> rows[i].prev,
                                     hash |-> rows[i].hash]]

Log == INSTANCE AppendOnlyLog WITH Hash <- Seq(Link), log <- Entries

\* Entries are only added at the end, chained and with a larger counter; no
\* erasure, failure or kill changes or removes one.
AppendOnly == Log!Spec

\* A recordEvent call always settles: a rejected append does not block the
\* calls queued behind it.
CallsSettle == \A c \in Calls : job[c].pc = "queued" ~> job[c].pc = "none"

\* What the documentation says of erasure and the chain: payload hashes are
\* backfilled "so the tamper-evident chain can remain verifiable".  A ledger
\* that verified when an erasure began verifies when it has committed.
ErasureKeepsChainVerifiable ==
  [][\A e \in Erasures :
       EraseCommits(e) /\ e \in tx.by
         => \/ ~Verifies(tx.rows, tx.active \cap (keys \cup {erase[e].person}))
            \/ Verifies(rows', enrolled')]_vars
=============================================================================
