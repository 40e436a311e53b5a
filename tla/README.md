# A TLA+ model of nayan

nayan authenticates faces offline: a phone's camera frames go through a liveness
challenge and an embedding network, and what happens is kept on the device in an
encrypted SQLite database and two small key-value stores until a network is
there. This directory models the parts in which calls, frames, transactions and
failures meet, checks them with TLC on small instances and proves with TLAPS,
for every instance, what they never do.

Paths below are relative to the repository.

## 1. The system

| Component | State | Operations | Meets |
|---|---|---|---|
| Attendance ledger (`src/storage/LedgerService.ts`, `EventCounter.ts`) | table `attendance_ledger`, the MMKV counter, the promise `recordEventQueue` | `recordEvent`, `verifyChain` | erasure (anonymises rows), keys, the connection, sync (verifies first) |
| Enrollment (`EnrollmentService.ts`) | `personnel`, `lsh_index`, `consent_log`, a Keystore alias per person | `enroll` | the connection, the Keystore |
| Erasure (`ErasureService.ts`, `services/deviceKey.ts`, `uploadDeletionReceipt.ts`) | the same tables, two persisted arrays | `requestErasure`, `queueOfflineErasure`, `drainOfflineQueue`, `drainPendingReceipts` | the connection, the Keystore, the ledger, a server |
| Candidate search (`LSHIndex.ts`, `VerificationService.ts`) | none of its own | `indexEmbedding`, `query`, `decryptEmbedding` | reads while transactions are open; the Keystore, one await per candidate and step |
| Sync queue (`sync/queue/*`, `sync/aws/SyncWorker.ts`, `sync/purge/PurgeManager.ts`) | table `sync_queue` | `addItem`, `readNext`, `updateStatus`, `incrementAttempts`, `processQueue`, `purgeCompletedItems` | the connection, the ledger, and `uploadStub`, which sends nothing (`S3Uploader.ts:55-83`) |
| Database (`DatabaseManager.ts`, `KeyDerivation.ts`, `migrations/*`) | the one connection, the passphrase, `schema_migrations` | open, close, migrate | everything above |
| WAL checkpoints (`WALCheckpointScheduler.ts`) | one timer | start, stop, checkpoint | app state |
| Liveness state machine (`cpp/landmarks/LivenessFSM.cpp`) | class members | `Update`, `StartChallenge`, `Reset`, `ForcePass` | the frame pipeline, under `fsmMutex_` |
| Frame pipeline (`cpp/frame-processor/*`, `cpp/inference/EmbeddingAverager.cpp`) | mailbox, three pooled buffers, `livenessState_`, the session's embedding | submit, inference loop, results, reset | camera thread, inference thread, JS thread |
| Android camera side (`NativeBridge.java`, `TFLiteFrameProcessorRunner.java`) | copy buffer, one-slot mailbox, interpreters | frame, initialise, install JSI | frame pipeline |
| Inference, CLAHE, anti-spoofing, centroid | windows of samples | numeric | frame pipeline |
| Lambda (`deploy/aws/lambda`) | S3 | ingest a batch, presign an upload | devices, which are external: the application calls neither |
| Crypto helpers, iOS bridge, UI, device identity, scripts, tests | | | |

All JavaScript runs on one thread: code between two `await`s is atomic, and
everything hard there comes from what happens at an `await`. All services share
one op-sqlite connection (`DatabaseManager.ts:173`), so a transaction that is
open across an `await` is everybody's transaction. The native side has real
threads and mutexes.

What is hard, component by component, is the list `hazards` of PROJECT.json; in
short:

* **Interleaving at awaits**: two appends and the previous hash; an append and
  an erasure; enrollments, erasures and synchronous writers in one transaction;
  a search and whoever erases or enrolls its candidates meanwhile; two sync
  workers; two drains.
* **Several stores that commit separately**: MMKV counter and table, Keystore
  and table, table and upload, array and server. Failures and kills between.
* **Read, await, overwrite**: both drains.
* **Retries** of what was already done: uploads, receipts, erasures.
* **Time** that is not a timer: the liveness state machine sees time only when a
  frame or a call comes.
* **Threads and atomics** on the native side: a pool whose release is not under
  the mutex of its acquire, a buffer two threads share without a lock, atomics
  that are stored after the mutex that protects what they mirror.
* **Starts that overlap**: opening the database takes four awaits, and a mount
  may be gone, and another one there, before it ends.

## 2. The modules

| Module | Models | Proofs |
|---|---|---|
| `Ledger`, abstract `AppendOnlyLog` | ledger, counter, audit, and an erasure step by step in its transaction | `LedgerProofs` |
| `SharedConnection` | enrollment, erasure, keys, and every other writer on the one connection | `SharedConnectionProofs` |
| `CandidateSearch`, extends `SharedConnection` | a search over its awaits, beside all of these | `SharedConnectionProofs` |
| `Embeddings`, `BufferUtils` | pure: bucket keys and sealing of an embedding, which `CandidateSearch` uses; base64 and hexadecimal | used by `SharedConnectionProofs` |
| `SyncQueue` | queue, workers, retries, purge | `SyncQueueProofs` |
| `ErasureQueue` | the two arrays and the drains | `ErasureQueueProofs` |
| `LivenessFSM`, abstract `LivenessGate` | the state machine; what it promises the pipeline | `LivenessFSMProofs` |
| `FramePool` | pool, mailbox, inference loop, destructor (iOS) | `FramePoolProofs` |
| `AndroidBridge` | copy buffer, one-place mailbox, executor, interpreters (Android) | `FramePoolProofs`, in `FramePaths` |
| `FramePaths` | composes the two: a build has one or the other | `FramePoolProofs` |
| `EmbeddingSession` | results, sessions and resets on both platforms; uses `LivenessGate` | `EmbeddingSessionProofs` |
| `DatabaseOpen` | passphrase, file, migrations, App effects, smoke test, WAL checkpoints | `DatabaseOpenProofs` |

`MC*.tla` give each its instance for TLC. An operator
whose comment begins with "Mutant:" is an altered version of the definition below
it; no specification uses it. It serves to see that a property notices such a
bug.

In every JavaScript module an action is the code between two awaits; a call is a
small program counter. A process kill sets every call back to none, rolls an
open transaction back and keeps what is persistent. "Fails" branches are the
`catch` blocks: any native call, statement, network call or COMMIT may throw.
Variables marked *history only* record what happened for the properties and are
never read by a guard.

### Ledger
`rows` is the table in `event_counter` order and `active` the people with an
active personnel row, both as the connection sees them; `tx` is the open
transaction with what a ROLLBACK brings back, `keys` the Keystore aliases,
`counter` the persisted MMKV counter, `queue` the promise chain, `job` each
`recordEvent` call, `erase` each erasure, `audit` the row-by-row `verifyChain`;
`enrolled` are those who are active and have a key. An append checks the person
and takes hash and counter, awaits the key and the encryption, and inserts; each
stage can fail, and the counter is spent at once (`LedgerService.ts:289`). Its
INSERT is in a transaction of its own: if one is open its BEGIN throws, and its
ROLLBACK ends the other's (`LedgerService.ts:272-279`).

An erasure begins its transaction (`BeginErase`), unwraps the key and backfills
the rows that need it (`UnwrapForBackfill`, `BackfillRow`), anonymises and
deletes (`PurgeRows`), awaits the Keystore (`DestroyKey`) and commits whatever
transaction is open by then (`EraseCommits`). Every step may throw
(`EraseFails`), an append or another writer may roll the transaction back in
between (`OtherBegins`, `OtherCommits` and `OtherRollsBack` stand for
enrollments), and the process may be killed. Once the key is destroyed and the
transaction is gone the rows name somebody whose key is no more: `torn`, the
fifth of the causes after which `verifyChain` may fail, next to `lost` (a
counter without a row), `stepped` (a clock set back), `named` (an append that
outlived its person's erasure) and `backfilled`. A second erasure of that person
cannot destroy the key again and rolls back. Nobody is enrolled again in this
module.

An audit reads all rows once and then awaits a key and a decryption per row.
`AuditRowThrows` are its `catch` branches (`LedgerService.ts:441-443`,
`:466-468`): unwrapping or decrypting may throw although the person is enrolled,
and the answer is "broken" on sound rows; `AuditIsExact` names that (`threw`).

SHA-256 is collision free: a hash is the sequence of
links it was taken over. `LegacyRows` are rows of a build before the
`payload_hash` column (migration 005 leaves NULL there); their times and the
clock at the start are arbitrary, and if they do not agree the clock has been
set back before (`SteppedBefore`).

### SharedConnection
`db` is what the connection sees, `tx` the open transaction with the tables a
ROLLBACK restores, `keys` the Keystore aliases, `task` the enroll and erase
calls, `opener` (history) whose BEGIN it was. A second BEGIN throws, and its
`catch` rolls back *the transaction that is open*, whoever opened it; a COMMIT
commits whatever is open; a statement with no open transaction commits by
itself. Synchronous writers (ledger insert, `readNext`, `addItem`, updates) are
single steps. Foreign keys are enforced at COMMIT where the code defers them.
`StoresAgree` has three parts: the tables agree with one another (`TablesAgree`),
whoever is committed has a key (`KeyForEveryPerson`), and a key has somebody
committed or an enrollment in progress (`PersonForEveryKey`).

### CandidateSearch
`query` (`LSHIndex.ts:193-266`) with `decryptEmbedding`
(`VerificationService.ts:7-83`), beside every step of `SharedConnection`. A call
awaits the bucket keys; then it selects its candidates from `lsh_index` and
reads all their rows at once (`Select`, with `Promise.all`), or, without a hit,
reads everybody active one after the other (`GoOn`); each DEK is unwrapped
(`Unwrap`) and each embedding decrypted (`Open`) in steps of their own, in any
order, and whatever throws rejects the whole search. `search` keeps who is at
which stage. A DEK that was wrapped under an alias destroyed since does not
unwrap, not even when a key is generated under that alias again (`replaced`).
One search stands for any number: it changes nothing another could see.

`RejectsForACause`: a search rejects only if a native call threw or an
enrollment or erasure *of one of its own candidates* was at a step that takes a
row or key away, or shows an index row without its person, while it ran
(`past.raced`); an erasure that goes by between its awaits is such a cause, and
somebody else's erasure is none. Exceptions, all of the connection's history:
`stolen`, a transaction ended by a call that had not opened it, and `shredded`,
a key destroyed by an erasure that did not commit. `AnswersAreWhole`: a search
that answers has the enrolled embedding of each candidate, and leaves out nobody
who shares a bucket and was enrolled all the while.

### Embeddings, BufferUtils
Pure definitions. `Embeddings` has the projection (`LSHProjection.cpp`): the key
of a band is the set of its planes that have the embedding on their positive
side, which is what the bits of the code's number say. Vectors are sequences of
integers, in hundredths; an instance has few planes and dimensions. AES-GCM and
the hardware key are perfect: sealed data open under the same identifier and
key, and a call that throws returns `Rejected`. `BufferUtils` has the base64 and
hexadecimal conversions with their rejections. `MCSharedConnection` checks them
over 4681 byte sequences of up to four bytes at the edges of 6 and 8 bits: each
decoding undoes its encoding, base64 regroups the bits as it is defined to
(`Sextet`), and damaged text is rejected.

### SyncQueue
`row` is the table, `worker` the calls of `processQueue`. The worker's upload is
`uploadStub` (`SyncWorker.ts:70`, `S3Uploader.ts:55-83`), which makes no network
call: nothing is sent. `uploaded` counts how often it returned for an item, and
what the properties say of DONE items is about the worker's bookkeeping, not about
any server. The stub never throws, but the worker's `catch` is written for an
upload that may, so a failing upload is admitted. `uploadToS3`, which would send
the item, has no caller. Claim and first upload are one step, since nothing is awaited that
another actor could use between them; the backoff sleep separates the attempts.
`readNext` picks *any* PENDING row: `created_at` is a wall clock that may be set
back. Whether the chain verifies is a choice. Nothing in `src/` calls
`processQueue` or `requestErasure` today; they are the library's interface.

### ErasureQueue
Requests, the arrays `erasures` and `receipts`, and calls that run one request
after another: purge (one step here, taken apart in SharedConnection), sign,
upload, record. `got` counts arrivals at the server, 2 standing for more than
once. An upload can arrive and its answer be lost.

### LivenessFSM
`fsm` is the class's members, `now` the clock of the last frame or call, `hist`
what an observer of the frames has seen. Each metric of a frame is a sign
relative to its baseline: unusable, at rest, the gesture, or (eyes) recovered.
`Update` is split along its early returns; each alternative is one action.
`LivenessGate` forgets times and metrics and keeps which state may follow which
on a frame with or without a face and on a call; `LivenessFSM` implements it
under `gate <- fsm.state` (property `ImplementsGate`).

### FramePool, AndroidBridge, FramePaths
`FramePool` has one step per atomic access: `camera` and `inference` are the
program counters of `SubmitFrameCopy` and `InferenceLoop` with the slot in their
hands, `frames` the slots' reference counts and what has been written in them.
`Release` is two steps: the count goes to zero, then the metadata are reset. In
between `Acquire` may hand the slot out, and the reset hits the next owner; such
slots are noted in `wiped` (history) and are the one exception of `WholeFrames`.
`wait_for` is four steps, since a notification between its predicate and its
sleep is lost.

`AndroidBridge` numbers the frames. `pixels` says of which frames there are
pixels in a buffer: two at once while a copy is going on. The executor reads the
buffer again and again (texture, detector, mesh, embedding) with no lock against
the camera thread, so `landmarks` and `embedding` of one result may be of different frames;
what holds, and is checked, is that none of them is older than the frame whose
time stamp the result bears. `initializeEngine` closes and re-creates the
interpreters in four steps under a lock the executor does not take; a runner
that finds a field null, or whose interpreter was closed under it, ends with an
exception and the frame is dropped. `INFERENCE_EXECUTOR` is one thread, its
queue a number.

`FramePaths` runs either of them, by `platform`.

### EmbeddingSession
From the state machine's answer to `latestResult_`. `fsm` is the gate,
`livenessState` the atomic copy of it, `written` is
`embeddingWrittenThisSession_`, `embedding` and `result` the sets of sessions
whose samples went into `latestEmbedding_` and `latestResult_`, `window` the
averager's samples. One thread processes frames; the native-modules and the
JavaScript thread press buttons: on iOS with `gPipelineMutex` held, on Android
without. A button's call reaches the native module first and the JSI function
after it, so a session begins twice. A session here is what lies between two
clearing calls. Named exceptions: `overlapped`, sessions with a frame in work
when they ended (its embedding is written afterwards, and it sets
`embeddingWrittenThisSession_` for the session that has begun), and `averaged`,
sessions with samples still in the window, which no reset clears, when a later
one pushed its own.

### DatabaseOpen
An action is the code between two awaits. `passphrase` and `file` persist;
`currentDb`, `currentOpenResult` and `lshLoaded` are the module variables of
`DatabaseManager.ts`; `call` is a mount's `startStorage` or the smoke test.
`openDatabaseWithState` has no await, so it is one action, which ends in one of
four ways: it throws before the connection exists (`OpenThrows`), in its pragmas
(`PragmasThrow`, the only way with a passphrase that does not fit), in a
migration with those before it committed (`MigrationThrows`), or it returns. A
checkpoint reads the row that `PRAGMA wal_checkpoint` answers through
`parseWALCheckpointResult`; `owed` is what the row says, `retryTimer` what the
code made of it. The
Keystore's envelope is randomised: two derivations give two passphrases.
Exceptions named by history variables: `raced`, two derivations at once (mount
and smoke test, or two mounts), after which MMKV may hold the one the file was
not created with; `crowded`, mounts that came while an earlier one was still
starting, whose cancelled start then closes *their* database; `abandoned`, a
start that failed after its mount was gone and left the connection open. The
documents call the passphrase stable (`src/docs/security/crypto-audit.md:89`);
it is, but for `raced`.

## 3. The runs

| Run | Instance | Shows |
|---|---|---|
| `ledger` | 1 person, 2 calls, 1 erasure, 1 legacy row, 3 counters, clock 0..1, until two causes have come together | the rows stay one chain; `verifyChain` breaks only for one of five named causes; no row names an erased person but for an append in flight or a purge undone after the key was destroyed; the audit is exact up to native calls that throw; calls settle; implements `AppendOnlyLog` |
| `ledger_legacy` (violated) | 1 person, 1 call | erasing somebody with legacy rows makes a verifying chain fail, though it is documented to remain verifiable |
| `connection` | 2 people, 2 calls, 1 item, 1 row | every transaction has an opener who ends it; what was reported is committed; tables and keys agree; an enrolled person is there, each up to named causes |
| `candidate_search` | 2 people, 2 calls, 2 bands, 4 live embeddings, until a transaction is ended by another call or a key is left behind | a search rejects only for a native failure or a race over one of its own candidates; what it answers is whole, each up to named causes |
| `connection_erased` (violated) | | an erasure reports success while the person's rows are committed |
| `sync_queue` | 2 items, 2 workers, 2 attempts, 1 foreign transaction | claims are exclusive, stay and count no more attempts than allowed; only items whose upload returned are DONE or purged; double uploads and losses have named causes; workers end |
| `erasure_queue` | 1 person enrolled twice, 2 requests, 2 calls, 1 kill | requests and receipts are kept until done unless a drain overwrites them; nothing is done twice without a retry; receipts are uploaded in the end |
| `liveness` | thresholds 1, 2, 4, 2, 1; nine ticks | a pass is forced or earned by the gesture, before the challenge timed out, on one face; a challenge outlives its timeout by one dropout at most; implements `LivenessGate` |
| `frames` | 1 camera thread, 3 buffers, 6 frames; on Android 4 frames, 2 starts | every buffer has one owner and none leaks; frames are read whole but for a late reset; results hold no earlier frame's pixels; no frame is stranded; a posted frame leaves the mailbox |
| `session` | 2 buttons pressed, both platforms | only faces of sessions that passed are embedded; nothing of a session is read in a later one, each up to named causes |
| `database` | 2 mounts, the smoke test, 1 kill, 1 frame in the log | the passphrase fits the file; the database is open exactly while a started mount is there; a checkpoint owed is retried, each up to named causes |
| `database_anchors` (violated) | | migration 5 deletes the anchors of the events an older build recorded |

A violated run states what a document or comment of the repository says and
shows that the code does otherwise; `findings` in PROJECT.json quotes both.

**Bounds.** Two of each actor are enough for every race here: the code never
waits for a third, and each hazard needs one victim and one intruder. In the
ledger these are an append or an audit on one side and the erasure of the one
person on the other; that a second person's rows change nothing is left to the
proofs, which hold for any number of people. Three counters allow a gap
between two rows with a legacy row before them. `ledger` follows a behaviour
until a second of the five causes joins the first (`OneCause`): each exception a
property makes needs one of them only, and of what comes after a second the proofs
speak, which have no such bound; liveness is checked within it.
`candidate_search` follows a behaviour until another call's transaction was
ended or a key was left behind (`Bounded`): the first is an exception of both its
properties, the second only makes that person's next enrollment fail. Its four
live embeddings are in a bucket of both people (two of them), of one, of nobody.
Two attempts have a first, a retried and a last one. Nine ticks let a challenge
time out, its failure be held and another one start. Two enrolments of one person
separate a request from the person it was made about. Upload counters saturate
at the value the properties ask about. One foreign transaction in `SyncQueue` is
one rollback, which is what its causes speak of. Six frames go twice round the
three slots of the pool; four frames on Android are one being worked on, one
pending, one being copied and one that replaces it, and a second start comes
while they are. Two pressed buttons are four calls, up to four sessions. Two
mounts are what an overtaken start needs; with three mounts `database` has 16.2
million states, four minutes, and holds as well.

**Deadlock** is checked except in the erasure and frame runs: requests are
finite, and a pipeline whose destructor has joined its thread has stopped.

**Fairness** is only that of the event loop and of threads: a native call, timer
or promise settles and its continuation runs (`WF` of each call's steps in
`Ledger`, `SyncQueue`, `ErasureQueue`), and a thread that can run does (`WF` of
the inference thread and of each camera thread inside `SubmitFrameCopy`, in
`FramePaths`). Nothing obliges anybody to record, erase, purge, start a worker
or deliver a frame. `ErasureQueue` assumes two more things, both about the
world: the application comes to the foreground again and again
(`App.tsx:347-396` drains then), and uploading a given receipt does not fail
forever (`SF` of the drain's start and of its sending). Without either nothing
could be promised. Kills and failures remain possible throughout.

**More divergences**, seen while modelling and without a run of their own:

* A worker killed during a backoff sleep leaves its row PROCESSING: readers
  select PENDING only and nothing resets it at start, though
  `src/src/sync/purge/PurgeManager.ts:12` calls such rows in flight.
* FAILED items are never claimed again (`OfflineQueueReader.ts:101` selects
  PENDING rows only), though `src/src/sync/purge/PurgeManager.ts:11` says that
  `SyncWorker` will retry them; the integration report
  (`src/tests/INTEGRATION_TEST_REPORT.md:84`) tests that it does not.
* An item is DONE, and then purged, when `uploadStub` has returned: it has not
  left the device, though `src/src/sync/purge/PurgeManager.ts:8` says DONE items
  are removed after a successful S3 upload.
* `drainPendingReceipts` overwrites `pending_receipts` with what it could not
  upload (`src/src/storage/ErasureService.ts:347`): a receipt queued while it
  awaited an upload, by the start-up drain of `src/src/App.tsx:383` while the
  foreground drain of `App.tsx:364` runs, is dropped without having been
  uploaded; `crypto-audit.md:184` says receipts are queued and uploaded later. It
  is the exception `NothingForgotten` and `ReceiptsAreUploaded` name.
* An erasure that destroyed the key but whose COMMIT failed leaves a candidate
  whose decryption fails, and `Promise.all` (`src/src/storage/LSHIndex.ts:260`)
  rejects searches of everybody that meet it; `crypto-audit.md:174` says the
  deletion of a key does not affect others.
* A blink's window is measured from a re-armed closure (`LivenessFSM.cpp:254`),
  so eyes held closed for longer than the window pass when they open;
  `src/cpp/landmarks/README.md:91` says they recover within 800 ms.
* A turn passes at any time before the challenge's timeout of 4 s:
  `EvaluateTurn` (`LivenessFSM.cpp:300-314`) looks at no time, and `turnWindow`
  (`LivenessFSM.h:45`) is read nowhere; and it takes 6 degrees
  (`yawDeltaDegrees`, `LivenessFSM.h:44`). `src/cpp/landmarks/README.md:93` says 20
  degrees within 2 s. `PassIsEarned` states what the code does.
* The sync Lambda looks for a duplicate batch under a key it has just made from a
  fresh uuid (`src/deploy/aws/lambda/sync-handler/index.js:83`), so it never finds
  one, though its comments (`:52`, `:86`) say it detects duplicates.

## 4. What is proved

Every invariant that a passing run checks is also a theorem, for all values of
the constants that satisfy the assumptions named in the modules (any number of
people, calls, workers, items, requests, cameras, mounts; any thresholds and
bounds), and so are the refinements of `AppendOnlyLog` and `LivenessGate`. Almost
none of these invariants is inductive as it stands. What each proof adds says
why the code works:

* `LedgerProofs`. A row is inserted from a hash and a counter read several
  awaits before; `OneAppendAtATime` says both are still current, because the
  promise chain lets only its head run, and `Undoable` that a ROLLBACK brings
  back the same events, for an append's own BEGIN ends any other transaction.
  With them `ChainLinked` is inductive. Anonymising and its undoing touch no
  counter or hash, so an erasure's steps are stuttering steps of `AppendOnlyLog`.
  `ErasedUnnamed`: `Named` (rows name active people), `Keyed` (active people have
  keys) and `Purging` (an erasure's own purge stands), each said of the
  connection's view and of what a ROLLBACK would bring back. `AuditIsExact`: an
  audit reads its rows once and its keys one by one; `Audited` says there is a
  set of people, those enrolled when it began, that all its answers so far agree
  with; those who are or may again be enrolled become fewer only (`Reach`), and no
  row names anybody whom only a ROLLBACK would bring back (`Returning`).
  `BrokenOnlyByKnownHazard`:
  while none of the five causes has come, counters have no gap, times do not
  decrease and what a running append took is the next counter and the latest time
  (`Orderly`); and every row can be read or need not be, now and after a ROLLBACK
  (`Legible`). From that every check of `verifyChain` succeeds.
* `SharedConnectionProofs`. `ReportedIsCommitted` speaks of committed tables,
  which a COMMIT replaces by the connection's view, so the invariant says it of
  both. `StoresAgree` and `EnrolledIsThere`: whoever has a transaction to end is
  the opener of the open one (`Mine`), what the connection then sees follows
  from the step its opener is at (`Views`, `Erasing`), committed people have a
  key unless their erasure has just destroyed it (`Keyed`), and a key has
  somebody committed or an enrollment in progress (`Peopled`), each as long as
  nobody ended another call's transaction. A search keeps, over its awaits, that
  whoever it has still to read or unwrap is there unless raced (`Kept`), that a
  key was replaced only under raced people (`Replaced`), that each candidate is at
  one of its stages (`Counted`), and that its history has seen every race
  (`Watched`); together `SInv`. It is inductive because a person leaves the
  connection only by a purge or with somebody else's transaction (`PeopleStay`),
  and whoever is on the connection has a key (`ViewedPeople`).
* `SyncQueueProofs`. A rollback, also somebody else's, replaces the table by the
  snapshot of its BEGIN. `HeldRows` and `SoundRows` are said of the table and of
  the snapshot (`Snapshot`), which works because no worker claims while a foreign
  transaction is open. `UploadedOnce`: an item marked DONE in time is in nobody's
  hands. `Counted`: as long as no statement was undone, the attempts in the
  table are the tries.
* `ErasureQueueProofs`. A drain ends by overwriting the array with what it kept.
  `Drains` and `Sends` say that whatever it read is still to do, kept or done, so
  only what came meanwhile can be lost. `Once`, for as long as nothing was
  retried: running calls work on different requests, each request once, and
  nothing that waits anywhere has been served or received.
* `LivenessFSMProofs`. The properties speak of a pass; `ActiveInv` ties, while
  the challenge is active, the members that `Update` compares times with to what
  was seen. `ImplementsGate`: each operation is a step of `LivenessGate` or none,
  and every state the gate moves between is one of its own by `TypeOK`.
* `FramePoolProofs`. `Owned` says `OneOwner` slot by slot; `WholeWhenPosted`
  carries a frame's wholeness from `Fill` through the mailbox to the read, which
  needs the owner, since only the owner writes a buffer (a late `Wipe` leaves
  its mark in `wiped`). That `Acquire`'s slot exists and is free follows from
  the well-foundedness of `<` on the distances from `nextIndex`. `PathsTypeOK`
  bounds the counters by a balance (`Flow`): frames offered are dropped,
  replaced, processed, in a camera thread's hands, posted or at work. On the
  Android side `BridgeInv`: which frames' pixels a buffer may hold follows from
  the numbers of the pending frame and of the one being copied (`Pictures`), and
  every pending frame has its task. Both are proved for `FramePaths`, where each
  path leaves the other's variables alone.
* `EmbeddingSessionProofs`. A frame carries its session along: once a call has
  ended it, the frame writes, copies and publishes an overlapped session's
  samples (`Foreign`). A pass the gate sees comes from the frame itself, or on
  iOS from a call not followed by another (`Passed`). `Counted` bounds the
  sessions by the calls begun and waiting.
* `DatabaseOpenProofs`. While no two derivations met, one caller at most derives,
  while nothing is cached, and whoever is about to open has the cached
  passphrase (`Sound`). Next to a mount that came while none was starting no
  other is starting (`Alone`), so nobody can close its database; and a database
  is open only for a start, a mount or an abandoned one (`Closed`).

One proof found a fault in a model: the ledger's first state had assumed that
the clock never lay behind the rows of the older build, which no code ensures.
It is now part of the cause `stepped`.

**Only model-checked.** The properties that need fairness (`CallsSettle`,
`WorkersReturn`, `ReceiptsAreUploaded`, `MailboxIsServed`), because liveness and
`ENABLED` are beyond the prover, and the violated properties of section 3, which
are counterexamples. Nothing is claimed of what a recursive definition computes
for every input, since the provers cannot use the induction theorems; the
modules have none that a theorem would need.

## 5. What the models leave out

* Power loss: with `synchronous=NORMAL` (`DatabaseManager.ts:72`) committed rows
  may be lost although the MMKV counter survived. Kills of the process only are
  modelled. MMKV itself is assumed to be sound.
* The statements of a purge fail together, and an LSH insert that fails in
  autocommit mode after others succeeded is not told apart from one that
  inserted nothing.
* Cryptography, metrics, images: values that can be told apart only as far as a
  property does. Rounding: a projection of floating-point numbers may put an
  embedding on the other side of a plane it all but lies on; the code computes
  it the same way for enrolling and searching.
* `uploadToS3`, `markProcessing` and `enqueueFrame`, which nothing calls; how long a backoff
  sleeps; `callback_` of the pipeline, which nobody sets.
* The JSI installation: `jni_bridge.cpp` keeps an "installed" flag for the
  process, and what a reload of the JavaScript context does with it depends on
  the runtime's addresses.
* What a TensorFlow Lite interpreter does that is closed while it runs: an
  exception in `AndroidBridge`, in the program possibly a crash.
* The first connection of two overlapping opens that both fail is not closed by
  anybody; it holds a file handle and nothing else.
* Averaging: which samples the averager drops as old or as outliers is a choice.
  The centroid of an enrolment burst is computed within one call.
* In `SyncQueue` two branches are shown dead: "item vanished" in
  `incrementAttempts` and "Retries exhausted" (`SyncWorker.ts:116`); `ClaimsHold`
  is the reason.
* The components marked `not_modelled` in PROJECT.json, each with its reason.

## 6. Plan

Done: the modules of section 2, their runs, and their proofs. Left, in order:

1. Code without a model that sits next to code with one: what `App.tsx` and
   `CameraView.tsx` do with results and buttons, over `EmbeddingSession`; the
   statements of `SmokeTest`, which `DatabaseOpen` takes as one step; the
   administrator's copy of a DEK.
2. Composition of `SyncQueue` with the ledger's verdict, so that a gap in the
   chain and the end of synchronisation are one behaviour.
3. The Lambda and the devices that would call it, once the application does.
4. A run of its own for the receipts that a drain's final write drops, now an
   exception of `NothingForgotten`.
