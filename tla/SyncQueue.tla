------------------------------ MODULE SyncQueue ------------------------------
(***************************************************************************)
(* The sync queue: OfflineQueue and OfflineQueueReader over the table      *)
(* sync_queue, the workers of SyncWorker that claim and upload its items   *)
(* with retries, and PurgeManager.                                         *)
(*                                                                         *)
(* An action is the code between two awaits: a claim and the first upload  *)
(* attempt are one step, the backoff sleep separates the attempts.  The    *)
(* autocommit statements of the queue join whatever transaction another    *)
(* service holds open on the connection, and a rollback undoes them.       *)
(*                                                                         *)
(* The worker's upload is uploadStub, which makes no network call: an item *)
(* that is "uploaded" here has had a call of it return, and no server has  *)
(* it.  uploadToS3, which would send it, has no caller and is not          *)
(* modelled.                                                               *)
(***************************************************************************)
EXTENDS Integers

CONSTANTS
  Items,          \* what is ever enqueued
  Workers,        \* processQueue or syncNextQueuedItem calls in flight
  MAX_RETRIES,    \* upload attempts before an item is FAILED
  MaxForeign,     \* bound: transactions other services open
  NoItem          \* a worker that has claimed nothing

ASSUME QueueAssumption ==
  /\ MAX_RETRIES \in Nat \ {0}
  /\ MaxForeign \in Nat
  /\ NoItem \notin Items

VARIABLES
  row,      \* sync_queue: the row of each item, as the connection sees it
  tx,       \* another service's transaction: is one open, what a ROLLBACK
            \* brings back, and how many may still come
  worker,   \* where each worker stands
  uploaded, \* how often uploadStub has returned for each item
  added,    \* history only: the items addItem returned
  tries,    \* history only: upload calls made for each item
  hist      \* history only: what has gone wrong so far

vars == <<row, tx, worker, uploaded, added, tries, hist>>

-----------------------------------------------------------------------------
\* absent: not inserted yet.  purged: deleted by purgeCompletedItems.
Status == {"absent", "PENDING", "PROCESSING", "DONE", "FAILED", "purged"}

Rows == [Items -> [status : Status, attempts : Nat]]

NoWork == [pc |-> "none", item |-> NoItem, attempt |-> 0, loop |-> FALSE]

Init ==
  /\ row = [i \in Items |-> [status |-> "absent", attempts |-> 0]]
  /\ tx = [open |-> FALSE, left |-> MaxForeign, saved |-> row]
  /\ worker = [w \in Workers |-> NoWork]
  /\ uploaded = [i \in Items |-> 0]
  /\ added = {}
  /\ tries = [i \in Items |-> 0]
  /\ hist = [killed |-> FALSE, unmarked |-> FALSE, threw |-> FALSE,
             undone |-> FALSE]

\* Mutant: a status that is none of the table's.
AddItemUntyped(i) ==
  /\ row[i].status = "absent"
  /\ row' = [row EXCEPT ![i].status = "QUEUED"]
  /\ added' = added \cup {i}
  /\ UNCHANGED <<tx, worker, uploaded, tries, hist>>

\* addItem: one INSERT, in whatever transaction is open.
AddItem(i) ==
  /\ row[i].status = "absent"
  /\ row' = [row EXCEPT ![i].status = "PENDING"]
  /\ added' = added \cup {i}
  /\ UNCHANGED <<tx, worker, uploaded, tries, hist>>

\* Mutant: FAILED rows are deleted with the DONE ones.
PurgeSettledItems ==
  /\ row' = [i \in Items |-> IF row[i].status \in {"DONE", "FAILED"}
                             THEN [row[i] EXCEPT !.status = "purged"]
                             ELSE row[i]]
  /\ UNCHANGED <<tx, worker, uploaded, added, tries, hist>>

\* One DELETE, in whatever transaction is open.
purgeCompletedItems ==
  /\ row' = [i \in Items |-> IF row[i].status = "DONE"
                             THEN [row[i] EXCEPT !.status = "purged"]
                             ELSE row[i]]
  /\ UNCHANGED <<tx, worker, uploaded, added, tries, hist>>

-----------------------------------------------------------------------------
(* The worker.                                                             *)

\* syncNextQueuedItem, or processQueue, which repeats it: verifyChain first.
StartSync(w, loop) ==
  /\ worker[w].pc = "none"
  /\ worker' = [worker EXCEPT ![w] = [NoWork EXCEPT !.pc = "verify",
                                                    !.loop = loop]]
  /\ UNCHANGED <<row, tx, uploaded, added, tries, hist>>

\* The call resolves: processQueue takes the next item.
Return(w) ==
  worker' = [worker EXCEPT ![w] =
               IF worker[w].loop
               THEN [NoWork EXCEPT !.pc = "verify", !.loop = TRUE]
               ELSE NoWork]

\* The call rejects, and processQueue with it.
Reject(w) == worker' = [worker EXCEPT ![w] = NoWork]

\* The chain does not verify, verifyChain throws, or nothing is PENDING.
SyncStops(w) ==
  /\ worker[w].pc = "verify"
  /\ Reject(w)
  /\ UNCHANGED <<row, tx, uploaded, added, tries, hist>>

Undo ==
  /\ row' = tx.saved
  /\ hist' = [hist EXCEPT !.undone = @ \/ row # tx.saved]
  /\ tx' = [tx EXCEPT !.open = FALSE]

\* readNext inside another's transaction: BEGIN throws, ROLLBACK ends it.
ClaimThrows(w) ==
  /\ worker[w].pc = "verify"
  /\ tx.open
  /\ Undo
  /\ Reject(w)
  /\ UNCHANGED <<uploaded, added, tries>>

\* A count of i's uploads; no count goes further past MAX_RETRIES than one.
OneMore(count, i) == [count EXCEPT ![i] = IF @ > MAX_RETRIES THEN @ ELSE @ + 1]

\* uploadStub returns: it logs the payload and answers with a made-up key.
UploadStub(i) == OneMore(uploaded, i)

\* Mutant: the loop goes on after an upload that succeeded.
UploadAgain(w, i, n, rs) ==
  /\ tries' = OneMore(tries, i)
  /\ uploaded' = UploadStub(i)
  /\ IF n < MAX_RETRIES
     THEN /\ row' = rs
          /\ worker' = [worker EXCEPT ![w].pc = "backoff", ![w].item = i,
                                      ![w].attempt = n]
     ELSE /\ row' = [rs EXCEPT ![i].status = "DONE"]
          /\ Return(w)
  /\ UNCHANGED hist

\* Mutant: the last attempt gives up without an update to FAILED.
UploadGivesUpSilently(w, i, n, rs) ==
  /\ tries' = OneMore(tries, i)
  /\ row' = rs
  /\ IF n < MAX_RETRIES
     THEN worker' = [worker EXCEPT ![w].pc = "backoff", ![w].item = i,
                                   ![w].attempt = n]
     ELSE Return(w)
  /\ UNCHANGED <<uploaded, hist>>

\* Mutant: after its last attempt the item goes back to the queue.
UploadRequeues(w, i, n, rs) ==
  /\ tries' = OneMore(tries, i)
  /\ IF n < MAX_RETRIES
     THEN /\ row' = rs
          /\ worker' = [worker EXCEPT ![w].pc = "backoff", ![w].item = i,
                                      ![w].attempt = n]
     ELSE /\ row' = [rs EXCEPT ![i] = [status |-> "PENDING", attempts |-> 0]]
          /\ Return(w)
  /\ UNCHANGED <<uploaded, hist>>

\* Attempt n for item i, rs being the rows before it.  The upload and the
\* update to DONE succeed; or one of them throws and the worker backs off, or
\* gives up at the last attempt, where the update to FAILED may throw too.
\* (The stub never throws; the worker's catch is written for an upload that may.)
Upload(w, i, n, rs) ==
  LET once == UploadStub(i) IN
  /\ tries' = OneMore(tries, i)
  /\ \/ /\ uploaded' = once
        /\ row' = [rs EXCEPT ![i].status = "DONE"]
        /\ Return(w)
        /\ UNCHANGED hist
     \/ /\ n < MAX_RETRIES
        /\ uploaded' \in {uploaded, once}
        /\ row' = rs
        /\ worker' = [worker EXCEPT ![w].pc = "backoff", ![w].item = i,
                                    ![w].attempt = n]
        /\ hist' = [hist EXCEPT !.unmarked = @ \/ uploaded' = once]
     \/ /\ n >= MAX_RETRIES
        /\ uploaded' \in {uploaded, once}
        /\ row' = [rs EXCEPT ![i].status = "FAILED"]
        /\ worker' = [worker EXCEPT ![w].pc = "gaveUp", ![w].item = i,
                                    ![w].attempt = n]
        /\ hist' = [hist EXCEPT !.unmarked = @ \/ uploaded' = once]
     \/ /\ n >= MAX_RETRIES
        /\ uploaded' \in {uploaded, once}
        /\ row' = rs
        /\ Reject(w)
        /\ hist' = [hist EXCEPT !.unmarked = @ \/ uploaded' = once, !.threw = TRUE]

\* Mutant: the item is selected and updated by its own two statements, of
\* which the second does not change the status.
ClaimCountsOnly(w, i) ==
  /\ worker[w].pc = "verify" /\ ~tx.open
  /\ row[i].status = "PENDING"
  /\ Upload(w, i, row[i].attempts + 1, [row EXCEPT ![i].attempts = @ + 1])
  /\ UNCHANGED <<tx, added>>

\* The chain verifies: readNext claims an item and the upload is tried.  Any
\* PENDING item may be the oldest: created_at is the wall clock.
Claim(w, i) ==
  /\ worker[w].pc = "verify" /\ ~tx.open
  /\ row[i].status = "PENDING"
  /\ Upload(w, i, row[i].attempts + 1,
            [row EXCEPT ![i] = [status |-> "PROCESSING", attempts |-> @.attempts + 1]])
  /\ UNCHANGED <<tx, added>>

\* The backoff is over: incrementAttempts, and the next attempt.
Retry(w) ==
  LET i == worker[w].item IN
  /\ worker[w].pc = "backoff"
  /\ row[i].status \notin {"absent", "purged"}
  /\ Upload(w, i, row[i].attempts + 1, [row EXCEPT ![i].attempts = @ + 1])
  /\ UNCHANGED <<tx, added>>

\* incrementAttempts throws.
RetryThrows(w) ==
  /\ worker[w].pc = "backoff"
  /\ Reject(w)
  /\ hist' = [hist EXCEPT !.threw = TRUE]
  /\ UNCHANGED <<row, tx, uploaded, added, tries>>

\* The item is FAILED and the chain verified once more, unless that throws.
GiveUp(w) ==
  /\ worker[w].pc = "gaveUp"
  /\ Return(w) \/ Reject(w)
  /\ UNCHANGED <<row, tx, uploaded, added, tries, hist>>

-----------------------------------------------------------------------------
(* The other users of the connection, and the process being killed.         *)

ForeignBegin ==
  /\ ~tx.open /\ tx.left > 0
  /\ tx' = [open |-> TRUE, left |-> tx.left - 1, saved |-> row]
  /\ UNCHANGED <<row, worker, uploaded, added, tries, hist>>

ForeignCommit ==
  /\ tx.open
  /\ tx' = [tx EXCEPT !.open = FALSE]
  /\ UNCHANGED <<row, worker, uploaded, added, tries, hist>>

ForeignRollback ==
  /\ tx.open
  /\ Undo
  /\ UNCHANGED <<worker, uploaded, added, tries>>

\* No start-up code looks at the queue: PROCESSING rows stay as they are.
Kill ==
  /\ row' = IF tx.open THEN tx.saved ELSE row
  /\ tx' = [tx EXCEPT !.open = FALSE]
  /\ worker' = [w \in Workers |-> NoWork]
  /\ hist' = [hist EXCEPT !.killed = TRUE, !.undone = @ \/ row' # row]
  /\ UNCHANGED <<uploaded, added, tries>>

-----------------------------------------------------------------------------
WorkerStep(w) ==
  \/ SyncStops(w) \/ ClaimThrows(w)
  \/ \E i \in Items : Claim(w, i)
  \/ Retry(w) \/ RetryThrows(w) \/ GiveUp(w)

Next ==
  \/ \E i \in Items : AddItem(i)
  \/ purgeCompletedItems
  \/ \E w \in Workers : \/ \E loop \in BOOLEAN : StartSync(w, loop)
                        \/ WorkerStep(w)
  \/ ForeignBegin \/ ForeignCommit \/ ForeignRollback
  \/ Kill

Spec == Init /\ [][Next]_vars

\* Timers fire and continuations run; nobody is obliged to start a sync.
FairSpec == Spec /\ \A w \in Workers : WF_vars(WorkerStep(w))

-----------------------------------------------------------------------------
(* Properties.                                                             *)

\* Every variable has its type.
TypeOK ==
  /\ row \in Rows
  /\ tx \in [open : BOOLEAN, left : Nat, saved : Rows]
  /\ worker \in [Workers -> [pc : {"none", "verify", "backoff", "gaveUp"},
                             item : Items \cup {NoItem}, attempt : Nat,
                             loop : BOOLEAN]]
  /\ uploaded \in [Items -> Nat]
  /\ added \in SUBSET Items
  /\ tries \in [Items -> Nat]
  /\ hist \in [killed : BOOLEAN, unmarked : BOOLEAN, threw : BOOLEAN,
               undone : BOOLEAN]

Holds(w, i) == worker[w].pc \in {"backoff", "gaveUp"} /\ worker[w].item = i

\* No two workers hold one item, and an item a worker will try again is still
\* PROCESSING in the table with attempts to spare, whatever the other workers,
\* purges and foreign rollbacks did during the sleep.  (So incrementAttempts
\* always finds its row, and the loop never exits at its condition.)  And no item
\* is tried more than MAX_RETRIES times over all its claims, unless a foreign
\* rollback took an increment back.
ClaimsHold ==
  /\ \A i \in Items : \A v, w \in Workers : Holds(v, i) /\ Holds(w, i) => v = w
  /\ \A w \in Workers : worker[w].pc = "backoff" =>
       /\ row[worker[w].item].status = "PROCESSING"
       /\ row[worker[w].item].attempts <= worker[w].attempt
       /\ worker[w].attempt < MAX_RETRIES
  /\ hist.undone \/ \A i \in Items : tries[i] <= MAX_RETRIES

\* The upload returns twice for an item, or the item is FAILED although it
\* returned, only if an update to DONE threw after an upload.
TwiceOnlyIfUnmarked ==
  \/ hist.unmarked
  \/ \A i \in Items : /\ uploaded[i] <= 1
                      /\ row[i].status = "FAILED" => uploaded[i] = 0

\* Only what uploadStub returned for is DONE, so that a purge deletes nothing that
\* was still to be uploaded; and an item that addItem returned stays in the
\* table, and one that is PROCESSING is some worker's, unless the process was
\* killed, an update threw where nothing catches it, or a foreign rollback undid
\* a statement.  (The worker's bookkeeping is all that this is about: the stub
\* sends nothing, so what is DONE has not left the device.)
OnlyKnownLosses ==
  /\ \A i \in Items : row[i].status \in {"DONE", "purged"} => uploaded[i] > 0
  /\ \/ hist.undone
     \/ \A i \in Items :
          /\ i \in added => row[i].status # "absent"
          /\ row[i].status = "PROCESSING"
               => hist.killed \/ hist.threw \/ \E w \in Workers : Holds(w, i)

\* Every worker comes to an end: retries are bounded and the queue is finite.
WorkersReturn == \A w \in Workers : worker[w].pc # "none" ~> worker[w].pc = "none"
=============================================================================
