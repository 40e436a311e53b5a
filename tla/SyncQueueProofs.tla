--------------------------- MODULE SyncQueueProofs ---------------------------
(***************************************************************************)
(* The queue's type, ClaimsHold, TwiceOnlyIfUnmarked and                   *)
(* OnlyKnownLosses for any items, workers, retries and foreign             *)
(* transactions.                                                           *)
(*                                                                         *)
(* A rollback replaces the table by the snapshot of its BEGIN, so what the *)
(* invariant says of the rows (SoundRows, HeldRows) holds of the snapshot  *)
(* as well while a transaction is open.  That works because nothing is     *)
(* claimed in another's transaction: whatever a worker holds was           *)
(* PROCESSING when the transaction began.                                  *)
(***************************************************************************)
EXTENDS SyncQueue, TLAPS

Held(w) == worker[w].pc \in {"backoff", "gaveUp"}

Types == TypeOK /\ \A w \in Workers : Held(w) => worker[w].item \in Items

\* No two workers hold one item, and who backs off has an attempt left.
Holders ==
  /\ \A v, w \in Workers :
       Held(v) /\ Held(w) /\ worker[v].item = worker[w].item => v = w
  /\ \A w \in Workers : worker[w].pc = "backoff" => worker[w].attempt < MAX_RETRIES

\* What the table, or a snapshot of it, says of the items workers hold.
HeldRows(rows) ==
  \A w \in Workers :
    /\ worker[w].pc = "backoff" =>
         /\ rows[worker[w].item].status = "PROCESSING"
         /\ rows[worker[w].item].attempts <= worker[w].attempt
    /\ worker[w].pc = "gaveUp" =>
         rows[worker[w].item].status \in {"PROCESSING", "FAILED"}

\* And of the others.
SoundRows(rows) ==
  \A i \in Items :
    /\ rows[i].attempts <= MAX_RETRIES
    /\ rows[i].status \in {"absent", "PENDING"} => rows[i].attempts = 0
    /\ rows[i].status \in {"DONE", "purged"} => uploaded[i] > 0
    /\ uploaded[i] > 0 => hist.unmarked \/ rows[i].status \in {"DONE", "purged", "PROCESSING"}

Snapshot ==
  tx.open => /\ HeldRows(tx.saved) /\ SoundRows(tx.saved)
             /\ \A i \in Items : tx.saved[i].attempts <= row[i].attempts

\* An item that was marked in time is out of the workers' hands.
UploadedOnce ==
  hist.unmarked \/ \A i \in Items : /\ uploaded[i] <= 1
                                    /\ uploaded[i] > 0 => \A w \in Workers : ~Holds(w, i)

\* As long as no statement was undone, the table counts the tries, and an item
\* is PROCESSING only as long as a worker is at it.
Counted ==
  hist.undone \/ /\ \A i \in Items :
                      /\ tries[i] = row[i].attempts
                      /\ i \in added => row[i].status # "absent"
                      /\ row[i].status = "PROCESSING"
                           => hist.killed \/ hist.threw \/ \E w \in Workers : Holds(w, i)
                 /\ \A w \in Workers :
                      worker[w].pc = "gaveUp" => row[worker[w].item].status = "FAILED"

Inv ==
  /\ Types /\ Holders
  /\ HeldRows(row) /\ SoundRows(row) /\ Snapshot
  /\ UploadedOnce /\ Counted

-----------------------------------------------------------------------------
(* What one step leaves as it is.                                          *)

WorkerStates == [pc : {"none", "verify", "backoff", "gaveUp"}, item : Items \cup {NoItem},
                 attempt : Nat, loop : BOOLEAN]

HistStates == [killed : BOOLEAN, unmarked : BOOLEAN, threw : BOOLEAN, undone : BOOLEAN]

Counts == [Items -> Nat]

LEMMA StatusSet ==
  ASSUME NEW rs \in Rows, NEW i \in Items, NEW s \in Status,
         row' = [rs EXCEPT ![i].status = s]
  PROVE  /\ row' \in Rows /\ row'[i].status = s /\ row'[i].attempts = rs[i].attempts
         /\ \A j \in Items \ {i} : row'[j] = rs[j]
  BY DEF Rows

LEMMA WorkerSet ==
  ASSUME worker \in [Workers -> WorkerStates], NEW w \in Workers, NEW r \in WorkerStates,
         worker' = [worker EXCEPT ![w] = r]
  PROVE  /\ worker' \in [Workers -> WorkerStates] /\ worker'[w] = r
         /\ \A v \in Workers \ {w} : worker'[v] = worker[v]
  OBVIOUS

\* A worker that returns or rejects has nothing in its hands.
EmptyHanded(w) ==
  /\ worker' \in [Workers -> WorkerStates] /\ worker'[w].pc \in {"none", "verify"}
  /\ \A v \in Workers \ {w} : worker'[v] = worker[v]

LEMMA NothingHeld ==
  ASSUME worker \in [Workers -> WorkerStates], NEW w \in Workers, Return(w) \/ Reject(w)
  PROVE  EmptyHanded(w)
<1>1. NoWork \in WorkerStates /\ NoWork.pc = "none"
  BY DEF NoWork, WorkerStates
<1>2. PICK r : r = [NoWork EXCEPT !.pc = "verify", !.loop = TRUE]
  OBVIOUS
<1>3. r \in WorkerStates /\ r.pc = "verify"
  BY <1>2 DEF NoWork, WorkerStates
<1>4. \/ worker' = [worker EXCEPT ![w] = NoWork]
      \/ worker' = [worker EXCEPT ![w] = r]
  BY <1>2 DEF Return, Reject
<1> QED BY <1>1, <1>3, <1>4, WorkerSet DEF EmptyHanded

InHand(w, pc, i, n) ==
  /\ worker' \in [Workers -> WorkerStates]
  /\ worker'[w].pc = pc /\ worker'[w].item = i /\ worker'[w].attempt = n
  /\ \A v \in Workers \ {w} : worker'[v] = worker[v]

LEMMA TakenInHand ==
  ASSUME worker \in [Workers -> WorkerStates], NEW w \in Workers, NEW i \in Items,
         NEW n \in Nat, NEW pc \in {"backoff", "gaveUp"},
         worker' = [worker EXCEPT ![w].pc = pc, ![w].item = i, ![w].attempt = n]
  PROVE  InHand(w, pc, i, n)
<1>1. PICK r : r = [worker[w] EXCEPT !.pc = pc, !.item = i, !.attempt = n]
  OBVIOUS
<1>2. PICK l : l = worker[w].loop
  OBVIOUS
<1>3. r = [pc |-> pc, item |-> i, attempt |-> n, loop |-> l] /\ l \in BOOLEAN
  BY <1>1, <1>2 DEF WorkerStates
<1>4. r \in WorkerStates /\ r.pc = pc /\ r.item = i /\ r.attempt = n
  BY <1>3 DEF WorkerStates
<1>5. worker' = [worker EXCEPT ![w] = r]
  BY <1>1
<1> QED BY <1>4, <1>5, WorkerSet DEF InHand

LEMMA Counted1 ==
  ASSUME NEW count \in Counts, NEW i \in Items, NEW c, c = OneMore(count, i)
  PROVE  /\ c \in Counts
         /\ c[i] = IF count[i] > MAX_RETRIES THEN count[i] ELSE count[i] + 1
         /\ c[i] > 0
         /\ \A j \in Items \ {i} : c[j] = count[j]
  BY QueueAssumption DEF Counts, OneMore

LEMMA HistSet ==
  ASSUME hist \in HistStates, NEW u \in BOOLEAN,
         \/ hist' = [hist EXCEPT !.unmarked = u]
         \/ hist' = [hist EXCEPT !.unmarked = u, !.threw = TRUE]
  PROVE  /\ hist' \in HistStates /\ hist'.unmarked = u
         /\ hist'.killed = hist.killed /\ hist'.undone = hist.undone
         /\ hist.threw => hist'.threw
         /\ hist' = [hist EXCEPT !.unmarked = u] \/ hist'.threw
  BY DEF HistStates

-----------------------------------------------------------------------------
(* The outcomes of an attempt.                                             *)

Same(w, i) ==
  /\ row' \in Rows /\ row'[i].attempts = row[i].attempts + 1
  /\ \A j \in Items \ {i} : row'[j] = row[j]
  /\ tries' \in Counts
  /\ tries'[i] = IF tries[i] > MAX_RETRIES THEN tries[i] ELSE tries[i] + 1
  /\ \A j \in Items \ {i} : tries'[j] = tries[j]
  /\ uploaded' \in Counts /\ \A j \in Items \ {i} : uploaded'[j] = uploaded[j]
  /\ hist' \in HistStates
  /\ hist'.killed = hist.killed /\ hist'.undone = hist.undone
  /\ hist.threw => hist'.threw
  /\ hist.unmarked => hist'.unmarked
  /\ UNCHANGED <<tx, added>>

\* The upload returned for the item, or it counts no more often than before.
OnceMore(i) == uploaded'[i] = IF uploaded[i] > MAX_RETRIES THEN uploaded[i] ELSE uploaded[i] + 1
Uploaded(i) == uploaded'[i] > 0 /\ OnceMore(i)
MayUpload(i) == uploaded'[i] = uploaded[i] \/ (hist'.unmarked /\ Uploaded(i))

Outcome(w, i) ==
  \/ /\ row'[i].status = "DONE" /\ EmptyHanded(w) /\ Uploaded(i)
     /\ hist'.unmarked = hist.unmarked
  \/ /\ row'[i].status = "PROCESSING" /\ row'[i].attempts < MAX_RETRIES
     /\ InHand(w, "backoff", i, row'[i].attempts) /\ MayUpload(i)
  \/ /\ row'[i].status = "FAILED" /\ InHand(w, "gaveUp", i, row'[i].attempts) /\ MayUpload(i)
  \/ /\ row'[i].status = "PROCESSING" /\ EmptyHanded(w) /\ hist'.threw /\ MayUpload(i)

Tried(w, i) == Same(w, i) /\ Outcome(w, i)

LEMMA UploadTries ==
  ASSUME Types, NEW w \in Workers, NEW i \in Items, NEW rs \in Rows, NEW n \in Nat,
         Upload(w, i, n, rs), UNCHANGED <<tx, added>>,
         rs[i].status = "PROCESSING", rs[i].attempts = n, n = row[i].attempts + 1,
         \A j \in Items \ {i} : rs[j] = row[j]
  PROVE  Tried(w, i)
<1>1. /\ worker \in [Workers -> WorkerStates] /\ hist \in HistStates
      /\ uploaded \in Counts /\ tries \in Counts
  BY DEF Types, TypeOK, WorkerStates, HistStates, Counts
<1> DEFINE once == UploadStub(i)
<1>2. /\ once \in Counts /\ once[i] > 0
      /\ once[i] = IF uploaded[i] > MAX_RETRIES THEN uploaded[i] ELSE uploaded[i] + 1
      /\ \A j \in Items \ {i} : once[j] = uploaded[j]
  BY <1>1, Counted1 DEF UploadStub
<1>3. /\ tries' \in Counts
      /\ tries'[i] = IF tries[i] > MAX_RETRIES THEN tries[i] ELSE tries[i] + 1
      /\ \A j \in Items \ {i} : tries'[j] = tries[j]
  BY <1>1, Counted1 DEF Upload
<1>4. {"DONE", "FAILED"} \subseteq Status
  BY DEF Status
<1> DEFINE u == hist.unmarked \/ uploaded' = once
<1>5. u \in BOOLEAN /\ (hist.unmarked => u)
  OBVIOUS
<1> HIDE DEF once
<1>6. CASE uploaded' = once /\ row' = [rs EXCEPT ![i].status = "DONE"] /\ Return(w)
           /\ UNCHANGED hist
  <2>1. EmptyHanded(w)
    BY <1>1, <1>6, NothingHeld
  <2>2. /\ row' \in Rows /\ row'[i].status = "DONE" /\ row'[i].attempts = n
        /\ \A j \in Items \ {i} : row'[j] = row[j]
    <3>1. "DONE" \in Status
      BY <1>4
    <3>2. row' = [rs EXCEPT ![i].status = "DONE"]
      BY <1>6
    <3> QED BY <3>1, <3>2, StatusSet, ZenonT(60)
  <2> QED BY <1>1, <1>2, <1>3, <1>6, <2>1, <2>2
             DEF Tried, Same, Outcome, Uploaded, OnceMore
<1> DEFINE May == (uploaded' = uploaded \/ uploaded' = once)
                  /\ (hist' = [hist EXCEPT !.unmarked = u]
                      \/ hist' = [hist EXCEPT !.unmarked = u, !.threw = TRUE])
<1>7. ASSUME May
      PROVE  /\ uploaded' \in Counts /\ (\A j \in Items \ {i} : uploaded'[j] = uploaded[j])
             /\ hist' \in HistStates /\ MayUpload(i)
             /\ hist'.killed = hist.killed /\ hist'.undone = hist.undone
             /\ (hist.threw => hist'.threw) /\ (hist.unmarked => hist'.unmarked)
  <2> HIDE DEF u
  <2>1. /\ hist' \in HistStates /\ hist'.unmarked = u
        /\ hist'.killed = hist.killed /\ hist'.undone = hist.undone
        /\ hist.threw => hist'.threw
    BY <1>1, <1>5, <1>7, HistSet
  <2>2. CASE uploaded' = uploaded
    BY <1>1, <1>5, <2>1, <2>2 DEF MayUpload
  <2>3. CASE uploaded' = once
    <3>1. hist'.unmarked
      BY <2>1, <2>3 DEF u
    <3> QED BY <1>2, <1>5, <2>1, <2>3, <3>1 DEF MayUpload, Uploaded, OnceMore
  <2> QED BY <1>7, <2>2, <2>3
<1>8. CASE /\ n < MAX_RETRIES /\ row' = rs /\ May
           /\ worker' = [worker EXCEPT ![w].pc = "backoff", ![w].item = i, ![w].attempt = n]
  <2>1. InHand(w, "backoff", i, n)
    BY <1>1, <1>8, TakenInHand
  <2> QED BY <1>3, <1>7, <1>8, <2>1 DEF Tried, Same, Outcome
<1>9. CASE /\ row' = [rs EXCEPT ![i].status = "FAILED"] /\ May
           /\ worker' = [worker EXCEPT ![w].pc = "gaveUp", ![w].item = i, ![w].attempt = n]
  <2>1. InHand(w, "gaveUp", i, n)
    BY <1>1, <1>9, TakenInHand
  <2>2. /\ row' \in Rows /\ row'[i].status = "FAILED" /\ row'[i].attempts = n
        /\ \A j \in Items \ {i} : row'[j] = row[j]
    <3>1. "FAILED" \in Status
      BY <1>4
    <3>2. row' = [rs EXCEPT ![i].status = "FAILED"]
      BY <1>9
    <3> QED BY <3>1, <3>2, StatusSet, ZenonT(60)
  <2> QED BY <1>3, <1>7, <1>9, <2>1, <2>2 DEF Tried, Same, Outcome
<1>10. CASE row' = rs /\ Reject(w) /\ May /\ hist'.threw
  <2>1. EmptyHanded(w)
    BY <1>1, <1>10, NothingHeld
  <2> QED BY <1>3, <1>7, <1>10, <2>1 DEF Tried, Same, Outcome
<1>11. hist' = [hist EXCEPT !.unmarked = u, !.threw = TRUE] => hist'.threw
  BY <1>1 DEF HistStates
<1> QED BY <1>6, <1>8, <1>9, <1>10, <1>11 DEF Upload, once

-----------------------------------------------------------------------------
(* Claim and Retry.                                                        *)

\* An attempt is made on an item that is free, or that is in the worker's hands.
Due(w, i) ==
  \/ worker[w].pc = "verify" /\ ~tx.open /\ row[i].status = "PENDING"
  \/ worker[w].pc = "backoff" /\ worker[w].item = i

LEMMA ClaimTries ==
  ASSUME Types, NEW w \in Workers, NEW i \in Items, Claim(w, i)
  PROVE  Due(w, i) /\ Tried(w, i)
<1> DEFINE n == row[i].attempts + 1
<1>1. row \in Rows /\ n \in Nat
  BY DEF Types, TypeOK, Rows
<1>2. PICK rs : rs = [row EXCEPT ![i] = [status |-> "PROCESSING", attempts |-> @.attempts + 1]]
  OBVIOUS
<1>3. /\ rs \in Rows /\ rs[i].status = "PROCESSING" /\ rs[i].attempts = n
      /\ \A j \in Items \ {i} : rs[j] = row[j]
  BY <1>1, <1>2 DEF Rows, Status
<1>4. Upload(w, i, n, rs) /\ UNCHANGED <<tx, added>> /\ Due(w, i)
  BY <1>2 DEF Claim, Due
<1> HIDE DEF n
<1> QED BY <1>1, <1>3, <1>4, UploadTries DEF n

LEMMA RetryTries ==
  ASSUME Types, HeldRows(row), NEW w \in Workers, NEW i \in Items, Retry(w), i = worker[w].item
  PROVE  Due(w, i) /\ Tried(w, i)
<1> DEFINE n == row[i].attempts + 1
<1>1. row \in Rows /\ n \in Nat /\ row[i].status = "PROCESSING"
  BY DEF Types, TypeOK, Rows, HeldRows, Retry
<1>2. PICK rs : rs = [row EXCEPT ![i].attempts = @ + 1]
  OBVIOUS
<1>3. /\ rs \in Rows /\ rs[i].status = "PROCESSING" /\ rs[i].attempts = n
      /\ \A j \in Items \ {i} : rs[j] = row[j]
  BY <1>1, <1>2 DEF Rows, Status
<1>4. Upload(w, i, n, rs) /\ UNCHANGED <<tx, added>> /\ Due(w, i)
  BY <1>2 DEF Retry, Due
<1> QED BY <1>1, <1>3, <1>4, UploadTries

\* Whoever else holds an item holds another one, and before the attempt i was
\* either nobody's or w's.
LEMMA OnlyOneTries ==
  ASSUME Inv, NEW w \in Workers, NEW i \in Items, Due(w, i)
  PROVE  /\ \A v \in Workers \ {w} : Held(v) => worker[v].item \in Items \ {i}
         /\ row[i].attempts < MAX_RETRIES /\ row[i].status # "absent"
         /\ hist.unmarked \/ uploaded[i] = 0
         /\ tx.open => tx.saved[i].status = "PROCESSING"
<1>1. row[i].attempts \in Nat /\ uploaded[i] \in Nat
  BY DEF Inv, Types, TypeOK, Rows
<1>2. CASE ~tx.open /\ row[i].status = "PENDING"
  <2>1. \A v \in Workers : Held(v) => row[worker[v].item].status # "PENDING"
    BY DEF Inv, Types, TypeOK, HeldRows, Held
  <2>2. row[i].attempts = 0 /\ (uploaded[i] > 0 => hist.unmarked)
    BY <1>2 DEF Inv, SoundRows
  <2> QED BY <1>1, <1>2, <2>1, <2>2, QueueAssumption DEF Inv, Types
<1>3. CASE worker[w].pc = "backoff" /\ worker[w].item = i
  <2>1. \A v \in Workers \ {w} : Held(v) => worker[v].item \in Items \ {i}
    BY <1>3 DEF Inv, Types, Holders, Held
  <2>2. /\ row[i].attempts <= worker[w].attempt /\ worker[w].attempt < MAX_RETRIES
        /\ row[i].status = "PROCESSING" /\ worker[w].attempt \in Nat
    BY <1>3 DEF Inv, HeldRows, Holders, Types, TypeOK
  <2>3. hist.unmarked \/ ~(uploaded[i] > 0)
    BY <1>3 DEF Inv, UploadedOnce, Holds
  <2>4. tx.open => tx.saved[i].status = "PROCESSING"
    BY <1>3 DEF Inv, Snapshot, HeldRows
  <2> QED BY <1>1, <2>1, <2>2, <2>3, <2>4, QueueAssumption
<1> QED BY <1>2, <1>3 DEF Due

LEMMA AttemptInv ==
  ASSUME Inv, NEW w \in Workers, NEW i \in Items, Due(w, i), Tried(w, i)
  PROVE  Inv'
<1>1. /\ Same(w, i) /\ Outcome(w, i)
      /\ worker \in [Workers -> WorkerStates] /\ hist \in HistStates /\ row \in Rows
      /\ uploaded \in Counts /\ tries \in Counts /\ tx.saved \in Rows
  BY DEF Tried, Inv, Types, TypeOK, WorkerStates, HistStates, Counts
<1>2. /\ worker' \in [Workers -> WorkerStates] /\ \A v \in Workers \ {w} : worker'[v] = worker[v]
      /\ Held(w)' => worker'[w].item = i
  BY <1>1 DEF Outcome, EmptyHanded, InHand, Held
<1>3. /\ \A v \in Workers \ {w} : Held(v) => worker[v].item \in Items \ {i}
      /\ row[i].attempts < MAX_RETRIES /\ row[i].status # "absent"
      /\ hist.unmarked \/ uploaded[i] = 0
      /\ tx.open => tx.saved[i].status = "PROCESSING"
  BY OnlyOneTries
<1>4. \A v \in Workers \ {w} : (Held(v)' <=> Held(v)) /\ \A j : Holds(v, j)' <=> Holds(v, j)
  BY <1>2 DEF Held, Holds
<1>5. Types'
  <2>1. TypeOK'
    BY <1>1, <1>2 DEF Inv, Types, TypeOK, Same, WorkerStates, HistStates, Counts
  <2>2. \A v \in Workers : Held(v)' => worker'[v].item \in Items
    BY <1>2, <1>4 DEF Inv, Types
  <2> QED BY <2>1, <2>2 DEF Types, Held
<1>6. Holders'
  BY <1>1, <1>2, <1>3, <1>4 DEF Inv, Types, Holders, Held, Outcome, EmptyHanded, InHand
<1>7. HeldRows(row)'
  BY <1>1, <1>2, <1>3
     DEF Inv, Types, HeldRows, Held, Same, Outcome, EmptyHanded, InHand, WorkerStates,
         Rows
<1>8. SoundRows(row)'
  <2>1. ASSUME NEW j \in Items \ {i}
        PROVE  /\ row'[j] = row[j] /\ uploaded'[j] = uploaded[j] /\ (hist.unmarked => hist'.unmarked)
    BY <1>1, <2>1 DEF Same
  <2>2. /\ row'[i].attempts <= MAX_RETRIES
        /\ row'[i].status \in {"DONE", "PROCESSING", "FAILED"}
        /\ row'[i].status = "DONE" => uploaded'[i] > 0
        /\ row'[i].status = "FAILED" => hist'.unmarked \/ uploaded'[i] = 0
    BY <1>1, <1>3, QueueAssumption DEF Same, Outcome, Uploaded, MayUpload, Rows
  <2> QED BY <2>1, <2>2 DEF Inv, SoundRows
<1>9. Snapshot'
  <2> SUFFICES ASSUME tx.open PROVE Snapshot'
    BY <1>1 DEF Snapshot, Same
  <2>1. /\ tx' = tx /\ HeldRows(tx.saved) /\ SoundRows(tx.saved)
        /\ \A j \in Items : tx.saved[j].attempts <= row[j].attempts
        /\ tx.saved[i].status = "PROCESSING"
    BY <1>1, <1>3 DEF Inv, Snapshot, Same
  <2>2. HeldRows(tx.saved)'
    <3>1. worker'[w].pc = "backoff" => tx.saved[i].attempts <= worker'[w].attempt
      BY <1>1, <2>1 DEF Outcome, InHand, EmptyHanded, Same, Rows
    <3> QED BY <1>2, <2>1, <3>1 DEF HeldRows, Held
  <2>3. SoundRows(tx.saved)'
    BY <1>1, <2>1 DEF SoundRows, Same
  <2>4. \A j \in Items : tx.saved[j].attempts <= row'[j].attempts
    BY <1>1, <2>1 DEF Same, Rows
  <2> QED BY <2>1, <2>2, <2>3, <2>4 DEF Snapshot
<1>10. UploadedOnce'
  BY <1>1, <1>2, <1>3, QueueAssumption
     DEF Inv, Types, UploadedOnce, Holds, Held, Same, Outcome, EmptyHanded, InHand, Uploaded,
         OnceMore, MayUpload, Counts
<1>11. Counted'
  <2> SUFFICES ASSUME ~hist.undone PROVE Counted'
    BY <1>1 DEF Counted, Same
  <2>1. \A j \in Items : tries'[j] = row'[j].attempts
    BY <1>1, <1>3, QueueAssumption DEF Inv, Counted, Same, Rows
  <2>2. \A j \in Items : j \in added' => row'[j].status # "absent"
    BY <1>1, <1>3 DEF Inv, Counted, Same, Outcome
  <2>3. ASSUME NEW j \in Items, row'[j].status = "PROCESSING"
        PROVE  hist'.killed \/ hist'.threw \/ \E v \in Workers : Holds(v, j)'
    <3>1. CASE j = i
      BY <1>1, <2>3, <3>1 DEF Outcome, InHand, Holds
    <3>2. CASE j # i
      <4>1. hist.killed \/ hist.threw \/ \E v \in Workers : Holds(v, j)
        BY <1>1, <2>3, <3>2 DEF Inv, Counted, Same
      <4>2. ~Holds(w, j)
        BY <3>2 DEF Due, Holds
      <4> QED BY <1>1, <1>4, <4>1, <4>2 DEF Same
    <3> QED BY <3>1, <3>2
  <2>4. ASSUME NEW v \in Workers, worker'[v].pc = "gaveUp"
        PROVE  row'[worker'[v].item].status = "FAILED"
    <3>1. CASE v = w
      BY <1>1, <2>4, <3>1 DEF Outcome, InHand, EmptyHanded
    <3>2. CASE v # w
      BY <1>1, <1>2, <1>3, <2>4, <3>2 DEF Inv, Counted, Held, Same
    <3> QED BY <3>1, <3>2
  <2> QED BY <1>1, <2>1, <2>2, <2>3, <2>4 DEF Counted, Holds, Same
<1> QED BY <1>5, <1>6, <1>7, <1>8, <1>9, <1>10, <1>11 DEF Inv

-----------------------------------------------------------------------------
(* The other steps.                                                        *)

\* A worker puts down what it holds and changes nothing else.
LEMMA PutDownInv ==
  ASSUME Inv, NEW w \in Workers, EmptyHanded(w), UNCHANGED <<row, tx, uploaded, added, tries>>,
         hist' = hist \/ hist' = [hist EXCEPT !.threw = TRUE],
         hist'.threw \/ worker[w].pc # "backoff"
  PROVE  Inv'
<1>1. /\ worker \in [Workers -> WorkerStates] /\ hist \in HistStates
  BY DEF Inv, Types, TypeOK, WorkerStates, HistStates
<1>2. /\ worker' \in [Workers -> WorkerStates] /\ ~Held(w)'
      /\ \A v \in Workers \ {w} : worker'[v] = worker[v]
  BY DEF EmptyHanded, Held
<1>3. /\ hist' \in HistStates /\ hist'.killed = hist.killed /\ hist'.undone = hist.undone
      /\ hist'.unmarked = hist.unmarked /\ (hist.threw => hist'.threw)
  BY <1>1 DEF HistStates
<1>4. Types'
  <2>1. TypeOK'
    BY <1>2, <1>3 DEF Inv, Types, TypeOK, WorkerStates, HistStates
  <2> QED BY <1>2, <2>1 DEF Inv, Types, Held
<1>5. Holders'
  BY <1>2 DEF Inv, Holders, Held
<1>6. HeldRows(row)' /\ SoundRows(row)' /\ Snapshot'
  BY <1>2, <1>3 DEF Inv, HeldRows, SoundRows, Snapshot, Held
<1>7. UploadedOnce'
  BY <1>2, <1>3 DEF Inv, UploadedOnce, Holds, Held
<1>8. Counted'
  <2>1. ASSUME ~hist.undone, NEW j \in Items, row[j].status = "PROCESSING"
        PROVE  hist'.killed \/ hist'.threw \/ \E v \in Workers : Holds(v, j)'
    <3>1. hist.killed \/ hist.threw \/ \E v \in Workers : Holds(v, j)
      BY <2>1 DEF Inv, Counted
    <3>2. CASE worker[w].pc = "gaveUp"
      <4>1. row[worker[w].item].status = "FAILED"
        BY <2>1, <3>2 DEF Inv, Counted
      <4> QED BY <1>2, <1>3, <2>1, <3>1, <4>1 DEF Holds
    <3>3. CASE worker[w].pc # "gaveUp"
      BY <1>2, <1>3, <3>1, <3>3 DEF Holds
    <3> QED BY <3>2, <3>3
  <2> QED BY <1>2, <1>3, <2>1 DEF Inv, Counted, Held, Holds
<1> QED BY <1>4, <1>5, <1>6, <1>7, <1>8 DEF Inv

\* The queue's own statements: one row, or those that are DONE.
LEMMA AddItemInv ==
  ASSUME Inv, NEW i \in Items, AddItem(i)
  PROVE  Inv'
<1>1. /\ row[i].status = "absent" /\ added' = added \cup {i}
      /\ row' = [row EXCEPT ![i].status = "PENDING"]
      /\ UNCHANGED <<tx, worker, uploaded, tries, hist>>
  BY DEF AddItem
<1>2. row \in Rows /\ "PENDING" \in Status
  BY DEF Inv, Types, TypeOK, Status
<1>3. /\ row' \in Rows /\ row'[i].status = "PENDING" /\ row'[i].attempts = row[i].attempts
      /\ \A j \in Items \ {i} : row'[j] = row[j]
  BY <1>1, <1>2, StatusSet
<1>4. \A w \in Workers : Held(w) => worker[w].item \in Items \ {i}
  BY <1>1 DEF Inv, Types, HeldRows, Held
<1>5. Types'
  BY <1>1, <1>3 DEF Inv, Types, TypeOK, Held
<1>6. Holders' /\ HeldRows(row)'
  BY <1>1, <1>3, <1>4 DEF Inv, Holders, HeldRows, Held
<1>7. SoundRows(row)' /\ UploadedOnce'
  BY <1>1, <1>3 DEF Inv, SoundRows, UploadedOnce, Holds
<1>8. Snapshot'
  BY <1>1, <1>3 DEF Inv, Snapshot, HeldRows, SoundRows, Held
<1>9. Counted'
  BY <1>1, <1>3, <1>4 DEF Inv, Counted, Holds, Held
<1> QED BY <1>5, <1>6, <1>7, <1>8, <1>9 DEF Inv

LEMMA PurgeInv ==
  ASSUME Inv, purgeCompletedItems
  PROVE  Inv'
<1>1. /\ row' = [i \in Items |-> IF row[i].status = "DONE"
                                 THEN [row[i] EXCEPT !.status = "purged"] ELSE row[i]]
      /\ UNCHANGED <<tx, worker, uploaded, added, tries, hist>>
  BY DEF purgeCompletedItems
<1>2. row \in Rows
  BY DEF Inv, Types, TypeOK
<1>3. ASSUME NEW i \in Items
      PROVE  /\ row'[i] \in [status : Status, attempts : Nat]
             /\ row'[i].attempts = row[i].attempts
             /\ row'[i].status = IF row[i].status = "DONE" THEN "purged" ELSE row[i].status
  BY <1>1, <1>2 DEF Rows, Status
<1>4. row' \in Rows
  BY <1>1, <1>3 DEF Rows
<1>5. Types'
  BY <1>1, <1>4 DEF Inv, Types, TypeOK, Held
<1>6. Holders' /\ HeldRows(row)'
  BY <1>1, <1>3 DEF Inv, Types, Holders, HeldRows, Held
<1>7. SoundRows(row)' /\ UploadedOnce'
  BY <1>1, <1>3 DEF Inv, SoundRows, UploadedOnce, Holds
<1>8. Snapshot'
  BY <1>1, <1>3 DEF Inv, Snapshot, HeldRows, SoundRows, Held
<1>9. Counted'
  BY <1>1, <1>3 DEF Inv, Types, Counted, Holds, Held
<1> QED BY <1>5, <1>6, <1>7, <1>8, <1>9 DEF Inv

LEMMA StartSyncInv ==
  ASSUME Inv, NEW w \in Workers, NEW loop \in BOOLEAN, StartSync(w, loop)
  PROVE  Inv'
<1>1. PICK r : r = [NoWork EXCEPT !.pc = "verify", !.loop = loop]
  OBVIOUS
<1>2. r \in WorkerStates /\ r.pc = "verify"
  BY <1>1 DEF NoWork, WorkerStates
<1>3. worker' = [worker EXCEPT ![w] = r] /\ worker[w].pc = "none"
      /\ UNCHANGED <<row, tx, uploaded, added, tries, hist>>
  BY <1>1 DEF StartSync
<1>4. worker \in [Workers -> WorkerStates]
  BY DEF Inv, Types, TypeOK, WorkerStates
<1>5. EmptyHanded(w)
  BY <1>2, <1>3, <1>4, WorkerSet DEF EmptyHanded
<1> QED BY <1>3, <1>5, PutDownInv

-----------------------------------------------------------------------------
(* Transactions.                                                           *)

\* A rollback, of whoever calls it; the workers hold no more than before.
LEMMA UndoneInv ==
  ASSUME Inv, tx.open, row' = tx.saved, tx' = [tx EXCEPT !.open = FALSE],
         worker' \in [Workers -> WorkerStates], UNCHANGED <<uploaded, added, tries>>,
         \A w \in Workers : worker'[w] = worker[w] \/ ~Held(w)',
         hist' \in HistStates, hist'.unmarked = hist.unmarked, hist'.threw = hist.threw,
         hist'.undone \/ (~hist.undone /\ row' = row),
         hist'.killed \/ (~hist.killed /\ \A w \in Workers : Held(w) => worker'[w] = worker[w])
  PROVE  Inv'
<1>1. tx \in [open : BOOLEAN, left : Nat, saved : Rows]
  BY DEF Inv, Types, TypeOK
<1>2. /\ tx' \in [open : BOOLEAN, left : Nat, saved : Rows] /\ ~tx'.open
  BY <1>1
<1>3. HeldRows(tx.saved) /\ SoundRows(tx.saved)
  BY DEF Inv, Snapshot
<1>4. Types'
  <2>1. TypeOK'
    BY <1>1, <1>2 DEF Inv, Types, TypeOK, WorkerStates, HistStates
  <2> QED BY <2>1 DEF Inv, Types, Held
<1>5. Holders'
  BY DEF Inv, Holders, Held
<1>6. HeldRows(row)'
  BY <1>3 DEF HeldRows, Held
<1>7. SoundRows(row)'
  BY <1>3 DEF SoundRows
<1>8. Snapshot'
  BY <1>2 DEF Snapshot
<1>9. UploadedOnce'
  BY DEF Inv, UploadedOnce, Holds, Held
<1>10. Counted'
  <2> SUFFICES ASSUME ~hist'.undone PROVE Counted'
    BY DEF Counted
  <2>1. row' = row /\ ~hist.undone
    OBVIOUS
  <2>2. \A j \in Items : row[j].status = "PROCESSING" =>
          hist'.killed \/ hist'.threw \/ \E w \in Workers : Holds(w, j)'
    BY <2>1 DEF Inv, Counted, Holds, Held
  <2>3. \A w \in Workers : worker'[w].pc = "gaveUp" => row[worker'[w].item].status = "FAILED"
    BY <2>1 DEF Inv, Counted, Held
  <2> QED BY <2>1, <2>2, <2>3 DEF Inv, Counted
<1> QED BY <1>4, <1>5, <1>6, <1>7, <1>8, <1>9, <1>10 DEF Inv

LEMMA ClaimThrowsInv ==
  ASSUME Inv, NEW w \in Workers, ClaimThrows(w)
  PROVE  Inv'
<1>1. /\ worker[w].pc = "verify" /\ tx.open /\ Reject(w)
      /\ row' = tx.saved /\ tx' = [tx EXCEPT !.open = FALSE]
      /\ hist' = [hist EXCEPT !.undone = @ \/ row # tx.saved]
      /\ UNCHANGED <<uploaded, added, tries>>
  BY DEF ClaimThrows, Undo
<1>2. worker \in [Workers -> WorkerStates] /\ hist \in HistStates
  BY DEF Inv, Types, TypeOK, WorkerStates, HistStates
<1>3. EmptyHanded(w)
  BY <1>1, <1>2, NothingHeld
<1>4. /\ worker' \in [Workers -> WorkerStates]
      /\ \A v \in Workers : worker'[v] = worker[v] \/ ~Held(v)'
      /\ \A v \in Workers : Held(v) => worker'[v] = worker[v]
  BY <1>1, <1>3 DEF EmptyHanded, Held
<1>5. /\ hist' \in HistStates /\ hist'.unmarked = hist.unmarked /\ hist'.threw = hist.threw
      /\ hist'.killed = hist.killed
      /\ hist'.undone \/ (~hist.undone /\ row' = row)
  BY <1>1, <1>2 DEF HistStates
<1> QED BY <1>1, <1>4, <1>5, UndoneInv

LEMMA ForeignInv ==
  ASSUME Inv, ForeignBegin \/ ForeignCommit \/ ForeignRollback
  PROVE  Inv'
<1>1. tx \in [open : BOOLEAN, left : Nat, saved : Rows] /\ row \in Rows /\ hist \in HistStates
  BY DEF Inv, Types, TypeOK, HistStates
<1>2. CASE ForeignBegin
  <2>1. /\ tx' = [open |-> TRUE, left |-> tx.left - 1, saved |-> row] /\ tx.left > 0
        /\ UNCHANGED <<row, worker, uploaded, added, tries, hist>>
    BY <1>2 DEF ForeignBegin
  <2>2. tx' \in [open : BOOLEAN, left : Nat, saved : Rows] /\ tx'.saved = row
    BY <1>1, <2>1
  <2>3. Types'
    BY <2>1, <2>2 DEF Inv, Types, TypeOK, Held
  <2>4. Holders' /\ HeldRows(row)' /\ SoundRows(row)' /\ UploadedOnce' /\ Counted'
    BY <2>1 DEF Inv, Holders, HeldRows, SoundRows, UploadedOnce, Counted, Holds, Held
  <2>5. \A i \in Items : row[i].attempts <= row[i].attempts
    BY <1>1 DEF Rows
  <2>6. Snapshot'
    BY <2>1, <2>2, <2>5 DEF Inv, Snapshot, HeldRows, SoundRows
  <2> QED BY <2>3, <2>4, <2>6 DEF Inv
<1>3. CASE ForeignCommit
  <2>1. /\ tx' = [tx EXCEPT !.open = FALSE] /\ UNCHANGED <<row, worker, uploaded, added, tries, hist>>
    BY <1>3 DEF ForeignCommit
  <2>2. tx' \in [open : BOOLEAN, left : Nat, saved : Rows] /\ ~tx'.open
    BY <1>1, <2>1
  <2>3. Types'
    BY <2>1, <2>2 DEF Inv, Types, TypeOK, Held
  <2>4. Holders' /\ HeldRows(row)' /\ SoundRows(row)' /\ UploadedOnce' /\ Counted'
    BY <2>1 DEF Inv, Holders, HeldRows, SoundRows, UploadedOnce, Counted, Holds, Held
  <2> QED BY <2>2, <2>3, <2>4 DEF Inv, Snapshot
<1>4. CASE ForeignRollback
  <2>1. /\ tx.open /\ row' = tx.saved /\ tx' = [tx EXCEPT !.open = FALSE]
        /\ hist' = [hist EXCEPT !.undone = @ \/ row # tx.saved]
        /\ UNCHANGED <<worker, uploaded, added, tries>>
    BY <1>4 DEF ForeignRollback, Undo
  <2>2. /\ hist' \in HistStates /\ hist'.unmarked = hist.unmarked /\ hist'.threw = hist.threw
        /\ hist'.killed = hist.killed
        /\ hist'.undone \/ (~hist.undone /\ row' = row)
    BY <1>1, <2>1 DEF HistStates
  <2>3. worker' \in [Workers -> WorkerStates]
    BY <2>1 DEF Inv, Types, TypeOK, WorkerStates
  <2> QED BY <2>1, <2>2, <2>3, UndoneInv
<1> QED BY <1>2, <1>3, <1>4

LEMMA KillInv == ASSUME Inv, Kill PROVE Inv'
<1>1. /\ row' = IF tx.open THEN tx.saved ELSE row
      /\ tx' = [tx EXCEPT !.open = FALSE] /\ worker' = [w \in Workers |-> NoWork]
      /\ hist' = [hist EXCEPT !.killed = TRUE, !.undone = @ \/ row' # row]
      /\ UNCHANGED <<uploaded, added, tries>>
  BY DEF Kill
<1>2. /\ tx \in [open : BOOLEAN, left : Nat, saved : Rows] /\ row \in Rows
      /\ hist \in HistStates
  BY DEF Inv, Types, TypeOK, HistStates
<1>3. /\ worker' \in [Workers -> WorkerStates] /\ \A w \in Workers : ~Held(w)'
  BY <1>1 DEF WorkerStates, NoWork, Held
<1>4. /\ hist' \in HistStates /\ hist'.unmarked = hist.unmarked /\ hist'.threw = hist.threw
      /\ hist'.killed /\ (hist'.undone \/ (~hist.undone /\ row' = row))
  BY <1>1, <1>2 DEF HistStates
<1>5. CASE tx.open
  <2>1. row' = tx.saved
    BY <1>1, <1>5
  <2> QED BY <1>1, <1>3, <1>4, <1>5, <2>1, UndoneInv
<1>6. CASE ~tx.open
  <2>1. row' = row
    BY <1>1, <1>6
  <2>2. tx' \in [open : BOOLEAN, left : Nat, saved : Rows] /\ ~tx'.open
    BY <1>1, <1>2
  <2>3. Types'
    BY <1>1, <1>3, <1>4, <2>1, <2>2 DEF Inv, Types, TypeOK, WorkerStates, HistStates, Held
  <2>4. Holders' /\ HeldRows(row)' /\ SoundRows(row)' /\ UploadedOnce' /\ Snapshot'
    BY <1>1, <1>3, <1>4, <2>1, <2>2
       DEF Inv, Holders, HeldRows, SoundRows, UploadedOnce, Snapshot, Holds, Held
  <2>5. Counted'
    BY <1>1, <1>3, <1>4, <2>1 DEF Inv, Counted, Held
  <2> QED BY <2>3, <2>4, <2>5 DEF Inv
<1> QED BY <1>5, <1>6

-----------------------------------------------------------------------------
LEMMA InitInv == Init => Inv
<1> SUFFICES ASSUME Init PROVE Inv
  OBVIOUS
<1>1. Types
  BY QueueAssumption DEF Init, Types, TypeOK, Rows, Status, NoWork, Held
<1>2. Holders /\ HeldRows(row) /\ Snapshot
  BY DEF Init, NoWork, Holders, HeldRows, Snapshot, Held
<1>3. SoundRows(row) /\ UploadedOnce
  BY QueueAssumption DEF Init, SoundRows, UploadedOnce
<1>4. Counted
  BY DEF Init, NoWork, Counted
<1> QED BY <1>1, <1>2, <1>3, <1>4 DEF Inv

LEMMA WorkerStepInv ==
  ASSUME Inv, NEW w \in Workers, WorkerStep(w)
  PROVE  Inv'
<1>1. worker \in [Workers -> WorkerStates] /\ hist \in HistStates
  BY DEF Inv, Types, TypeOK, WorkerStates, HistStates
<1>2. CASE SyncStops(w)
  <2>1. EmptyHanded(w)
    BY <1>1, <1>2, NothingHeld DEF SyncStops
  <2> QED BY <1>2, <2>1, PutDownInv DEF SyncStops
<1>3. CASE ClaimThrows(w)
  BY <1>3, ClaimThrowsInv
<1>4. ASSUME NEW i \in Items, Claim(w, i) PROVE Inv'
  BY <1>4, ClaimTries, AttemptInv DEF Inv
<1>5. CASE Retry(w)
  <2>1. worker[w].item \in Items
    BY <1>5 DEF Retry, Inv, Types, Held
  <2> QED BY <1>5, <2>1, RetryTries, AttemptInv DEF Inv
<1>6. CASE RetryThrows(w)
  <2>1. EmptyHanded(w)
    BY <1>1, <1>6, NothingHeld DEF RetryThrows
  <2>2. hist' = [hist EXCEPT !.threw = TRUE] /\ hist'.threw
    BY <1>1, <1>6 DEF RetryThrows, HistStates
  <2> QED BY <1>6, <2>1, <2>2, PutDownInv DEF RetryThrows
<1>7. CASE GiveUp(w)
  <2>1. EmptyHanded(w)
    BY <1>1, <1>7, NothingHeld DEF GiveUp
  <2> QED BY <1>7, <2>1, PutDownInv DEF GiveUp
<1> QED BY <1>2, <1>3, <1>4, <1>5, <1>6, <1>7 DEF WorkerStep

LEMMA NextInv == Inv /\ [Next]_vars => Inv'
<1> SUFFICES ASSUME Inv, [Next]_vars PROVE Inv'
  OBVIOUS
<1>1. CASE UNCHANGED vars
  <2>1. Types' /\ Holders'
    BY <1>1 DEF Inv, vars, Types, TypeOK, Holders, Held
  <2>2. HeldRows(row)' /\ SoundRows(row)' /\ Snapshot'
    BY <1>1 DEF Inv, vars, HeldRows, SoundRows, Snapshot
  <2>3. UploadedOnce' /\ Counted'
    BY <1>1 DEF Inv, vars, UploadedOnce, Counted, Holds
  <2> QED BY <2>1, <2>2, <2>3 DEF Inv
<1> QED BY <1>1, AddItemInv, PurgeInv, StartSyncInv, WorkerStepInv, ForeignInv, KillInv
           DEF Next

LEMMA QueueInv == Spec => []Inv
  BY InitInv, NextInv, PTL DEF Spec

-----------------------------------------------------------------------------
\* Every variable keeps its type.
THEOREM TypeCorrect == Spec => []TypeOK
<1>1. Inv => TypeOK
  BY DEF Inv, Types
<1> QED BY <1>1, QueueInv, PTL

\* No two workers ever have one item in hand, an item that waits for its next
\* attempt is still there with an attempt to spare, and no item is tried more
\* than MAX_RETRIES times (OfflineQueueReader.ts:92-150, SyncWorker.ts:62-120).
THEOREM ClaimsAreHeld == Spec => []ClaimsHold
<1>1. Inv => ClaimsHold
  <2> SUFFICES ASSUME Inv PROVE ClaimsHold
    OBVIOUS
  <2>1. \A i \in Items : \A v, w \in Workers : Holds(v, i) /\ Holds(w, i) => v = w
    BY DEF Inv, Holders, Holds, Held
  <2>2. \A w \in Workers : worker[w].pc = "backoff" =>
          /\ row[worker[w].item].status = "PROCESSING"
          /\ row[worker[w].item].attempts <= worker[w].attempt
          /\ worker[w].attempt < MAX_RETRIES
    BY DEF Inv, HeldRows, Holders
  <2>3. hist.undone \/ \A i \in Items : tries[i] <= MAX_RETRIES
    BY DEF Inv, Counted, SoundRows
  <2> QED BY <2>1, <2>2, <2>3 DEF ClaimsHold
<1> QED BY <1>1, QueueInv, PTL

\* A second upload, or FAILED after one, needs an update to DONE that threw
\* (SyncWorker.ts:66-100).
THEOREM UploadedTwiceOnlyIfUnmarked == Spec => []TwiceOnlyIfUnmarked
<1>1. Inv => TwiceOnlyIfUnmarked
  <2> SUFFICES ASSUME Inv, ~hist.unmarked, NEW i \in Items
               PROVE  uploaded[i] <= 1 /\ (row[i].status = "FAILED" => uploaded[i] = 0)
    BY DEF TwiceOnlyIfUnmarked
  <2>1. uploaded[i] \in Nat
    BY DEF Inv, Types, TypeOK
  <2> QED BY <2>1 DEF Inv, UploadedOnce, SoundRows
<1> QED BY <1>1, QueueInv, PTL

\* What is DONE or purged was uploaded, whatever was rolled back, and an item is
\* lost or stays PROCESSING only through a kill, an update that nothing catches,
\* or a foreign rollback (SyncWorker.ts:66-120, PurgeManager.ts:31-49).
THEOREM LossesAreKnown == Spec => []OnlyKnownLosses
<1>1. Inv => OnlyKnownLosses
  BY DEF Inv, SoundRows, Counted, OnlyKnownLosses
<1> QED BY <1>1, QueueInv, PTL
=============================================================================
