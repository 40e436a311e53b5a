-------------------------- MODULE SharedConnection --------------------------
(***************************************************************************)
(* The one op-sqlite connection that every service shares.  Enrollment and *)
(* erasure keep a transaction open across awaits; whatever runs meanwhile  *)
(* uses the same connection, so it sees uncommitted rows, an autocommit    *)
(* statement joins the open transaction, a second BEGIN throws, and the    *)
(* ROLLBACK in the catch of whoever failed ends whatever transaction is    *)
(* open.  Person keys live in the Keystore, outside any transaction.       *)
(*                                                                         *)
(* An action is the code between two awaits.  What an erasure leaves of    *)
(* the ledger's rows is the subject of Ledger; here they are only counted. *)
(* The candidate search beside these calls is the subject of               *)
(* CandidateSearch.                                                        *)
(***************************************************************************)
EXTENDS Embeddings, FiniteSets

CONSTANTS
  People,       \* personnel identifiers
  Tasks,        \* enroll and erase calls that can be in flight together
  Items,        \* sync_queue items
  Faces,        \* the embeddings that are ever enrolled or searched with
  Face,         \* the embedding each person enrolls
  MaxRows,      \* bound: no append is made once the ledger has this many rows
  Idle          \* opener when no transaction is open

ASSUME ConnectionAssumption ==
  /\ MaxRows \in Nat
  /\ Idle \notin Tasks
  /\ Face \in [People -> Faces]

VARIABLES
  db,       \* the tables as the connection sees them
  tx,       \* the transaction: is one open, are foreign keys deferred to its
            \* COMMIT, and the tables a ROLLBACK brings back
  keys,     \* people with a face_embed_key_ alias in the Keystore
  task,     \* where each enroll or erase call stands
  held,     \* the queue items that live sync workers are uploading
  opener,   \* history only: the call whose BEGIN opened the transaction
  told,     \* history only: what the synchronous writers reported as done
  hist      \* history only: what has gone wrong so far

vars == <<db, tx, keys, task, held, opener, told, hist>>

-----------------------------------------------------------------------------
(* The connection.                                                         *)

Status == {"absent", "PENDING", "PROCESSING", "DONE"}

Tables == [person : SUBSET People,     \* rows of personnel, all 'active'
           lsh : SUBSET People,        \* people with rows in lsh_index
           consent : SUBSET People,    \* people with a row in consent_log
           rows : Nat,                 \* rows of attendance_ledger
           item : [Items -> Status]]   \* sync_queue

Empty == [person |-> {}, lsh |-> {}, consent |-> {}, rows |-> 0,
          item |-> [i \in Items |-> "absent"]]

Closed == [open |-> FALSE, deferred |-> FALSE, saved |-> Empty]

\* What a crash, or a ROLLBACK, brings back.
Committed == IF tx.open THEN tx.saved ELSE db

\* lsh_index and consent_log reference personnel.
ForeignKeysHold(d) == d.lsh \cup d.consent \subseteq d.person

\* The statements that end a transaction; t is who executes them.
Ends(t) == hist' = [hist EXCEPT !.stolen = @ \/ (tx.open /\ opener # t)]

Close == tx' = Closed /\ opener' = Idle

Rollback(t) == db' = Committed /\ Close /\ Ends(t)

\* COMMIT leaves d behind.
CommitTo(d, t) ==
  /\ tx.open /\ ForeignKeysHold(d)
  /\ db' = d
  /\ Close /\ Ends(t)

NoTask == [pc |-> "none", p |-> {}]

Settle(t) == task' = [task EXCEPT ![t] = NoTask]

Goto(t, pc) == task' = [task EXCEPT ![t].pc = pc]

Init ==
  /\ db = Empty
  /\ tx = Closed
  /\ keys = {}
  /\ task = [t \in Tasks |-> NoTask]
  /\ held = {}
  /\ opener = Idle
  /\ told = [rows |-> 0, claimed |-> {}]
  /\ hist = [stolen |-> FALSE, killed |-> FALSE, uncleaned |-> FALSE,
             shredded |-> FALSE]

-----------------------------------------------------------------------------
(* enroll.                                                                 *)

Enroll(t, p) ==
  /\ task[t].pc = "none"
  /\ task' = [task EXCEPT ![t] = [pc |-> "generate", p |-> {p}]]
  /\ UNCHANGED <<db, tx, keys, held, opener, told, hist>>

\* Mutant: an alias that exists is replaced instead of refused.
GenerateKeyTwice(t) ==
  /\ task[t].pc = "generate"
  /\ keys' = keys \cup task[t].p
  /\ Goto(t, "wrap")
  /\ UNCHANGED <<db, tx, held, opener, told, hist>>

\* Mutant: the catch deletes the alias whether or not this call created it.
GenerateKeyCleansUp(t) ==
  /\ task[t].pc = "generate"
  /\ \/ /\ task[t].p \cap keys = {}
        /\ keys' = keys \cup task[t].p
        /\ Goto(t, "wrap")
     \/ /\ Goto(t, "cleanup")
        /\ UNCHANGED keys
  /\ UNCHANGED <<db, tx, held, opener, told, hist>>

\* generatePersonKey refuses an alias that exists; enroll then rejects and,
\* as it created no key, deletes none.
GenerateKey(t) ==
  /\ task[t].pc = "generate"
  /\ \/ /\ task[t].p \cap keys = {}
        /\ keys' = keys \cup task[t].p
        /\ Goto(t, "wrap")
     \/ /\ Settle(t)
        /\ UNCHANGED keys
  /\ UNCHANGED <<db, tx, held, opener, told, hist>>

\* Mutant: personKeyCreated is set only after the key has been used.
WrapKeyForgets(t) ==
  /\ task[t].pc = "wrap"
  /\ \/ task[t].p \subseteq keys /\ Goto(t, "begin")
     \/ Settle(t)
  /\ UNCHANGED <<db, tx, keys, held, opener, told, hist>>

\* The DEK is wrapped with the person's key and the administrator's.
WrapKey(t) ==
  /\ task[t].pc = "wrap"
  /\ \/ task[t].p \subseteq keys /\ Goto(t, "begin")
     \/ Goto(t, "cleanup")
  /\ UNCHANGED <<db, tx, keys, held, opener, told, hist>>

\* BEGIN IMMEDIATE and defer_foreign_keys.  When a transaction is open BEGIN
\* throws, and the catch rolls that transaction back.
BeginEnroll(t) ==
  /\ task[t].pc = "begin"
  /\ IF tx.open
     THEN Rollback(t) /\ Goto(t, "cleanup")
     ELSE /\ tx' = [open |-> TRUE, deferred |-> TRUE, saved |-> db]
          /\ opener' = t
          /\ Goto(t, "index")
          /\ UNCHANGED <<db, hist>>
  /\ UNCHANGED <<keys, held, told>>

\* The embeddings that indexEmbedding and query accept.
Normalised == {e \in Faces : L2Normalised(e)}

\* The bucket keys are computed: the lsh_index rows go in, by now perhaps
\* with another transaction open, or with none.
IndexPerson(t) ==
  /\ task[t].pc = "index"
  /\ \A p \in task[t].p : Face[p] \in Normalised
  /\ tx.deferred \/ task[t].p \subseteq db.person
  /\ db' = [db EXCEPT !.lsh = @ \cup task[t].p]
  /\ Goto(t, "insert")
  /\ UNCHANGED <<tx, keys, held, opener, told, hist>>

\* Mutant: consent_log is written after the COMMIT, which may never happen.
InsertPersonOnly(t) ==
  /\ task[t].pc = "insert"
  /\ task[t].p \cap db.person = {}
  /\ CommitTo([db EXCEPT !.person = @ \cup task[t].p], t)
  /\ Settle(t)
  /\ UNCHANGED <<keys, held, told>>

\* Mutant: an INSERT or COMMIT that throws is logged, and enroll resolves.
InsertPersonSwallows(t) ==
  LET d == [db EXCEPT !.person = @ \cup task[t].p,
                      !.consent = @ \cup task[t].p] IN
  /\ task[t].pc = "insert"
  /\ task[t].p \cap db.person = {}
  /\ \/ CommitTo(d, t)
     \/ /\ ~tx.open
        /\ db' \in {d, [d EXCEPT !.consent = db.consent]}
        /\ UNCHANGED <<tx, opener, hist>>
  /\ Settle(t)
  /\ UNCHANGED <<keys, held, told>>

\* The embedding is encrypted: personnel and consent_log rows, then COMMIT,
\* which throws when no transaction is open or a foreign key is missing.
InsertPerson(t) ==
  LET d == [db EXCEPT !.person = @ \cup task[t].p,
                      !.consent = @ \cup task[t].p] IN
  /\ task[t].pc = "insert"
  /\ task[t].p \cap db.person = {}
  /\ \/ /\ CommitTo(d, t)
        /\ Settle(t)
     \/ /\ ~tx.open
        /\ db' \in {d, [d EXCEPT !.consent = db.consent]}
        /\ Goto(t, "cleanup")
        /\ UNCHANGED <<tx, opener, hist>>
  /\ UNCHANGED <<keys, held, told>>

\* Hashing, encryption, an INSERT or the COMMIT throws: ROLLBACK.
EnrollFails(t) ==
  /\ task[t].pc \in {"index", "insert"}
  /\ Rollback(t)
  /\ Goto(t, "cleanup")
  /\ UNCHANGED <<keys, held, told>>

\* enroll's catch deletes the key it created, if the Keystore lets it.
Cleanup(t) ==
  /\ task[t].pc = "cleanup"
  /\ Settle(t)
  /\ \/ keys' = keys \ task[t].p /\ UNCHANGED hist
     \/ hist' = [hist EXCEPT !.uncleaned = TRUE] /\ UNCHANGED keys
  /\ UNCHANGED <<db, tx, held, opener, told>>

-----------------------------------------------------------------------------
(* execute, of ErasureService.                                             *)

\* The person is looked up and BEGIN TRANSACTION executed.  When a
\* transaction is open BEGIN throws and nothing is rolled back: the call
\* rejects with no effect, which is no step here.
Erase(t, p) ==
  /\ task[t].pc = "none"
  /\ p \in db.person
  /\ ~tx.open
  /\ tx' = [open |-> TRUE, deferred |-> FALSE, saved |-> db]
  /\ opener' = t
  /\ task' = [task EXCEPT ![t] = [pc |-> "backfill", p |-> {p}]]
  /\ UNCHANGED <<db, keys, held, told, hist>>

\* The payload hashes are there: the soft purge.
PurgeRows(t) ==
  /\ task[t].pc = "backfill"
  /\ db' = [db EXCEPT !.person = @ \ task[t].p, !.lsh = @ \ task[t].p,
                      !.consent = @ \ task[t].p]
  /\ Goto(t, "purged")
  /\ UNCHANGED <<tx, keys, held, opener, told, hist>>

\* The hard purge; KEY_NOT_FOUND is one of the failures of EraseFails.
DestroyKey(t) ==
  /\ task[t].pc = "purged"
  /\ task[t].p \subseteq keys
  /\ keys' = keys \ task[t].p
  /\ Goto(t, "destroyed")
  /\ UNCHANGED <<db, tx, held, opener, told, hist>>

EraseCommits(t) ==
  /\ task[t].pc = "destroyed"
  /\ CommitTo(db, t)
  /\ Goto(t, "receipt")
  /\ UNCHANGED <<keys, held, told>>

\* Mutant: transactionOpen is cleared before COMMIT rather than after it, so a
\* COMMIT that throws is not followed by ROLLBACK.
EraseFailsOpen(t) ==
  /\ task[t].pc \in {"backfill", "purged", "destroyed"}
  /\ IF task[t].pc = "destroyed"
     THEN UNCHANGED <<db, tx, opener, hist>>
     ELSE Rollback(t)
  /\ Settle(t)
  /\ UNCHANGED <<keys, held, told>>

\* The backfill, the purge, the key's destruction or the COMMIT throws:
\* transactionOpen is set, so the catch executes ROLLBACK.
EraseFails(t) ==
  /\ task[t].pc \in {"backfill", "purged", "destroyed"}
  /\ db' = Committed
  /\ Close
  /\ hist' = [hist EXCEPT
       !.stolen = @ \/ (tx.open /\ opener # t),
       !.shredded = @ \/ (task[t].pc = "destroyed" /\ tx.open)]
  /\ Settle(t)
  /\ UNCHANGED <<keys, held, told>>

\* The receipt is uploaded or queued and the ERASURE event recorded.
EraseReturns(t) ==
  /\ task[t].pc = "receipt"
  /\ Settle(t)
  /\ UNCHANGED <<db, tx, keys, held, opener, told, hist>>

-----------------------------------------------------------------------------
(* The synchronous writers: each runs in one piece, but perhaps between two *)
(* steps of a call that has a transaction open.                            *)

\* insertLedgerRows: BEGIN IMMEDIATE, two INSERTs, COMMIT; or the catch.
InsertLedgerRows ==
  /\ db.rows < MaxRows
  /\ IF tx.open
     THEN Rollback(Idle) /\ UNCHANGED told
     ELSE /\ db' = [db EXCEPT !.rows = @ + 1]
          /\ told' = [told EXCEPT !.rows = @ + 1]
          /\ UNCHANGED <<tx, opener, hist>>
  /\ UNCHANGED <<keys, task, held>>

\* addItem: one INSERT, in whatever transaction is open.
AddItem(i) ==
  /\ db.item[i] = "absent"
  /\ db' = [db EXCEPT !.item[i] = "PENDING"]
  /\ UNCHANGED <<tx, keys, task, held, opener, told, hist>>

\* Mutant: the claim is one UPDATE without BEGIN and COMMIT.
ReadNextJoins(i) ==
  /\ db.item[i] = "PENDING"
  /\ db' = [db EXCEPT !.item[i] = "PROCESSING"]
  /\ held' = held \cup {i}
  /\ told' = [told EXCEPT !.claimed = @ \cup {i}]
  /\ UNCHANGED <<tx, keys, task, opener, hist>>

\* readNext: BEGIN IMMEDIATE, SELECT, UPDATE, COMMIT; or the catch.
ReadNext(i) ==
  /\ IF tx.open
     THEN Rollback(Idle) /\ UNCHANGED <<held, told>>
     ELSE /\ db.item[i] = "PENDING"
          /\ db' = [db EXCEPT !.item[i] = "PROCESSING"]
          /\ held' = held \cup {i}
          /\ told' = [told EXCEPT !.claimed = @ \cup {i}]
          /\ UNCHANGED <<tx, opener, hist>>
  /\ UNCHANGED <<keys, task>>

\* updateStatus(id, 'DONE') after the upload: one UPDATE, in whatever
\* transaction is open.
FinishItem(i) ==
  /\ i \in held
  /\ held' = held \ {i}
  /\ db' = [db EXCEPT !.item[i] = "DONE"]
  /\ UNCHANGED <<tx, keys, task, opener, told, hist>>

-----------------------------------------------------------------------------
\* The process is killed: SQLite recovers what was committed, the Keystore
\* keeps its keys.
Kill ==
  /\ db' = Committed
  /\ Close
  /\ task' = [t \in Tasks |-> NoTask]
  /\ held' = {}
  /\ hist' = [hist EXCEPT !.killed = TRUE,
       !.shredded = @ \/ \E t \in Tasks : task[t].pc = "destroyed" /\ tx.open]
  /\ UNCHANGED <<keys, told>>

EnrollStep(t) == GenerateKey(t) \/ WrapKey(t) \/ BeginEnroll(t) \/ IndexPerson(t)
                   \/ InsertPerson(t) \/ EnrollFails(t) \/ Cleanup(t)

EraseStep(t) == PurgeRows(t) \/ DestroyKey(t) \/ EraseCommits(t)
                  \/ EraseFails(t) \/ EraseReturns(t)

Step ==
  \/ \E t \in Tasks : \/ \E p \in People : Enroll(t, p) \/ Erase(t, p)
                      \/ EnrollStep(t) \/ EraseStep(t)
  \/ InsertLedgerRows
  \/ \E i \in Items : AddItem(i) \/ ReadNext(i) \/ FinishItem(i)

Next == Step \/ Kill

Spec == Init /\ [][Next]_vars

-----------------------------------------------------------------------------
(* Properties.                                                             *)

EnrollPC == {"generate", "wrap", "begin", "index", "insert", "cleanup"}
ErasePC == {"backfill", "purged", "destroyed", "receipt"}

\* Every variable has its type.
TypeOK ==
  /\ db \in Tables
  /\ tx \in [open : BOOLEAN, deferred : BOOLEAN, saved : Tables]
  /\ keys \in SUBSET People
  /\ task \in [Tasks -> [pc : {"none"} \cup EnrollPC \cup ErasePC,
                         p : SUBSET People]]
  /\ held \in SUBSET Items
  /\ opener \in Tasks \cup {Idle}
  /\ told \in [rows : Nat, claimed : SUBSET Items]
  /\ hist \in [stolen : BOOLEAN, killed : BOOLEAN, uncleaned : BOOLEAN,
               shredded : BOOLEAN]

\* No transaction outlives the call that opened it: while one is open its
\* opener is at a step from which every way out executes COMMIT or ROLLBACK.
\* (A transaction left open would make every later BEGIN throw.)
NoLeakedTransaction ==
  tx.open => /\ opener \in Tasks
             /\ IF tx.deferred
                THEN task[opener].pc \in {"index", "insert"}
                ELSE task[opener].pc \in {"backfill", "purged", "destroyed"}

\* What the synchronous writers reported is committed, however transactions
\* interleave: a ledger append that resolved has its row on disk and one that
\* rejected has none, and an item readNext handed out is never PENDING again,
\* so it cannot be handed out twice.
ReportedIsCommitted ==
  /\ Committed.rows = told.rows
  /\ \A i \in told.claimed : Committed.item[i] \in {"PROCESSING", "DONE"}

\* Of every person, the committed personnel, lsh_index and consent_log rows
\* are all there or all missing, unless some call ended a transaction that
\* was another's.
TablesAgree ==
  \/ hist.stolen
  \/ /\ Committed.person = Committed.lsh
     /\ Committed.person = Committed.consent

InFlight(pcs) == UNION {task[t].p : t \in {u \in Tasks : task[u].pc \in pcs}}

\* Every committed person has a key, except one whose erasure is about to
\* commit, unless an erasure destroyed a key and did not commit (its COMMIT
\* failed or the process was killed before it), or a transaction was ended by
\* a call that had not opened it.
KeyForEveryPerson ==
  \/ hist.stolen \/ hist.shredded
  \/ Committed.person \subseteq keys \cup InFlight({"destroyed"})

\* Every key has a committed person, except one whose enrollment is in
\* flight, unless the process was killed, the Keystore refused the cleanup,
\* or a transaction was ended by a call that had not opened it.
PersonForEveryKey ==
  \/ hist.stolen \/ hist.uncleaned \/ hist.killed
  \/ keys \subseteq Committed.person
                      \cup InFlight({"wrap", "begin", "index", "insert", "cleanup"})

\* The tables, the index and the Keystore, which no transaction covers
\* together, agree between any two steps of any two calls
\* (EnrollmentService.ts:92-218, ErasureService.ts:193-256).
StoresAgree ==
  TablesAgree /\ KeyForEveryPerson /\ PersonForEveryKey

\* When enroll reports success the person and the consent are committed, even
\* if its own transaction was ended by another call and it committed a third
\* call's; and unless that happened, or an erasure destroyed a key without
\* committing, the person can be searched for and the key is there.
EnrolledIsThere ==
  [][\A t \in Tasks : InsertPerson(t) /\ task'[t] = NoTask
       => /\ task[t].p \subseteq Committed'.person \cap Committed'.consent
          /\ hist'.stolen \/ hist'.shredded
               \/ task[t].p \subseteq Committed'.lsh \cap keys']_vars

\* What the documentation says of a completed erasure: the personnel row, the
\* lsh_index rows and the consent records are deleted.
ErasedMeansGone ==
  [][\A t \in Tasks : task[t].pc = "destroyed" /\ task'[t].pc = "receipt"
       => task[t].p \cap (Committed'.person \cup Committed'.lsh
                            \cup Committed'.consent) = {}]_vars
=============================================================================
