----------------------- MODULE SharedConnectionProofs -----------------------
(***************************************************************************)
(* Proofs about SharedConnection, for any people, calls, items and bound:  *)
(* its type invariant, that no transaction outlives the call that opened   *)
(* it, that what the synchronous writers reported is committed, and that   *)
(* the tables and the Keystore agree between any two steps, with what a    *)
(* resolved enroll says of them; and about CandidateSearch, what a search  *)
(* beside any number of these calls answers and why it rejects.            *)
(*                                                                         *)
(* ReportedIsCommitted speaks of the committed tables only, and a COMMIT   *)
(* replaces them by what the connection sees.  The inductive invariant     *)
(* says it of both: whatever is in an open transaction, its view has the   *)
(* reported rows and claims as well (IInv).  StoresAgree needs besides     *)
(* what the view is at every step of the opener (Transactions), and who    *)
(* holds which key meanwhile (Keystore).  The search's properties rest on  *)
(* both, and on its own invariant SInv.                                    *)
(***************************************************************************)
EXTENDS CandidateSearch, TLAPS

Reported(d) ==
  /\ d.rows = told.rows
  /\ \A i \in told.claimed : d.item[i] \in {"PROCESSING", "DONE"}

BothReported == Reported(db) /\ Reported(Committed)

IInv == TypeOK /\ NoLeakedTransaction /\ BothReported

Tx == [open : BOOLEAN, deferred : BOOLEAN, saved : Tables]
Call == [pc : {"none"} \cup EnrollPC \cup ErasePC, p : SUBSET People]
Told == [rows : Nat, claimed : SUBSET Items]
History == [stolen : BOOLEAN, killed : BOOLEAN, uncleaned : BOOLEAN,
            shredded : BOOLEAN]

-----------------------------------------------------------------------------
(* Facts about types.                                                      *)

LEMMA Types ==
  TypeOK <=> /\ db \in Tables /\ tx \in Tx /\ keys \in SUBSET People
             /\ task \in [Tasks -> Call] /\ held \in SUBSET Items
             /\ opener \in Tasks \cup {Idle}
             /\ told \in Told /\ hist \in History
BY DEF TypeOK, Tx, Call, Told, History

LEMMA ConstantTypes ==
  Empty \in Tables /\ Closed \in Tx /\ NoTask \in Call
<1>1. Empty \in Tables
  BY DEF Empty, Tables, Status
<1> QED
  BY <1>1 DEF Closed, Tx, NoTask, Call

LEMMA CommittedType ==
  ASSUME TypeOK
  PROVE  Committed \in Tables
BY Types DEF Committed, Tx

\* Where a call goes next, and where it settles.
LEMMA GotoType ==
  ASSUME TypeOK, NEW t \in Tasks,
         NEW pc \in {"none"} \cup EnrollPC \cup ErasePC, Goto(t, pc)
  PROVE  /\ task' \in [Tasks -> Call]
         /\ task'[t].pc = pc
         /\ \A u \in Tasks : u # t => task'[u] = task[u]
<1>1. task \in [Tasks -> Call] /\ task' = [task EXCEPT ![t].pc = pc]
  BY Types DEF Goto
<1>2. task[t] \in Call /\ [task[t] EXCEPT !.pc = pc] \in Call
  BY <1>1 DEF Call
<1> QED
  BY <1>1, <1>2 DEF Call

LEMMA SettleType ==
  ASSUME TypeOK, NEW t \in Tasks, Settle(t)
  PROVE  /\ task' \in [Tasks -> Call]
         /\ \A u \in Tasks : u # t => task'[u] = task[u]
<1>1. task \in [Tasks -> Call] /\ task' = [task EXCEPT ![t] = NoTask]
  BY Types DEF Settle
<1> QED
  BY <1>1, ConstantTypes

LEMMA EndsType ==
  ASSUME TypeOK, NEW t, Ends(t)
  PROVE  hist' \in History
<1> DEFINE b == hist.stolen \/ (tx.open /\ opener # t)
<1>1. hist \in History /\ b \in BOOLEAN
  BY Types
<1>2. hist' = [hist EXCEPT !.stolen = b]
  BY DEF Ends
<1> HIDE DEF b
<1> QED
  BY <1>1, <1>2 DEF History

\* After a statement that ended the transaction there is none to leak, and
\* what the connection sees is what is committed.
LEMMA Closing ==
  ASSUME Close
  PROVE  /\ tx' \in Tx /\ opener' \in Tasks \cup {Idle}
         /\ NoLeakedTransaction' /\ Committed' = db'
BY ConstantTypes DEF Close, Closed, NoLeakedTransaction, Committed

LEMMA RollingBack ==
  ASSUME IInv, NEW t, Rollback(t), told' = told
  PROVE  /\ db' \in Tables /\ tx' \in Tx /\ opener' \in Tasks \cup {Idle}
         /\ hist' \in History
         /\ NoLeakedTransaction' /\ BothReported'
<1>1. db' = Committed /\ Close /\ Ends(t) /\ TypeOK
  BY DEF Rollback, IInv
<1>2. Committed' = db'
  BY <1>1, Closing
<1>3. BothReported'
  BY <1>1, <1>2 DEF IInv, BothReported, Reported
<1> QED
  BY <1>1, <1>3, Closing, EndsType, CommittedType

LEMMA Committing ==
  ASSUME IInv, NEW d \in Tables, NEW t, CommitTo(d, t), told' = told,
         d.rows = db.rows, d.item = db.item
  PROVE  /\ db' \in Tables /\ tx' \in Tx /\ opener' \in Tasks \cup {Idle}
         /\ hist' \in History
         /\ NoLeakedTransaction' /\ BothReported'
<1>1. db' = d /\ Close /\ Ends(t) /\ TypeOK
  BY DEF CommitTo, IInv
<1>2. Committed' = db'
  BY <1>1, Closing
<1>3. BothReported'
  BY <1>1, <1>2 DEF IInv, BothReported, Reported
<1> QED
  BY <1>1, <1>3, Closing, EndsType

\* A step that leaves the transaction, its opener and the reports alone, and
\* of the tables changes at most who is in them.
LEMMA Inside ==
  ASSUME IInv, UNCHANGED <<tx, opener, told>>, db' \in Tables,
         db'.rows = db.rows, db'.item = db.item
  PROVE  BothReported'
BY DEF IInv, BothReported, Reported, Committed

\* While call t works outside any transaction, or stays within its own, the
\* open transaction still has its opener.
LEMMA StillOpened ==
  ASSUME TypeOK, NoLeakedTransaction, NEW t \in Tasks, UNCHANGED <<tx, opener>>,
         \A u \in Tasks : u # t => task'[u] = task[u],
         \/ task[t].pc \notin {"index", "insert", "backfill", "purged", "destroyed"}
         \/ task[t].pc = "index" /\ task'[t].pc = "insert"
         \/ task[t].pc \in {"backfill", "purged"}
              /\ task'[t].pc \in {"purged", "destroyed"}
         \/ ~tx.open
  PROVE  NoLeakedTransaction'
BY DEF NoLeakedTransaction

-----------------------------------------------------------------------------
(* enroll.                                                                 *)

LEMMA InitIInv == Init => IInv
<1> SUFFICES ASSUME Init PROVE IInv
  OBVIOUS
<1>1. TypeOK
  BY ConstantTypes, Types DEF Init, Told, History
<1>2. NoLeakedTransaction /\ BothReported
  BY DEF Init, Closed, Empty, NoLeakedTransaction, BothReported, Reported,
         Committed
<1> QED
  BY <1>1, <1>2 DEF IInv

LEMMA EnrollIInv ==
  ASSUME IInv, NEW t \in Tasks, NEW p \in People, Enroll(t, p)
  PROVE  IInv'
<1>1. TypeOK /\ NoLeakedTransaction /\ BothReported /\ task \in [Tasks -> Call]
  BY Types DEF IInv
<1>2. /\ task[t].pc = "none"
      /\ task' = [task EXCEPT ![t] = [pc |-> "generate", p |-> {p}]]
      /\ UNCHANGED <<db, tx, keys, held, opener, told, hist>>
  BY DEF Enroll
<1>3. [pc |-> "generate", p |-> {p}] \in Call
  BY DEF Call, EnrollPC
<1>4. task' \in [Tasks -> Call] /\ \A u \in Tasks : u # t => task'[u] = task[u]
  BY <1>1, <1>2, <1>3
<1>5. TypeOK'
  BY <1>1, <1>2, <1>4, Types DEF TypeOK, Call
<1>6. NoLeakedTransaction'
  BY <1>1, <1>2, <1>4, StillOpened
<1>7. BothReported'
  BY <1>1, <1>2 DEF BothReported, Reported, Committed
<1> QED
  BY <1>5, <1>6, <1>7 DEF IInv

\* A step of call t outside its transaction that touches keys, history and
\* its own place only.
LEMMA OutsideIInv ==
  ASSUME IInv, NEW t \in Tasks, UNCHANGED <<db, tx, held, opener, told>>,
         task[t].pc \notin {"index", "insert", "backfill", "purged", "destroyed"},
         task' \in [Tasks -> Call],
         \A u \in Tasks : u # t => task'[u] = task[u],
         keys' \in SUBSET People, hist' \in History
  PROVE  IInv'
<1>1. TypeOK /\ NoLeakedTransaction /\ BothReported
  BY DEF IInv
<1>2. TypeOK'
  BY <1>1, Types DEF TypeOK, Call, History
<1>3. NoLeakedTransaction'
  BY <1>1, StillOpened
<1>4. BothReported'
  BY <1>1 DEF BothReported, Reported, Committed
<1> QED
  BY <1>2, <1>3, <1>4 DEF IInv

LEMMA GenerateKeyIInv ==
  ASSUME IInv, NEW t \in Tasks, GenerateKey(t)
  PROVE  IInv'
<1>1. TypeOK /\ task[t] \in Call /\ task[t].pc = "generate" /\ hist \in History
         /\ keys \in SUBSET People
  BY Types DEF IInv, GenerateKey
<1>2. task[t].p \in SUBSET People
  BY <1>1 DEF Call
<1>3. UNCHANGED <<db, tx, held, opener, told, hist>>
  BY DEF GenerateKey
<1>4. CASE keys' = keys \cup task[t].p /\ Goto(t, "wrap")
  <2>1. "wrap" \in {"none"} \cup EnrollPC \cup ErasePC
    BY DEF EnrollPC
  <2>2. keys' \in SUBSET People
    BY <1>1, <1>2, <1>4
  <2> QED
    BY <1>1, <1>3, <1>4, <2>1, <2>2, GotoType, OutsideIInv
<1>5. CASE Settle(t) /\ UNCHANGED keys
  BY <1>1, <1>3, <1>5, SettleType, OutsideIInv
<1> QED
  BY <1>4, <1>5 DEF GenerateKey

LEMMA WrapKeyIInv ==
  ASSUME IInv, NEW t \in Tasks, WrapKey(t)
  PROVE  IInv'
<1>1. TypeOK /\ task[t].pc = "wrap" /\ hist \in History /\ keys \in SUBSET People
  BY Types DEF IInv, WrapKey
<1>2. UNCHANGED <<db, tx, keys, held, opener, told, hist>>
  BY DEF WrapKey
<1>3. {"begin", "cleanup"} \subseteq {"none"} \cup EnrollPC \cup ErasePC
  BY DEF EnrollPC
<1>4. PICK pc \in {"begin", "cleanup"} : Goto(t, pc)
  BY DEF WrapKey
<1> QED
  BY <1>1, <1>2, <1>3, <1>4, GotoType, OutsideIInv

LEMMA BeginEnrollIInv ==
  ASSUME IInv, NEW t \in Tasks, BeginEnroll(t)
  PROVE  IInv'
<1>1. TypeOK /\ BothReported /\ db \in Tables
  BY Types DEF IInv
<1>2. /\ task[t].pc = "begin"
      /\ UNCHANGED <<keys, held, told>>
  BY DEF BeginEnroll
<1>3. {"index", "cleanup"} \subseteq {"none"} \cup EnrollPC \cup ErasePC
  BY DEF EnrollPC
<1>4. CASE tx.open
  <2>1. Rollback(t) /\ Goto(t, "cleanup")
    BY <1>4 DEF BeginEnroll
  <2>2. /\ db' \in Tables /\ tx' \in Tx /\ opener' \in Tasks \cup {Idle}
        /\ hist' \in History
        /\ NoLeakedTransaction' /\ BothReported'
    BY <1>2, <2>1, RollingBack
  <2>3. task' \in [Tasks -> Call]
    BY <1>1, <1>3, <2>1, GotoType
  <2>4. TypeOK'
    BY <1>1, <1>2, <2>2, <2>3, Types DEF TypeOK, Tx, Call, History
  <2> QED
    BY <2>2, <2>4 DEF IInv
<1>5. CASE ~tx.open
  <2>1. /\ tx' = [open |-> TRUE, deferred |-> TRUE, saved |-> db]
        /\ opener' = t
        /\ Goto(t, "index")
        /\ UNCHANGED <<db, hist>>
    BY <1>5 DEF BeginEnroll
  <2>2. tx' \in Tx
    BY <1>1, <2>1 DEF Tx
  <2>3. task' \in [Tasks -> Call] /\ task'[t].pc = "index"
    BY <1>1, <1>3, <2>1, GotoType
  <2>4. TypeOK'
    BY <1>1, <1>2, <2>1, <2>2, <2>3, Types DEF TypeOK, Tx, Call
  <2>5. NoLeakedTransaction'
    BY <2>1, <2>3 DEF NoLeakedTransaction
  <2>6. BothReported'
    BY <1>1, <1>2, <2>1 DEF BothReported, Reported, Committed
  <2> QED
    BY <2>4, <2>5, <2>6 DEF IInv
<1> QED
  BY <1>4, <1>5

\* A call that ends the open transaction, or finds none, and moves on.
LEMMA EndingIInv ==
  ASSUME IInv, NEW t \in Tasks, task' \in [Tasks -> Call],
         keys' \in SUBSET People, held' \in SUBSET Items, told' = told,
         db' \in Tables, tx' \in Tx, opener' \in Tasks \cup {Idle},
         hist' \in History, NoLeakedTransaction', BothReported'
  PROVE  IInv'
<1>1. told' \in Told
  BY Types DEF IInv
<1> QED
  BY <1>1 DEF IInv, TypeOK, Tx, Call, History, Told

LEMMA IndexPersonIInv ==
  ASSUME IInv, NEW t \in Tasks, IndexPerson(t)
  PROVE  IInv'
<1>1. /\ TypeOK /\ NoLeakedTransaction /\ db \in Tables /\ tx \in Tx
      /\ keys \in SUBSET People /\ held \in SUBSET Items /\ hist \in History
      /\ opener \in Tasks \cup {Idle} /\ task[t] \in Call
  BY Types DEF IInv
<1>2. /\ task[t].pc = "index"
      /\ db' = [db EXCEPT !.lsh = @ \cup task[t].p]
      /\ UNCHANGED <<tx, keys, held, opener, told, hist>>
      /\ Goto(t, "insert")
  BY DEF IndexPerson
<1>3. db' \in Tables /\ db'.rows = db.rows /\ db'.item = db.item
  <2>1. task[t].p \in SUBSET People
    BY <1>1 DEF Call
  <2> QED
    BY <1>1, <1>2, <2>1 DEF Tables
<1>4. "insert" \in {"none"} \cup EnrollPC \cup ErasePC
  BY DEF EnrollPC
<1>5. /\ task' \in [Tasks -> Call] /\ task'[t].pc = "insert"
      /\ \A u \in Tasks : u # t => task'[u] = task[u]
  BY <1>1, <1>2, <1>4, GotoType
<1>6. NoLeakedTransaction'
  BY <1>1, <1>2, <1>5, StillOpened
<1>7. BothReported'
  BY <1>2, <1>3, Inside
<1> QED
  BY <1>1, <1>2, <1>3, <1>5, <1>6, <1>7, EndingIInv

LEMMA InsertPersonIInv ==
  ASSUME IInv, NEW t \in Tasks, InsertPerson(t)
  PROVE  IInv'
<1> DEFINE d == [db EXCEPT !.person = @ \cup task[t].p,
                           !.consent = @ \cup task[t].p]
           e == [d EXCEPT !.consent = db.consent]
<1>1. /\ TypeOK /\ NoLeakedTransaction /\ db \in Tables /\ tx \in Tx
      /\ keys \in SUBSET People /\ held \in SUBSET Items /\ hist \in History
      /\ opener \in Tasks \cup {Idle} /\ task[t] \in Call
  BY Types DEF IInv
<1>2. task[t].p \in SUBSET People
  BY <1>1 DEF Call
<1>3. d \in Tables /\ d.rows = db.rows /\ d.item = db.item
  BY <1>1, <1>2 DEF Tables
<1>4. e \in Tables /\ e.rows = db.rows /\ e.item = db.item
  BY <1>1, <1>2 DEF Tables
<1> HIDE DEF d, e
<1>5. UNCHANGED <<keys, held, told>>
  BY DEF InsertPerson
<1>6. CASE CommitTo(d, t) /\ Settle(t)
  <2>1. task' \in [Tasks -> Call]
    BY <1>1, <1>6, SettleType
  <2> QED
    BY <1>1, <1>3, <1>5, <1>6, <2>1, Committing, EndingIInv
<1>7. CASE /\ ~tx.open /\ db' \in {d, e}
           /\ Goto(t, "cleanup") /\ UNCHANGED <<tx, opener, hist>>
  <2>1. "cleanup" \in {"none"} \cup EnrollPC \cup ErasePC
    BY DEF EnrollPC
  <2>2. /\ task' \in [Tasks -> Call]
        /\ \A u \in Tasks : u # t => task'[u] = task[u]
    BY <1>1, <1>7, <2>1, GotoType
  <2>3. NoLeakedTransaction'
    BY <1>7 DEF NoLeakedTransaction
  <2>4. db' \in Tables /\ db'.rows = db.rows /\ db'.item = db.item
    BY <1>3, <1>4, <1>7
  <2>5. BothReported'
    BY <1>5, <1>7, <2>4, Inside
  <2> QED
    BY <1>1, <1>5, <1>7, <2>2, <2>3, <2>4, <2>5, EndingIInv
<1> QED
  BY <1>6, <1>7 DEF InsertPerson, d, e

LEMMA EnrollFailsIInv ==
  ASSUME IInv, NEW t \in Tasks, EnrollFails(t)
  PROVE  IInv'
<1>1. TypeOK /\ keys \in SUBSET People /\ held \in SUBSET Items
  BY Types DEF IInv
<1>2. Rollback(t) /\ Goto(t, "cleanup") /\ UNCHANGED <<keys, held, told>>
  BY DEF EnrollFails
<1>3. task' \in [Tasks -> Call]
  BY <1>1, <1>2, GotoType DEF EnrollPC
<1> QED
  BY <1>1, <1>2, <1>3, RollingBack, EndingIInv

LEMMA CleanupIInv ==
  ASSUME IInv, NEW t \in Tasks, Cleanup(t)
  PROVE  IInv'
<1>1. TypeOK /\ hist \in History /\ keys \in SUBSET People
  BY Types DEF IInv
<1>2. /\ task[t].pc = "cleanup" /\ Settle(t)
      /\ UNCHANGED <<db, tx, held, opener, told>>
  BY DEF Cleanup
<1>3. keys' \in SUBSET People
  BY <1>1 DEF Cleanup
<1>4. hist' \in History
  BY <1>1 DEF Cleanup, History
<1> QED
  BY <1>1, <1>2, <1>3, <1>4, SettleType, OutsideIInv

-----------------------------------------------------------------------------
(* execute.                                                                *)

LEMMA EraseIInv ==
  ASSUME IInv, NEW t \in Tasks, NEW p \in People, Erase(t, p)
  PROVE  IInv'
<1>1. /\ TypeOK /\ BothReported /\ db \in Tables /\ task \in [Tasks -> Call]
      /\ keys \in SUBSET People /\ held \in SUBSET Items /\ hist \in History
  BY Types DEF IInv
<1>2. /\ ~tx.open
      /\ tx' = [open |-> TRUE, deferred |-> FALSE, saved |-> db]
      /\ opener' = t
      /\ task' = [task EXCEPT ![t] = [pc |-> "backfill", p |-> {p}]]
      /\ UNCHANGED <<db, keys, held, told, hist>>
  BY DEF Erase
<1>3. [pc |-> "backfill", p |-> {p}] \in Call
  BY DEF Call, ErasePC
<1>4. task' \in [Tasks -> Call] /\ task'[t].pc = "backfill"
  BY <1>1, <1>2, <1>3
<1>5. tx' \in Tx
  BY <1>1, <1>2 DEF Tx
<1>6. NoLeakedTransaction'
  BY <1>2, <1>4 DEF NoLeakedTransaction
<1>7. BothReported'
  BY <1>1, <1>2 DEF BothReported, Reported, Committed
<1> QED
  BY <1>1, <1>2, <1>4, <1>5, <1>6, <1>7, EndingIInv

LEMMA PurgeRowsIInv ==
  ASSUME IInv, NEW t \in Tasks, PurgeRows(t)
  PROVE  IInv'
<1>1. /\ TypeOK /\ NoLeakedTransaction /\ db \in Tables /\ tx \in Tx
      /\ keys \in SUBSET People /\ held \in SUBSET Items /\ hist \in History
      /\ opener \in Tasks \cup {Idle}
  BY Types DEF IInv
<1>2. /\ task[t].pc = "backfill"
      /\ db' = [db EXCEPT !.person = @ \ task[t].p, !.lsh = @ \ task[t].p,
                          !.consent = @ \ task[t].p]
      /\ Goto(t, "purged")
      /\ UNCHANGED <<tx, keys, held, opener, told, hist>>
  BY DEF PurgeRows
<1>3. db' \in Tables /\ db'.rows = db.rows /\ db'.item = db.item
  BY <1>1, <1>2 DEF Tables
<1>4. "purged" \in {"none"} \cup EnrollPC \cup ErasePC
  BY DEF ErasePC
<1>5. /\ task' \in [Tasks -> Call] /\ task'[t].pc = "purged"
      /\ \A u \in Tasks : u # t => task'[u] = task[u]
  BY <1>1, <1>2, <1>4, GotoType
<1>6. NoLeakedTransaction'
  BY <1>1, <1>2, <1>5, StillOpened
<1>7. BothReported'
  BY <1>2, <1>3, Inside
<1> QED
  BY <1>1, <1>2, <1>3, <1>5, <1>6, <1>7, EndingIInv

LEMMA DestroyKeyIInv ==
  ASSUME IInv, NEW t \in Tasks, DestroyKey(t)
  PROVE  IInv'
<1>1. /\ TypeOK /\ NoLeakedTransaction /\ db \in Tables /\ tx \in Tx
      /\ keys \in SUBSET People /\ held \in SUBSET Items /\ hist \in History
      /\ opener \in Tasks \cup {Idle}
  BY Types DEF IInv
<1>2. /\ task[t].pc = "purged"
      /\ keys' = keys \ task[t].p
      /\ Goto(t, "destroyed")
      /\ UNCHANGED <<db, tx, held, opener, told, hist>>
  BY DEF DestroyKey
<1>3. "destroyed" \in {"none"} \cup EnrollPC \cup ErasePC
  BY DEF ErasePC
<1>4. /\ task' \in [Tasks -> Call] /\ task'[t].pc = "destroyed"
      /\ \A u \in Tasks : u # t => task'[u] = task[u]
  BY <1>1, <1>2, <1>3, GotoType
<1>5. NoLeakedTransaction'
  BY <1>1, <1>2, <1>4, StillOpened
<1>6. BothReported'
  BY <1>1, <1>2, Inside
<1>7. keys' \in SUBSET People
  BY <1>1, <1>2
<1> QED
  BY <1>1, <1>2, <1>4, <1>5, <1>6, <1>7, EndingIInv

LEMMA EraseCommitsIInv ==
  ASSUME IInv, NEW t \in Tasks, EraseCommits(t)
  PROVE  IInv'
<1>1. /\ TypeOK /\ db \in Tables /\ keys \in SUBSET People
      /\ held \in SUBSET Items
  BY Types DEF IInv
<1>2. CommitTo(db, t) /\ Goto(t, "receipt") /\ UNCHANGED <<keys, held, told>>
  BY DEF EraseCommits
<1>3. task' \in [Tasks -> Call]
  BY <1>1, <1>2, GotoType DEF ErasePC
<1> QED
  BY <1>1, <1>2, <1>3, Committing, EndingIInv

LEMMA EraseFailsIInv ==
  ASSUME IInv, NEW t \in Tasks, EraseFails(t)
  PROVE  IInv'
<1>1. TypeOK /\ keys \in SUBSET People /\ held \in SUBSET Items
        /\ hist \in History
  BY Types DEF IInv
<1>2. /\ db' = Committed /\ Close /\ Settle(t)
      /\ UNCHANGED <<keys, held, told>>
  BY DEF EraseFails
<1>3. hist' \in History
  <2> DEFINE b == hist.stolen \/ (tx.open /\ opener # t)
             c == hist.shredded \/ (task[t].pc = "destroyed" /\ tx.open)
  <2>1. b \in BOOLEAN /\ c \in BOOLEAN
    BY <1>1
  <2>2. hist' = [hist EXCEPT !.stolen = b, !.shredded = c]
    BY DEF EraseFails
  <2> HIDE DEF b, c
  <2> QED
    BY <1>1, <2>1, <2>2 DEF History
<1>4. BothReported'
  BY <1>2, Closing DEF IInv, BothReported, Reported
<1>5. task' \in [Tasks -> Call]
  BY <1>1, <1>2, SettleType
<1> QED
  BY <1>1, <1>2, <1>3, <1>4, <1>5, Closing, CommittedType, EndingIInv

LEMMA EraseReturnsIInv ==
  ASSUME IInv, NEW t \in Tasks, EraseReturns(t)
  PROVE  IInv'
<1>1. TypeOK /\ hist \in History /\ keys \in SUBSET People
  BY Types DEF IInv
<1> QED
  BY <1>1, SettleType, OutsideIInv DEF EraseReturns

-----------------------------------------------------------------------------
(* The synchronous writers, and the process being killed.                  *)

LEMMA InsertLedgerRowsIInv ==
  ASSUME IInv, InsertLedgerRows
  PROVE  IInv'
<1>1. /\ TypeOK /\ BothReported /\ db \in Tables /\ tx \in Tx
      /\ keys \in SUBSET People /\ held \in SUBSET Items /\ hist \in History
      /\ opener \in Tasks \cup {Idle} /\ task \in [Tasks -> Call]
      /\ told \in Told
  BY Types DEF IInv
<1>2. UNCHANGED <<keys, task, held>>
  BY DEF InsertLedgerRows
<1>3. CASE tx.open
  <2>1. Rollback(Idle) /\ told' = told
    BY <1>3 DEF InsertLedgerRows
  <2>2. /\ db' \in Tables /\ tx' \in Tx /\ opener' \in Tasks \cup {Idle}
        /\ hist' \in History /\ NoLeakedTransaction' /\ BothReported'
    BY <2>1, RollingBack
  <2> QED
    BY <1>1, <1>2, <2>1, <2>2 DEF IInv, TypeOK, Tx, Call, History, Told
<1>4. CASE ~tx.open
  <2>1. /\ db' = [db EXCEPT !.rows = @ + 1]
        /\ told' = [told EXCEPT !.rows = @ + 1]
        /\ UNCHANGED <<tx, opener, hist>>
    BY <1>4 DEF InsertLedgerRows
  <2>2. db' \in Tables /\ db'.rows = db.rows + 1 /\ db'.item = db.item
    BY <1>1, <2>1 DEF Tables
  <2>3. told' \in Told /\ told'.rows = told.rows + 1 /\ told'.claimed = told.claimed
    BY <1>1, <2>1 DEF Told
  <2>4. BothReported'
    BY <1>1, <1>4, <2>1, <2>2, <2>3 DEF BothReported, Reported, Committed
  <2>5. NoLeakedTransaction'
    BY <1>4, <2>1 DEF NoLeakedTransaction
  <2> QED
    BY <1>1, <1>2, <2>1, <2>2, <2>3, <2>4, <2>5
       DEF IInv, TypeOK, Tx, Call, History, Told
<1> QED
  BY <1>3, <1>4

LEMMA ItemType ==
  ASSUME TypeOK, NEW i \in Items, NEW st \in Status,
         db' = [db EXCEPT !.item[i] = st]
  PROVE  /\ db' \in Tables /\ db'.rows = db.rows
         /\ db'.item[i] = st
         /\ \A k \in Items : k # i => db'.item[k] = db.item[k]
<1>1. db \in Tables /\ db.item \in [Items -> Status]
  BY Types DEF Tables
<1>2. [db.item EXCEPT ![i] = st] \in [Items -> Status]
  BY <1>1
<1>3. db' = [db EXCEPT !.item = [db.item EXCEPT ![i] = st]]
  BY <1>1 DEF Tables
<1>4. db'.item = [db.item EXCEPT ![i] = st] /\ db'.rows = db.rows
  BY <1>1, <1>3 DEF Tables
<1>5. db' \in Tables
  BY <1>1, <1>2, <1>3 DEF Tables
<1> QED
  BY <1>1, <1>4, <1>5

LEMMA AddItemIInv ==
  ASSUME IInv, NEW i \in Items, AddItem(i)
  PROVE  IInv'
<1>1. /\ TypeOK /\ NoLeakedTransaction /\ BothReported /\ told \in Told
  BY Types DEF IInv
<1>2. /\ db.item[i] = "absent"
      /\ db' = [db EXCEPT !.item[i] = "PENDING"]
      /\ UNCHANGED <<tx, keys, task, held, opener, told, hist>>
  BY DEF AddItem
<1>3. /\ db' \in Tables /\ db'.rows = db.rows
      /\ \A k \in Items : k # i => db'.item[k] = db.item[k]
  BY <1>1, <1>2, ItemType DEF Status
<1>4. i \notin told.claimed /\ told.claimed \subseteq Items
  BY <1>1, <1>2 DEF BothReported, Reported, Told
<1>5. BothReported'
  BY <1>1, <1>2, <1>3, <1>4 DEF BothReported, Reported, Committed
<1>6. NoLeakedTransaction'
  BY <1>1, <1>2 DEF NoLeakedTransaction
<1>7. TypeOK'
  BY <1>1, <1>2, <1>3 DEF TypeOK
<1> QED
  BY <1>5, <1>6, <1>7 DEF IInv

LEMMA FinishItemIInv ==
  ASSUME IInv, NEW i \in Items, FinishItem(i)
  PROVE  IInv'
<1>1. /\ TypeOK /\ NoLeakedTransaction /\ BothReported /\ told \in Told
      /\ held \in SUBSET Items
  BY Types DEF IInv
<1>2. /\ held' = held \ {i}
      /\ db' = [db EXCEPT !.item[i] = "DONE"]
      /\ UNCHANGED <<tx, keys, task, opener, told, hist>>
  BY DEF FinishItem
<1>3. /\ db' \in Tables /\ db'.rows = db.rows /\ db'.item[i] = "DONE"
      /\ \A k \in Items : k # i => db'.item[k] = db.item[k]
  BY <1>1, <1>2, ItemType DEF Status
<1>4. told.claimed \subseteq Items
  BY <1>1 DEF Told
<1>5. BothReported'
  BY <1>1, <1>2, <1>3, <1>4 DEF BothReported, Reported, Committed
<1>6. NoLeakedTransaction'
  BY <1>1, <1>2 DEF NoLeakedTransaction
<1>7. TypeOK'
  BY <1>1, <1>2, <1>3 DEF TypeOK
<1> QED
  BY <1>5, <1>6, <1>7 DEF IInv

LEMMA ReadNextIInv ==
  ASSUME IInv, NEW i \in Items, ReadNext(i)
  PROVE  IInv'
<1>1. /\ TypeOK /\ BothReported /\ db \in Tables /\ tx \in Tx
      /\ keys \in SUBSET People /\ held \in SUBSET Items /\ hist \in History
      /\ opener \in Tasks \cup {Idle} /\ task \in [Tasks -> Call]
      /\ told \in Told
  BY Types DEF IInv
<1>2. UNCHANGED <<keys, task>>
  BY DEF ReadNext
<1>3. CASE tx.open
  <2>1. Rollback(Idle) /\ told' = told /\ held' = held
    BY <1>3 DEF ReadNext
  <2>2. /\ db' \in Tables /\ tx' \in Tx /\ opener' \in Tasks \cup {Idle}
        /\ hist' \in History /\ NoLeakedTransaction' /\ BothReported'
    BY <2>1, RollingBack
  <2> QED
    BY <1>1, <1>2, <2>1, <2>2 DEF IInv, TypeOK, Tx, Call, History, Told
<1>4. CASE ~tx.open
  <2>1. /\ db' = [db EXCEPT !.item[i] = "PROCESSING"]
        /\ held' = held \cup {i}
        /\ told' = [told EXCEPT !.claimed = @ \cup {i}]
        /\ UNCHANGED <<tx, opener, hist>>
    BY <1>4 DEF ReadNext
  <2>2. /\ db' \in Tables /\ db'.rows = db.rows /\ db'.item[i] = "PROCESSING"
        /\ \A k \in Items : k # i => db'.item[k] = db.item[k]
    BY <1>1, <2>1, ItemType DEF Status
  <2>3. /\ told' \in Told /\ told'.rows = told.rows
        /\ told'.claimed = told.claimed \cup {i}
        /\ told.claimed \subseteq Items
    BY <1>1, <2>1 DEF Told
  <2>4. BothReported'
    BY <1>1, <1>4, <2>1, <2>2, <2>3 DEF BothReported, Reported, Committed
  <2>5. NoLeakedTransaction'
    BY <1>4, <2>1 DEF NoLeakedTransaction
  <2> QED
    BY <1>1, <1>2, <2>1, <2>2, <2>3, <2>4, <2>5
       DEF IInv, TypeOK, Tx, Call, History, Told
<1> QED
  BY <1>3, <1>4

LEMMA KillIInv ==
  ASSUME IInv, Kill
  PROVE  IInv'
<1>1. /\ TypeOK /\ keys \in SUBSET People /\ hist \in History /\ told \in Told
  BY Types DEF IInv
<1>2. /\ db' = Committed /\ Close /\ held' = {}
      /\ task' = [t \in Tasks |-> NoTask]
      /\ UNCHANGED <<keys, told>>
  BY DEF Kill
<1>3. hist' \in History
  <2> DEFINE c == hist.shredded
                    \/ \E t \in Tasks : task[t].pc = "destroyed" /\ tx.open
  <2>1. c \in BOOLEAN
    BY <1>1
  <2>2. hist' = [hist EXCEPT !.killed = TRUE, !.shredded = c]
    BY DEF Kill
  <2> HIDE DEF c
  <2> QED
    BY <1>1, <2>1, <2>2 DEF History
<1>4. task' \in [Tasks -> Call]
  BY <1>2, ConstantTypes
<1>5. BothReported'
  BY <1>2, Closing DEF IInv, BothReported, Reported
<1>6. db' \in Tables /\ tx' \in Tx /\ opener' \in Tasks \cup {Idle}
        /\ NoLeakedTransaction'
  BY <1>1, <1>2, Closing, CommittedType
<1> QED
  BY <1>1, <1>2, <1>3, <1>4, <1>5, <1>6
     DEF IInv, TypeOK, Tx, Call, History, Told

-----------------------------------------------------------------------------
(* The inductive invariant, and what follows from it.                      *)

LEMMA NextIInv ==
  ASSUME IInv, [Next]_vars
  PROVE  IInv'
<1>1. CASE UNCHANGED vars
  BY <1>1 DEF vars, IInv, TypeOK, NoLeakedTransaction, BothReported, Reported,
              Committed
<1>2. ASSUME NEW t \in Tasks, EnrollStep(t)
      PROVE  IInv'
  BY <1>2, GenerateKeyIInv, WrapKeyIInv, BeginEnrollIInv, IndexPersonIInv,
     InsertPersonIInv, EnrollFailsIInv, CleanupIInv DEF EnrollStep
<1>3. ASSUME NEW t \in Tasks, EraseStep(t)
      PROVE  IInv'
  BY <1>3, PurgeRowsIInv, DestroyKeyIInv, EraseCommitsIInv, EraseFailsIInv,
     EraseReturnsIInv DEF EraseStep
<1>4. ASSUME NEW i \in Items, AddItem(i) \/ ReadNext(i) \/ FinishItem(i)
      PROVE  IInv'
  BY <1>4, AddItemIInv, ReadNextIInv, FinishItemIInv
<1> QED
  BY <1>1, <1>2, <1>3, <1>4, EnrollIInv, EraseIInv, InsertLedgerRowsIInv,
     KillIInv DEF Next, Step

\* The invariant holds in every reachable state, for any people, calls and
\* items in flight together.
THEOREM Invariance == Spec => []IInv
<1>1. Init => IInv
  BY InitIInv
<1>2. IInv /\ [Next]_vars => IInv'
  BY NextIInv
<1> QED
  BY <1>1, <1>2, PTL DEF Spec

\* Every variable of the shared connection keeps its type.
THEOREM TypeCorrect == Spec => []TypeOK
<1>1. IInv => TypeOK
  BY DEF IInv
<1> QED
  BY <1>1, Invariance, PTL

\* No transaction outlives the enroll or erase call that opened it, however
\* many calls interleave and end each other's transactions.
THEOREM TransactionsAreOwned == Spec => []NoLeakedTransaction
<1>1. IInv => NoLeakedTransaction
  BY DEF IInv
<1> QED
  BY <1>1, Invariance, PTL

\* A ledger append that resolved has its row committed and one that rejected
\* has none, and an item that readNext handed out is never handed out again,
\* whatever transactions are open meanwhile.
THEOREM ReportsAreDurable == Spec => []ReportedIsCommitted
<1>1. IInv => ReportedIsCommitted
  BY DEF IInv, BothReported, Reported, ReportedIsCommitted
<1> QED
  BY <1>1, Invariance, PTL

-----------------------------------------------------------------------------
(* The tables and the Keystore, which no transaction covers together.      *)
(* Unless somebody ended a transaction that was another's, whoever is in   *)
(* one has the open one (Mine), so what the connection sees can be told    *)
(* from the step of its opener (Views); a key is destroyed only inside a   *)
(* transaction and made only outside, which is why of two calls about one  *)
(* person no more than one holds the key (Keyed).                          *)

Holding == {"wrap", "begin", "index", "insert", "cleanup"}
InErase == {"backfill", "purged", "destroyed"}
InTx == {"index", "insert"} \cup InErase

\* Who has a transaction to end has the open one.
Mine ==
  ~hist.stolen => \A t \in Tasks : task[t].pc \in InTx => tx.open /\ opener = t

SetsAre(d, person, lsh) == d.person = person /\ d.consent = person /\ d.lsh = lsh

\* What the connection sees of the person tables, step by step of its opener.
Seen(d, base, pc, p) ==
  /\ pc \in {"index", "backfill"} => SetsAre(d, base, base)
  /\ pc = "insert" => SetsAre(d, base, base \cup p)
  /\ pc \in {"purged", "destroyed"} => SetsAre(d, base \ p, base \ p)

Views ==
  ~hist.stolen =>
    /\ SetsAre(Committed, Committed.person, Committed.person)
    /\ tx.open => Seen(db, Committed.person, task[opener].pc, task[opener].p)

Erasing ==
  ~hist.stolen => \A t \in Tasks :
    task[t].pc \in InErase => task[t].p \subseteq Committed.person

Destroyed == InFlight({"destroyed"})

\* The committed have their keys, and whoever made a key holds it alone.
Keyed ==
  ~hist.stolen /\ ~hist.shredded =>
    /\ Committed.person \subseteq keys \cup Destroyed
    /\ \A t \in Tasks : task[t].pc \in Holding =>
         /\ task[t].p \subseteq keys
         /\ task[t].p \cap Committed.person \subseteq Destroyed
         /\ \A u \in Tasks \ {t} : task[u].pc \in Holding => task[t].p \cap task[u].p = {}

\* The keys have somebody who is committed or about to be.
Peopled ==
  ~hist.stolen /\ ~hist.uncleaned /\ ~hist.killed =>
    /\ keys \subseteq Committed.person \cup InFlight(Holding)
    /\ Destroyed \cap keys \subseteq InFlight(Holding)

Transactions == Mine /\ Views /\ Erasing
Keystore == Keyed /\ Peopled

LEMMA InFlightIs ==
  ASSUME NEW pcs, NEW x
  PROVE  x \in InFlight(pcs) <=> \E t \in Tasks : task[t].pc \in pcs /\ x \in task[t].p
BY DEF InFlight

LEMMA InFlightSame ==
  ASSUME NEW pcs,
         \A t \in Tasks : /\ task'[t].pc \in pcs <=> task[t].pc \in pcs
                          /\ task[t].pc \in pcs => task'[t].p = task[t].p
  PROVE  InFlight(pcs)' = InFlight(pcs)
BY DEF InFlight

\* Nothing a step without a transaction of its own does disturbs the open one.
LEMMA TransactionsRest ==
  ASSUME IInv, Transactions, UNCHANGED <<tx, opener>>, hist'.stolen = hist.stolen,
         db'.person = db.person, db'.lsh = db.lsh, db'.consent = db.consent,
         \A t \in Tasks : task'[t].pc \in InTx =>
           task'[t].pc = task[t].pc /\ task'[t].p = task[t].p
  PROVE  Transactions' /\ Committed'.person = Committed.person
<1>1. /\ Committed'.person = Committed.person /\ Committed'.lsh = Committed.lsh
      /\ Committed'.consent = Committed.consent
  BY DEF Committed
<1>2. Mine' /\ Erasing'
  BY <1>1 DEF Transactions, Mine, Erasing, InTx, InErase
<1>3. Views'
  <2>1. tx.open => opener \in Tasks
    BY DEF IInv, NoLeakedTransaction
  <2>2. ASSUME tx.open, ~hist.stolen
        PROVE  Seen(db', Committed'.person, task'[opener].pc, task'[opener].p)
    <3>1. CASE task'[opener].pc \in InTx
      BY <1>1, <2>1, <2>2, <3>1 DEF Transactions, Views, Seen, SetsAre
    <3>2. CASE task'[opener].pc \notin InTx
      BY <3>2 DEF Seen, InTx, InErase
    <3> QED BY <3>1, <3>2
  <2> QED BY <1>1, <2>2 DEF Transactions, Views, SetsAre
<1> QED BY <1>1, <1>2, <1>3 DEF Transactions

\* A transaction ends, and the connection sees what is committed.
LEMMA TransactionsEnd ==
  ASSUME Close,
         ~hist'.stolen => /\ \A t \in Tasks : task'[t].pc \notin InTx
                          /\ SetsAre(db', db'.person, db'.person)
  PROVE  Transactions' /\ Committed' = db'
<1>1. Committed' = db' /\ tx'.open = FALSE
  BY Closing DEF Close, Closed
<1> QED BY <1>1 DEF Transactions, Mine, Views, Erasing, InTx

\* Those who own a key and those who are committed stay as they are.
LEMMA KeystoreRests ==
  ASSUME Keystore, keys' = keys, Committed'.person = Committed.person,
         ~hist'.stolen => ~hist.stolen, ~hist'.shredded => ~hist.shredded,
         ~hist'.uncleaned => ~hist.uncleaned, ~hist'.killed => ~hist.killed,
         \A t \in Tasks :
           /\ task'[t].pc \in Holding <=> task[t].pc \in Holding
           /\ task'[t].pc = "destroyed" <=> task[t].pc = "destroyed"
           /\ task[t].pc \in Holding \cup {"destroyed"} => task'[t].p = task[t].p
  PROVE  Keystore'
<1>1. Destroyed' = Destroyed
  BY InFlightSame DEF Destroyed
<1>2. InFlight(Holding)' = InFlight(Holding)
  BY InFlightSame
<1> HIDE DEF InFlight, Destroyed
<1>3. Keyed'
  BY <1>1 DEF Keystore, Keyed
<1>4. Peopled'
  BY <1>1, <1>2 DEF Keystore, Peopled
<1> QED BY <1>3, <1>4 DEF Keystore

\* Once a transaction was stolen nothing is said any more.
LEMMA StolenSaysNothing ==
  ASSUME hist'.stolen
  PROVE  Transactions' /\ Keystore'
BY DEF Transactions, Keystore, Mine, Views, Erasing, Keyed, Peopled

\* What a search finds on the connection: of the personnel rows all are
\* indexed, and only an enrollment under way has index rows without one.
LEMMA ViewedPeople ==
  ASSUME IInv, Transactions, Keystore, ~hist.stolen
  PROVE  /\ db.person \subseteq db.lsh
         /\ db.lsh \subseteq db.person \cup InFlight({"insert"})
         /\ ~hist.shredded => db.person \subseteq keys
<1>1. \A t \in Tasks : task[t].pc \in InTx => tx.open /\ opener = t
  BY DEF Transactions, Mine
<1>2. ~hist.shredded => Committed.person \subseteq keys \cup Destroyed
  BY DEF Keystore, Keyed
<1>3. \A x : x \in Destroyed => \E t \in Tasks : task[t].pc = "destroyed" /\ x \in task[t].p
  BY InFlightIs DEF Destroyed
<1>4. CASE ~tx.open
  <2>1. Destroyed = {}
    BY <1>1, <1>3, <1>4 DEF InTx, InErase
  <2>2. db = Committed /\ db.person = db.lsh
    BY <1>4 DEF Committed, Transactions, Views, SetsAre
  <2> QED BY <1>2, <2>1, <2>2
<1>5. CASE tx.open
  <2>1. opener \in Tasks /\ task[opener].pc \in InTx
    BY <1>5 DEF IInv, NoLeakedTransaction, InTx, InErase
  <2>2. Seen(db, Committed.person, task[opener].pc, task[opener].p)
    BY <1>5 DEF Transactions, Views
  <2>3. CASE task[opener].pc = "insert"
    <3>1. db.person = Committed.person /\ db.lsh = Committed.person \cup task[opener].p
      BY <2>2, <2>3 DEF Seen, SetsAre
    <3>2. task[opener].p \subseteq InFlight({"insert"})
      BY <2>1, <2>3, InFlightIs
    <3>3. Destroyed = {}
      BY <1>1, <1>3, <2>3 DEF InTx, InErase
    <3> QED BY <1>2, <3>1, <3>2, <3>3
  <2>4. CASE task[opener].pc # "insert"
    <3>1. db.person = db.lsh /\ db.person \subseteq Committed.person
      BY <2>1, <2>2, <2>4 DEF Seen, SetsAre, InTx, InErase
    <3>2. task[opener].pc = "destroyed" => db.person \cap task[opener].p = {}
      BY <2>2 DEF Seen, SetsAre
    <3>3. \A x \in db.person : x \notin Destroyed
      BY <1>1, <1>3, <3>2 DEF InTx, InErase
    <3> QED BY <1>2, <3>1, <3>3
  <2> QED BY <2>3, <2>4
<1> QED BY <1>4, <1>5

LEMMA StoresFollow ==
  ASSUME IInv, Transactions, Keystore
  PROVE  StoresAgree
BY DEF Transactions, Views, SetsAre, Keystore, Keyed, Peopled, Destroyed, TablesAgree,
   KeyForEveryPerson, PersonForEveryKey, Holding, StoresAgree

-----------------------------------------------------------------------------
(* One lemma per action, for the tables and the Keystore.                  *)

\* What the conjuncts of an action say of the calls.
LEMMA GoesTo ==
  ASSUME TypeOK, NEW t \in Tasks, NEW pc \in {"none"} \cup EnrollPC \cup ErasePC, Goto(t, pc)
  PROVE  /\ task'[t].pc = pc /\ task'[t].p = task[t].p
         /\ \A u \in Tasks \ {t} : task'[u] = task[u]
<1>1. task \in [Tasks -> Call] /\ task' = [task EXCEPT ![t].pc = pc]
  BY Types DEF Goto
<1> QED BY <1>1 DEF Call

LEMMA Settles ==
  ASSUME TypeOK, NEW t \in Tasks, Settle(t)
  PROVE  /\ task'[t].pc = "none" /\ \A u \in Tasks \ {t} : task'[u] = task[u]
<1>1. task \in [Tasks -> Call] /\ task' = [task EXCEPT ![t] = NoTask]
  BY Types DEF Settle
<1> QED BY <1>1 DEF NoTask

\* A ROLLBACK or COMMIT of somebody else's transaction counts as stolen.
LEMMA EndsWhose ==
  ASSUME TypeOK, NEW t, Ends(t), ~hist'.stolen
  PROVE  /\ ~hist.stolen /\ hist'.shredded = hist.shredded
         /\ hist'.uncleaned = hist.uncleaned /\ hist'.killed = hist.killed
         /\ tx.open => opener = t
<1>1. hist \in History
  BY Types
<1> DEFINE b == hist.stolen \/ (tx.open /\ opener # t)
<1>2. hist' = [hist EXCEPT !.stolen = b]
  BY DEF Ends
<1> HIDE DEF b
<1>3. hist'.stolen = b /\ hist'.shredded = hist.shredded
      /\ hist'.uncleaned = hist.uncleaned /\ hist'.killed = hist.killed
  BY <1>1, <1>2 DEF History
<1> QED BY <1>3 DEF b

\* Calls that are in no transaction and hold no key: nothing is disturbed.
LEMMA OutsideKeeps ==
  ASSUME IInv, Transactions, Keystore, NEW t \in Tasks,
         UNCHANGED <<tx, opener, keys, hist, db>>,
         task[t].pc \in Holding <=> task'[t].pc \in Holding,
         task[t].pc \in Holding => task'[t].p = task[t].p,
         task[t].pc # "destroyed", task'[t].pc \notin InTx,
         \A u \in Tasks \ {t} : task'[u] = task[u]
  PROVE  Transactions' /\ Keystore'
<1>1. Transactions' /\ Committed'.person = Committed.person
  BY TransactionsRest
<1>2. Keystore'
  BY <1>1, KeystoreRests DEF InTx, InErase
<1> QED BY <1>1, <1>2

LEMMA EnrollKeeps ==
  ASSUME IInv, Transactions, Keystore, NEW t \in Tasks, NEW p \in People, Enroll(t, p)
  PROVE  Transactions' /\ Keystore'
<1>1. task[t].pc = "none" /\ task'[t].pc = "generate"
      /\ \A u \in Tasks \ {t} : task'[u] = task[u]
  BY Types DEF IInv, Enroll
<1>2. UNCHANGED <<tx, opener, keys, hist, db>>
  BY DEF Enroll
<1> QED BY <1>1, <1>2, OutsideKeeps DEF Holding, InTx, InErase

LEMMA WrapKeyKeeps ==
  ASSUME IInv, Transactions, Keystore, NEW t \in Tasks, WrapKey(t)
  PROVE  Transactions' /\ Keystore'
<1>1. /\ task[t].pc = "wrap" /\ task'[t].pc \in {"begin", "cleanup"}
      /\ task'[t].p = task[t].p /\ \A u \in Tasks \ {t} : task'[u] = task[u]
  BY GoesTo DEF IInv, WrapKey, EnrollPC
<1>2. UNCHANGED <<tx, opener, keys, hist, db>>
  BY DEF WrapKey
<1> QED BY <1>1, <1>2, OutsideKeeps DEF Holding, InTx, InErase

LEMMA EraseReturnsKeeps ==
  ASSUME IInv, Transactions, Keystore, NEW t \in Tasks, EraseReturns(t)
  PROVE  Transactions' /\ Keystore'
<1>1. task[t].pc = "receipt" /\ task'[t].pc = "none"
      /\ \A u \in Tasks \ {t} : task'[u] = task[u]
  BY Settles DEF IInv, EraseReturns
<1>2. UNCHANGED <<tx, opener, keys, hist, db>>
  BY DEF EraseReturns
<1> QED BY <1>1, <1>2, OutsideKeeps DEF Holding, InTx, InErase

\* The key is new: whoever is committed had one, and whoever holds one has it.
LEMMA GenerateKeyKeeps ==
  ASSUME IInv, Transactions, Keystore, NEW t \in Tasks, GenerateKey(t)
  PROVE  Transactions' /\ Keystore'
<1>1. TypeOK /\ task[t].pc = "generate" /\ UNCHANGED <<db, tx, opener, hist>>
  BY DEF IInv, GenerateKey
<1>2. CASE Settle(t) /\ UNCHANGED keys
  <2>1. task'[t].pc = "none" /\ \A u \in Tasks \ {t} : task'[u] = task[u]
    BY <1>1, <1>2, Settles
  <2> QED BY <1>1, <1>2, <2>1, OutsideKeeps DEF Holding, InTx, InErase
<1>3. CASE task[t].p \cap keys = {} /\ keys' = keys \cup task[t].p /\ Goto(t, "wrap")
  <2>1. /\ task'[t].pc = "wrap" /\ task'[t].p = task[t].p
        /\ \A u \in Tasks \ {t} : task'[u] = task[u]
    BY <1>1, <1>3, GoesTo DEF EnrollPC
  <2>2. Transactions' /\ Committed'.person = Committed.person
    BY <1>1, <2>1, TransactionsRest DEF InTx, InErase
  <2>3. Destroyed' = Destroyed
    BY <1>1, <2>1, InFlightSame DEF Destroyed
  <2>4. InFlight(Holding)' = InFlight(Holding) \cup task[t].p
    <3>1. \A x : x \in InFlight(Holding)' <=> x \in InFlight(Holding) \/ x \in task[t].p
      BY <1>1, <2>1 DEF InFlight, Holding
    <3> QED BY <3>1
  <2>5. Keyed'
    <3> SUFFICES ASSUME ~hist.stolen, ~hist.shredded
                 PROVE  /\ Committed'.person \subseteq keys' \cup Destroyed'
                        /\ \A u \in Tasks : task'[u].pc \in Holding =>
                             /\ task'[u].p \subseteq keys'
                             /\ task'[u].p \cap Committed'.person \subseteq Destroyed'
                             /\ \A v \in Tasks \ {u} : task'[v].pc \in Holding
                                  => task'[u].p \cap task'[v].p = {}
      BY <1>1 DEF Keyed
    <3>1. Committed.person \subseteq keys \cup Destroyed
      BY DEF Keystore, Keyed
    <3>2. \A u \in Tasks : task[u].pc \in Holding =>
             /\ task[u].p \subseteq keys
             /\ task[u].p \cap Committed.person \subseteq Destroyed
             /\ \A v \in Tasks \ {u} : task[v].pc \in Holding => task[u].p \cap task[v].p = {}
      BY DEF Keystore, Keyed
    <3> HIDE DEF Destroyed
    <3> QED BY <1>3, <2>1, <2>2, <2>3, <3>1, <3>2
  <2>6. Peopled'
    BY <1>1, <1>3, <2>2, <2>3, <2>4 DEF Keystore, Peopled
  <2> QED BY <2>2, <2>5, <2>6 DEF Keystore
<1> QED BY <1>2, <1>3 DEF GenerateKey

LEMMA BeginEnrollKeeps ==
  ASSUME IInv, Transactions, Keystore, NEW t \in Tasks, BeginEnroll(t)
  PROVE  Transactions' /\ Keystore'
<1>1. TypeOK /\ task[t].pc = "begin" /\ keys' = keys
  BY DEF IInv, BeginEnroll
<1>2. CASE tx.open
  <2>1. Ends(t)
    BY <1>2 DEF BeginEnroll, Rollback
  <2>2. hist'.stolen
    <3> SUFFICES ASSUME ~hist'.stolen PROVE FALSE
      OBVIOUS
    <3>1. opener = t
      BY <1>1, <1>2, <2>1, EndsWhose
    <3> QED BY <1>1, <1>2, <3>1 DEF IInv, NoLeakedTransaction
  <2> QED BY <2>2, StolenSaysNothing
<1>3. CASE ~tx.open
  <2>1. /\ tx' = [open |-> TRUE, deferred |-> TRUE, saved |-> db]
        /\ opener' = t /\ Goto(t, "index") /\ UNCHANGED <<db, hist>>
    BY <1>3 DEF BeginEnroll
  <2>2. /\ task'[t].pc = "index" /\ task'[t].p = task[t].p
        /\ \A u \in Tasks \ {t} : task'[u] = task[u]
    BY <1>1, <2>1, GoesTo DEF EnrollPC
  <2>3. Committed' = Committed /\ Committed = db
    BY <1>3, <2>1 DEF Committed
  <2>4. ~hist.stolen => \A u \in Tasks : task[u].pc \notin InTx
    BY <1>3 DEF Transactions, Mine
  <2>5. Transactions'
    BY <2>1, <2>2, <2>3, <2>4
       DEF Transactions, Mine, Views, Erasing, Seen, SetsAre, InTx, InErase
  <2>6. Keystore'
    BY <1>1, <2>1, <2>2, <2>3, KeystoreRests DEF Holding
  <2> QED BY <2>5, <2>6
<1> QED BY <1>2, <1>3

\* A step inside the transaction of its call.
LEMMA OwnStep ==
  ASSUME IInv, Transactions, ~hist.stolen, NEW t \in Tasks, task[t].pc \in InTx
  PROVE  /\ tx.open /\ opener = t /\ Committed = tx.saved
         /\ \A u \in Tasks \ {t} : task[u].pc \notin InTx
         /\ SetsAre(Committed, Committed.person, Committed.person)
         /\ Seen(db, Committed.person, task[t].pc, task[t].p)
BY DEF Transactions, Mine, Views, Committed

LEMMA IndexPersonKeeps ==
  ASSUME IInv, Transactions, Keystore, NEW t \in Tasks, IndexPerson(t)
  PROVE  Transactions' /\ Keystore'
<1>1. /\ TypeOK /\ task[t].pc = "index" /\ UNCHANGED <<tx, opener, keys, hist>>
      /\ db' = [db EXCEPT !.lsh = @ \cup task[t].p] /\ Goto(t, "insert")
  BY DEF IInv, IndexPerson
<1>2. /\ task'[t].pc = "insert" /\ task'[t].p = task[t].p
      /\ \A u \in Tasks \ {t} : task'[u] = task[u]
  BY <1>1, GoesTo DEF EnrollPC
<1>3. /\ db'.person = db.person /\ db'.consent = db.consent /\ db'.lsh = db.lsh \cup task[t].p
  BY <1>1, Types DEF Tables
<1> SUFFICES ASSUME ~hist.stolen PROVE Transactions' /\ Keystore'
  BY <1>1, StolenSaysNothing
<1>4. /\ tx.open /\ opener = t /\ \A u \in Tasks \ {t} : task[u].pc \notin InTx
      /\ SetsAre(Committed, Committed.person, Committed.person)
      /\ Seen(db, Committed.person, "index", task[t].p) /\ Committed' = Committed
  BY <1>1, OwnStep DEF InTx, Committed
<1>5. Transactions'
  BY <1>1, <1>2, <1>3, <1>4
     DEF Transactions, Mine, Views, Erasing, Seen, SetsAre, InTx, InErase
<1>6. Keystore'
  BY <1>1, <1>2, <1>4, KeystoreRests DEF Holding
<1> QED BY <1>5, <1>6

\* Who is in flight once call t has moved.
LEMMA InFlightMoves ==
  ASSUME NEW t \in Tasks, \A u \in Tasks \ {t} : task'[u] = task[u], NEW pcs, NEW x
  PROVE  x \in InFlight(pcs)' <=>
           \/ task'[t].pc \in pcs /\ x \in task'[t].p
           \/ \E u \in Tasks \ {t} : task[u].pc \in pcs /\ x \in task[u].p
BY DEF InFlight

\* A transaction that call t ended, and it was its own.
LEMMA OwnEnds ==
  ASSUME IInv, Transactions, ~hist.stolen, NEW t \in Tasks, task[t].pc \in InTx,
         task'[t].pc \notin InTx, \A u \in Tasks \ {t} : task'[u] = task[u]
  PROVE  /\ \A u \in Tasks : task'[u].pc \notin InTx
         /\ Destroyed' = {} /\ Destroyed = IF task[t].pc = "destroyed" THEN task[t].p ELSE {}
<1>1. /\ \A u \in Tasks \ {t} : task[u].pc \notin InTx
      /\ \A u \in Tasks : task'[u].pc \notin InTx
  BY OwnStep
<1>2. "destroyed" \in InTx
  BY DEF InTx, InErase
<1>3. \A x : x \notin Destroyed'
  BY <1>1, <1>2 DEF Destroyed, InFlight
<1>4. \A x : x \in Destroyed <=> task[t].pc = "destroyed" /\ x \in task[t].p
  BY <1>1, <1>2 DEF Destroyed, InFlight
<1> QED BY <1>1, <1>3, <1>4

LEMMA InsertPersonKeeps ==
  ASSUME IInv, Transactions, Keystore, NEW t \in Tasks, InsertPerson(t)
  PROVE  Transactions' /\ Keystore'
<1> DEFINE d == [db EXCEPT !.person = @ \cup task[t].p, !.consent = @ \cup task[t].p]
<1>1. TypeOK /\ task[t].pc = "insert" /\ keys' = keys /\ db \in Tables
  BY Types DEF IInv, InsertPerson
<1> SUFFICES ASSUME ~hist'.stolen PROVE Transactions' /\ Keystore'
  BY StolenSaysNothing
<1>2. CASE CommitTo(d, t) /\ Settle(t)
  <2>1. /\ ~hist.stolen /\ hist'.shredded = hist.shredded
        /\ hist'.uncleaned = hist.uncleaned /\ hist'.killed = hist.killed
    BY <1>1, <1>2, EndsWhose DEF CommitTo
  <2>2. task'[t].pc = "none" /\ \A u \in Tasks \ {t} : task'[u] = task[u]
    BY <1>1, <1>2, Settles
  <2>3. /\ SetsAre(db, Committed.person, Committed.person \cup task[t].p)
        /\ SetsAre(Committed, Committed.person, Committed.person)
    <3>1. Seen(db, Committed.person, "insert", task[t].p)
          /\ SetsAre(Committed, Committed.person, Committed.person)
      BY <1>1, <2>1, OwnStep DEF InTx
    <3> QED BY <3>1 DEF Seen
  <2>4. /\ \A u \in Tasks : task'[u].pc \notin InTx
        /\ Destroyed' = {} /\ Destroyed = {}
    BY <1>1, <2>1, <2>2, OwnEnds DEF InTx, InErase
  <2>5. db' = d /\ Close
    BY <1>2 DEF CommitTo
  <2>6. /\ db'.person = db.person \cup task[t].p /\ db'.consent = db.consent \cup task[t].p
        /\ db'.lsh = db.lsh
    BY <1>1, <2>5 DEF Tables
  <2>7. SetsAre(db', db'.person, db'.person)
    BY <2>3, <2>6 DEF SetsAre
  <2>8. Transactions' /\ Committed'.person = Committed.person \cup task[t].p
    <3>1. Transactions' /\ Committed' = db'
      BY <2>4, <2>5, <2>7, TransactionsEnd
    <3> QED BY <2>3, <2>6, <3>1 DEF SetsAre
  <2>9. Keyed'
    <3> SUFFICES ASSUME ~hist.shredded PROVE Keyed'
      BY <2>1 DEF Keyed
    <3>1. /\ Committed.person \subseteq keys
          /\ task[t].p \subseteq keys
          /\ \A u \in Tasks \ {t} : task[u].pc \in Holding =>
               /\ task[u].p \subseteq keys
               /\ task[u].p \cap Committed.person = {}
               /\ task[u].p \cap task[t].p = {}
               /\ \A v \in Tasks \ {u} : task[v].pc \in Holding => task[u].p \cap task[v].p = {}
      BY <1>1, <2>1, <2>4 DEF Keystore, Keyed, Holding
    <3> HIDE DEF Destroyed
    <3>2. task'[t].pc \notin Holding
      BY <2>2 DEF Holding
    <3> QED BY <1>1, <2>2, <2>4, <2>8, <3>1, <3>2 DEF Keyed
  <2>10. Peopled'
    <3> SUFFICES ASSUME ~hist.uncleaned, ~hist.killed PROVE Peopled'
      BY <2>1 DEF Peopled
    <3>1. keys \subseteq Committed.person \cup InFlight(Holding)
      BY <2>1 DEF Keystore, Peopled
    <3>2. \A x : x \in InFlight(Holding) => x \in task[t].p \/ x \in InFlight(Holding)'
      BY <2>2, InFlightMoves, InFlightIs
    <3>3. keys' \subseteq Committed'.person \cup InFlight(Holding)'
      BY <1>1, <2>8, <3>1, <3>2
    <3> HIDE DEF Destroyed
    <3> QED BY <2>4, <3>3 DEF Peopled
  <2> QED BY <2>8, <2>9, <2>10 DEF Keystore
<1>3. CASE ~tx.open /\ hist' = hist
  BY <1>1, <1>3, OwnStep DEF InTx
<1> QED BY <1>2, <1>3 DEF InsertPerson

\* A ROLLBACK of one's own transaction.
LEMMA OwnRollback ==
  ASSUME IInv, Transactions, ~hist.stolen, NEW t \in Tasks, task[t].pc \in InTx,
         db' = Committed, Close,
         task'[t].pc \notin InTx, \A u \in Tasks \ {t} : task'[u] = task[u]
  PROVE  Transactions' /\ Committed'.person = Committed.person
<1>1. \A u \in Tasks : task'[u].pc \notin InTx
  BY OwnEnds
<1>2. SetsAre(Committed, Committed.person, Committed.person)
  BY OwnStep
<1> QED BY <1>1, <1>2, TransactionsEnd DEF SetsAre

LEMMA EnrollFailsKeeps ==
  ASSUME IInv, Transactions, Keystore, NEW t \in Tasks, EnrollFails(t)
  PROVE  Transactions' /\ Keystore'
<1>1. TypeOK /\ task[t].pc \in {"index", "insert"} /\ keys' = keys
  BY DEF IInv, EnrollFails
<1>2. db' = Committed /\ Close /\ Ends(t) /\ Goto(t, "cleanup")
  BY DEF EnrollFails, Rollback
<1> SUFFICES ASSUME ~hist'.stolen PROVE Transactions' /\ Keystore'
  BY StolenSaysNothing
<1>3. /\ ~hist.stolen /\ hist'.shredded = hist.shredded
      /\ hist'.uncleaned = hist.uncleaned /\ hist'.killed = hist.killed
  BY <1>1, <1>2, EndsWhose
<1>4. /\ task'[t].pc = "cleanup" /\ task'[t].p = task[t].p
      /\ \A u \in Tasks \ {t} : task'[u] = task[u]
  BY <1>1, <1>2, GoesTo DEF EnrollPC
<1>5. Transactions' /\ Committed'.person = Committed.person
  BY <1>1, <1>2, <1>3, <1>4, OwnRollback DEF InTx, InErase
<1>6. Keystore'
  BY <1>1, <1>3, <1>4, <1>5, KeystoreRests DEF Holding
<1> QED BY <1>5, <1>6

LEMMA CleanupKeeps ==
  ASSUME IInv, Transactions, Keystore, NEW t \in Tasks, Cleanup(t)
  PROVE  Transactions' /\ Keystore'
<1>1. /\ TypeOK /\ task[t].pc = "cleanup" /\ Settle(t) /\ hist \in History
      /\ UNCHANGED <<db, tx, opener>>
  BY Types DEF IInv, Cleanup
<1>2. task'[t].pc = "none" /\ \A u \in Tasks \ {t} : task'[u] = task[u]
  BY <1>1, Settles
<1>3. /\ hist'.stolen = hist.stolen /\ hist'.shredded = hist.shredded /\ hist'.killed = hist.killed
      /\ keys' \in {keys, keys \ task[t].p}
      /\ ~hist'.uncleaned => ~hist.uncleaned /\ keys' = keys \ task[t].p
  BY <1>1 DEF Cleanup, History
<1>4. Transactions' /\ Committed'.person = Committed.person
  BY <1>1, <1>2, <1>3, TransactionsRest DEF InTx, InErase
<1>5. Destroyed' = Destroyed
  BY <1>1, <1>2, InFlightSame DEF Destroyed
<1>6. task[t].pc \in Holding /\ task'[t].pc \notin Holding
  BY <1>1, <1>2 DEF Holding
<1>7. Keyed'
  <2> SUFFICES ASSUME ~hist.stolen, ~hist.shredded PROVE Keyed'
    BY <1>3 DEF Keyed
  <2>1. /\ Committed.person \subseteq keys \cup Destroyed
        /\ task[t].p \cap Committed.person \subseteq Destroyed
        /\ \A u \in Tasks \ {t} : task[u].pc \in Holding =>
             /\ task[u].p \subseteq keys
             /\ task[u].p \cap Committed.person \subseteq Destroyed
             /\ task[u].p \cap task[t].p = {}
             /\ \A v \in Tasks \ {u} : task[v].pc \in Holding => task[u].p \cap task[v].p = {}
    BY <1>6 DEF Keystore, Keyed
  <2> HIDE DEF Destroyed
  <2>2. Committed'.person \subseteq keys' \cup Destroyed'
    BY <1>3, <1>4, <1>5, <2>1
  <2>3. \A u \in Tasks : task'[u].pc \in Holding =>
          /\ task'[u].p \subseteq keys'
          /\ task'[u].p \cap Committed'.person \subseteq Destroyed'
          /\ \A v \in Tasks \ {u} : task'[v].pc \in Holding => task'[u].p \cap task'[v].p = {}
    BY <1>2, <1>3, <1>4, <1>5, <1>6, <2>1
  <2> QED BY <2>2, <2>3 DEF Keyed
<1>8. Peopled'
  <2> SUFFICES ASSUME ~hist.stolen, ~hist'.uncleaned, ~hist.killed PROVE Peopled'
    BY <1>3 DEF Peopled
  <2>1. /\ keys \subseteq Committed.person \cup InFlight(Holding)
        /\ Destroyed \cap keys \subseteq InFlight(Holding)
    BY <1>3 DEF Keystore, Peopled
  <2>2. \A x : x \in InFlight(Holding) => x \in task[t].p \/ x \in InFlight(Holding)'
    BY <1>2, InFlightMoves, InFlightIs
  <2> HIDE DEF Destroyed
  <2> QED BY <1>3, <1>4, <1>5, <2>1, <2>2 DEF Peopled
<1> QED BY <1>4, <1>7, <1>8 DEF Keystore

LEMMA EraseKeeps ==
  ASSUME IInv, Transactions, Keystore, NEW t \in Tasks, NEW p \in People, Erase(t, p)
  PROVE  Transactions' /\ Keystore'
<1>1. /\ task \in [Tasks -> Call] /\ task[t].pc = "none" /\ p \in db.person /\ ~tx.open
      /\ tx' = [open |-> TRUE, deferred |-> FALSE, saved |-> db] /\ opener' = t
      /\ task' = [task EXCEPT ![t] = [pc |-> "backfill", p |-> {p}]]
      /\ UNCHANGED <<db, keys, hist>>
  BY Types DEF IInv, Erase
<1>2. /\ task'[t].pc = "backfill" /\ task'[t].p = {p}
      /\ \A u \in Tasks \ {t} : task'[u] = task[u]
  BY <1>1
<1>3. Committed' = Committed /\ Committed = db
  BY <1>1 DEF Committed
<1>4. ~hist.stolen => \A u \in Tasks : task[u].pc \notin InTx
  BY <1>1 DEF Transactions, Mine
<1>5. Transactions'
  BY <1>1, <1>2, <1>3, <1>4
     DEF Transactions, Mine, Views, Erasing, Seen, SetsAre, InTx, InErase
<1>6. Keystore'
  BY <1>1, <1>2, <1>3, KeystoreRests DEF Holding
<1> QED BY <1>5, <1>6

LEMMA PurgeRowsKeeps ==
  ASSUME IInv, Transactions, Keystore, NEW t \in Tasks, PurgeRows(t)
  PROVE  Transactions' /\ Keystore'
<1>1. /\ TypeOK /\ task[t].pc = "backfill" /\ UNCHANGED <<tx, opener, keys, hist>>
      /\ db' = [db EXCEPT !.person = @ \ task[t].p, !.lsh = @ \ task[t].p,
                          !.consent = @ \ task[t].p]
      /\ Goto(t, "purged")
  BY DEF IInv, PurgeRows
<1>2. /\ task'[t].pc = "purged" /\ task'[t].p = task[t].p
      /\ \A u \in Tasks \ {t} : task'[u] = task[u]
  BY <1>1, GoesTo DEF ErasePC
<1>3. /\ db'.person = db.person \ task[t].p /\ db'.lsh = db.lsh \ task[t].p
      /\ db'.consent = db.consent \ task[t].p
  BY <1>1, Types DEF Tables
<1> SUFFICES ASSUME ~hist.stolen PROVE Transactions' /\ Keystore'
  BY <1>1, StolenSaysNothing
<1>4. /\ tx.open /\ opener = t /\ \A u \in Tasks \ {t} : task[u].pc \notin InTx
      /\ SetsAre(Committed, Committed.person, Committed.person)
      /\ Seen(db, Committed.person, "backfill", task[t].p) /\ Committed' = Committed
  BY <1>1, OwnStep DEF InTx, InErase, Committed
<1>5. task[t].p \subseteq Committed.person
  BY <1>1 DEF Transactions, Erasing, InErase
<1>6. Transactions'
  BY <1>1, <1>2, <1>3, <1>4, <1>5
     DEF Transactions, Mine, Views, Erasing, Seen, SetsAre, InTx, InErase
<1>7. Keystore'
  BY <1>1, <1>2, <1>4, KeystoreRests DEF Holding
<1> QED BY <1>6, <1>7

\* Whoever is being erased is committed, so nobody else holds that key.
LEMMA DestroyKeyKeeps ==
  ASSUME IInv, Transactions, Keystore, NEW t \in Tasks, DestroyKey(t)
  PROVE  Transactions' /\ Keystore'
<1>1. /\ TypeOK /\ task[t].pc = "purged" /\ UNCHANGED <<db, tx, opener, hist>>
      /\ keys' = keys \ task[t].p /\ Goto(t, "destroyed")
  BY DEF IInv, DestroyKey
<1>2. /\ task'[t].pc = "destroyed" /\ task'[t].p = task[t].p
      /\ \A u \in Tasks \ {t} : task'[u] = task[u]
  BY <1>1, GoesTo DEF ErasePC
<1> SUFFICES ASSUME ~hist.stolen PROVE Transactions' /\ Keystore'
  BY <1>1, StolenSaysNothing
<1>3. /\ tx.open /\ opener = t /\ \A u \in Tasks \ {t} : task[u].pc \notin InTx
      /\ SetsAre(Committed, Committed.person, Committed.person)
      /\ Seen(db, Committed.person, "purged", task[t].p) /\ Committed' = Committed
  BY <1>1, OwnStep DEF InTx, InErase, Committed
<1>4. task[t].p \subseteq Committed.person
  BY <1>1 DEF Transactions, Erasing, InErase
<1>5. Transactions'
  BY <1>1, <1>2, <1>3, <1>4
     DEF Transactions, Mine, Views, Erasing, Seen, SetsAre, InTx, InErase
<1>6. Destroyed = {} /\ Destroyed' = task[t].p
  <2>1. \A x : x \notin Destroyed
    BY <1>1, <1>3 DEF Destroyed, InFlight, InTx, InErase
  <2>2. \A x : x \in Destroyed' <=> x \in task[t].p
    BY <1>2, <1>3 DEF Destroyed, InFlight, InTx, InErase
  <2> QED BY <2>1, <2>2
<1>7. task[t].pc \notin Holding /\ task'[t].pc \notin Holding
  BY <1>1, <1>2 DEF Holding
<1>8. Keyed'
  <2> SUFFICES ASSUME ~hist.shredded PROVE Keyed'
    BY <1>1 DEF Keyed
  <2>1. /\ Committed.person \subseteq keys
        /\ \A u \in Tasks : task[u].pc \in Holding =>
             /\ task[u].p \subseteq keys
             /\ task[u].p \cap Committed.person = {}
             /\ \A v \in Tasks \ {u} : task[v].pc \in Holding => task[u].p \cap task[v].p = {}
    BY <1>6 DEF Keystore, Keyed
  <2> HIDE DEF Destroyed
  <2> QED BY <1>1, <1>2, <1>3, <1>4, <1>6, <1>7, <2>1 DEF Keyed
<1>9. Peopled'
  <2>1. InFlight(Holding)' = InFlight(Holding)
    BY <1>2, <1>7, InFlightSame
  <2> HIDE DEF Destroyed
  <2> QED BY <1>1, <1>3, <1>6, <2>1 DEF Keystore, Peopled
<1> QED BY <1>5, <1>8, <1>9 DEF Keystore

LEMMA EraseCommitsKeeps ==
  ASSUME IInv, Transactions, Keystore, NEW t \in Tasks, EraseCommits(t)
  PROVE  Transactions' /\ Keystore'
<1>1. /\ TypeOK /\ task[t].pc = "destroyed" /\ keys' = keys /\ Goto(t, "receipt")
      /\ db' = db /\ Close /\ Ends(t)
  BY DEF IInv, EraseCommits, CommitTo
<1> SUFFICES ASSUME ~hist'.stolen PROVE Transactions' /\ Keystore'
  BY StolenSaysNothing
<1>2. /\ ~hist.stolen /\ hist'.shredded = hist.shredded
      /\ hist'.uncleaned = hist.uncleaned /\ hist'.killed = hist.killed
  BY <1>1, EndsWhose
<1>3. /\ task'[t].pc = "receipt" /\ \A u \in Tasks \ {t} : task'[u] = task[u]
  BY <1>1, GoesTo DEF ErasePC
<1>4. SetsAre(db, Committed.person \ task[t].p, Committed.person \ task[t].p)
  <2>1. Seen(db, Committed.person, "destroyed", task[t].p)
    BY <1>1, <1>2, OwnStep DEF InTx, InErase
  <2> QED BY <2>1 DEF Seen
<1>5. /\ \A u \in Tasks : task'[u].pc \notin InTx
      /\ Destroyed' = {} /\ Destroyed = task[t].p
  BY <1>1, <1>2, <1>3, OwnEnds DEF InTx, InErase
<1>6. Transactions' /\ Committed'.person = Committed.person \ task[t].p
  BY <1>1, <1>4, <1>5, TransactionsEnd DEF SetsAre
<1>7. task[t].pc \notin Holding /\ task'[t].pc \notin Holding
  BY <1>1, <1>3 DEF Holding
<1>8. Keyed'
  <2> SUFFICES ASSUME ~hist.shredded PROVE Keyed'
    BY <1>2 DEF Keyed
  <2>1. /\ Committed.person \subseteq keys \cup task[t].p
        /\ \A u \in Tasks : task[u].pc \in Holding =>
             /\ task[u].p \subseteq keys
             /\ task[u].p \cap Committed.person \subseteq task[t].p
             /\ \A v \in Tasks \ {u} : task[v].pc \in Holding => task[u].p \cap task[v].p = {}
    BY <1>2, <1>5 DEF Keystore, Keyed
  <2> HIDE DEF Destroyed
  <2> QED BY <1>1, <1>3, <1>5, <1>6, <1>7, <2>1 DEF Keyed
<1>9. Peopled'
  <2>1. InFlight(Holding)' = InFlight(Holding)
    BY <1>3, <1>7, InFlightSame
  <2> HIDE DEF Destroyed
  <2> QED BY <1>1, <1>2, <1>5, <1>6, <2>1 DEF Keystore, Peopled
<1> QED BY <1>6, <1>8, <1>9 DEF Keystore

LEMMA EraseFailsKeeps ==
  ASSUME IInv, Transactions, Keystore, NEW t \in Tasks, EraseFails(t)
  PROVE  Transactions' /\ Keystore'
<1> DEFINE b == hist.stolen \/ (tx.open /\ opener # t)
           c == hist.shredded \/ (task[t].pc = "destroyed" /\ tx.open)
<1>1. /\ TypeOK /\ task[t].pc \in InErase /\ keys' = keys /\ Settle(t)
      /\ db' = Committed /\ Close /\ hist \in History
      /\ hist' = [hist EXCEPT !.stolen = b, !.shredded = c]
  BY Types DEF IInv, EraseFails, InErase
<1> HIDE DEF b, c
<1>2. /\ hist'.stolen = b /\ hist'.shredded = c
      /\ hist'.uncleaned = hist.uncleaned /\ hist'.killed = hist.killed
  BY <1>1 DEF History
<1> SUFFICES ASSUME ~hist'.stolen PROVE Transactions' /\ Keystore'
  BY StolenSaysNothing
<1>3. ~hist.stolen /\ (~hist'.shredded => ~hist.shredded)
  BY <1>2 DEF b, c
<1>4. task'[t].pc = "none" /\ \A u \in Tasks \ {t} : task'[u] = task[u]
  BY <1>1, Settles
<1>5. task[t].pc \in InTx /\ task'[t].pc \notin InTx
  BY <1>1, <1>4 DEF InTx, InErase
<1>6. Transactions' /\ Committed'.person = Committed.person
  BY <1>1, <1>3, <1>4, <1>5, OwnRollback
<1>7. task[t].pc \notin Holding /\ task'[t].pc \notin Holding
  BY <1>1, <1>4 DEF Holding, InErase
<1>8. CASE task[t].pc # "destroyed"
  BY <1>1, <1>2, <1>3, <1>4, <1>6, <1>7, <1>8, KeystoreRests
<1>9. CASE task[t].pc = "destroyed"
  <2>1. hist'.shredded
    BY <1>2, <1>3, <1>5, <1>9, OwnStep DEF c
  <2>2. Destroyed' = {}
    BY <1>3, <1>4, <1>5, OwnEnds
  <2>3. InFlight(Holding)' = InFlight(Holding)
    BY <1>4, <1>7, InFlightSame
  <2> HIDE DEF Destroyed
  <2> QED BY <1>1, <1>2, <1>3, <1>6, <2>1, <2>2, <2>3 DEF Keystore, Keyed, Peopled
<1> QED BY <1>6, <1>8, <1>9

\* A synchronous writer ends a transaction that is another's, or none.
LEMMA WriterEnds ==
  ASSUME IInv, tx.open, Ends(Idle)
  PROVE  hist'.stolen
<1>1. opener \in Tasks /\ TypeOK
  BY DEF IInv, NoLeakedTransaction
<1> SUFFICES ASSUME ~hist'.stolen PROVE FALSE
  OBVIOUS
<1>2. opener = Idle
  BY <1>1, EndsWhose
<1> QED BY <1>1, <1>2, ConnectionAssumption

\* A statement on other tables, in whatever transaction is open.
LEMMA ElsewhereKeeps ==
  ASSUME IInv, Transactions, Keystore, UNCHANGED <<tx, opener, keys, task, hist>>,
         db'.person = db.person, db'.lsh = db.lsh, db'.consent = db.consent
  PROVE  Transactions' /\ Keystore'
<1>1. Transactions' /\ Committed'.person = Committed.person
  BY TransactionsRest
<1>2. Keystore'
  BY <1>1, KeystoreRests
<1> QED BY <1>1, <1>2

LEMMA InsertLedgerRowsKeeps ==
  ASSUME IInv, Transactions, Keystore, InsertLedgerRows
  PROVE  Transactions' /\ Keystore'
<1>1. CASE tx.open
  BY <1>1, WriterEnds, StolenSaysNothing DEF InsertLedgerRows, Rollback
<1>2. CASE ~tx.open
  <2>1. db \in Tables /\ db' = [db EXCEPT !.rows = @ + 1]
        /\ UNCHANGED <<tx, opener, keys, task, hist>>
    BY <1>2, Types DEF IInv, InsertLedgerRows
  <2>2. db'.person = db.person /\ db'.lsh = db.lsh /\ db'.consent = db.consent
    BY <2>1 DEF Tables
  <2> QED BY <2>1, <2>2, ElsewhereKeeps
<1> QED BY <1>1, <1>2

LEMMA ItemKeeps ==
  ASSUME IInv, Transactions, Keystore, NEW i \in Items, NEW st \in Status,
         db' = [db EXCEPT !.item[i] = st], UNCHANGED <<tx, opener, keys, task, hist>>
  PROVE  Transactions' /\ Keystore'
<1>1. db \in Tables
  BY Types DEF IInv
<1>2. db' = [db EXCEPT !.item = [db.item EXCEPT ![i] = st]]
  BY <1>1 DEF Tables
<1>3. db'.person = db.person /\ db'.lsh = db.lsh /\ db'.consent = db.consent
  BY <1>1, <1>2 DEF Tables
<1> QED BY <1>3, ElsewhereKeeps

LEMMA AddItemKeeps ==
  ASSUME IInv, Transactions, Keystore, NEW i \in Items, AddItem(i)
  PROVE  Transactions' /\ Keystore'
BY ItemKeeps DEF AddItem, Status

LEMMA FinishItemKeeps ==
  ASSUME IInv, Transactions, Keystore, NEW i \in Items, FinishItem(i)
  PROVE  Transactions' /\ Keystore'
BY ItemKeeps DEF FinishItem, Status

LEMMA ReadNextKeeps ==
  ASSUME IInv, Transactions, Keystore, NEW i \in Items, ReadNext(i)
  PROVE  Transactions' /\ Keystore'
<1>1. CASE tx.open
  BY <1>1, WriterEnds, StolenSaysNothing DEF ReadNext, Rollback
<1>2. CASE ~tx.open
  BY <1>2, ItemKeeps DEF ReadNext, Status
<1> QED BY <1>1, <1>2

LEMMA KillKeeps ==
  ASSUME IInv, Transactions, Keystore, Kill
  PROVE  Transactions' /\ Keystore'
<1> DEFINE c == hist.shredded \/ \E t \in Tasks : task[t].pc = "destroyed" /\ tx.open
<1>1. /\ db' = Committed /\ Close /\ keys' = keys /\ hist \in History
      /\ task' = [t \in Tasks |-> NoTask]
      /\ hist' = [hist EXCEPT !.killed = TRUE, !.shredded = c]
  BY Types DEF IInv, Kill
<1> HIDE DEF c
<1>2. hist'.stolen = hist.stolen /\ hist'.shredded = c /\ hist'.killed
  BY <1>1 DEF History
<1>3. \A t \in Tasks : task'[t].pc = "none"
  BY <1>1 DEF NoTask
<1>4. \A t \in Tasks : task'[t].pc \notin InTx /\ task'[t].pc \notin Holding
  BY <1>3 DEF InTx, InErase, Holding
<1>5. Transactions' /\ Committed' = Committed
  <2>1. ~hist.stolen => SetsAre(Committed, Committed.person, Committed.person)
    BY DEF Transactions, Views
  <2> QED BY <1>1, <1>2, <1>4, <2>1, TransactionsEnd
<1>6. Keyed'
  <2> SUFFICES ASSUME ~hist.stolen, ~hist'.shredded PROVE Keyed'
    BY <1>2 DEF Keyed
  <2>1. ~hist.shredded /\ \A t \in Tasks : task[t].pc = "destroyed" => ~tx.open
    BY <1>2 DEF c
  <2>2. \A x : x \notin Destroyed
    BY <2>1, InFlightIs DEF Destroyed, Transactions, Mine, InTx, InErase
  <2>3. Committed.person \subseteq keys
    BY <2>1, <2>2 DEF Keystore, Keyed
  <2> HIDE DEF Destroyed
  <2> QED BY <1>1, <1>4, <1>5, <2>3 DEF Keyed
<1>7. Peopled'
  BY <1>2 DEF Peopled
<1> QED BY <1>5, <1>6, <1>7 DEF Keystore

-----------------------------------------------------------------------------
(* The stores agree.                                                       *)

LEMMA InitStores == Init => Transactions /\ Keystore
<1> SUFFICES ASSUME Init PROVE Transactions /\ Keystore
  OBVIOUS
<1>1. /\ \A t \in Tasks : task[t].pc = "none"
      /\ ~tx.open /\ keys = {} /\ SetsAre(Committed, {}, {}) /\ Committed.person = {}
  BY DEF Init, NoTask, Closed, Empty, Committed, SetsAre
<1>2. Transactions
  BY <1>1 DEF Transactions, Mine, Views, Erasing, InTx, InErase
<1>3. Keystore
  BY <1>1 DEF Keystore, Keyed, Peopled, Holding
<1> QED BY <1>2, <1>3

LEMMA NextStores ==
  ASSUME IInv, Transactions, Keystore, [Next]_vars
  PROVE  Transactions' /\ Keystore'
<1>1. CASE UNCHANGED vars
  BY <1>1, ElsewhereKeeps DEF vars
<1>2. ASSUME NEW t \in Tasks, EnrollStep(t)
      PROVE  Transactions' /\ Keystore'
  BY <1>2, GenerateKeyKeeps, WrapKeyKeeps, BeginEnrollKeeps, IndexPersonKeeps,
     InsertPersonKeeps, EnrollFailsKeeps, CleanupKeeps DEF EnrollStep
<1>3. ASSUME NEW t \in Tasks, EraseStep(t)
      PROVE  Transactions' /\ Keystore'
  BY <1>3, PurgeRowsKeeps, DestroyKeyKeeps, EraseCommitsKeeps, EraseFailsKeeps,
     EraseReturnsKeeps DEF EraseStep
<1>4. ASSUME NEW i \in Items, AddItem(i) \/ ReadNext(i) \/ FinishItem(i)
      PROVE  Transactions' /\ Keystore'
  BY <1>4, AddItemKeeps, ReadNextKeeps, FinishItemKeeps
<1> QED
  BY <1>1, <1>2, <1>3, <1>4, EnrollKeeps, EraseKeeps, InsertLedgerRowsKeeps, KillKeeps
     DEF Next, Step

\* Between any two steps of any calls, and after a kill, the committed rows of
\* a person are all there or all missing, the committed have their key and every
\* key has its person, with exactly the exceptions the history records
\* (EnrollmentService.ts:92-218, ErasureService.ts:193-256).
THEOREM StoresStayTogether == Spec => []StoresAgree
<1>1. Init => IInv /\ Transactions /\ Keystore
  BY InitIInv, InitStores
<1>2. IInv /\ Transactions /\ Keystore /\ [Next]_vars => (IInv /\ Transactions /\ Keystore)'
  BY NextIInv, NextStores
<1>3. IInv /\ Transactions /\ Keystore => StoresAgree
  BY StoresFollow
<1> QED
  BY <1>1, <1>2, <1>3, PTL DEF Spec

\* What a resolved enroll tells its caller: the person and the consent are
\* committed, whoever's transaction its COMMIT ended, and while every call ended
\* its own and no key was destroyed in vain, so are the index rows and the key.
THEOREM EnrollmentsAreThere == Spec => EnrolledIsThere
<1> DEFINE There == \A t \in Tasks : InsertPerson(t) /\ task'[t] = NoTask
             => /\ task[t].p \subseteq Committed'.person \cap Committed'.consent
                /\ hist'.stolen \/ hist'.shredded
                     \/ task[t].p \subseteq Committed'.lsh \cap keys'
<1>1. Init => IInv /\ Transactions /\ Keystore
  BY InitIInv, InitStores
<1>2. IInv /\ Transactions /\ Keystore /\ [Next]_vars => (IInv /\ Transactions /\ Keystore)'
  BY NextIInv, NextStores
<1>3. IInv /\ Transactions /\ Keystore /\ [Next]_vars => [There]_vars
  <2> SUFFICES ASSUME IInv, Transactions, Keystore,
                      NEW t \in Tasks, InsertPerson(t), task'[t] = NoTask
               PROVE  /\ task[t].p \subseteq Committed'.person \cap Committed'.consent
                      /\ hist'.stolen \/ hist'.shredded
                           \/ task[t].p \subseteq Committed'.lsh \cap keys'
    OBVIOUS
  <2> DEFINE d == [db EXCEPT !.person = @ \cup task[t].p, !.consent = @ \cup task[t].p]
  <2>1. TypeOK /\ task[t].pc = "insert" /\ keys' = keys /\ db \in Tables
    BY Types DEF IInv, InsertPerson
  <2>2. CommitTo(d, t)
    <3>1. CASE Goto(t, "cleanup")
      <4>1. task'[t].pc = "cleanup"
        BY <2>1, <3>1, GoesTo DEF EnrollPC
      <4> QED BY <4>1 DEF NoTask
    <3> QED BY <3>1 DEF InsertPerson
  <2>3. /\ Committed' = db' /\ db'.person = db.person \cup task[t].p
        /\ db'.consent = db.consent \cup task[t].p /\ db'.lsh = db.lsh
    BY <2>1, <2>2, Closing DEF CommitTo, Tables
  <2>4. ASSUME ~hist'.stolen, ~hist'.shredded
        PROVE  task[t].p \subseteq Committed'.lsh \cap keys'
    <3>1. ~hist.stolen /\ ~hist.shredded
      BY <2>1, <2>2, <2>4, EndsWhose DEF CommitTo
    <3>2. task[t].p \subseteq keys
      BY <2>1, <3>1 DEF Keystore, Keyed, Holding
    <3>3. Seen(db, Committed.person, "insert", task[t].p)
      BY <2>1, <3>1, OwnStep DEF InTx
    <3> QED BY <2>1, <2>3, <3>2, <3>3 DEF Seen, SetsAre
  <2> QED BY <2>3, <2>4
<1> HIDE DEF There
<1>4. Spec => [][There]_vars
  BY <1>1, <1>2, <1>3, PTL DEF Spec
<1> QED BY <1>4 DEF EnrolledIsThere, There

-----------------------------------------------------------------------------
(* The candidate search.  While it runs, whoever it still has to read or   *)
(* unwrap and was not raced is on the connection (Kept), hence with a key  *)
(* (ViewedPeople): a person leaves the connection only by a purge or with  *)
(* somebody else's transaction (PeopleStay).                               *)

Searches == [pc : {"none", "hash", "open", "answered", "rejected"},
             live : SUBSET Faces, chosen : SUBSET People,
             left : SUBSET People, wrapped : SUBSET People,
             replaced : SUBSET People,
             unwrapped : SUBSET {<<p, DEK(p)>> : p \in People},
             found : SUBSET (People \X Faces)]

\* Each of the candidates is in one of the stages, or found with its face.
Counted(s) ==
  /\ s.left \cup s.wrapped \subseteq s.chosen
  /\ \A x \in s.unwrapped : x[1] \in s.chosen
  /\ \A x \in s.found : x = <<x[1], Face[x[1]]>> /\ x[1] \in s.chosen
  /\ \A p \in s.chosen : \/ p \in s.left \cup s.wrapped
                          \/ <<p, DEK(p)>> \in s.unwrapped
                          \/ <<p, Face[p]>> \in s.found
  /\ s.pc = "answered" => s.left = {} /\ s.wrapped = {} /\ s.unwrapped = {}

Alike(p, live) == ShareBucket(BucketKeys[Face[p]], BucketKeys[live])

Covered(s) ==
  ~hist.stolen => \A live \in s.live : \A p \in past.there \ past.raced :
    Alike(p, live) => p \in s.chosen

Kept(s) == ~hist.stolen => (s.left \cup s.wrapped) \ past.raced \subseteq db.person

Replaced(s) == ~hist.stolen /\ ~hist.shredded => s.replaced \subseteq past.raced

\* What the history knows while the search runs.
Watched ==
  /\ InFlightRaces \subseteq past.raced
  /\ ~hist.stolen => past.there \subseteq Committed.person

Called == \E live \in Faces : search = [NoSearch EXCEPT !.pc = "hash", !.live = {live}]

SInv ==
  /\ SearchVarsOK
  /\ search.pc = "hash" => Called
  /\ search.pc \in {"open", "answered"} => Counted(search) /\ Covered(search)
  /\ search.pc = "open" => Kept(search) /\ Replaced(search)
  /\ Running => Watched
  /\ RejectsForACause

LEMMA SearchTypes ==
  SearchVarsOK <=> /\ search \in Searches
                   /\ past \in [raced : SUBSET People, there : SUBSET People,
                                threw : BOOLEAN]
BY DEF SearchVarsOK, Searches

\* History is not forgotten, and a person leaves the connection by a ROLLBACK,
\* or when an erasure has purged the rows.
LEMMA StepOnPeople ==
  ASSUME IInv, Step
  PROVE  /\ hist.stolen => hist'.stolen
         /\ hist.shredded => hist'.shredded
         /\ \/ db.person \subseteq db'.person
            \/ db' = Committed
            \/ \E t \in Tasks : /\ task'[t].pc = "purged"
                               /\ db.person \subseteq db'.person \cup task'[t].p
<1> DEFINE Claim == /\ hist.stolen => hist'.stolen
                    /\ hist.shredded => hist'.shredded
                    /\ \/ db.person \subseteq db'.person
                       \/ db' = Committed
                       \/ \E t \in Tasks : /\ task'[t].pc = "purged"
                                          /\ db.person \subseteq db'.person \cup task'[t].p
<1>1. TypeOK /\ db \in Tables /\ hist \in History
  BY Types DEF IInv
<1>2. ASSUME NEW t, Ends(t)
      PROVE  (hist.stolen => hist'.stolen) /\ (hist.shredded => hist'.shredded)
  BY <1>1, <1>2 DEF Ends, History
<1>3. ASSUME NEW t \in Tasks, EnrollStep(t)
      PROVE  Claim
  <2>1. CASE GenerateKey(t) \/ WrapKey(t)
    BY <2>1 DEF GenerateKey, WrapKey
  <2>2. CASE BeginEnroll(t)
    BY <2>2, <1>2 DEF BeginEnroll, Rollback
  <2>3. CASE IndexPerson(t)
    <3>1. db' = [db EXCEPT !.lsh = @ \cup task[t].p] /\ hist' = hist
      BY <2>3 DEF IndexPerson
    <3> QED BY <1>1, <3>1 DEF Tables
  <2>4. CASE InsertPerson(t)
    <3> DEFINE d == [db EXCEPT !.person = @ \cup task[t].p, !.consent = @ \cup task[t].p]
    <3>1. /\ db' \in {d, [d EXCEPT !.consent = db.consent]}
          /\ Ends(t) \/ hist' = hist
      BY <2>4 DEF InsertPerson, CommitTo
    <3>2. db.person \subseteq db'.person
      BY <1>1, <3>1 DEF Tables
    <3> QED BY <1>2, <3>1, <3>2
  <2>5. CASE EnrollFails(t)
    BY <2>5, <1>2 DEF EnrollFails, Rollback
  <2>6. CASE Cleanup(t)
    <3>1. db' = db /\ hist' \in {hist, [hist EXCEPT !.uncleaned = TRUE]}
      BY <2>6 DEF Cleanup
    <3> QED BY <1>1, <3>1 DEF History
  <2> QED BY <1>3, <2>1, <2>2, <2>3, <2>4, <2>5, <2>6 DEF EnrollStep
<1>4. ASSUME NEW t \in Tasks, EraseStep(t)
      PROVE  Claim
  <2>1. CASE PurgeRows(t)
    <3>1. task'[t].pc = "purged" /\ task'[t].p = task[t].p
      BY <1>1, <2>1, GoesTo DEF PurgeRows, ErasePC
    <3>2. /\ db' = [db EXCEPT !.person = @ \ task[t].p, !.lsh = @ \ task[t].p,
                             !.consent = @ \ task[t].p]
          /\ hist' = hist
      BY <2>1 DEF PurgeRows
    <3>3. db.person \subseteq db'.person \cup task'[t].p
      BY <1>1, <3>1, <3>2 DEF Tables
    <3> QED BY <3>1, <3>2, <3>3
  <2>2. CASE DestroyKey(t) \/ EraseReturns(t)
    BY <2>2 DEF DestroyKey, EraseReturns
  <2>3. CASE EraseCommits(t)
    BY <2>3, <1>2 DEF EraseCommits, CommitTo
  <2>4. CASE EraseFails(t)
    <3> DEFINE a == hist.stolen \/ (tx.open /\ opener # t)
               b == hist.shredded \/ (task[t].pc = "destroyed" /\ tx.open)
    <3>1. db' = Committed /\ hist' = [hist EXCEPT !.stolen = a, !.shredded = b]
      BY <2>4 DEF EraseFails
    <3>2. (hist.stolen => a) /\ (hist.shredded => b)
      OBVIOUS
    <3> HIDE DEF a, b
    <3> QED BY <1>1, <3>1, <3>2 DEF History
  <2> QED BY <1>4, <2>1, <2>2, <2>3, <2>4 DEF EraseStep
<1>5. ASSUME NEW t \in Tasks, NEW p \in People, Enroll(t, p) \/ Erase(t, p)
      PROVE  Claim
  BY <1>5 DEF Enroll, Erase
<1>6. ASSUME InsertLedgerRows
      PROVE  Claim
  <2>1. CASE tx.open
    BY <1>6, <2>1, <1>2 DEF InsertLedgerRows, Rollback
  <2>2. CASE ~tx.open
    <3>1. db' = [db EXCEPT !.rows = @ + 1] /\ hist' = hist
      BY <1>6, <2>2 DEF InsertLedgerRows
    <3> QED BY <1>1, <3>1 DEF Tables
  <2> QED BY <2>1, <2>2
<1>7. ASSUME NEW i \in Items, AddItem(i) \/ ReadNext(i) \/ FinishItem(i)
      PROVE  Claim
  <2>1. CASE ReadNext(i) /\ tx.open
    BY <2>1, <1>2 DEF ReadNext, Rollback
  <2>2. CASE ~(ReadNext(i) /\ tx.open)
    <3>1. /\ hist' = hist
          /\ \E st \in {"PENDING", "PROCESSING", "DONE"} : db' = [db EXCEPT !.item[i] = st]
      BY <1>7, <2>2 DEF AddItem, ReadNext, FinishItem
    <3>2. db'.person = db.person
      BY <1>1, <3>1 DEF Tables
    <3> QED BY <3>1, <3>2
  <2> QED BY <2>1, <2>2
<1> QED BY <1>3, <1>4, <1>5, <1>6, <1>7 DEF Step

\* What is committed and not on the connection was purged by an erasure.
LEMMA SeenAndCommitted ==
  ASSUME IInv, Transactions, ~hist.stolen
  PROVE  /\ db.person \subseteq Committed.person
         /\ Committed.person \subseteq db.person \cup InFlightRaces
<1>1. CASE ~tx.open
  BY <1>1 DEF Committed
<1>2. CASE tx.open
  <2>1. opener \in Tasks /\ task[opener].pc \in InTx
    BY <1>2 DEF IInv, NoLeakedTransaction, InTx, InErase
  <2>2. Seen(db, Committed.person, task[opener].pc, task[opener].p)
    BY <1>2 DEF Transactions, Views
  <2>3. task[opener].pc \in {"purged", "destroyed"} => task[opener].p \subseteq InFlightRaces
    BY <2>1, InFlightIs DEF InFlightRaces
  <2> QED BY <2>1, <2>2, <2>3 DEF Seen, SetsAre, InTx, InErase
<1> QED BY <1>1, <1>2

LEMMA PeopleStay ==
  ASSUME IInv, Transactions, Step, ~hist'.stolen, NEW p \in db.person
  PROVE  p \in db'.person \/ p \in InFlightRaces'
<1>1. ~hist.stolen
  BY StepOnPeople
<1>2. CASE db.person \subseteq db'.person
  BY <1>2
<1>3. CASE db' = Committed
  BY <1>1, <1>3, SeenAndCommitted
<1>4. ASSUME NEW t \in Tasks, task'[t].pc = "purged", db.person \subseteq db'.person \cup task'[t].p
      PROVE  p \in db'.person \/ p \in InFlightRaces'
  BY <1>4 DEF InFlightRaces, InFlight
<1> QED BY <1>2, <1>3, <1>4, StepOnPeople

\* A person on the connection has a key; after a step, too.
LEMMA ViewedKeys ==
  IInv /\ Transactions /\ Keystore =>
    (~hist.stolen /\ ~hist.shredded => db.person \subseteq keys)
BY ViewedPeople

LEMMA ViewedKeysNext ==
  (IInv /\ Transactions /\ Keystore =>
    (~hist.stolen /\ ~hist.shredded => db.person \subseteq keys))'
BY ViewedKeys, PTL

\* While the search runs, a step of another call keeps what it has still to
\* read or unwrap on the connection, or is known to the history.
LEMMA MeanwhileSInv ==
  ASSUME IInv, Transactions, Keystore, IInv', Transactions', Keystore', SInv,
         Step, Meanwhile
  PROVE  SInv'
<1> DEFINE lost == search.wrapped \cap (keys \ keys')
<1>1. /\ search \in Searches /\ keys \in SUBSET People
      /\ past \in [raced : SUBSET People, there : SUBSET People, threw : BOOLEAN]
  BY SearchTypes, Types DEF SInv, IInv
<1>2. search' = [search EXCEPT !.replaced = @ \cup lost]
  BY DEF Meanwhile
<1>3. lost \subseteq search.wrapped
  OBVIOUS
<1> HIDE DEF lost
<1>4. /\ search' \in Searches
      /\ search'.pc = search.pc /\ search'.live = search.live /\ search'.chosen = search.chosen
      /\ search'.left = search.left /\ search'.wrapped = search.wrapped
      /\ search'.unwrapped = search.unwrapped /\ search'.found = search.found
      /\ search'.replaced = search.replaced \cup lost
  BY <1>1, <1>2, <1>3 DEF Searches
<1>5. Running' = Running
  BY <1>4 DEF Running
<1>6. (hist.stolen => hist'.stolen) /\ (hist.shredded => hist'.shredded)
  BY StepOnPeople
<1>7. CASE ~Running
  <2>1. past' = past
    BY <1>7 DEF Meanwhile
  <2>2. SearchVarsOK'
    BY <1>1, <1>4, <2>1, SearchTypes DEF SearchVarsOK, Searches
  <2>3. search.pc = "answered" => (Counted(search) /\ Covered(search))'
    BY <1>4, <1>6, <2>1 DEF SInv, Counted, Covered, Alike, BucketKeys, ShareBucket,
       computeBucketKeys, computeBandKey
  <2>4. RejectsForACause'
    BY <1>4, <1>6, <2>1 DEF SInv, RejectsForACause
  <2> QED BY <1>4, <1>5, <1>7, <2>2, <2>3, <2>4 DEF SInv, Running
<1>8. CASE Running
  <2>1. /\ past' = [past EXCEPT !.raced = @ \cup InFlightRaces',
                               !.there = @ \cap Committed'.person]
        /\ Watched
    BY <1>8 DEF Meanwhile, SInv
  <2>2. InFlightRaces' \subseteq People
    <3>1. task' \in [Tasks -> Call]
      BY DEF IInv, TypeOK, Call
    <3>2. \A t \in Tasks : task'[t].p \subseteq People
      BY <3>1 DEF Call
    <3>3. \A x \in InFlightRaces' : \E t \in Tasks : x \in task'[t].p
      BY DEF InFlightRaces, InFlight
    <3> QED BY <3>2, <3>3
  <2>3. /\ past' \in [raced : SUBSET People, there : SUBSET People, threw : BOOLEAN]
        /\ past'.raced = past.raced \cup InFlightRaces'
        /\ past'.there = past.there \cap Committed'.person
    BY <1>1, <2>1, <2>2
  <2>4. SearchVarsOK'
    BY <1>4, <2>3 DEF SearchVarsOK, Searches
  <2>5. Watched'
    BY <2>3 DEF Watched
  <2>6. search.pc = "hash" => Called'
    <3> SUFFICES ASSUME search.pc = "hash" PROVE Called'
      OBVIOUS
    <3>1. PICK live \in Faces : search = [NoSearch EXCEPT !.pc = "hash", !.live = {live}]
      BY DEF SInv, Called
    <3>2. lost = {} /\ search.replaced = {}
      BY <1>3, <3>1 DEF NoSearch
    <3>3. search' = search
      BY <1>1, <1>2, <3>2 DEF Searches
    <3> QED BY <3>1, <3>3 DEF Called, NoSearch
  <2>7. search.pc = "open" => (Counted(search) /\ Covered(search))'
    <3>1. search.pc = "open" => Counted(search)'
      BY <1>4 DEF SInv, Counted
    <3>2. search.pc = "open" => Covered(search)'
      BY <1>4, <1>6, <2>3 DEF SInv, Covered
    <3> QED BY <3>1, <3>2
  <2>8. search.pc = "open" => Kept(search)'
    <3> SUFFICES ASSUME search.pc = "open", ~hist'.stolen,
                        NEW p \in search.left \cup search.wrapped, p \notin past'.raced
                 PROVE  p \in db'.person
      BY <1>4 DEF Kept
    <3>1. p \in db.person
      BY <1>6, <2>3 DEF SInv, Kept
    <3> QED BY <2>3, <3>1, PeopleStay
  <2>9. search.pc = "open" => Replaced(search)'
    <3> SUFFICES ASSUME search.pc = "open", ~hist'.stolen, ~hist'.shredded,
                        NEW p \in search'.replaced, p \notin past'.raced
                 PROVE  FALSE
      BY DEF Replaced
    <3>1. p \notin search.replaced
      BY <1>6, <2>3 DEF SInv, Replaced
    <3>2. p \in search.wrapped /\ p \notin keys'
      BY <1>4, <3>1 DEF lost
    <3>3. p \in db'.person
      BY <1>4, <2>8, <3>2 DEF Kept
    <3> QED BY <3>2, <3>3, ViewedKeysNext
  <2>10. RejectsForACause'
    BY <1>4, <1>8 DEF RejectsForACause, Running
  <2> QED BY <1>4, <1>5, <1>8, <2>4, <2>5, <2>6, <2>7, <2>8, <2>9, <2>10 DEF SInv, Running
<1> QED BY <1>7, <1>8

-----------------------------------------------------------------------------
(* The steps of the search.                                                *)

LEMMA Resting ==
  ASSUME UNCHANGED vars
  PROVE  /\ db' = db /\ hist' = hist /\ keys' = keys /\ task' = task
         /\ Committed' = Committed /\ InFlightRaces' = InFlightRaces
BY DEF vars, Committed, InFlightRaces, InFlight

\* A search that rejects has a cause.
LEMMA RejectSInv ==
  ASSUME NEW s \in Searches, SInv, UNCHANGED vars, Reject(s),
         past' \in [raced : SUBSET People, there : SUBSET People, threw : BOOLEAN],
         hist.stolen \/ hist.shredded \/ past'.threw \/ s.chosen \cap past'.raced # {}
  PROVE  SInv'
<1>1. /\ search' \in Searches /\ search'.pc = "rejected" /\ search'.chosen = s.chosen
  BY DEF Reject, NoSearch, Searches
<1>2. SearchVarsOK'
  BY <1>1 DEF SearchVarsOK, Searches
<1>3. RejectsForACause'
  BY <1>1, Resting DEF RejectsForACause
<1> QED BY <1>1, <1>2, <1>3 DEF SInv, Running

\* What holds of a search that is open, if it becomes s.
Sound(s) == /\ s \in Searches /\ s.pc = "open"
            /\ Counted(s) /\ Covered(s) /\ Kept(s) /\ Replaced(s)

LEMMA OpenSInv ==
  ASSUME SInv, UNCHANGED vars, UNCHANGED past, Watched, Sound(search')
  PROVE  SInv'
<1>1. Watched'
  BY Resting DEF Watched
<1>2. /\ Counted(search)' /\ Covered(search)' /\ Kept(search)' /\ Replaced(search)'
  BY Resting DEF Sound, Counted, Covered, Kept, Replaced, Alike, BucketKeys, ShareBucket,
     computeBucketKeys, computeBandKey
<1>3. SearchVarsOK'
  BY SearchTypes DEF SInv, Sound, SearchVarsOK, Searches
<1> QED BY <1>1, <1>2, <1>3 DEF SInv, Sound, RejectsForACause

\* The search goes on as s: it waits, reads a row, or has answered.
LEMMA GoOnSInv ==
  ASSUME NEW s, Sound(s), SInv, UNCHANGED vars, UNCHANGED past, Watched, GoOn(s)
  PROVE  SInv'
<1>1. s \in Searches /\ past \in [raced : SUBSET People, there : SUBSET People, threw : BOOLEAN]
  BY SearchTypes DEF Sound, SInv
<1>2. CASE search' = s
  BY <1>2, OpenSInv
<1>3. ASSUME NEW p \in s.left, ReadRow(s, p)
      PROVE  SInv'
  <2>1. CASE p \in db.person
    <3>1. search' = [s EXCEPT !.left = @ \ {p}, !.wrapped = @ \cup {p}]
      BY <1>3, <2>1 DEF ReadRow
    <3>2. /\ search' \in Searches /\ search'.pc = s.pc /\ search'.live = s.live
          /\ search'.chosen = s.chosen /\ search'.left = s.left \ {p}
          /\ search'.wrapped = s.wrapped \cup {p} /\ search'.replaced = s.replaced
          /\ search'.unwrapped = s.unwrapped /\ search'.found = s.found
      BY <1>1, <3>1 DEF Searches
    <3>3. Sound(search')
      BY <1>3, <3>2 DEF Sound, Counted, Covered, Kept, Replaced
    <3> QED BY <3>3, OpenSInv
  <2>2. CASE p \notin db.person
    <3>1. Reject(s)
      BY <1>3, <2>2 DEF ReadRow
    <3>2. hist.stolen \/ p \in past.raced
      BY <1>3, <2>2 DEF Sound, Kept
    <3>3. p \in s.chosen
      BY <1>3 DEF Sound, Counted
    <3> QED BY <1>1, <3>1, <3>2, <3>3, RejectSInv
  <2> QED BY <2>1, <2>2
<1>4. CASE /\ s.wrapped \cup s.unwrapped \cup s.left = {}
           /\ search' = [s EXCEPT !.pc = "answered"]
  <2>1. /\ search' \in Searches /\ search'.pc = "answered" /\ search'.live = s.live
        /\ search'.chosen = s.chosen /\ search'.left = s.left
        /\ search'.wrapped = s.wrapped
        /\ search'.unwrapped = s.unwrapped /\ search'.found = s.found
    BY <1>1, <1>4 DEF Searches
  <2>2. Counted(search)' /\ Covered(search)'
    <3>1. Counted(search)'
      BY <1>4, <2>1 DEF Sound, Counted
    <3>2. Covered(search)'
      BY <2>1, Resting DEF Sound, Covered
    <3> QED BY <3>1, <3>2
  <2>3. SearchVarsOK'
    BY <1>1, <2>1 DEF SearchVarsOK, Searches
  <2> QED BY <2>1, <2>2, <2>3 DEF SInv, Running, RejectsForACause
<1> QED BY <1>2, <1>3, <1>4 DEF GoOn

LEMMA SelectSInv ==
  ASSUME IInv, Transactions, Keystore, SInv, Select
  PROVE  SInv'
<1>1. /\ search.pc = "hash" /\ Watched /\ UNCHANGED vars /\ UNCHANGED past
      /\ past \in [raced : SUBSET People, there : SUBSET People, threw : BOOLEAN]
  BY SearchTypes DEF Select, SInv, Running
<1>2. PICK live \in Faces : search = [NoSearch EXCEPT !.pc = "hash", !.live = {live}]
  BY <1>1 DEF SInv, Called
<1>3. /\ search.live = {live} /\ search.left = {} /\ search.wrapped = {} /\ search.found = {}
      /\ search.unwrapped = {} /\ search.replaced = {} /\ search \in Searches
  BY <1>2 DEF NoSearch, Searches
<1>4. db.lsh \subseteq People /\ db.person \subseteq People /\ Hits(live) \subseteq db.lsh
  BY DEF IInv, TypeOK, Tables, Hits
<1> DEFINE s == [search EXCEPT !.pc = "open", !.chosen = Hits(live)]
           t == [search EXCEPT !.pc = "open", !.chosen = db.person, !.left = db.person]
\* Whoever shares a bucket and was enrolled all the while is a hit.
<1>5. ASSUME ~hist.stolen, NEW p \in past.there \ past.raced, Alike(p, live)
      PROVE  p \in Hits(live)
  <2>1. p \in db.person
    BY <1>1, <1>5, SeenAndCommitted DEF Watched
  <2>2. p \in db.lsh
    BY <1>5, <2>1, ViewedPeople
  <2> QED BY <1>5, <2>2 DEF Hits, Alike
<1>6. CASE Hits(live) # {}
  <2>1. /\ s \in Searches /\ s.pc = "open" /\ s.chosen = Hits(live) /\ s.live = {live}
        /\ s.left = {} /\ s.wrapped = {} /\ s.replaced = {} /\ s.unwrapped = {} /\ s.found = {}
    BY <1>3, <1>4 DEF Searches
  <2>2. CASE Hits(live) \subseteq db.person
    <3>1. search' = [s EXCEPT !.wrapped = Hits(live)]
      BY <1>3, <1>6, <2>2 DEF Select
    <3> HIDE DEF s
    <3>2. /\ search' \in Searches /\ search'.pc = "open" /\ search'.chosen = Hits(live)
          /\ search'.live = {live} /\ search'.left = {} /\ search'.wrapped = Hits(live)
          /\ search'.replaced = {} /\ search'.unwrapped = {} /\ search'.found = {}
      BY <1>4, <2>1, <3>1 DEF Searches
    <3>3. Sound(search')
      BY <1>5, <2>2, <3>2 DEF Sound, Counted, Covered, Kept, Replaced
    <3> QED BY <1>1, <3>3, OpenSInv
  <2>3. CASE ~(Hits(live) \subseteq db.person)
    <3>1. Reject(s)
      BY <1>3, <1>6, <2>3 DEF Select
    <3>2. PICK p \in Hits(live) : p \notin db.person
      BY <2>3
    <3>3. ~hist.stolen => p \in InFlight({"insert"})
      BY <1>4, <3>2, ViewedPeople
    <3>4. InFlight({"insert"}) \subseteq InFlightRaces
      BY DEF InFlight, InFlightRaces
    <3>5. hist.stolen \/ p \in s.chosen \cap past.raced
      BY <1>1, <2>1, <3>2, <3>3, <3>4 DEF Watched
    <3> HIDE DEF s
    <3> QED BY <1>1, <2>1, <3>1, <3>5, RejectSInv
  <2> QED BY <2>2, <2>3
<1>7. CASE Hits(live) = {}
  <2>1. GoOn(t)
    BY <1>3, <1>7 DEF Select
  <2>2. /\ t \in Searches /\ t.pc = "open" /\ t.chosen = db.person /\ t.live = {live}
        /\ t.left = db.person /\ t.wrapped = {} /\ t.replaced = {} /\ t.unwrapped = {}
        /\ t.found = {}
    BY <1>3, <1>4 DEF Searches
  <2> HIDE DEF t
  <2>3. Sound(t)
    BY <1>5, <1>7, <2>2 DEF Sound, Counted, Covered, Kept, Replaced
  <2> QED BY <1>1, <2>1, <2>3, GoOnSInv
<1> QED BY <1>6, <1>7

\* An open search is sound.
LEMMA OpenIsSound ==
  ASSUME SInv, search.pc = "open"
  PROVE  /\ Sound(search) /\ Watched
         /\ past \in [raced : SUBSET People, there : SUBSET People, threw : BOOLEAN]
BY SearchTypes DEF SInv, Sound, Running

LEMMA UnwrapSInv ==
  ASSUME IInv, Transactions, Keystore, SInv, NEW p \in People, Unwrap(p)
  PROVE  SInv'
<1> DEFINE dek == unwrapDEK(p, PersonnelRow(p).kek_hw_wrapped, keys \ search.replaced)
           s == [search EXCEPT !.wrapped = @ \ {p}, !.replaced = @ \ {p},
                               !.unwrapped = @ \cup {<<p, DEK(p)>>}]
<1>1. /\ search.pc = "open" /\ p \in search.wrapped /\ UNCHANGED vars /\ UNCHANGED past
      /\ Sound(search) /\ Watched /\ search \in Searches
      /\ past \in [raced : SUBSET People, there : SUBSET People, threw : BOOLEAN]
  BY OpenIsSound DEF Unwrap, Sound
<1>2. dek = IF p \in keys \ search.replaced THEN DEK(p) ELSE Rejected
  BY DEF unwrapDEK, PersonnelRow, wrapDEK
<1>3. CASE p \in keys \ search.replaced
  <2>1. search' = s
    BY <1>2, <1>3, RejectedAssumption DEF Unwrap
  <2>2. /\ s \in Searches /\ s.pc = "open" /\ s.chosen = search.chosen /\ s.live = search.live
        /\ s.left = search.left /\ s.wrapped = search.wrapped \ {p}
        /\ s.replaced = search.replaced \ {p} /\ s.found = search.found
        /\ s.unwrapped = search.unwrapped \cup {<<p, DEK(p)>>}
    BY <1>1 DEF Searches
  <2> HIDE DEF s
  <2>3. Counted(s)
    BY <1>1, <2>2 DEF Sound, Counted
  <2>4. Sound(s)
    BY <1>1, <2>2, <2>3 DEF Sound, Covered, Kept, Replaced
  <2> QED BY <1>1, <2>1, <2>4, OpenSInv
<1>4. CASE p \notin keys \ search.replaced
  <2>1. Reject(search)
    BY <1>2, <1>4 DEF Unwrap
  <2>2. p \in search.chosen
    BY <1>1 DEF Sound, Counted
  <2>3. ASSUME ~hist.stolen, ~hist.shredded
        PROVE  p \in past.raced
    <3>1. CASE p \in search.replaced
      BY <1>1, <2>3, <3>1 DEF Sound, Replaced
    <3>2. CASE p \notin keys
      BY <1>1, <2>3, <3>2, ViewedPeople DEF Sound, Kept
    <3> QED BY <1>4, <3>1, <3>2
  <2> QED BY <1>1, <2>1, <2>2, <2>3, RejectSInv
<1> QED BY <1>3, <1>4

LEMMA OpenStepSInv ==
  ASSUME SInv, NEW p \in People, Open(p, DEK(p))
  PROVE  SInv'
<1> DEFINE s == [search EXCEPT !.unwrapped = @ \ {<<p, DEK(p)>>},
                               !.found = @ \cup {<<p, Face[p]>>}]
<1>1. /\ search.pc = "open" /\ UNCHANGED vars /\ UNCHANGED past
      /\ <<p, DEK(p)>> \in search.unwrapped
      /\ Sound(search) /\ Watched /\ search \in Searches
  BY OpenIsSound DEF Open, Sound
<1>2. decrypt(PersonnelRow(p).encrypted_embed, p, DEK(p)) = Face[p]
  BY DEF decrypt, PersonnelRow, encrypt
<1>3. <<p, Face[p]>> \in People \X Faces /\ Face[p] # Rejected
  BY ConnectionAssumption, RejectedAssumption
<1>4. GoOn(s)
  BY <1>2, <1>3 DEF Open
<1>5. /\ s \in Searches /\ s.pc = "open" /\ s.chosen = search.chosen /\ s.live = search.live
      /\ s.left = search.left /\ s.wrapped = search.wrapped /\ s.replaced = search.replaced
      /\ s.unwrapped = search.unwrapped \ {<<p, DEK(p)>>}
      /\ s.found = search.found \cup {<<p, Face[p]>>}
  BY <1>1, <1>3 DEF Searches
<1> HIDE DEF s
<1>6. Counted(s)
  <2>1. p \in s.chosen
    BY <1>1, <1>5 DEF Sound, Counted
  <2>2. \A x \in s.found : x = <<x[1], Face[x[1]]>> /\ x[1] \in s.chosen
    BY <1>1, <1>5, <2>1 DEF Sound, Counted
  <2>3. \A q \in s.chosen : \/ q \in s.left \cup s.wrapped
                           \/ <<q, DEK(q)>> \in s.unwrapped
                           \/ <<q, Face[q]>> \in s.found
    BY <1>1, <1>5 DEF Sound, Counted
  <2> QED BY <1>1, <1>5, <2>2, <2>3 DEF Sound, Counted
<1>7. Sound(s)
  BY <1>1, <1>5, <1>6 DEF Sound, Covered, Kept, Replaced
<1> QED BY <1>1, <1>4, <1>7, GoOnSInv

LEMMA CallQuerySInv ==
  ASSUME IInv, SInv, NEW live \in Faces, CallQuery(live)
  PROVE  SInv'
<1>1. UNCHANGED vars /\ search' = [NoSearch EXCEPT !.pc = "hash", !.live = {live}]
  BY DEF CallQuery
<1>2. /\ search' \in Searches /\ search'.pc = "hash"
  BY <1>1 DEF NoSearch, Searches
<1>3. InFlightRaces \subseteq People /\ Committed.person \subseteq People
  <2>1. \A t \in Tasks : task[t].p \subseteq People
    BY Types DEF IInv, Call
  <2>2. \A x \in InFlightRaces : \E t \in Tasks : x \in task[t].p
    BY DEF InFlightRaces, InFlight
  <2>3. Committed \in Tables
    BY CommittedType DEF IInv
  <2> QED BY <2>1, <2>2, <2>3 DEF Tables
<1>4. /\ past' = [raced |-> InFlightRaces, there |-> Committed.person, threw |-> FALSE]
      /\ past' \in [raced : SUBSET People, there : SUBSET People, threw : BOOLEAN]
  BY <1>3 DEF CallQuery
<1>5. SearchVarsOK'
  BY <1>2, <1>4 DEF SearchVarsOK, Searches
<1>6. Watched'
  BY <1>1, <1>4, Resting DEF Watched
<1>7. Called'
  BY <1>1 DEF Called, NoSearch
<1> QED BY <1>2, <1>5, <1>6, <1>7 DEF SInv, RejectsForACause

LEMMA SearchThrowsSInv ==
  ASSUME SInv, SearchThrows
  PROVE  SInv'
<1>1. /\ search \in Searches
      /\ past \in [raced : SUBSET People, there : SUBSET People, threw : BOOLEAN]
      /\ UNCHANGED vars /\ Reject(search) /\ past' = [past EXCEPT !.threw = TRUE]
  BY SearchTypes DEF SInv, SearchThrows
<1>2. past' \in [raced : SUBSET People, there : SUBSET People, threw : BOOLEAN] /\ past'.threw
  BY <1>1
<1> QED BY <1>1, <1>2, RejectSInv

LEMMA NoSearchSInv ==
  ASSUME search' = NoSearch, past' = NoPast
  PROVE  SInv'
BY DEF SInv, NoSearch, NoPast, SearchVarsOK, Running, RejectsForACause

LEMMA InitSInv == SearchInit => SInv
BY DEF SearchInit, SInv, NoSearch, NoPast, SearchVarsOK, Running, RejectsForACause

\* Beside a search the connection does what it does without one.
LEMMA NextIsNext ==
  [SearchNext]_<<vars, searchVars>> => [Next]_vars
BY DEF SearchNext, SearchStep, CallQuery, Select, Unwrap, Open, SearchThrows, Next

LEMMA SearchNextSInv ==
  ASSUME IInv, Transactions, Keystore, IInv', Transactions', Keystore', SInv,
         [SearchNext]_<<vars, searchVars>>
  PROVE  SInv'
<1>1. ASSUME UNCHANGED <<vars, searchVars>>
      PROVE  SInv'
  <2>1. UNCHANGED vars /\ search' = search /\ past' = past
    BY <1>1 DEF searchVars
  <2>2. /\ Counted(search)' <=> Counted(search)
        /\ Covered(search)' <=> Covered(search)
        /\ Kept(search)' <=> Kept(search)
        /\ Replaced(search)' <=> Replaced(search)
        /\ Watched' <=> Watched
        /\ Called' <=> Called
        /\ RejectsForACause' <=> RejectsForACause
        /\ SearchVarsOK' <=> SearchVarsOK
        /\ Running' <=> Running
    BY <2>1, Resting DEF Counted, Covered, Kept, Replaced, Watched, Called, RejectsForACause,
       SearchVarsOK, Running, Alike, BucketKeys, ShareBucket, computeBucketKeys, computeBandKey
  <2> QED BY <2>1, <2>2 DEF SInv
<1>2. CASE SearchStep
  BY <1>2, CallQuerySInv, SelectSInv, UnwrapSInv, OpenStepSInv, SearchThrowsSInv DEF SearchStep
<1> QED BY <1>1, <1>2, MeanwhileSInv, NoSearchSInv DEF SearchNext

LEMMA SearchInvariance == SearchSpec => [](IInv /\ Transactions /\ Keystore /\ SInv)
<1> DEFINE Base == IInv /\ Transactions /\ Keystore
<1>1. SearchInit => Base /\ SInv
  BY InitIInv, InitStores, InitSInv DEF SearchInit
<1>2. Base /\ [SearchNext]_<<vars, searchVars>> => Base'
  BY NextIsNext, NextIInv, NextStores
<1>3. Base /\ SInv /\ Base' /\ [SearchNext]_<<vars, searchVars>> => SInv'
  BY SearchNextSInv
<1> HIDE DEF Base
<1>4. SearchSpec => [](Base /\ SInv)
  BY <1>1, <1>2, <1>3, PTL DEF SearchSpec
<1> QED BY <1>4 DEF Base

THEOREM SearchTypeCorrect == SearchSpec => []SearchTypeOK
<1>1. IInv /\ Transactions /\ Keystore /\ SInv => SearchTypeOK
  BY DEF SInv, IInv, SearchTypeOK
<1> QED BY <1>1, SearchInvariance, PTL

\* However many enrollments and erasures go by between the awaits of a search,
\* it rejects only if a native call threw or one of them was about a candidate
\* of its own, with the exceptions the history records (LSHIndex.ts:193-266,
\* VerificationService.ts:40-83).
THEOREM RejectionsHaveACause == SearchSpec => []RejectsForACause
<1>1. IInv /\ Transactions /\ Keystore /\ SInv => RejectsForACause
  BY DEF SInv
<1> QED BY <1>1, SearchInvariance, PTL

\* A search that answers opened every candidate to the embedding that was
\* enrolled, and whoever shares a bucket with the live embedding and was
\* enrolled all the while, with no erasure under way, is among them
\* (LSHIndex.ts:193-266, VerificationService.ts:40-83).
THEOREM AnswersLeaveNobodyOut == SearchSpec => []AnswersAreWhole
<1>1. SInv => AnswersAreWhole
  <2> SUFFICES ASSUME SInv, search.pc = "answered" PROVE AnswersAreWhole
    BY DEF AnswersAreWhole
  <2>1. Counted(search) /\ Covered(search)
    BY DEF SInv
  <2>2. search.found = {<<p, Face[p]>> : p \in search.chosen}
    <3>1. \A x \in search.found : x \in {<<p, Face[p]>> : p \in search.chosen}
      BY <2>1 DEF Counted
    <3>2. \A p \in search.chosen : <<p, Face[p]>> \in search.found
      BY <2>1 DEF Counted
    <3> QED BY <3>1, <3>2
  <2> QED BY <2>1, <2>2 DEF AnswersAreWhole, Covered, Alike
<1> QED BY <1>1, SearchInvariance, PTL
=============================================================================
