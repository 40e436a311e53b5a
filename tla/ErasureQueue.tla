----------------------------- MODULE ErasureQueue -----------------------------
(***************************************************************************)
(* The two MMKV arrays of ErasureService: erasures asked for while offline *)
(* (m3_pending_erasures) and receipts that could not be uploaded           *)
(* (pending_receipts), the drains that work them off, and executions of    *)
(* erasures that come directly from requestErasure.                        *)
(*                                                                         *)
(* A drain reads its array once, awaits one item after the other and then  *)
(* overwrites the array with what failed.  An action is the code between   *)
(* two awaits.  The purge inside execute is one step here: its transaction *)
(* and what other writers do to it are the subject of SharedConnection.    *)
(***************************************************************************)
EXTENDS Integers, Sequences, SequencesExt

CONSTANTS
  People,         \* personnel identifiers
  Requests,       \* erasure requests; a receipt is named after its request
  Calls,          \* requestErasure and drain calls in flight together
  MaxEnrolments,  \* bound: how often one person is enrolled
  MaxKills,       \* bound: how often the process is killed
  Nobody          \* the person of a request not made yet

ASSUME ErasureAssumption ==
  /\ MaxEnrolments \in Nat \ {0}
  /\ MaxKills \in Nat
  /\ Nobody \notin People

VARIABLES
  present,    \* people with a personnel row and a key
  enrolments, \* how often each person has been enrolled
  request,    \* whom each request names, and whether it was answered QUEUED
  erasures,   \* the array m3_pending_erasures
  receipts,   \* the array pending_receipts
  call,       \* where each call stands
  got,        \* how often each receipt reached the server (2: more than once)
  served,     \* history only: requests whose purge committed
  signed,     \* history only: requests whose receipt was signed
  kills,      \* how often the process was killed
  hist        \* history only: what has gone wrong so far

people == <<present, enrolments>>
arrays == <<erasures, receipts>>
past == <<served, signed>>

vars == <<people, request, arrays, call, got, past, kills, hist>>

-----------------------------------------------------------------------------
NoRequest == [person |-> Nobody, queued |-> FALSE]

\* job: what runs the call's code.  todo: the request at work and those after
\* it in the array the drain read; snap: all that it read; kept: what failed.
NoCall == [job |-> "none", pc |-> "none", todo |-> <<>>, snap |-> {}, kept |-> <<>>]

Init ==
  /\ present = People
  /\ enrolments = [p \in People |-> 1]
  /\ request = [q \in Requests |-> NoRequest]
  /\ erasures = <<>>
  /\ receipts = <<>>
  /\ call = [c \in Calls |-> NoCall]
  /\ got = [q \in Requests |-> 0]
  /\ served = {}
  /\ signed = {}
  /\ kills = 0
  /\ hist = [overwrote |-> FALSE, again |-> FALSE]

Current(c) == Head(call[c].todo)

Subject(c) == request[Current(c)].person

Busy(job) == \E c \in Calls : call[c].job = job

\* A person erased earlier is enrolled again.  (Not while an execution has
\* looked the person up: it would have failed by then.)
EnrollAgain(p) ==
  /\ p \notin present /\ enrolments[p] < MaxEnrolments
  /\ \A c \in Calls : call[c].pc = "purge" => Subject(c) # p
  /\ present' = present \cup {p}
  /\ enrolments' = [enrolments EXCEPT ![p] = @ + 1]
  /\ UNCHANGED <<request, arrays, call, got, past, kills, hist>>

\* requestErasure names an enrolled person.
NewRequest(q, p, queued) ==
  /\ request[q] = NoRequest /\ p \in present
  /\ request' = [request EXCEPT ![q] = [person |-> p, queued |-> queued]]

\* Connected: the erasure is executed, and only its caller hears of a failure.
RequestConnected(c, q, p) ==
  /\ NewRequest(q, p, FALSE)
  /\ call[c] = NoCall
  /\ call' = [call EXCEPT ![c] = [NoCall EXCEPT !.job = "request", !.pc = "purge",
                                               !.todo = <<q>>]]
  /\ UNCHANGED <<people, arrays, got, past, kills, hist>>

\* Not connected: queueOfflineErasure.
RequestOffline(q, p) ==
  /\ NewRequest(q, p, TRUE)
  /\ erasures' = Append(erasures, q)
  /\ UNCHANGED <<people, receipts, call, got, past, kills, hist>>

DrainOfflineQueue(c) ==
  /\ call[c] = NoCall /\ erasures # <<>>
  /\ call' = [call EXCEPT ![c] = [NoCall EXCEPT !.job = "drain", !.pc = "purge",
                               !.todo = erasures, !.snap = ToSet(erasures)]]
  /\ hist' = [hist EXCEPT !.again = @ \/ Busy("drain")]
  /\ UNCHANGED <<people, request, arrays, got, past, kills>>

-----------------------------------------------------------------------------
(* The loop of both drains.                                                *)

\* The next item at pc, or the end: the array becomes what was kept.
Advance(c, kept, pc, array) ==
  LET rest == Tail(call[c].todo) IN
  /\ call' = [call EXCEPT ![c] = IF rest = <<>> THEN NoCall
                ELSE [@ EXCEPT !.pc = pc, !.todo = rest, !.kept = kept]]
  /\ array' = IF rest = <<>> THEN kept ELSE array

\* The write at the end of c's drain drops items the drain never read.
Overwrites(c, array) ==
  Len(call[c].todo) = 1 /\ ~(ToSet(array) \subseteq call[c].snap)

-----------------------------------------------------------------------------
(* execute.                                                                *)

\* Mutant: a request that failed is reported but not kept.
FailedForgotten(c) ==
  /\ IF call[c].job = "request"
     THEN call' = [call EXCEPT ![c] = NoCall] /\ UNCHANGED erasures
     ELSE Advance(c, call[c].kept, "purge", erasures)
  /\ UNCHANGED hist

\* A direct call rejects; a drain keeps the request and goes on.
Failed(c) ==
  IF call[c].job = "request"
  THEN call' = [call EXCEPT ![c] = NoCall] /\ UNCHANGED <<erasures, hist>>
  ELSE /\ Advance(c, Append(call[c].kept, Current(c)), "purge", erasures)
       /\ hist' = [hist EXCEPT !.overwrote = @ \/ Overwrites(c, erasures),
                     !.again = @ \/ call[c].pc # "purge" \/ Subject(c) \notin present]

Succeeded(c) ==
  IF call[c].job = "request"
  THEN call' = [call EXCEPT ![c] = NoCall] /\ UNCHANGED <<erasures, hist>>
  ELSE /\ Advance(c, call[c].kept, "purge", erasures)
       /\ hist' = [hist EXCEPT !.overwrote = @ \/ Overwrites(c, erasures)]

Goto(c, pc) == call' = [call EXCEPT ![c].pc = pc]

\* The purge and the key's destruction commit.
Purge(c) ==
  /\ call[c].pc = "purge"
  /\ Subject(c) \in present
  /\ present' = present \ {Subject(c)}
  /\ served' = served \cup {Current(c)}
  /\ Goto(c, "sign")
  /\ UNCHANGED <<enrolments, request, arrays, got, signed, kills, hist>>

\* PERSON_NOT_FOUND, a failed purge, a signature or an event that throws.
ExecuteFails(c) ==
  /\ call[c].pc \in {"purge", "sign", "record"}
  /\ Failed(c)
  /\ UNCHANGED <<people, request, receipts, got, past, kills>>

\* Mutant: a step of execute that does not exist.
SignReceiptAstray(c) ==
  /\ call[c].pc = "sign"
  /\ signed' = signed \cup {Current(c)}
  /\ Goto(c, "signed")
  /\ UNCHANGED <<people, request, arrays, got, served, kills, hist>>

SignReceipt(c) ==
  /\ call[c].pc = "sign"
  /\ signed' = signed \cup {Current(c)}
  /\ Goto(c, "upload")
  /\ UNCHANGED <<people, request, arrays, got, served, kills, hist>>

Received(q) == [got EXCEPT ![q] = IF @ = 0 THEN 1 ELSE 2]

UploadReceipt(c) ==
  /\ call[c].pc = "upload"
  /\ got' = Received(Current(c))
  /\ Goto(c, "record")
  /\ UNCHANGED <<people, request, arrays, past, kills, hist>>

\* No answer, or not 200: queuePendingReceipt.  The server may have it.
UploadFails(c) ==
  /\ call[c].pc = "upload"
  /\ got' \in {got, Received(Current(c))}
  /\ hist' = [hist EXCEPT !.again = @ \/ got' # got]
  /\ receipts' = Append(receipts, Current(c))
  /\ Goto(c, "record")
  /\ UNCHANGED <<people, request, erasures, past, kills>>

\* The ERASURE event is in the ledger.
RecordErasure(c) ==
  /\ call[c].pc = "record"
  /\ Succeeded(c)
  /\ UNCHANGED <<people, request, receipts, got, past, kills>>

-----------------------------------------------------------------------------
\* Mutant: off by one, a single receipt is not found.
DrainSeveralReceipts(c) ==
  /\ call[c] = NoCall /\ Len(receipts) > 1
  /\ call' = [call EXCEPT ![c] = [NoCall EXCEPT !.job = "receipts", !.pc = "send",
                               !.todo = receipts, !.snap = ToSet(receipts)]]
  /\ hist' = [hist EXCEPT !.again = @ \/ Busy("receipts")]
  /\ UNCHANGED <<people, request, arrays, got, past, kills>>

DrainPendingReceipts(c) ==
  /\ call[c] = NoCall /\ receipts # <<>>
  /\ call' = [call EXCEPT ![c] = [NoCall EXCEPT !.job = "receipts", !.pc = "send",
                               !.todo = receipts, !.snap = ToSet(receipts)]]
  /\ hist' = [hist EXCEPT !.again = @ \/ Busy("receipts")]
  /\ UNCHANGED <<people, request, arrays, got, past, kills>>

\* Mutant: what was uploaded is kept like what failed.
SendReceiptKeeps(c) ==
  /\ call[c].pc = "send"
  /\ got' = Received(Current(c))
  /\ Advance(c, Append(call[c].kept, Current(c)), "send", receipts)
  /\ UNCHANGED <<people, request, erasures, past, kills, hist>>

SendReceipt(c) ==
  /\ call[c].pc = "send"
  /\ got' = Received(Current(c))
  /\ Advance(c, call[c].kept, "send", receipts)
  /\ hist' = [hist EXCEPT !.overwrote = @ \/ Overwrites(c, receipts)]
  /\ UNCHANGED <<people, request, erasures, past, kills>>

SendFails(c) ==
  /\ call[c].pc = "send"
  /\ got' \in {got, Received(Current(c))}
  /\ Advance(c, Append(call[c].kept, Current(c)), "send", receipts)
  /\ hist' = [hist EXCEPT !.overwrote = @ \/ Overwrites(c, receipts),
                          !.again = @ \/ got' # got]
  /\ UNCHANGED <<people, request, erasures, past, kills>>

-----------------------------------------------------------------------------
\* The arrays and the tables survive, the calls do not.
Kill ==
  /\ kills < MaxKills
  /\ kills' = kills + 1
  /\ call' = [c \in Calls |-> NoCall]
  /\ UNCHANGED <<people, request, arrays, got, past, hist>>

CallStep(c) ==
  \/ Purge(c) \/ ExecuteFails(c) \/ SignReceipt(c)
  \/ UploadReceipt(c) \/ UploadFails(c) \/ RecordErasure(c)
  \/ SendReceipt(c) \/ SendFails(c)

Next ==
  \/ \E p \in People : EnrollAgain(p)
  \/ \E q \in Requests, p \in People : \/ RequestOffline(q, p)
                                       \/ \E c \in Calls : RequestConnected(c, q, p)
  \/ \E c \in Calls : DrainOfflineQueue(c) \/ DrainPendingReceipts(c) \/ CallStep(c)
  \/ Kill

Spec == Init /\ [][Next]_vars

\* Calls go on; the application comes to the foreground again and again, and
\* of a receipt that is sent again and again one upload succeeds.
FairSpec ==
  /\ Spec
  /\ \A c \in Calls : /\ WF_vars(CallStep(c))
                      /\ SF_vars(DrainPendingReceipts(c))
  /\ \A q \in Requests :
       SF_vars(\E c \in Calls : SendReceipt(c) /\ Current(c) = q)

-----------------------------------------------------------------------------
(* Properties.                                                             *)

\* Every variable has its type.
TypeOK ==
  /\ present \in SUBSET People
  /\ enrolments \in [People -> Nat]
  /\ request \in [Requests -> [person : People \cup {Nobody}, queued : BOOLEAN]]
  /\ erasures \in Seq(Requests)
  /\ receipts \in Seq(Requests)
  /\ call \in [Calls -> [job : {"none", "request", "drain", "receipts"},
                         pc : {"none", "purge", "sign", "upload", "record", "send"},
                         todo : Seq(Requests), snap : SUBSET Requests,
                         kept : Seq(Requests)]]
  /\ got \in [Requests -> 0 .. 2]
  /\ served \in SUBSET Requests
  /\ signed \in SUBSET Requests
  /\ kills \in Nat
  /\ hist \in [overwrote : BOOLEAN, again : BOOLEAN]

Uploading(q) == \E c \in Calls : call[c].pc = "upload" /\ Current(c) = q

\* A request that was answered QUEUED stays in the array until its purge has
\* committed, and a signed receipt stays in its array until the server has it,
\* through failures, overlapping drains and (for what is queued) kills, unless
\* a drain's final write drops what was queued while it ran.
NothingForgotten ==
  \/ hist.overwrote
  \/ \A q \in Requests :
       /\ request[q].queued => q \in ToSet(erasures) \cup served
       /\ q \in signed => \/ q \in ToSet(receipts) \/ got[q] > 0
                          \/ Uploading(q) \/ kills > 0

\* The purge of a request commits twice (on somebody enrolled again since), or
\* its receipt reaches the server twice, only if the process was killed or a
\* call had failed after the deed: an answer was lost, a request was kept after
\* its purge, or two drains worked on one array.
OnceUnlessRetried ==
  \/ hist.again \/ kills > 0
  \/ /\ \A q \in Requests : got[q] <= 1
     /\ \A c \in Calls : call[c].pc = "purge" => Current(c) \notin served

\* A queued receipt reaches the server in the end, unless a drain's final write
\* dropped it.
ReceiptsAreUploaded ==
  \A q \in Requests : q \in ToSet(receipts) ~> got[q] > 0 \/ hist.overwrote
=============================================================================
