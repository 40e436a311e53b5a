------------------------- MODULE ErasureQueueProofs -------------------------
(***************************************************************************)
(* The type of the two arrays and their calls, NothingForgotten and        *)
(* OnceUnlessRetried for any people, requests, calls and kills.            *)
(*                                                                         *)
(* NothingForgotten needs to know of a running drain that what it has read *)
(* is still to do, kept, or done (Drains, Sends): its last step overwrites *)
(* the array with what it kept.  OnceUnlessRetried needs that an execution *)
(* is not in two hands: as long as nothing was retried, calls work on      *)
(* different requests, each request once, and a request or a receipt that  *)
(* is waiting anywhere has not been served (Once).                         *)
(***************************************************************************)
EXTENDS ErasureQueue, SequenceTheorems, TLAPS

NoRepeat(s) == \A i, j \in 1 .. Len(s) : s[i] = s[j] => i = j

CallStates ==
  [job : {"none", "request", "drain", "receipts"},
   pc : {"none", "purge", "sign", "upload", "record", "send"},
   todo : Seq(Requests), snap : SUBSET Requests, kept : Seq(Requests)]

Made(q) == request[q] # NoRequest

Executing(c) == call[c].job \in {"request", "drain"}

\* A call has work exactly as long as it runs, and runs its job's code.
Shape(k) ==
  /\ k.job = "none" <=> k.pc = "none"
  /\ k.job = "receipts" <=> k.pc = "send"
  /\ k.job # "none" => k.todo # <<>>
  /\ k.job = "request" => Tail(k.todo) = <<>>

Types == TypeOK /\ \A c \in Calls : Shape(call[c])

\* What is in the arrays and in the calls' hands was asked for that way, and
\* what comes after a step of execute has been through it.
Lawful ==
  /\ \A q \in served \cup ToSet(erasures) : Made(q)
  /\ \A q \in ToSet(erasures) : request[q].queued
  /\ \A c \in Calls : call[c].job = "drain" =>
       \A q \in ToSet(call[c].todo) \cup ToSet(call[c].kept) : Made(q) /\ request[q].queued
  /\ \A c \in Calls : call[c].job = "request" =>
       \A q \in ToSet(call[c].todo) : Made(q) /\ ~request[q].queued
  /\ signed \subseteq served
  /\ ToSet(receipts) \subseteq signed
  /\ \A c \in Calls : call[c].job = "receipts" =>
       ToSet(call[c].todo) \cup ToSet(call[c].kept) \subseteq signed
  /\ \A q \in Requests : got[q] > 0 => q \in signed
  /\ \A c \in Calls : /\ call[c].pc \in {"sign", "upload", "record"} => Current(c) \in served
                      /\ call[c].pc \in {"upload", "record"} => Current(c) \in signed

Drains ==
  \A c \in Calls : call[c].job = "drain" =>
    call[c].snap \subseteq ToSet(call[c].todo) \cup ToSet(call[c].kept) \cup served

Sends ==
  \A c \in Calls : call[c].job = "receipts" =>
    \A q \in call[c].snap : q \in ToSet(call[c].todo) \cup ToSet(call[c].kept) \/ got[q] > 0

\* What is still to be purged.
Waiting(c) ==
  IF call[c].pc = "purge" THEN ToSet(call[c].todo) ELSE ToSet(Tail(call[c].todo))

Alone ==
  /\ \A c, d \in Calls : call[c].job = call[d].job /\ call[c].job \in {"drain", "receipts"} => c = d
  /\ \A c, d \in Calls : Executing(c) /\ Executing(d) /\ c # d =>
       ToSet(call[c].todo) \cap ToSet(call[d].todo) = {}

PurgedOnce ==
  /\ \A c \in Calls : Executing(c) =>
       NoRepeat(call[c].todo) /\ Waiting(c) \cap served = {}
  /\ \A c \in Calls : call[c].job = "drain" =>
       /\ NoRepeat(call[c].kept)
       /\ ToSet(call[c].kept) \cap (served \cup ToSet(call[c].todo)) = {}
  /\ ~Busy("drain") => NoRepeat(erasures) /\ ToSet(erasures) \cap served = {}

UploadedOnce ==
  /\ \A q \in Requests : got[q] <= 1
  /\ \A c \in Calls : call[c].pc \in {"sign", "upload"} =>
       /\ got[Current(c)] = 0 /\ Current(c) \notin ToSet(receipts)
       /\ \A d \in Calls : call[d].job = "receipts" =>
            Current(c) \notin ToSet(call[d].todo) \cup ToSet(call[d].kept)
  /\ \A c \in Calls : call[c].job = "receipts" =>
       /\ NoRepeat(call[c].todo) /\ NoRepeat(call[c].kept)
       /\ ToSet(call[c].todo) \cap ToSet(call[c].kept) = {}
       /\ \A q \in ToSet(call[c].todo) \cup ToSet(call[c].kept) : got[q] = 0
  /\ ~Busy("receipts") => NoRepeat(receipts) /\ \A q \in ToSet(receipts) : got[q] = 0

Once == hist.again \/ kills > 0 \/ (Alone /\ PurgedOnce /\ UploadedOnce)

Inv == Types /\ Lawful /\ Drains /\ Sends /\ NothingForgotten /\ Once

-----------------------------------------------------------------------------
(* Sequences.                                                              *)

LEMMA HeadAndTail ==
  ASSUME NEW s \in Seq(Requests), s # <<>>
  PROVE  /\ Head(s) \in Requests /\ Tail(s) \in Seq(Requests)
         /\ ToSet(s) = {Head(s)} \cup ToSet(Tail(s))
         /\ NoRepeat(s) => NoRepeat(Tail(s)) /\ Head(s) \notin ToSet(Tail(s))
         /\ Len(s) = 1 <=> Tail(s) = <<>>
<1>1. /\ Len(s) \in Nat \ {0} /\ Tail(s) \in Seq(Requests) /\ Len(Tail(s)) = Len(s) - 1
      /\ \A i \in 1 .. Len(Tail(s)) : Tail(s)[i] = s[i + 1]
      /\ Head(s) = s[1] /\ s[1] \in Requests
  BY EmptySeq, HeadTailProperties
<1>2. /\ DOMAIN s = 1 .. Len(s) /\ DOMAIN Tail(s) = 1 .. Len(s) - 1
  BY <1>1
<1>3. ToSet(s) = {Head(s)} \cup ToSet(Tail(s))
  <2>1. ASSUME NEW i \in 1 .. Len(s) PROVE s[i] \in {Head(s)} \cup ToSet(Tail(s))
    <3>1. CASE i = 1
      BY <1>1, <3>1
    <3>2. CASE i # 1
      <4>1. i - 1 \in 1 .. Len(s) - 1 /\ Tail(s)[i - 1] = s[i]
        BY <1>1, <3>2
      <4> QED BY <1>2, <4>1 DEF ToSet
    <3> QED BY <3>1, <3>2
  <2>2. ASSUME NEW i \in 1 .. Len(s) - 1 PROVE Tail(s)[i] \in ToSet(s)
    BY <1>1, <1>2, <2>2 DEF ToSet
  <2>3. Head(s) \in ToSet(s)
    BY <1>1, <1>2 DEF ToSet
  <2> QED BY <1>2, <2>1, <2>2, <2>3 DEF ToSet
<1>4. ASSUME NoRepeat(s) PROVE NoRepeat(Tail(s)) /\ Head(s) \notin ToSet(Tail(s))
  <2>1. \A i, j \in 1 .. Len(s) : s[i] = s[j] => i = j
    BY <1>2, <1>4 DEF NoRepeat
  <2>2. \A i \in 1 .. Len(s) - 1 : /\ i + 1 \in 1 .. Len(s) /\ i + 1 # 1 /\ 1 \in 1 .. Len(s)
                                   /\ Tail(s)[i] = s[i + 1]
    BY <1>1
  <2>3. NoRepeat(Tail(s))
    <3>1. ASSUME NEW i \in 1 .. Len(s) - 1, NEW j \in 1 .. Len(s) - 1, Tail(s)[i] = Tail(s)[j]
          PROVE  i = j
      <4>1. i + 1 = j + 1
        BY <2>1, <2>2, <3>1
      <4> QED BY <4>1
    <3> QED BY <1>2, <3>1 DEF NoRepeat
  <2>4. \A i \in 1 .. Len(s) - 1 : Tail(s)[i] # s[1]
    BY <2>1, <2>2
  <2> QED BY <1>1, <1>2, <2>3, <2>4 DEF ToSet
<1>5. Len(s) = 1 <=> Tail(s) = <<>>
  BY <1>1, EmptySeq, SMTT(30)
<1> QED BY <1>1, <1>3, <1>4, <1>5

LEMMA Appended ==
  ASSUME NEW s \in Seq(Requests), NEW e \in Requests
  PROVE  /\ Append(s, e) \in Seq(Requests)
         /\ ToSet(Append(s, e)) = ToSet(s) \cup {e}
         /\ NoRepeat(s) /\ e \notin ToSet(s) => NoRepeat(Append(s, e))
<1>1. /\ Append(s, e) \in Seq(Requests) /\ Len(Append(s, e)) = Len(s) + 1
      /\ \A i \in 1 .. Len(s) : Append(s, e)[i] = s[i]
      /\ Append(s, e)[Len(s) + 1] = e /\ Len(s) \in Nat
  BY AppendProperties
<1>2. DOMAIN s = 1 .. Len(s) /\ DOMAIN Append(s, e) = 1 .. Len(s) + 1
  BY <1>1
<1>3. ToSet(Append(s, e)) = ToSet(s) \cup {e}
  <2>1. ASSUME NEW i \in 1 .. Len(s) + 1 PROVE Append(s, e)[i] \in ToSet(s) \cup {e}
    BY <1>1, <1>2 DEF ToSet
  <2>2. ASSUME NEW i \in 1 .. Len(s) PROVE s[i] \in ToSet(Append(s, e))
    <3>1. i \in 1 .. Len(s) + 1 /\ s[i] = Append(s, e)[i]
      BY <1>1
    <3> QED BY <1>2, <3>1 DEF ToSet
  <2>3. e \in ToSet(Append(s, e))
    <3>1. Len(s) + 1 \in 1 .. Len(s) + 1
      BY <1>1
    <3> QED BY <1>1, <1>2, <3>1 DEF ToSet
  <2> QED BY <1>2, <2>1, <2>2, <2>3 DEF ToSet
<1>4. ASSUME NoRepeat(s), e \notin ToSet(s) PROVE NoRepeat(Append(s, e))
  BY <1>1, <1>2, <1>4 DEF NoRepeat, ToSet
<1> QED BY <1>1, <1>3, <1>4

LEMMA OneElement ==
  ASSUME NEW e \in Requests
  PROVE  /\ <<e>> \in Seq(Requests) /\ <<e>> # <<>> /\ Tail(<<e>>) = <<>>
         /\ Head(<<e>>) = e /\ ToSet(<<e>>) = {e} /\ NoRepeat(<<e>>)
  BY DEF ToSet, NoRepeat

LEMMA NoElement ==
  <<>> \in Seq(Requests) /\ ToSet(<<>>) = {} /\ NoRepeat(<<>>)
  BY DEF ToSet, NoRepeat

LEMMA Elements ==
  ASSUME NEW s \in Seq(Requests)
  PROVE  ToSet(s) \subseteq Requests
  BY DEF ToSet

-----------------------------------------------------------------------------
(* What the steps do to a call.                                            *)

Becomes(c, k) ==
  /\ call' \in [Calls -> CallStates] /\ call'[c] = k
  /\ \A d \in Calls \ {c} : call'[d] = call[d]

LEMMA CallSet ==
  ASSUME call \in [Calls -> CallStates], NEW c \in Calls, NEW k \in CallStates,
         call' = [call EXCEPT ![c] = k]
  PROVE  Becomes(c, k)
  BY DEF Becomes

\* A call goes on to pc with all it has.
Moves(c, pc) ==
  /\ call' \in [Calls -> CallStates]
  /\ call'[c].pc = pc /\ call'[c].job = call[c].job /\ call'[c].todo = call[c].todo
  /\ call'[c].snap = call[c].snap /\ call'[c].kept = call[c].kept
  /\ \A d \in Calls \ {c} : call'[d] = call[d]

LEMMA GotoMoves ==
  ASSUME call \in [Calls -> CallStates], NEW c \in Calls,
         NEW pc \in {"sign", "upload", "record"}, Goto(c, pc)
  PROVE  Moves(c, pc)
  BY DEF Goto, Moves, CallStates

\* A call comes to its end, or takes the next item with kept as what failed.
Ends(c) ==
  /\ call' \in [Calls -> CallStates]
  /\ call'[c].job = "none" /\ call'[c].pc = "none"
  /\ \A d \in Calls \ {c} : call'[d] = call[d]

LEMMA NoCallEnds ==
  ASSUME call \in [Calls -> CallStates], NEW c \in Calls, call' = [call EXCEPT ![c] = NoCall]
  PROVE  Ends(c)
<1>1. NoCall \in CallStates /\ NoCall.job = "none" /\ NoCall.pc = "none"
  BY NoElement DEF NoCall, CallStates
<1> QED BY <1>1, CallSet DEF Becomes, Ends

Starts(c, job, pc, todo, snap) ==
  /\ call' \in [Calls -> CallStates]
  /\ call'[c].pc = pc /\ call'[c].job = job /\ call'[c].todo = todo
  /\ call'[c].snap = snap /\ call'[c].kept = <<>>
  /\ \A d \in Calls \ {c} : call'[d] = call[d]

LEMMA NewCallStarts ==
  ASSUME call \in [Calls -> CallStates], NEW c \in Calls,
         NEW job \in {"request", "drain", "receipts"}, NEW pc \in {"purge", "send"},
         NEW todo \in Seq(Requests), NEW snap \in SUBSET Requests,
         \/ call' = [call EXCEPT ![c] = [NoCall EXCEPT !.job = job, !.pc = pc,
                                                      !.todo = todo, !.snap = snap]]
         \/ snap = {} /\ call' = [call EXCEPT ![c] = [NoCall EXCEPT !.job = job, !.pc = pc,
                                                                    !.todo = todo]]
  PROVE  Starts(c, job, pc, todo, snap)
<1>1. PICK k : k = [job |-> job, pc |-> pc, todo |-> todo, snap |-> snap, kept |-> <<>>]
  OBVIOUS
<1>2. /\ k \in CallStates /\ k.pc = pc /\ k.job = job /\ k.todo = todo
      /\ k.snap = snap /\ k.kept = <<>>
  BY <1>1, NoElement DEF CallStates
<1>3. /\ k = [NoCall EXCEPT !.job = job, !.pc = pc, !.todo = todo, !.snap = snap]
      /\ snap = {} => k = [NoCall EXCEPT !.job = job, !.pc = pc, !.todo = todo]
  <2>1. PICK a : a = [NoCall EXCEPT !.job = job]
    OBVIOUS
  <2>2. a = [job |-> job, pc |-> "none", todo |-> <<>>, snap |-> {}, kept |-> <<>>]
    BY <2>1 DEF NoCall
  <2>3. PICK b : b = [a EXCEPT !.pc = pc]
    OBVIOUS
  <2>4. b = [job |-> job, pc |-> pc, todo |-> <<>>, snap |-> {}, kept |-> <<>>]
    BY <2>2, <2>3
  <2>5. PICK d : d = [b EXCEPT !.todo = todo]
    OBVIOUS
  <2>6. d = [job |-> job, pc |-> pc, todo |-> todo, snap |-> {}, kept |-> <<>>]
    BY <2>4, <2>5
  <2>7. [d EXCEPT !.snap = snap] = k
    BY <1>1, <2>6
  <2>8. [NoCall EXCEPT !.job = job, !.pc = pc, !.todo = todo] = d
    BY <2>1, <2>3, <2>5
  <2> QED BY <1>1, <2>6, <2>7, <2>8
<1>4. call' = [call EXCEPT ![c] = k]
  BY <1>3
<1> QED BY <1>2, <1>4, CallSet DEF Becomes, Starts

TakesNext(c, pc, kept) ==
  /\ call' \in [Calls -> CallStates]
  /\ call'[c].pc = pc /\ call'[c].job = call[c].job /\ call'[c].todo = Tail(call[c].todo)
  /\ call'[c].snap = call[c].snap /\ call'[c].kept = kept
  /\ \A d \in Calls \ {c} : call'[d] = call[d]

\* The two outcomes of Advance, which writes erasures or receipts.
LEMMA Advanced ==
  ASSUME call \in [Calls -> CallStates], NEW c \in Calls, NEW pc \in {"purge", "send"},
         NEW kept \in Seq(Requests), call[c].todo # <<>>,
         call' = [call EXCEPT ![c] = IF Tail(call[c].todo) = <<>> THEN NoCall
                   ELSE [@ EXCEPT !.pc = pc, !.todo = Tail(call[c].todo), !.kept = kept]]
  PROVE  IF Tail(call[c].todo) = <<>> THEN Ends(c) ELSE TakesNext(c, pc, kept)
<1>1. CASE Tail(call[c].todo) = <<>>
  BY <1>1, NoCallEnds
<1>2. CASE Tail(call[c].todo) # <<>>
  <2>1. call[c] \in CallStates /\ Tail(call[c].todo) \in Seq(Requests)
    BY HeadAndTail DEF CallStates
  <2>2. PICK k : k = [job |-> call[c].job, pc |-> pc, todo |-> Tail(call[c].todo),
                      snap |-> call[c].snap, kept |-> kept]
    OBVIOUS
  <2>3. /\ k \in CallStates /\ k.pc = pc /\ k.job = call[c].job /\ k.todo = Tail(call[c].todo)
        /\ k.snap = call[c].snap /\ k.kept = kept
    BY <2>1, <2>2 DEF CallStates
  <2>4. k = [call[c] EXCEPT !.pc = pc, !.todo = Tail(call[c].todo), !.kept = kept]
    <3>1. PICK a : a = [call[c] EXCEPT !.pc = pc]
      OBVIOUS
    <3>2. a = [job |-> call[c].job, pc |-> pc, todo |-> call[c].todo,
               snap |-> call[c].snap, kept |-> call[c].kept]
      BY <2>1, <3>1 DEF CallStates
    <3>3. PICK b : b = [a EXCEPT !.todo = Tail(call[c].todo)]
      OBVIOUS
    <3>4. b = [job |-> call[c].job, pc |-> pc, todo |-> Tail(call[c].todo),
               snap |-> call[c].snap, kept |-> call[c].kept]
      BY <3>2, <3>3
    <3>5. PICK d : d = [b EXCEPT !.kept = kept]
      OBVIOUS
    <3>6. d = [job |-> call[c].job, pc |-> pc, todo |-> Tail(call[c].todo),
               snap |-> call[c].snap, kept |-> kept]
      BY <3>4, <3>5
    <3> QED BY <2>2, <3>1, <3>3, <3>5, <3>6
  <2>5. call' = [call EXCEPT ![c] = k]
    BY <1>2, <2>4
  <2> QED BY <1>2, <2>3, <2>5, CallSet DEF Becomes, TakesNext
<1> QED BY <1>1, <1>2

LEMMA SameCall ==
  ASSUME NEW c \in Calls, NEW d \in Calls, call'[d] = call[d]
  PROVE  /\ Shape(call[d])' <=> Shape(call[d])
         /\ Current(d)' = Current(d) /\ Waiting(d)' = Waiting(d)
         /\ Executing(d)' <=> Executing(d)
  BY DEF Shape, Current, Waiting, Executing

-----------------------------------------------------------------------------
(* The steps.                                                              *)

LEMMA InitInv == Init => Inv
<1> SUFFICES ASSUME Init PROVE Inv
  OBVIOUS
<1>1. Types
  BY NoElement, ErasureAssumption DEF Init, Types, TypeOK, Shape, NoCall, NoRequest
<1>2. \A c \in Calls : call[c].job = "none" /\ call[c].pc = "none"
  BY DEF Init, NoCall
<1>3. Lawful /\ Drains /\ Sends
  BY <1>2, NoElement DEF Init, Lawful, Drains, Sends
<1>4. NothingForgotten
  BY DEF Init, NothingForgotten, NoRequest
<1>5. Alone /\ PurgedOnce /\ UploadedOnce
  BY <1>2, NoElement DEF Init, Alone, PurgedOnce, UploadedOnce, Executing
<1> QED BY <1>1, <1>3, <1>4, <1>5 DEF Inv, Once

\* A person is enrolled again: nothing here speaks of who is enrolled.
LEMMA SameInv ==
  ASSUME Inv, TypeOK', UNCHANGED <<request, arrays, call, got, past, kills, hist>>
  PROVE  Inv'
<1>1. Types' /\ Lawful' /\ Drains' /\ Sends'
  BY DEF Inv, Types, Lawful, Drains, Sends, arrays, past, Shape, Made, Current
<1>2. NothingForgotten'
  BY DEF Inv, NothingForgotten, arrays, past, Uploading, Current
<1>3. Once'
  BY DEF Inv, Once, Alone, PurgedOnce, UploadedOnce, arrays, past, Executing, Waiting, Busy,
         Current
<1> QED BY <1>1, <1>2, <1>3 DEF Inv

LEMMA RequestOfflineInv ==
  ASSUME Inv, NEW q \in Requests, NEW p \in People, RequestOffline(q, p)
  PROVE  Inv'
<1>1. /\ request[q] = NoRequest
      /\ request' = [request EXCEPT ![q] = [person |-> p, queued |-> TRUE]]
      /\ erasures' = Append(erasures, q)
      /\ UNCHANGED <<present, enrolments, receipts, call, got, served, signed, kills, hist>>
  BY DEF RequestOffline, NewRequest, people, past
<1>2. /\ request \in [Requests -> [person : People \cup {Nobody}, queued : BOOLEAN]]
      /\ erasures \in Seq(Requests) /\ call \in [Calls -> CallStates]
  BY DEF Inv, Types, TypeOK, CallStates
<1>3. /\ request' \in [Requests -> [person : People \cup {Nobody}, queued : BOOLEAN]]
      /\ request'[q].queued /\ Made(q)' /\ ~Made(q)
      /\ \A r \in Requests \ {q} : request'[r] = request[r]
  BY <1>1, <1>2, ErasureAssumption DEF Made, NoRequest
<1>4. /\ erasures' \in Seq(Requests) /\ ToSet(erasures') = ToSet(erasures) \cup {q}
      /\ NoRepeat(erasures) /\ q \notin ToSet(erasures) => NoRepeat(erasures')
  BY <1>1, <1>2, Appended
<1>5. q \notin served \cup ToSet(erasures)
  BY <1>3 DEF Inv, Lawful
<1>6. \A c \in Calls : Executing(c) => q \notin ToSet(call[c].todo) \cup ToSet(call[c].kept)
                       \/ (call[c].job = "request" /\ q \notin ToSet(call[c].todo))
  BY <1>3 DEF Inv, Lawful, Executing
<1>7. Types'
  BY <1>1, <1>3, <1>4 DEF Inv, Types, TypeOK, Shape
<1>8. Lawful'
  <2>1. \A r \in Requests : Made(r) => Made(r)' /\ (r # q)
    BY <1>3 DEF Made
  <2>2. /\ served \subseteq Requests /\ ToSet(erasures) \subseteq Requests
        /\ \A c \in Calls : /\ ToSet(call[c].todo) \subseteq Requests
                            /\ ToSet(call[c].kept) \subseteq Requests
    BY <1>2, Elements DEF Inv, Types, TypeOK, CallStates
  <2> QED BY <1>1, <1>3, <1>4, <2>1, <2>2 DEF Inv, Lawful, Current
<1>9. Drains' /\ Sends'
  BY <1>1 DEF Inv, Drains, Sends
<1>10. NothingForgotten'
  BY <1>1, <1>3, <1>4 DEF Inv, NothingForgotten, Uploading, Current
<1>11. Once'
  BY <1>1, <1>4, <1>5 DEF Inv, Once, Alone, PurgedOnce, UploadedOnce, Executing, Waiting,
                          Busy, Current
<1> QED BY <1>7, <1>8, <1>9, <1>10, <1>11 DEF Inv

LEMMA RequestConnectedInv ==
  ASSUME Inv, NEW c \in Calls, NEW q \in Requests, NEW p \in People, RequestConnected(c, q, p)
  PROVE  Inv'
<1>1. /\ request[q] = NoRequest /\ call[c].job = "none" /\ call[c].pc = "none"
      /\ request' = [request EXCEPT ![q] = [person |-> p, queued |-> FALSE]]
      /\ UNCHANGED <<present, enrolments, erasures, receipts, got, served, signed, kills, hist>>
  BY DEF RequestConnected, NewRequest, NoCall, people, arrays, past
<1>2. /\ request \in [Requests -> [person : People \cup {Nobody}, queued : BOOLEAN]]
      /\ call \in [Calls -> CallStates]
  BY DEF Inv, Types, TypeOK, CallStates
<1>3. /\ request' \in [Requests -> [person : People \cup {Nobody}, queued : BOOLEAN]]
      /\ ~request'[q].queued /\ Made(q)' /\ ~Made(q)
      /\ \A r \in Requests \ {q} : request'[r] = request[r]
  BY <1>1, <1>2, ErasureAssumption DEF Made, NoRequest
<1>4. PICK s : s = <<q>>
  OBVIOUS
<1>5. s \in Seq(Requests) /\ s # <<>> /\ Tail(s) = <<>> /\ ToSet(s) = {q} /\ NoRepeat(s)
  BY <1>4, OneElement
<1>6. Starts(c, "request", "purge", s, {})
  <2>1. call' = [call EXCEPT ![c] = [NoCall EXCEPT !.job = "request", !.pc = "purge",
                                                   !.todo = s]]
    BY <1>4 DEF RequestConnected
  <2> QED BY <1>2, <1>5, <2>1, NewCallStarts
<1>7. /\ call' \in [Calls -> CallStates]
      /\ call'[c].pc = "purge" /\ call'[c].job = "request" /\ call'[c].todo = s
      /\ \A d \in Calls \ {c} : call'[d] = call[d]
  BY <1>6 DEF Starts
<1>8. q \notin served \cup ToSet(erasures)
  BY <1>3 DEF Inv, Lawful
<1>9. \A d \in Calls : Executing(d) => q \notin ToSet(call[d].todo)
  BY <1>3 DEF Inv, Lawful, Executing
<1>10. Types'
  <2>1. Shape(call'[c])
    BY <1>5, <1>7 DEF Shape
  <2>2. \A d \in Calls \ {c} : Shape(call'[d])
    BY <1>7 DEF Inv, Types
  <2>3. TypeOK'
    BY <1>1, <1>3, <1>7 DEF Inv, Types, TypeOK, CallStates
  <2> QED BY <2>1, <2>2, <2>3 DEF Types
<1>11. Lawful'
  <2>1. \A r \in Requests : Made(r) => Made(r)' /\ (r # q)
    BY <1>3 DEF Made
  <2>2. /\ served \subseteq Requests /\ ToSet(erasures) \subseteq Requests
        /\ \A d \in Calls : /\ ToSet(call[d].todo) \subseteq Requests
                            /\ ToSet(call[d].kept) \subseteq Requests
    BY <1>2, Elements DEF Inv, Types, TypeOK, CallStates
  <2>3. \A d \in Calls \ {c} : Current(d)' = Current(d)
    BY <1>7 DEF Current
  <2> QED BY <1>1, <1>3, <1>5, <1>7, <2>1, <2>2, <2>3 DEF Inv, Lawful
<1>12. Drains' /\ Sends'
  BY <1>1, <1>7 DEF Inv, Drains, Sends
<1>13. NothingForgotten'
  BY <1>1, <1>3, <1>7 DEF Inv, NothingForgotten, Uploading, Current
<1>14. Once'
  <2>1. Busy("drain")' <=> Busy("drain")
    BY <1>1, <1>7 DEF Busy
  <2>2. Busy("receipts")' <=> Busy("receipts")
    BY <1>1, <1>7 DEF Busy
  <2>3. \A d \in Calls \ {c} : (Executing(d)' <=> Executing(d)) /\ Waiting(d)' = Waiting(d)
                               /\ Current(d)' = Current(d)
    BY <1>7 DEF Executing, Waiting, Current
  <2>4. Executing(c)' /\ Waiting(c)' = {q} /\ ~Executing(c)
    BY <1>1, <1>5, <1>7 DEF Executing, Waiting
  <2>5. Alone => Alone'
    <3>1. \A d \in Calls \ {c} : Executing(d) => ToSet(call[d].todo) \cap {q} = {}
      BY <1>9
    <3>2. \A d \in Calls \ {c} : Executing(d)' =>
            ToSet(call'[d].todo) \cap ToSet(call'[c].todo) = {}
      BY <1>5, <1>7, <2>3, <3>1
    <3>3. \A d, e \in Calls \ {c} : call'[d] = call[d] /\ call'[e] = call[e]
      BY <1>7
    <3> QED BY <1>7, <2>3, <3>2, <3>3 DEF Alone
  <2>6. PurgedOnce => PurgedOnce'
    BY <1>1, <1>5, <1>7, <1>8, <2>1, <2>3, <2>4 DEF PurgedOnce
  <2>7. UploadedOnce => UploadedOnce'
    <3> SUFFICES ASSUME UploadedOnce PROVE UploadedOnce'
      OBVIOUS
    <3>1. \A d \in Calls : call'[d].pc \in {"sign", "upload"} \/ call'[d].job = "receipts" =>
            d # c /\ call'[d] = call[d] /\ Current(d)' = Current(d)
      BY <1>7, <2>3
    <3>2. \A d \in Calls : call'[d].pc \in {"sign", "upload"} =>
            /\ got[Current(d)'] = 0 /\ Current(d)' \notin ToSet(receipts)
            /\ \A e \in Calls : call'[e].job = "receipts" =>
                 Current(d)' \notin ToSet(call'[e].todo) \cup ToSet(call'[e].kept)
      BY <3>1 DEF UploadedOnce
    <3>3. \A d \in Calls : call'[d].job = "receipts" =>
            /\ NoRepeat(call'[d].todo) /\ NoRepeat(call'[d].kept)
            /\ ToSet(call'[d].todo) \cap ToSet(call'[d].kept) = {}
            /\ \A r \in ToSet(call'[d].todo) \cup ToSet(call'[d].kept) : got[r] = 0
      BY <3>1 DEF UploadedOnce
    <3> QED BY <1>1, <2>2, <3>2, <3>3 DEF UploadedOnce
  <2> QED BY <1>1, <2>5, <2>6, <2>7 DEF Inv, Once
<1> QED BY <1>10, <1>11, <1>12, <1>13, <1>14 DEF Inv

\* What a running call has in its hands.
LEMMA Holding ==
  ASSUME Inv, NEW c \in Calls, call[c].job # "none"
  PROVE  /\ call[c].todo \in Seq(Requests) /\ call[c].todo # <<>>
         /\ Tail(call[c].todo) \in Seq(Requests) /\ call[c].kept \in Seq(Requests)
         /\ Current(c) \in Requests
         /\ ToSet(call[c].todo) = {Current(c)} \cup ToSet(Tail(call[c].todo))
         /\ NoRepeat(call[c].todo) => /\ NoRepeat(Tail(call[c].todo))
                                      /\ Current(c) \notin ToSet(Tail(call[c].todo))
         /\ Len(call[c].todo) = 1 <=> Tail(call[c].todo) = <<>>
         /\ ToSet(call[c].todo) \subseteq Requests /\ ToSet(call[c].kept) \subseteq Requests
<1>1. call[c].todo \in Seq(Requests) /\ call[c].kept \in Seq(Requests) /\ call[c].todo # <<>>
  BY DEF Inv, Types, TypeOK, Shape
<1> QED BY <1>1, HeadAndTail, Elements DEF Current

\* Two calls do not work on one request.
LEMMA Apart ==
  ASSUME Inv, Alone, NEW c \in Calls, NEW d \in Calls, c # d, Executing(c), Executing(d)
  PROVE  Current(c) # Current(d) /\ Current(c) \notin ToSet(call[d].todo)
<1>1. Current(c) \in ToSet(call[c].todo) /\ Current(d) \in ToSet(call[d].todo)
  BY Holding DEF Executing
<1> QED BY <1>1 DEF Alone

LEMMA DrainOfflineQueueInv ==
  ASSUME Inv, NEW c \in Calls, DrainOfflineQueue(c)
  PROVE  Inv'
<1>1. /\ call[c].job = "none" /\ call[c].pc = "none" /\ erasures # <<>>
      /\ UNCHANGED <<present, enrolments, request, erasures, receipts, got, served, signed,
                     kills>>
  BY DEF DrainOfflineQueue, NoCall, people, arrays, past
<1>2. /\ erasures \in Seq(Requests) /\ ToSet(erasures) \subseteq Requests
      /\ call \in [Calls -> CallStates] /\ hist \in [overwrote : BOOLEAN, again : BOOLEAN]
  BY Elements DEF Inv, Types, TypeOK, CallStates
<1>3. /\ hist' \in [overwrote : BOOLEAN, again : BOOLEAN]
      /\ hist'.overwrote = hist.overwrote /\ hist'.again = (hist.again \/ Busy("drain"))
  BY <1>2 DEF DrainOfflineQueue, Busy
<1>4. Starts(c, "drain", "purge", erasures, ToSet(erasures))
  BY <1>2, NewCallStarts DEF DrainOfflineQueue
<1>5. /\ call' \in [Calls -> CallStates]
      /\ call'[c].pc = "purge" /\ call'[c].job = "drain" /\ call'[c].todo = erasures
      /\ call'[c].snap = ToSet(erasures) /\ call'[c].kept = <<>>
      /\ \A d \in Calls \ {c} : call'[d] = call[d]
  BY <1>4 DEF Starts
<1>6. Types'
  <2>1. Shape(call'[c])
    BY <1>1, <1>5 DEF Shape
  <2>2. \A d \in Calls \ {c} : Shape(call'[d])
    BY <1>5 DEF Inv, Types
  <2>3. TypeOK'
    BY <1>1, <1>3, <1>5 DEF Inv, Types, TypeOK, CallStates
  <2> QED BY <2>1, <2>2, <2>3 DEF Types
<1>7. \A d \in Calls \ {c} : (Executing(d)' <=> Executing(d)) /\ Waiting(d)' = Waiting(d)
                             /\ Current(d)' = Current(d)
  BY <1>5 DEF Executing, Waiting, Current
<1>8. Lawful'
  BY <1>1, <1>5, <1>7, NoElement DEF Inv, Lawful, Made
<1>9. Drains' /\ Sends'
  BY <1>1, <1>5 DEF Inv, Drains, Sends
<1>10. NothingForgotten'
  BY <1>1, <1>3, <1>5 DEF Inv, NothingForgotten, Uploading, Current
<1>11. Once'
  <2> SUFFICES ASSUME ~hist'.again, ~(kills > 0) PROVE Once'
    BY <1>1 DEF Once
  <2>1. Alone /\ PurgedOnce /\ UploadedOnce /\ ~Busy("drain")
    BY <1>3 DEF Inv, Once
  <2>2. NoRepeat(erasures) /\ ToSet(erasures) \cap served = {}
    BY <2>1 DEF PurgedOnce
  <2>3. \A d \in Calls \ {c} : call[d].job # "drain" /\ call'[d].job # "drain"
    BY <1>5, <2>1 DEF Busy
  <2>4. Executing(c)' /\ Waiting(c)' = ToSet(erasures) /\ ~Executing(c)
    BY <1>1, <1>5 DEF Executing, Waiting
  <2>5. \A d \in Calls \ {c} : Executing(d) => ToSet(call[d].todo) \cap ToSet(erasures) = {}
    BY <2>3 DEF Executing, Inv, Lawful
  <2>6. Alone'
    <3>1. \A d \in Calls \ {c} : Executing(d)' =>
            ToSet(call'[d].todo) \cap ToSet(call'[c].todo) = {}
      BY <1>5, <1>7, <2>5
    <3>2. \A d, e \in Calls \ {c} : call'[d] = call[d] /\ call'[e] = call[e]
      BY <1>5
    <3>3. \A d, e \in Calls : call'[d].job = call'[e].job
                              /\ call'[d].job \in {"drain", "receipts"} => d = e
      BY <1>5, <2>1, <2>3, <3>2 DEF Alone
    <3>4. \A d, e \in Calls : Executing(d)' /\ Executing(e)' /\ d # e =>
            ToSet(call'[d].todo) \cap ToSet(call'[e].todo) = {}
      <4>1. \A d, e \in Calls \ {c} : Executing(d)' /\ Executing(e)' /\ d # e =>
              ToSet(call'[d].todo) \cap ToSet(call'[e].todo) = {}
        BY <1>7, <2>1, <3>2 DEF Alone
      <4> QED BY <3>1, <4>1
    <3> QED BY <3>3, <3>4 DEF Alone
  <2>7. PurgedOnce'
    <3>1. Busy("drain")'
      BY <1>5 DEF Busy
    <3>2. \A d \in Calls : Executing(d)' =>
            NoRepeat(call'[d].todo) /\ Waiting(d)' \cap served = {}
      BY <1>1, <1>5, <1>7, <2>1, <2>2, <2>4 DEF PurgedOnce
    <3>3. \A d \in Calls : call'[d].job = "drain" =>
            /\ NoRepeat(call'[d].kept)
            /\ ToSet(call'[d].kept) \cap (served \cup ToSet(call'[d].todo)) = {}
      BY <1>5, <2>3, NoElement
    <3> QED BY <1>1, <3>1, <3>2, <3>3 DEF PurgedOnce
  <2>8. UploadedOnce'
    <3>1. Busy("receipts")' <=> Busy("receipts")
      BY <1>1, <1>5 DEF Busy
    <3>2. \A d \in Calls : call'[d].pc \in {"sign", "upload"} \/ call'[d].job = "receipts" =>
            d # c /\ call'[d] = call[d] /\ Current(d)' = Current(d)
      BY <1>5, <1>7
    <3>3. \A d \in Calls : call'[d].pc \in {"sign", "upload"} =>
            /\ got[Current(d)'] = 0 /\ Current(d)' \notin ToSet(receipts)
            /\ \A e \in Calls : call'[e].job = "receipts" =>
                 Current(d)' \notin ToSet(call'[e].todo) \cup ToSet(call'[e].kept)
      BY <2>1, <3>2 DEF UploadedOnce
    <3>4. \A d \in Calls : call'[d].job = "receipts" =>
            /\ NoRepeat(call'[d].todo) /\ NoRepeat(call'[d].kept)
            /\ ToSet(call'[d].todo) \cap ToSet(call'[d].kept) = {}
            /\ \A r \in ToSet(call'[d].todo) \cup ToSet(call'[d].kept) : got[r] = 0
      BY <2>1, <3>2 DEF UploadedOnce
    <3> QED BY <1>1, <2>1, <3>1, <3>3, <3>4 DEF UploadedOnce
  <2> QED BY <2>6, <2>7, <2>8 DEF Once
<1> QED BY <1>6, <1>8, <1>9, <1>10, <1>11 DEF Inv

LEMMA DrainPendingReceiptsInv ==
  ASSUME Inv, NEW c \in Calls, DrainPendingReceipts(c)
  PROVE  Inv'
<1>1. /\ call[c].job = "none" /\ call[c].pc = "none" /\ receipts # <<>>
      /\ UNCHANGED <<present, enrolments, request, erasures, receipts, got, served, signed,
                     kills>>
  BY DEF DrainPendingReceipts, NoCall, people, arrays, past
<1>2. /\ receipts \in Seq(Requests) /\ ToSet(receipts) \subseteq Requests
      /\ call \in [Calls -> CallStates] /\ hist \in [overwrote : BOOLEAN, again : BOOLEAN]
  BY Elements DEF Inv, Types, TypeOK, CallStates
<1>3. /\ hist' \in [overwrote : BOOLEAN, again : BOOLEAN]
      /\ hist'.overwrote = hist.overwrote /\ hist'.again = (hist.again \/ Busy("receipts"))
  BY <1>2 DEF DrainPendingReceipts, Busy
<1>4. Starts(c, "receipts", "send", receipts, ToSet(receipts))
  BY <1>2, NewCallStarts DEF DrainPendingReceipts
<1>5. /\ call' \in [Calls -> CallStates]
      /\ call'[c].pc = "send" /\ call'[c].job = "receipts" /\ call'[c].todo = receipts
      /\ call'[c].snap = ToSet(receipts) /\ call'[c].kept = <<>>
      /\ \A d \in Calls \ {c} : call'[d] = call[d]
  BY <1>4 DEF Starts
<1>6. Types'
  <2>1. Shape(call'[c])
    BY <1>1, <1>5 DEF Shape
  <2>2. \A d \in Calls \ {c} : Shape(call'[d])
    BY <1>5 DEF Inv, Types
  <2>3. TypeOK'
    BY <1>1, <1>3, <1>5 DEF Inv, Types, TypeOK, CallStates
  <2> QED BY <2>1, <2>2, <2>3 DEF Types
<1>7. \A d \in Calls \ {c} : (Executing(d)' <=> Executing(d)) /\ Waiting(d)' = Waiting(d)
                             /\ Current(d)' = Current(d)
  BY <1>5 DEF Executing, Waiting, Current
<1>8. Lawful'
  BY <1>1, <1>5, <1>7, NoElement DEF Inv, Lawful, Made
<1>9. Drains' /\ Sends'
  BY <1>1, <1>5 DEF Inv, Drains, Sends
<1>10. NothingForgotten'
  BY <1>1, <1>3, <1>5 DEF Inv, NothingForgotten, Uploading, Current
<1>11. Once'
  <2> SUFFICES ASSUME ~hist'.again, ~(kills > 0) PROVE Once'
    BY <1>1 DEF Once
  <2>1. Alone /\ PurgedOnce /\ UploadedOnce /\ ~Busy("receipts")
    BY <1>3 DEF Inv, Once
  <2>2. NoRepeat(receipts) /\ \A q \in ToSet(receipts) : got[q] = 0
    BY <2>1 DEF UploadedOnce
  <2>3. \A d \in Calls \ {c} : call[d].job # "receipts" /\ call'[d].job # "receipts"
    BY <1>5, <2>1 DEF Busy
  <2>4. ~Executing(c)'
    BY <1>5 DEF Executing
  <2>5. Alone'
    <3>1. \A d, e \in Calls \ {c} : call'[d] = call[d] /\ call'[e] = call[e]
      BY <1>5
    <3>2. \A d, e \in Calls : call'[d].job = call'[e].job
                              /\ call'[d].job \in {"drain", "receipts"} => d = e
      <4>1. \A d, e \in Calls \ {c} : call'[d].job = call'[e].job
                                      /\ call'[d].job \in {"drain", "receipts"} => d = e
        BY <2>1, <3>1 DEF Alone
      <4> QED BY <1>5, <2>3, <4>1
    <3>3. \A d, e \in Calls : Executing(d)' /\ Executing(e)' /\ d # e =>
            ToSet(call'[d].todo) \cap ToSet(call'[e].todo) = {}
      BY <1>7, <2>1, <2>4, <3>1 DEF Alone
    <3> QED BY <3>2, <3>3 DEF Alone
  <2>6. PurgedOnce'
    <3>1. Busy("drain")' <=> Busy("drain")
      BY <1>1, <1>5 DEF Busy
    <3> QED BY <1>1, <1>5, <1>7, <2>1, <2>4, <3>1 DEF PurgedOnce
  <2>7. UploadedOnce'
    <3>1. Busy("receipts")'
      BY <1>5 DEF Busy
    <3> QED BY <1>1, <1>5, <1>7, <2>1, <2>2, <2>3, <3>1, NoElement DEF UploadedOnce
  <2> QED BY <2>5, <2>6, <2>7 DEF Once
<1> QED BY <1>6, <1>8, <1>9, <1>10, <1>11 DEF Inv

\* A call of execute that goes from one of its steps to the next.
LEMMA StepOn ==
  ASSUME Inv, NEW c \in Calls, NEW pc \in {"sign", "upload", "record"},
         call[c].pc \in {"purge", "sign", "upload"}, Moves(c, pc)
  PROVE  /\ Executing(c) /\ call[c].job # "none" /\ Current(c) \in Requests
         /\ Current(c)' = Current(c) /\ Executing(c)'
         /\ Waiting(c)' = ToSet(Tail(call[c].todo))
         /\ \A d \in Calls : /\ Shape(call'[d]) /\ Current(d)' = Current(d)
                             /\ Executing(d)' <=> Executing(d)
                             /\ call'[d].job = call[d].job /\ call'[d].todo = call[d].todo
                             /\ call'[d].snap = call[d].snap /\ call'[d].kept = call[d].kept
         /\ \A d \in Calls \ {c} : Waiting(d)' = Waiting(d) /\ call'[d].pc = call[d].pc
         /\ Alone => Alone'
         /\ \A job : Busy(job)' <=> Busy(job)
<1>1. Executing(c) /\ call[c].job # "none" /\ call[c].job # "receipts"
  BY DEF Inv, Types, TypeOK, Shape, Executing
<1>2. Current(c) \in Requests
  BY <1>1, Holding
<1>3. \A d \in Calls : /\ call'[d].job = call[d].job /\ call'[d].todo = call[d].todo
                       /\ call'[d].snap = call[d].snap /\ call'[d].kept = call[d].kept
  BY DEF Moves
<1>4. \A d \in Calls : Current(d)' = Current(d) /\ (Executing(d)' <=> Executing(d))
  BY <1>3 DEF Current, Executing
<1>5. \A d \in Calls \ {c} : call'[d] = call[d]
  BY DEF Moves
<1>6. \A d \in Calls \ {c} : Shape(call'[d])
  BY <1>5 DEF Inv, Types
<1>7. Shape(call'[c])
  BY <1>1 DEF Moves, Inv, Types, Shape
<1>8. Waiting(c)' = ToSet(Tail(call[c].todo))
  BY DEF Moves, Waiting
<1>9. \A d \in Calls \ {c} : Waiting(d)' = Waiting(d) /\ call'[d].pc = call[d].pc
  BY <1>5 DEF Waiting
<1>10. Alone => Alone'
  BY <1>3, <1>4 DEF Alone
<1>11. \A job : Busy(job)' <=> Busy(job)
  BY <1>3 DEF Busy
<1> QED BY <1>1, <1>2, <1>3, <1>4, <1>6, <1>7, <1>8, <1>9, <1>10, <1>11

LEMMA PurgeInv ==
  ASSUME Inv, NEW c \in Calls, Purge(c)
  PROVE  Inv'
<1> DEFINE q == Current(c)
<1>1. /\ call[c].pc = "purge" /\ Goto(c, "sign") /\ served' = served \cup {q}
      /\ present' = present \ {Subject(c)}
      /\ UNCHANGED <<enrolments, request, erasures, receipts, got, signed, kills, hist>>
  BY DEF Purge, arrays
<1>2. Moves(c, "sign")
  BY <1>1, GotoMoves DEF Inv, Types, TypeOK, CallStates
<1>3. /\ call'[c].pc = "sign" /\ call' \in [Calls -> CallStates]
  BY <1>2 DEF Moves
<1>4. /\ Executing(c) /\ call[c].job # "none" /\ q \in Requests /\ Current(c)' = q
      /\ Executing(c)' /\ Waiting(c)' = ToSet(Tail(call[c].todo))
      /\ \A d \in Calls : /\ Shape(call'[d]) /\ Current(d)' = Current(d)
                          /\ Executing(d)' <=> Executing(d)
                          /\ call'[d].job = call[d].job /\ call'[d].todo = call[d].todo
                          /\ call'[d].snap = call[d].snap /\ call'[d].kept = call[d].kept
      /\ \A d \in Calls \ {c} : Waiting(d)' = Waiting(d) /\ call'[d].pc = call[d].pc
      /\ Alone => Alone'
      /\ \A job : Busy(job)' <=> Busy(job)
  BY <1>1, <1>2, StepOn
<1>5. /\ ToSet(call[c].todo) = {q} \cup ToSet(Tail(call[c].todo))
      /\ NoRepeat(call[c].todo) => q \notin ToSet(Tail(call[c].todo))
  BY <1>4, Holding
<1> HIDE DEF q
<1>6. Types'
  <2>1. TypeOK'
    BY <1>1, <1>3, <1>4 DEF Inv, Types, TypeOK, CallStates
  <2> QED BY <1>4, <2>1 DEF Types
<1>7. Made(q)
  BY <1>4, <1>5 DEF Inv, Lawful, Executing
<1>8. Lawful'
  BY <1>1, <1>3, <1>4, <1>7 DEF Inv, Lawful, Made
<1>9. Drains' /\ Sends'
  BY <1>1, <1>4 DEF Inv, Drains, Sends
<1>10. NothingForgotten'
  <2>1. \A r \in Requests : Uploading(r) => Uploading(r)'
    BY <1>1, <1>4 DEF Uploading
  <2> QED BY <1>1, <2>1 DEF Inv, NothingForgotten
<1>11. Once'
  <2> SUFFICES ASSUME ~hist.again, ~(kills > 0) PROVE Once'
    BY <1>1 DEF Once
  <2>1. Alone /\ PurgedOnce /\ UploadedOnce
    BY DEF Inv, Once
  <2>2. NoRepeat(call[c].todo) /\ Waiting(c) = ToSet(call[c].todo) /\ Waiting(c) \cap served = {}
    BY <1>1, <1>4, <2>1 DEF PurgedOnce, Waiting
  <2>3. q \notin served /\ q \notin signed /\ got[q] = 0
    BY <1>4, <1>5, <2>2 DEF Inv, Lawful, Types, TypeOK
  <2>4. \A d \in Calls \ {c} : Executing(d) => q \notin Waiting(d)
    <3>1. \A d \in Calls \ {c} : Executing(d) => q \notin ToSet(call[d].todo)
      BY <1>4, <2>1, Apart DEF q
    <3>2. \A d \in Calls : Executing(d) => Waiting(d) \subseteq ToSet(call[d].todo)
      BY Holding DEF Executing, Waiting
    <3> QED BY <3>1, <3>2
  <2>5. \A d \in Calls : call[d].job = "drain" => q \notin ToSet(call[d].kept)
    <3>1. CASE call[c].job = "drain"
      BY <1>5, <2>1, <3>1 DEF Alone, PurgedOnce
    <3>2. CASE call[c].job = "request"
      BY <1>5, <3>2 DEF Inv, Lawful
    <3> QED BY <1>4, <3>1, <3>2 DEF Executing
  <2>6. ~Busy("drain") => q \notin ToSet(erasures)
    <3>1. CASE call[c].job = "drain"
      BY <3>1 DEF Busy
    <3>2. CASE call[c].job = "request"
      BY <1>5, <3>2 DEF Inv, Lawful
    <3> QED BY <1>4, <3>1, <3>2 DEF Executing
  <2>7. PurgedOnce'
    <3>1. ASSUME NEW d \in Calls, Executing(d)
          PROVE  NoRepeat(call[d].todo) /\ Waiting(d)' \cap served' = {}
      <4>1. NoRepeat(call[d].todo) /\ Waiting(d) \cap served = {}
        BY <2>1, <3>1 DEF PurgedOnce
      <4>2. CASE d = c
        BY <1>1, <1>4, <1>5, <2>2, <4>2
      <4>3. CASE d # c
        BY <1>1, <1>4, <2>4, <3>1, <4>1, <4>3
      <4> QED BY <4>1, <4>2, <4>3
    <3> QED BY <1>1, <1>4, <2>1, <2>5, <2>6, <3>1 DEF PurgedOnce
  <2>8. UploadedOnce'
    <3>1. q \notin ToSet(receipts)
      BY <2>3 DEF Inv, Lawful
    <3>2. \A d \in Calls : call[d].job = "receipts" =>
            q \notin ToSet(call[d].todo) \cup ToSet(call[d].kept)
      BY <2>3 DEF Inv, Lawful
    <3>3. \A d \in Calls : call'[d].pc \in {"sign", "upload"} =>
            d = c \/ call[d].pc \in {"sign", "upload"}
      BY <1>4
    <3> QED BY <1>1, <1>4, <2>1, <2>3, <3>1, <3>2, <3>3 DEF UploadedOnce
  <2> QED BY <1>4, <2>1, <2>7, <2>8 DEF Once
<1> QED BY <1>6, <1>8, <1>9, <1>10, <1>11 DEF Inv

LEMMA SignReceiptInv ==
  ASSUME Inv, NEW c \in Calls, SignReceipt(c)
  PROVE  Inv'
<1> DEFINE q == Current(c)
<1>1. /\ call[c].pc = "sign" /\ Goto(c, "upload") /\ signed' = signed \cup {q}
      /\ UNCHANGED <<present, enrolments, request, erasures, receipts, got, served, kills, hist>>
  BY DEF SignReceipt, arrays, people
<1>2. Moves(c, "upload")
  BY <1>1, GotoMoves DEF Inv, Types, TypeOK, CallStates
<1>3. /\ call'[c].pc = "upload" /\ call' \in [Calls -> CallStates]
  BY <1>2 DEF Moves
<1>4. /\ Executing(c) /\ call[c].job # "none" /\ q \in Requests /\ Current(c)' = q
      /\ Executing(c)' /\ Waiting(c)' = ToSet(Tail(call[c].todo))
      /\ \A d \in Calls : /\ Shape(call'[d]) /\ Current(d)' = Current(d)
                          /\ Executing(d)' <=> Executing(d)
                          /\ call'[d].job = call[d].job /\ call'[d].todo = call[d].todo
                          /\ call'[d].snap = call[d].snap /\ call'[d].kept = call[d].kept
      /\ \A d \in Calls \ {c} : Waiting(d)' = Waiting(d) /\ call'[d].pc = call[d].pc
      /\ Alone => Alone'
      /\ \A job : Busy(job)' <=> Busy(job)
  BY <1>1, <1>2, StepOn
<1> HIDE DEF q
<1>5. Types'
  <2>1. TypeOK'
    BY <1>1, <1>3, <1>4 DEF Inv, Types, TypeOK, CallStates
  <2> QED BY <1>4, <2>1 DEF Types
<1>6. Lawful'
  <2>1. q \in served
    BY <1>1 DEF Inv, Lawful, q
  <2> QED BY <1>1, <1>3, <1>4, <2>1 DEF Inv, Lawful, Made
<1>7. Drains' /\ Sends'
  BY <1>1, <1>4 DEF Inv, Drains, Sends
<1>8. NothingForgotten'
  <2>1. \A r \in Requests : Uploading(r) => Uploading(r)'
    BY <1>1, <1>4 DEF Uploading
  <2>2. \A r \in Requests : r = q => Uploading(r)'
    BY <1>3, <1>4 DEF Uploading
  <2> QED BY <1>1, <2>1, <2>2 DEF Inv, NothingForgotten
<1>9. Once'
  <2> SUFFICES ASSUME ~hist.again, ~(kills > 0) PROVE Once'
    BY <1>1 DEF Once
  <2>1. Alone /\ PurgedOnce /\ UploadedOnce
    BY DEF Inv, Once
  <2>2. \A d \in Calls : Waiting(d)' = Waiting(d)
    BY <1>1, <1>4 DEF Waiting
  <2>3. PurgedOnce'
    BY <1>1, <1>4, <2>1, <2>2 DEF PurgedOnce
  <2>4. UploadedOnce'
    <3>1. \A d \in Calls : call'[d].pc \in {"sign", "upload"} => call[d].pc \in {"sign", "upload"}
      BY <1>1, <1>4
    <3> QED BY <1>1, <1>4, <2>1, <3>1 DEF UploadedOnce
  <2> QED BY <1>4, <2>1, <2>3, <2>4 DEF Once
<1> QED BY <1>5, <1>6, <1>7, <1>8, <1>9 DEF Inv

\* The answer came, or it did not and the receipt is queued.
LEMMA UploadInv ==
  ASSUME Inv, NEW c \in Calls, UploadReceipt(c) \/ UploadFails(c)
  PROVE  Inv'
<1> DEFINE q == Current(c)
<1>1. /\ call[c].pc = "upload" /\ Goto(c, "record")
      /\ UNCHANGED <<present, enrolments, request, erasures, served, signed, kills>>
  BY DEF UploadReceipt, UploadFails, people, arrays, past
<1>2. Moves(c, "record")
  BY <1>1, GotoMoves DEF Inv, Types, TypeOK, CallStates
<1>3. /\ call'[c].pc = "record" /\ call' \in [Calls -> CallStates]
  BY <1>2 DEF Moves
<1>4. /\ Executing(c) /\ call[c].job # "none" /\ q \in Requests /\ Current(c)' = q
      /\ Executing(c)' /\ Waiting(c)' = ToSet(Tail(call[c].todo))
      /\ \A d \in Calls : /\ Shape(call'[d]) /\ Current(d)' = Current(d)
                          /\ Executing(d)' <=> Executing(d)
                          /\ call'[d].job = call[d].job /\ call'[d].todo = call[d].todo
                          /\ call'[d].snap = call[d].snap /\ call'[d].kept = call[d].kept
      /\ \A d \in Calls \ {c} : Waiting(d)' = Waiting(d) /\ call'[d].pc = call[d].pc
      /\ Alone => Alone'
      /\ \A job : Busy(job)' <=> Busy(job)
  BY <1>1, <1>2, StepOn
<1>5. /\ got \in [Requests -> 0 .. 2] /\ hist \in [overwrote : BOOLEAN, again : BOOLEAN]
      /\ receipts \in Seq(Requests)
  BY DEF Inv, Types, TypeOK
<1>6. /\ Received(q) \in [Requests -> 0 .. 2] /\ Received(q)[q] > 0
      /\ got[q] = 0 => Received(q)[q] = 1
      /\ \A r \in Requests \ {q} : Received(q)[r] = got[r]
  BY <1>4, <1>5 DEF Received
<1>7. q \in signed
  BY <1>1 DEF Inv, Lawful
<1> HIDE DEF q
\* Whether it came: the receipt is at the server, or it is in the array.
<1>8. \/ /\ got' = Received(q) /\ receipts' = receipts /\ hist' = hist
      \/ /\ got' \in {got, Received(q)} /\ receipts' = Append(receipts, q)
         /\ hist'.overwrote = hist.overwrote
         /\ hist'.again = (hist.again \/ got' # got)
         /\ hist' \in [overwrote : BOOLEAN, again : BOOLEAN]
  <2>1. ASSUME UploadFails(c)
        PROVE  /\ hist'.overwrote = hist.overwrote
               /\ hist'.again = (hist.again \/ got' # got)
               /\ hist' \in [overwrote : BOOLEAN, again : BOOLEAN]
    <3>1. PICK b \in BOOLEAN : b = (hist.again \/ got' # got)
      BY <1>5
    <3>2. hist' = [hist EXCEPT !.again = b]
      BY <2>1, <3>1 DEF UploadFails
    <3> QED BY <1>5, <3>1, <3>2
  <2> QED BY <2>1 DEF UploadReceipt, UploadFails, arrays, q
<1>9. /\ got' \in [Requests -> 0 .. 2] /\ got'[q] \in {got[q], Received(q)[q]}
      /\ \A r \in Requests \ {q} : got'[r] = got[r]
      /\ hist' \in [overwrote : BOOLEAN, again : BOOLEAN] /\ hist'.overwrote = hist.overwrote
      /\ hist.again => hist'.again
  BY <1>5, <1>6, <1>8
<1>10. /\ receipts' \in Seq(Requests)
       /\ ToSet(receipts') \in {ToSet(receipts), ToSet(receipts) \cup {q}}
       /\ q \in ToSet(receipts') \/ got'[q] > 0
       /\ NoRepeat(receipts) /\ q \notin ToSet(receipts) => NoRepeat(receipts')
  BY <1>4, <1>5, <1>6, <1>8, Appended
<1>11. \A r \in Requests : got[r] > 0 => got'[r] > 0
  BY <1>5, <1>6, <1>9
<1>12. Types'
  <2>1. TypeOK'
    BY <1>1, <1>3, <1>4, <1>9, <1>10 DEF Inv, Types, TypeOK, CallStates
  <2> QED BY <1>4, <2>1 DEF Types
<1>13. Lawful'
  BY <1>1, <1>3, <1>4, <1>7, <1>9, <1>10 DEF Inv, Lawful, Made
<1>14. Drains' /\ Sends'
  <2>1. \A d \in Calls : call[d].snap \subseteq Requests
    BY DEF Inv, Types, TypeOK
  <2> QED BY <1>1, <1>4, <1>11, <2>1 DEF Inv, Drains, Sends
<1>15. NothingForgotten'
  <2>1. \A r \in Requests \ {q} : Uploading(r) => Uploading(r)'
    BY <1>1, <1>4 DEF Uploading, q
  <2> QED BY <1>1, <1>9, <1>10, <1>11, <2>1 DEF Inv, NothingForgotten
<1>16. Once'
  <2> SUFFICES ASSUME ~hist'.again, ~(kills > 0) PROVE Once'
    BY <1>1 DEF Once
  <2>1. Alone /\ PurgedOnce /\ UploadedOnce
    BY <1>9 DEF Inv, Once
  <2>2. \A d \in Calls : Waiting(d)' = Waiting(d)
    BY <1>1, <1>4 DEF Waiting
  <2>3. PurgedOnce'
    BY <1>1, <1>4, <2>1, <2>2 DEF PurgedOnce
  <2>4. /\ got[q] = 0 /\ q \notin ToSet(receipts)
        /\ \A d \in Calls : call[d].job = "receipts" =>
             q \notin ToSet(call[d].todo) \cup ToSet(call[d].kept)
    BY <1>1, <2>1 DEF UploadedOnce, q
  <2>5. /\ got'[q] <= 1 /\ (got'[q] = 0 \/ receipts' = receipts)
    BY <1>6, <1>8, <2>4
  <2>6. \A d \in Calls \ {c} : call[d].pc \in {"sign", "upload"} => Current(d) # q
    <3>1. \A d \in Calls : call[d].pc \in {"sign", "upload"} => Executing(d)
      BY DEF Inv, Types, TypeOK, Shape, Executing
    <3> QED BY <1>4, <2>1, <3>1, Apart DEF q
  <2>7. UploadedOnce'
    <3>1. \A r \in Requests : got'[r] <= 1
      BY <1>9, <2>1, <2>5 DEF UploadedOnce
    <3>2. \A d \in Calls : call'[d].pc \in {"sign", "upload"} =>
            d # c /\ call[d].pc \in {"sign", "upload"} /\ Current(d) # q
                  /\ Current(d) \in Requests
      <4>1. \A d \in Calls : call[d].pc \in {"sign", "upload"} => call[d].job # "none"
        BY DEF Inv, Types, Shape
      <4> QED BY <1>3, <1>4, <2>6, <4>1, Holding
    <3>3. \A d \in Calls : call'[d].pc \in {"sign", "upload"} =>
            /\ got'[Current(d)'] = 0 /\ Current(d)' \notin ToSet(receipts')
            /\ \A e \in Calls : call'[e].job = "receipts" =>
                 Current(d)' \notin ToSet(call'[e].todo) \cup ToSet(call'[e].kept)
      BY <1>4, <1>9, <1>10, <2>1, <3>2 DEF UploadedOnce
    <3>4. \A d \in Calls : call[d].job = "receipts" =>
            \A r \in ToSet(call[d].todo) \cup ToSet(call[d].kept) : r \in Requests /\ r # q
      BY <2>4, Holding
    <3>5. \A d \in Calls : call'[d].job = "receipts" =>
            /\ NoRepeat(call'[d].todo) /\ NoRepeat(call'[d].kept)
            /\ ToSet(call'[d].todo) \cap ToSet(call'[d].kept) = {}
            /\ \A r \in ToSet(call'[d].todo) \cup ToSet(call'[d].kept) : got'[r] = 0
      BY <1>4, <1>9, <2>1, <3>4 DEF UploadedOnce
    <3>6. ~Busy("receipts")' => NoRepeat(receipts') /\ \A r \in ToSet(receipts') : got'[r] = 0
      <4>1. ToSet(receipts) \subseteq Requests
        BY <1>5, Elements
      <4> QED BY <1>4, <1>8, <1>9, <1>10, <2>1, <2>4, <2>5, <4>1 DEF UploadedOnce
    <3> QED BY <3>1, <3>3, <3>5, <3>6 DEF UploadedOnce
  <2> QED BY <1>4, <2>1, <2>3, <2>7 DEF Once
<1> QED BY <1>12, <1>13, <1>14, <1>15, <1>16 DEF Inv

\* A call of execute that comes to its end or takes the next request does not
\* disturb what is said of the other calls.
LEMMA OtherCalls ==
  ASSUME NEW c \in Calls, \A d \in Calls \ {c} : call'[d] = call[d]
  PROVE  \A d \in Calls \ {c} :
           /\ Current(d)' = Current(d) /\ Waiting(d)' = Waiting(d)
           /\ Executing(d)' <=> Executing(d)
  BY DEF Current, Waiting, Executing

\* A direct call is over, whatever came of it.
LEMMA RequestEndsInv ==
  ASSUME Inv, NEW c \in Calls, call[c].job = "request", call[c].pc # "upload", Ends(c),
         UNCHANGED <<present, enrolments, request, erasures, receipts, got, served, signed,
                     kills, hist>>
  PROVE  Inv'
<1>1. /\ call' \in [Calls -> CallStates] /\ call'[c].job = "none" /\ call'[c].pc = "none"
      /\ \A d \in Calls \ {c} : call'[d] = call[d]
  BY DEF Ends
<1>2. \A d \in Calls \ {c} : /\ Current(d)' = Current(d) /\ Waiting(d)' = Waiting(d)
                             /\ Executing(d)' <=> Executing(d)
  BY <1>1, OtherCalls
<1>3. ~Executing(c)'
  BY <1>1 DEF Executing
<1>4. Types'
  <2>1. Shape(call'[c])
    BY <1>1 DEF Shape
  <2>2. \A d \in Calls \ {c} : Shape(call'[d])
    BY <1>1 DEF Inv, Types
  <2>3. TypeOK'
    BY <1>1 DEF Inv, Types, TypeOK, CallStates
  <2> QED BY <2>1, <2>2, <2>3 DEF Types
<1>5. Lawful'
  BY <1>1, <1>2 DEF Inv, Lawful, Made
<1>6. Drains' /\ Sends'
  BY <1>1 DEF Inv, Drains, Sends
<1>7. NothingForgotten'
  BY <1>1, <1>2 DEF Inv, NothingForgotten, Uploading
<1>8. Once'
  <2>1. \A job \in {"drain", "receipts"} : Busy(job)' <=> Busy(job)
    BY <1>1 DEF Busy
  <2>2. Alone => Alone'
    BY <1>1, <1>2, <1>3 DEF Alone
  <2>3. PurgedOnce => PurgedOnce'
    BY <1>1, <1>2, <1>3, <2>1 DEF PurgedOnce
  <2>4. UploadedOnce => UploadedOnce'
    BY <1>1, <1>2, <2>1 DEF UploadedOnce
  <2> QED BY <2>2, <2>3, <2>4 DEF Inv, Once
<1> QED BY <1>4, <1>5, <1>6, <1>7, <1>8 DEF Inv

\* A drain is through with a request: it was served, or it is kept.
LEMMA DrainAdvancesInv ==
  ASSUME Inv, NEW c \in Calls, call[c].job = "drain", call[c].pc # "upload",
         NEW k, Advance(c, k, "purge", erasures),
         hist' \in [overwrote : BOOLEAN, again : BOOLEAN],
         hist'.overwrote = (hist.overwrote \/ Overwrites(c, erasures)),
         \/ k = call[c].kept /\ Current(c) \in served /\ hist'.again = hist.again
         \/ /\ k = Append(call[c].kept, Current(c))
            /\ hist'.again = (hist.again \/ call[c].pc # "purge" \/ Subject(c) \notin present),
         UNCHANGED <<present, enrolments, request, receipts, got, served, signed, kills>>
  PROVE  Inv'
<1> DEFINE q == Current(c)
           rest == Tail(call[c].todo)
<1>1. /\ rest \in Seq(Requests) /\ call[c].kept \in Seq(Requests) /\ q \in Requests
      /\ call[c].todo # <<>> /\ ToSet(call[c].todo) = {q} \cup ToSet(rest)
      /\ NoRepeat(call[c].todo) => NoRepeat(rest) /\ q \notin ToSet(rest)
      /\ Len(call[c].todo) = 1 <=> rest = <<>>
  BY Holding
<1>2. /\ k \in Seq(Requests) /\ ToSet(k) \subseteq ToSet(call[c].kept) \cup {q}
      /\ ToSet(call[c].kept) \subseteq ToSet(k) /\ q \in ToSet(k) \cup served
      /\ NoRepeat(call[c].kept) /\ q \notin ToSet(call[c].kept) => NoRepeat(k)
  <2>1. \/ k = call[c].kept /\ q \in served
       \/ k = Append(call[c].kept, q)
    OBVIOUS
  <2>2. CASE k = call[c].kept /\ q \in served
    BY <1>1, <2>2
  <2>3. CASE k = Append(call[c].kept, q)
    BY <1>1, <2>3, Appended
  <2> QED BY <2>1, <2>2, <2>3
<1>3. IF rest = <<>> THEN Ends(c) ELSE TakesNext(c, "purge", k)
  BY <1>1, <1>2, Advanced DEF Advance, Inv, Types, TypeOK, CallStates
<1>4. erasures' = IF rest = <<>> THEN k ELSE erasures
  BY DEF Advance
<1>5. /\ call' \in [Calls -> CallStates]
      /\ \A d \in Calls \ {c} : call'[d] = call[d]
  BY <1>3 DEF Ends, TakesNext
<1>6. rest = <<>> => call'[c].job = "none" /\ call'[c].pc = "none"
  BY <1>3 DEF Ends
<1>7. rest # <<>> => /\ call'[c].pc = "purge" /\ call'[c].job = "drain"
                     /\ call'[c].todo = rest /\ call'[c].kept = k
                     /\ call'[c].snap = call[c].snap
  BY <1>3 DEF TakesNext
<1>8. \A d \in Calls \ {c} : /\ Current(d)' = Current(d) /\ Waiting(d)' = Waiting(d)
                             /\ Executing(d)' <=> Executing(d)
  BY <1>5, OtherCalls
<1>9. /\ rest # <<>> => Executing(c)' /\ Waiting(c)' = ToSet(rest)
      /\ rest = <<>> => ~Executing(c)'
      /\ call'[c].job # "receipts" /\ call'[c].job # "request"
      /\ call'[c].pc \in {"none", "purge"}
  BY <1>6, <1>7 DEF Executing, Waiting
<1> HIDE DEF q, rest
<1>10. Types'
  <2>1. Shape(call'[c])
    BY <1>6, <1>7 DEF Shape
  <2>2. \A d \in Calls \ {c} : Shape(call'[d])
    BY <1>5 DEF Inv, Types
  <2>3. erasures' \in Seq(Requests)
    BY <1>2, <1>4 DEF Inv, Types, TypeOK
  <2>4. TypeOK'
    BY <1>5, <2>3 DEF Inv, Types, TypeOK, CallStates
  <2> QED BY <2>1, <2>2, <2>4 DEF Types
<1>11. \A r \in ToSet(call[c].todo) \cup ToSet(call[c].kept) \cup ToSet(k) :
         Made(r) /\ request[r].queued
  BY <1>1, <1>2 DEF Inv, Lawful
<1>12. Lawful'
  <2>1. \A r : Made(r)' <=> Made(r)
    BY DEF Made
  <2>2. \A r \in ToSet(erasures') : Made(r) /\ request[r].queued
    BY <1>4, <1>11 DEF Inv, Lawful
  <2>3. \A d \in Calls : call'[d].job = "drain" =>
          \A r \in ToSet(call'[d].todo) \cup ToSet(call'[d].kept) : Made(r) /\ request[r].queued
    BY <1>1, <1>5, <1>6, <1>7, <1>11 DEF Inv, Lawful
  <2> QED BY <1>5, <1>8, <1>9, <2>1, <2>2, <2>3 DEF Inv, Lawful
<1>13. call[c].snap \subseteq ToSet(rest) \cup ToSet(k) \cup served
  BY <1>1, <1>2 DEF Inv, Drains
<1>14. Drains' /\ Sends'
  BY <1>5, <1>6, <1>7, <1>9, <1>13 DEF Inv, Drains, Sends
<1>15. NothingForgotten'
  <2>1. \A r \in Requests : Uploading(r) => Uploading(r)'
    BY <1>5, <1>8 DEF Uploading
  <2>2. ~hist'.overwrote => ToSet(erasures) \subseteq ToSet(erasures') \cup served
    BY <1>1, <1>4, <1>13, NoElement DEF Overwrites
  <2> QED BY <2>1, <2>2 DEF Inv, NothingForgotten
<1>16. Once'
  <2> SUFFICES ASSUME ~hist'.again, ~(kills > 0) PROVE Once'
    BY DEF Once
  <2>1. Alone /\ PurgedOnce /\ UploadedOnce
    BY DEF Inv, Once
  <2>2. /\ NoRepeat(call[c].todo) /\ Waiting(c) \cap served = {} /\ NoRepeat(call[c].kept)
        /\ ToSet(call[c].kept) \cap (served \cup ToSet(call[c].todo)) = {}
    BY <2>1 DEF PurgedOnce, Executing
  <2>3. ToSet(k) \cap (served \cup ToSet(rest)) = {} /\ NoRepeat(k)
    <3>1. CASE k = call[c].kept
      BY <1>1, <2>2, <3>1
    <3>2. CASE k # call[c].kept
      <4>1. call[c].pc = "purge" /\ q \notin served
        BY <1>1, <2>2, <3>2 DEF Waiting
      <4> QED BY <1>1, <1>2, <2>2, <4>1
    <3> QED BY <3>1, <3>2
  <2>4. Alone'
    <3>1. \A d \in Calls \ {c} : call'[d].job # "drain"
      BY <1>5, <2>1 DEF Alone
    <3>2. \A d \in Calls \ {c} : Executing(d)' /\ Executing(c)' =>
            ToSet(call'[d].todo) \cap ToSet(call'[c].todo) = {}
      <4>1. \A d \in Calls \ {c} : Executing(d) =>
              ToSet(call[d].todo) \cap ToSet(call[c].todo) = {}
        BY <2>1 DEF Alone, Executing
      <4> QED BY <1>1, <1>5, <1>7, <1>8, <1>9, <4>1
    <3>3. \A d, e \in Calls \ {c} : call'[d] = call[d] /\ call'[e] = call[e]
      BY <1>5
    <3>4. \A d, e \in Calls : call'[d].job = call'[e].job
                              /\ call'[d].job \in {"drain", "receipts"} => d = e
      <4>1. \A d, e \in Calls \ {c} : call[d].job = call[e].job
                                      /\ call[d].job \in {"drain", "receipts"} => d = e
        BY <2>1 DEF Alone
      <4> QED BY <1>9, <3>1, <3>3, <4>1
    <3>5. \A d, e \in Calls : Executing(d)' /\ Executing(e)' /\ d # e =>
            ToSet(call'[d].todo) \cap ToSet(call'[e].todo) = {}
      <4>1. \A d, e \in Calls \ {c} : Executing(d)' /\ Executing(e)' /\ d # e =>
              ToSet(call'[d].todo) \cap ToSet(call'[e].todo) = {}
        BY <1>8, <2>1, <3>3 DEF Alone
      <4> QED BY <3>2, <4>1
    <3> QED BY <3>4, <3>5 DEF Alone
  <2>5. PurgedOnce'
    <3>1. ToSet(rest) \cap served = {}
      BY <1>1, <2>2 DEF Waiting, rest
    <3>2. \A d \in Calls \ {c} : call'[d].job # "drain"
      BY <1>5, <2>1 DEF Alone
    <3>3. \A d \in Calls : Executing(d)' =>
            NoRepeat(call'[d].todo) /\ Waiting(d)' \cap served = {}
      BY <1>1, <1>5, <1>7, <1>8, <1>9, <2>1, <2>2, <3>1 DEF PurgedOnce
    <3>4. \A d \in Calls : call'[d].job = "drain" =>
            /\ NoRepeat(call'[d].kept)
            /\ ToSet(call'[d].kept) \cap (served \cup ToSet(call'[d].todo)) = {}
      BY <1>6, <1>7, <2>3, <3>2
    <3>5. ~Busy("drain")' => NoRepeat(erasures') /\ ToSet(erasures') \cap served = {}
      BY <1>4, <1>7, <2>3 DEF Busy
    <3> QED BY <3>3, <3>4, <3>5 DEF PurgedOnce
  <2>6. UploadedOnce'
    <3>1. Busy("receipts")' <=> Busy("receipts")
      BY <1>5, <1>9 DEF Busy
    <3>2. \A d \in Calls : call'[d].pc \in {"sign", "upload"} \/ call'[d].job = "receipts" =>
            d # c /\ call'[d] = call[d] /\ Current(d)' = Current(d)
      BY <1>5, <1>8, <1>9
    <3>3. \A d \in Calls : call'[d].pc \in {"sign", "upload"} =>
            /\ got[Current(d)'] = 0 /\ Current(d)' \notin ToSet(receipts)
            /\ \A e \in Calls : call'[e].job = "receipts" =>
                 Current(d)' \notin ToSet(call'[e].todo) \cup ToSet(call'[e].kept)
      BY <2>1, <3>2 DEF UploadedOnce
    <3>4. \A d \in Calls : call'[d].job = "receipts" =>
            /\ NoRepeat(call'[d].todo) /\ NoRepeat(call'[d].kept)
            /\ ToSet(call'[d].todo) \cap ToSet(call'[d].kept) = {}
            /\ \A r \in ToSet(call'[d].todo) \cup ToSet(call'[d].kept) : got[r] = 0
      BY <2>1, <3>2 DEF UploadedOnce
    <3> QED BY <2>1, <3>1, <3>3, <3>4 DEF UploadedOnce
  <2> QED BY <2>4, <2>5, <2>6 DEF Once
<1> QED BY <1>10, <1>12, <1>14, <1>15, <1>16 DEF Inv

LEMMA ExecuteFailsInv ==
  ASSUME Inv, NEW c \in Calls, ExecuteFails(c)
  PROVE  Inv'
<1>1. /\ call[c].pc \in {"purge", "sign", "record"} /\ Failed(c)
      /\ UNCHANGED <<present, enrolments, request, receipts, got, served, signed, kills>>
  BY DEF ExecuteFails, people, past
<1>2. call[c].job \in {"request", "drain"}
  BY <1>1 DEF Inv, Types, TypeOK, Shape
<1>3. CASE call[c].job = "request"
  <2>1. Ends(c) /\ UNCHANGED <<erasures, hist>>
    BY <1>1, <1>3, NoCallEnds DEF Failed, Inv, Types, TypeOK, CallStates
  <2> QED BY <1>1, <1>3, <2>1, RequestEndsInv
<1>4. CASE call[c].job = "drain"
  <2>1. /\ Advance(c, Append(call[c].kept, Current(c)), "purge", erasures)
        /\ hist' = [hist EXCEPT !.overwrote = @ \/ Overwrites(c, erasures),
                      !.again = @ \/ call[c].pc # "purge" \/ Subject(c) \notin present]
    BY <1>1, <1>4 DEF Failed
  <2>2. /\ hist' \in [overwrote : BOOLEAN, again : BOOLEAN]
        /\ hist'.overwrote = (hist.overwrote \/ Overwrites(c, erasures))
        /\ hist'.again = (hist.again \/ call[c].pc # "purge" \/ Subject(c) \notin present)
    <3>1. hist \in [overwrote : BOOLEAN, again : BOOLEAN]
      BY DEF Inv, Types, TypeOK
    <3>2. PICK o \in BOOLEAN : o = (hist.overwrote \/ Overwrites(c, erasures))
      BY <3>1
    <3>3. PICK a \in BOOLEAN :
            a = (hist.again \/ call[c].pc # "purge" \/ Subject(c) \notin present)
      BY <3>1
    <3>4. hist' = [hist EXCEPT !.overwrote = o, !.again = a]
      BY <2>1, <3>2, <3>3
    <3> QED BY <3>1, <3>2, <3>3, <3>4
  <2> QED BY <1>1, <1>4, <2>1, <2>2, DrainAdvancesInv
<1> QED BY <1>2, <1>3, <1>4

LEMMA RecordErasureInv ==
  ASSUME Inv, NEW c \in Calls, RecordErasure(c)
  PROVE  Inv'
<1>1. /\ call[c].pc = "record" /\ Succeeded(c)
      /\ UNCHANGED <<present, enrolments, request, receipts, got, served, signed, kills>>
  BY DEF RecordErasure, people, past
<1>2. call[c].job \in {"request", "drain"}
  BY <1>1 DEF Inv, Types, TypeOK, Shape
<1>3. CASE call[c].job = "request"
  <2>1. Ends(c) /\ UNCHANGED <<erasures, hist>>
    BY <1>1, <1>3, NoCallEnds DEF Succeeded, Inv, Types, TypeOK, CallStates
  <2> QED BY <1>1, <1>3, <2>1, RequestEndsInv
<1>4. CASE call[c].job = "drain"
  <2>1. /\ Advance(c, call[c].kept, "purge", erasures)
        /\ hist' = [hist EXCEPT !.overwrote = @ \/ Overwrites(c, erasures)]
    BY <1>1, <1>4 DEF Succeeded
  <2>2. /\ hist' \in [overwrote : BOOLEAN, again : BOOLEAN]
        /\ hist'.overwrote = (hist.overwrote \/ Overwrites(c, erasures))
        /\ hist'.again = hist.again
    <3>1. hist \in [overwrote : BOOLEAN, again : BOOLEAN]
      BY DEF Inv, Types, TypeOK
    <3>2. PICK o \in BOOLEAN : o = (hist.overwrote \/ Overwrites(c, erasures))
      BY <3>1
    <3>3. hist' = [hist EXCEPT !.overwrote = o]
      BY <2>1, <3>2
    <3> QED BY <3>1, <3>2, <3>3
  <2>3. Current(c) \in served
    BY <1>1 DEF Inv, Lawful
  <2> QED BY <1>1, <1>4, <2>1, <2>2, <2>3, DrainAdvancesInv
<1> QED BY <1>2, <1>3, <1>4

\* The drain of the receipts is through with one.
LEMMA SendInv ==
  ASSUME Inv, NEW c \in Calls, SendReceipt(c) \/ SendFails(c)
  PROVE  Inv'
<1> DEFINE q == Current(c)
           rest == Tail(call[c].todo)
<1>1. /\ call[c].pc = "send" /\ call[c].job = "receipts"
      /\ UNCHANGED <<present, enrolments, request, erasures, served, signed, kills>>
  BY DEF SendReceipt, SendFails, people, past, Inv, Types, TypeOK, Shape
<1>2. /\ got \in [Requests -> 0 .. 2] /\ hist \in [overwrote : BOOLEAN, again : BOOLEAN]
      /\ receipts \in Seq(Requests)
  BY DEF Inv, Types, TypeOK
<1>3. /\ rest \in Seq(Requests) /\ call[c].kept \in Seq(Requests) /\ q \in Requests
      /\ call[c].todo # <<>> /\ ToSet(call[c].todo) = {q} \cup ToSet(rest)
      /\ NoRepeat(call[c].todo) => NoRepeat(rest) /\ q \notin ToSet(rest)
      /\ Len(call[c].todo) = 1 <=> rest = <<>>
      /\ ToSet(call[c].todo) \subseteq Requests /\ ToSet(call[c].kept) \subseteq Requests
  BY <1>1, Holding
<1>4. /\ Received(q) \in [Requests -> 0 .. 2] /\ Received(q)[q] > 0
      /\ got[q] = 0 => Received(q)[q] = 1
      /\ \A r \in Requests \ {q} : Received(q)[r] = got[r]
  BY <1>2, <1>3 DEF Received
<1>5. PICK k :
        /\ \/ k = call[c].kept /\ got' = Received(q)
           \/ k = Append(call[c].kept, q) /\ got' \in {got, Received(q)}
              /\ (~hist'.again => got' = got)
        /\ Advance(c, k, "send", receipts)
        /\ hist' \in [overwrote : BOOLEAN, again : BOOLEAN]
        /\ hist'.overwrote = (hist.overwrote \/ Overwrites(c, receipts))
        /\ hist.again => hist'.again
  <2>1. CASE SendReceipt(c)
    <3>1. PICK o \in BOOLEAN : o = (hist.overwrote \/ Overwrites(c, receipts))
      BY <1>2
    <3>2. hist' = [hist EXCEPT !.overwrote = o]
      BY <2>1, <3>1 DEF SendReceipt
    <3>3. /\ hist' \in [overwrote : BOOLEAN, again : BOOLEAN]
          /\ hist'.overwrote = o /\ hist'.again = hist.again
      BY <1>2, <3>2
    <3>4. got' = Received(q) /\ Advance(c, call[c].kept, "send", receipts)
      BY <2>1 DEF SendReceipt
    <3> QED BY <3>1, <3>3, <3>4
  <2>2. CASE SendFails(c)
    <3>1. PICK o \in BOOLEAN : o = (hist.overwrote \/ Overwrites(c, receipts))
      BY <1>2
    <3>2. PICK a \in BOOLEAN : a = (hist.again \/ got' # got)
      BY <1>2
    <3>3. hist' = [hist EXCEPT !.overwrote = o, !.again = a]
      BY <2>2, <3>1, <3>2 DEF SendFails
    <3>4. /\ hist' \in [overwrote : BOOLEAN, again : BOOLEAN]
          /\ hist'.overwrote = o /\ hist'.again = a
      BY <1>2, <3>3
    <3>5. /\ got' \in {got, Received(q)}
          /\ Advance(c, Append(call[c].kept, q), "send", receipts)
      BY <2>2 DEF SendFails
    <3> QED BY <3>1, <3>2, <3>4, <3>5
  <2> QED BY <2>1, <2>2
<1>6. /\ k \in Seq(Requests) /\ ToSet(k) \subseteq ToSet(call[c].kept) \cup {q}
      /\ ToSet(call[c].kept) \subseteq ToSet(k) /\ (q \in ToSet(k) \/ got'[q] > 0)
      /\ NoRepeat(call[c].kept) /\ q \notin ToSet(call[c].kept) => NoRepeat(k)
  <2>1. CASE k = call[c].kept /\ got' = Received(q)
    BY <1>3, <1>4, <2>1
  <2>2. CASE k = Append(call[c].kept, q)
    BY <1>3, <2>2, Appended
  <2> QED BY <1>5, <2>1, <2>2
<1>7. /\ got' \in [Requests -> 0 .. 2] /\ \A r \in Requests \ {q} : got'[r] = got[r]
      /\ got'[q] \in {got[q], Received(q)[q]}
      /\ \A r \in Requests : got[r] > 0 => got'[r] > 0
  <2>1. /\ got' \in [Requests -> 0 .. 2] /\ \A r \in Requests \ {q} : got'[r] = got[r]
        /\ got'[q] \in {got[q], Received(q)[q]}
    BY <1>2, <1>4, <1>5
  <2> QED BY <1>2, <1>4, <2>1
<1>8. IF rest = <<>> THEN Ends(c) ELSE TakesNext(c, "send", k)
  BY <1>3, <1>5, <1>6, Advanced DEF Advance, Inv, Types, TypeOK, CallStates
<1>9. receipts' = IF rest = <<>> THEN k ELSE receipts
  BY <1>5 DEF Advance
<1>10. /\ call' \in [Calls -> CallStates]
       /\ \A d \in Calls \ {c} : call'[d] = call[d]
  BY <1>8 DEF Ends, TakesNext
<1>11. rest = <<>> => call'[c].job = "none" /\ call'[c].pc = "none"
  BY <1>8 DEF Ends
<1>12. rest # <<>> => /\ call'[c].pc = "send" /\ call'[c].job = "receipts"
                      /\ call'[c].todo = rest /\ call'[c].kept = k
                      /\ call'[c].snap = call[c].snap
  BY <1>1, <1>8 DEF TakesNext
<1>13. \A d \in Calls \ {c} : /\ Current(d)' = Current(d) /\ Waiting(d)' = Waiting(d)
                              /\ Executing(d)' <=> Executing(d)
  BY <1>10, OtherCalls
<1>14. /\ ~Executing(c)' /\ call'[c].job \in {"none", "receipts"}
       /\ call'[c].pc \in {"none", "send"} /\ ~Executing(c)
  BY <1>1, <1>11, <1>12 DEF Executing
<1> HIDE DEF q, rest
<1>15. Types'
  <2>1. Shape(call'[c])
    BY <1>11, <1>12 DEF Shape
  <2>2. \A d \in Calls \ {c} : Shape(call'[d])
    BY <1>10 DEF Inv, Types
  <2>3. receipts' \in Seq(Requests)
    BY <1>2, <1>6, <1>9
  <2>4. TypeOK'
    BY <1>1, <1>5, <1>7, <1>10, <2>3 DEF Inv, Types, TypeOK, CallStates
  <2> QED BY <2>1, <2>2, <2>4 DEF Types
<1>16. ToSet(call[c].todo) \cup ToSet(call[c].kept) \cup ToSet(k) \subseteq signed
  BY <1>1, <1>3, <1>6 DEF Inv, Lawful
<1>17. Lawful'
  <2>1. \A r : Made(r)' <=> Made(r)
    BY <1>1 DEF Made
  <2>2. ToSet(receipts') \subseteq signed
    BY <1>9, <1>16 DEF Inv, Lawful
  <2>3. \A d \in Calls : call'[d].job = "receipts" =>
          ToSet(call'[d].todo) \cup ToSet(call'[d].kept) \subseteq signed
    BY <1>3, <1>10, <1>11, <1>12, <1>16 DEF Inv, Lawful
  <2>4. \A r \in Requests : got'[r] > 0 => r \in signed
    BY <1>3, <1>7, <1>16 DEF Inv, Lawful
  <2> QED BY <1>1, <1>10, <1>13, <1>14, <2>1, <2>2, <2>3, <2>4 DEF Inv, Lawful
<1>18. \A r \in call[c].snap : r \in ToSet(rest) \cup ToSet(k) \/ got'[r] > 0
  <2>1. call[c].snap \subseteq Requests
    BY DEF Inv, Types, TypeOK
  <2> QED BY <1>1, <1>3, <1>6, <1>7, <2>1 DEF Inv, Sends
<1>19. Drains' /\ Sends'
  <2>1. Drains'
    BY <1>1, <1>10, <1>14 DEF Inv, Drains
  <2>2. \A d \in Calls \ {c} : call'[d].job = "receipts" =>
          \A r \in call'[d].snap : r \in ToSet(call'[d].todo) \cup ToSet(call'[d].kept)
                                   \/ got'[r] > 0
    <3>1. \A d \in Calls : call[d].snap \subseteq Requests
      BY DEF Inv, Types, TypeOK
    <3> QED BY <1>7, <1>10, <3>1 DEF Inv, Sends
  <2> QED BY <1>11, <1>12, <1>18, <2>1, <2>2 DEF Sends
<1>20. NothingForgotten'
  <2>1. \A r \in Requests : Uploading(r) => Uploading(r)'
    BY <1>1, <1>10, <1>13 DEF Uploading
  <2>2. ~hist'.overwrote =>
          \A r \in ToSet(receipts) : r \in ToSet(receipts') \/ got'[r] > 0
    <3>1. CASE rest = <<>>
      BY <1>3, <1>5, <1>9, <1>18, <3>1, NoElement DEF Overwrites
    <3>2. CASE rest # <<>>
      BY <1>9, <3>2
    <3> QED BY <3>1, <3>2
  <2> QED BY <1>1, <1>5, <1>7, <2>1, <2>2 DEF Inv, NothingForgotten
<1>21. Once'
  <2> SUFFICES ASSUME ~hist'.again, ~(kills > 0) PROVE Once'
    BY <1>1 DEF Once
  <2>1. Alone /\ PurgedOnce /\ UploadedOnce
    BY <1>5 DEF Inv, Once
  <2>2. /\ NoRepeat(call[c].todo) /\ NoRepeat(call[c].kept)
        /\ ToSet(call[c].todo) \cap ToSet(call[c].kept) = {}
        /\ \A r \in ToSet(call[c].todo) \cup ToSet(call[c].kept) : got[r] = 0
    BY <1>1, <2>1 DEF UploadedOnce
  <2>3. /\ NoRepeat(k) /\ ToSet(rest) \cap ToSet(k) = {}
        /\ \A r \in ToSet(rest) \cup ToSet(k) : got'[r] = 0
    <3>1. NoRepeat(k) /\ ToSet(rest) \cap ToSet(k) = {}
      BY <1>3, <1>6, <2>2
    <3>2. ToSet(rest) \cup ToSet(call[c].kept) \subseteq Requests \ {q}
      BY <1>3, <2>2
    <3>3. q \in ToSet(k) => got'[q] = 0
      <4>1. CASE k = call[c].kept
        BY <3>2, <4>1
      <4>2. CASE k # call[c].kept
        BY <1>3, <1>5, <2>2, <4>2
      <4> QED BY <4>1, <4>2
    <3> QED BY <1>3, <1>6, <1>7, <2>2, <3>1, <3>2, <3>3
  <2>4. \A d \in Calls \ {c} : call'[d].job # "receipts"
    BY <1>1, <1>10, <2>1 DEF Alone
  <2>5. Alone'
    <3>1. \A d, e \in Calls \ {c} : call'[d] = call[d] /\ call'[e] = call[e]
      BY <1>10
    <3> QED BY <1>13, <1>14, <2>1, <2>4, <3>1 DEF Alone
  <2>6. PurgedOnce'
    <3>1. Busy("drain")' <=> Busy("drain")
      BY <1>1, <1>10, <1>14 DEF Busy
    <3>2. \A d \in Calls : Executing(d)' \/ call'[d].job = "drain" =>
            d # c /\ call'[d] = call[d] /\ Waiting(d)' = Waiting(d) /\ Executing(d)
      BY <1>10, <1>13, <1>14 DEF Executing
    <3> QED BY <1>1, <2>1, <3>1, <3>2 DEF PurgedOnce
  <2>7. UploadedOnce'
    <3>1. \A r \in Requests : got'[r] <= 1
      <4>1. got[q] = 0
        BY <1>3, <2>2
      <4> QED BY <1>4, <1>7, <2>1, <4>1 DEF UploadedOnce
    <3>2. \A d \in Calls : call'[d].pc \in {"sign", "upload"} =>
            d # c /\ call'[d] = call[d] /\ Current(d)' = Current(d) /\ Current(d) \in Requests
      <4>1. \A d \in Calls : call[d].pc \in {"sign", "upload"} => call[d].job # "none"
        BY DEF Inv, Types, Shape
      <4>2. \A d \in Calls : call'[d].pc \in {"sign", "upload"} =>
              d # c /\ call'[d] = call[d] /\ Current(d)' = Current(d)
        BY <1>10, <1>13, <1>14
      <4> QED BY <4>1, <4>2, Holding
    <3>3. \A d \in Calls : call'[d].pc \in {"sign", "upload"} =>
            /\ got[Current(d)] = 0 /\ Current(d) \notin ToSet(receipts) /\ Current(d) # q
            /\ Current(d) \notin ToSet(call[c].todo) \cup ToSet(call[c].kept)
      BY <1>1, <1>3, <2>1, <3>2 DEF UploadedOnce
    <3>4. \A d \in Calls : call'[d].pc \in {"sign", "upload"} =>
            /\ got'[Current(d)'] = 0 /\ Current(d)' \notin ToSet(receipts')
            /\ \A e \in Calls : call'[e].job = "receipts" =>
                 Current(d)' \notin ToSet(call'[e].todo) \cup ToSet(call'[e].kept)
      <4>1. \A d \in Calls : call'[d].pc \in {"sign", "upload"} =>
              Current(d) \notin ToSet(rest) \cup ToSet(k)
        BY <1>3, <1>6, <3>3
      <4>2. \A d \in Calls : call'[d].pc \in {"sign", "upload"} =>
              got'[Current(d)] = 0 /\ Current(d) \notin ToSet(receipts')
        BY <1>7, <1>9, <3>2, <3>3, <4>1
      <4>3. \A e \in Calls : call'[e].job = "receipts" =>
              call'[e].todo = rest /\ call'[e].kept = k
        BY <1>11, <1>12, <2>4
      <4> QED BY <3>2, <4>1, <4>2, <4>3
    <3>5. \A d \in Calls : call'[d].job = "receipts" =>
            /\ NoRepeat(call'[d].todo) /\ NoRepeat(call'[d].kept)
            /\ ToSet(call'[d].todo) \cap ToSet(call'[d].kept) = {}
            /\ \A r \in ToSet(call'[d].todo) \cup ToSet(call'[d].kept) : got'[r] = 0
      <4>1. NoRepeat(rest)
        BY <1>3, <2>2
      <4> QED BY <1>11, <1>12, <2>3, <2>4, <4>1
    <3>6. ~Busy("receipts")' => NoRepeat(receipts') /\ \A r \in ToSet(receipts') : got'[r] = 0
      BY <1>9, <1>12, <2>3 DEF Busy
    <3> QED BY <3>1, <3>4, <3>5, <3>6 DEF UploadedOnce
  <2> QED BY <2>5, <2>6, <2>7 DEF Once
<1> QED BY <1>15, <1>17, <1>19, <1>20, <1>21 DEF Inv

LEMMA KillInv ==
  ASSUME Inv, Kill
  PROVE  Inv'
<1>1. /\ kills' = kills + 1 /\ call' = [c \in Calls |-> NoCall] /\ kills \in Nat
      /\ UNCHANGED <<present, enrolments, request, erasures, receipts, got, served, signed, hist>>
  BY DEF Kill, people, arrays, past, Inv, Types, TypeOK
<1>2. \A c \in Calls : call'[c].job = "none" /\ call'[c].pc = "none"
  BY <1>1 DEF NoCall
<1>3. Types'
  <2>1. call' \in [Calls -> CallStates]
    BY <1>1, NoElement DEF NoCall, CallStates
  <2>2. TypeOK'
    BY <1>1, <2>1 DEF Inv, Types, TypeOK, CallStates
  <2>3. \A c \in Calls : Shape(call'[c])
    BY <1>2 DEF Shape
  <2> QED BY <2>2, <2>3 DEF Types
<1>4. Lawful' /\ Drains' /\ Sends'
  BY <1>1, <1>2 DEF Inv, Lawful, Drains, Sends, Made
<1>5. NothingForgotten' /\ Once'
  BY <1>1 DEF Inv, NothingForgotten, Once
<1> QED BY <1>3, <1>4, <1>5 DEF Inv

-----------------------------------------------------------------------------
LEMMA NextInv == Inv /\ [Next]_vars => Inv'
<1> SUFFICES ASSUME Inv, [Next]_vars PROVE Inv'
  OBVIOUS
<1>1. ASSUME NEW p \in People, EnrollAgain(p) PROVE Inv'
  <2>1. UNCHANGED <<request, arrays, call, got, past, kills, hist>>
    BY <1>1 DEF EnrollAgain
  <2>2. TypeOK'
    BY <1>1 DEF EnrollAgain, arrays, past, Inv, Types, TypeOK
  <2> QED BY <2>1, <2>2, SameInv
<1>2. ASSUME NEW q \in Requests, NEW p \in People, RequestOffline(q, p) PROVE Inv'
  BY <1>2, RequestOfflineInv
<1>3. ASSUME NEW c \in Calls, NEW q \in Requests, NEW p \in People, RequestConnected(c, q, p)
      PROVE  Inv'
  BY <1>3, RequestConnectedInv
<1>4. ASSUME NEW c \in Calls, DrainOfflineQueue(c) \/ DrainPendingReceipts(c) PROVE Inv'
  BY <1>4, DrainOfflineQueueInv, DrainPendingReceiptsInv
<1>5. ASSUME NEW c \in Calls, CallStep(c) PROVE Inv'
  BY <1>5, PurgeInv, ExecuteFailsInv, SignReceiptInv, UploadInv, RecordErasureInv, SendInv
     DEF CallStep
<1>6. ASSUME Kill PROVE Inv'
  BY <1>6, KillInv
<1>7. ASSUME UNCHANGED vars PROVE Inv'
  <2>1. UNCHANGED <<present, enrolments, request, arrays, call, got, past, kills, hist>>
    BY <1>7 DEF vars, people
  <2>2. TypeOK'
    BY <2>1 DEF arrays, past, Inv, Types, TypeOK
  <2> QED BY <2>1, <2>2, SameInv
<1> QED BY <1>1, <1>2, <1>3, <1>4, <1>5, <1>6, <1>7 DEF Next

LEMMA Invariant == Spec => []Inv
<1>1. Init => Inv
  BY InitInv
<1>2. Inv /\ [Next]_vars => Inv'
  BY NextInv
<1> QED BY <1>1, <1>2, PTL DEF Spec

\* Every variable has its type: the arrays hold requests, and the counts of what
\* the server got stay what they are meant to be.
THEOREM TypeCorrect == Spec => []TypeOK
<1>1. Inv => TypeOK
  BY DEF Inv, Types
<1> QED BY <1>1, Invariant, PTL

\* An erasure that was answered QUEUED is in its array until its purge has
\* committed, and a signed receipt until the server has it, unless the last
\* write of a drain dropped what was queued while it ran.
THEOREM NothingIsForgotten == Spec => []NothingForgotten
<1>1. Inv => NothingForgotten
  BY DEF Inv
<1> QED BY <1>1, Invariant, PTL

\* No request is purged again and no receipt reaches the server twice, as long
\* as the process was not killed, no answer was lost, nothing was kept after its
\* purge and no two drains worked on one array.
THEOREM OnceIfNotRetried == Spec => []OnceUnlessRetried
<1>1. ASSUME Inv PROVE OnceUnlessRetried
  <2>1. ASSUME Alone, PurgedOnce, UploadedOnce, NEW c \in Calls, call[c].pc = "purge"
        PROVE  Current(c) \notin served
    <3>1. call[c].job # "none" /\ call[c].job # "receipts"
      BY <1>1, <2>1 DEF Inv, Types, Shape
    <3>2. Executing(c)
      BY <1>1, <3>1 DEF Inv, Types, TypeOK, Executing
    <3>3. Current(c) \in ToSet(call[c].todo)
      BY <1>1, <3>1, Holding
    <3> QED BY <2>1, <3>2, <3>3 DEF PurgedOnce, Waiting
  <2> QED BY <1>1, <2>1 DEF Inv, Once, UploadedOnce, OnceUnlessRetried
<1>2. Inv => OnceUnlessRetried
  BY <1>1
<1> QED BY <1>2, Invariant, PTL
=============================================================================
