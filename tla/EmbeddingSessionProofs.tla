------------------------ MODULE EmbeddingSessionProofs ------------------------
(***************************************************************************)
(* What EmbeddingSession promises, for any number of buttons pressed: its  *)
(* types, NothingFromBefore and EmbeddedAfterPass.                         *)
(*                                                                         *)
(* NothingFromBefore needs that a frame carries its session along: once a  *)
(* call has ended that session, what the frame writes, copies or publishes *)
(* is its own, of an overlapped session, and nothing of the new one        *)
(* (Foreign).  EmbeddedAfterPass needs to know where a pass comes from     *)
(* that the gate sees: from the frame itself, or on iOS from a call that   *)
(* has not been followed by another (Passed).  That sessions are as many   *)
(* as Sessions has is a matter of counting calls begun and waiting         *)
(* (Counted).                                                              *)
(***************************************************************************)
EXTENDS EmbeddingSession, SequenceTheorems, TLAPS

Frames ==
  [pc : {"idle", "store", "gate", "once", "write", "publish"}, face : BOOLEAN,
   seen : Gate!States, session : Sessions, run : BOOLEAN, copy : SUBSET Sessions]

Calls == [pc : {"idle", "store"}, op : Ops]

Begun(t) == IF call[t].pc = "store" THEN 1 ELSE 0

Counted ==
  /\ \A t \in Threads : call[t].pc = "store" => todo[t] # <<>>
  /\ session + 2 * Len(todo["native"]) + Len(todo["js"]) - Begun("native") - Begun("js")
       <= 2 * presses

Old == overlapped \cup averaged

Foreign ==
  /\ InWork /\ frame.session # session => frame.session \in overlapped
  /\ embedding \cup result \subseteq {session} \cup Old
  /\ InWork /\ frame.session # session => embedding \cup result \subseteq Old
  /\ frame.pc = "publish" => frame.copy \subseteq {frame.session} \cup Old

Passed ==
  /\ Range(window) \subseteq passed \cup overlapped
  /\ InWork /\ frame.seen = "pass" => frame.session \in passed
  /\ platform = "ios" /\ frame.pc = "gate" /\ livenessState = "pass" =>
       frame.session \in passed \cup overlapped
  /\ \A t \in Threads : platform = "ios" /\ call[t].pc = "store" /\ call[t].op = "pass" =>
       session \in passed
  /\ frame.run => frame.session \in passed \cup overlapped

Inv == TypeOK /\ Counted /\ Foreign /\ Passed

-----------------------------------------------------------------------------
LEMMA ThreadsAre == "native" \in Threads /\ "js" \in Threads
                    /\ \A t \in Threads : t = "native" \/ t = "js"
  BY DEF Threads

LEMMA SessionsAre == 0 \in Sessions /\ Sessions \subseteq Nat /\ 2 * MaxPresses \in Nat
  BY SessionAssumption DEF Sessions

LEMMA Lengths ==
  ASSUME TypeOK, NEW t \in Threads
  PROVE  /\ todo[t] \in Seq(Ops) /\ Len(todo[t]) \in Nat
         /\ todo[t] # <<>> => /\ Tail(todo[t]) \in Seq(Ops)
                              /\ Len(Tail(todo[t])) = Len(todo[t]) - 1 /\ Len(todo[t]) >= 1
         /\ \A op \in Ops : /\ Append(todo[t], op) \in Seq(Ops)
                            /\ Len(Append(todo[t], op)) = Len(todo[t]) + 1
<1>1. todo[t] \in Seq(Ops)
  BY DEF TypeOK
<1> QED BY <1>1, AppendProperties, HeadTailProperties, EmptySeq

LEMMA InitInv == Init => Inv
<1> SUFFICES ASSUME Init PROVE Inv
  OBVIOUS
<1>1. TypeOK
  <2>1. frame \in Frames /\ call \in [Threads -> Calls] /\ todo \in [Threads -> Seq(Ops)]
    BY SessionsAre DEF Init, NoFrame, Resting, Frames, Calls, Ops, Gate!States
  <2>2. window \in Seq(Sessions) /\ Len(window) <= 5
    BY DEF Init
  <2>3. /\ presses \in 0 .. MaxPresses /\ session \in Sessions
        /\ {passed, overlapped, averaged} \subseteq SUBSET Sessions
        /\ embedding \subseteq Sessions /\ result \subseteq Sessions
    BY SessionsAre, SessionAssumption DEF Init
  <2>4. /\ platform \in {"android", "ios"} /\ fsm \in Gate!States
        /\ livenessState \in Gate!States /\ written \in BOOLEAN
        /\ fsmMutex \in Threads \cup {Nobody}
    BY DEF Init, Gate!States
  <2> QED BY <2>1, <2>2, <2>3, <2>4 DEF TypeOK, Frames, Calls
<1>2. Counted
  <2>1. Begun("native") = 0 /\ Begun("js") = 0
    BY ThreadsAre DEF Init, Resting, Begun
  <2> QED BY <2>1, ThreadsAre DEF Init, Resting, Counted
<1>3. Foreign /\ Passed
  BY DEF Init, Foreign, Passed, NoFrame, Resting, InWork, Range
<1> QED BY <1>1, <1>2, <1>3 DEF Inv

\* What neither call nor frame sees.
LEMMA PressInv ==
  ASSUME Inv, NEW op \in Ops, Press(op)
  PROVE  Inv'
<1>1. /\ presses < MaxPresses /\ presses' = presses + 1
      /\ todo' = [todo EXCEPT !["native"] = Append(@, op)]
      /\ UNCHANGED <<platform, fsm, livenessState, written, embedding, result, window, frame,
                     call, fsmMutex, session, passed, overlapped, averaged>>
  BY DEF Press, history
<1>2. /\ todo["native"] \in Seq(Ops) /\ Append(todo["native"], op) \in Seq(Ops)
      /\ Len(Append(todo["native"], op)) = Len(todo["native"]) + 1
      /\ Len(todo["native"]) \in Nat /\ Len(todo["js"]) \in Nat
  BY ThreadsAre, Lengths DEF Inv
<1>3. /\ todo' \in [Threads -> Seq(Ops)] /\ todo'["native"] = Append(todo["native"], op)
      /\ todo'["js"] = todo["js"]
  BY <1>1, <1>2, ThreadsAre DEF Inv, TypeOK
<1>4. TypeOK'
  <2>1. presses' \in 0 .. MaxPresses
    BY <1>1, SessionAssumption DEF Inv, TypeOK
  <2> QED BY <1>1, <1>3, <2>1 DEF Inv, TypeOK
<1>5. Counted'
  <2>1. \A t \in Threads : call'[t].pc = "store" => todo'[t] # <<>>
    BY <1>1, <1>2, <1>3, ThreadsAre, EmptySeq DEF Inv, Counted
  <2>2. \A t \in Threads : Begun(t)' = Begun(t) /\ Begun(t) \in 0 .. 1
    BY <1>1 DEF Begun
  <2>3. session \in Nat /\ presses \in Nat
    BY SessionsAre, SessionAssumption DEF Inv, TypeOK
  <2>4. session + 2 * Len(todo["native"]) + Len(todo["js"]) - Begun("native") - Begun("js")
          <= 2 * presses
    BY DEF Inv, Counted
  <2>5. /\ Len(todo'["native"]) = Len(todo["native"]) + 1 /\ Len(todo'["js"]) = Len(todo["js"])
        /\ Begun("native")' = Begun("native") /\ Begun("native") \in 0 .. 1
        /\ Begun("js")' = Begun("js") /\ Begun("js") \in 0 .. 1
    BY <1>2, <1>3, <2>2, ThreadsAre
  <2>6. session' + 2 * Len(todo'["native"]) + Len(todo'["js"]) - Begun("native")' - Begun("js")'
          <= 2 * presses'
    BY <1>1, <1>2, <2>3, <2>4, <2>5, SMTT(30)
  <2> QED BY <2>1, <2>6 DEF Counted
<1>6. Foreign' /\ Passed'
  BY <1>1 DEF Inv, Foreign, Passed, Old, InWork
<1> QED BY <1>4, <1>5, <1>6 DEF Inv

\* Thread t is now in the middle of op.
Began(t, op) ==
  /\ call' \in [Threads -> Calls] /\ call'[t].pc = "store" /\ call'[t].op = op
  /\ \A u \in Threads \ {t} : call'[u] = call[u]

LEMMA CallBegan ==
  ASSUME Inv, NEW t \in Threads, NEW op \in Ops,
         call' = [call EXCEPT ![t] = [pc |-> "store", op |-> op]]
  PROVE  Began(t, op)
  BY DEF Inv, TypeOK, Began, Calls

LEMMA BegunCounts ==
  ASSUME Inv, NEW t \in Threads, NEW op \in Ops, Begins(t, op), Began(t, op),
         UNCHANGED <<todo, presses>>, NEW n \in {session, session + 1}, session' = n
  PROVE  Counted' /\ session' \in Sessions
<1>1. todo[t] # <<>> /\ call[t].pc = "idle"
  BY DEF Begins
<1>2. \A u \in Threads : /\ Len(todo[u]) \in Nat /\ (todo[u] # <<>> => Len(todo[u]) >= 1)
                         /\ call[u].pc = "store" => todo[u] # <<>>
  BY Lengths DEF Inv, Counted
<1>3. /\ Begun(t) = 0 /\ Begun(t)' = 1
      /\ \A u \in Threads \ {t} : Begun(u)' = Begun(u) /\ Begun(u) \in 0 .. 1
      /\ \A u \in Threads \ {t} : Begun(u) <= Len(todo[u])
  BY <1>1, <1>2 DEF Begun, Began
<1>4. /\ session \in Nat /\ presses \in Nat /\ presses <= MaxPresses /\ MaxPresses \in Nat
      /\ session + 2 * Len(todo["native"]) + Len(todo["js"]) - Begun("native") - Begun("js")
           <= 2 * presses
  BY SessionsAre, SessionAssumption DEF Inv, TypeOK, Counted
<1>5. \A u \in Threads : call'[u].pc = "store" => todo'[u] # <<>>
  BY <1>1, <1>2 DEF Began
<1>6. CASE t = "native"
  <2>1. /\ Begun("native") = 0 /\ Begun("native")' = 1 /\ Begun("js")' = Begun("js")
        /\ Begun("js") \in 0 .. 1 /\ Begun("js") <= Len(todo["js"])
        /\ Len(todo["native"]) \in Nat /\ Len(todo["native"]) >= 1 /\ Len(todo["js"]) \in Nat
    BY <1>1, <1>2, <1>3, <1>6, ThreadsAre
  <2>2. session' \in Sessions
    BY <1>4, <2>1 DEF Sessions
  <2>3. session' + 2 * Len(todo["native"]) + Len(todo["js"]) - Begun("native")' - Begun("js")'
          <= 2 * presses
    BY <1>4, <2>1, SMTT(30)
  <2> QED BY <1>5, <2>2, <2>3 DEF Counted
<1>7. CASE t = "js"
  <2>1. /\ Begun("js") = 0 /\ Begun("js")' = 1 /\ Begun("native")' = Begun("native")
        /\ Begun("native") \in 0 .. 1 /\ Begun("native") <= Len(todo["native"])
        /\ Len(todo["js"]) \in Nat /\ Len(todo["js"]) >= 1 /\ Len(todo["native"]) \in Nat
    BY <1>1, <1>2, <1>3, <1>7, ThreadsAre
  <2>2. session + 1 <= 2 * presses
    BY <1>4, <2>1
  <2>3. session' \in Sessions
    BY <1>4, <2>2 DEF Sessions
  <2>4. session' + 2 * Len(todo["native"]) + Len(todo["js"]) - Begun("native")' - Begun("js")'
          <= 2 * presses
    BY <1>4, <2>1
  <2> QED BY <1>5, <2>3, <2>4 DEF Counted
<1> QED BY <1>6, <1>7, ThreadsAre

LEMMA ForcePassInv ==
  ASSUME Inv, NEW t \in Threads, ForcePass(t)
  PROVE  Inv'
<1>1. /\ Begins(t, "pass") /\ fsm' = "pass" /\ passed' = passed \cup {session}
      /\ call' = [call EXCEPT ![t] = [pc |-> "store", op |-> "pass"]]
      /\ UNCHANGED <<platform, livenessState, written, embedding, result, window, frame, todo,
                     fsmMutex, presses, session, overlapped, averaged>>
  BY DEF ForcePass
<1>2. Began(t, "pass")
  BY <1>1, CallBegan DEF Ops
<1>3. Counted'
  BY <1>1, <1>2, BegunCounts DEF Ops
<1>4. TypeOK'
  BY <1>1, <1>2 DEF Began, Inv, TypeOK, Gate!States, Calls
<1>5. Foreign'
  BY <1>1 DEF Inv, Foreign, Old, InWork
<1>6. Passed'
  BY <1>1, <1>2 DEF Inv, Passed, InWork, Began
<1> QED BY <1>3, <1>4, <1>5, <1>6 DEF Inv

LEMMA SetLivenessChallengeInv ==
  ASSUME Inv, NEW t \in Threads, NEW op \in {"none", "challenge"}, SetLivenessChallenge(t, op)
  PROVE  Inv'
<1>1. /\ Begins(t, op) /\ fsm' = IF op = "none" THEN "idle" ELSE "active"
      /\ embedding' = {} /\ result' = {} /\ written' = FALSE
      /\ call' = [call EXCEPT ![t] = [pc |-> "store", op |-> op]]
      /\ fsmMutex' = t /\ session' = session + 1
      /\ overlapped' = IF InWork THEN overlapped \cup {frame.session} ELSE overlapped
      /\ UNCHANGED <<platform, livenessState, window, frame, todo, presses, passed, averaged>>
  BY DEF SetLivenessChallenge, NewSession
<1>2. Began(t, op)
  BY <1>1, CallBegan DEF Ops
<1>3. Counted' /\ session' \in Sessions
  BY <1>1, <1>2, BegunCounts DEF Ops
<1>4. TypeOK'
  <2>1. fsm' \in Gate!States
    BY <1>1 DEF Gate!States
  <2>2. overlapped' \in SUBSET Sessions
    BY <1>1 DEF Inv, TypeOK
  <2> QED BY <1>1, <1>2, <1>3, <2>1, <2>2 DEF Began, Inv, TypeOK, Calls
<1>5. Foreign'
  BY <1>1 DEF Inv, Foreign, Old, InWork
<1>6. Passed'
  <2>1. \A u \in Threads : platform = "ios" => call'[u].pc = "idle" \/ call'[u].op # "pass"
    BY <1>1, <1>2 DEF Begins, Began
  <2> QED BY <1>1, <2>1 DEF Inv, Passed, InWork
<1> QED BY <1>3, <1>4, <1>5, <1>6 DEF Inv

LEMMA StoreCalledInv ==
  ASSUME Inv, NEW t \in Threads, StoreCalled(t)
  PROVE  Inv'
<1> DEFINE echoes == t = "native" /\ call[t].op # "pass"
<1>1. /\ call[t].pc = "store"
      /\ livenessState' = CASE call[t].op = "pass" -> "pass"
                            [] call[t].op = "none" -> "idle"
                            [] call[t].op = "challenge" -> "active"
      /\ fsmMutex' = IF fsmMutex = t THEN Nobody ELSE fsmMutex
      /\ call' = [call EXCEPT ![t] = Resting]
      /\ todo' = [u \in Threads |->
           IF u = t THEN Tail(todo[u])
           ELSE IF t = "native" /\ call[t].op # "pass" THEN Append(todo[u], call[t].op)
           ELSE todo[u]]
      /\ UNCHANGED <<platform, fsm, written, embedding, result, window, frame, presses, session,
                     passed, overlapped, averaged>>
  BY DEF StoreCalled, history
<1>2. /\ call[t].op \in Ops /\ todo[t] # <<>>
      /\ call \in [Threads -> Calls]
  BY <1>1 DEF Inv, TypeOK, Counted, Calls
<1>3. /\ call' \in [Threads -> Calls] /\ call'[t].pc = "idle"
      /\ \A u \in Threads \ {t} : call'[u] = call[u]
  BY <1>1, <1>2 DEF Resting, Calls, Ops
<1>4. \A u \in Threads : todo'[u] \in Seq(Ops) /\ Len(todo[u]) \in Nat
  BY <1>1, <1>2, Lengths DEF Inv
<1>5. /\ Len(todo'[t]) = Len(todo[t]) - 1 /\ Len(todo[t]) >= 1
      /\ \A u \in Threads \ {t} : /\ t = "native" => Len(todo'[u]) <= Len(todo[u]) + 1
                                  /\ t # "native" => Len(todo'[u]) = Len(todo[u])
                                  /\ Len(todo'[u]) \in Nat /\ Len(todo'[u]) >= Len(todo[u])
  BY <1>1, <1>2, Lengths DEF Inv
<1>6. livenessState' \in Gate!States /\ (livenessState' = "pass" => call[t].op = "pass")
  BY <1>1, <1>2 DEF Ops, Gate!States
<1>7. TypeOK'
  <2>1. todo' \in [Threads -> Seq(Ops)]
    BY <1>1, <1>4
  <2>2. fsmMutex' \in Threads \cup {Nobody}
    BY <1>1 DEF Inv, TypeOK
  <2> QED BY <1>1, <1>3, <1>6, <2>1, <2>2 DEF Inv, TypeOK, Calls
<1>8. Counted'
  <2>1. \A u \in Threads : call'[u].pc = "store" => todo'[u] # <<>>
    <3>1. ASSUME NEW u \in Threads, call'[u].pc = "store" PROVE todo'[u] # <<>>
      <4>1. u # t /\ call[u].pc = "store" /\ todo[u] # <<>>
        BY <1>3, <3>1 DEF Inv, Counted
      <4>2. Len(todo[u]) >= 1 /\ Len(todo'[u]) >= Len(todo[u])
        BY <1>5, <4>1, Lengths DEF Inv
      <4> QED BY <1>4, <4>2, EmptySeq
    <3> QED BY <3>1
  <2>2. /\ Begun(t) = 1 /\ Begun(t)' = 0
        /\ \A u \in Threads \ {t} : Begun(u)' = Begun(u) /\ Begun(u) \in 0 .. 1
    BY <1>1, <1>3 DEF Begun
  <2>3. /\ session \in Nat /\ presses \in Nat
        /\ session + 2 * Len(todo["native"]) + Len(todo["js"]) - Begun("native") - Begun("js")
             <= 2 * presses
    BY SessionsAre, SessionAssumption DEF Inv, TypeOK, Counted
  <2>0. session' = session /\ presses' = presses
    BY <1>1
  <2>4. CASE t = "native"
    <3>1. /\ Begun("native") = 1 /\ Begun("native")' = 0 /\ Begun("js")' = Begun("js")
          /\ Begun("js") \in 0 .. 1
          /\ Len(todo'["native"]) = Len(todo["native"]) - 1 /\ Len(todo'["js"]) \in Nat
          /\ Len(todo'["js"]) <= Len(todo["js"]) + 1
          /\ Len(todo["native"]) \in Nat /\ Len(todo["js"]) \in Nat
      BY <1>4, <1>5, <2>2, <2>4, ThreadsAre
    <3>2. session' + 2 * Len(todo'["native"]) + Len(todo'["js"]) - Begun("native")' - Begun("js")'
            <= 2 * presses'
      <4>1. session' + 2 * Len(todo'["native"]) + Len(todo'["js"]) - 0 - Begun("js")
              <= session + 2 * Len(todo["native"]) + Len(todo["js"]) - 1 - Begun("js")
        BY <2>0, <2>3, <3>1, SMTT(30)
      <4> QED BY <2>0, <2>3, <3>1, <4>1, SMTT(30)
    <3> QED BY <2>1, <3>2 DEF Counted
  <2>5. CASE t = "js"
    <3>1. /\ Begun("js") = 1 /\ Begun("js")' = 0 /\ Begun("native")' = Begun("native")
          /\ Begun("native") \in 0 .. 1
          /\ Len(todo'["js"]) = Len(todo["js"]) - 1
          /\ Len(todo'["native"]) = Len(todo["native"])
          /\ Len(todo["native"]) \in Nat /\ Len(todo["js"]) \in Nat
      BY <1>4, <1>5, <2>2, <2>5, ThreadsAre
    <3>2. session' + 2 * Len(todo'["native"]) + Len(todo'["js"]) - Begun("native")' - Begun("js")'
            <= 2 * presses'
      BY <2>0, <2>3, <3>1
    <3> QED BY <2>1, <3>2 DEF Counted
  <2> QED BY <2>4, <2>5, ThreadsAre
<1>9. Foreign'
  BY <1>1 DEF Inv, Foreign, Old, InWork
<1>10. Passed'
  <2>1. platform = "ios" /\ frame.pc = "gate" /\ livenessState' = "pass" =>
          frame.session \in passed \cup overlapped
    <3>1. platform = "ios" /\ livenessState' = "pass" => session \in passed
      BY <1>1, <1>6 DEF Inv, Passed
    <3> QED BY <3>1 DEF Inv, Foreign, InWork
  <2>2. \A u \in Threads : call'[u].pc = "store" => call'[u] = call[u]
    BY <1>3
  <2> QED BY <1>1, <2>1, <2>2 DEF Inv, Passed, InWork
<1> QED BY <1>7, <1>8, <1>9, <1>10 DEF Inv

-----------------------------------------------------------------------------
(* The frame.                                                              *)

\* What a step of the frame leaves alone counts no calls.
LEMMA CallsStay ==
  ASSUME Inv, UNCHANGED <<todo, call, presses, session>>
  PROVE  Counted' /\ \A t \in Threads : call'[t] = call[t]
  BY DEF Inv, Counted, Begun

LEMMA UpdateInv ==
  ASSUME Inv, NEW face \in BOOLEAN, Update(face)
  PROVE  Inv'
<1>1. /\ ~InWork /\ fsm' \in Gate!AfterFrame(fsm, face)
      /\ passed' = IF fsm' = "pass" THEN passed \cup {session} ELSE passed
      /\ UNCHANGED <<platform, livenessState, written, embedding, result, window, todo, call,
                     fsmMutex, presses, session, overlapped, averaged>>
  BY DEF Update, calls
<1>2. fsm' \in Gate!States /\ session \in Sessions
  BY <1>1 DEF Inv, TypeOK, Gate!AfterFrame, Gate!States
<1>3. /\ frame' \in Frames /\ frame'.pc = "store" /\ frame'.seen = fsm'
      /\ frame'.session = session /\ frame'.run = FALSE
  <2>1. PICK a : a = [NoFrame EXCEPT !.pc = "store"]
    OBVIOUS
  <2>2. a = [pc |-> "store", face |-> FALSE, seen |-> "idle", session |-> 0, run |-> FALSE,
             copy |-> {}]
    BY <2>1 DEF NoFrame
  <2>3. PICK b : b = [a EXCEPT !.face = face]
    OBVIOUS
  <2>4. b = [pc |-> "store", face |-> face, seen |-> "idle", session |-> 0, run |-> FALSE,
             copy |-> {}]
    BY <2>2, <2>3
  <2>5. PICK d : d = [b EXCEPT !.seen = fsm']
    OBVIOUS
  <2>6. d = [pc |-> "store", face |-> face, seen |-> fsm', session |-> 0, run |-> FALSE,
             copy |-> {}]
    BY <2>4, <2>5
  <2>7. frame' = [d EXCEPT !.session = session]
    BY <2>1, <2>3, <2>5 DEF Update
  <2>8. frame' = [pc |-> "store", face |-> face, seen |-> fsm', session |-> session,
                  run |-> FALSE, copy |-> {}]
    BY <2>6, <2>7
  <2> QED BY <1>2, <2>8 DEF Frames
<1>4. TypeOK'
  <2>1. passed' \in SUBSET Sessions
    BY <1>1 DEF Inv, TypeOK
  <2> QED BY <1>1, <1>2, <1>3, <2>1 DEF Inv, TypeOK, Frames
<1>5. Counted'
  BY <1>1, CallsStay
<1>6. Foreign'
  BY <1>1, <1>3 DEF Inv, Foreign, Old, InWork
<1>7. Passed'
  BY <1>1, <1>3 DEF Inv, Passed, InWork
<1> QED BY <1>4, <1>5, <1>6, <1>7 DEF Inv

\* The frame goes on, with the session, the answer and the copy it has.
Goes(pc) ==
  /\ frame' \in Frames /\ frame'.pc = pc
  /\ frame'.seen = frame.seen /\ frame'.session = frame.session

LEMMA StoreSeenInv ==
  ASSUME Inv, StoreSeen
  PROVE  Inv'
<1>1. /\ frame.pc = "store" /\ livenessState' = frame.seen
      /\ UNCHANGED <<platform, fsm, written, embedding, result, window, todo, call, fsmMutex,
                     presses, session, passed, overlapped, averaged>>
  BY DEF StoreSeen, calls, history
<1>2. frame \in Frames
  BY DEF Inv, TypeOK, Frames
<1>3. Goes("gate") /\ frame'.run = frame.run
  BY <1>2 DEF StoreSeen, Goes, Frames
<1>4. TypeOK'
  BY <1>1, <1>2, <1>3 DEF Goes, Inv, TypeOK, Frames
<1>5. Counted'
  BY <1>1, CallsStay
<1>6. Foreign'
  BY <1>1, <1>3 DEF Goes, Inv, Foreign, Old, InWork
<1>7. Passed'
  BY <1>1, <1>3 DEF Goes, Inv, Passed, InWork
<1> QED BY <1>4, <1>5, <1>6, <1>7 DEF Inv

LEMMA OpenGateInv ==
  ASSUME Inv, NEW usable \in BOOLEAN, OpenGate(usable)
  PROVE  Inv'
<1>1. /\ frame.pc = "gate"
      /\ UNCHANGED <<platform, fsm, livenessState, written, embedding, result, window, todo, call,
                     fsmMutex, presses, session, passed, overlapped, averaged>>
  BY DEF OpenGate, calls, history
<1>2. frame \in Frames
  BY DEF Inv, TypeOK, Frames
<1>3. PICK run \in BOOLEAN :
        /\ run = (usable /\ frame.face /\ IF platform = "ios" THEN livenessState = "pass"
                                          ELSE frame.seen = "pass")
        /\ frame' = [frame EXCEPT !.pc = "once", !.run = run]
  BY <1>2 DEF OpenGate, Frames
<1>4. Goes("once") /\ frame'.run = run
  BY <1>2, <1>3 DEF Goes, Frames
<1>5. run => frame.session \in passed \cup overlapped
  BY <1>1, <1>3 DEF Inv, Passed, InWork
<1>6. TypeOK'
  BY <1>1, <1>4 DEF Goes, Inv, TypeOK, Frames
<1>7. Counted'
  BY <1>1, CallsStay
<1>8. Foreign'
  BY <1>1, <1>4 DEF Goes, Inv, Foreign, Old, InWork
<1>9. Passed'
  BY <1>1, <1>4, <1>5 DEF Goes, Inv, Passed, InWork
<1> QED BY <1>6, <1>7, <1>8, <1>9 DEF Inv

LEMMA AskOnceInv ==
  ASSUME Inv, AskOnce
  PROVE  Inv'
<1>1. /\ frame.pc = "once"
      /\ UNCHANGED <<platform, fsm, livenessState, written, embedding, result, window, todo, call,
                     fsmMutex, presses, session, passed, overlapped, averaged>>
  BY DEF AskOnce, calls, history
<1>2. frame \in Frames /\ written \in BOOLEAN
  BY DEF Inv, TypeOK, Frames
<1>3. PICK run \in BOOLEAN :
        /\ run = (frame.run /\ ~written)
        /\ frame' = [frame EXCEPT !.pc = "write", !.run = run]
  BY <1>2 DEF AskOnce, Frames
<1>4. Goes("write") /\ (frame'.run => frame.run)
  BY <1>2, <1>3 DEF Goes, Frames
<1>5. TypeOK'
  BY <1>1, <1>4 DEF Goes, Inv, TypeOK, Frames
<1>6. Counted'
  BY <1>1, CallsStay
<1>7. Foreign'
  BY <1>1, <1>4 DEF Goes, Inv, Foreign, Old, InWork
<1>8. Passed'
  BY <1>1, <1>4 DEF Goes, Inv, Passed, InWork
<1> QED BY <1>5, <1>6, <1>7, <1>8 DEF Inv

\* The averager's window: at most five samples, of those it had and the new one.
LEMMA Pushed ==
  ASSUME Inv, NEW drop \in 0 .. Len(window), PushEmbedding(drop)
  PROVE  /\ window' \in Seq(Sessions) /\ Len(window') <= 5
         /\ Range(window') \subseteq Range(window) \cup {frame.session}
         /\ embedding' \subseteq Range(window')
         /\ averaged' = averaged \cup (Range(window') \ {frame.session})
         /\ Range(window') \subseteq Sessions
<1>0. PICK stay : stay = SubSeq(window, drop + 1, Len(window))
  OBVIOUS
<1> DEFINE pushed == Append(stay, frame.session)
           from == IF Len(pushed) > 5 THEN Len(pushed) - 4 ELSE 1
           kept == SubSeq(pushed, from, Len(pushed))
<1>1. /\ window \in Seq(Sessions) /\ Len(window) \in Nat /\ frame.session \in Sessions
      /\ \A i \in 1 .. Len(window) : window[i] \in Sessions
      /\ DOMAIN window = 1 .. Len(window)
  BY DEF Inv, TypeOK
<1>2. /\ stay \in Seq(Sessions) /\ \A i \in 1 .. Len(stay) : stay[i] \in Range(window)
  <2>1. \A i \in drop + 1 .. Len(window) : window[i] \in Sessions
    BY <1>1
  <2>2. /\ stay \in Seq(Sessions) /\ Len(stay) = IF drop + 1 <= Len(window)
                                                 THEN Len(window) - (drop + 1) + 1 ELSE 0
        /\ \A i \in 1 .. Len(window) - (drop + 1) + 1 : stay[i] = window[drop + 1 + i - 1]
    BY <1>0, <1>1, <2>1, SubSeqProperties
  <2>3. ASSUME NEW i \in 1 .. Len(stay) PROVE stay[i] \in Range(window)
    <3>1. Len(stay) = Len(window) - drop
      <4>1. drop \in Nat /\ drop <= Len(window)
        BY <1>1
      <4>2. Len(stay) = IF drop + 1 <= Len(window) THEN Len(window) - (drop + 1) + 1 ELSE 0
        BY <2>2
      <4>3. \A n, d \in Nat : d <= n =>
              n - d = IF d + 1 <= n THEN n - (d + 1) + 1 ELSE 0
        OBVIOUS
      <4> QED BY <1>1, <4>1, <4>2, <4>3, Zenon
    <3>2. i \in 1 .. Len(window) - (drop + 1) + 1 /\ drop + 1 + i - 1 \in 1 .. Len(window)
      BY <1>1, <3>1
    <3> QED BY <1>1, <2>2, <3>2 DEF Range
  <2> QED BY <2>2, <2>3
<1>3. /\ pushed \in Seq(Sessions) /\ Len(pushed) \in Nat /\ Len(pushed) >= 1
      /\ \A i \in 1 .. Len(pushed) : pushed[i] \in Range(window) \cup {frame.session}
  <2>1. /\ pushed \in Seq(Sessions) /\ Len(pushed) = Len(stay) + 1 /\ Len(stay) \in Nat
        /\ \A i \in 1 .. Len(stay) : pushed[i] = stay[i]
        /\ pushed[Len(stay) + 1] = frame.session
    BY <1>1, <1>2, AppendProperties
  <2> QED BY <1>2, <2>1
<1> HIDE DEF pushed
<1>4. /\ kept \in Seq(Sessions) /\ Len(kept) <= 5
      /\ \A i \in 1 .. Len(kept) : kept[i] \in Range(window) \cup {frame.session}
  <2>1. /\ from \in 1 .. Len(pushed) /\ Len(pushed) - from + 1 <= 5
    BY <1>3
  <2> HIDE DEF from
  <2>2. \A i \in from .. Len(pushed) : pushed[i] \in Sessions
    BY <1>3, <2>1
  <2>3. /\ kept \in Seq(Sessions) /\ Len(kept) = Len(pushed) - from + 1
        /\ \A i \in 1 .. Len(pushed) - from + 1 : kept[i] = pushed[from + i - 1]
    BY <1>3, <2>1, <2>2, SubSeqProperties
  <2>4. \A i \in 1 .. Len(pushed) - from + 1 : from + i - 1 \in 1 .. Len(pushed)
    BY <1>3, <2>1
  <2> QED BY <1>3, <2>1, <2>3, <2>4
<1>5. /\ window' = kept
      /\ IF Len(kept) <= 2 THEN embedding' = Range(kept)
         ELSE embedding' \in SUBSET Range(kept) \ {{}}
      /\ averaged' = averaged \cup {s \in Range(kept) : s # frame.session}
  BY <1>0 DEF PushEmbedding, kept, from, pushed
<1> HIDE DEF kept
<1>6. Range(kept) \subseteq Range(window) \cup {frame.session} /\ Range(kept) \subseteq Sessions
  BY <1>4 DEF Range
<1> QED BY <1>4, <1>5, <1>6

LEMMA WriteEmbeddingInv ==
  ASSUME Inv, WriteEmbedding
  PROVE  Inv'
<1>1. /\ frame.pc = "write" /\ frame.run /\ written' = TRUE
      /\ frame' = [frame EXCEPT !.pc = "publish", !.copy = embedding']
      /\ UNCHANGED <<platform, fsm, livenessState, result, todo, call, fsmMutex, presses, session,
                     passed, overlapped>>
  BY DEF WriteEmbedding, calls
<1>2. PICK drop \in 0 .. Len(window) : PushEmbedding(drop)
  BY DEF WriteEmbedding
<1>3. /\ window' \in Seq(Sessions) /\ Len(window') <= 5
      /\ Range(window') \subseteq Range(window) \cup {frame.session}
      /\ embedding' \subseteq Range(window') /\ Range(window') \subseteq Sessions
      /\ averaged' = averaged \cup (Range(window') \ {frame.session})
  BY <1>2, Pushed
<1>4. /\ frame' \in Frames /\ frame'.pc = "publish" /\ frame'.copy = embedding'
      /\ frame'.seen = frame.seen /\ frame'.session = frame.session /\ frame'.run = frame.run
  BY <1>1, <1>3 DEF Inv, TypeOK, Frames
<1>5. TypeOK'
  <2>1. averaged' \in SUBSET Sessions
    BY <1>3 DEF Inv, TypeOK
  <2>2. embedding' \subseteq Sessions
    BY <1>3
  <2> QED BY <1>1, <1>3, <1>4, <2>1, <2>2 DEF Inv, TypeOK, Frames
<1>6. Counted'
  BY <1>1, CallsStay
<1>7. Foreign'
  <2>1. embedding' \subseteq {frame.session} \cup Old'
    BY <1>3 DEF Old
  <2>2. Old \subseteq Old'
    BY <1>1, <1>3 DEF Old
  <2>3. InWork /\ InWork'
    BY <1>1, <1>4 DEF InWork
  <2>4. frame.session # session => frame.session \in Old'
    BY <2>2, <2>3 DEF Inv, Foreign, Old
  <2>5. overlapped' = overlapped /\ session' = session /\ result' = result
    BY <1>1
  <2> QED BY <1>4, <2>1, <2>2, <2>3, <2>4, <2>5 DEF Inv, Foreign
<1>8. Passed'
  <2>1. Range(window') \subseteq passed \cup overlapped
    BY <1>1, <1>3 DEF Inv, Passed
  <2> QED BY <1>1, <1>4, <2>1 DEF Inv, Passed, InWork
<1> QED BY <1>5, <1>6, <1>7, <1>8 DEF Inv

LEMMA KeepEmbeddingInv ==
  ASSUME Inv, KeepEmbedding
  PROVE  Inv'
<1>1. /\ frame.pc = "write" /\ ~frame.run /\ written' = (written /\ frame.seen # "idle")
      /\ frame' = [frame EXCEPT !.pc = "publish", !.copy = embedding]
      /\ UNCHANGED <<platform, fsm, livenessState, embedding, result, window, todo, call,
                     fsmMutex, presses, session, passed, overlapped, averaged>>
  BY DEF KeepEmbedding, calls, history
<1>2. /\ frame' \in Frames /\ frame'.pc = "publish" /\ frame'.copy = embedding
      /\ frame'.seen = frame.seen /\ frame'.session = frame.session /\ frame'.run = frame.run
  BY <1>1 DEF Inv, TypeOK, Frames
<1>3. TypeOK'
  <2>1. written' \in BOOLEAN
    BY <1>1 DEF Inv, TypeOK
  <2> QED BY <1>1, <1>2, <2>1 DEF Inv, TypeOK, Frames
<1>4. Counted'
  BY <1>1, CallsStay
<1>5. Foreign'
  BY <1>1, <1>2 DEF Inv, Foreign, Old, InWork
<1>6. Passed'
  BY <1>1, <1>2 DEF Inv, Passed, InWork
<1> QED BY <1>3, <1>4, <1>5, <1>6 DEF Inv

LEMMA PublishInv ==
  ASSUME Inv, Publish
  PROVE  Inv'
<1>1. /\ frame.pc = "publish" /\ result' = frame.copy /\ frame' = NoFrame
      /\ UNCHANGED <<platform, fsm, livenessState, written, embedding, window, todo, call,
                     fsmMutex, presses, session, passed, overlapped, averaged>>
  BY DEF Publish, calls, history
<1>2. frame' \in Frames /\ ~InWork' /\ frame'.pc = "idle" /\ frame'.run = FALSE
  BY <1>1, SessionsAre DEF NoFrame, Frames, InWork, Gate!States
<1>3. TypeOK'
  BY <1>1, <1>2 DEF Inv, TypeOK, Frames
<1>4. Counted'
  BY <1>1, CallsStay
<1>5. Foreign'
  BY <1>1, <1>2 DEF Inv, Foreign, Old, InWork
<1>6. Passed'
  BY <1>1, <1>2 DEF Inv, Passed
<1> QED BY <1>3, <1>4, <1>5, <1>6 DEF Inv

-----------------------------------------------------------------------------
LEMMA NextInv == Inv /\ [Next]_vars => Inv'
<1> SUFFICES ASSUME Inv, [Next]_vars PROVE Inv'
  OBVIOUS
<1>1. ASSUME UNCHANGED vars PROVE Inv'
  <2>1. UNCHANGED <<platform, fsm, livenessState, written, embedding, result, window, frame, todo,
                    call, fsmMutex, presses, session, passed, overlapped, averaged>>
    BY <1>1 DEF vars, calls, history
  <2>2. TypeOK' /\ Foreign' /\ Passed'
    BY <2>1 DEF Inv, TypeOK, Foreign, Passed, Old, InWork
  <2>3. Counted'
    BY <2>1 DEF Inv, Counted, Begun
  <2> QED BY <2>2, <2>3 DEF Inv
<1>2. CASE CallStep
  BY <1>2, ForcePassInv, SetLivenessChallengeInv, StoreCalledInv DEF CallStep
<1>3. CASE FrameStep
  BY <1>3, UpdateInv, StoreSeenInv, OpenGateInv, AskOnceInv, WriteEmbeddingInv, KeepEmbeddingInv,
     PublishInv DEF FrameStep
<1> QED BY <1>1, <1>2, <1>3, PressInv DEF Next

LEMMA Invariant == Spec => []Inv
<1>1. Init => Inv
  BY InitInv
<1>2. Inv /\ [Next]_vars => Inv'
  BY NextInv
<1> QED BY <1>1, <1>2, PTL DEF Spec

\* Every variable has its type; there are never more sessions than two for each
\* button, and never more than five samples in the averager's window.
THEOREM TypeCorrect == Spec => []TypeOK
<1>1. Inv => TypeOK
  BY DEF Inv
<1> QED BY <1>1, Invariant, PTL

\* What the application reads is of this session, unless a frame was in work when
\* its own ended, or its sample was averaged with a later one.
THEOREM NothingIsLeftOver == Spec => []NothingFromBefore
<1>1. Inv => NothingFromBefore
  BY DEF Inv, Foreign, Old, NothingFromBefore
<1> QED BY <1>1, Invariant, PTL

\* No face is embedded in a session in which the state machine never stood at
\* pass, unless its frame was in work when the session ended.
THEOREM OnlyPassedAreEmbedded == Spec => []EmbeddedAfterPass
<1>1. Inv => EmbeddedAfterPass
  BY DEF Inv, Passed, EmbeddedAfterPass
<1> QED BY <1>1, Invariant, PTL
=============================================================================
