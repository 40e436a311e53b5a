--------------------------- MODULE EmbeddingSession ---------------------------
(***************************************************************************)
(* How FrameProcessorPlugin turns processed frames into the result the     *)
(* application reads: one thread at a time processes a frame (the inference*)
(* thread on iOS, the executor's SubmitExternalModelResult on Android),    *)
(* while the native-modules thread and the JavaScript thread change the    *)
(* state machine.  fsmMutex_ and resultMutex_ are each held for single     *)
(* steps; livenessState_ and embeddingWrittenThisSession_ are atomics read *)
(* and written between them.                                               *)
(*                                                                         *)
(* A session is what lies between two calls that start or reset the state  *)
(* machine; an embedding is the set of the sessions whose frames it was    *)
(* averaged from, {} for none.                                             *)
(***************************************************************************)
EXTENDS Integers, Sequences, Functions

CONSTANTS
  MaxPresses,   \* bound: buttons pressed
  Nobody        \* fsmMutex_ is free

ASSUME SessionAssumption == MaxPresses \in Nat

Threads == {"native", "js"}
ASSUME NobodyAssumption == Nobody \notin Threads

VARIABLES
  platform,      \* which of the two builds this is
  fsm,           \* livenessFsm_
  livenessState, \* livenessState_
  written,       \* embeddingWrittenThisSession_
  embedding,     \* latestEmbedding_, empty iff not latestEmbeddingValid_
  result,        \* the embedding of latestResult_, empty iff not accepted
  window,        \* the averager's samples_, by session
  frame,         \* the frame being processed
  todo,          \* [thread -> calls that wait for it]
  call,          \* [thread -> what it is in the middle of]
  fsmMutex,      \* the thread that holds it across two steps
  presses,       \* buttons pressed so far
  session,       \* history only, and the rest too: sessions begun
  passed,        \* sessions in which the state machine stood at pass
  overlapped,    \* sessions a frame of which was in work when they ended
  averaged       \* sessions whose samples were in the window with later ones

calls == <<todo, call, fsmMutex, presses>>
history == <<session, passed, overlapped, averaged>>
vars == <<platform, fsm, livenessState, written, embedding, result, window, frame,
          calls, history>>

Gate == INSTANCE LivenessGate WITH gate <- fsm

-----------------------------------------------------------------------------
Ops == {"pass", "none", "challenge"}
Sessions == 0 .. 2 * MaxPresses      \* a button calls twice
Resting == [pc |-> "idle", op |-> "none"]
NoFrame == [pc |-> "idle", face |-> FALSE, seen |-> "idle", session |-> 0,
            run |-> FALSE, copy |-> {}]
InWork == frame.pc # "idle"

Init ==
  /\ platform \in {"android", "ios"}
  /\ fsm = "idle" /\ livenessState = "idle"
  /\ written = FALSE /\ embedding = {} /\ result = {} /\ window = <<>>
  /\ frame = NoFrame
  /\ todo = [t \in Threads |-> <<>>]
  /\ call = [t \in Threads |-> Resting]
  /\ fsmMutex = Nobody
  /\ presses = 0
  /\ session = 0 /\ passed = {} /\ overlapped = {} /\ averaged = {}

-----------------------------------------------------------------------------
(* Calls.  A button calls the native module and, when that has answered,   *)
(* the JSI function of the same name; the pass button only the former.     *)

Press(op) ==
  /\ presses < MaxPresses
  /\ presses' = presses + 1
  /\ todo' = [todo EXCEPT !["native"] = Append(@, op)]
  /\ UNCHANGED <<platform, fsm, livenessState, written, embedding, result, window,
                 frame, call, fsmMutex, history>>

\* Thread t may begin its next call; on iOS it holds gPipelineMutex meanwhile.
Begins(t, op) ==
  /\ todo[t] # <<>> /\ Head(todo[t]) = op
  /\ call[t].pc = "idle" /\ fsmMutex = Nobody
  /\ platform = "ios" => \A u \in Threads : call[u].pc = "idle"

\* SetLivenessState(LIVENESS_PASS).
ForcePass(t) ==
  /\ Begins(t, "pass")
  /\ fsm' = "pass"
  /\ call' = [call EXCEPT ![t] = [pc |-> "store", op |-> "pass"]]
  /\ passed' = passed \cup {session}
  /\ UNCHANGED <<platform, livenessState, written, embedding, result, window, frame,
                 todo, fsmMutex, presses, session, overlapped, averaged>>

\* The observer's note of a new session.
NewSession ==
  /\ session' = session + 1
  /\ overlapped' = IF InWork THEN overlapped \cup {frame.session} ELSE overlapped
  /\ UNCHANGED <<passed, averaged>>

\* Mutant: the embedding of the session that ends stays where it is.
SetLivenessChallengeKeeps(t, op) ==
  /\ Begins(t, op)
  /\ fsm' = IF op = "none" THEN "idle" ELSE "active"
  /\ result' = {} /\ written' = FALSE
  /\ call' = [call EXCEPT ![t] = [pc |-> "store", op |-> op]]
  /\ fsmMutex' = t
  /\ NewSession
  /\ UNCHANGED <<platform, livenessState, embedding, window, frame, todo, presses>>

\* SetLivenessChallenge, and SetLivenessState(IDLE) alike: the state machine is
\* reset or started and everything of the session cleared under both mutexes.
SetLivenessChallenge(t, op) ==
  /\ Begins(t, op)
  /\ fsm' = IF op = "none" THEN "idle" ELSE "active"
  /\ embedding' = {} /\ result' = {} /\ written' = FALSE
  /\ call' = [call EXCEPT ![t] = [pc |-> "store", op |-> op]]
  /\ fsmMutex' = t
  /\ NewSession
  /\ UNCHANGED <<platform, livenessState, window, frame, todo, presses>>

\* Mutant: the challenge is stored where the state belongs.
StoreCalledRaw(t) ==
  /\ call[t].pc = "store"
  /\ livenessState' = call[t].op
  /\ fsmMutex' = IF fsmMutex = t THEN Nobody ELSE fsmMutex
  /\ call' = [call EXCEPT ![t] = Resting]
  /\ todo' = [todo EXCEPT ![t] = Tail(@)]
  /\ UNCHANGED <<platform, fsm, written, embedding, result, window, frame, presses, history>>

\* livenessState_ is stored last: within fsmMutex_ by SetLivenessChallenge, after
\* it by SetLivenessState.
StoreCalled(t) ==
  /\ call[t].pc = "store"
  /\ livenessState' = CASE call[t].op = "pass" -> "pass"
                        [] call[t].op = "none" -> "idle"
                        [] call[t].op = "challenge" -> "active"
  /\ fsmMutex' = IF fsmMutex = t THEN Nobody ELSE fsmMutex
  /\ call' = [call EXCEPT ![t] = Resting]
  /\ todo' = [u \in Threads |->
       IF u = t THEN Tail(todo[u])
       ELSE IF t = "native" /\ call[t].op # "pass" THEN Append(todo[u], call[t].op)
       ELSE todo[u]]
  /\ UNCHANGED <<platform, fsm, written, embedding, result, window, frame, presses, history>>

-----------------------------------------------------------------------------
(* ProcessCurrentFrame and SubmitExternalModelResult, from the state       *)
(* machine on.                                                             *)

Update(face) ==
  /\ ~InWork /\ fsmMutex = Nobody
  /\ fsm' \in Gate!AfterFrame(fsm, face)
  /\ frame' = [NoFrame EXCEPT !.pc = "store", !.face = face, !.seen = fsm',
                              !.session = session]
  /\ passed' = IF fsm' = "pass" THEN passed \cup {session} ELSE passed
  /\ UNCHANGED <<platform, livenessState, written, embedding, result, window, calls,
                 session, overlapped, averaged>>

\* The state machine's answer is stored after its mutex is released.
StoreSeen ==
  /\ frame.pc = "store"
  /\ livenessState' = frame.seen
  /\ frame' = [frame EXCEPT !.pc = "gate"]
  /\ UNCHANGED <<platform, fsm, written, embedding, result, window, calls, history>>

\* Mutant: nobody asks whether the state machine has passed.
OpenGateAlways(usable) ==
  /\ frame.pc = "gate"
  /\ frame' = [frame EXCEPT !.pc = "once", !.run = usable /\ frame.face]
  /\ UNCHANGED <<platform, fsm, livenessState, written, embedding, result, window,
                 calls, history>>

\* ShouldRunMobileFaceNet asks livenessState_; the external path goes by what
\* its own frame saw, and by whether the runner sent an embedding (usable).
OpenGate(usable) ==
  /\ frame.pc = "gate"
  /\ LET passes == IF platform = "ios" THEN livenessState = "pass"
                   ELSE frame.seen = "pass" IN
     frame' = [frame EXCEPT !.pc = "once", !.run = usable /\ frame.face /\ passes]
  /\ UNCHANGED <<platform, fsm, livenessState, written, embedding, result, window,
                 calls, history>>

\* ... and the embedding of this session has not been written yet.
AskOnce ==
  /\ frame.pc = "once"
  /\ frame' = [frame EXCEPT !.pc = "write", !.run = @ /\ ~written]
  /\ UNCHANGED <<platform, fsm, livenessState, written, embedding, result, window,
                 calls, history>>

\* PushEmbedding: samples that have grown old are dropped from the front (those
\* after drop stay), at most five are kept, and the centroid of those that lie
\* close enough is the answer.  Of two, neither is an outlier.
PushEmbedding(drop) ==
  LET pushed == Append(SubSeq(window, drop + 1, Len(window)), frame.session)
      kept == SubSeq(pushed, IF Len(pushed) > 5 THEN Len(pushed) - 4 ELSE 1, Len(pushed))
  IN /\ window' = kept
     /\ IF Len(kept) <= 2 THEN embedding' = Range(kept)
        ELSE embedding' \in SUBSET Range(kept) \ {{}}
     /\ averaged' = averaged \cup {s \in Range(kept) : s # frame.session}

WriteEmbedding ==
  /\ frame.pc = "write" /\ frame.run
  /\ \E drop \in 0 .. Len(window) : PushEmbedding(drop)
  /\ written' = TRUE
  /\ frame' = [frame EXCEPT !.pc = "publish", !.copy = embedding']
  /\ UNCHANGED <<platform, fsm, livenessState, result, calls, session, passed,
                 overlapped>>

\* Without an embedding the last one stays; an idle frame lets the next run.
KeepEmbedding ==
  /\ frame.pc = "write" /\ ~frame.run
  /\ written' = (written /\ frame.seen # "idle")
  /\ frame' = [frame EXCEPT !.pc = "publish", !.copy = embedding]
  /\ UNCHANGED <<platform, fsm, livenessState, embedding, result, window, calls, history>>

\* latestResult_ is replaced as a whole, resultMutex_ having been released since.
Publish ==
  /\ frame.pc = "publish"
  /\ result' = frame.copy
  /\ frame' = NoFrame
  /\ UNCHANGED <<platform, fsm, livenessState, written, embedding, window, calls, history>>

-----------------------------------------------------------------------------
CallStep ==
  \E t \in Threads :
    \/ ForcePass(t)
    \/ \E op \in {"none", "challenge"} : SetLivenessChallenge(t, op)
    \/ StoreCalled(t)

FrameStep ==
  \/ \E face \in BOOLEAN : Update(face)
  \/ StoreSeen
  \/ \E usable \in BOOLEAN : OpenGate(usable)
  \/ AskOnce \/ WriteEmbedding \/ KeepEmbedding \/ Publish

Next == (\E op \in Ops : Press(op)) \/ CallStep \/ FrameStep

Spec == Init /\ [][Next]_vars

-----------------------------------------------------------------------------
TypeOK ==
  /\ platform \in {"android", "ios"}
  /\ fsm \in Gate!States /\ livenessState \in Gate!States
  /\ written \in BOOLEAN
  /\ embedding \subseteq Sessions /\ result \subseteq Sessions
  /\ window \in Seq(Sessions) /\ Len(window) <= 5
  /\ frame \in [pc : {"idle", "store", "gate", "once", "write", "publish"},
                face : BOOLEAN, seen : Gate!States, session : Sessions,
                run : BOOLEAN, copy : SUBSET Sessions]
  /\ todo \in [Threads -> Seq(Ops)]
  /\ call \in [Threads -> [pc : {"idle", "store"}, op : Ops]]
  /\ fsmMutex \in Threads \cup {Nobody}
  /\ presses \in 0 .. MaxPresses
  /\ session \in Sessions
  /\ {passed, overlapped, averaged} \subseteq SUBSET Sessions

\* What the application reads after a call has cleared the last session is not of
\* that session, unless one of its frames was in work when the call came or its
\* sample was still in the averager's window when a later one was pushed
\* (FrameProcessorPlugin.cpp:152, :206, :312; EmbeddingAverager.cpp:6).
NothingFromBefore ==
  \A s \in result \cup embedding : s # session => s \in overlapped \cup averaged

\* A face is embedded only in a session in which the state machine stood at pass,
\* whatever livenessState_ was left at by the frame or the call before, unless the
\* frame was in work when its session ended (FrameProcessorPlugin.cpp:138, :284,
\* :453).
EmbeddedAfterPass == Range(window) \subseteq passed \cup overlapped
=============================================================================
