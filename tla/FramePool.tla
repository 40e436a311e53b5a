------------------------------ MODULE FramePool ------------------------------
(***************************************************************************)
(* The way of a camera frame to the inference thread: PixelBufferPool, the *)
(* one-place mailbox of FrameProcessorPlugin and its InferenceLoop.  The   *)
(* camera thread copies a frame into a buffer of the pool and exchanges it *)
(* for what the mailbox holds; the inference thread exchanges the mailbox  *)
(* for null and works on what it got.  Only Acquire takes the pool's mutex:*)
(* Release, the mailbox and the flags are atomics, so every access to them *)
(* is a step of its own.                                                   *)
(***************************************************************************)
EXTENDS Integers, FiniteSets

CONSTANTS
  Cameras,    \* threads that call SubmitFrameCopy
  capacity,   \* kFramePoolCapacity
  MaxFrames,  \* bound: frames the cameras offer
  Null        \* no buffer

ASSUME PoolAssumption ==
  /\ IsFiniteSet(Cameras) /\ capacity \in Nat /\ capacity >= Cardinality(Cameras) + 2
  /\ MaxFrames \in Nat
  /\ Null \notin Nat

VARIABLES
  frames,     \* [slot -> refCount, metadata set, pixels copied]
  nextIndex,  \* where Acquire starts to look
  mailbox,    \* a slot, or Null
  camera,     \* [camera -> step of SubmitFrameCopy and the slot in its hands]
  inference,  \* the same of InferenceLoop
  isProcessing,
  running,    \* the destructor clears it
  counts,     \* frames offered, dropped, replaced and processed
  wiped       \* history only: slots whose metadata a late Release has wiped

vars == <<frames, nextIndex, mailbox, camera, inference, isProcessing, running,
          counts, wiped>>

-----------------------------------------------------------------------------
Slots == 0 .. capacity - 1
Free == {s \in Slots : frames[s].refs = 0}
CameraSteps == {"idle", "acquire", "fill", "post", "release", "wipe", "notify"}
InferenceSteps == {"exchange", "check", "drowsy", "asleep", "flag", "read", "work", "release",
                   "wipe", "done", "joined"}
AtRest == [pc |-> "idle", slot |-> Null]

Init ==
  /\ frames = [s \in Slots |-> [refs |-> 0, described |-> FALSE, copied |-> FALSE]]
  /\ nextIndex = 0
  /\ mailbox = Null
  /\ camera = [c \in Cameras |-> AtRest]
  /\ inference = [pc |-> "exchange", slot |-> Null, whole |-> TRUE]
  /\ isProcessing = FALSE
  /\ running = TRUE
  /\ counts = [offered |-> 0, dropped |-> 0, replaced |-> 0, processed |-> 0]
  /\ wiped = {}

-----------------------------------------------------------------------------
(* PixelBufferPool                                                         *)

\* The first free slot from nextIndex on.
Claimed ==
  CHOOSE s \in Free : \A f \in Free :
    (s - nextIndex) % capacity <= (f - nextIndex) % capacity

\* The count is taken down with compare_exchange ...
TakeDown(s) ==
  /\ frames' = [frames EXCEPT ![s].refs = IF @ = 0 THEN 0 ELSE @ - 1]

\* ... and then the metadata is reset, whoever may own the buffer by now.
Wipe(s) ==
  /\ frames' = [frames EXCEPT ![s].described = FALSE]
  /\ wiped' = IF frames[s].refs = 0 THEN wiped ELSE wiped \cup {s}

-----------------------------------------------------------------------------
(* SubmitFrameCopy                                                         *)

Offer(c) ==
  /\ camera[c].pc = "idle" /\ running
  /\ counts.offered < MaxFrames
  /\ IF isProcessing
     THEN /\ counts' = [counts EXCEPT !.offered = @ + 1, !.dropped = @ + 1]
          /\ UNCHANGED camera
     ELSE /\ counts' = [counts EXCEPT !.offered = @ + 1]
          /\ camera' = [camera EXCEPT ![c].pc = "acquire"]
  /\ UNCHANGED <<frames, nextIndex, mailbox, inference, isProcessing, running, wiped>>

\* Mutant: nextIndex does not wrap around.
AcquireBeyond(c) ==
  /\ camera[c].pc = "acquire" /\ Free # {}
  /\ frames' = [frames EXCEPT ![Claimed].refs = 1, ![Claimed].copied = FALSE]
  /\ nextIndex' = Claimed + 1
  /\ camera' = [camera EXCEPT ![c] = [pc |-> "fill", slot |-> Claimed]]
  /\ UNCHANGED <<mailbox, inference, isProcessing, running, counts, wiped>>

\* Nothing free: the frame is dropped.
Acquire(c) ==
  /\ camera[c].pc = "acquire"
  /\ IF Free = {}
     THEN /\ camera' = [camera EXCEPT ![c] = AtRest]
          /\ counts' = [counts EXCEPT !.dropped = @ + 1]
          /\ UNCHANGED <<frames, nextIndex>>
     ELSE /\ frames' = [frames EXCEPT ![Claimed].refs = 1, ![Claimed].copied = FALSE]
          /\ nextIndex' = (Claimed + 1) % capacity
          /\ camera' = [camera EXCEPT ![c] = [pc |-> "fill", slot |-> Claimed]]
          /\ UNCHANGED counts
  /\ UNCHANGED <<mailbox, inference, isProcessing, running, wiped>>

\* Mutant: the frame is posted before its pixels are copied.
FillLate(c) ==
  /\ camera[c].pc = "fill"
  /\ frames' = [frames EXCEPT ![camera[c].slot].described = TRUE]
  /\ wiped' = wiped \ {camera[c].slot}
  /\ camera' = [camera EXCEPT ![c].pc = "post"]
  /\ UNCHANGED <<nextIndex, mailbox, inference, isProcessing, running, counts>>

\* Acquire writes the metadata, SubmitFrameCopy the pixels.
Fill(c) ==
  /\ camera[c].pc = "fill"
  /\ frames' = [frames EXCEPT ![camera[c].slot].described = TRUE,
                              ![camera[c].slot].copied = TRUE]
  /\ wiped' = wiped \ {camera[c].slot}
  /\ camera' = [camera EXCEPT ![c].pc = "post"]
  /\ UNCHANGED <<nextIndex, mailbox, inference, isProcessing, running, counts>>

\* Mutant: a displaced frame is forgotten.
PostForgets(c) ==
  /\ camera[c].pc = "post"
  /\ mailbox' = camera[c].slot
  /\ counts' = [counts EXCEPT !.replaced = IF mailbox = Null THEN @ ELSE @ + 1]
  /\ camera' = [camera EXCEPT ![c] = [pc |-> "notify", slot |-> Null]]
  /\ UNCHANGED <<frames, nextIndex, inference, isProcessing, running, wiped>>

Post(c) ==
  /\ camera[c].pc = "post"
  /\ mailbox' = camera[c].slot
  /\ IF mailbox = Null
     THEN /\ camera' = [camera EXCEPT ![c] = [pc |-> "notify", slot |-> Null]]
          /\ UNCHANGED counts
     ELSE /\ camera' = [camera EXCEPT ![c] = [pc |-> "release", slot |-> mailbox]]
          /\ counts' = [counts EXCEPT !.replaced = @ + 1]
  /\ UNCHANGED <<frames, nextIndex, inference, isProcessing, running, wiped>>

ReleaseDisplaced(c) ==
  /\ camera[c].pc = "release"
  /\ TakeDown(camera[c].slot)
  /\ camera' = [camera EXCEPT ![c].pc = "wipe"]
  /\ UNCHANGED <<nextIndex, mailbox, inference, isProcessing, running, counts, wiped>>

WipeDisplaced(c) ==
  /\ camera[c].pc = "wipe"
  /\ Wipe(camera[c].slot)
  /\ camera' = [camera EXCEPT ![c] = [pc |-> "notify", slot |-> Null]]
  /\ UNCHANGED <<nextIndex, mailbox, inference, isProcessing, running, counts>>

\* notify_one wakes a thread that sleeps, and is lost on one that is about to.
Notify(c) ==
  /\ camera[c].pc = "notify"
  /\ camera' = [camera EXCEPT ![c] = AtRest]
  /\ inference' = [inference EXCEPT !.pc = IF @ = "asleep" THEN "check" ELSE @]
  /\ UNCHANGED <<frames, nextIndex, mailbox, isProcessing, running, counts, wiped>>

-----------------------------------------------------------------------------
(* InferenceLoop and ProcessCurrentFrame                                   *)

\* The loop ends when running is false and the mailbox empty.
Exchange ==
  /\ inference.pc = "exchange"
  /\ mailbox' = Null
  /\ inference' =
       IF mailbox # Null THEN [inference EXCEPT !.pc = "flag", !.slot = mailbox]
       ELSE [inference EXCEPT !.pc = IF running THEN "check" ELSE "joined"]
  /\ UNCHANGED <<frames, nextIndex, camera, isProcessing, running, counts, wiped>>

\* wait_for evaluates its predicate before it sleeps and after it is woken.
CheckPredicate ==
  /\ inference.pc = "check"
  /\ inference' = [inference EXCEPT
       !.pc = IF ~running \/ mailbox # Null THEN "exchange" ELSE "drowsy"]
  /\ UNCHANGED <<frames, nextIndex, mailbox, camera, isProcessing, running, counts, wiped>>

FallAsleep ==
  /\ inference.pc = "drowsy"
  /\ inference' = [inference EXCEPT !.pc = "asleep"]
  /\ UNCHANGED <<frames, nextIndex, mailbox, camera, isProcessing, running, counts, wiped>>

\* Mutant: wait without a timeout.
NeverTimesOut == FALSE /\ UNCHANGED vars

TimesOut ==
  /\ inference.pc = "asleep"
  /\ inference' = [inference EXCEPT !.pc = "exchange"]
  /\ UNCHANGED <<frames, nextIndex, mailbox, camera, isProcessing, running, counts, wiped>>

SetProcessing ==
  /\ inference.pc = "flag"
  /\ isProcessing' = TRUE
  /\ inference' = [inference EXCEPT !.pc = "read"]
  /\ UNCHANGED <<frames, nextIndex, mailbox, camera, running, counts, wiped>>

\* Width, height, stride and time are read once, the pixels after them.
ReadFrame ==
  /\ inference.pc = "read"
  /\ inference' = [inference EXCEPT !.pc = "work",
       !.whole = frames[inference.slot].described /\ frames[inference.slot].copied]
  /\ UNCHANGED <<frames, nextIndex, mailbox, camera, isProcessing, running, counts, wiped>>

Work ==
  /\ inference.pc = "work"
  /\ inference' = [inference EXCEPT !.pc = "release"]
  /\ counts' = [counts EXCEPT !.processed = @ + 1]
  /\ UNCHANGED <<frames, nextIndex, mailbox, camera, isProcessing, running, wiped>>

ReleaseProcessed ==
  /\ inference.pc = "release"
  /\ TakeDown(inference.slot)
  /\ inference' = [inference EXCEPT !.pc = "wipe"]
  /\ UNCHANGED <<nextIndex, mailbox, camera, isProcessing, running, counts, wiped>>

WipeProcessed ==
  /\ inference.pc = "wipe"
  /\ Wipe(inference.slot)
  /\ inference' = [inference EXCEPT !.pc = "done", !.slot = Null]
  /\ UNCHANGED <<nextIndex, mailbox, camera, isProcessing, running, counts>>

ClearProcessing ==
  /\ inference.pc = "done"
  /\ isProcessing' = FALSE
  /\ inference' = [inference EXCEPT !.pc = "exchange"]
  /\ UNCHANGED <<frames, nextIndex, mailbox, camera, running, counts, wiped>>

InferenceStep ==
  \/ Exchange \/ CheckPredicate \/ FallAsleep \/ TimesOut
  \/ SetProcessing \/ ReadFrame \/ Work
  \/ ReleaseProcessed \/ WipeProcessed \/ ClearProcessing

-----------------------------------------------------------------------------
\* The destructor: nobody submits any more (the owners of the pipeline are gone);
\* what is in the mailbox is still processed.
Destroy ==
  /\ running /\ \A c \in Cameras : camera[c].pc = "idle"
  /\ running' = FALSE
  /\ inference' = [inference EXCEPT !.pc = IF @ = "asleep" THEN "check" ELSE @]
  /\ UNCHANGED <<frames, nextIndex, mailbox, camera, isProcessing, counts, wiped>>

CameraStep(c) ==
  \/ Offer(c) \/ Acquire(c) \/ Fill(c) \/ Post(c)
  \/ ReleaseDisplaced(c) \/ WipeDisplaced(c) \/ Notify(c)

Next == (\E c \in Cameras : CameraStep(c)) \/ InferenceStep \/ Destroy

\* A thread that can run does; no frame need ever be offered.
Fairness ==
  /\ WF_vars(InferenceStep)
  /\ \A c \in Cameras : WF_vars(CameraStep(c) /\ camera[c].pc # "idle")

Spec == Init /\ [][Next]_vars
FairSpec == Spec /\ Fairness

-----------------------------------------------------------------------------
TypeOK ==
  /\ frames \in [Slots -> [refs : 0 .. 1, described : BOOLEAN, copied : BOOLEAN]]
  /\ nextIndex \in Slots
  /\ mailbox \in Slots \cup {Null}
  /\ camera \in [Cameras -> [pc : CameraSteps, slot : Slots \cup {Null}]]
  /\ inference \in [pc : InferenceSteps, slot : Slots \cup {Null}, whole : BOOLEAN]
  /\ isProcessing \in BOOLEAN /\ running \in BOOLEAN
  /\ counts \in [offered : 0 .. MaxFrames, dropped : 0 .. MaxFrames,
                 replaced : 0 .. MaxFrames, processed : 0 .. MaxFrames]
  /\ wiped \subseteq Slots

\* The slots a thread answers for: those it is still to release.
HeldByCamera(c) ==
  IF camera[c].pc \in {"fill", "post", "release"} THEN {camera[c].slot} ELSE {}
HeldByInference ==
  IF inference.pc \in {"flag", "read", "work", "release"} THEN {inference.slot} ELSE {}
InMailbox == {mailbox} \ {Null}

\* A buffer has one owner: it is counted exactly when one camera, the mailbox
\* or the inference thread answers for it, and never two of them do.  Nothing
\* leaks, nobody writes what another reads, and with one camera thread three
\* buffers are enough for Acquire never to find none
\* (FrameProcessorPlugin.cpp:351, :365, PixelBufferPool.cpp:48, :73).
OneOwner ==
  /\ \A s \in Slots : frames[s].refs = 1 <=>
       \/ s \in InMailbox \cup HeldByInference
       \/ \E c \in Cameras : s \in HeldByCamera(c)
  /\ InMailbox \cap HeldByInference = {}
  /\ \A c \in Cameras :
       /\ HeldByCamera(c) \cap (InMailbox \cup HeldByInference) = {}
       /\ \A d \in Cameras \ {c} : HeldByCamera(c) \cap HeldByCamera(d) = {}

\* The inference thread works on whole frames: the metadata and the pixels are
\* those the camera wrote, except in a buffer that was handed out again before
\* its last owner's Release had reset it (PixelBufferPool.cpp:82-89).
WholeFrames ==
  inference.pc = "work" /\ ~inference.whole => inference.slot \in wiped

\* A posted frame is taken out or replaced, though a notification may be lost
\* between the predicate and the sleep: the wait has a timeout
\* (FrameProcessorPlugin.cpp:369).
MailboxIsServed == \A s \in Slots : mailbox = s ~> mailbox # s
=============================================================================
