---------------------------- MODULE AndroidBridge ----------------------------
(***************************************************************************)
(* The way of a camera frame on Android: NativeBridge copies it into one   *)
(* reused buffer, posts it in a one-place mailbox and has the executor's   *)
(* thread run the TensorFlow Lite interpreters on it; what they find goes  *)
(* to the native pipeline.  initializeEngine, on the native-modules thread,*)
(* closes the interpreters and makes new ones.                             *)
(*                                                                         *)
(* The camera and the executor share the buffer without a lock;            *)
(* INFERENCE_LOCK is taken by the executor's thread only and INIT_LOCK by  *)
(* initialize only, so neither keeps anybody from anything.  Frames are    *)
(* numbered; a reading of the buffer is the set of the frames whose pixels *)
(* are in it.                                                              *)
(***************************************************************************)
EXTENDS Integers

CONSTANTS
  MaxImages,  \* bound: frames the camera delivers once the engine runs
  MaxStarts,  \* bound: calls of initializeEngine
  Nothing     \* no frame is pending

VARIABLES
  engineInitialized,  \* IS_ENGINE_INITIALIZED
  pixels,             \* [buffer -> frames whose pixels are in it]
  cachedBuffer,       \* sCachedCopyBuffer, 0 for null
  pendingFrame,       \* PENDING_FRAME: a number, or Nothing
  pendingBuffer,      \* the buffer of that frame
  tasks,              \* runnables queued at INFERENCE_EXECUTOR
  producer,           \* the camera thread in processVisionCameraFrame
  runner,             \* the executor's thread in TFLiteFrameProcessorRunner
  interpreters,       \* [mesh, net -> open or not]
  starter,            \* the native-modules thread in initializeEngine
  starts              \* calls of initializeEngine so far

frameVars == <<pixels, cachedBuffer, pendingFrame, pendingBuffer, tasks, producer>>
startVars == <<engineInitialized, interpreters, starter, starts>>
bridgeVars == <<frameVars, runner, startVars>>

-----------------------------------------------------------------------------
Images == 1 .. MaxImages
Buffers == 1 .. 2       \* the second for frames larger than the first
Models == {"mesh", "net"}
AtEase == [pc |-> "idle", no |-> 0, buffer |-> 1, landmarks |-> {}, embedding |-> {}]

BridgeInit ==
  /\ engineInitialized = FALSE
  /\ pixels = [b \in Buffers |-> {}]
  /\ cachedBuffer = 0
  /\ pendingFrame = Nothing /\ pendingBuffer = 1
  /\ tasks = 0
  /\ producer = [pc |-> "idle", no |-> 0]
  /\ runner = AtEase
  /\ interpreters = [m \in Models |-> FALSE]
  /\ starter = "idle"
  /\ starts = 0

-----------------------------------------------------------------------------
(* processVisionCameraFrame.                                               *)

\* Nothing is done before the engine was initialized once.
Ready == engineInitialized /\ producer.pc = "idle" /\ producer.no < MaxImages

\* A frame that does not fit gets a new buffer; otherwise the copy begins over
\* whatever is in the old one.
BeginCopy(larger) ==
  /\ Ready
  /\ cachedBuffer' = IF cachedBuffer = 0 \/ larger
                     THEN IF cachedBuffer = 2 THEN 2 ELSE cachedBuffer + 1
                     ELSE cachedBuffer
  /\ producer' = [pc |-> "copying", no |-> producer.no + 1]
  /\ pixels' = [pixels EXCEPT ![cachedBuffer'] = @ \cup {producer.no + 1}]
  /\ UNCHANGED <<pendingFrame, pendingBuffer, tasks, runner, startVars>>

\* Mutant: the frame is posted before its copy is complete.
EndCopyLate ==
  /\ producer.pc = "copying"
  /\ producer' = [producer EXCEPT !.pc = "posting"]
  /\ UNCHANGED <<pixels, cachedBuffer, pendingFrame, pendingBuffer, tasks, runner, startVars>>

EndCopy ==
  /\ producer.pc = "copying"
  /\ pixels' = [pixels EXCEPT ![cachedBuffer] = {producer.no}]
  /\ producer' = [producer EXCEPT !.pc = "posting"]
  /\ UNCHANGED <<cachedBuffer, pendingFrame, pendingBuffer, tasks, runner, startVars>>

\* A frame that is still pending is replaced.
PostFrame ==
  /\ producer.pc = "posting"
  /\ pendingFrame' = producer.no /\ pendingBuffer' = cachedBuffer
  /\ producer' = [producer EXCEPT !.pc = "executing"]
  /\ UNCHANGED <<pixels, cachedBuffer, tasks, runner, startVars>>

\* Mutant: no task is queued while one is at work.
ExecuteUnlessBusy ==
  /\ producer.pc = "executing"
  /\ tasks' = IF runner.pc = "idle" THEN tasks + 1 ELSE tasks
  /\ producer' = [producer EXCEPT !.pc = "idle"]
  /\ UNCHANGED <<pixels, cachedBuffer, pendingFrame, pendingBuffer, runner, startVars>>

Execute ==
  /\ producer.pc = "executing"
  /\ tasks' = tasks + 1
  /\ producer' = [producer EXCEPT !.pc = "idle"]
  /\ UNCHANGED <<pixels, cachedBuffer, pendingFrame, pendingBuffer, runner, startVars>>

-----------------------------------------------------------------------------
(* processFromCopiedBuffer, on the executor's thread.  A RuntimeException  *)
(* ends it and nothing is submitted.                                       *)

Goes(pc) == runner' = [runner EXCEPT !.pc = pc]

TakeFrame ==
  /\ runner.pc = "idle" /\ tasks > 0
  /\ tasks' = tasks - 1
  /\ runner' = IF pendingFrame = Nothing THEN runner
               ELSE [AtEase EXCEPT !.pc = "check", !.no = pendingFrame,
                                   !.buffer = pendingBuffer]
  /\ pendingFrame' = Nothing
  /\ UNCHANGED <<pixels, cachedBuffer, pendingBuffer, producer, startVars>>

CheckInterpreter ==
  /\ runner.pc = "check"
  /\ runner' = IF interpreters["mesh"] THEN [runner EXCEPT !.pc = "detect"] ELSE AtEase
  /\ UNCHANGED <<frameVars, startVars>>

\* A frame without texture is submitted as zeros.
FrameHasEnoughTexture(enough) ==
  /\ runner.pc = "detect"
  /\ Goes(IF enough THEN "search" ELSE "submit")
  /\ UNCHANGED <<frameVars, startVars>>

\* The platform's detector tries four orientations of the buffer as it is now,
\* whatever texture was seen in it; without a candidate zeros are submitted.
FindFaceCandidate(faceLike) ==
  /\ runner.pc = "search"
  /\ runner' = IF faceLike THEN [runner EXCEPT !.pc = "mesh",
                                               !.landmarks = pixels[runner.buffer]]
               ELSE [runner EXCEPT !.pc = "submit"]
  /\ UNCHANGED <<frameVars, startVars>>

\* An interpreter's input is a copy of its own, whole or torn as the buffer is.
makeInputBuffer(b) == pixels[b]

\* A field that has become null throws; the pixels are copied to the input.
RunFaceMesh ==
  /\ runner.pc = "mesh"
  /\ runner' = IF interpreters["mesh"]
               THEN [runner EXCEPT !.pc = "meshRuns",
                                   !.landmarks = @ \cup makeInputBuffer(runner.buffer)]
               ELSE AtEase
  /\ UNCHANGED <<frameVars, startVars>>

\* A weak candidate without a face in it is submitted as zeros.
FaceMeshAnswers(facePresent) ==
  /\ runner.pc = "meshRuns"
  /\ runner' = IF facePresent THEN [runner EXCEPT !.pc = "embed"]
               ELSE [runner EXCEPT !.pc = "submit", !.landmarks = {}]
  /\ UNCHANGED <<frameVars, startVars>>

\* With no network the embedding is computed from the pixels themselves.
ChooseEmbedding ==
  /\ runner.pc = "embed"
  /\ Goes(IF interpreters["net"] THEN "net" ELSE "histogram")
  /\ UNCHANGED <<frameVars, startVars>>

RunMobileFaceNet ==
  /\ runner.pc = "net"
  /\ runner' = IF interpreters["net"]
               THEN [runner EXCEPT !.pc = "netRuns",
                                   !.embedding = makeInputBuffer(runner.buffer)]
               ELSE AtEase
  /\ UNCHANGED <<frameVars, startVars>>

\* A network whose output is too short counts as none.
MobileFaceNetAnswers(longEnough) ==
  /\ runner.pc = "netRuns"
  /\ Goes(IF longEnough THEN "submit" ELSE "histogram")
  /\ UNCHANGED <<frameVars, startVars>>

RunDeterministicEmbedding ==
  /\ runner.pc = "histogram"
  /\ runner' = [runner EXCEPT !.pc = "submit", !.embedding = pixels[runner.buffer]]
  /\ UNCHANGED <<frameVars, startVars>>

\* The detector or an interpreter throws, as one does that was closed meanwhile.
Throws ==
  /\ runner.pc \in {"search", "meshRuns", "netRuns"}
  /\ runner' = AtEase
  /\ UNCHANGED <<frameVars, startVars>>

\* nativeSubmitModelResult.
SubmitModelResult ==
  /\ runner.pc = "submit"
  /\ runner' = AtEase
  /\ UNCHANGED <<frameVars, startVars>>

-----------------------------------------------------------------------------
(* initializeEngine.                                                       *)

InitializeEngine ==
  /\ starter = "idle" /\ starts < MaxStarts
  /\ starter' = "closeMesh"
  /\ starts' = starts + 1
  /\ UNCHANGED <<frameVars, runner, engineInitialized, interpreters>>

Close(m, at, next) ==
  /\ starter = at
  /\ interpreters' = [interpreters EXCEPT ![m] = FALSE]
  /\ starter' = next
  /\ UNCHANGED <<frameVars, runner, engineInitialized, starts>>

\* A model that cannot be loaded leaves its field null.
Create(m, at, next, loads) ==
  /\ starter = at
  /\ interpreters' = [interpreters EXCEPT ![m] = loads]
  /\ starter' = next
  /\ UNCHANGED <<frameVars, runner, engineInitialized, starts>>

Initialize ==
  \/ Close("mesh", "closeMesh", "closeNet")
  \/ Close("net", "closeNet", "createMesh")
  \/ \E loads \in BOOLEAN :
       \/ Create("mesh", "createMesh", "createNet", loads)
       \/ Create("net", "createNet", "native", loads)

\* nativeInitialize may throw; the flag is never taken back.
NativeInitialize(succeeds) ==
  /\ starter = "native"
  /\ engineInitialized' = (engineInitialized \/ succeeds)
  /\ starter' = "idle"
  /\ UNCHANGED <<frameVars, runner, interpreters, starts>>

-----------------------------------------------------------------------------
ProducerStep ==
  \/ \E larger \in BOOLEAN : BeginCopy(larger)
  \/ EndCopy \/ PostFrame \/ Execute

RunnerStep ==
  \/ TakeFrame \/ CheckInterpreter \/ RunFaceMesh \/ ChooseEmbedding \/ RunMobileFaceNet
  \/ \E yes \in BOOLEAN :
       \/ FrameHasEnoughTexture(yes) \/ FindFaceCandidate(yes)
       \/ FaceMeshAnswers(yes) \/ MobileFaceNetAnswers(yes)
  \/ RunDeterministicEmbedding \/ Throws \/ SubmitModelResult

StarterStep ==
  \/ InitializeEngine \/ Initialize
  \/ \E succeeds \in BOOLEAN : NativeInitialize(succeeds)

BridgeNext == ProducerStep \/ RunnerStep \/ StarterStep

BridgeSpec == BridgeInit /\ [][BridgeNext]_bridgeVars

-----------------------------------------------------------------------------
BridgeTypeOK ==
  /\ engineInitialized \in BOOLEAN
  /\ pixels \in [Buffers -> SUBSET Images]
  /\ cachedBuffer \in 0 .. 2 /\ pendingBuffer \in Buffers
  /\ pendingFrame \in Images \cup {Nothing}
  /\ tasks \in 0 .. MaxImages
  /\ producer \in [pc : {"idle", "copying", "posting", "executing"}, no : 0 .. MaxImages]
  /\ runner \in [pc : {"idle", "check", "detect", "search", "mesh", "meshRuns",
                       "embed", "net", "netRuns", "histogram", "submit"},
                 no : 0 .. MaxImages, buffer : Buffers,
                 landmarks : SUBSET Images, embedding : SUBSET Images]
  /\ interpreters \in [Models -> BOOLEAN]
  /\ starter \in {"idle", "closeMesh", "closeNet", "createMesh", "createNet", "native"}
  /\ starts \in 0 .. MaxStarts

\* What is submitted under a frame's time was read from that frame or from the
\* ones the camera has begun to copy since, never from an earlier one: the
\* buffer is shared without a lock, so landmarks and embedding may be of
\* different frames, but of this one if no other came
\* (NativeBridge.java:530-539, TFLiteFrameProcessorRunner.java:343, :398).
PixelsOfTheFrame ==
  runner.landmarks \cup runner.embedding \subseteq runner.no .. producer.no

\* A pending frame has a task that will take it: it is never left in the mailbox,
\* though tasks run that find it empty (NativeBridge.java:539-549).
NoFrameStranded == pendingFrame # Nothing => tasks > 0 \/ producer.pc = "executing"
=============================================================================
