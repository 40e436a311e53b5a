------------------------------ MODULE FramePaths ------------------------------
(***************************************************************************)
(* The two ways of a camera frame to the place where liveness is decided:  *)
(* through the pooled buffers and the inference thread on iOS, through the *)
(* reused buffer and the executor on Android.  A build has one of them; the*)
(* other's threads stand still.                                            *)
(***************************************************************************)
EXTENDS FramePool

CONSTANTS MaxImages, MaxStarts

ASSUME BridgeAssumption == MaxImages \in Nat /\ MaxStarts \in Nat

VARIABLES
  platform, engineInitialized, pixels, cachedBuffer, pendingFrame, pendingBuffer,
  tasks, producer, runner, interpreters, starter, starts

bridge == <<engineInitialized, pixels, cachedBuffer, pendingFrame, pendingBuffer,
            tasks, producer, runner, interpreters, starter, starts>>

Bridge == INSTANCE AndroidBridge WITH Nothing <- Null

PathsInit == platform \in {"ios", "android"} /\ Init /\ Bridge!BridgeInit

PoolStep == platform = "ios" /\ Next /\ UNCHANGED <<platform, bridge>>
BridgeStep == platform = "android" /\ Bridge!BridgeNext /\ UNCHANGED <<platform, vars>>

PathsNext == PoolStep \/ BridgeStep

pathsVars == <<platform, vars, bridge>>

\* A thread of the pool's that can run does; nothing is asked of the camera.
PathsFairness ==
  /\ WF_pathsVars(platform = "ios" /\ InferenceStep /\ UNCHANGED <<platform, bridge>>)
  /\ \A c \in Cameras :
       WF_pathsVars(/\ platform = "ios" /\ camera[c].pc # "idle"
                    /\ CameraStep(c) /\ UNCHANGED <<platform, bridge>>)

PathsSpec == PathsInit /\ [][PathsNext]_pathsVars /\ PathsFairness

-----------------------------------------------------------------------------
PathsTypeOK == platform \in {"ios", "android"} /\ TypeOK /\ Bridge!BridgeTypeOK

\* AndroidBridge.PixelsOfTheFrame (NativeBridge.java:533).
PixelsOfTheFrame == Bridge!PixelsOfTheFrame

\* AndroidBridge.NoFrameStranded (NativeBridge.java:539).
NoFrameStranded == Bridge!NoFrameStranded
=============================================================================
