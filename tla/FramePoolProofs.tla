--------------------------- MODULE FramePoolProofs ---------------------------
(***************************************************************************)
(* OneOwner and WholeFrames of FramePool for every number of cameras and   *)
(* every capacity PoolAssumption allows, and the same for FramePaths with  *)
(* what its Android way promises.                                          *)
(*                                                                         *)
(* OneOwner speaks of sets of slots; Owned says the same slot by slot,     *)
(* which is what one step of one thread disturbs.  WholeFrames alone is    *)
(* not inductive: what a camera has filled has to stay whole from Fill     *)
(* through Post and the mailbox to the read, which is WholeWhenPosted, and *)
(* that in turn needs the owner: only he writes a buffer, but for a late   *)
(* Wipe, which leaves its mark.  The bounds of the counts need the balance *)
(* of the frames, Flow, and what the executor's thread submits needs what  *)
(* is in the buffers it is going to read, Pictures.                        *)
(***************************************************************************)
EXTENDS FramePaths, WellFoundedInduction, FiniteSetTheorems, TLAPS

-----------------------------------------------------------------------------
LEMMA SlotFacts == capacity \in Nat /\ capacity > 1 /\ Null \notin Slots
<1>1. Cardinality(Cameras) \in Nat
  BY PoolAssumption, FS_CardinalityType
<1> QED BY <1>1, PoolAssumption DEF Slots

\* Acquire's CHOOSE has a witness: the distances from nextIndex are natural
\* numbers and have a least one.
LEMMA ClaimedIsFree ==
  ASSUME nextIndex \in Slots, Free # {}
  PROVE  Claimed \in Free
<1> DEFINE Behind(s) == (s - nextIndex) % capacity
           T == {Behind(s) : s \in Free}
<1>1. \A s \in Free : Behind(s) \in Nat
  BY SlotFacts DEF Free, Slots
<1>2. T \subseteq Nat /\ T # {}
  BY <1>1
<1> HIDE DEF Behind
<1>3. PICK x \in T : \A y \in T : ~ (<<y, x>> \in OpToRel(<, Nat))
  BY <1>2, WFMin, NatLessThanWellFounded
<1>4. \A y \in T : x <= y
  <2> SUFFICES ASSUME NEW y \in T, y < x PROVE FALSE
    BY <1>2
  <2>1. <<y, x>> \in Nat \X Nat
    BY <1>2
  <2>2. <<y, x>> \in OpToRel(<, Nat)
    BY <2>1, Zenon DEF OpToRel
  <2> QED BY <1>3, <2>2
<1>5. PICK s \in Free : \A f \in Free : Behind(s) <= Behind(f)
  BY <1>4
<1> QED BY <1>5 DEF Claimed, Behind

-----------------------------------------------------------------------------
Frames == [Slots -> [refs : 0 .. 1, described : BOOLEAN, copied : BOOLEAN]]

\* The slots are numbers and whoever is to use one has one.
Types ==
  /\ frames \in Frames
  /\ nextIndex \in Slots
  /\ mailbox \in Slots \cup {Null}
  /\ camera \in [Cameras -> [pc : CameraSteps, slot : Slots \cup {Null}]]
  /\ inference \in [pc : InferenceSteps, slot : Slots \cup {Null}, whole : BOOLEAN]

InHand ==
  /\ \A c \in Cameras :
       camera[c].pc \in {"fill", "post", "release", "wipe"} => camera[c].slot \in Slots
  /\ inference.pc \in {"flag", "read", "work", "release", "wipe"} => inference.slot \in Slots

\* Who answers for a slot, and OneOwner said slot by slot.
Holds(c, s) == camera[c].pc \in {"fill", "post", "release"} /\ camera[c].slot = s
Works(s) == inference.pc \in {"flag", "read", "work", "release"} /\ inference.slot = s

Owned ==
  /\ \A s \in Slots : frames[s].refs = 1 <=>
       mailbox = s \/ Works(s) \/ \E c \in Cameras : Holds(c, s)
  /\ \A s \in Slots : ~(mailbox = s /\ Works(s))
  /\ \A c \in Cameras, s \in Slots : Holds(c, s) => mailbox # s /\ ~Works(s)
  /\ \A c, d \in Cameras, s \in Slots : Holds(c, s) /\ Holds(d, s) => c = d

\* What waits to be read is whole, but for a late Release.
Whole(s) == (frames[s].described /\ frames[s].copied) \/ s \in wiped

WholeWhenPosted ==
  /\ \A c \in Cameras : camera[c].pc = "post" => Whole(camera[c].slot)
  /\ mailbox # Null => Whole(mailbox)
  /\ inference.pc \in {"flag", "read"} => Whole(inference.slot)

Inv == Types /\ InHand /\ Owned /\ WholeWhenPosted /\ WholeFrames

-----------------------------------------------------------------------------
(* What the updates of one slot and of one thread leave as it is.          *)

LEMMA SlotAcquired ==
  ASSUME Types, NEW s \in Slots,
         frames' = [frames EXCEPT ![s].refs = 1, ![s].copied = FALSE]
  PROVE  /\ frames' \in Frames /\ frames'[s].refs = 1
         /\ \A q \in Slots \ {s} : frames'[q] = frames[q]
<1>1. frames[s] \in [refs : 0 .. 1, described : BOOLEAN, copied : BOOLEAN]
  BY DEF Types, Frames
<1>2. PICK r : r = [frames[s] EXCEPT !.refs = 1, !.copied = FALSE]
  OBVIOUS
<1>3. r \in [refs : 0 .. 1, described : BOOLEAN, copied : BOOLEAN] /\ r.refs = 1
  <2>1. PICK f : f = [frames[s] EXCEPT !.refs = 1]
    OBVIOUS
  <2>2. f \in [refs : 0 .. 1, described : BOOLEAN, copied : BOOLEAN] /\ f.refs = 1
    BY <1>1, <2>1
  <2>3. r = [f EXCEPT !.copied = FALSE]
    BY <1>2, <2>1
  <2> QED BY <2>2, <2>3
<1>4. frames' = [frames EXCEPT ![s] = r]
  BY <1>2 DEF Types, Frames
<1> QED BY <1>3, <1>4 DEF Types, Frames

LEMMA SlotFilled ==
  ASSUME Types, NEW s \in Slots,
         frames' = [frames EXCEPT ![s].described = TRUE, ![s].copied = TRUE]
  PROVE  /\ frames' \in Frames /\ frames'[s].refs = frames[s].refs
         /\ frames'[s].described /\ frames'[s].copied
         /\ \A q \in Slots \ {s} : frames'[q] = frames[q]
  BY DEF Types, Frames

LEMMA CameraMoves ==
  ASSUME Types, NEW c \in Cameras, NEW p \in CameraSteps, NEW x \in Slots \cup {Null},
         camera' = [camera EXCEPT ![c] = [pc |-> p, slot |-> x]]
  PROVE  /\ camera' \in [Cameras -> [pc : CameraSteps, slot : Slots \cup {Null}]]
         /\ camera'[c].pc = p /\ camera'[c].slot = x
         /\ \A d \in Cameras \ {c} : camera'[d] = camera[d]
  BY DEF Types

LEMMA CameraGoesOn ==
  ASSUME Types, NEW c \in Cameras, NEW p \in CameraSteps,
         camera' = [camera EXCEPT ![c].pc = p]
  PROVE  /\ camera' \in [Cameras -> [pc : CameraSteps, slot : Slots \cup {Null}]]
         /\ camera'[c].pc = p /\ camera'[c].slot = camera[c].slot
         /\ \A d \in Cameras \ {c} : camera'[d] = camera[d]
  BY DEF Types

LEMMA OwnedMeansOneOwner ==
  ASSUME Types, InHand, Owned
  PROVE  OneOwner
<1>1. \A s \in Slots : s \in InMailbox <=> mailbox = s
  BY SlotFacts DEF InMailbox
<1>2. \A s : s \in HeldByInference <=> Works(s)
  BY DEF HeldByInference, Works
<1>3. \A c \in Cameras : \A s : s \in HeldByCamera(c) <=> Holds(c, s)
  BY DEF HeldByCamera, Holds
<1>4. /\ InMailbox \subseteq Slots /\ HeldByInference \subseteq Slots
      /\ \A c \in Cameras : HeldByCamera(c) \subseteq Slots
  BY DEF InMailbox, HeldByInference, HeldByCamera, Types, InHand
<1> QED BY <1>1, <1>2, <1>3, <1>4, ZenonT(60) DEF OneOwner, Owned

LEMMA TakenDown ==
  ASSUME Types, NEW s \in Slots, TakeDown(s)
  PROVE  /\ frames' \in Frames /\ frames'[s].refs = 0
         /\ frames'[s].described = frames[s].described /\ frames'[s].copied = frames[s].copied
         /\ \A q \in Slots \ {s} : frames'[q] = frames[q]
<1>1. (IF frames[s].refs = 0 THEN 0 ELSE frames[s].refs - 1) = 0
  BY DEF Types, Frames
<1>2. frames' = [frames EXCEPT ![s].refs = 0]
  BY <1>1 DEF TakeDown, Types, Frames
<1> QED BY <1>2 DEF Types, Frames

LEMMA Wiped ==
  ASSUME Types, NEW s \in Slots, Wipe(s)
  PROVE  /\ frames' \in Frames /\ frames'[s].refs = frames[s].refs
         /\ frames'[s].copied = frames[s].copied
         /\ \A q \in Slots \ {s} : frames'[q] = frames[q]
         /\ wiped' = IF frames[s].refs = 0 THEN wiped ELSE wiped \cup {s}
<1>1. frames' = [frames EXCEPT ![s].described = FALSE]
  BY DEF Wipe
<1>2. wiped' = IF frames[s].refs = 0 THEN wiped ELSE wiped \cup {s}
  BY DEF Wipe
<1> QED BY <1>1, <1>2 DEF Types, Frames

-----------------------------------------------------------------------------
(* SubmitFrameCopy.                                                        *)

LEMMA InitInv == Init => Inv
<1> SUFFICES ASSUME Init PROVE Inv
  OBVIOUS
<1>1. Types /\ InHand
  BY SlotFacts
     DEF Init, Types, Frames, InHand, AtRest, Slots, CameraSteps, InferenceSteps
<1>2. Owned
  BY SlotFacts DEF Init, AtRest, Owned, Holds, Works
<1>3. WholeWhenPosted /\ WholeFrames
  BY DEF Init, AtRest, WholeWhenPosted, WholeFrames
<1> QED BY <1>1, <1>2, <1>3 DEF Inv

LEMMA OfferInv ==
  ASSUME Inv, NEW c \in Cameras, Offer(c)
  PROVE  Inv'
<1>1. Types /\ InHand /\ Owned /\ WholeWhenPosted /\ WholeFrames
  BY DEF Inv
<1>2. /\ UNCHANGED <<frames, nextIndex, mailbox, inference, wiped>>
      /\ \/ UNCHANGED camera
         \/ camera[c].pc = "idle" /\ camera' = [camera EXCEPT ![c].pc = "acquire"]
  BY DEF Offer
<1>3. \/ UNCHANGED camera
      \/ /\ camera[c].pc = "idle"
         /\ camera' \in [Cameras -> [pc : CameraSteps, slot : Slots \cup {Null}]]
         /\ camera'[c].pc = "acquire" /\ camera'[c].slot = camera[c].slot
         /\ \A d \in Cameras \ {c} : camera'[d] = camera[d]
  BY <1>1, <1>2, CameraGoesOn DEF CameraSteps
<1>4. Types'
  BY <1>1, <1>2, <1>3 DEF Types, InferenceSteps, CameraSteps
<1>5. InHand'
  BY <1>1, <1>2, <1>3 DEF Types, InHand
<1>6. Owned'
  BY <1>1, <1>2, <1>3 DEF Types, InHand, Owned, Holds, Works
<1>7. WholeWhenPosted'
  BY <1>1, <1>2, <1>3 DEF Types, InHand, Owned, Holds, Works, WholeWhenPosted, Whole
<1>8. WholeFrames'
  BY <1>1, <1>2, <1>3
     DEF Types, InHand, Owned, Holds, Works, WholeWhenPosted, Whole, WholeFrames
<1> QED BY <1>4, <1>5, <1>6, <1>7, <1>8 DEF Inv

\* Nothing is free and the frame is dropped.
LEMMA DroppedInv ==
  ASSUME Inv, NEW c \in Cameras, Acquire(c), Free = {}
  PROVE  Inv'
<1>1. Types /\ InHand /\ Owned /\ WholeWhenPosted /\ WholeFrames
  BY DEF Inv
<1>2. /\ UNCHANGED <<frames, nextIndex, mailbox, inference, wiped>>
      /\ camera[c].pc = "acquire"
      /\ camera' = [camera EXCEPT ![c] = [pc |-> "idle", slot |-> Null]]
  BY DEF Acquire, AtRest
<1>3. /\ camera' \in [Cameras -> [pc : CameraSteps, slot : Slots \cup {Null}]]
      /\ camera'[c].pc = "idle" /\ camera'[c].slot = Null
      /\ \A d \in Cameras \ {c} : camera'[d] = camera[d]
  BY <1>1, <1>2, CameraMoves DEF CameraSteps
<1>4. Types'
  BY <1>1, <1>2, <1>3 DEF Types, InferenceSteps, CameraSteps
<1>5. InHand'
  BY <1>1, <1>2, <1>3 DEF Types, InHand
<1>6. Owned'
  BY <1>1, <1>2, <1>3 DEF Types, InHand, Owned, Holds, Works
<1>7. WholeWhenPosted'
  BY <1>1, <1>2, <1>3 DEF Types, InHand, Owned, Holds, Works, WholeWhenPosted, Whole
<1>8. WholeFrames'
  BY <1>1, <1>2, <1>3
     DEF Types, InHand, Owned, Holds, Works, WholeWhenPosted, Whole, WholeFrames
<1> QED BY <1>4, <1>5, <1>6, <1>7, <1>8 DEF Inv

\* The claimed slot is nobody's.
LEMMA AcquiredInv ==
  ASSUME Inv, NEW c \in Cameras, NEW s \in Slots, s = Claimed, Acquire(c), Free # {}
  PROVE  Inv'
<1>1. Types /\ InHand /\ Owned /\ WholeWhenPosted /\ WholeFrames
  BY DEF Inv
<1>2. frames[s].refs = 0
  BY <1>1, ClaimedIsFree DEF Types, Free
<1>3. /\ UNCHANGED <<mailbox, inference, wiped>>
      /\ camera[c].pc = "acquire" /\ nextIndex' = (s + 1) % capacity
      /\ frames' = [frames EXCEPT ![s].refs = 1, ![s].copied = FALSE]
      /\ camera' = [camera EXCEPT ![c] = [pc |-> "fill", slot |-> s]]
  BY DEF Acquire
<1>4. nextIndex' \in Slots
  BY <1>3, SlotFacts DEF Slots
<1>5. /\ frames' \in Frames /\ frames'[s].refs = 1
      /\ \A q \in Slots \ {s} : frames'[q] = frames[q]
  BY <1>1, <1>3, SlotAcquired
<1>6. /\ camera' \in [Cameras -> [pc : CameraSteps, slot : Slots \cup {Null}]]
      /\ camera'[c].pc = "fill" /\ camera'[c].slot = s
      /\ \A d \in Cameras \ {c} : camera'[d] = camera[d]
  BY <1>1, <1>3, CameraMoves DEF CameraSteps
<1>7. /\ ~Works(s) /\ mailbox # s
      /\ \A d \in Cameras : ~Holds(d, s)
  BY <1>1, <1>2, <1>3, <1>4, <1>5, <1>6 DEF Owned
<1>8. /\ \A d \in Cameras \ {c}, q \in Slots : Holds(d, q)' <=> Holds(d, q)
      /\ \A q \in Slots : ~Holds(c, q) /\ (Holds(c, q)' <=> q = s)
  BY <1>1, <1>2, <1>3, <1>4, <1>5, <1>6 DEF Holds
<1>9. /\ mailbox' = mailbox /\ \A q \in Slots : Works(q)' <=> Works(q)
  BY <1>1, <1>2, <1>3, <1>4, <1>5, <1>6 DEF Works
<1>10. \A q \in Slots : frames'[q].refs = 1 <=> q = s \/ frames[q].refs = 1
  BY <1>1, <1>2, <1>3, <1>4, <1>5, <1>6 DEF Types
<1>11. Types'
  BY <1>1, <1>2, <1>3, <1>4, <1>5, <1>6 DEF Types, InferenceSteps, CameraSteps
<1>12. InHand'
  BY <1>1, <1>2, <1>3, <1>4, <1>5, <1>6 DEF Types, InHand
<1>13. Owned'
  BY <1>1, <1>7, <1>8, <1>9, <1>10 DEF Owned
<1>14. WholeWhenPosted'
  <2>1. \A q \in Slots \ {s} : Whole(q) => Whole(q)'
    BY <1>1, <1>2, <1>3, <1>4, <1>5, <1>6 DEF Whole
  <2>2. /\ \A d \in Cameras \ {c} : camera[d].pc = "post" => camera[d].slot \in Slots \ {s}
        /\ mailbox # s
        /\ inference.pc \in {"flag", "read"} => inference.slot \in Slots \ {s}
    BY <1>1, <1>7, <1>8, <1>9, <1>10 DEF InHand, Owned, Holds, Works
  <2> QED BY <1>1, <1>2, <1>3, <1>4, <1>5, <1>6, <2>1, <2>2
             DEF Types, WholeWhenPosted, Whole
<1>15. WholeFrames'
  BY <1>1, <1>2, <1>3, <1>4, <1>5, <1>6
     DEF Types, InHand, Owned, Holds, Works, WholeWhenPosted, Whole, WholeFrames
<1> QED BY <1>11, <1>12, <1>13, <1>14, <1>15 DEF Inv

LEMMA AcquireInv ==
  ASSUME Inv, NEW c \in Cameras, Acquire(c)
  PROVE  Inv'
<1>1. ASSUME Free # {} PROVE Claimed \in Slots
  BY <1>1, ClaimedIsFree DEF Inv, Types, Free
<1> QED BY <1>1, DroppedInv, AcquiredInv

LEMMA FillInv ==
  ASSUME Inv, NEW c \in Cameras, Fill(c), NEW s \in Slots, s = camera[c].slot
  PROVE  Inv'
<1>1. Types /\ InHand /\ Owned /\ WholeWhenPosted /\ WholeFrames
  BY DEF Inv
<1>2. /\ UNCHANGED <<nextIndex, mailbox, inference>> /\ wiped' = wiped \ {s}
      /\ camera[c].pc = "fill" /\ camera' = [camera EXCEPT ![c].pc = "post"]
      /\ frames' = [frames EXCEPT ![s].described = TRUE, ![s].copied = TRUE]
  BY DEF Fill
<1>3. /\ frames' \in Frames /\ frames'[s].refs = frames[s].refs
      /\ frames'[s].described /\ frames'[s].copied
      /\ \A q \in Slots \ {s} : frames'[q] = frames[q]
  BY <1>1, <1>2, SlotFilled
<1>4. /\ camera' \in [Cameras -> [pc : CameraSteps, slot : Slots \cup {Null}]]
      /\ camera'[c].pc = "post" /\ camera'[c].slot = s
      /\ \A d \in Cameras \ {c} : camera'[d] = camera[d]
  BY <1>1, <1>2, CameraGoesOn DEF CameraSteps
<1>5. Holds(c, s) /\ ~Works(s) /\ mailbox # s
  BY <1>1, <1>2, <1>3, <1>4 DEF Owned, Holds
<1>6. \A d \in Cameras, q \in Slots : Holds(d, q)' <=> Holds(d, q)
  BY <1>1, <1>2, <1>3, <1>4 DEF Holds
<1>7. /\ mailbox' = mailbox /\ \A q \in Slots : Works(q)' <=> Works(q)
  BY <1>1, <1>2, <1>3, <1>4 DEF Works
<1>8. \A q \in Slots : frames'[q].refs = frames[q].refs
  BY <1>1, <1>2, <1>3, <1>4 DEF Types
<1>9. Types'
  BY <1>1, <1>2, <1>3, <1>4 DEF Types, InferenceSteps, CameraSteps
<1>10. InHand'
  BY <1>1, <1>2, <1>3, <1>4 DEF Types, InHand
<1>11. Owned'
  BY <1>1, <1>5, <1>6, <1>7, <1>8 DEF Owned
<1>12. WholeWhenPosted'
  <2>1. \A q \in Slots \ {s} : Whole(q) => Whole(q)'
    BY <1>1, <1>2, <1>3, <1>4 DEF Whole
  <2>2. /\ \A d \in Cameras \ {c} : camera[d].pc = "post" => camera[d].slot \in Slots \ {s}
        /\ mailbox # s
        /\ inference.pc \in {"flag", "read"} => inference.slot \in Slots \ {s}
    BY <1>1, <1>5, <1>6, <1>7, <1>8 DEF InHand, Owned, Holds, Works
  <2> DEFINE Now(q) == (frames'[q].described /\ frames'[q].copied) \/ q \in wiped'
  <2>3. Now(s) /\ \A q \in Slots \ {s} : Whole(q) => Now(q)
    BY <1>3, <2>1 DEF Whole
  <2> HIDE DEF Now
  <2>4. ASSUME NEW d \in Cameras, camera'[d].pc = "post" PROVE Now(camera'[d].slot)
    <3>1. CASE d = c
      BY <1>4, <2>3, <3>1
    <3>2. CASE d # c
      BY <1>1, <1>4, <2>2, <2>3, <2>4, <3>2 DEF WholeWhenPosted
    <3> QED BY <3>1, <3>2
  <2>5. mailbox' # Null => Now(mailbox')
    BY <1>1, <1>2, <2>2, <2>3 DEF Types, WholeWhenPosted
  <2>6. inference'.pc \in {"flag", "read"} => Now(inference'.slot)
    BY <1>1, <1>2, <2>2, <2>3 DEF WholeWhenPosted
  <2> QED BY <2>4, <2>5, <2>6 DEF WholeWhenPosted, Whole, Now
<1>13. WholeFrames'
  BY <1>1, <1>2, <1>3, <1>4
     DEF Types, InHand, Owned, Holds, Works, WholeWhenPosted, Whole, WholeFrames
<1> QED BY <1>9, <1>10, <1>11, <1>12, <1>13 DEF Inv

LEMMA PostInv ==
  ASSUME Inv, NEW c \in Cameras, Post(c), NEW s \in Slots, s = camera[c].slot
  PROVE  Inv'
<1>1. Types /\ InHand /\ Owned /\ WholeWhenPosted /\ WholeFrames
  BY DEF Inv
<1>2. /\ UNCHANGED <<frames, nextIndex, inference, wiped>>
      /\ camera[c].pc = "post" /\ mailbox' = s
  BY DEF Post
<1> DEFINE p == IF mailbox = Null THEN "notify" ELSE "release"
<1>3. camera' = [camera EXCEPT ![c] = [pc |-> p, slot |-> mailbox]]
  BY DEF Post
<1>4. /\ camera' \in [Cameras -> [pc : CameraSteps, slot : Slots \cup {Null}]]
      /\ camera'[c].pc = p /\ camera'[c].slot = mailbox
      /\ \A d \in Cameras \ {c} : camera'[d] = camera[d]
  BY <1>1, <1>3, CameraMoves DEF CameraSteps, Types
<1>5. Holds(c, s) /\ ~Works(s) /\ mailbox # s
  BY <1>1, <1>2, <1>3, <1>4 DEF Owned, Holds
<1>6. /\ \A d \in Cameras \ {c}, q \in Slots : Holds(d, q)' <=> Holds(d, q)
      /\ \A q \in Slots : (Holds(c, q) <=> q = s) /\ (Holds(c, q)' <=> q = mailbox)
  BY <1>1, <1>2, <1>3, <1>4, SlotFacts DEF Holds, Types
<1>7. /\ mailbox' = s /\ frames' = frames
      /\ \A q \in Slots : Works(q)' <=> Works(q)
  BY <1>1, <1>2, <1>3, <1>4 DEF Works
<1>8. Types'
  BY <1>1, <1>2, <1>3, <1>4 DEF Types, InferenceSteps, CameraSteps
<1>9. InHand'
  BY <1>1, <1>2, <1>3, <1>4 DEF Types, InHand
<1>10. Owned'
  BY <1>1, <1>5, <1>6, <1>7 DEF Owned
<1>11. WholeWhenPosted'
  BY <1>1, <1>2, <1>3, <1>4
     DEF Types, InHand, Owned, Holds, Works, WholeWhenPosted, Whole
<1>12. WholeFrames'
  BY <1>1, <1>2, <1>3, <1>4
     DEF Types, InHand, Owned, Holds, Works, WholeWhenPosted, Whole, WholeFrames
<1> QED BY <1>8, <1>9, <1>10, <1>11, <1>12 DEF Inv

LEMMA ReleaseDisplacedInv ==
  ASSUME Inv, NEW c \in Cameras, ReleaseDisplaced(c), NEW s \in Slots, s = camera[c].slot
  PROVE  Inv'
<1>1. Types /\ InHand /\ Owned /\ WholeWhenPosted /\ WholeFrames
  BY DEF Inv
<1>2. /\ UNCHANGED <<nextIndex, mailbox, inference, wiped>> /\ TakeDown(s)
      /\ camera[c].pc = "release" /\ camera' = [camera EXCEPT ![c].pc = "wipe"]
  BY DEF ReleaseDisplaced
<1>3. /\ frames' \in Frames /\ frames'[s].refs = 0
      /\ frames'[s].described = frames[s].described /\ frames'[s].copied = frames[s].copied
      /\ \A q \in Slots \ {s} : frames'[q] = frames[q]
  BY <1>1, <1>2, TakenDown
<1>4. /\ camera' \in [Cameras -> [pc : CameraSteps, slot : Slots \cup {Null}]]
      /\ camera'[c].pc = "wipe" /\ camera'[c].slot = s
      /\ \A d \in Cameras \ {c} : camera'[d] = camera[d]
  BY <1>1, <1>2, CameraGoesOn DEF CameraSteps
<1>5. Types'
  BY <1>1, <1>2, <1>3, <1>4 DEF Types, InferenceSteps, CameraSteps
<1>6. InHand'
  BY <1>1, <1>2, <1>3, <1>4 DEF Types, InHand
<1>7. Owned'
  BY <1>1, <1>2, <1>3, <1>4 DEF Types, InHand, Owned, Holds, Works
<1>8. WholeWhenPosted'
  BY <1>1, <1>2, <1>3, <1>4
     DEF Types, InHand, Owned, Holds, Works, WholeWhenPosted, Whole
<1>9. WholeFrames'
  BY <1>1, <1>2, <1>3, <1>4
     DEF Types, InHand, Owned, Holds, Works, WholeWhenPosted, Whole, WholeFrames
<1> QED BY <1>5, <1>6, <1>7, <1>8, <1>9 DEF Inv

LEMMA WipeDisplacedInv ==
  ASSUME Inv, NEW c \in Cameras, WipeDisplaced(c), NEW s \in Slots, s = camera[c].slot
  PROVE  Inv'
<1>1. Types /\ InHand /\ Owned /\ WholeWhenPosted /\ WholeFrames
  BY DEF Inv
<1>2. /\ UNCHANGED <<nextIndex, mailbox, inference>> /\ Wipe(s)
      /\ camera[c].pc = "wipe"
      /\ camera' = [camera EXCEPT ![c] = [pc |-> "notify", slot |-> Null]]
  BY DEF WipeDisplaced
<1>3. /\ frames' \in Frames /\ frames'[s].refs = frames[s].refs
      /\ frames'[s].copied = frames[s].copied
      /\ \A q \in Slots \ {s} : frames'[q] = frames[q]
      /\ wiped' = IF frames[s].refs = 0 THEN wiped ELSE wiped \cup {s}
  BY <1>1, <1>2, Wiped
<1>4. /\ camera' \in [Cameras -> [pc : CameraSteps, slot : Slots \cup {Null}]]
      /\ camera'[c].pc = "notify" /\ camera'[c].slot = Null
      /\ \A d \in Cameras \ {c} : camera'[d] = camera[d]
  BY <1>1, <1>2, CameraMoves DEF CameraSteps
<1>5. Types'
  BY <1>1, <1>2, <1>3, <1>4 DEF Types, InferenceSteps, CameraSteps
<1>6. InHand'
  BY <1>1, <1>2, <1>3, <1>4 DEF Types, InHand
<1>7. Owned'
  BY <1>1, <1>2, <1>3, <1>4 DEF Types, InHand, Owned, Holds, Works
<1>8. WholeWhenPosted'
  BY <1>1, <1>2, <1>3, <1>4
     DEF Types, InHand, Owned, Holds, Works, WholeWhenPosted, Whole
<1>9. WholeFrames'
  BY <1>1, <1>2, <1>3, <1>4
     DEF Types, InHand, Owned, Holds, Works, WholeWhenPosted, Whole, WholeFrames
<1> QED BY <1>5, <1>6, <1>7, <1>8, <1>9 DEF Inv

LEMMA NotifyInv ==
  ASSUME Inv, NEW c \in Cameras, Notify(c)
  PROVE  Inv'
<1>1. Types /\ InHand /\ Owned /\ WholeWhenPosted /\ WholeFrames
  BY DEF Inv
<1>2. /\ UNCHANGED <<frames, nextIndex, mailbox, wiped>> /\ camera[c].pc = "notify"
      /\ camera' = [camera EXCEPT ![c] = [pc |-> "idle", slot |-> Null]]
      /\ inference' = [inference EXCEPT !.pc = IF @ = "asleep" THEN "check" ELSE @]
  BY DEF Notify, AtRest
<1>3. /\ camera' \in [Cameras -> [pc : CameraSteps, slot : Slots \cup {Null}]]
      /\ camera'[c].pc = "idle" /\ camera'[c].slot = Null
      /\ \A d \in Cameras \ {c} : camera'[d] = camera[d]
  BY <1>1, <1>2, CameraMoves DEF CameraSteps
<1>4. /\ inference' \in [pc : InferenceSteps, slot : Slots \cup {Null}, whole : BOOLEAN]
      /\ \/ inference'.pc = inference.pc
         \/ inference.pc = "asleep" /\ inference'.pc = "check"
      /\ inference'.slot = inference.slot /\ inference'.whole = inference.whole
  BY <1>1, <1>2 DEF Types, InferenceSteps
<1>5. Types'
  BY <1>1, <1>2, <1>3, <1>4 DEF Types, InferenceSteps, CameraSteps
<1>6. InHand'
  BY <1>1, <1>2, <1>3, <1>4 DEF Types, InHand
<1>7. Owned'
  BY <1>1, <1>2, <1>3, <1>4 DEF Types, InHand, Owned, Holds, Works
<1>8. WholeWhenPosted'
  BY <1>1, <1>2, <1>3, <1>4
     DEF Types, InHand, Owned, Holds, Works, WholeWhenPosted, Whole
<1>9. WholeFrames'
  BY <1>1, <1>2, <1>3, <1>4
     DEF Types, InHand, Owned, Holds, Works, WholeWhenPosted, Whole, WholeFrames
<1> QED BY <1>5, <1>6, <1>7, <1>8, <1>9 DEF Inv

-----------------------------------------------------------------------------
(* InferenceLoop.                                                          *)

Answers == {"flag", "read", "work", "release"}

LEMMA InferenceGoesOn ==
  ASSUME Types, NEW p \in InferenceSteps, inference' = [inference EXCEPT !.pc = p]
  PROVE  /\ inference' \in [pc : InferenceSteps, slot : Slots \cup {Null}, whole : BOOLEAN]
         /\ inference'.pc = p /\ inference'.slot = inference.slot
         /\ inference'.whole = inference.whole
  BY DEF Types

\* The thread goes on with what it has, or with nothing.
LEMMA QuietInv ==
  ASSUME Inv, NEW p \in InferenceSteps, inference' = [inference EXCEPT !.pc = p],
         UNCHANGED <<frames, nextIndex, mailbox, camera, wiped>>,
         p \in Answers <=> inference.pc \in Answers,
         p \in {"flag", "read"} => inference.pc \in {"flag", "read"},
         p = "work" => inference.pc = "work" \/ inference.whole,
         p = "wipe" => inference.pc = "wipe"
  PROVE  Inv'
<1>1. Types /\ InHand /\ Owned /\ WholeWhenPosted /\ WholeFrames
  BY DEF Inv
<1>2. /\ inference' \in [pc : InferenceSteps, slot : Slots \cup {Null}, whole : BOOLEAN]
      /\ inference'.pc = p /\ inference'.slot = inference.slot
      /\ inference'.whole = inference.whole
  BY <1>1, InferenceGoesOn
<1>3. Types'
  BY <1>1, <1>2 DEF Types, InferenceSteps, CameraSteps
<1>4. InHand'
  BY <1>1, <1>2 DEF Types, InHand, Answers
<1>5. Owned'
  BY <1>1, <1>2 DEF Types, InHand, Owned, Holds, Works, Answers
<1>6. WholeWhenPosted'
  BY <1>1, <1>2
     DEF Types, InHand, Owned, Holds, Works, Answers, WholeWhenPosted, Whole
<1>7. WholeFrames'
  BY <1>1, <1>2
     DEF Types, InHand, Owned, Holds, Works, Answers, WholeWhenPosted, Whole, WholeFrames
<1> QED BY <1>3, <1>4, <1>5, <1>6, <1>7 DEF Inv

LEMMA ExchangeInv ==
  ASSUME Inv, Exchange, NEW s \in Slots, mailbox = s
  PROVE  Inv'
<1>1. Types /\ InHand /\ Owned /\ WholeWhenPosted /\ WholeFrames
  BY DEF Inv
<1>2. /\ UNCHANGED <<frames, nextIndex, camera, wiped>>
      /\ inference.pc = "exchange" /\ mailbox' = Null
      /\ inference' = [inference EXCEPT !.pc = "flag", !.slot = s]
  BY SlotFacts DEF Exchange
<1>3. /\ inference' \in [pc : InferenceSteps, slot : Slots \cup {Null}, whole : BOOLEAN]
      /\ inference'.pc = "flag" /\ inference'.slot = s
  BY <1>1, <1>2 DEF Types, InferenceSteps
<1>4. \A c \in Cameras : ~Holds(c, s)
  BY <1>1, <1>2, <1>3 DEF Owned
<1>5. \A q \in Slots : ~Works(q) /\ (Works(q)' <=> q = s)
  BY <1>1, <1>2, <1>3 DEF Works
<1>6. /\ frames' = frames /\ \A q \in Slots : mailbox = q <=> q = s
      /\ \A q \in Slots : mailbox' # q
  BY <1>1, <1>2, <1>3, SlotFacts DEF Types
<1>7. \A c \in Cameras, q \in Slots : Holds(c, q)' <=> Holds(c, q)
  BY <1>1, <1>2, <1>3 DEF Holds
<1>8. Types'
  BY <1>1, <1>2, <1>3 DEF Types, InferenceSteps, CameraSteps
<1>9. InHand'
  BY <1>1, <1>2, <1>3 DEF Types, InHand
<1>10. Owned'
  BY <1>1, <1>4, <1>5, <1>6, <1>7 DEF Owned
<1>11. WholeWhenPosted'
  <2>1. (\A c \in Cameras : camera[c].pc = "post" => Whole(camera[c].slot))'
    BY <1>1, <1>2 DEF WholeWhenPosted, Whole
  <2>2. (mailbox # Null => Whole(mailbox))'
    BY <1>2
  <2>3. (inference.pc \in {"flag", "read"} => Whole(inference.slot))'
    <3>1. Whole(s)
      BY <1>1, SlotFacts DEF WholeWhenPosted
    <3> QED BY <1>2, <1>3, <3>1 DEF Whole
  <2> QED BY <2>1, <2>2, <2>3 DEF WholeWhenPosted
<1>12. WholeFrames'
  BY <1>1, <1>2, <1>3
     DEF Types, InHand, Owned, Holds, Works, WholeWhenPosted, Whole, WholeFrames
<1> QED BY <1>8, <1>9, <1>10, <1>11, <1>12 DEF Inv

LEMMA ReadFrameInv ==
  ASSUME Inv, ReadFrame, NEW s \in Slots, s = inference.slot
  PROVE  Inv'
<1>1. Types /\ InHand /\ Owned /\ WholeWhenPosted /\ WholeFrames
  BY DEF Inv
<1>2. /\ UNCHANGED <<frames, nextIndex, mailbox, camera, wiped>> /\ inference.pc = "read"
      /\ inference' = [inference EXCEPT !.pc = "work",
                        !.whole = frames[s].described /\ frames[s].copied]
  BY DEF ReadFrame
<1>3. /\ frames[s].described \in BOOLEAN /\ frames[s].copied \in BOOLEAN
  BY <1>1 DEF Types, Frames
<1>4. /\ inference' \in [pc : InferenceSteps, slot : Slots \cup {Null}, whole : BOOLEAN]
      /\ inference'.pc = "work" /\ inference'.slot = s
      /\ inference'.whole = (frames[s].described /\ frames[s].copied)
  BY <1>1, <1>2, <1>3 DEF Types, InferenceSteps
<1>5. Types'
  BY <1>1, <1>2, <1>3, <1>4 DEF Types, InferenceSteps, CameraSteps
<1>6. InHand'
  BY <1>1, <1>2, <1>3, <1>4 DEF Types, InHand
<1>7. Owned'
  BY <1>1, <1>2, <1>3, <1>4 DEF Types, InHand, Owned, Holds, Works
<1>8. WholeWhenPosted'
  BY <1>1, <1>2, <1>3, <1>4
     DEF Types, InHand, Owned, Holds, Works, WholeWhenPosted, Whole
<1>9. WholeFrames'
  BY <1>1, <1>2, <1>3, <1>4
     DEF Types, InHand, Owned, Holds, Works, WholeWhenPosted, Whole, WholeFrames
<1> QED BY <1>5, <1>6, <1>7, <1>8, <1>9 DEF Inv

LEMMA ReleaseProcessedInv ==
  ASSUME Inv, ReleaseProcessed, NEW s \in Slots, s = inference.slot
  PROVE  Inv'
<1>1. Types /\ InHand /\ Owned /\ WholeWhenPosted /\ WholeFrames
  BY DEF Inv
<1>2. /\ UNCHANGED <<nextIndex, mailbox, camera, wiped>> /\ TakeDown(s)
      /\ inference.pc = "release" /\ inference' = [inference EXCEPT !.pc = "wipe"]
  BY DEF ReleaseProcessed
<1>3. /\ frames' \in Frames /\ frames'[s].refs = 0
      /\ frames'[s].described = frames[s].described /\ frames'[s].copied = frames[s].copied
      /\ \A q \in Slots \ {s} : frames'[q] = frames[q]
  BY <1>1, <1>2, TakenDown
<1>4. /\ inference' \in [pc : InferenceSteps, slot : Slots \cup {Null}, whole : BOOLEAN]
      /\ inference'.pc = "wipe" /\ inference'.slot = s
  BY <1>1, <1>2, InferenceGoesOn DEF InferenceSteps
<1>5. Types'
  BY <1>1, <1>2, <1>3, <1>4 DEF Types, InferenceSteps, CameraSteps
<1>6. InHand'
  BY <1>1, <1>2, <1>3, <1>4 DEF Types, InHand
<1>7. Owned'
  BY <1>1, <1>2, <1>3, <1>4 DEF Types, InHand, Owned, Holds, Works
<1>8. WholeWhenPosted'
  BY <1>1, <1>2, <1>3, <1>4
     DEF Types, InHand, Owned, Holds, Works, WholeWhenPosted, Whole
<1>9. WholeFrames'
  BY <1>1, <1>2, <1>3, <1>4
     DEF Types, InHand, Owned, Holds, Works, WholeWhenPosted, Whole, WholeFrames
<1> QED BY <1>5, <1>6, <1>7, <1>8, <1>9 DEF Inv

LEMMA WipeProcessedInv ==
  ASSUME Inv, WipeProcessed, NEW s \in Slots, s = inference.slot
  PROVE  Inv'
<1>1. Types /\ InHand /\ Owned /\ WholeWhenPosted /\ WholeFrames
  BY DEF Inv
<1>2. /\ UNCHANGED <<nextIndex, mailbox, camera>> /\ Wipe(s)
      /\ inference.pc = "wipe" /\ inference' = [inference EXCEPT !.pc = "done", !.slot = Null]
  BY DEF WipeProcessed
<1>3. /\ frames' \in Frames /\ frames'[s].refs = frames[s].refs
      /\ frames'[s].copied = frames[s].copied
      /\ \A q \in Slots \ {s} : frames'[q] = frames[q]
      /\ wiped' = IF frames[s].refs = 0 THEN wiped ELSE wiped \cup {s}
  BY <1>1, <1>2, Wiped
<1>4. /\ inference' \in [pc : InferenceSteps, slot : Slots \cup {Null}, whole : BOOLEAN]
      /\ inference'.pc = "done"
  BY <1>1, <1>2 DEF Types, InferenceSteps
<1>5. Types'
  BY <1>1, <1>2, <1>3, <1>4 DEF Types, InferenceSteps, CameraSteps
<1>6. InHand'
  BY <1>1, <1>2, <1>3, <1>4 DEF Types, InHand
<1>7. Owned'
  BY <1>1, <1>2, <1>3, <1>4 DEF Types, InHand, Owned, Holds, Works
<1>8. WholeWhenPosted'
  BY <1>1, <1>2, <1>3, <1>4
     DEF Types, InHand, Owned, Holds, Works, WholeWhenPosted, Whole
<1>9. WholeFrames'
  BY <1>1, <1>2, <1>3, <1>4
     DEF Types, InHand, Owned, Holds, Works, WholeWhenPosted, Whole, WholeFrames
<1> QED BY <1>5, <1>6, <1>7, <1>8, <1>9 DEF Inv

LEMMA InferenceInv ==
  ASSUME Inv, InferenceStep
  PROVE  Inv'
<1>1. /\ inference.pc \in InferenceSteps
      /\ inference.pc \in Answers \cup {"wipe"} => inference.slot \in Slots
      /\ mailbox # Null => mailbox \in Slots
  BY DEF Inv, Types, InHand, Answers
<1>2. CASE Exchange /\ mailbox # Null
  BY <1>1, <1>2, ExchangeInv
<1>3. CASE Exchange /\ mailbox = Null
  <2> DEFINE p == IF running THEN "check" ELSE "joined"
  <2>1. /\ inference.pc = "exchange" /\ inference' = [inference EXCEPT !.pc = p]
        /\ UNCHANGED <<frames, nextIndex, mailbox, camera, wiped>>
    BY <1>3 DEF Exchange
  <2>2. p \in {"check", "joined"}
    OBVIOUS
  <2> HIDE DEF p
  <2> QED BY <2>1, <2>2, QuietInv DEF InferenceSteps, Answers
<1>4. CASE CheckPredicate
  <2> DEFINE p == IF ~running \/ mailbox # Null THEN "exchange" ELSE "drowsy"
  <2>1. /\ inference.pc = "check" /\ inference' = [inference EXCEPT !.pc = p]
        /\ UNCHANGED <<frames, nextIndex, mailbox, camera, wiped>>
    BY <1>4 DEF CheckPredicate
  <2>2. p \in {"exchange", "drowsy"}
    OBVIOUS
  <2> HIDE DEF p
  <2> QED BY <2>1, <2>2, QuietInv DEF InferenceSteps, Answers
<1>5. CASE FallAsleep \/ TimesOut
  BY <1>5, QuietInv DEF FallAsleep, TimesOut, InferenceSteps, Answers
<1>6. CASE SetProcessing
  BY <1>6, QuietInv DEF SetProcessing, InferenceSteps, Answers
<1>7. CASE ReadFrame
  BY <1>1, <1>7, ReadFrameInv DEF ReadFrame, Answers
<1>8. CASE Work
  BY <1>8, QuietInv DEF Work, InferenceSteps, Answers
<1>9. CASE ReleaseProcessed
  BY <1>1, <1>9, ReleaseProcessedInv DEF ReleaseProcessed, Answers
<1>10. CASE WipeProcessed
  BY <1>1, <1>10, WipeProcessedInv DEF WipeProcessed
<1>11. CASE ClearProcessing
  BY <1>11, QuietInv DEF ClearProcessing, InferenceSteps, Answers
<1> QED BY <1>2, <1>3, <1>4, <1>5, <1>6, <1>7, <1>8, <1>9, <1>10, <1>11
           DEF InferenceStep

LEMMA CameraInv ==
  ASSUME Inv, NEW c \in Cameras, CameraStep(c)
  PROVE  Inv'
<1>1. camera[c].pc \in {"fill", "post", "release", "wipe"} => camera[c].slot \in Slots
  BY DEF Inv, InHand
<1>2. CASE Offer(c) \/ Acquire(c) \/ Notify(c)
  BY <1>2, OfferInv, AcquireInv, NotifyInv
<1>3. CASE Fill(c)
  BY <1>1, <1>3, FillInv DEF Fill
<1>4. CASE Post(c)
  BY <1>1, <1>4, PostInv DEF Post
<1>5. CASE ReleaseDisplaced(c)
  BY <1>1, <1>5, ReleaseDisplacedInv DEF ReleaseDisplaced
<1>6. CASE WipeDisplaced(c)
  BY <1>1, <1>6, WipeDisplacedInv DEF WipeDisplaced
<1> QED BY <1>2, <1>3, <1>4, <1>5, <1>6 DEF CameraStep

LEMMA DestroyInv == ASSUME Inv, Destroy PROVE Inv'
<1> DEFINE p == IF inference.pc = "asleep" THEN "check" ELSE inference.pc
<1>1. /\ inference' = [inference EXCEPT !.pc = p]
      /\ UNCHANGED <<frames, nextIndex, mailbox, camera, wiped>>
  BY DEF Destroy
<1>2. /\ p \in InferenceSteps
      /\ p = inference.pc \/ (inference.pc = "asleep" /\ p = "check")
  BY DEF Inv, Types, InferenceSteps
<1>3. p = "work" => inference.pc = "work"
  BY <1>2
<1> HIDE DEF p
<1> QED BY <1>1, <1>2, <1>3, QuietInv DEF Answers

LEMMA NextInv == Inv /\ [Next]_vars => Inv'
<1> SUFFICES ASSUME Inv, [Next]_vars PROVE Inv'
  OBVIOUS
<1>1. CASE UNCHANGED vars
  <2>1. Types' /\ InHand'
    BY <1>1 DEF Inv, vars, Types, InHand
  <2>2. Owned'
    BY <1>1 DEF Inv, vars, Owned, Holds, Works
  <2>3. WholeWhenPosted' /\ WholeFrames'
    BY <1>1 DEF Inv, vars, WholeWhenPosted, Whole, WholeFrames
  <2> QED BY <2>1, <2>2, <2>3 DEF Inv
<1> QED BY <1>1, CameraInv, InferenceInv, DestroyInv DEF Next

-----------------------------------------------------------------------------
(* Every frame that is offered is dropped, replaced, processed or under    *)
(* way, so no count exceeds the frames offered.                            *)

CountTypes ==
  /\ counts \in [offered : 0 .. MaxFrames, dropped : 0 .. MaxFrames,
                 replaced : 0 .. MaxFrames, processed : 0 .. MaxFrames]
  /\ isProcessing \in BOOLEAN /\ running \in BOOLEAN
  /\ wiped \subseteq Slots

Carries(c) == camera[c].pc \in {"acquire", "fill", "post"}
Carrying == {c \in Cameras : Carries(c)}
Posted == IF mailbox = Null THEN 0 ELSE 1
AtWork == IF inference.pc \in {"flag", "read", "work"} THEN 1 ELSE 0

Flow ==
  counts.offered = counts.dropped + counts.replaced + counts.processed
                     + Cardinality(Carrying) + Posted + AtWork

LEMMA CarryingIs ==
  /\ IsFiniteSet(Carrying) /\ Cardinality(Carrying) \in Nat
  /\ \A c \in Cameras :
       /\ c \notin Carrying => Cardinality(Carrying \cup {c}) = Cardinality(Carrying) + 1
       /\ c \in Carrying => Cardinality(Carrying \ {c}) = Cardinality(Carrying) - 1
<1>1. IsFiniteSet(Carrying)
  BY PoolAssumption, FS_Subset DEF Carrying
<1> QED BY <1>1, FS_CardinalityType, FS_AddElement, FS_RemoveElement

\* One camera takes up a frame, gives it away, or neither.
LEMMA CarryingMoves ==
  ASSUME NEW c \in Cameras, \A d \in Cameras \ {c} : camera'[d] = camera[d]
  PROVE  /\ Cardinality(Carrying)' \in Nat
         /\ (Carries(c)' <=> Carries(c)) => Cardinality(Carrying)' = Cardinality(Carrying)
         /\ ~Carries(c) /\ Carries(c)' => Cardinality(Carrying)' = Cardinality(Carrying) + 1
         /\ Carries(c) /\ ~Carries(c)' => Cardinality(Carrying)' = Cardinality(Carrying) - 1
<1>0. IsFiniteSet(Carrying')
  BY PoolAssumption, FS_Subset DEF Carrying
<1>1. (Carries(c)' <=> Carries(c)) => Carrying' = Carrying
  BY DEF Carrying, Carries
<1>2. ~Carries(c) /\ Carries(c)' => Carrying' = Carrying \cup {c} /\ c \notin Carrying
  BY DEF Carrying, Carries
<1>3. Carries(c) /\ ~Carries(c)' => Carrying' = Carrying \ {c} /\ c \in Carrying
  BY DEF Carrying, Carries
<1>4. Cardinality(Carrying') \in Nat
  BY <1>0, FS_CardinalityType
<1> QED BY <1>1, <1>2, <1>3, <1>4, CarryingIs

LEMMA CountInit == Init => CountTypes /\ Flow
<1> SUFFICES ASSUME Init PROVE CountTypes /\ Flow
  OBVIOUS
<1>1. Carrying = {}
  BY DEF Init, AtRest, Carrying, Carries
<1>2. Cardinality(Carrying) = 0
  BY <1>1, FS_EmptySet
<1>3. CountTypes
  <2>1. 0 \in 0 .. MaxFrames
    BY PoolAssumption
  <2> QED BY <2>1 DEF Init, CountTypes
<1>4. /\ counts.offered = 0 /\ counts.dropped = 0 /\ counts.replaced = 0
      /\ counts.processed = 0 /\ Posted = 0 /\ AtWork = 0
  BY DEF Init, Posted, AtWork
<1> QED BY <1>2, <1>3, <1>4 DEF Flow

\* If what comes in or goes under way is what is offered or done, the counts
\* stay within what is offered.
LEMMA FlowOn ==
  ASSUME CountTypes, Flow,
         NEW o \in 0 .. 1, NEW d \in 0 .. 1, NEW r \in 0 .. 1, NEW p \in 0 .. 1,
         counts' = [offered |-> counts.offered + o, dropped |-> counts.dropped + d,
                    replaced |-> counts.replaced + r, processed |-> counts.processed + p],
         counts.offered + o <= MaxFrames,
         isProcessing' \in BOOLEAN, running' \in BOOLEAN, wiped' \in SUBSET Slots,
         Cardinality(Carrying)' + Posted' + AtWork'
           = Cardinality(Carrying) + Posted + AtWork + o - d - r - p,
         Cardinality(Carrying)' \in Nat
  PROVE  CountTypes' /\ Flow'
<1>1. /\ counts.offered \in Nat /\ counts.dropped \in Nat /\ counts.replaced \in Nat
      /\ counts.processed \in Nat /\ MaxFrames \in Nat
      /\ Cardinality(Carrying) \in Nat /\ Posted \in 0 .. 1 /\ AtWork \in 0 .. 1
      /\ Posted' \in 0 .. 1 /\ AtWork' \in 0 .. 1
  BY PoolAssumption, CarryingIs DEF CountTypes, Posted, AtWork
<1>2. /\ counts'.offered = counts.offered + o /\ counts'.dropped = counts.dropped + d
      /\ counts'.replaced = counts.replaced + r /\ counts'.processed = counts.processed + p
  OBVIOUS
<1>3. counts'.offered = counts'.dropped + counts'.replaced + counts'.processed
                          + Cardinality(Carrying)' + Posted' + AtWork'
  <2>1. counts.offered = counts.dropped + counts.replaced + counts.processed
                           + Cardinality(Carrying) + Posted + AtWork
    BY DEF Flow
  <2>2. PICK n, m, q, u, w, v \in Nat :
          /\ n = Cardinality(Carrying) /\ m = Cardinality(Carrying)'
          /\ q = Posted /\ u = Posted' /\ w = AtWork /\ v = AtWork'
    BY <1>1
  <2>3. m + u + v = n + q + w + o - d - r - p
    BY <2>2
  <2>4. counts.offered = counts.dropped + counts.replaced + counts.processed + n + q + w
    BY <2>1, <2>2
  <2>5. counts'.offered = counts'.dropped + counts'.replaced + counts'.processed + m + u + v
    BY <1>1, <1>2, <2>3, <2>4
  <2> QED BY <2>2, <2>5
<1>4. /\ counts'.offered \in 0 .. MaxFrames /\ counts'.dropped \in 0 .. MaxFrames
      /\ counts'.replaced \in 0 .. MaxFrames /\ counts'.processed \in 0 .. MaxFrames
  BY <1>1, <1>2, <1>3
<1>5. counts' \in [offered : 0 .. MaxFrames, dropped : 0 .. MaxFrames,
                   replaced : 0 .. MaxFrames, processed : 0 .. MaxFrames]
  BY <1>2, <1>4
<1> QED BY <1>3, <1>5 DEF CountTypes, Flow

LEMMA FlowStill ==
  ASSUME CountTypes, Flow, counts' = counts,
         isProcessing' \in BOOLEAN, running' \in BOOLEAN, wiped' \in SUBSET Slots,
         Cardinality(Carrying)' + Posted' + AtWork' = Cardinality(Carrying) + Posted + AtWork,
         Cardinality(Carrying)' \in Nat
  PROVE  CountTypes' /\ Flow'
<1>1. /\ counts.offered \in 0 .. MaxFrames /\ counts.dropped \in Nat /\ counts.replaced \in Nat
      /\ counts.processed \in Nat
  BY PoolAssumption DEF CountTypes
<1>2. counts' = [offered |-> counts.offered + 0, dropped |-> counts.dropped + 0,
                 replaced |-> counts.replaced + 0, processed |-> counts.processed + 0]
  BY <1>1 DEF CountTypes
<1>3. Cardinality(Carrying)' + Posted' + AtWork'
        = Cardinality(Carrying) + Posted + AtWork + 0 - 0 - 0 - 0
  BY CarryingIs DEF Posted, AtWork
<1> QED BY <1>1, <1>2, <1>3, FlowOn, PoolAssumption

LEMMA CountCamera ==
  ASSUME Inv, CountTypes, Flow, NEW c \in Cameras, CameraStep(c)
  PROVE  CountTypes' /\ Flow'
<1> DEFINE n == Cardinality(Carrying)
<1>1. /\ n \in Nat /\ Posted \in 0 .. 1 /\ AtWork \in 0 .. 1 /\ MaxFrames \in Nat
      /\ counts.offered \in 0 .. MaxFrames
      /\ counts.dropped \in Nat /\ counts.replaced \in Nat /\ counts.processed \in Nat
      /\ counts = [offered |-> counts.offered, dropped |-> counts.dropped,
                   replaced |-> counts.replaced, processed |-> counts.processed]
      /\ isProcessing \in BOOLEAN /\ running \in BOOLEAN /\ wiped \in SUBSET Slots
  BY PoolAssumption, CarryingIs DEF CountTypes, Posted, AtWork
<1>2. Types /\ camera[c].slot \in Slots \cup {Null} /\ Null \notin Slots
      /\ (camera[c].pc \in {"fill", "post", "release", "wipe"} => camera[c].slot \in Slots)
  BY SlotFacts DEF Inv, Types, InHand
<1>3. AtWork' = AtWork
  <2>1. inference'.pc \in {"flag", "read", "work"} <=> inference.pc \in {"flag", "read", "work"}
    <3>1. CASE Notify(c)
      BY <3>1 DEF Notify, Inv, Types
    <3> QED BY <3>1
               DEF CameraStep, Offer, Acquire, Fill, Post, ReleaseDisplaced, WipeDisplaced
  <2> QED BY <2>1 DEF AtWork
<1>4. /\ \A d \in Cameras \ {c} : camera'[d] = camera[d]
      /\ isProcessing' = isProcessing /\ running' = running
  BY DEF CameraStep, Offer, Acquire, Fill, Post, ReleaseDisplaced, WipeDisplaced, Notify,
     Inv, Types
<1>5. /\ n' \in Nat
      /\ (Carries(c)' <=> Carries(c)) => n' = n
      /\ ~Carries(c) /\ Carries(c)' => n' = n + 1
      /\ Carries(c) /\ ~Carries(c)' => n' = n - 1
  <2>1. \A d \in Cameras \ {c} : camera'[d] = camera[d]
    BY <1>4
  <2> QED BY <2>1, CarryingMoves
<1>6. /\ 0 \in 0 .. 1 /\ 1 \in 0 .. 1
      /\ \A o, d, r, p \in 0 .. 1 :
           /\ counts' = [offered |-> counts.offered + o, dropped |-> counts.dropped + d,
                         replaced |-> counts.replaced + r, processed |-> counts.processed + p]
           /\ counts.offered + o <= MaxFrames
           /\ wiped' \in SUBSET Slots
           /\ n' + Posted' + AtWork' = n + Posted + AtWork + o - d - r - p
           => CountTypes' /\ Flow'
  <2>1. isProcessing' \in BOOLEAN /\ running' \in BOOLEAN
    BY <1>1, <1>4
  <2> QED BY <1>5, <2>1, FlowOn DEF n
<1>7. /\ counts' = counts
      /\ wiped' \in SUBSET Slots
      /\ n' + Posted' = n + Posted
      => CountTypes' /\ Flow'
  <2>1. isProcessing' \in BOOLEAN /\ running' \in BOOLEAN
    BY <1>1, <1>4
  <2>2. n' + Posted' = n + Posted
        => Cardinality(Carrying)' + Posted' + AtWork' = Cardinality(Carrying) + Posted + AtWork
    BY <1>3 DEF n
  <2> QED BY <1>5, <2>1, <2>2, FlowStill DEF n
<1> HIDE DEF n
<1>8. ASSUME Offer(c), isProcessing PROVE CountTypes' /\ Flow'
  <2>1. /\ counts' = [counts EXCEPT !.offered = @ + 1, !.dropped = @ + 1]
        /\ counts.offered < MaxFrames /\ UNCHANGED <<camera, mailbox, wiped>>
    BY <1>8 DEF Offer
  <2>2. n' = n /\ Posted' = Posted
    BY <2>1 DEF n, Carrying, Carries, Posted
  <2>3. counts' = [offered |-> counts.offered + 1, dropped |-> counts.dropped + 1,
                   replaced |-> counts.replaced + 0, processed |-> counts.processed + 0]
    <3>1. PICK o, d, r, p \in Nat : counts = [offered |-> o, dropped |-> d,
                                              replaced |-> r, processed |-> p]
      BY <1>1
    <3>2. counts' = [offered |-> o + 1, dropped |-> d + 1, replaced |-> r, processed |-> p]
      BY <2>1, <3>1
    <3> QED BY <3>1, <3>2
  <2>4. n' + Posted' + AtWork' = n + Posted + AtWork + 1 - 1 - 0 - 0
    BY <1>1, <1>3, <2>2
  <2>5. counts.offered + 1 <= MaxFrames /\ wiped' \in SUBSET Slots
    BY <1>1, <2>1
  <2> QED BY Zenon, <1>6, <2>3, <2>4, <2>5
<1>9. ASSUME Offer(c), ~isProcessing PROVE CountTypes' /\ Flow'
  <2>1. /\ counts' = [counts EXCEPT !.offered = @ + 1] /\ counts.offered < MaxFrames
        /\ camera' = [camera EXCEPT ![c].pc = "acquire"] /\ camera[c].pc = "idle"
        /\ UNCHANGED <<mailbox, wiped>>
    BY <1>9 DEF Offer
  <2>2. n' = n + 1 /\ Posted' = Posted
    BY <1>2, <1>5, <2>1, CameraGoesOn DEF CameraSteps, Carries, Posted
  <2>3. counts' = [offered |-> counts.offered + 1, dropped |-> counts.dropped + 0,
                   replaced |-> counts.replaced + 0, processed |-> counts.processed + 0]
    BY <1>1, <2>1
  <2>4. n' + Posted' + AtWork' = n + Posted + AtWork + 1 - 0 - 0 - 0
    BY <1>1, <1>3, <2>2
  <2>5. counts.offered + 1 <= MaxFrames /\ wiped' \in SUBSET Slots
    BY <1>1, <2>1
  <2> QED BY Zenon, <1>6, <2>3, <2>4, <2>5
<1>10. ASSUME Acquire(c), Free = {} PROVE CountTypes' /\ Flow'
  <2>1. /\ counts' = [counts EXCEPT !.dropped = @ + 1]
        /\ camera' = [camera EXCEPT ![c] = AtRest] /\ camera[c].pc = "acquire"
        /\ UNCHANGED <<mailbox, wiped>>
    BY <1>10 DEF Acquire
  <2>2. n' = n - 1 /\ Posted' = Posted
    <3>1. camera'[c].pc = "idle"
      BY <1>2, <2>1 DEF AtRest, Types
    <3> QED BY <1>5, <2>1, <3>1 DEF Carries, Posted
  <2>3. counts' = [offered |-> counts.offered + 0, dropped |-> counts.dropped + 1,
                   replaced |-> counts.replaced + 0, processed |-> counts.processed + 0]
    BY <1>1, <2>1
  <2>4. n' + Posted' + AtWork' = n + Posted + AtWork + 0 - 1 - 0 - 0
    BY <1>1, <1>3, <1>5, <2>2
  <2>5. counts.offered + 0 <= MaxFrames /\ wiped' \in SUBSET Slots
    BY <1>1, <2>1
  <2> QED BY Zenon, <1>6, <2>3, <2>4, <2>5
<1>11. ASSUME Acquire(c), Free # {} PROVE CountTypes' /\ Flow'
  <2>1. /\ counts' = counts /\ camera[c].pc = "acquire"
        /\ camera' = [camera EXCEPT ![c] = [pc |-> "fill", slot |-> Claimed]]
        /\ UNCHANGED <<mailbox, wiped>>
    BY <1>11 DEF Acquire
  <2>2. n' = n /\ Posted' = Posted
    <3>1. camera'[c].pc = "fill"
      BY <1>2, <2>1 DEF Types
    <3> QED BY <1>5, <2>1, <3>1 DEF Carries, Posted
  <2> QED BY <1>1, <1>7, <2>1, <2>2
<1>12. ASSUME Fill(c) PROVE CountTypes' /\ Flow'
  <2>1. /\ counts' = counts /\ camera[c].pc = "fill"
        /\ camera' = [camera EXCEPT ![c].pc = "post"]
        /\ UNCHANGED mailbox /\ wiped' \in SUBSET Slots
    BY <1>1, <1>12 DEF Fill
  <2>2. n' = n /\ Posted' = Posted
    BY <1>2, <1>5, <2>1, CameraGoesOn DEF CameraSteps, Carries, Posted
  <2> QED BY <1>1, <1>7, <2>1, <2>2
<1>13. ASSUME Post(c), mailbox = Null PROVE CountTypes' /\ Flow'
  <2>1. /\ counts' = counts /\ camera[c].pc = "post"
        /\ camera' = [camera EXCEPT ![c] = [pc |-> "notify", slot |-> Null]]
        /\ UNCHANGED wiped /\ mailbox' = camera[c].slot
    BY <1>13 DEF Post
  <2>2. n' = n - 1 /\ Posted = 0 /\ Posted' = 1
    <3>1. camera'[c].pc = "notify"
      BY <1>2, <2>1 DEF Types
    <3>2. mailbox' # Null
      BY <1>2, <2>1
    <3> QED BY <1>5, <1>13, <2>1, <3>1, <3>2 DEF Carries, Posted
  <2>3. n' + Posted' = n + Posted
    BY <1>1, <1>5, <2>2
  <2> QED BY <1>1, <1>7, <2>1, <2>3
<1>14. ASSUME Post(c), mailbox # Null PROVE CountTypes' /\ Flow'
  <2>1. /\ counts' = [counts EXCEPT !.replaced = @ + 1] /\ camera[c].pc = "post"
        /\ camera' = [camera EXCEPT ![c] = [pc |-> "release", slot |-> mailbox]]
        /\ UNCHANGED wiped /\ mailbox' = camera[c].slot
    BY <1>14 DEF Post
  <2>2. n' = n - 1 /\ Posted = 1 /\ Posted' = 1
    <3>1. camera'[c].pc = "release"
      BY <1>2, <2>1 DEF Types
    <3>2. mailbox' # Null
      BY <1>2, <2>1
    <3> QED BY <1>5, <1>14, <2>1, <3>1, <3>2 DEF Carries, Posted
  <2>3. counts' = [offered |-> counts.offered + 0, dropped |-> counts.dropped + 0,
                   replaced |-> counts.replaced + 1, processed |-> counts.processed + 0]
    BY <1>1, <2>1
  <2>4. n' + Posted' + AtWork' = n + Posted + AtWork + 0 - 0 - 1 - 0
    BY <1>1, <1>3, <1>5, <2>2
  <2>5. counts.offered + 0 <= MaxFrames /\ wiped' \in SUBSET Slots
    BY <1>1, <2>1
  <2> QED BY Zenon, <1>6, <2>3, <2>4, <2>5
<1>15. ASSUME ReleaseDisplaced(c) \/ WipeDisplaced(c) \/ Notify(c) PROVE CountTypes' /\ Flow'
  <2>1. /\ counts' = counts /\ UNCHANGED mailbox /\ wiped' \in SUBSET Slots
        /\ ~Carries(c) /\ ~Carries(c)'
    <3>1. CASE ReleaseDisplaced(c)
      BY <1>1, <1>2, <3>1 DEF ReleaseDisplaced, Carries, Types
    <3>2. CASE WipeDisplaced(c)
      BY <1>1, <1>2, <3>2 DEF WipeDisplaced, Wipe, Carries, Types
    <3>3. CASE Notify(c)
      BY <1>1, <1>2, <3>3 DEF Notify, AtRest, Carries, Types
    <3> QED BY <1>15, <3>1, <3>2, <3>3
  <2>2. n' = n /\ Posted' = Posted
    BY <1>5, <2>1 DEF Posted
  <2> QED BY <1>1, <1>7, <2>1, <2>2
<1> QED
  BY <1>8, <1>9, <1>10, <1>11, <1>12, <1>13, <1>14, <1>15 DEF CameraStep

LEMMA CountInference ==
  ASSUME Inv, CountTypes, Flow, InferenceStep \/ Destroy \/ UNCHANGED vars
  PROVE  CountTypes' /\ Flow'
<1> DEFINE n == Cardinality(Carrying)
<1>1. /\ n \in Nat /\ Posted \in 0 .. 1 /\ AtWork \in 0 .. 1 /\ MaxFrames \in Nat
      /\ counts.offered \in 0 .. MaxFrames
      /\ counts.dropped \in Nat /\ counts.replaced \in Nat /\ counts.processed \in Nat
      /\ counts = [offered |-> counts.offered, dropped |-> counts.dropped,
                   replaced |-> counts.replaced, processed |-> counts.processed]
      /\ isProcessing \in BOOLEAN /\ running \in BOOLEAN /\ wiped \in SUBSET Slots
  BY PoolAssumption, CarryingIs DEF CountTypes, Posted, AtWork
<1>2. /\ inference = [pc |-> inference.pc, slot |-> inference.slot, whole |-> inference.whole]
      /\ (inference.pc \in {"flag", "read", "work", "release", "wipe"} => inference.slot \in Slots)
      /\ mailbox \in Slots \cup {Null} /\ Null \notin Slots
  BY SlotFacts DEF Inv, Types, InHand
<1>3. /\ camera' = camera /\ isProcessing' \in BOOLEAN /\ running' \in BOOLEAN
      /\ wiped' \in SUBSET Slots
  BY <1>1, <1>2
     DEF InferenceStep, Exchange, CheckPredicate, FallAsleep, TimesOut, SetProcessing,
     ReadFrame, Work, ReleaseProcessed, WipeProcessed, ClearProcessing, Wipe, Destroy, vars
<1>4. n' = n
  BY <1>3 DEF Carrying, Carries
<1> HIDE DEF n
<1>5. /\ counts' = counts
      /\ Posted' + AtWork' = Posted + AtWork
      => CountTypes' /\ Flow'
  <2>1. Posted' + AtWork' = Posted + AtWork
        => Cardinality(Carrying)' + Posted' + AtWork' = Cardinality(Carrying) + Posted + AtWork
    <3>1. Posted' \in 0 .. 1 /\ AtWork' \in 0 .. 1
      BY DEF Posted, AtWork
    <3> QED BY <1>1, <1>4, <3>1 DEF n
  <2>2. Cardinality(Carrying)' \in Nat
    BY <1>1, <1>4 DEF n
  <2> QED BY <1>3, <2>1, <2>2, FlowStill
<1>6. ASSUME Exchange PROVE CountTypes' /\ Flow'
  <2>1. CASE mailbox = Null
    <3>1. counts' = counts /\ mailbox' = mailbox /\ inference.pc = "exchange"
          /\ inference'.pc \in {"check", "joined"}
      BY <1>2, <1>6, <2>1 DEF Exchange
    <3> QED BY <1>1, <1>5, <3>1 DEF Posted, AtWork
  <2>2. CASE mailbox # Null
    <3>1. counts' = counts /\ mailbox' = Null /\ inference.pc = "exchange"
          /\ inference'.pc = "flag"
      BY <1>2, <1>6, <2>2 DEF Exchange
    <3> QED BY <1>1, <1>5, <2>2, <3>1 DEF Posted, AtWork
  <2> QED BY <2>1, <2>2
<1>7. ASSUME Work PROVE CountTypes' /\ Flow'
  <2>1. /\ counts' = [counts EXCEPT !.processed = @ + 1] /\ inference.pc = "work"
        /\ inference'.pc = "release" /\ mailbox' = mailbox
    BY <1>2, <1>7 DEF Work
  <2>2. Posted' = Posted /\ AtWork = 1 /\ AtWork' = 0
    BY <2>1 DEF Posted, AtWork
  <2>3. counts' = [offered |-> counts.offered + 0, dropped |-> counts.dropped + 0,
                   replaced |-> counts.replaced + 0, processed |-> counts.processed + 1]
    BY <1>1, <2>1
  <2>4. /\ Cardinality(Carrying)' + Posted' + AtWork'
             = Cardinality(Carrying) + Posted + AtWork + 0 - 0 - 0 - 1
        /\ Cardinality(Carrying)' \in Nat
    BY <1>1, <1>4, <2>2 DEF n
  <2>5. counts.offered + 0 <= MaxFrames /\ 0 \in 0 .. 1 /\ 1 \in 0 .. 1
    BY <1>1
  <2> QED BY <1>3, <2>3, <2>4, <2>5, FlowOn
<1>8. ASSUME CheckPredicate \/ FallAsleep \/ TimesOut \/ SetProcessing \/ ReadFrame
             \/ ReleaseProcessed \/ WipeProcessed \/ ClearProcessing \/ Destroy \/ UNCHANGED vars
      PROVE  CountTypes' /\ Flow'
  <2>1. /\ counts' = counts /\ mailbox' = mailbox
        /\ inference'.pc \in {"flag", "read", "work"} <=> inference.pc \in {"flag", "read", "work"}
    BY <1>2, <1>8 DEF CheckPredicate, FallAsleep, TimesOut, SetProcessing, ReadFrame,
       ReleaseProcessed, WipeProcessed, ClearProcessing, Destroy, vars
  <2> QED BY <1>5, <2>1 DEF Posted, AtWork
<1> QED BY <1>6, <1>7, <1>8 DEF InferenceStep

-----------------------------------------------------------------------------
(* Android: the frames are numbered in the order they come, and every      *)
(* buffer somebody is to read holds nothing older than his frame.          *)

Steps == {"idle", "check", "detect", "search", "mesh", "meshRuns", "embed", "net",
          "netRuns", "histogram", "submit"}
Runners == [pc : Steps, no : 0 .. MaxImages, buffer : Bridge!Buffers,
            landmarks : SUBSET Bridge!Images, embedding : SUBSET Bridge!Images]

\* Every frame copied is one task at most, and none is later than the last.
Numbered ==
  /\ producer.pc # "idle" => cachedBuffer # 0
  /\ tasks + (IF producer.pc = "idle" THEN 0 ELSE 1) <= producer.no
  /\ pendingFrame # Null => pendingFrame <= producer.no
  /\ runner.no <= producer.no

Pictures ==
  /\ producer.pc = "posting" => pixels[cachedBuffer] = {producer.no}
  /\ pendingFrame # Null => pixels[pendingBuffer] \subseteq pendingFrame .. producer.no
  /\ runner.pc # "idle" => pixels[runner.buffer] \subseteq runner.no .. producer.no

BridgeInv ==
  Bridge!BridgeTypeOK /\ Numbered /\ Pictures /\ NoFrameStranded /\ PixelsOfTheFrame

LEMMA BridgeTypes ==
  ASSUME BridgeInv
  PROVE  /\ MaxImages \in Nat /\ Null \notin Nat
         /\ pixels \in [Bridge!Buffers -> SUBSET Bridge!Images]
         /\ cachedBuffer \in 0 .. 2 /\ pendingBuffer \in Bridge!Buffers
         /\ pendingFrame \in Bridge!Images \cup {Null} /\ tasks \in 0 .. MaxImages
         /\ producer.pc \in {"idle", "copying", "posting", "executing"}
         /\ producer.no \in 0 .. MaxImages
         /\ producer = [pc |-> producer.pc, no |-> producer.no]
         /\ runner \in Runners
  BY PoolAssumption, BridgeAssumption DEF BridgeInv, Bridge!BridgeTypeOK, Runners, Steps

LEMMA BridgeBegins == Bridge!BridgeInit => BridgeInv
<1> SUFFICES ASSUME Bridge!BridgeInit PROVE BridgeInv
  OBVIOUS
<1>1. MaxImages \in Nat /\ MaxStarts \in Nat
  BY BridgeAssumption
<1>2. Bridge!BridgeTypeOK
  <2>1. 0 \in 0 .. MaxImages /\ 0 \in 0 .. MaxStarts
    BY <1>1
  <2>2. runner \in Runners
    BY <2>1 DEF Bridge!BridgeInit, Bridge!AtEase, Runners, Steps, Bridge!Buffers
  <2>3. producer \in [pc : {"idle", "copying", "posting", "executing"}, no : 0 .. MaxImages]
    BY <2>1 DEF Bridge!BridgeInit
  <2>4. /\ pixels \in [Bridge!Buffers -> SUBSET Bridge!Images]
        /\ interpreters \in [Bridge!Models -> BOOLEAN]
    BY DEF Bridge!BridgeInit
  <2>5. cachedBuffer \in 0 .. 2 /\ pendingBuffer \in Bridge!Buffers
    BY DEF Bridge!BridgeInit, Bridge!Buffers
  <2>6. /\ engineInitialized \in BOOLEAN /\ pendingFrame \in Bridge!Images \cup {Null}
        /\ tasks \in 0 .. MaxImages /\ starts \in 0 .. MaxStarts
        /\ starter \in {"idle", "closeMesh", "closeNet", "createMesh", "createNet", "native"}
    BY <2>1 DEF Bridge!BridgeInit
  <2> QED BY <2>2, <2>3, <2>4, <2>5, <2>6 DEF Bridge!BridgeTypeOK, Runners, Steps
<1> QED BY <1>2 DEF Bridge!BridgeInit, Bridge!AtEase, BridgeInv, Numbered, Pictures,
     NoFrameStranded, Bridge!NoFrameStranded, PixelsOfTheFrame, Bridge!PixelsOfTheFrame

\* The executor's thread goes on with its frame, and what it has read of its
\* buffer it keeps, or it is done with it.
LEMMA RunnerGoesOn ==
  ASSUME BridgeInv, UNCHANGED <<Bridge!frameVars, Bridge!startVars>>,
         \/ runner' = Bridge!AtEase
         \/ /\ runner.pc # "idle"
            /\ \E pc \in Steps \ {"idle"},
                  l \in {{}, runner.landmarks, pixels[runner.buffer],
                         runner.landmarks \cup pixels[runner.buffer]},
                  e \in {runner.embedding, pixels[runner.buffer]} :
                 runner' = [pc |-> pc, no |-> runner.no, buffer |-> runner.buffer,
                            landmarks |-> l, embedding |-> e]
  PROVE  BridgeInv'
<1>1. /\ UNCHANGED <<pixels, cachedBuffer, pendingFrame, pendingBuffer, tasks, producer>>
      /\ UNCHANGED <<engineInitialized, interpreters, starter, starts>>
  BY DEF Bridge!frameVars, Bridge!startVars
<1>2. /\ runner' \in Runners /\ runner'.no <= producer.no
      /\ runner'.pc # "idle" => runner.pc # "idle" /\ runner'.no = runner.no
                                /\ runner'.buffer = runner.buffer
      /\ runner'.landmarks \cup runner'.embedding \subseteq runner'.no .. producer.no
  <2>1. /\ pixels[runner.buffer] \subseteq Bridge!Images
        /\ runner.landmarks \cup runner.embedding \subseteq runner.no .. producer.no
        /\ (runner.pc # "idle" => pixels[runner.buffer] \subseteq runner.no .. producer.no)
        /\ runner.no <= producer.no
    BY BridgeTypes DEF BridgeInv, Pictures, Numbered, PixelsOfTheFrame,
       Bridge!PixelsOfTheFrame, Runners
  <2>2. CASE runner' = Bridge!AtEase
    BY <2>2, BridgeTypes DEF Bridge!AtEase, Runners, Steps, Bridge!Buffers
  <2>3. CASE runner' # Bridge!AtEase
    <3>1. PICK pc \in Steps \ {"idle"},
               l \in {{}, runner.landmarks, pixels[runner.buffer],
                      runner.landmarks \cup pixels[runner.buffer]},
               e \in {runner.embedding, pixels[runner.buffer]} :
            runner' = [pc |-> pc, no |-> runner.no, buffer |-> runner.buffer,
                       landmarks |-> l, embedding |-> e]
      BY <2>3
    <3>2. /\ l \subseteq Bridge!Images /\ e \subseteq Bridge!Images
          /\ l \cup e \subseteq runner.no .. producer.no /\ runner.pc # "idle"
      BY <2>1, <2>3, BridgeTypes DEF Runners
    <3>3. runner.no \in 0 .. MaxImages /\ runner.buffer \in Bridge!Buffers
      BY BridgeTypes DEF Runners
    <3> QED BY <2>1, <3>1, <3>2, <3>3 DEF Runners
  <2> QED BY <2>2, <2>3
<1>3. Bridge!BridgeTypeOK'
  BY <1>1, <1>2 DEF BridgeInv, Bridge!BridgeTypeOK, Runners, Steps
<1>4. Numbered' /\ NoFrameStranded'
  BY <1>1, <1>2 DEF BridgeInv, Numbered, NoFrameStranded, Bridge!NoFrameStranded
<1>5. Pictures' /\ PixelsOfTheFrame'
  BY <1>1, <1>2 DEF BridgeInv, Pictures, PixelsOfTheFrame, Bridge!PixelsOfTheFrame
<1> QED BY <1>3, <1>4, <1>5 DEF BridgeInv

LEMMA RunnerStays ==
  ASSUME BridgeInv, Bridge!RunnerStep, ~Bridge!TakeFrame
  PROVE  BridgeInv'
<1>1. /\ runner = [pc |-> runner.pc, no |-> runner.no, buffer |-> runner.buffer,
                  landmarks |-> runner.landmarks, embedding |-> runner.embedding]
      /\ runner.pc \in Steps
  BY BridgeTypes DEF Runners
<1>2. UNCHANGED <<Bridge!frameVars, Bridge!startVars>> /\ runner.pc # "idle"
  BY DEF Bridge!RunnerStep, Bridge!CheckInterpreter, Bridge!RunFaceMesh,
     Bridge!FrameHasEnoughTexture, Bridge!ChooseEmbedding, Bridge!Goes,
     Bridge!RunMobileFaceNet, Bridge!FindFaceCandidate, Bridge!FaceMeshAnswers,
     Bridge!MobileFaceNetAnswers, Bridge!RunDeterministicEmbedding, Bridge!Throws,
     Bridge!SubmitModelResult
<1> DEFINE Reads ==
             \E pc \in Steps \ {"idle"},
                l \in {{}, runner.landmarks, pixels[runner.buffer],
                       runner.landmarks \cup pixels[runner.buffer]},
                e \in {runner.embedding, pixels[runner.buffer]} :
               runner' = [pc |-> pc, no |-> runner.no, buffer |-> runner.buffer,
                          landmarks |-> l, embedding |-> e]
<1>3. runner' = Bridge!AtEase \/ Reads
  <2>1. CASE Bridge!CheckInterpreter
    <3>1. \/ runner' = Bridge!AtEase
          \/ runner' = [runner EXCEPT !.pc = "detect"]
      BY <2>1 DEF Bridge!CheckInterpreter
    <3> QED BY <1>1, <3>1 DEF Steps
  <2>2. CASE \E yes \in BOOLEAN : Bridge!FindFaceCandidate(yes)
    BY <1>1, <2>2 DEF Bridge!FindFaceCandidate, Steps
  <2>3. CASE Bridge!RunFaceMesh
    BY <1>1, <2>3 DEF Bridge!RunFaceMesh, Bridge!makeInputBuffer, Steps
  <2>4. CASE \E yes \in BOOLEAN : Bridge!FaceMeshAnswers(yes)
    BY <1>1, <2>4 DEF Bridge!FaceMeshAnswers, Steps
  <2>5. CASE Bridge!ChooseEmbedding
    BY <1>1, <2>5 DEF Bridge!ChooseEmbedding, Bridge!Goes, Steps
  <2>6. CASE Bridge!RunMobileFaceNet
    <3>1. \/ runner' = Bridge!AtEase
          \/ runner' = [runner EXCEPT !.pc = "netRuns", !.embedding = pixels[runner.buffer]]
      BY <2>6 DEF Bridge!RunMobileFaceNet, Bridge!makeInputBuffer
    <3> QED BY <1>1, <3>1 DEF Steps
  <2>7. CASE \E yes \in BOOLEAN : Bridge!MobileFaceNetAnswers(yes)
    BY <1>1, <2>7 DEF Bridge!MobileFaceNetAnswers, Bridge!Goes, Steps
  <2>8. CASE Bridge!RunDeterministicEmbedding
    BY <1>1, <2>8 DEF Bridge!RunDeterministicEmbedding, Steps
  <2>9. CASE Bridge!Throws \/ Bridge!SubmitModelResult
    BY <2>9 DEF Bridge!Throws, Bridge!SubmitModelResult
  <2>10. CASE \E yes \in BOOLEAN : Bridge!FrameHasEnoughTexture(yes)
    BY <1>1, <2>10 DEF Bridge!FrameHasEnoughTexture, Bridge!Goes, Steps
  <2> QED BY <2>1, <2>2, <2>3, <2>4, <2>5, <2>6, <2>7, <2>8, <2>9, <2>10
          DEF Bridge!RunnerStep
<1> QED BY <1>2, <1>3, RunnerGoesOn

\* The executor takes what is pending: only then no task need be left for it.
LEMMA TakesTheFrame ==
  ASSUME BridgeInv, Bridge!TakeFrame
  PROVE  BridgeInv'
<1>1. /\ UNCHANGED <<pixels, cachedBuffer, pendingBuffer, producer>>
      /\ UNCHANGED <<engineInitialized, interpreters, starter, starts>>
      /\ tasks > 0 /\ tasks' = tasks - 1 /\ pendingFrame' = Null
      /\ runner' = IF pendingFrame = Null THEN runner
                   ELSE [Bridge!AtEase EXCEPT !.pc = "check", !.no = pendingFrame,
                                              !.buffer = pendingBuffer]
  BY DEF Bridge!TakeFrame, Bridge!startVars
<1>2. /\ runner' \in Runners /\ runner'.no <= producer.no
      /\ runner'.pc # "idle" => pixels[runner'.buffer] \subseteq runner'.no .. producer.no
      /\ runner'.landmarks \cup runner'.embedding \subseteq runner'.no .. producer.no
  <2>1. CASE pendingFrame = Null
    BY <1>1, <2>1, BridgeTypes DEF BridgeInv, Numbered, Pictures, PixelsOfTheFrame,
       Bridge!PixelsOfTheFrame
  <2>2. CASE pendingFrame # Null
    <3>1. /\ pendingFrame \in 0 .. MaxImages /\ pendingFrame <= producer.no
          /\ pixels[pendingBuffer] \subseteq pendingFrame .. producer.no
          /\ pendingBuffer \in Bridge!Buffers
      BY <2>2, BridgeTypes DEF BridgeInv, Numbered, Pictures, Bridge!Images
    <3>2. runner' = [pc |-> "check", no |-> pendingFrame, buffer |-> pendingBuffer,
                     landmarks |-> {}, embedding |-> {}]
      BY <1>1, <2>2 DEF Bridge!AtEase
    <3> QED BY <3>1, <3>2 DEF Runners, Steps
  <2> QED BY <2>1, <2>2
<1>3. tasks' \in 0 .. MaxImages
  BY <1>1, BridgeTypes
<1>4. Bridge!BridgeTypeOK'
  BY <1>1, <1>2, <1>3 DEF BridgeInv, Bridge!BridgeTypeOK, Runners, Steps
<1>5. Numbered'
  BY <1>1, <1>2, BridgeTypes DEF BridgeInv, Numbered
<1>6. Pictures' /\ PixelsOfTheFrame' /\ NoFrameStranded'
  BY <1>1, <1>2 DEF BridgeInv, Pictures, PixelsOfTheFrame, Bridge!PixelsOfTheFrame,
     NoFrameStranded, Bridge!NoFrameStranded
<1> QED BY <1>4, <1>5, <1>6 DEF BridgeInv

LEMMA StarterKeeps ==
  ASSUME BridgeInv, Bridge!StarterStep
  PROVE  BridgeInv'
<1>1. UNCHANGED <<pixels, cachedBuffer, pendingFrame, pendingBuffer, tasks, producer, runner>>
  BY DEF Bridge!StarterStep, Bridge!InitializeEngine, Bridge!Initialize, Bridge!Close,
     Bridge!Create, Bridge!NativeInitialize, Bridge!frameVars
<1>2. /\ engineInitialized' \in BOOLEAN /\ interpreters' \in [Bridge!Models -> BOOLEAN]
      /\ starter' \in {"idle", "closeMesh", "closeNet", "createMesh", "createNet", "native"}
      /\ starts' \in 0 .. MaxStarts
  <2>1. /\ engineInitialized \in BOOLEAN /\ interpreters \in [Bridge!Models -> BOOLEAN]
        /\ starter \in {"idle", "closeMesh", "closeNet", "createMesh", "createNet", "native"}
        /\ starts \in 0 .. MaxStarts /\ MaxStarts \in Nat
    BY BridgeAssumption DEF BridgeInv, Bridge!BridgeTypeOK
  <2>2. CASE Bridge!InitializeEngine
    BY <2>1, <2>2 DEF Bridge!InitializeEngine
  <2>3. CASE Bridge!Initialize
    BY <2>1, <2>3 DEF Bridge!Initialize, Bridge!Close, Bridge!Create, Bridge!Models
  <2>4. CASE \E succeeds \in BOOLEAN : Bridge!NativeInitialize(succeeds)
    BY <2>1, <2>4 DEF Bridge!NativeInitialize
  <2> QED BY <2>2, <2>3, <2>4 DEF Bridge!StarterStep
<1>3. Bridge!BridgeTypeOK'
  BY <1>1, <1>2 DEF BridgeInv, Bridge!BridgeTypeOK
<1> QED BY <1>1, <1>3 DEF BridgeInv, Numbered, Pictures, PixelsOfTheFrame,
     Bridge!PixelsOfTheFrame, NoFrameStranded, Bridge!NoFrameStranded

LEMMA CopyBegins ==
  ASSUME BridgeInv, NEW larger \in BOOLEAN, Bridge!BeginCopy(larger)
  PROVE  BridgeInv'
<1> DEFINE no == producer.no
<1>1. /\ UNCHANGED <<pendingFrame, pendingBuffer, tasks, runner>>
      /\ UNCHANGED <<engineInitialized, interpreters, starter, starts>>
      /\ producer.pc = "idle" /\ no < MaxImages
      /\ producer' = [pc |-> "copying", no |-> no + 1]
      /\ cachedBuffer' \in Bridge!Buffers
  BY BridgeTypes DEF Bridge!BeginCopy, Bridge!Ready, Bridge!startVars, Bridge!Buffers
<1>2. PICK b \in Bridge!Buffers : b = cachedBuffer'
  BY <1>1
<1>3. pixels' = [pixels EXCEPT ![b] = @ \cup {no + 1}]
  BY <1>2 DEF Bridge!BeginCopy
<1>4. no \in 0 .. MaxImages /\ no + 1 \in Bridge!Images /\ MaxImages \in Nat
  BY <1>1, BridgeTypes DEF Bridge!Images
<1>5. /\ pixels' \in [Bridge!Buffers -> SUBSET Bridge!Images]
      /\ \A x \in Bridge!Buffers : pixels'[x] \subseteq pixels[x] \cup {no + 1}
  BY <1>3, <1>4, BridgeTypes
<1>6. \A x \in Bridge!Buffers, n \in 0 .. MaxImages :
        pixels[x] \subseteq n .. no /\ n <= no => pixels'[x] \subseteq n .. (no + 1)
  BY <1>4, <1>5
<1>7. /\ cachedBuffer' \in 0 .. 2 /\ cachedBuffer' # 0
      /\ producer' \in [pc : {"idle", "copying", "posting", "executing"}, no : 0 .. MaxImages]
      /\ producer'.pc = "copying" /\ producer'.no = no + 1
  BY <1>1, <1>4 DEF Bridge!Buffers, Bridge!Images
<1>8. Bridge!BridgeTypeOK'
  BY <1>1, <1>5, <1>7 DEF BridgeInv, Bridge!BridgeTypeOK
<1>9. Numbered'
  BY <1>1, <1>4, <1>7, BridgeTypes DEF BridgeInv, Numbered, Bridge!Images, Runners
<1>10. Pictures'
  <2>1. pendingFrame # Null => pixels'[pendingBuffer] \subseteq pendingFrame .. (no + 1)
    BY <1>6, BridgeTypes DEF BridgeInv, Numbered, Pictures, Bridge!Images
  <2>2. runner.pc # "idle" => pixels'[runner.buffer] \subseteq runner.no .. (no + 1)
    BY <1>6, BridgeTypes DEF BridgeInv, Numbered, Pictures, Runners
  <2> QED BY <1>1, <1>7, <2>1, <2>2 DEF Pictures
<1>11. PixelsOfTheFrame'
  <2>1. runner.no .. no \subseteq runner.no .. (no + 1)
    BY <1>4, BridgeTypes DEF Runners
  <2> QED BY <1>1, <1>7, <2>1 DEF BridgeInv, PixelsOfTheFrame, Bridge!PixelsOfTheFrame
<1>12. NoFrameStranded'
  BY <1>1, BridgeTypes DEF BridgeInv, NoFrameStranded, Bridge!NoFrameStranded
<1> QED BY <1>8, <1>9, <1>10, <1>11, <1>12 DEF BridgeInv

\* The copy leaves the one frame in the buffer, which is the youngest.
LEMMA CopyEnds ==
  ASSUME BridgeInv, Bridge!EndCopy
  PROVE  BridgeInv'
<1> DEFINE no == producer.no
<1>1. /\ UNCHANGED <<cachedBuffer, pendingFrame, pendingBuffer, tasks, runner>>
      /\ UNCHANGED <<engineInitialized, interpreters, starter, starts>>
      /\ producer.pc = "copying"
      /\ producer' = [producer EXCEPT !.pc = "posting"]
      /\ pixels' = [pixels EXCEPT ![cachedBuffer] = {no}]
  BY DEF Bridge!EndCopy, Bridge!startVars
<1>2. /\ cachedBuffer \in Bridge!Buffers /\ tasks + 1 <= no /\ no \in Bridge!Images
      /\ MaxImages \in Nat /\ producer' = [pc |-> "posting", no |-> no]
  BY <1>1, BridgeTypes DEF BridgeInv, Numbered, Bridge!Buffers, Bridge!Images
<1>3. /\ pixels' \in [Bridge!Buffers -> SUBSET Bridge!Images]
      /\ pixels'[cachedBuffer] = {no}
      /\ \A x \in Bridge!Buffers \ {cachedBuffer} : pixels'[x] = pixels[x]
  BY <1>1, <1>2, BridgeTypes
<1>4. \A x \in Bridge!Buffers, n \in 0 .. MaxImages :
        pixels[x] \subseteq n .. no /\ n <= no => pixels'[x] \subseteq n .. no
  BY <1>2, <1>3 DEF Bridge!Images
<1>5. Bridge!BridgeTypeOK'
  <2>1. producer' \in [pc : {"idle", "copying", "posting", "executing"}, no : 0 .. MaxImages]
    BY <1>2 DEF Bridge!Images
  <2> QED BY <1>1, <1>3, <2>1 DEF BridgeInv, Bridge!BridgeTypeOK
<1>6. Numbered'
  BY <1>1, <1>2 DEF BridgeInv, Numbered
<1>7. Pictures'
  <2>1. pendingFrame # Null => pixels'[pendingBuffer] \subseteq pendingFrame .. no
    BY <1>4, BridgeTypes DEF BridgeInv, Numbered, Pictures, Bridge!Images
  <2>2. runner.pc # "idle" => pixels'[runner.buffer] \subseteq runner.no .. no
    BY <1>4, BridgeTypes DEF BridgeInv, Numbered, Pictures, Runners
  <2> QED BY <1>1, <1>2, <1>3, <2>1, <2>2 DEF Pictures
<1>8. PixelsOfTheFrame' /\ NoFrameStranded'
  BY <1>1, <1>2 DEF BridgeInv, PixelsOfTheFrame, Bridge!PixelsOfTheFrame, NoFrameStranded,
     Bridge!NoFrameStranded
<1> QED BY <1>5, <1>6, <1>7, <1>8 DEF BridgeInv

LEMMA FrameIsPosted ==
  ASSUME BridgeInv, Bridge!PostFrame \/ Bridge!Execute
  PROVE  BridgeInv'
<1> DEFINE no == producer.no
<1>1. /\ UNCHANGED <<pixels, cachedBuffer, runner>>
      /\ UNCHANGED <<engineInitialized, interpreters, starter, starts>>
      /\ producer.pc # "idle" /\ producer' = [pc |-> producer'.pc, no |-> no]
  BY BridgeTypes DEF Bridge!PostFrame, Bridge!Execute, Bridge!startVars
<1>2. /\ cachedBuffer \in Bridge!Buffers /\ tasks + 1 <= no /\ no \in Bridge!Images
      /\ MaxImages \in Nat
  BY <1>1, BridgeTypes DEF BridgeInv, Numbered, Bridge!Buffers, Bridge!Images
<1>3. CASE Bridge!PostFrame
  <2>1. /\ pendingFrame' = no /\ pendingBuffer' = cachedBuffer /\ tasks' = tasks
        /\ producer.pc = "posting" /\ producer' = [pc |-> "executing", no |-> no]
    BY <1>1, <1>3, BridgeTypes DEF Bridge!PostFrame
  <2>2. pixels[cachedBuffer] = {no}
    BY <2>1 DEF BridgeInv, Pictures
  <2>3. Bridge!BridgeTypeOK'
    <3>1. producer' \in [pc : {"idle", "copying", "posting", "executing"}, no : 0 .. MaxImages]
      BY <1>2, <2>1 DEF Bridge!Images
    <3> QED BY <1>1, <1>2, <2>1, <3>1 DEF BridgeInv, Bridge!BridgeTypeOK
  <2>4. Numbered'
    BY <1>1, <1>2, <2>1 DEF BridgeInv, Numbered, Bridge!Images
  <2>5. Pictures' /\ PixelsOfTheFrame' /\ NoFrameStranded'
    BY <1>1, <1>2, <2>1, <2>2 DEF BridgeInv, Pictures, PixelsOfTheFrame, Bridge!Images,
       Bridge!PixelsOfTheFrame, NoFrameStranded, Bridge!NoFrameStranded
  <2> QED BY <2>3, <2>4, <2>5 DEF BridgeInv
<1>4. CASE Bridge!Execute
  <2>1. /\ UNCHANGED <<pendingFrame, pendingBuffer>> /\ tasks' = tasks + 1
        /\ producer' = [pc |-> "idle", no |-> no]
    BY <1>1, <1>4, BridgeTypes DEF Bridge!Execute
  <2>2. tasks' \in 0 .. MaxImages /\ tasks' > 0
    BY <1>2, <2>1, BridgeTypes DEF Bridge!Images
  <2>3. Bridge!BridgeTypeOK'
    <3>1. producer' \in [pc : {"idle", "copying", "posting", "executing"}, no : 0 .. MaxImages]
      BY <1>2, <2>1 DEF Bridge!Images
    <3> QED BY <1>1, <2>1, <2>2, <3>1 DEF BridgeInv, Bridge!BridgeTypeOK
  <2>4. Numbered'
    BY <1>1, <1>2, <2>1, BridgeTypes DEF BridgeInv, Numbered, Bridge!Images
  <2>5. Pictures' /\ PixelsOfTheFrame' /\ NoFrameStranded'
    BY <1>1, <2>1, <2>2 DEF BridgeInv, Pictures, PixelsOfTheFrame,
       Bridge!PixelsOfTheFrame, NoFrameStranded, Bridge!NoFrameStranded
  <2> QED BY <2>3, <2>4, <2>5 DEF BridgeInv
<1> QED BY <1>3, <1>4

LEMMA BridgeKeeps == BridgeInv /\ [Bridge!BridgeNext]_bridge => BridgeInv'
<1> SUFFICES ASSUME BridgeInv, [Bridge!BridgeNext]_bridge PROVE BridgeInv'
  OBVIOUS
<1>1. CASE Bridge!ProducerStep
  BY <1>1, CopyBegins, CopyEnds, FrameIsPosted DEF Bridge!ProducerStep
<1>2. CASE Bridge!RunnerStep
  BY <1>2, TakesTheFrame, RunnerStays
<1>3. CASE Bridge!StarterStep
  BY <1>3, StarterKeeps
<1>4. CASE UNCHANGED bridge
  <2>1. Bridge!BridgeTypeOK'
    BY <1>4 DEF bridge, BridgeInv, Bridge!BridgeTypeOK
  <2> QED BY <1>4, <2>1 DEF bridge, BridgeInv, Numbered, Pictures, PixelsOfTheFrame,
       Bridge!PixelsOfTheFrame, NoFrameStranded, Bridge!NoFrameStranded
<1> QED BY <1>1, <1>2, <1>3, <1>4 DEF Bridge!BridgeNext

LEMMA CountNext == Inv /\ CountTypes /\ Flow /\ [Next]_vars => CountTypes' /\ Flow'
  BY CountCamera, CountInference DEF Next

-----------------------------------------------------------------------------
\* However the camera and the inference threads interleave, a buffer has one
\* owner, no buffer leaks and none is written while another thread reads it
\* (PixelBufferPool.cpp:33-89, FrameProcessorPlugin.cpp:328-380).
THEOREM BuffersAreOwned == Spec => []OneOwner
<1>1. Spec => []Inv
  BY InitInv, NextInv, PTL DEF Spec
<1>2. Inv => OneOwner
  BY OwnedMeansOneOwner DEF Inv
<1> QED BY <1>1, <1>2, PTL

\* What the inference thread reads is whole, except in a buffer that a late
\* Release has reset (PixelBufferPool.cpp:82-89).
THEOREM FramesAreWhole == Spec => []WholeFrames
<1>1. Spec => []Inv
  BY InitInv, NextInv, PTL DEF Spec
<1>2. Inv => WholeFrames
  BY DEF Inv
<1> QED BY <1>1, <1>2, PTL

\* The same on both platforms: the other's threads do not touch the pool.
THEOREM PathsKeepThePool == PathsSpec => [](OneOwner /\ WholeFrames)
<1>1. PathsInit => Init
  BY DEF PathsInit
<1>2. [PathsNext]_pathsVars => [Next]_vars
  BY DEF PathsNext, PoolStep, BridgeStep, pathsVars
<1>3. PathsSpec => Spec
  BY <1>1, <1>2, PTL DEF PathsSpec, Spec
<1> QED BY <1>3, BuffersAreOwned, FramesAreWhole, PTL

LEMMA PathsPool == PathsSpec => [](Inv /\ CountTypes /\ Flow)
<1>1. PathsInit => Init
  BY DEF PathsInit
<1>2. [PathsNext]_pathsVars => [Next]_vars
  BY DEF PathsNext, PoolStep, BridgeStep, pathsVars
<1> QED BY <1>1, <1>2, InitInv, NextInv, CountInit, CountNext, PTL DEF PathsSpec

LEMMA PathsBridge == PathsSpec => []BridgeInv
<1>1. PathsInit => BridgeInv
  BY BridgeBegins DEF PathsInit
<1>2. [PathsNext]_pathsVars => [Bridge!BridgeNext]_bridge
  BY DEF PathsNext, PoolStep, BridgeStep, pathsVars
<1> QED BY <1>1, <1>2, BridgeKeeps, PTL DEF PathsSpec

\* The types of both ways: no count of frames exceeds the frames offered, for
\* each is dropped, replaced, processed or under way, and there are never more
\* tasks than frames (FrameProcessorPlugin.cpp:328-380, NativeBridge.java:520).
THEOREM PathsAreTyped == PathsSpec => []PathsTypeOK
<1>1. PathsSpec => [](platform \in {"ios", "android"})
  <2>1. PathsInit => platform \in {"ios", "android"}
    BY DEF PathsInit
  <2>2. platform \in {"ios", "android"} /\ [PathsNext]_pathsVars
        => (platform \in {"ios", "android"})'
    BY DEF PathsNext, PoolStep, BridgeStep, pathsVars
  <2> QED BY <2>1, <2>2, PTL DEF PathsSpec
<1>2. /\ platform \in {"ios", "android"} /\ Inv /\ CountTypes /\ BridgeInv
      => PathsTypeOK
  BY DEF Inv, Types, Frames, CountTypes, BridgeInv, TypeOK, PathsTypeOK
<1> QED BY <1>1, <1>2, PathsPool, PathsBridge, PTL

\* On Android the camera writes the buffer the executor's thread reads, but
\* only ever with a younger frame: what is submitted under a frame's time is of
\* that frame or of one begun since (NativeBridge.java:530-539).
THEOREM NothingOlderIsRead == PathsSpec => []PixelsOfTheFrame
<1>1. BridgeInv => PixelsOfTheFrame
  BY DEF BridgeInv
<1> QED BY <1>1, PathsBridge, PTL

\* A pending frame has a task queued or about to be (NativeBridge.java:539-549).
THEOREM PendingFramesHaveTasks == PathsSpec => []NoFrameStranded
<1>1. BridgeInv => NoFrameStranded
  BY DEF BridgeInv
<1> QED BY <1>1, PathsBridge, PTL
=============================================================================
