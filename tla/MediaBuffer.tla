----------------------------- MODULE MediaBuffer -----------------------------
(* The ring of video frames between the capture threads and the encoder thread *)
(* (libyangrtc8/src/yangutil/buffer/YangMediaBuffer.cpp, used through          *)
(* YangVideoBuffer). Put and get run under m_lock, so each is one action. The  *)
(* encoder uses getFrameRef: it leaves with a POINTER into the ring, and reads *)
(* the picture after the slot has been given back.                             *)
EXTENDS Naturals

CONSTANTS Frame,      \* pictures a producer may put
          NoFrame,    \* payload of a slot never written, and "nothing taken yet"
          CacheNum    \* m_cache_num: 30 once YangVideoBuffer::init has run

ASSUME CacheNumAssumption == CacheNum \in Nat \ {0}
ASSUME NoFrameAssumption == NoFrame \notin Frame

VARIABLES frames,     \* m_frames[i]->payload
          putIndex,   \* m_putIndex
          getIndex,   \* m_getIndex
          size,       \* m_size
          reading,    \* the encoder is between getFrameRef and the end of encode
          ref,        \* the slot getFrameRef returned last
          taken       \* what that slot (or getFrame's copy) held at that moment

vars == <<frames, putIndex, getIndex, size, reading, ref, taken>>

Slots == 0 .. CacheNum - 1

(* Definitions named ..._Bug are seeded faults: the operation as a plausible     *)
(* slip would have it, used only to see that the properties would notice.        *)

(* if (index >= m_cache_num) index = 0, after index++ *)
Wrap(index) == IF index + 1 >= CacheNum THEN 0 ELSE index + 1

(* The slot i places round the ring from slot g. *)
Slot(g, i) == IF g + i < CacheNum THEN g + i ELSE g + i - CacheNum

TypeOK == /\ frames \in [Slots -> Frame \union {NoFrame}]
          /\ putIndex \in Slots
          /\ getIndex \in Slots
          /\ size \in 0 .. CacheNum
          /\ reading \in BOOLEAN
          /\ ref \in Slots
          /\ taken \in Frame \union {NoFrame}

(* YangVideoBuffer::init: resetIndex, then initFrames. *)
Init == /\ frames = [i \in Slots |-> NoFrame]
        /\ putIndex = 0 /\ getIndex = 0 /\ size = 0
        /\ reading = FALSE /\ ref = 0 /\ taken = NoFrame

(* The copy goes to the slot after the put slot: ++m_putIndex for m_putIndex++. *)
PutFrame_Bug(f) == /\ size < CacheNum
                   /\ frames' = [frames EXCEPT ![Wrap(putIndex)] = f]
                   /\ putIndex' = Wrap(putIndex)
                   /\ size' = size + 1
                   /\ UNCHANGED <<getIndex, reading, ref, taken>>

(* putFrame, with room: copy into the put slot, advance, count. *)
PutFrame(f) == /\ size < CacheNum
               /\ frames' = [frames EXCEPT ![putIndex] = f]
               /\ putIndex' = Wrap(putIndex)
               /\ size' = size + 1
               /\ UNCHANGED <<getIndex, reading, ref, taken>>

(* The copy is made before the check for room. *)
PutFrameFull_Bug(f) == /\ size >= CacheNum
                       /\ frames' = [frames EXCEPT ![putIndex] = f]
                       /\ UNCHANGED <<putIndex, getIndex, size, reading, ref, taken>>

(* putFrame, full: "goto cleanup", the new frame is the one lost. *)
PutFrameFull(f) == size >= CacheNum /\ UNCHANGED vars

(* m_size-- forgotten. *)
Pop_Bug == /\ size # 0
           /\ taken' = frames[getIndex]
           /\ getIndex' = Wrap(getIndex)
           /\ UNCHANGED size

(* The oldest frame leaves the queue: the tail that both gets share. *)
Pop == /\ size # 0
       /\ taken' = frames[getIndex]
       /\ getIndex' = Wrap(getIndex)
       /\ size' = size - 1

(* getFrame copies the picture out under the lock. *)
GetFrame == ~reading /\ Pop /\ UNCHANGED <<frames, putIndex, reading, ref>>

(* m_getIndex++ before the payload pointer is read. *)
GetFrameRef_Bug == /\ ~reading
                   /\ Pop
                   /\ reading' = TRUE
                   /\ ref' = Wrap(getIndex)
                   /\ UNCHANGED <<frames, putIndex>>

(* getFrameRef hands out the slot itself; m_size already counts it as free. *)
GetFrameRef == /\ ~reading
               /\ Pop
               /\ reading' = TRUE
               /\ ref' = getIndex
               /\ UNCHANGED <<frames, putIndex>>

(* encoder->encode has returned: the pointer is not used again. *)
EncodeDone == /\ reading
              /\ reading' = FALSE
              /\ UNCHANGED <<frames, putIndex, getIndex, size, ref, taken>>

Next == \/ \E f \in Frame : PutFrame(f) \/ PutFrameFull(f)
        \/ GetFrame \/ GetFrameRef \/ EncodeDone

Spec == Init /\ [][Next]_vars

-----------------------------------------------------------------------------
(* The two indices and the count, three separate fields that every operation    *)
(* moves by hand, always agree: the next slot to write is size slots past the   *)
(* next slot to read.                                                           *)
IndicesAgree == putIndex = Slot(getIndex, size)

(* A waiting frame is always a frame somebody put, never a slot's stale or      *)
(* initial content.                                                             *)
WaitingFramesArePut == \A i \in 0 .. size - 1 : frames[Slot(getIndex, i)] # NoFrame

(* The three fields agree whatever put and get do, and the waiting part of the  *)
(* ring holds pictures.                                                         *)
RingAgrees == TypeOK /\ IndicesAgree /\ WaitingFramesArePut

(* While the encoder reads through the pointer getFrameRef gave it, the picture *)
(* under the pointer is the one it took UNLESS producers have filled the ring   *)
(* completely since: the slot it reads is the very last one they reuse.         *)
HeldFrameIntact == reading /\ size < CacheNum => frames[ref] = taken

(* The ring is the bounded queue: waiting frames in ring order, oldest first.   *)
Waiting == [i \in 1 .. size |-> frames[Slot(getIndex, i - 1)]]
Queue == INSTANCE FrameQueue WITH Capacity <- CacheNum, queue <- Waiting
ImplementsFrameQueue == Queue!Spec
=============================================================================
