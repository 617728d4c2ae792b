-------------------------- MODULE MediaBufferProofs --------------------------
(* Proofs about the video ring for every capacity and every set of frames, and *)
(* about the ring and its two ends together, as MCVideo sets them side by side.*)
EXTENDS MCVideo, Sequences, SequenceTheorems, TLAPS

USE CacheNumAssumption, NoFrameAssumption

(* A slot of the ring, moved on by one, is again a slot.                       *)
LEMMA WrapStaysInRing == \A i \in Slots : Wrap(i) \in Slots
BY DEF Wrap, Slots

(* Going round the ring by less than its length ends in a slot again.          *)
LEMMA SlotInRing == \A g \in Slots, i \in 0 .. CacheNum - 1 : Slot(g, i) \in Slots
BY DEF Slot, Slots

(* One place further from the next slot is two places from this one.           *)
LEMMA SlotAfterWrap ==
  \A g \in Slots, i \in 0 .. CacheNum - 1 : Slot(Wrap(g), i) = Slot(g, i + 1)
BY DEF Slot, Wrap, Slots

-----------------------------------------------------------------------------
(* Every field keeps its range: the indices stay inside m_frames and the count *)
(* never passes the capacity (putFrame and getFrameRef test it under m_lock).  *)
THEOREM TypeCorrect == Spec => []TypeOK
<1>1. Init => TypeOK
  <2>1. 0 \in Slots /\ 0 \in 0 .. CacheNum
    BY DEF Slots
  <2>2. QED
    BY <2>1 DEF Init, TypeOK
<1>2. TypeOK /\ [Next]_vars => TypeOK'
  <2> SUFFICES ASSUME TypeOK, [Next]_vars PROVE TypeOK'
    OBVIOUS
  <2>1. ASSUME NEW f \in Frame, PutFrame(f) PROVE TypeOK'
    BY <2>1, WrapStaysInRing DEF PutFrame, TypeOK, Slots
  <2>2. ASSUME NEW f \in Frame, PutFrameFull(f) PROVE TypeOK'
    BY <2>2 DEF PutFrameFull, TypeOK, vars
  <2>3. ASSUME Pop PROVE getIndex' \in Slots /\ size' \in 0 .. CacheNum
                         /\ taken' \in Frame \union {NoFrame}
    BY <2>3, WrapStaysInRing DEF Pop, TypeOK
  <2>4. CASE GetFrame
    BY <2>4, <2>3 DEF GetFrame, TypeOK
  <2>5. CASE GetFrameRef
    BY <2>5, <2>3 DEF GetFrameRef, TypeOK
  <2>6. CASE EncodeDone
    BY <2>6 DEF EncodeDone, TypeOK
  <2>7. CASE UNCHANGED vars
    BY <2>7 DEF vars, TypeOK
  <2>8. QED
    BY <2>1, <2>2, <2>4, <2>5, <2>6, <2>7 DEF Next
<1>3. QED
  BY <1>1, <1>2, PTL DEF Spec

-----------------------------------------------------------------------------
(* Why the held picture survives: the slot it lies in is the one just behind   *)
(* the next to read, which is the last one a producer comes to.                *)
HeldSlotBehind == reading => getIndex = Wrap(ref)

RingInv == IndicesAgree /\ WaitingFramesArePut /\ HeldSlotBehind /\ HeldFrameIntact

(* A put writes one slot past the waiting frames, so it disturbs none of them. *)
LEMMA PutSlotIsFree ==
  ASSUME TypeOK, IndicesAgree, NEW i \in 0 .. CacheNum - 1, size < CacheNum
  PROVE  (Slot(getIndex, i) = putIndex) <=> (i = size)
BY DEF TypeOK, IndicesAgree, Slot, Slots

(* The ring stays consistent and the encoder's picture stays intact until the  *)
(* ring is full, whatever the capacity and however puts and gets interleave.   *)
THEOREM RingCorrect == Spec => []RingInv
<1>1. Init => RingInv
  BY DEF Init, RingInv, IndicesAgree, WaitingFramesArePut, HeldSlotBehind,
         HeldFrameIntact, Slot, Slots
<1>2. TypeOK /\ TypeOK' /\ RingInv /\ [Next]_vars => RingInv'
  <2> SUFFICES ASSUME TypeOK, TypeOK', RingInv, [Next]_vars PROVE RingInv'
    OBVIOUS
  <2>1. ASSUME NEW f \in Frame, PutFrame(f) PROVE RingInv'
    <3>1. IndicesAgree'
      BY <2>1 DEF RingInv, PutFrame, IndicesAgree, Slot, Wrap, TypeOK, Slots
    <3>2. WaitingFramesArePut'
      <4> SUFFICES ASSUME NEW i \in 0 .. size' - 1 PROVE frames'[Slot(getIndex', i)] # NoFrame
        BY DEF WaitingFramesArePut
      <4>1. /\ i \in 0 .. CacheNum - 1
            /\ Slot(getIndex, i) \in Slots
            /\ getIndex' = getIndex
        BY <2>1, SlotInRing DEF PutFrame, TypeOK
      <4>2. CASE i = size
        <5>1. Slot(getIndex, i) = putIndex
          BY <2>1, <4>1, <4>2, PutSlotIsFree DEF PutFrame, RingInv
        <5>2. QED
          BY <2>1, <4>1, <5>1 DEF PutFrame, TypeOK
      <4>3. CASE i # size
        <5>1. i \in 0 .. size - 1 /\ Slot(getIndex, i) # putIndex
          BY <2>1, <4>1, <4>3, PutSlotIsFree DEF PutFrame, RingInv, TypeOK
        <5>2. QED
          BY <2>1, <4>1, <5>1 DEF PutFrame, RingInv, WaitingFramesArePut, TypeOK
      <4>4. QED
        BY <4>2, <4>3
    <3>3. HeldSlotBehind'
      BY <2>1 DEF RingInv, PutFrame, HeldSlotBehind, Wrap
    <3>4. HeldFrameIntact'
      <4> SUFFICES ASSUME reading', size' < CacheNum PROVE frames'[ref'] = taken'
        BY DEF HeldFrameIntact
      <4>1. ref # putIndex
        BY <2>1 DEF PutFrame, RingInv, HeldSlotBehind, IndicesAgree, Slot, Wrap, TypeOK, Slots
      <4>2. frames[ref] = taken
        BY <2>1 DEF PutFrame, RingInv, HeldFrameIntact, TypeOK
      <4>3. QED
        BY <2>1, <4>1, <4>2 DEF PutFrame, TypeOK
    <3>5. QED
      BY <3>1, <3>2, <3>3, <3>4 DEF RingInv
  <2>2. ASSUME NEW f \in Frame, PutFrameFull(f) PROVE RingInv'
    BY <2>2 DEF PutFrameFull, vars, RingInv, IndicesAgree, WaitingFramesArePut,
                HeldSlotBehind, HeldFrameIntact
  <2>3. ASSUME Pop, UNCHANGED <<frames, putIndex>>
        PROVE  IndicesAgree' /\ WaitingFramesArePut'
    <3>1. IndicesAgree'
      BY <2>3 DEF Pop, RingInv, IndicesAgree, Slot, Wrap, TypeOK, Slots
    <3>2. WaitingFramesArePut'
      <4> SUFFICES ASSUME NEW i \in 0 .. size' - 1 PROVE frames'[Slot(getIndex', i)] # NoFrame
        BY DEF WaitingFramesArePut
      <4>1. i + 1 \in 0 .. size - 1
        BY <2>3 DEF Pop, TypeOK
      <4>2. Slot(getIndex', i) = Slot(getIndex, i + 1)
        BY <2>3, <4>1, SlotAfterWrap DEF Pop, TypeOK
      <4>3. QED
        BY <2>3, <4>1, <4>2 DEF RingInv, WaitingFramesArePut
    <3>3. QED
      BY <3>1, <3>2
  <2>4. CASE GetFrame
    BY <2>4, <2>3 DEF GetFrame, RingInv, HeldSlotBehind, HeldFrameIntact
  <2>5. CASE GetFrameRef
    BY <2>5, <2>3 DEF GetFrameRef, Pop, RingInv, HeldSlotBehind, HeldFrameIntact, Wrap
  <2>6. CASE EncodeDone
    BY <2>6 DEF EncodeDone, RingInv, IndicesAgree, WaitingFramesArePut,
                HeldSlotBehind, HeldFrameIntact
  <2>7. CASE UNCHANGED vars
    BY <2>7 DEF vars, RingInv, IndicesAgree, WaitingFramesArePut,
                HeldSlotBehind, HeldFrameIntact
  <2>8. QED
    BY <2>1, <2>2, <2>4, <2>5, <2>6, <2>7 DEF Next
<1>3. QED
  BY <1>1, <1>2, TypeCorrect, PTL DEF Spec

(* Size, indices and slots of the ring agree after any number of puts and     *)
(* gets, for every length of the ring.                                        *)
THEOREM RingSound == Spec => []RingAgrees
<1>1. TypeOK /\ RingInv => RingAgrees
  BY DEF RingInv, RingAgrees
<1>2. QED
  BY <1>1, TypeCorrect, RingCorrect, PTL

(* The property the encoder depends on, on its own.                            *)
THEOREM HeldFrameSafe == Spec => []HeldFrameIntact
<1>1. RingInv => HeldFrameIntact
  BY DEF RingInv
<1>2. QED
  BY <1>1, RingCorrect, PTL

-----------------------------------------------------------------------------
(* A function on 1..n is a sequence of length n.                               *)
LEMMA FunctionIsSeq ==
  ASSUME NEW S, NEW n \in Nat, NEW w \in [1 .. n -> S]
  PROVE  w \in Seq(S) /\ Len(w) = n
<1>1. w \in Seq(S)
  BY SeqDef
<1>2. 1 .. Len(w) = 1 .. n /\ Len(w) \in Nat
  BY <1>1, LenProperties
<1>3. \A i \in Nat \ {0} : i <= Len(w) <=> i <= n
  BY <1>2
<1>4. QED
  BY <1>1, <1>2, <1>3

(* Reading up to CacheNum slots in ring order stays within the ring.           *)
LEMMA RingReads ==
  ASSUME NEW S, NEW f \in [Slots -> S], NEW g \in Slots, NEW n \in 0 .. CacheNum,
         NEW i \in 1 .. n
  PROVE  f[Slot(g, i - 1)] \in S
<1>1. i - 1 \in 0 .. CacheNum - 1
  OBVIOUS
<1>2. QED
  BY <1>1, SlotInRing

(* The ring implements the bounded queue: every put of the ring appends to the *)
(* waiting frames or changes nothing, every get delivers the oldest.           *)
THEOREM RingImplementsQueue == Spec => ImplementsFrameQueue
<1>1. Init => Queue!Init
  BY DEF Init, Queue!Init, Waiting
<1>2. TypeOK /\ TypeOK' /\ RingInv /\ [Next]_vars => [Queue!Next]_(Queue!vars)
  <2> SUFFICES ASSUME TypeOK, TypeOK', RingInv, [Next]_vars
               PROVE  [Queue!Next]_(Queue!vars)
    OBVIOUS
  <2> DEFINE Payload == Frame \union {NoFrame}
  <2>a. /\ Waiting \in Seq(Payload)
        /\ Len(Waiting) = size
        /\ \A i \in 1 .. size : Waiting[i] = frames[Slot(getIndex, i - 1)]
    <3>1. Waiting = [i \in 1 .. size |-> frames[Slot(getIndex, i - 1)]]
      BY DEF Waiting
    <3>2. /\ frames \in [Slots -> Payload]
          /\ getIndex \in Slots
          /\ size \in 0 .. CacheNum
      BY DEF TypeOK
    <3>3. \A i \in 1 .. size : frames[Slot(getIndex, i - 1)] \in Payload
      BY <3>2, RingReads
    <3>4. Waiting \in [1 .. size -> Payload]
      BY <3>1, <3>3
    <3>5. QED
      BY <3>1, <3>2, <3>4, FunctionIsSeq
  <2>b. /\ Waiting' \in Seq(Payload)
        /\ Len(Waiting') = size'
        /\ \A i \in 1 .. size' : Waiting'[i] = frames'[Slot(getIndex', i - 1)]
    <3>1. Waiting' = [i \in 1 .. size' |-> frames'[Slot(getIndex', i - 1)]]
      BY DEF Waiting
    <3>2. /\ frames' \in [Slots -> Payload]
          /\ getIndex' \in Slots
          /\ size' \in 0 .. CacheNum
      BY DEF TypeOK
    <3>3. \A i \in 1 .. size' : frames'[Slot(getIndex', i - 1)] \in Payload
      BY <3>2, RingReads
    <3>4. Waiting' \in [1 .. size' -> Payload]
      BY <3>1, <3>3
    <3>5. QED
      BY <3>1, <3>2, <3>4, FunctionIsSeq
  <2>1. ASSUME NEW f \in Frame, PutFrame(f) PROVE Queue!Put(f)
    <3>1. Len(Waiting) < CacheNum /\ taken' = taken
      BY <2>1, <2>a DEF PutFrame
    <3>2. /\ Append(Waiting, f) \in Seq(Payload)
          /\ Len(Append(Waiting, f)) = size + 1
          /\ \A i \in 1 .. size : Append(Waiting, f)[i] = Waiting[i]
          /\ Append(Waiting, f)[size + 1] = f
      BY <2>a, AppendProperties DEF TypeOK
    <3>3. ASSUME NEW i \in 1 .. size' PROVE Waiting'[i] = Append(Waiting, f)[i]
      <4>1. /\ i - 1 \in 0 .. CacheNum - 1
            /\ Slot(getIndex, i - 1) \in Slots
        BY <2>1, SlotInRing DEF PutFrame, TypeOK
      <4>2. Slot(getIndex, i - 1) = putIndex <=> i - 1 = size
        BY <2>1, <4>1, PutSlotIsFree DEF PutFrame, RingInv
      <4>3. Waiting'[i] = frames'[Slot(getIndex, i - 1)]
        BY <2>1, <2>b DEF PutFrame
      <4>4. CASE i - 1 = size
        BY <2>1, <3>2, <4>1, <4>2, <4>3, <4>4 DEF PutFrame, TypeOK
      <4>5. CASE i - 1 # size
        <5>1. i \in 1 .. size
          BY <2>1, <4>5 DEF PutFrame, TypeOK
        <5>2. frames'[Slot(getIndex, i - 1)] = frames[Slot(getIndex, i - 1)]
          BY <2>1, <4>1, <4>2, <4>5 DEF PutFrame, TypeOK
        <5>3. QED
          BY <3>2, <4>3, <5>1, <5>2, <2>a
      <4>6. QED
        BY <4>4, <4>5
    <3>4. Waiting' = Append(Waiting, f)
      BY <2>1, <3>2, <3>3, <2>b, SeqEqual DEF PutFrame
    <3>5. QED
      BY <3>1, <3>4 DEF Queue!Put
  <2>2. ASSUME Pop, UNCHANGED frames PROVE Queue!Get
    <3>1. Waiting # <<>> /\ size \in Nat /\ size # 0
      BY <2>2, <2>a, EmptySeq DEF Pop, TypeOK
    <3>2. taken' = Head(Waiting)
      <4>1. Slot(getIndex, 0) = getIndex
        BY DEF Slot, TypeOK, Slots
      <4>2. Head(Waiting) = Waiting[1] /\ Waiting[1] = frames[Slot(getIndex, 0)]
        BY <3>1, <2>a, HeadTailProperties
      <4>3. QED
        BY <2>2, <4>1, <4>2 DEF Pop
    <3>3. /\ Tail(Waiting) \in Seq(Payload)
          /\ Len(Tail(Waiting)) = size - 1
          /\ \A i \in 1 .. size - 1 : Tail(Waiting)[i] = Waiting[i + 1]
      BY <3>1, <2>a, HeadTailProperties
    <3>4. ASSUME NEW i \in 1 .. size' PROVE Waiting'[i] = Tail(Waiting)[i]
      <4>1. i + 1 \in 1 .. size /\ i \in 1 .. size - 1 /\ (i + 1) - 1 = i
        BY <2>2, <3>1 DEF Pop
      <4>2. Slot(getIndex', i - 1) = Slot(getIndex, i)
        BY <2>2, <4>1, SlotAfterWrap DEF Pop, TypeOK
      <4>3. Waiting[i + 1] = frames[Slot(getIndex, i)]
        BY <4>1, <2>a
      <4>4. QED
        BY <2>2, <3>3, <4>1, <4>2, <4>3, <2>b
    <3>5. Waiting' = Tail(Waiting)
      BY <2>2, <3>3, <3>4, <2>b, SeqEqual DEF Pop
    <3>6. QED
      BY <3>1, <3>2, <3>5 DEF Queue!Get
  <2>3. ASSUME UNCHANGED <<frames, getIndex, size, taken>> PROVE UNCHANGED Queue!vars
    <3>1. Waiting' = Waiting
      BY <2>3 DEF Waiting, Slot
    <3>2. QED
      BY <2>3, <3>1 DEF Queue!vars
  <2>4. ASSUME NEW f \in Frame, PutFrameFull(f) PROVE UNCHANGED Queue!vars
    BY <2>4, <2>3 DEF PutFrameFull, vars
  <2>5. CASE GetFrame
    BY <2>5, <2>2 DEF GetFrame, Queue!Next
  <2>6. CASE GetFrameRef
    BY <2>6, <2>2 DEF GetFrameRef, Queue!Next
  <2>7. CASE EncodeDone
    BY <2>7, <2>3 DEF EncodeDone
  <2>8. CASE UNCHANGED vars
    BY <2>8, <2>3 DEF vars
  <2>9. QED
    BY <2>1, <2>4, <2>5, <2>6, <2>7, <2>8 DEF Next, Queue!Next
<1>3. QED
  BY <1>1, <1>2, TypeCorrect, RingCorrect, PTL
     DEF Spec, ImplementsFrameQueue, Queue!Spec

-----------------------------------------------------------------------------
(* The ends of the path, as MCVideo puts them beside the ring: what VideoProofs *)
(* proves for every size, with the sizes of the model.                          *)

WholeProofs ==
  INSTANCE VideoProofs
    WITH Capacity <- 2, MsgUnits <- 2, MaxUnits <- 4, Tries <- 2, Torn <- FALSE,
         taken <- shown

CutProofs ==
  INSTANCE VideoProofs
    WITH Capacity <- 1, MsgUnits <- 3, MaxUnits <- 6, Tries <- 2, Torn <- TRUE,
         taken <- shown

(* The capturing processes there and here.                                      *)
LEMMA WholeIsCapture == Whole!Next => WholeProofs!Next
  BY DEF Whole!Next, Whole!World, Whole!SwitchDesktop, Whole!SessionChange,
      Whole!StartListen, Whole!StartVideo, Whole!CaptureThread, Whole!CaptureInit,
      Whole!CaptureLook, Whole!CaptureCheck, Whole!CaptureReset, Whole!CaptureGrab,
      Whole!CaptureGrabFails, Whole!CapturePush, Whole!EncoderTakes, Whole!Helper,
      Whole!HelperConnect, Whole!HelperRetry, Whole!HelperLook, Whole!HelperGrab,
      Whole!HelperGrabFails, Whole!HelperSend, Whole!Message, Whole!ReceiveThread,
      Whole!ReceiveHeader, Whole!ReceiveNoise, Whole!ReceivePart,
      Whole!ReceivePicture, Whole!Recv, Whole!PutVideo, Whole!Buffer!Put,
      Whole!Buffer!Get, Whole!Desktop, Whole!frames, Whole!capture, Whole!helper,
      Whole!receiver, Whole!world, WholeProofs!Next, WholeProofs!World,
      WholeProofs!SwitchDesktop, WholeProofs!SessionChange, WholeProofs!StartListen,
      WholeProofs!StartVideo, WholeProofs!CaptureThread, WholeProofs!CaptureInit,
      WholeProofs!CaptureLook, WholeProofs!CaptureCheck, WholeProofs!CaptureReset,
      WholeProofs!CaptureGrab, WholeProofs!CaptureGrabFails,
      WholeProofs!CapturePush, WholeProofs!EncoderTakes, WholeProofs!Helper,
      WholeProofs!HelperConnect, WholeProofs!HelperRetry, WholeProofs!HelperLook,
      WholeProofs!HelperGrab, WholeProofs!HelperGrabFails, WholeProofs!HelperSend,
      WholeProofs!Message, WholeProofs!ReceiveThread, WholeProofs!ReceiveHeader,
      WholeProofs!ReceiveNoise, WholeProofs!ReceivePart, WholeProofs!ReceivePicture,
      WholeProofs!Recv, WholeProofs!PutVideo, WholeProofs!Buffer!Put,
      WholeProofs!Buffer!Get, WholeProofs!Desktop, WholeProofs!frames,
      WholeProofs!capture, WholeProofs!helper, WholeProofs!receiver,
      WholeProofs!world

LEMMA CutIsCapture == Cut!Next => CutProofs!Next
  BY DEF Cut!Next, Cut!World, Cut!SwitchDesktop, Cut!SessionChange, Cut!StartListen,
      Cut!StartVideo, Cut!CaptureThread, Cut!CaptureInit, Cut!CaptureLook,
      Cut!CaptureCheck, Cut!CaptureReset, Cut!CaptureGrab, Cut!CaptureGrabFails,
      Cut!CapturePush, Cut!EncoderTakes, Cut!Helper, Cut!HelperConnect,
      Cut!HelperRetry, Cut!HelperLook, Cut!HelperGrab, Cut!HelperGrabFails,
      Cut!HelperSend, Cut!Message, Cut!ReceiveThread, Cut!ReceiveHeader,
      Cut!ReceiveNoise, Cut!ReceivePart, Cut!ReceivePicture, Cut!Recv, Cut!PutVideo,
      Cut!Buffer!Put, Cut!Buffer!Get, Cut!Desktop, Cut!frames, Cut!capture,
      Cut!helper, Cut!receiver, Cut!world, CutProofs!Next, CutProofs!World,
      CutProofs!SwitchDesktop, CutProofs!SessionChange, CutProofs!StartListen,
      CutProofs!StartVideo, CutProofs!CaptureThread, CutProofs!CaptureInit,
      CutProofs!CaptureLook, CutProofs!CaptureCheck, CutProofs!CaptureReset,
      CutProofs!CaptureGrab, CutProofs!CaptureGrabFails, CutProofs!CapturePush,
      CutProofs!EncoderTakes, CutProofs!Helper, CutProofs!HelperConnect,
      CutProofs!HelperRetry, CutProofs!HelperLook, CutProofs!HelperGrab,
      CutProofs!HelperGrabFails, CutProofs!HelperSend, CutProofs!Message,
      CutProofs!ReceiveThread, CutProofs!ReceiveHeader, CutProofs!ReceiveNoise,
      CutProofs!ReceivePart, CutProofs!ReceivePicture, CutProofs!Recv,
      CutProofs!PutVideo, CutProofs!Buffer!Put, CutProofs!Buffer!Get,
      CutProofs!Desktop, CutProofs!frames, CutProofs!capture, CutProofs!helper,
      CutProofs!receiver, CutProofs!world

(* The encoder thread there and here.                                           *)
LEMMA EncoderIsEncoder == Encoder!Next => WholeProofs!Encoder!Next
  BY DEF Encoder!Next, Encoder!Tick, Encoder!SessionChange, Encoder!SendRequest,
      Encoder!EncoderThread, Encoder!GetFrame, Encoder!CodecEnabled, Encoder!Skip,
      Encoder!Stamp, Encoder!TestFlag, Encoder!PassOn, Encoder!ClearFlag,
      Encoder!ForceIntra, Encoder!EncodeFrame, Encoder!EncodeFails, Encoder!Deliver,
      Encoder!clock, Encoder!flags, Encoder!viewer, WholeProofs!Encoder!Next,
      WholeProofs!Encoder!Tick, WholeProofs!Encoder!SessionChange,
      WholeProofs!Encoder!SendRequest, WholeProofs!Encoder!EncoderThread,
      WholeProofs!Encoder!GetFrame, WholeProofs!Encoder!CodecEnabled,
      WholeProofs!Encoder!Skip, WholeProofs!Encoder!Stamp,
      WholeProofs!Encoder!TestFlag, WholeProofs!Encoder!PassOn,
      WholeProofs!Encoder!ClearFlag, WholeProofs!Encoder!ForceIntra,
      WholeProofs!Encoder!EncodeFrame, WholeProofs!Encoder!EncodeFails,
      WholeProofs!Encoder!Deliver, WholeProofs!Encoder!clock,
      WholeProofs!Encoder!flags, WholeProofs!Encoder!viewer

VideoInv == /\ part = "whole" => WholeProofs!CaptureInv
            /\ part = "cut" => CutProofs!CaptureInv
            /\ part = "encoder" => WholeProofs!EncoderInv

LEMMA VideoStart == ASSUME MaxTime \in Nat \ {0}, MCInit PROVE VideoInv
  <1>1. WholeProofs!Sizes /\ CutProofs!Sizes
    BY DEF WholeProofs!Sizes, CutProofs!Sizes
  <1>2. WholeProofs!Init /\ CutProofs!Init
    BY DEF MCInit, Whole!Init, WholeProofs!Init, CutProofs!Init, Whole!Buffer!Init,
           WholeProofs!Buffer!Init, CutProofs!Buffer!Init, Whole!Desktop,
           WholeProofs!Desktop, CutProofs!Desktop
  <1>3. WholeProofs!Encoder!Init
    BY DEF MCInit, Encoder!Init, WholeProofs!Encoder!Init
  <1>4. WholeProofs!CaptureInv
    BY <1>1, <1>2, WholeProofs!CaptureStart
  <1>5. CutProofs!CaptureInv
    BY <1>1, <1>2, CutProofs!CaptureStart
  <1>6. WholeProofs!EncoderInv
    BY <1>3, WholeProofs!EncoderInit
  <1> QED
    BY <1>4, <1>5, <1>6 DEF VideoInv

(* A step of one part, or none: the parts share no variable.                    *)
LEMMA VideoStep ==
  ASSUME MaxTime \in Nat \ {0}, VideoInv, [MCNext]_allVars
  PROVE  VideoInv' /\ [enabled /\ enabled' => seen' >= seen]_(Encoder!vars)
  <1>1. WholeProofs!Sizes /\ CutProofs!Sizes
    BY DEF WholeProofs!Sizes, CutProofs!Sizes
  <1>2. part' = part
    BY DEF MCNext, allVars
  <1>3. part = "whole" => [WholeProofs!Next]_(WholeProofs!vars)
    BY WholeIsCapture
       DEF MCNext, allVars, captureVars, WholeProofs!vars, WholeProofs!world,
           WholeProofs!frames, WholeProofs!capture, WholeProofs!helper, WholeProofs!receiver
  <1>4. part = "cut" => [CutProofs!Next]_(CutProofs!vars)
    BY CutIsCapture
       DEF MCNext, allVars, captureVars, CutProofs!vars, CutProofs!world,
           CutProofs!frames, CutProofs!capture, CutProofs!helper, CutProofs!receiver
  <1>5. part = "encoder" => [WholeProofs!Encoder!Next]_(WholeProofs!Encoder!vars)
    BY EncoderIsEncoder
       DEF MCNext, allVars, encoderVars, WholeProofs!Encoder!vars, WholeProofs!Encoder!clock,
           WholeProofs!Encoder!flags, WholeProofs!Encoder!viewer
  <1>6. part = "whole" => WholeProofs!CaptureInv'
    BY <1>1, <1>3, WholeProofs!CaptureStep DEF VideoInv
  <1>7. part = "cut" => CutProofs!CaptureInv'
    BY <1>1, <1>4, CutProofs!CaptureStep DEF VideoInv
  <1>8. part = "encoder" =>
          WholeProofs!EncoderInv' /\ (enabled /\ enabled' => seen' >= seen)
    BY <1>5, WholeProofs!EncoderStep DEF VideoInv
  <1>9. part # "encoder" => UNCHANGED Encoder!vars
    BY DEF MCNext, allVars, encoderVars, Encoder!vars, Encoder!clock, Encoder!flags,
           Encoder!viewer
  <1>10. VideoInv'
    BY <1>2, <1>6, <1>7, <1>8 DEF VideoInv
  <1> QED
    BY <1>8, <1>9, <1>10

LEMMA VideoCorrect == ASSUME MaxTime \in Nat \ {0} PROVE MCSpec => []VideoInv
  <1>1. MCInit => VideoInv
    BY VideoStart
  <1>2. VideoInv /\ [MCNext]_allVars => VideoInv'
    BY VideoStep
  <1> QED
    BY <1>1, <1>2, PTL DEF MCSpec

(* YangScreenWin and YangScreenTcpServer, messages whole or cut: one late       *)
(* picture of the user's desktop at most.                                       *)
THEOREM OneLate == ASSUME MaxTime \in Nat \ {0} PROVE MCSpec => []OnePictureLate
  <1>1. VideoInv => OnePictureLate
    <2>1. WholeProofs!CaptureInv => Whole!TypeOK /\ Whole!OnePictureLate
      BY DEF WholeProofs!CaptureInv, WholeProofs!TypeOK, WholeProofs!LateInv,
             WholeProofs!Desktop, Whole!TypeOK, Whole!OnePictureLate, Whole!Desktop
    <2>2. CutProofs!CaptureInv => Cut!TypeOK /\ Cut!OnePictureLate
      BY DEF CutProofs!CaptureInv, CutProofs!TypeOK, CutProofs!LateInv,
             CutProofs!Desktop, Cut!TypeOK, Cut!OnePictureLate, Cut!Desktop
    <2> QED
      BY <2>1, <2>2 DEF VideoInv, OnePictureLate
  <1> QED
    BY <1>1, VideoCorrect, PTL

(* YangIpcEncoderVideo, beside the others: within a session, the timestamps     *)
(* that are sent do not go back.                                                *)
THEOREM TimesGrow == ASSUME MaxTime \in Nat \ {0} PROVE MCSpec => TimestampsGrow
  <1>1. VideoInv /\ [MCNext]_allVars => [enabled /\ enabled' => seen' >= seen]_(Encoder!vars)
    BY VideoStep
  <1> QED
    BY <1>1, VideoCorrect, PTL DEF MCSpec, TimestampsGrow, Encoder!TimestampsGrow
=============================================================================
