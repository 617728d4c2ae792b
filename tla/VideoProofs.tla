----------------------------- MODULE VideoProofs -----------------------------
(* Proofs about the ends of the video path, for every size of buffer, message   *)
(* and clock: the two processes that capture (Capture) and the encoder thread   *)
(* (VideoEncoder). The ring between them has its proofs in MediaBufferProofs.   *)
(* The two ends share no variable; each theorem is about the specification of   *)
(* one of them.                                                                 *)
EXTENDS Capture, SequenceTheorems, TLAPS

CONSTANT MaxTime

VARIABLES epc, enabled, now, baseTs, pts, sendKeyframe, m_sendKeyframe, intra, out,
          wanted, seen

Encoder == INSTANCE VideoEncoder

(* What the sizes are: a helper tries at least once, a message has a header.    *)
Sizes == /\ Capacity \in Nat /\ MaxUnits \in Nat
         /\ MsgUnits \in Nat \ {0} /\ Tries \in Nat \ {0}

-----------------------------------------------------------------------------
(* Capture.                                                                     *)

(* One of the two producers puts a picture, or finds the buffer full.           *)
LEMMA PutTyped ==
  ASSUME Sizes, TypeOK, NEW d \in Desktop, PutVideo(d)
  PROVE  queue' \in Seq(Desktop) /\ Len(queue') <= Capacity /\ taken' = taken
  <1>1. CASE Buffer!Put(d)
    BY <1>1 DEF Sizes, TypeOK, Buffer!Put
  <1>2. CASE UNCHANGED frames
    BY <1>2 DEF TypeOK, frames
  <1> QED
    BY <1>1, <1>2 DEF PutVideo

(* The encoder takes one.                                                       *)
LEMMA GetTyped ==
  ASSUME Sizes, TypeOK, Buffer!Get
  PROVE  /\ queue' \in Seq(Desktop) /\ Len(queue') <= Capacity
         /\ taken' \in Desktop \union {"none"}
  <1>1. queue # <<>> /\ queue \in Seq(Desktop) /\ Len(queue) <= Capacity
    BY DEF Buffer!Get, TypeOK
  <1>2. Head(queue) \in Desktop /\ Tail(queue) \in Seq(Desktop) /\ Len(Tail(queue)) = Len(queue) - 1
    BY <1>1
  <1>3. taken' = Head(queue) /\ queue' = Tail(queue)
    BY DEF Buffer!Get
  <1>4. Len(queue) \in Nat /\ Capacity \in Nat
    BY <1>1 DEF Sizes
  <1> QED
    BY <1>1, <1>2, <1>3, <1>4

(* One recv takes the pieces it returns off the front of the stream.            *)
LEMMA RecvTyped ==
  ASSUME Sizes, TypeOK, NEW n \in 1 .. MaxUnits, Recv(n)
  PROVE  stream' \in Seq(1 .. MsgUnits)
  <1> DEFINE U == 1 .. MsgUnits
  <1>1. stream \in Seq(U) /\ n \in Nat /\ stream' = SubSeq(stream, n + 1, Len(stream))
    BY DEF TypeOK, Recv, Sizes
  <1> HIDE DEF U
  <1>2. Len(stream) \in Nat /\ \A i \in n + 1 .. Len(stream) : stream[i] \in U
    BY <1>1
  <1> QED
    BY <1>1, <1>2, SubSeqProperties DEF U

(* The order in which the flag and the capture thread move: once the flag is up *)
(* and a picture has been put, the thread has come round and does not get to    *)
(* the next one without taking the flag down.                                   *)
LateInv == late <= 1 /\ (loginState /\ late = 1 => cpc \notin {"grab", "push"})

CaptureInv == TypeOK /\ LateInv

LEMMA CaptureStep == Sizes /\ CaptureInv /\ [Next]_vars => CaptureInv'
  <1> SUFFICES ASSUME Sizes, CaptureInv, [Next]_vars PROVE CaptureInv'
    OBVIOUS
  <1> USE DEF CaptureInv, LateInv, frames, capture, helper, receiver, world
  <1>1. CASE SwitchDesktop
    BY <1>1 DEF SwitchDesktop, TypeOK
  <1>2. CASE SessionChange
    BY <1>2 DEF SessionChange, TypeOK
  <1>3. CASE StartListen
    BY <1>3 DEF StartListen, TypeOK
  <1>4. CASE StartVideo
    BY <1>4 DEF StartVideo, TypeOK
  <1>5. CASE CaptureInit
    BY <1>5 DEF CaptureInit, TypeOK
  <1>6. CASE CaptureLook
    BY <1>6 DEF CaptureLook, TypeOK
  <1>7. CASE CaptureCheck
    BY <1>7 DEF CaptureCheck, TypeOK
  <1>8. CASE CaptureReset
    BY <1>8 DEF CaptureReset, TypeOK
  <1>9. CASE CaptureGrab
    BY <1>9 DEF CaptureGrab, TypeOK
  <1>10. CASE CaptureGrabFails
    BY <1>10 DEF CaptureGrabFails, TypeOK
  <1>11. CASE CapturePush
    <2>1. queue' \in Seq(Desktop) /\ Len(queue') <= Capacity /\ taken' = taken
      BY <1>11, PutTyped DEF CapturePush, Desktop
    <2> QED
      BY <1>11, <2>1 DEF CapturePush, TypeOK
  <1>12. CASE EncoderTakes
    <2>1. /\ queue' \in Seq(Desktop) /\ Len(queue') <= Capacity
          /\ taken' \in Desktop \union {"none"}
      BY <1>12, GetTyped DEF EncoderTakes
    <2> QED
      BY <1>12, <2>1 DEF EncoderTakes, TypeOK
  <1>13. CASE HelperConnect
    BY <1>13 DEF HelperConnect, TypeOK, Sizes
  <1>14. CASE HelperRetry
    BY <1>14 DEF HelperRetry, TypeOK, Sizes
  <1>15. CASE HelperLook
    BY <1>15 DEF HelperLook, TypeOK, Sizes
  <1>16. CASE HelperGrab
    BY <1>16 DEF HelperGrab, TypeOK, Sizes
  <1>17. CASE HelperGrabFails
    BY <1>17 DEF HelperGrabFails, TypeOK, Sizes
  <1>18. CASE HelperSend
    <2> DEFINE U == 1 .. MsgUnits
    <2>1. Message \in Seq(U)
      BY DEF Message, Sizes
    <2>2. stream \in Seq(U) /\ (stream' = stream \/ stream' = stream \o Message)
      BY <1>18 DEF HelperSend, TypeOK
    <2> HIDE DEF U
    <2>3. stream \o Message \in Seq(U)
      <3> HIDE DEF Message
      <3> QED
        BY <2>1, <2>2, ConcatProperties
    <2>4. stream' \in Seq(U)
      BY <2>2, <2>3
    <2> QED
      BY <1>18, <2>4 DEF HelperSend, TypeOK, U
  <1>19. ASSUME NEW n \in 1 .. MaxUnits, ReceiveHeader(n) PROVE CaptureInv'
    <2>1. stream' \in Seq(1 .. MsgUnits)
      BY <1>19, RecvTyped DEF ReceiveHeader
    <2> QED
      BY <1>19, <2>1 DEF ReceiveHeader, TypeOK, Sizes
  <1>20. ASSUME NEW n \in 1 .. MaxUnits, ReceiveNoise(n) PROVE CaptureInv'
    <2>1. stream' \in Seq(1 .. MsgUnits)
      BY <1>20, RecvTyped DEF ReceiveNoise
    <2> QED
      BY <1>20, <2>1 DEF ReceiveNoise, TypeOK, Sizes
  <1>21. ASSUME NEW n \in 1 .. MaxUnits, ReceivePart(n) PROVE CaptureInv'
    <2>1. stream' \in Seq(1 .. MsgUnits)
      BY <1>21, RecvTyped DEF ReceivePart
    <2> QED
      BY <1>21, <2>1 DEF ReceivePart, TypeOK, Sizes
  <1>22. ASSUME NEW n \in 1 .. MaxUnits, ReceivePicture(n) PROVE CaptureInv'
    <2>1. stream' \in Seq(1 .. MsgUnits)
      BY <1>22, RecvTyped DEF ReceivePicture
    <2>2. /\ queue' \in Seq(Desktop) /\ Len(queue') <= Capacity
          /\ taken' = taken
      BY <1>22, PutTyped DEF ReceivePicture, Desktop, TypeOK
    <2>3. /\ dead' \in BOOLEAN /\ recvDataStart' = FALSE
          /\ UNCHANGED <<desktop, alive, listening, buffer, loginState, cpc, late, hpc, tries>>
      BY <1>22 DEF ReceivePicture, TypeOK
    <2>4. recvLen' \in 0 .. MsgUnits - 1
      BY <1>22 DEF ReceivePicture, Sizes
    <2> QED
      BY <2>1, <2>2, <2>3, <2>4 DEF TypeOK
  <1>23. CASE UNCHANGED vars
    BY <1>23 DEF vars, TypeOK
  <1> QED
    BY <1>1, <1>2, <1>3, <1>4, <1>5, <1>6, <1>7, <1>8, <1>9, <1>10, <1>11,
       <1>12, <1>13, <1>14, <1>15, <1>16, <1>17, <1>18, <1>19, <1>20, <1>21,
       <1>22, <1>23
       DEF Next, World, CaptureThread, Helper, ReceiveThread

LEMMA CaptureStart == ASSUME Sizes, Init PROVE CaptureInv
  <1>1. /\ queue \in Seq(Desktop) /\ Len(queue) = 0 /\ taken = "none"
        /\ stream \in Seq(1 .. MsgUnits)
        /\ tries \in 0 .. Tries - 1 /\ recvLen \in 0 .. MsgUnits - 1 /\ 0 <= Capacity
    BY DEF Init, Buffer!Init, Sizes
  <1>2. /\ alive \in BOOLEAN /\ listening \in BOOLEAN /\ dead \in BOOLEAN
        /\ loginState \in BOOLEAN /\ recvDataStart \in BOOLEAN
        /\ desktop \in Desktop
    BY DEF Init
  <1>3. /\ buffer \in {"none", "created", "ready"} /\ late \in 0 .. 2
        /\ cpc \in {"off", "init", "top", "check", "reset", "grab", "push"}
        /\ hpc \in {"connect", "failed", "look", "grab", "send"}
    BY DEF Init
  <1>4. TypeOK
    BY <1>1, <1>2, <1>3 DEF TypeOK
  <1> QED
    BY <1>4 DEF Init, CaptureInv, LateInv

(* YangScreenWin and YangScreenTcpServer: every variable of the two processes,  *)
(* the buffer and the connection between them keeps its range, of a message     *)
(* that has begun fewer pieces have come than it has, and LateInv.              *)
THEOREM CaptureCorrect == ASSUME Sizes PROVE Spec => []CaptureInv
  <1>1. Init => CaptureInv
    BY CaptureStart
  <1>2. CaptureInv /\ [Next]_vars => CaptureInv'
    BY CaptureStep
  <1> QED
    BY <1>1, <1>2, PTL DEF Spec

(* The two producers do not mix: one late picture of the user's desktop at      *)
(* most, for every size of buffer and message and however recv cuts the stream. *)
THEOREM OneLateAtMost == ASSUME Sizes PROVE Spec => []OnePictureLate
  <1>1. CaptureInv => OnePictureLate
    BY DEF CaptureInv, LateInv, OnePictureLate
  <1> QED
    BY <1>1, CaptureCorrect, PTL

-----------------------------------------------------------------------------
(* The encoder thread.                                                          *)

(* A request for a key frame, from the flag to the frame. The codec's intra     *)
(* flag outlives a failure; the session's flag is cleared only after the        *)
(* encoder has taken the request over, and nobody waits without a session.      *)
RequestInv == /\ Encoder!KeyframeNotForgotten
              /\ wanted => enabled
              /\ epc = "clear" => m_sendKeyframe = 1
              /\ out = "I" => epc = "deliver"

(* The clock of the timestamps. It starts afresh only when no viewer has been   *)
(* sent anything, and from its start on, timestamps follow the time.            *)
ClockInv == /\ ~enabled => seen = 0
            /\ epc = "off" => seen = 0
            /\ baseTs = 0 => seen = 0
            /\ baseTs # 0 => baseTs <= now /\ seen <= now - baseTs
            /\ epc \in {"key", "pass", "clear", "encode", "codec", "deliver"} =>
                 baseTs # 0 /\ seen <= pts /\ pts <= now - baseTs

EncoderInv == Encoder!TypeOK /\ RequestInv /\ ClockInv

LEMMA EncoderStep ==
  ASSUME MaxTime \in Nat \ {0}, EncoderInv, [Encoder!Next]_(Encoder!vars)
  PROVE  EncoderInv' /\ (enabled /\ enabled' => seen' >= seen)
  <1> DEFINE Goal == EncoderInv' /\ (enabled /\ enabled' => seen' >= seen)
  <1> SUFFICES Goal
    OBVIOUS
  <1> USE DEF EncoderInv, Encoder!clock, Encoder!flags, Encoder!viewer
  <1> USE DEF Encoder!TypeOK, RequestInv, ClockInv, Encoder!KeyframeNotForgotten
  <1>1. CASE Encoder!Tick
    <2>1. Encoder!TypeOK'
      BY <1>1 DEF Encoder!Tick
    <2>2. RequestInv'
      BY <1>1 DEF Encoder!Tick
    <2>3. ClockInv' /\ (enabled /\ enabled' => seen' >= seen)
      BY <1>1 DEF Encoder!Tick
    <2> QED
      BY <2>1, <2>2, <2>3
  <1>2. CASE Encoder!SessionChange
    <2>1. wanted' = FALSE /\ seen' = 0 /\ UNCHANGED <<epc, now, baseTs, pts, sendKeyframe,
                                                      m_sendKeyframe, intra, out>>
      BY <1>2 DEF Encoder!SessionChange
    <2>2. enabled' \in BOOLEAN /\ wanted' \in BOOLEAN
      BY <1>2 DEF Encoder!SessionChange
    <2>3. 0 \in 0 .. MaxTime - 1
      OBVIOUS
    <2>4. Encoder!TypeOK'
      BY <2>1, <2>2, <2>3
    <2>5. RequestInv'
      BY <2>1
    <2>6. enabled /\ enabled' => FALSE
      BY <1>2 DEF Encoder!SessionChange
    <2>7. ClockInv'
      BY <2>1
    <2> QED
      BY <2>4, <2>5, <2>6, <2>7
  <1>3. CASE Encoder!SendRequest
    <2>1. Encoder!TypeOK'
      BY <1>3 DEF Encoder!SendRequest
    <2>2. RequestInv'
      BY <1>3 DEF Encoder!SendRequest
    <2>3. ClockInv' /\ (enabled /\ enabled' => seen' >= seen)
      BY <1>3 DEF Encoder!SendRequest
    <2> QED
      BY <2>1, <2>2, <2>3
  <1>4. CASE Encoder!GetFrame
    <2>1. Encoder!TypeOK'
      BY <1>4 DEF Encoder!GetFrame
    <2>2. RequestInv'
      BY <1>4 DEF Encoder!GetFrame
    <2>3. ClockInv' /\ (enabled /\ enabled' => seen' >= seen)
      BY <1>4 DEF Encoder!GetFrame
    <2> QED
      BY <2>1, <2>2, <2>3
  <1>5. CASE Encoder!CodecEnabled
    <2>1. Encoder!TypeOK'
      BY <1>5 DEF Encoder!CodecEnabled
    <2>2. RequestInv'
      BY <1>5 DEF Encoder!CodecEnabled
    <2>3. ClockInv' /\ (enabled /\ enabled' => seen' >= seen)
      BY <1>5 DEF Encoder!CodecEnabled
    <2> QED
      BY <2>1, <2>2, <2>3
  <1>6. CASE Encoder!Skip
    <2>1. Encoder!TypeOK'
      BY <1>6 DEF Encoder!Skip
    <2>2. RequestInv'
      BY <1>6 DEF Encoder!Skip
    <2>3. ClockInv' /\ (enabled /\ enabled' => seen' >= seen)
      BY <1>6 DEF Encoder!Skip
    <2> QED
      BY <2>1, <2>2, <2>3
  <1>7. CASE Encoder!Stamp
    <2>1. Encoder!TypeOK'
      BY <1>7 DEF Encoder!Stamp
    <2>2. RequestInv'
      BY <1>7 DEF Encoder!Stamp
    <2>3. ClockInv' /\ (enabled /\ enabled' => seen' >= seen)
      BY <1>7 DEF Encoder!Stamp
    <2> QED
      BY <2>1, <2>2, <2>3
  <1>8. CASE Encoder!TestFlag
    <2>1. Encoder!TypeOK'
      BY <1>8 DEF Encoder!TestFlag
    <2>2. RequestInv'
      BY <1>8 DEF Encoder!TestFlag
    <2>3. ClockInv' /\ (enabled /\ enabled' => seen' >= seen)
      BY <1>8 DEF Encoder!TestFlag
    <2> QED
      BY <2>1, <2>2, <2>3
  <1>9. CASE Encoder!PassOn
    <2>1. Encoder!TypeOK'
      BY <1>9 DEF Encoder!PassOn
    <2>2. RequestInv'
      BY <1>9 DEF Encoder!PassOn
    <2>3. ClockInv' /\ (enabled /\ enabled' => seen' >= seen)
      BY <1>9 DEF Encoder!PassOn
    <2> QED
      BY <2>1, <2>2, <2>3
  <1>10. CASE Encoder!ClearFlag
    <2>1. Encoder!TypeOK'
      BY <1>10 DEF Encoder!ClearFlag
    <2>2. RequestInv'
      BY <1>10 DEF Encoder!ClearFlag
    <2>3. ClockInv' /\ (enabled /\ enabled' => seen' >= seen)
      BY <1>10 DEF Encoder!ClearFlag
    <2> QED
      BY <2>1, <2>2, <2>3
  <1>11. CASE Encoder!ForceIntra
    <2>1. Encoder!TypeOK'
      BY <1>11 DEF Encoder!ForceIntra
    <2>2. RequestInv'
      BY <1>11 DEF Encoder!ForceIntra
    <2>3. ClockInv' /\ (enabled /\ enabled' => seen' >= seen)
      BY <1>11 DEF Encoder!ForceIntra
    <2> QED
      BY <2>1, <2>2, <2>3
  <1>12. CASE Encoder!EncodeFrame
    <2>1. Encoder!TypeOK'
      BY <1>12 DEF Encoder!EncodeFrame
    <2>2. RequestInv'
      BY <1>12 DEF Encoder!EncodeFrame
    <2>3. ClockInv' /\ (enabled /\ enabled' => seen' >= seen)
      BY <1>12 DEF Encoder!EncodeFrame
    <2> QED
      BY <2>1, <2>2, <2>3
  <1>13. CASE Encoder!EncodeFails
    <2>1. Encoder!TypeOK'
      BY <1>13 DEF Encoder!EncodeFails
    <2>2. RequestInv'
      BY <1>13 DEF Encoder!EncodeFails
    <2>3. ClockInv' /\ (enabled /\ enabled' => seen' >= seen)
      BY <1>13 DEF Encoder!EncodeFails
    <2> QED
      BY <2>1, <2>2, <2>3
  <1>14. CASE Encoder!Deliver
    <2>1. Encoder!TypeOK'
      BY <1>14 DEF Encoder!Deliver
    <2>2. RequestInv'
      BY <1>14 DEF Encoder!Deliver
    <2>3. ClockInv' /\ (enabled /\ enabled' => seen' >= seen)
      BY <1>14 DEF Encoder!Deliver
    <2> QED
      BY <2>1, <2>2, <2>3
  <1>15. CASE UNCHANGED Encoder!vars
    BY <1>15 DEF Encoder!vars
  <1> QED
    BY <1>1, <1>2, <1>3, <1>4, <1>5, <1>6, <1>7, <1>8, <1>9, <1>10, <1>11,
       <1>12, <1>13, <1>14, <1>15
       DEF Encoder!Next, Encoder!EncoderThread

LEMMA EncoderInit == ASSUME MaxTime \in Nat \ {0}, Encoder!Init PROVE EncoderInv
  <1>1. Encoder!TypeOK
    <2>1. /\ enabled \in BOOLEAN /\ sendKeyframe \in BOOLEAN
          /\ intra \in BOOLEAN /\ wanted \in BOOLEAN
      BY DEF Encoder!Init
    <2>2. /\ now \in 1 .. MaxTime /\ baseTs \in 0 .. MaxTime
          /\ pts \in 0 .. MaxTime - 1 /\ seen \in 0 .. MaxTime - 1
          /\ m_sendKeyframe \in 0 .. 2
      BY DEF Encoder!Init
    <2> QED
      BY <2>1, <2>2 DEF Encoder!Init, Encoder!TypeOK
  <1>2. RequestInv
    BY DEF Encoder!Init, RequestInv, Encoder!KeyframeNotForgotten
  <1>3. ClockInv
    BY DEF Encoder!Init, ClockInv
  <1> QED
    BY <1>1, <1>2, <1>3 DEF EncoderInv

THEOREM EncoderCorrect == ASSUME MaxTime \in Nat \ {0} PROVE Encoder!Spec => []EncoderInv
  <1>1. Encoder!Init => EncoderInv
    BY EncoderInit
  <1>2. EncoderInv /\ [Encoder!Next]_(Encoder!vars) => EncoderInv'
    BY EncoderStep
  <1> QED
    BY <1>1, <1>2, PTL DEF Encoder!Spec

(* YangIpcEncoderVideo: a request for a key frame is on its way at every moment *)
(* until a key frame has been sent, whichever two of the thread's steps it      *)
(* falls between and whether or not the codec fails.                            *)
THEOREM NoRequestForgotten ==
  ASSUME MaxTime \in Nat \ {0} PROVE Encoder!Spec => []Encoder!KeyframeNotForgotten
  <1>1. EncoderInv => Encoder!KeyframeNotForgotten
    BY DEF EncoderInv, RequestInv
  <1> QED
    BY <1>1, EncoderCorrect, PTL

(* YangIpcEncoderVideo: within a session, the timestamps that are sent do not   *)
(* go back, although sessions come and go between any two of the thread's steps *)
(* and the clock starts afresh in between.                                      *)
THEOREM SentTimesGrow ==
  ASSUME MaxTime \in Nat \ {0} PROVE Encoder!Spec => Encoder!TimestampsGrow
  <1>1. EncoderInv /\ [Encoder!Next]_(Encoder!vars) =>
          [enabled /\ enabled' => seen' >= seen]_(Encoder!vars)
    BY EncoderStep
  <1> QED
    BY <1>1, EncoderCorrect, PTL DEF Encoder!Spec, Encoder!TimestampsGrow
=============================================================================
