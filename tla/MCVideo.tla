------------------------------- MODULE MCVideo -------------------------------
(* TLC's model of the video path: the ring of pictures (MediaBuffer), the       *)
(* encoder thread that empties it (VideoEncoder) and the two processes that     *)
(* fill it (Capture), the last with a stream that arrives in whole messages and *)
(* with one that is cut anywhere. Capture has the ring as the queue MediaBuffer *)
(* implements, and VideoEncoder does not look at pictures: nothing is shared,   *)
(* so a behaviour runs one part and leaves the others where they began.         *)
EXTENDS MediaBuffer

CONSTANT MaxTime

VARIABLES part, epc, enabled, now, baseTs, pts, sendKeyframe, m_sendKeyframe, intra,
          out, wanted, seen,
          desktop, alive, dead, listening, buffer, loginState, queue, shown, cpc, late,
          hpc, tries, stream, recvDataStart, recvLen

encoderVars == <<epc, enabled, now, baseTs, pts, sendKeyframe, m_sendKeyframe, intra,
                 out, wanted, seen>>
captureVars == <<desktop, alive, dead, listening, buffer, loginState, queue, shown, cpc,
                 late, hpc, tries, stream, recvDataStart, recvLen>>
allVars == <<part, vars, encoderVars, captureVars>>

Encoder == INSTANCE VideoEncoder
Whole == INSTANCE Capture
           WITH Capacity <- 2, MsgUnits <- 2, MaxUnits <- 4, Tries <- 2, Torn <- FALSE,
                taken <- shown
Cut == INSTANCE Capture
         WITH Capacity <- 1, MsgUnits <- 3, MaxUnits <- 6, Tries <- 2, Torn <- TRUE,
              taken <- shown

MCInit == /\ part \in {"ring", "encoder", "whole", "cut"}
          /\ Init /\ Encoder!Init /\ Whole!Init
          /\ part \in {"ring", "encoder"} => desktop = "default"

MCNext ==
  \/ part = "ring" /\ Next /\ UNCHANGED <<part, encoderVars, captureVars>>
  \/ part = "encoder" /\ Encoder!Next /\ UNCHANGED <<part, vars, captureVars>>
  \/ part = "whole" /\ Whole!Next /\ UNCHANGED <<part, vars, encoderVars>>
  \/ part = "cut" /\ Cut!Next /\ UNCHANGED <<part, vars, encoderVars>>

(* Fairness of the capturing processes: that of Capture, in either case.        *)
CaptureThread == \/ part = "whole" /\ Whole!CaptureThread
                 \/ part = "cut" /\ Cut!CaptureThread
CaptureGrab == \/ part = "whole" /\ Whole!CaptureGrab
               \/ part = "cut" /\ Cut!CaptureGrab
Helper == \/ part = "whole" /\ Whole!Helper
          \/ part = "cut" /\ Cut!Helper
HelperGrab == \/ part = "whole" /\ Whole!HelperGrab
              \/ part = "cut" /\ Cut!HelperGrab
ReceiveThread == \/ part = "whole" /\ Whole!ReceiveThread
                 \/ part = "cut" /\ Cut!ReceiveThread
EncoderTakes == \/ part = "whole" /\ Whole!EncoderTakes
                \/ part = "cut" /\ Cut!EncoderTakes
EncodeFrame == part = "encoder" /\ Encoder!EncodeFrame
EncoderThread == part = "encoder" /\ Encoder!EncoderThread

MCSpec ==
  /\ MCInit /\ [][MCNext]_allVars
  /\ WF_captureVars(CaptureThread) /\ SF_captureVars(CaptureGrab)
  /\ WF_captureVars(Helper) /\ SF_captureVars(HelperGrab)
  /\ WF_captureVars(ReceiveThread) /\ WF_captureVars(EncoderTakes)
  /\ WF_encoderVars(EncoderThread) /\ SF_encoderVars(EncodeFrame)

-----------------------------------------------------------------------------
(* The properties of the parts, each stated and explained in its module; the    *)
(* ring's come with EXTENDS.                                                    *)

(* YangIpcEncoderVideo: a key frame that is asked for is on its way at every    *)
(* moment until it is sent, and is sent.                                        *)
KeyframeServed ==
  [](Encoder!TypeOK /\ Encoder!KeyframeNotForgotten) /\ Encoder!KeyframeServed

(* YangIpcEncoderVideo: within a session, sent timestamps do not go back.       *)
TimestampsGrow == Encoder!TimestampsGrow

(* YangScreenWin and YangScreenTcpServer: one late picture of the user's        *)
(* desktop at most, whether messages come whole or cut.                         *)
OnePictureLate ==
  /\ part = "whole" => Whole!TypeOK /\ Whole!OnePictureLate
  /\ part = "cut" => Cut!TypeOK /\ Cut!OnePictureLate

(* YangScreenServer: with whole messages, keys and mouse follow the desktop.    *)
InputFollowsDesktop == part = "whole" => Whole!InputFollowsDesktop

(* YangVideoBuffer: and so does the picture, and none is left in the buffer for *)
(* the next viewer.                                                             *)
ViewerSeesDesktop == part = "whole" => Whole!ViewerSeesDesktop /\ Whole!OldPicturesGo

(* YangScreenServer: however the stream is cut, input comes back to the user.   *)
InputComesBack == part = "cut" => Cut!InputComesBack
=============================================================================
