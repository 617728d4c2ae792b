----------------------------- MODULE VideoEncoder -----------------------------
(* The encoder thread (YangIpcEncoderVideo.cpp) and the H264 encoder it drives  *)
(* (YangOpenH264Encoder.cpp): which picture is encoded, with which timestamp,   *)
(* and key frames on demand. A viewer that has lost the picture asks its peer   *)
(* connection for a key frame (YangIpcRtc::sendRequest); the request goes       *)
(* through a plain flag to the thread, from there to the encoder and its codec. *)
(* The flag is tested and cleared in separate steps, and sessions open and      *)
(* close between any two of them.                                               *)
EXTENDS Naturals

CONSTANT MaxTime   \* the clock stops there (a bound)

VARIABLES epc,            \* encoder thread
          enabled,        \* codecEnable.enable(): the session is connected
          now,            \* yang_get_system_time(), never 0
          baseTs, pts,    \* clock of the first frame, timestamp of this one
          sendKeyframe,   \* session->sendKeyframe
          m_sendKeyframe, \* the H264 encoder's: 0 none, 1 asked for, 2 passed on
          intra,          \* the codec has been told ForceIntraFrame
          out,            \* the frame that came out of the codec
          wanted,         \* the viewer waits for a key frame
          seen            \* timestamp of the last frame this viewer was sent

clock == <<now, baseTs, pts>>
flags == <<sendKeyframe, m_sendKeyframe, intra, out>>
viewer == <<wanted, seen>>
vars == <<epc, enabled, clock, flags, viewer>>

TypeOK == /\ epc \in {"get", "have", "off", "stamp", "key", "pass", "clear",
                      "encode", "codec", "deliver"}
          /\ enabled \in BOOLEAN
          /\ now \in 1 .. MaxTime /\ baseTs \in 0 .. MaxTime
          /\ pts \in 0 .. MaxTime - 1 /\ seen \in 0 .. MaxTime - 1
          /\ sendKeyframe \in BOOLEAN /\ m_sendKeyframe \in 0 .. 2
          /\ intra \in BOOLEAN /\ wanted \in BOOLEAN
          /\ out \in {"none", "I", "P"}

Init == /\ epc = "get" /\ enabled = FALSE
        /\ now = 1 /\ baseTs = 0 /\ pts = 0
        /\ sendKeyframe = FALSE /\ m_sendKeyframe = 0 /\ intra = FALSE /\ out = "none"
        /\ wanted = FALSE /\ seen = 0

-----------------------------------------------------------------------------
Tick == /\ now < MaxTime
        /\ now' = now + 1
        /\ UNCHANGED <<epc, enabled, baseTs, pts, flags, viewer>>

(* Sessions come and go; each has a viewer of its own.                          *)
SessionChange == /\ enabled' = ~enabled
                 /\ wanted' = FALSE /\ seen' = 0
                 /\ UNCHANGED <<epc, clock, flags>>

(* A peer asks for a key frame, on its thread: the viewer's peer, or one of an  *)
(* earlier session that has not been deleted yet.                               *)
SendRequest == /\ sendKeyframe' = TRUE
               /\ wanted' \in {wanted, enabled}
               /\ UNCHANGED <<epc, enabled, clock, m_sendKeyframe, intra, out, seen>>

-----------------------------------------------------------------------------
(* The thread has taken a picture from the ring.                                *)
GetFrame == /\ epc = "get"
            /\ epc' = "have"
            /\ UNCHANGED <<enabled, clock, flags, viewer>>

(* Nobody is connected: the picture is skipped, and timestamps start afresh.    *)
CodecEnabled == /\ epc = "have"
                /\ epc' = IF enabled THEN "stamp" ELSE "off"
                /\ UNCHANGED <<enabled, clock, flags, viewer>>

Skip_Bug == /\ epc = "off"   \* also drops requests for a key frame
            /\ baseTs' = 0 /\ sendKeyframe' = FALSE
            /\ epc' = "get"
            /\ UNCHANGED <<enabled, now, pts, m_sendKeyframe, intra, out, viewer>>

Skip == /\ epc = "off"
        /\ baseTs' = 0
        /\ epc' = "get"
        /\ UNCHANGED <<enabled, now, pts, flags, viewer>>

Stamp == /\ epc = "stamp"
         /\ baseTs' = IF baseTs = 0 THEN now ELSE baseTs
         /\ pts' = now - baseTs'
         /\ epc' = "key"
         /\ UNCHANGED <<enabled, now, flags, viewer>>

(* if(session->sendKeyframe) encoder->sendMsgToEncoder: tested, passed on ...   *)
TestFlag == /\ epc = "key"
            /\ epc' = IF sendKeyframe THEN "pass" ELSE "encode"
            /\ UNCHANGED <<enabled, clock, flags, viewer>>

PassOn == /\ epc = "pass"
          /\ m_sendKeyframe' = 1
          /\ epc' = "clear"
          /\ UNCHANGED <<enabled, clock, sendKeyframe, intra, out, viewer>>

ClearFlag_Bug == /\ epc = "clear"   \* a key frame restarts the timestamps
                 /\ sendKeyframe' = FALSE
                 /\ baseTs' = 0
                 /\ epc' = "encode"
                 /\ UNCHANGED <<enabled, now, pts, m_sendKeyframe, intra, out, viewer>>

(* ... and cleared.                                                             *)
ClearFlag == /\ epc = "clear"
             /\ sendKeyframe' = FALSE
             /\ epc' = "encode"
             /\ UNCHANGED <<enabled, clock, m_sendKeyframe, intra, out, viewer>>

ForceIntra_Bug == /\ epc = "encode"   \* if (m_sendKeyframe == 2)
                  /\ m_sendKeyframe' = IF m_sendKeyframe = 1 THEN 2 ELSE m_sendKeyframe
                  /\ intra' = (intra \/ m_sendKeyframe = 2)
                  /\ epc' = "codec"
                  /\ UNCHANGED <<enabled, clock, sendKeyframe, out, viewer>>

ForceIntra == /\ epc = "encode"
              /\ m_sendKeyframe' = IF m_sendKeyframe = 1 THEN 2 ELSE m_sendKeyframe
              /\ intra' = (intra \/ m_sendKeyframe = 1)
              /\ epc' = "codec"
              /\ UNCHANGED <<enabled, clock, sendKeyframe, out, viewer>>

(* EncodeFrame returns a frame, a key frame if the codec was told so and now    *)
(* and then (uiIntraPeriod) anyway, or an error, which leaves it told.          *)
EncodeFrame == /\ epc = "codec"
               /\ out' \in {"I"} \union {f \in {"P"} : ~intra}
               /\ intra' = FALSE
               /\ epc' = "deliver"
               /\ UNCHANGED <<enabled, clock, sendKeyframe, m_sendKeyframe, viewer>>

EncodeFails == /\ epc = "codec"
               /\ epc' = "get"
               /\ UNCHANGED <<enabled, clock, flags, viewer>>

(* onVideoData drops the frame if the session has been closed meanwhile.        *)
Deliver ==
  /\ epc = "deliver"
  /\ wanted' = (wanted /\ (~enabled \/ out # "I"))
  /\ seen' = IF enabled THEN pts ELSE seen
  /\ m_sendKeyframe' = IF m_sendKeyframe = 2 THEN 0 ELSE m_sendKeyframe
  /\ out' = "none"
  /\ epc' = "get"
  /\ UNCHANGED <<enabled, clock, sendKeyframe, intra>>

EncoderThread == \/ GetFrame \/ CodecEnabled \/ Skip \/ Stamp \/ TestFlag \/ PassOn
                 \/ ClearFlag \/ ForceIntra \/ EncodeFrame \/ EncodeFails \/ Deliver

Next == Tick \/ SessionChange \/ SendRequest \/ EncoderThread

Spec == Init /\ [][Next]_vars

(* Pictures keep coming while somebody is connected (Capture), and the codec    *)
(* does not fail for ever.                                                      *)
FairSpec == Spec /\ WF_vars(EncoderThread) /\ SF_vars(EncodeFrame)

-----------------------------------------------------------------------------
(* A viewer's request is on its way at every moment until a key frame has been  *)
(* sent: one that comes while the thread has tested the flag and not yet        *)
(* cleared it loses the flag, and is served by the frame that is being made.    *)
KeyframeNotForgotten == wanted => sendKeyframe \/ m_sendKeyframe = 1 \/ intra \/ out = "I"

(* A viewer that asks for a key frame and stays gets one, also when the codec   *)
(* fails on the frame that was to be it.                                        *)
KeyframeServed == wanted ~> ~wanted

(* The timestamps a viewer is sent never go back, whichever session the thread  *)
(* saw when it last restarted them.                                             *)
TimestampsGrow == [][(enabled /\ enabled') => seen' >= seen]_vars
=============================================================================
