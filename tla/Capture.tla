------------------------------- MODULE Capture -------------------------------
(* The two processes that capture the screen, and the arbitration between them. *)
(* The screen server captures the user's desktop (YangScreenWin.cpp). A helper  *)
(* process on the winlogon desktop (YangScreenCaptureWin.cpp) captures the lock *)
(* and login screen and sends it over a local TCP connection to the server's    *)
(* receive thread (YangScreenTcpServer.cpp). Both put pictures into the same    *)
(* video buffer, here the bounded queue FrameQueue that MediaBuffer implements. *)
(* m_loginState, a plain flag in that buffer, says whose turn it is, and where  *)
(* keys and mouse go (YangScreenServer.cpp): the receive thread sets it, the    *)
(* capture thread clears it.                                                    *)
EXTENDS Naturals, Sequences

CONSTANTS Capacity,   \* pictures the video buffer holds: 30 in the code
          MsgUnits,   \* pieces a message may be received in, the header in the first
          MaxUnits,   \* pieces the TCP connection buffers (a bound)
          Tries,      \* connection attempts of the helper: 6 in the code
          Torn        \* whether recv may return anything but whole messages

Desktop == {"default", "winlogon"}

VARIABLES desktop,      \* the desktop that has the input, as isWinlogin() tells
          alive,        \* yang_ipc_encoder_enable(): somebody is watching
          dead,         \* the server process has crashed
          listening,    \* the server's socket is listening
          buffer,       \* m_out_videoBuffer: none, created, ready (init has run)
          loginState,   \* m_loginState
          queue, taken, \* FrameQueue: pictures waiting, the one taken last
          cpc,          \* capture thread
          late,         \* pictures it has put since loginState became TRUE, counted up to 2
          hpc, tries,   \* helper
          stream,       \* pieces on the TCP connection: position in their message
          recvDataStart, recvLen   \* receive thread: a header came, pieces since

frames == <<queue, taken>>
capture == <<cpc, late>>
helper == <<hpc, tries>>
receiver == <<recvDataStart, recvLen>>
world == <<desktop, alive, listening>>
vars == <<world, dead, buffer, loginState, frames, capture, helper, stream, receiver>>

Buffer == INSTANCE FrameQueue WITH Frame <- Desktop, NoFrame <- "none"

TypeOK == /\ desktop \in Desktop /\ alive \in BOOLEAN /\ listening \in BOOLEAN
          /\ dead \in BOOLEAN
          /\ buffer \in {"none", "created", "ready"} /\ loginState \in BOOLEAN
          /\ queue \in Seq(Desktop) /\ Len(queue) <= Capacity
          /\ taken \in Desktop \union {"none"}
          /\ cpc \in {"off", "init", "top", "check", "reset", "grab", "push"}
          /\ late \in 0 .. 2
          /\ hpc \in {"connect", "failed", "look", "grab", "send"}
          /\ tries \in 0 .. Tries - 1
          /\ stream \in Seq(1 .. MsgUnits)
          /\ recvDataStart \in BOOLEAN /\ recvLen \in 0 .. MsgUnits - 1

Init == /\ desktop \in Desktop /\ alive = FALSE /\ listening = FALSE /\ dead = FALSE
        /\ buffer = "none" /\ loginState = FALSE
        /\ Buffer!Init
        /\ cpc = "off" /\ late = 0
        /\ hpc = "connect" /\ tries = 0 /\ stream = <<>>
        /\ recvDataStart = FALSE /\ recvLen = 0

-----------------------------------------------------------------------------
(* The user locks the screen or logs in; sessions come and go.                  *)
SwitchDesktop == /\ desktop' \in Desktop \ {desktop}
                 /\ UNCHANGED <<alive, listening, dead, buffer, loginState, frames,
                                capture, helper, stream, receiver>>

SessionChange == /\ ~dead /\ buffer # "none"
                 /\ alive' = ~alive
                 /\ UNCHANGED <<desktop, listening, dead, buffer, loginState, frames,
                                capture, helper, stream, receiver>>

StartListen == /\ ~dead /\ ~listening
               /\ listening' = TRUE
               /\ UNCHANGED <<desktop, alive, dead, buffer, loginState, frames,
                              capture, helper, stream, receiver>>

(* The first page to offer a connection: the handler thread creates the buffer  *)
(* and starts the capture and the encoder thread.                               *)
StartVideo == /\ ~dead /\ buffer = "none"
              /\ buffer' = "created"
              /\ cpc' = "init"
              /\ UNCHANGED <<world, dead, loginState, frames, late, helper, stream, receiver>>

-----------------------------------------------------------------------------
(* The capture thread. It sizes the buffer, which also resets the flag, ...     *)
CaptureInit == /\ ~dead /\ cpc = "init"
               /\ buffer' = "ready"
               /\ loginState' = FALSE
               /\ cpc' = "top"
               /\ UNCHANGED <<world, dead, frames, late, helper, stream, receiver>>

(* ... and while somebody is watching looks at the flag,                        *)
CaptureLook == /\ ~dead /\ cpc = "top" /\ alive
               /\ cpc' = IF loginState THEN "check" ELSE "grab"
               /\ UNCHANGED <<world, dead, buffer, loginState, frames, late, helper, stream, receiver>>

CaptureCheck_Bug == /\ ~dead /\ cpc = "check"   \* no continue in the else branch
                    /\ cpc' = IF desktop = "winlogon" THEN "grab" ELSE "reset"
                    /\ UNCHANGED <<world, dead, buffer, loginState, frames, late, helper, stream, receiver>>

(* asks Windows whether the winlogon desktop is still there,                    *)
CaptureCheck == /\ ~dead /\ cpc = "check"
                /\ cpc' = IF desktop = "winlogon" THEN "top" ELSE "reset"
                /\ UNCHANGED <<world, dead, buffer, loginState, frames, late, helper, stream, receiver>>

CaptureReset_Bug == /\ ~dead /\ cpc = "reset"   \* only the interval is reset
                    /\ cpc' = "grab"
                    /\ UNCHANGED <<world, dead, buffer, loginState, frames, late, helper, stream, receiver>>

(* clears the flag if not,                                                      *)
CaptureReset == /\ ~dead /\ cpc = "reset"
                /\ loginState' = FALSE
                /\ cpc' = "grab"
                /\ UNCHANGED <<world, dead, buffer, frames, late, helper, stream, receiver>>

(* and takes a picture, which may fail                                          *)
CaptureGrab == /\ ~dead /\ cpc = "grab"
               /\ cpc' = "push"
               /\ UNCHANGED <<world, dead, buffer, loginState, frames, late, helper, stream, receiver>>

CaptureGrabFails == /\ ~dead /\ cpc = "grab"
                    /\ cpc' = "top"
                    /\ UNCHANGED <<world, dead, buffer, loginState, frames, late, helper, stream, receiver>>

(* putVideo: a full buffer refuses the picture.                                 *)
PutVideo(d) == \/ Buffer!Put(d)
               \/ Len(queue) = Capacity /\ UNCHANGED frames

CapturePush == /\ ~dead /\ cpc = "push"
               /\ PutVideo("default")
               /\ late' = IF loginState /\ late < 2 THEN late + 1 ELSE late
               /\ cpc' = "top"
               /\ UNCHANGED <<world, dead, buffer, loginState, helper, stream, receiver>>

(* The encoder thread takes pictures whether or not it will encode them.        *)
EncoderTakes_Bug == /\ ~dead /\ alive   \* the codec asked before the picture is taken
                    /\ Buffer!Get
                    /\ UNCHANGED <<world, dead, buffer, loginState, capture, helper, stream, receiver>>

EncoderTakes == /\ ~dead
                /\ Buffer!Get
                /\ UNCHANGED <<world, dead, buffer, loginState, capture, helper, stream, receiver>>

-----------------------------------------------------------------------------
(* The helper connects, retrying until its attempts are used up, ...            *)
HelperConnect == /\ hpc = "connect" /\ listening /\ ~dead
                 /\ hpc' = "look"
                 /\ UNCHANGED <<world, dead, buffer, loginState, frames, capture, tries, stream, receiver>>

HelperRetry == /\ hpc = "connect" /\ (~listening \/ dead)
               /\ IF tries + 1 < Tries THEN tries' = tries + 1 /\ UNCHANGED hpc
                                       ELSE hpc' = "failed" /\ UNCHANGED tries
               /\ UNCHANGED <<world, dead, buffer, loginState, frames, capture, stream, receiver>>

(* ... and as long as the winlogon desktop is there takes pictures              *)
HelperLook == /\ hpc = "look" /\ desktop = "winlogon"
              /\ hpc' = "grab"
              /\ UNCHANGED <<world, dead, buffer, loginState, frames, capture, tries, stream, receiver>>

HelperGrab == /\ hpc = "grab"
              /\ hpc' = "send"
              /\ UNCHANGED <<world, dead, buffer, loginState, frames, capture, tries, stream, receiver>>

HelperGrabFails == /\ hpc = "grab"
                   /\ hpc' = "look"
                   /\ UNCHANGED <<world, dead, buffer, loginState, frames, capture, tries, stream, receiver>>

(* and sends each, with the header in front, when there is room.                *)
Message == [i \in 1 .. MsgUnits |-> i]

HelperSend == /\ hpc = "send"
              /\ hpc' = "look"
              /\ IF dead THEN UNCHANGED stream
                 ELSE /\ Len(stream) + MsgUnits <= MaxUnits
                      /\ stream' = stream \o Message
              /\ UNCHANGED <<world, dead, buffer, loginState, frames, capture, tries, receiver>>

-----------------------------------------------------------------------------
(* The receive thread: one recv, n pieces.                                      *)
Recv(n) == /\ ~dead /\ n <= Len(stream)
           /\ Torn \/ n % MsgUnits = 0
           /\ stream' = SubSeq(stream, n + 1, Len(stream))

(* A header announces that the winlogon desktop is there; the rest of what came *)
(* with it is ignored.                                                          *)
ReceiveHeader(n) ==
  /\ Recv(n) /\ ~recvDataStart /\ Head(stream) = 1
  /\ recvDataStart' = TRUE /\ recvLen' = 0
  /\ loginState' = (loginState \/ buffer # "none")
  /\ late' = IF loginState THEN late ELSE 0
  /\ UNCHANGED <<world, dead, buffer, frames, cpc, helper>>

(* Anything else is skipped until a piece starts like a header.                 *)
ReceiveNoise(n) == /\ Recv(n) /\ ~recvDataStart /\ Head(stream) # 1
                   /\ UNCHANGED <<world, dead, buffer, loginState, frames, capture, helper, receiver>>

ReceivePart(n) == /\ Recv(n) /\ recvDataStart /\ recvLen + n < MsgUnits
                  /\ recvLen' = recvLen + n
                  /\ UNCHANGED <<world, dead, buffer, loginState, frames, capture, helper, recvDataStart>>

ReceivePicture_Bug(n) ==   \* recvDataStart stays set
  /\ Recv(n) /\ recvDataStart /\ recvLen + n >= MsgUnits
  /\ recvLen' = 0
  /\ \/ buffer = "ready" /\ PutVideo("winlogon") /\ UNCHANGED dead
     \/ buffer = "created" /\ dead' = TRUE /\ UNCHANGED frames
     \/ buffer = "none" /\ UNCHANGED <<dead, frames>>
  /\ UNCHANGED <<world, buffer, loginState, capture, helper, recvDataStart>>

(* As many pieces as a picture has: put it. A buffer that has been created but  *)
(* not sized has no frame to copy it to, and the process dies.                  *)
ReceivePicture(n) ==
  /\ Recv(n) /\ recvDataStart /\ recvLen + n >= MsgUnits
  /\ recvDataStart' = FALSE /\ recvLen' = 0
  /\ \/ buffer = "ready" /\ PutVideo("winlogon") /\ UNCHANGED dead
     \/ buffer = "created" /\ dead' = TRUE /\ UNCHANGED frames
     \/ buffer = "none" /\ UNCHANGED <<dead, frames>>
  /\ UNCHANGED <<world, buffer, loginState, capture, helper>>

-----------------------------------------------------------------------------
World == SwitchDesktop \/ SessionChange \/ StartVideo

CaptureThread == \/ CaptureInit \/ CaptureLook \/ CaptureCheck \/ CaptureReset
                 \/ CaptureGrab \/ CaptureGrabFails \/ CapturePush

Helper == \/ HelperConnect \/ HelperRetry \/ HelperLook
          \/ HelperGrab \/ HelperGrabFails \/ HelperSend

ReceiveThread == \E n \in 1 .. MaxUnits :
                   \/ ReceiveHeader(n) \/ ReceiveNoise(n)
                   \/ ReceivePart(n) \/ ReceivePicture(n)

Next == World \/ StartListen \/ CaptureThread \/ EncoderTakes \/ Helper \/ ReceiveThread

(* The threads keep running, and taking a picture does not fail for ever: it    *)
(* times out when nothing has changed on the screen. Nothing is assumed of the  *)
(* user, the sessions, or which of listen and connect comes first.              *)
Fairness == /\ WF_vars(CaptureThread) /\ SF_vars(CaptureGrab)
            /\ WF_vars(Helper) /\ SF_vars(HelperGrab)
            /\ WF_vars(ReceiveThread) /\ WF_vars(EncoderTakes)

Spec == Init /\ [][Next]_vars
FairSpec == Spec /\ Fairness

-----------------------------------------------------------------------------
(* The two producers do not mix: once the winlogon desktop has been announced   *)
(* the capture thread adds at most the one picture it was taking, although it   *)
(* reads the flag long before it puts the picture.                              *)
OnePictureLate == late <= 1

Settled(d) == alive /\ desktop = d /\ hpc \in {"look", "grab", "send"} /\ ~dead

(* Where keys and mouse go: to the helper, or into the user's desktop.          *)
InputGoesTo == IF loginState THEN "winlogon" ELSE "default"

(* While somebody watches and the desktop stays the same, input ends up on the  *)
(* desktop that is there. The capture thread may clear the flag just after the  *)
(* receive thread set it; it comes right because every picture announces again. *)
InputFollowsDesktop == \A d \in Desktop : <>[]Settled(d) => <>[](InputGoesTo = d)

(* And so does what the viewer sees.                                            *)
ViewerSeesDesktop == \A d \in Desktop : <>[]Settled(d) => <>[](taken = d)

(* However recv cuts the stream, the flag does not stick: once the user is back *)
(* and somebody watches, input goes to the user's desktop.                      *)
InputComesBack == <>[]Settled("default") => <>[](InputGoesTo = "default")

(* Nobody gets to see what was on the screen when the last viewer left: the     *)
(* buffer is emptied although nobody watches.                                   *)
Idle == ~alive /\ desktop = "default"
OldPicturesGo == Idle /\ queue # <<>> ~> ~Idle \/ queue = <<>> \/ dead
=============================================================================
