# metaScreenshare in TLA+

metaScreenshare shares a Windows screen with browsers. A Windows service starts two processes, a screen server in
the user's session and a helper on the winlogon desktop; browsers find the server through an MQTT broker and get the
picture over WebRTC. This directory holds TLA+ modules that model the parts of it in which threads, processes and
messages interleave, the TLC configurations that check them, and proofs checked by TLAPS.

Run, in this directory, `tlc -config MCVideo.cfg MCVideo.tla` (and so on for every `.cfg`, see *Runs*; a `.cfg` that has no
module of its name belongs to the module that begins it) and `tlapm MediaBufferProofs.tla` (and every other `*Proofs.tla`).

## 1. Inventory

Paths are relative to `src/`.

| Component | Where | State it keeps | Operations | Talks to |
|---|---|---|---|---|
| Video ring | `libyangrtc8/src/yangutil/buffer/YangMediaBuffer.cpp`, `YangVideoBuffer.cpp` | `m_frames`, `m_putIndex`, `m_getIndex`, `m_size`, `m_loginState` | `putFrame`, `getFrame`, `getFrameRef`, `init` | two producers, one encoder |
| WebRTC session | `libyangscreen/src/yangipc/YangIpcRtc.cpp` | `m_peer`, `m_pacer`, `m_isConnected`, `m_connState`, `m_inited`, `m_isStart`, `m_mutex` | `start`, `connect`, `setLocalDescription`, `disconnectPeer`, pacer thread, `onVideoData`, `checkAlive`, peer callbacks | IPC glue, encoder thread, precompiled peer connections |
| IPC glue | `YangIpc.cpp`, `YangIpcHandleImpl.cpp` | `m_isInitRtc`, the handle's function table | `addPeer`, `close`, `addCandidate`, `isAlive` | message server, session |
| Message thread | `libyangscreen/src/yangsignal/YangIpcMessage.cpp` | message list, `isConnected`, `uidSeq` | put, send, thread loop, restart | MQTT library, message server |
| Message server | `YangIpcMessageServer.cpp` | `connCids` | login, close, answer, ping, candidate | pages (MQTT), session |
| Browser page | `screenshare8_html/js/yangmqtt.js`, `ipc.mqtt.sdk.js`, `yangdef.js`, `index_mqtt.html` | `yang_uid`, `yang_isPlaying`, `yang_connected`, `sdk`, `datachannel` | play, stop, reconnect, message handlers | MQTT, player SDK |
| Player SDK | `screenshare8_html/js/srs.sdk.js`, `srs.sdk.p2p.js`, `ipc.mqtt.sdk.js`, `ipc_hd.mqtt.sdk.js` | `self.pc`, per call where its `async` function is | `play`, `publish`, `playP2p`, `playSrs`, `playZlm`, `answerPlay`, `close` | the page's globals, a media server's HTTP API, MQTT, WebRTC |
| Addresses | `winlin.utility.js`, `srs.page.js`, `srs.utility.js`, the parsers of the SDKs | - | query and URL parsing, building, `prepareUrl` | page, player SDK |
| Refresh | `winlin.utility.js`, `AsyncRefresh2` | `__call`, per call `__enabled`, `__timeout`, `__handler` | `refresh_change`, `request`, `stop`, `restart` | the views of a page |
| Adapter: connection | `adapter-7.4.0.js`, the polyfill of `RTCPeerConnection` for browsers with ORTC | `transceivers`, `signalingState`, `usingBundle`, gatherers with their buffers, aggregated states | tracks, `createOffer`, `createAnswer`, `set...Description`, candidates, `close`, timers, callbacks of transports | page, native ICE, DTLS and RTP objects |
| Adapter: descriptions | `adapter-7.4.0.js`, `SDPUtils`, `getCommonCapabilities` | - | write, parse, agree | connection |
| Adapter: local streams | `adapter-7.4.0.js`, two shims for Chrome | `_shimmedLocalStreams`; `_streams`, `_reverseStreams` | `addStream`, `removeStream`, `addTrack`, `removeTrack`, descriptions | page, native connection |
| Adapter: servers | `adapter-7.4.0.js`, `filterIceServers` (two) | the page's own configuration object | constructor | page, gatherers |
| Encoder thread | `YangIpcEncoderVideo.cpp`, `libyangrtc8/src/yangencoder/YangOpenH264Encoder.cpp` | `sendKeyframe`, `baseTs`, `m_sendKeyframe` | thread loop, `sendMsgToEncoder`, `encode` | ring, session |
| Screen capture | `libyangscreen/src/yangcapture/win/YangScreenWin.cpp` | `m_loop`, the ring's `m_loginState` | `startLoop`, `getFrame`, `pushVideo` | ring, GDI or DXGI |
| TCP server | `screenshareService/YangScreenTcpServer.cpp`, `YangScreenServer.cpp` | `m_connFd`, `m_videoBuffer`, `m_isLoop` | listen, receive thread, `sendKeyMouseMessage` | helper, ring, keyboard and mouse |
| Winlogon capture | `screenshareService/YangScreenCaptureWin.cpp` | `m_socket`, `m_isLoop` | connect, capture loop, input thread | TCP server |
| Service | `YangScreenService.cpp`, `ServiceBase.cpp`, `ThreadPool.h` | process handles, `m_procId1`, `m_fStopping`, `m_hStoppedEvent` | start, stop, shutdown, create a helper, watch it | Windows SCM |
| Input | `YangScreenEvent.cpp`, `YangMouseEvent.cpp`, `YangKeyboard.cpp` | pressed buttons | decode and inject events | TCP server, session |
| Manager | `YangServerManager/` | its windows | install, start and stop the service | Windows SCM |
| Media utilities, headers | `libyangrtc8/src/yangutil`, `include/` | - | colour conversion, threads, strings | all |

How they interact. *Signalling*: page -> broker -> message list -> handler thread -> `addPeer` -> `connect` creates a peer
connection, the answer goes back, then `setLocalDescription` lets the peer start, and from then on candidates are sent
from the peer's own threads. *Pictures*: capture thread or TCP receive thread -> ring -> encoder thread -> `onVideoData` ->
pacer of the current peer. *Back*: a peer's threads report connection states, ask for key frames and deliver input events,
which go to the user's desktop or, while `m_loginState` is set, over TCP to the helper.

What is hard, and what makes each part correct:

- The ring counts a slot as free when the encoder gets a pointer into it. Correct: it is a queue, and the picture under
  encoding stays as it is as long as possible.
- The session has five kinds of threads and a lock around two assignments. Correct: the peer pointer is usable whenever
  somebody uses it, frames go to the current peer, closed sessions release their peer, the handler is never locked out.
- Signalling is asynchronous both ways, links break, pages come and go, a login evicts whoever is watching, and a
  candidate finds its page by a number. Correct: replies reach the right page, in a usable order, and everybody gets
  an outcome.
- The encoder thread's flags are plain variables. Correct: no request for a key frame is lost, timestamps grow.
- Two processes capture one screen in turn, arbitrated by a plain flag that one thread sets and another clears, over TCP.
  Correct: what the viewer sees and where input goes settle on the desktop that is there.
- In the page everything is asynchronous but single-threaded: what runs after an `await` or in a timer finds globals that a later click has
  changed. Correct: one connection is open, the one the page can close; failures clean up; a view that is left is not called again.
- The adapter builds `RTCPeerConnection` out of objects that know nothing of offers. Correct: the signalling state moves as JSEP says,
  m-lines, transports, senders and tracks belong together after any sequence of calls, states are told, and nothing is told after close.
- Two browsers agree by text. Correct: what is written is what is read, and what one side sends the other has set up to receive.
- The service creates a helper process on a thread of its own each, while the control handler may stop it. Correct: a stop
  ends, after the worker, no process on record outlives it, and the winlogon helper that a remote session took along is
  created again.

The hazards, each at its line and with the properties that cover it, are in `PROJECT.json`.

## 2. Plan

1. `FrameQueue`, `MediaBuffer`, `MediaBufferProofs`: the ring and its contract. **Done.**
2. `PeerSlot`, `IpcRtc`, `IpcRtcProofs`: the session and its contract. **Done**, except session stop and destructors.
3. `Signaling`, `SignalingProofs`: pages, broker, message server, on top of `PeerSlot`. **Done.**
4. `Capture` on top of `FrameQueue`, `VideoEncoder`, `VideoProofs`. **Done**, except several helper connections.
5. `Service`, `ServiceProofs`: start, stop, process creation and watch. **Done.**
6. The page's side, `Jsep`, `OrtcPeer`, `OrtcGather`, `OrtcPeerProofs`: the adapter's peer connection and its contract. **Done**, except remote streams.
7. `Filter`, `Sdp`, `SdpLines`, `Negotiation`, `LocalStreams`, `StreamIds`, `IceServers`: what surrounds it. **Done.**
8. `Player`, `PlayerProofs`, `Url`, `AsyncRefresh`, `PageProofs`: what pages do with it; the proofs about what item 7 names are in `PageProofs` too. **Done.**
9. `HelperLink`: accept loop, several connections sharing `m_connFd` and `m_isLoop`, helper input thread. Left.
10. `Shutdown`: stop and destructors of session, encoder thread, message thread and handle. Left.
11. `Input`: keys and buttons held over a switch of desktop. Left.
12. Proofs: every safety property that a run checks is proved, except those of gathering (`GatheredRight`) and of codecs (`NegotiationAgrees`).
    Left: these two, and whatever items 9 to 11 bring.

## 3. Modules

**FrameQueue** is the contract of the ring: a bounded FIFO that refuses when full. `queue` is what waits, `taken` what
was delivered last.

**MediaBuffer** is `YangMediaBuffer.cpp`. `frames`, `putIndex`, `getIndex`, `size` are the fields of the same names;
`PutFrame`, `PutFrameFull`, `GetFrame`, `GetFrameRef` are the functions, each under `m_lock`, so one step each.
`reading`, `ref`, `taken` belong to the encoder thread between `getFrameRef` and the end of `encode`. `CacheNum` is
`m_cache_num`. `ImplementsFrameQueue` maps the ring to `FrameQueue`.

**PeerSlot** is what signalling relies on: one slot for the current peer, one peer under negotiation, a flag that a
session is open, and `Decide`/`Reap` for the thread that deletes the peer of a closed session, possibly late.

**IpcRtc** is `YangIpcRtc.cpp` with its threads. Each `m_x` is the variable `x`; `hpc`, `wpc`, `epc` say where handler,
pacer threads and encoder are, a step being a stretch of code with one access to shared fields. `enablePacer` is chosen by the configuration and never changes: without pacer threads the encoder deletes the peer of a closed session, and takes no lock. `closing` holds the threads
between the two writes of `disconnectPeer`. `live`, `born` follow objects through `new` and `delete`; `started` and `up` stand for what the
precompiled peer connection reports. `ImplementsPeerSlot` maps it to `PeerSlot`, with pacer threads.

**Signaling** composes pages, broker and server over an INSTANCE of `PeerSlot`. Per page: `link`, `uid`, `playing`, `sdk`;
`inbox` is what the broker holds for it. `queue` is the server's topic and its message list in one, both first in first
out; its head is the message being handled. The server keeps `connCids`, `uidSeq`, `isConnected`. `owner` and
`cand` follow each peer and its candidate callback, which reads the connection list in one step and publishes in
another (`FindCandidate`, `SendCandidate`). `MessageThread` is `yang_ipcmessage_handleMessage`; its answer is cut where the
code calls out: `Accept`, `SendAnswer`, `SetLocalDescription`.

**Capture** composes the capture thread, the helper process, the TCP connection and the receive thread over an INSTANCE of
`FrameQueue` (so what `MediaBufferProofs` shows of the ring is what `Capture` uses). Pictures are named by the desktop they show. `cpc` cuts
the capture loop where it reads the flag, asks for the desktop, clears the flag, grabs and puts. `stream` is what is in the TCP connection, in pieces of a message;
`Recv(n)` takes any number of pieces if `Torn`, whole messages otherwise. `dead` is the process ended by a picture that is put before the buffer has
frames (`YangScreenTcpServer.cpp:71` with `YangScreenWin.cpp:147`).

**VideoEncoder** is the encoder thread and the H264 wrapper. `sendKeyframe`, `m_sendKeyframe`, `baseTs` are the fields; `intra` and `out` are
the codec, `wanted` and `seen` the viewer.

**Service** is `YangScreenService.cpp` on `ServiceBase.cpp`. `cpc` is the control thread (`Start`, then `Stop` or `Shutdown` cut at each
shared access), `wpc` the worker, `lpc` one launcher per `CreateThread`: both winlogon launchers store into `m_proc1`. `child` are the helper
processes, which outlive the service process (`alive`). Every call of the system may fail, `MaxFaults` times in all. After a failed
`CreateProcessAsUser` the code releases everything twice: `risk` are process handles that may have got the number of a closed one, `closed` those that a second
`CloseHandle` hit; the second `DestroyEnvironmentBlock` may end the process (`ReleaseCrashes`). `known` remembers what was on record when the stop began.

**Jsep** is the contract of negotiation: offers and answers move one signalling state, and closing is final.

**OrtcPeer** is the polyfill of `RTCPeerConnection`. `transceivers` is the array of that name, one record per m-line; `transports` are the ICE and
DTLS pairs an m-line owns or shares; `moves` counts what native transports have reported. Each method is an action that contains all it calls
(`createOffer` changes transceivers, `setRemoteDescription` starts receivers, shares transports and reports states); `NegotiationTimer`, `FourSecondTimer` are its two timers,
`IceStateChange` and `DtlsStateChange` the callbacks of transports. `SetRemoteDescriptionThrows` is the case in which it throws with sections applied and the state not changed. `refused` remembers that an
m-line was rejected (`Remember`): a description applied after that may throw half way, so `LinesAgree` is about what has not been refused. A remote
peer sends any description that keeps the m-lines negotiated so far; tracks, bundling, rejection and candidates are its choices.

**OrtcGather** is `_createIceGatherer` and `_gather`: candidates found before `setLocalDescription` are buffered and replayed by a timer, later ones handled at
once; `lines` is the description, `events` what the application saw. `LateBundle` is an answer that turns out to bundle.

**Filter** has `Pick`, which is `Array.prototype.filter` by the places of the elements that pass. **Sdp** holds the functions of `SDPUtils` on sections whose lines are token sequences; **SdpLines** sends candidates, data channels, transport, direction and stream from one side to the other in
every form they may take; **Negotiation** runs rounds of offer and answer between two browsers with any codecs, order, numbering and version.

**LocalStreams** and **StreamIds** are the two shims that make `addStream` and `addTrack` agree (`shimAddTrackRemoveTrackWithNative`, `shimAddTrackRemoveTrack`). The native connection may
use idle senders again or not. In `LocalStreams` streams may share tracks or have none, any track may be added with any stream, and all calls may be mixed. The history variable `mark` remembers what was done with a stream that the list cannot follow; `LocalAgrees` is about
the streams that are `Plain`: with tracks of their own, no foreign track added with them, and no `removeTrack` after `addStream` used a sender again. A plain stream is told rightly whatever is done with the others. **IceServers** is the constructor with both filters; the shim writes its result into the page's own configuration object, so a second construction filters again.

**Player** has one record of state per SDK object: `pc`, the `call` that made it, the `await` its function has come to (`at`) and its `outcome`. `sdk` and `channel` are the globals of the page. `Continue`
is what a function does after an `await`; a failure goes to the `catch` of the page (`Rejected`), which closes whatever is in `sdk`.

**Url** is the way of an address: query, `build_default_rtc_url` or `build_default_flv_url`, the SDK's parser, `prepareUrl`. An address is a record; `AnchorPort` is what the `<a>` element makes of a port,
`Overwritten` a field that a key of the query has replaced, `ApiPort` the choice of the port of the API that comes after. `AddressArrives` says it of the addresses the page builds (`PageIntent`), of those a user types (`TypedIntent`: server, application, stream, virtual host;
`ParametersPass`), and of the port that was asked for in either way (`PortArrives`: in the address, as `api` of the page, by a key `port`).

**AsyncRefresh** is `AsyncRefresh2`. Per call (a view that was opened): `enabled`, timers `armed`, and `loads` on their way.

*Modules for TLC.* **MCVideo**, **MCSignaling**, **MCPeer**, **MCAdapter** and **MCPage** set several parts that do not interact, or several
instances of one part, side by side: the first state chooses one (`part`, `case`), every step is a step of it, and the others stay where they began. So the states of a run are the sum of
those of its parts, and a property of a part is checked in exactly the behaviours of that part. Where parts do interact they are composed in one state: `Signaling` over `PeerSlot`, `Capture` over
`FrameQueue`, `OrtcPeer` under `Jsep`, `Negotiation` and `SdpLines` over `Sdp`.

Seeded faults, the definitions ending in `_Bug`, `_Late`, `_KeepsLock` and so on, precede the definitions they vary; each breaks a property of
a run when it takes its place.

## 4. Runs

| Run | Configuration | What it shows |
|---|---|---|
| `video` | `MCVideo.cfg`. Ring: 3 slots, 2 pictures. Encoder: clock up to 4. Capture twice: queue of 2 and messages of 2 pieces that come whole; queue of 1 and messages of 3 pieces cut anywhere | the ring is a queue (`RingAgrees`, `ImplementsFrameQueue`), the encoder's picture changes only after producers have filled it (`HeldFrameIntact`); key frames are sent, timestamps do not go back; at most one picture is late, input and picture settle on the desktop that is there, and with a stream that is cut input still returns to the user |
| `rtc` | `IpcRtc.cfg`: 2 peers, 2 pacer threads, or none | `m_peer` and `m_pacer` are usable, also where the encoder deletes without the lock; with pacer threads `PeerSlot` is implemented and closed peers go; the handler returns (`SessionFinishes`) |
| `service` | `Service.cfg`: 1 session change, 1 failing call | a stop ends, after the worker, and kills what is on record; the winlogon helper comes back |
| `signaling` | `MCSignaling.cfg`: 2 pages, 2 peers, 2 clicks, with 1 lost link and 1 candidate; with 1 restart and a server link that may fail; with 1 lost link, fair | uids are unique and replies reach their page (`RoutedByUid`), answer before candidate, uids grow; whoever plays offers and every offer is settled (`PlaysGetAnswers`) |
| `peer` | `MCPeer.cfg`: 2 m-lines, 2 transports, an audio and a video track, cut down per case (long sequences; states; rejections; `negotiationneeded`); gathering with 2 m-lines, 3 candidates each | `JsepSpec`, m-lines and tracks and transports belong together (`LinesAgree`), states are told (`ToldRight`), nothing after close, tracks are announced, candidates become events and lines once, in order, and end (`GatheredRight`) |
| `adapter` | `MCAdapter.cfg`: 2 codecs and 2 numberings per browser, 2 rounds; 2 or 3 streams, 3 or 4 tracks, in `LocalStreams` shared or not; 2 servers with 2 urls | what is written is read (`TextArrives`); what is sent is understood (`NegotiationAgrees`); plain local streams are listed while they are sent, and ids come back; one TURN server, and the one that can be used |
| `player` | `Player.cfg`: 3 sessions, 4 kinds of page | one connection is open, its data channel is the global one, failures clean up, every call comes to an end or is replaced |
| `page` | `MCPage.cfg`: 3 hosts, 2 parameters per address; 3 views, 2 restarts, 2 popovers | `AddressArrives`; `OldIsHarmless`: an old view is not called; `KeepsRefreshing`, without multiplying |
| `refused` | `SignalingRefused.cfg` | a violation: a page is told to close another page's connection when there is none |
| `service_helpers` | `ServiceHelpers.cfg`: nothing fails | a violation: a helper does not see that the service has stopped |
| `ortc_receiver` | `OrtcPeerReceiver.cfg`: one track, one m-line, an application that answers an offer before it makes another | a violation: a receiver that `createOffer` made is idle when the answer to a remote offer is set |
| `player_other` | `PlayerOther.cfg`: 2 sessions of a page that plays from SRS | a violation: the late reply to a play that was replaced closes the connection of the play that replaced it |

*Properties that are conjunctions.* `RingAgrees`, `PacerUsable`, `RoutedByUid`, `ToldRight`, `LinesAgree`, `GatheredRight` and the like are conjunctions of named parts, each
explained where it is defined; where it matters that a part can be broken by itself, each has a seeded fault of its own.

*Bounds.* Three slots let the ring wrap with a frame held, a frame waiting and a free slot; two pictures tell overwritten from intact.
Two peers are the current one and the next, or an old one whose callbacks come late; two pacer threads are the double start. `Peer` bounds the
connections ever made: requests stop when none is left. Two pages compete for the one session; two clicks are play and play again, or play and stop;
one lost link makes a page reconnect while its messages are on their way. One restart leaves pages with uids of the life before. With two pieces per message the receive
thread sees a header alone, a message, or two together; with three, pieces from the middle too. Six connection attempts of the helper are two: the first and the last. A clock of 4 lets a session start, send two frames apart and restart. One session change is the
end of the remote session that the worker watches for (a service may start inside one); one failing call is any single one of them; `ServiceProofs` has no such bounds.
Two m-lines are what bundling, rejection of the first, and aggregation of states need; three remote descriptions are an offer or answer, its renegotiation, and one more; two transports are one each, or one shared and one given up;
three reports of transports are one that connects, one that fails and one that comes after. The peer connection as a whole is beyond TLC, so `MCPeer` cuts a dimension in each case: no
candidates and reports where sequences are long, one round more or less where reports come. Three candidates per gatherer are one buffered, one replayed and one that overtakes. Two codecs with two numberings make numbers collide; two
rounds are an offer from either side or a renegotiation. Three SDK objects are one that is open, one that replaces it and one that replaces that; three views likewise. Two keys per query make repetition and order matter.

*Deadlock.* `CHECK_DEADLOCK FALSE` in the signalling violation, where users may stop clicking with all messages handled, in the runs of the service, which ends, and in those of the page and its
connection, where the application may stop calling and every bound is reached.

*Fairness.* Threads that poll in a loop (`pacer`, `capture`, `encoder`, `helper`, message thread) are scheduled by the operating system: weak
fairness of their steps. In `IpcRtc` the mutex is only held across straight-line code, so weak fairness is enough for the handler. A page's handlers are run by the browser, and
the MQTT client reconnects by itself. Strong fairness is assumed where a step competes with its own failure: taking a picture (it times out while the
screen does not change) and encoding one. Threads of the service are scheduled while its process lives. In the page timers fire, callbacks of what was started come, popovers are closed, and the browser answers every call by fulfilment or failure (`Player`: except the promise that publishes an offer, which the code never settles). Native gatherers find their candidates. Nothing is assumed of the application's calls, of the SCM, of failing calls, of users, links, desktops, sessions, restarts, peer callbacks, or whether the helper ever gets connected: `InputFollowsDesktop` and
`ViewerSeesDesktop` speak of a helper that did.

*The findings.* `yang_ipcmessage_answer` replies `HasConnected` to any error of `connect`; the page tells its user to close the other page's connection. `refused` shows
it with no session open: the first offer that cannot be negotiated is enough. A helper process loops until `g_fStopping`, "Periodically check if the
service is stopping" (`screenshareService.cpp:91`); nothing sets it. `service_helpers` shows a helper that keeps running: its launcher stored the handle just after `OnStop` had looked.
`createOffer` leaves idle receivers in the transceivers; a remote offer that comes before the own one was set takes them for running ones. `ortc_receiver` shows it: `createOffer`, a remote offer, `createAnswer`, `setLocalDescription`, and the connection is stable with a sender that runs and a receiver that is idle.
The `catch` of a play closes the global `sdk`. `player_other` shows two plays on one page: the second replaces the first while the request of the first is out; its reply comes, finds the object closed and throws; and the `catch` closes the connection of the second, which had just begun.

*Seen while modelling, kept in the modules, with no run of their own.* The models do what the code does here, and the properties are worded so that they hold of it; comments say where.

- `IpcRtc`: without pacer threads the encoder may delete the new peer while `connect` attaches the pacer to it; `PeerPointerValid` promises that object with pacer threads only.
- `Url`: a port that is the default of the scheme the parser puts in (80, or 443 for the page's own SDK) counts as none, so that 1985 or 443 takes its place (`PortArrives` says so); `?schema=https` is ignored by the p2p SDKs, which look at a check box no page has; a
  value is cut at its second `=`; keys named like fields (`port`, `app`, `server`) overwrite them; Zlm drops all parameters.
- `IceServers`: a STUN url with `?transport=udp` is dropped although the comment over both filters says that it stays.
- `Negotiation`: in a later offer retransmission codecs take the number of the last remote one with their name and keep `apt`; the number of audio channels is lowered in `numChannels` and written from `channels`.
- `OrtcPeer`: transports that bundling gives up are stopped by nobody, also not by `close`; the four-second timer ends the candidates again after the application has. `OrtcGather`: after a late bundling answer the null candidate may be missing.
- `AsyncRefresh`: `refresh_change` clears a handle that does not exist, so old timers fire (and do nothing: `OldIsHarmless`); a load of the old view that comes back starts one of the new view while one is on its way.
- `LocalStreams`: `addStream` on idle senders records the stream with none, so that a `removeTrack` afterwards drops it from the list; a stream with no tracks is listed and not sent; `removeStream` stops the tracks it shares with another stream, which stays listed, and leaves a
  foreign track that was added with it, whose stream is then sent and not listed. `StreamIds`: a stream added twice while it has no tracks stays after it is removed (so `Least` is 1).
- `Player`: an MQTT answer goes to whatever is in `sdk`, also when the offer was of an older one; a constructor that throws leaves the closed object in `sdk`.

## 5. Proofs

Proved for every value of the constants, from the `ASSUME`s of the modules (listed below). Each invariant is the types first, then the rest with the types as a
lemma, one step per action; what the prover cannot see in one go (sequences, sets of records) is a lemma of its own.

- `MediaBufferProofs`: `TypeCorrect`; `RingCorrect`, the inductive invariant `RingInv`: indices and count agree (modulo the capacity), waiting slots
  hold the pictures that were put, the slot under encoding is the one just behind the next to read, and intact unless the ring is full. `HeldFrameIntact` alone is not inductive: nothing
  in it says which slot a put will write. `RingSound` is what the run checks; `RingImplementsQueue`: every put appends or stutters, every get delivers the oldest. `OneLate` and `TimesGrow` are the properties of `MCVideo` about the
  two ends of the ring, obtained from `VideoProofs` by instantiation.
- `VideoProofs`, for any sizes (`Sizes`: a message has at least one piece, a helper tries at least once) and any end of the clock (`MaxTime`). Capture: `CaptureCorrect`, whose `LateInv` adds to "one late picture at most" why there is no second one: once the flag is up and a picture was put, the
  capture thread has come round to the place where it sees the flag. Encoder: `EncoderCorrect`, whose `RequestInv` follows a request for a key frame from the flag into the codec and out of it, and whose `ClockInv` bounds what was sent by the clock of this session. From them
  `OneLateAtMost`, `NoRequestForgotten` (the safety half of `KeyframeServed`) and `SentTimesGrow`.
- `IpcRtcProofs`: `TypeCorrect`; `SessionSafe`, the inductive invariant `SessionInv`: who is inside which critical section (`LockInv`), what `connect` holds in its local
  variable (`ConnectInv`), that `m_peer` is live outside the deletions (`PointerInv`) and that a peer told its local description implies a pacer (`PacerInv`; callbacks of
  a peer long gone may set the state, so the state alone says nothing). From it `PeerPointerSafe`, `PacerFollows`, `EncoderSafe` and `PacerIsUsable`, with pacer threads and without, and `SessionImplementsSlot`, the refinement with them.
- `SignalingProofs`: the steps are first described by what they do to uids (`UidMoves`), to the life of a peer (`LifeMoves`) and to what is on its way (`QueueMoves`, `InboxMoves`), and each invariant is proved from these four
  descriptions. `InvCorrect` is the inductive invariant `IInv`. `RoutedByUid` alone says nothing of messages under way, so a login or a late reply could break it: `UidInv` says that every uid kept, queued or travelling is its page's
  (until the server restarts, which forgets them), `OwnerInv` the same of peers and their candidate callbacks, `LifeInv` and `MailInv` that messages are about peers that have got that far, `OrderInv` that login responses come in the order of their uids. From it
  `RoutingCorrect`, `AnswerFirst` and `UidsOnlyGrow`, for any number of pages, peers, clicks, lost links and restarts.
- `ServiceProofs`: `TypeCorrect`; `ServiceInv`, the inductive invariant `IInv`: each launcher runs once (`LaunchedOnce`; without it a second run could
  store over what the first has stored), what is on record stays there (`Recorded`), what `OnStop` has killed stays dead (`Killed`), the event comes
  from a worker that has seen the flag (`Signalled`). From it `OnStopKills` (`SurvivorsWereLost`) and `StopWaitsForWorker` (`StoppedAfterWorker`).
- `OrtcPeerProofs`, for any set of tracks and streams, any number of m-lines and transports, and any descriptions. *Signalling*: `ClosedAgrees`, the inductive invariant `ClosedInv` (`isClosed` exactly when the state is `closed`, which is what makes the guards of `set...Description` refuse every call after `close`); `NextSignals` sorts every action by
  what it does to the signalling variables; from both `PeerImplementsJsep`, the refinement of `Jsep`, and `ClosedIsSilent`. *States*: `ToldCorrect`. `ToldRight` is not inductive: a transport that an m-line will get must be new (`Untouched`), a rejected line must have none
  (`Bare`), the description must not be longer than the list (`Described`). With these (`PeerInv`) every action is `LinesStep` (each m-line keeps its transport, takes a fresh one, shares the first, or gives it up) and `TransportsStep`, and `StepsKeep` does the rest. *M-lines*: `LinesCorrect`. As long as nothing was
  rejected, `FitInv` holds: every m-line has a transport and a track exactly with its stream (`Complete`), no description has more sections than there are m-lines (`CountsFit`), agreed m-lines run on started transports also between offer and answer (`AgreedStarted`), the first m-line has started when any sends,
  because a later BUNDLE makes the others share its transport (`SendersStarted`), and the offer that is being answered is bundled already (`OfferBundled`). Only after a rejection can a description throw half way (`ThrowsFits`).
- `PlayerProofs`: the inductive invariant `ConnInv` is the three properties themselves with the types they need and `NewPending`, that a session that was not started has not failed; without it `FailureCloses` could be broken by starting one that has. From it `OnlyOne`,
  `ChannelCurrent` and `FailedIsClosed`: closing whatever is in `sdk` is enough because nothing else is open.
- `PageProofs`, about the page's smaller parts. `OldSilent` from `RefreshInv`: the type, `OneTimer` and `OnlyCurrent` (only the open view is enabled, so a timer left armed is harmless). `LocalStreamsAgree` from `LocalInv`, for any streams, shared tracks and mix of calls: with a plain stream only its own tracks are sent, it is listed while there are any,
  and its list is exact until a sender was used again (`Faithful`; without the exact list removing one track could leave or drop the wrong stream, and without the own tracks removing another stream could stop one of this). `StreamIdsKept` from `IdsInv`: the two maps are inverse to each other (`MapsInverse`), an internal stream has tracks of its own page's stream only (`InnerOfOwn`), and what was added is what is sent.
  `OneTurnUsed` from `ServersInv`: a configuration is the page's own, or one that the filters have been over: it has one url at most, the first one with TURN that was asked for, and none only if there was no such (`Filtered`). A second construction on the same object, and the second filter, keep it so. `AddressAlways`, for any hosts, ports,
  parameters and number of them, from `AddressInv`: an address was typed or built from the page's own, and what was parsed and asked for was made of that address; the lemmas are about what `FillQuery` leaves under a key (the last value given), which keys a built address can have, which fields of the parsed one a key may have replaced (`ParseUrlReads`), and which port the request goes to (`ParsePort`, `RequestGoes`; from them `PortAlways`).
  `TextAlways`, for any addresses, ports, fragments and sizes, also ones that look like keywords of the text, from `TextInv`: what was read is `SDPUtils`' reading of what it wrote for some candidate, data channel or media section (`CandidateSent`, `SctpSent`, `MediaSent`).
  Candidates are read by pairs behind the eighth token (`Pairs`, `ValueReads`), sections by the first line of each kind, which those of the session never precede (`SectionLines`, `MediaFound`).

- *Filters and other loops over lists.* `PickPlaces` says of `Pick` what a reader expects of a filter: the elements at the given places, each once, and nothing else. It is proved without an induction rule: were it false, there would be a least
  prefix of which it is false (`LeastNumber`), and that prefix is one element longer than one of which it is true. The same argument gives what `LinesOf` finds in two pieces of text set together (`LinesConcat`), what `parseCandidate` finds among pairs
  (`PairsConcat`), and `Without` in `SignalingProofs`. It needs recursive functions over places, so `Filter` and `Sdp` write these loops in this way.

*Assumptions on constants*, each an `ASSUME` that TLC evaluates too: a ring has a slot; NULL, "nobody" and "none" are no objects; lock owners differ; the two marks of a candidate callback are no pages (`CallbackAssumption`); bounds are numbers; remote descriptions are made of directions and
flags, and carry candidates only if there are any (`RemoteAssumption`); a stream has a track (`IdsAssumption`: one without can be added twice under one id, see the list above); a port that is written is not empty, and not the word undefined (`PortsAssumption`); "no stream" is no stream (`LocalAssumption`). The theorems of `VideoProofs` state `Sizes` and `MaxTime` themselves.

*Only model-checked.* `OrtcGather` (`GatheredRight`) and `Negotiation` (`NegotiationAgrees`): what they promise is what library operators on sequences compute (`SelectSeq`, `FlattenSeq`,
folds), several times over, for which the prover has no facts; the induction these would need takes an operator as a parameter, which it cannot instantiate. And every liveness property, the prover having neither fairness nor ENABLED: `KeyframeServed`, `InputFollowsDesktop`,
`ViewerSeesDesktop`, `InputComesBack`, `SessionFinishes`, `StopEnds`, `HelperComesBack`, `PlaysGetAnswers`, `TracksAnnounced`, that gathering ends, that every call of the player settles, and `KeepsRefreshing`.

## 6. Not modelled

- Precompiled libraries and the browser: peer connections, pacer, MQTT client, OpenH264, Windows desktops, marked external in the map and modelled by
  how the code uses them. Media content, SDP and JSON text, colour conversion, drawing.
- Input injection, several helper connections, stop and destructors: planned, see section 2.
- The `_full` pages and the remote control of the page (`screen.js`: key and mouse events to text); page unload. The manager GUI: it only calls the SCM. `YangProcess.cpp`: no caller.
  Pause and continue of the service: it tells the SCM not to send them. The session a helper is created in.
- Adapter: remote streams with `addstream` and `track` events, statistics, DTMF, the pool of gatherers, `getUserMedia` constraints and the renamed forms of old browsers, which rewrite arguments or results of one call. `OrtcPeer` assumes that both sides
  have a codec in common, and offers to receive none or one of a kind; an empty `Candidates` is a remote peer that does not trickle. `Negotiation`: `createAnswer` ignores the direction, `fmtp` values end at their second `=`; the instance numbers codecs so that two local ones never fall on
  one number. `Sdp`: no SDES lines, session header or `isValidSDP`; bandwidth is left out (16 kbit/s or less gives a negative `maxBitrate`). `StreamIds`: `negotiationneeded` events.
- SDK: showing tracks, `SrsRtcFormatSenders`; no page of the repository loads `srs.sdk.js` and `srs.sdk.p2p.js`, whose calls `Player` takes with the same globals. `AsyncRefresh`, the version before `AsyncRefresh2`; the array, string and time helpers of the utilities.
- `json2.js`, jQuery, Bootstrap and the MQTT client, as published.
- What no property can promise because the code does not: a crash when a winlogon picture arrives before the buffer has frames; torn winlogon pictures; leaks of a
  peer that is replaced without having been closed; callbacks of an old peer changing the state of the new session. `PROJECT.json` lists them as hazards with a note.
