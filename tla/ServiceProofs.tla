---------------------------- MODULE ServiceProofs ----------------------------
(* Proofs about the Windows service, for any number of session changes and of  *)
(* failing system calls.                                                       *)
EXTENDS Service, TLAPS

USE BoundsAssumption DEF BoundsAssumption

(* A launcher runs once: the worker creates it where it has not been yet.      *)
LaunchedOnce == /\ cpc = "start" => wpc = "none"
                /\ wpc \in {"none", "spawn1"} => lpc[Login] = "unborn"
                /\ wpc \in {"none", "spawn1", "spawn2"} => lpc[User] = "unborn"
                /\ wpc \in {"none", "spawn1", "spawn2", "sample"} \/ isRdp
                     => lpc[Again] = "unborn"
                /\ wpc \in {"watch", "query", "relaunch"} => isRdp

(* What OnStop knows of is there for good, and m_proc2 is the user's helper.   *)
Recorded == /\ \A l \in Launchers : l \in known \cup {m_proc1, m_proc2}
                                      => lpc[l] \in {"storeId", "wait", "done"}
            /\ m_proc2 \in {User, NULL} /\ m_proc1 # User
            /\ User \in known => m_proc2 = User

Dead(l) == child[l] # "running" \/ l \in closed

(* OnStop is past the first, past the second TerminateProcess.                 *)
Past1 == cpc \in {"kill2", "wait"} \/ (cpc \in {"idle", "stopped"} /\ m_fStopping)
Past2 == Past1 /\ cpc # "kill2"

Killed == /\ cpc \in {"start", "started"} => ~m_fStopping
          /\ Past1 => \A l \in known : l = m_proc1 => Dead(l)
          /\ Past2 => (User \in known => Dead(User))

(* The event is signalled by a worker that has seen the flag.                  *)
Signalled == /\ m_hStoppedEvent => wpc = "done"
             /\ wpc \in {"signal", "done"} => m_fStopping
             /\ alive /\ cpc = "start" => svc = "START_PENDING"

IInv == TypeOK /\ LaunchedOnce /\ Recorded /\ Killed /\ Signalled

-----------------------------------------------------------------------------
(* Next, by who moves.                                                         *)
LEMMA NextCases ==
  ASSUME Next
  PROVE \/ Control \/ StartFails \/ StopFails \/ Stop \/ Shutdown \/ Worker \/ RdpFlips
        \/ \E l \in Launchers : GiveUp(l) \/ CreateProcess(l) \/ CreateFails(l)
        \/ \E l \in Launchers : StoreHandle(l) \/ StoreId(l)
        \/ \E l \in Launchers : Release(l) \/ ReleaseCrashes(l) \/ HelperEnds(l)
BY DEF Next, Launcher

(* What counts steps of the environment stays within its bounds.               *)
Bounded == flips \in 0 .. MaxFlips /\ faults \in 0 .. MaxFaults

LEMMA StaysBounded ==
  ASSUME Bounded, [Next]_vars
  PROVE  Bounded'
<1> USE DEF Bounded, rest, session, Fault
<1>1. CASE Control
  BY <1>1 DEF Control, OnStart, Started, SetStopping, Terminate1, Terminate2, StopDone, ProcessEnds
<1>2. CASE StartFails \/ StopFails \/ Stop \/ Shutdown
  BY <1>2 DEF StartFails, StopFails, Stop, Shutdown
<1>3. CASE Worker
  BY <1>3 DEF Worker, Spawn1, Spawn2, Spawn, Sample, Watch, SeesRdp, LoopStops, LoopWatches,
              QueryListed, QueryGone, Relaunch, Signal
<1>4. CASE RdpFlips
  BY <1>4 DEF RdpFlips
<1>5. ASSUME NEW l \in Launchers, Launcher(l) \/ HelperEnds(l) PROVE Bounded'
  BY <1>5 DEF Launcher, GiveUp, CreateProcess, CreateFails, StoreHandle, StoreId, Release,
              ReleaseCrashes, HelperEnds
<1>6. CASE UNCHANGED vars
  BY <1>6 DEF vars
<1>7. QED
  BY <1>1, <1>2, <1>3, <1>4, <1>5, <1>6 DEF Next

(* Every member of the service keeps its type.                                 *)
THEOREM TypeCorrect == Spec => []TypeOK
<1>1. Init => TypeOK
  <2>1. Init => Bounded
    BY DEF Init, Bounded
  <2>2. QED
    BY <2>1 DEF Init, TypeOK, Bounded, Handles, NoPid
<1>2. TypeOK /\ [Next]_vars => TypeOK'
  <2> SUFFICES ASSUME TypeOK, [Next]_vars PROVE TypeOK'
    OBVIOUS
  <2>0. Bounded'
    BY StaysBounded DEF TypeOK, Bounded
  <2> HIDE BoundsAssumption
  <2> USE <2>0 DEF TypeOK, Bounded, control, worker, procs, helpers, session, rest, Handles
  <2>1. CASE Control
    <3>1. CASE OnStart \/ Started \/ StopDone
      BY <3>1 DEF OnStart, Started, StopDone
    <3>0. CASE SetStopping
      BY <3>0 DEF SetStopping
    <3>5. CASE ProcessEnds
      <4>1. alive' \in BOOLEAN
        BY <3>5 DEF ProcessEnds
      <4>2. svc' \in {"START_PENDING", "RUNNING", "STOP_PENDING", "STOPPED"}
        BY <3>5 DEF ProcessEnds
      <4>3. UNCHANGED <<cpc, m_fStopping, worker, lpc, procs, helpers, rest>>
        BY <3>5 DEF ProcessEnds
      <4>4. QED
        BY <4>1, <4>2, <4>3
    <3>2. CASE Terminate1
      BY <3>2 DEF Terminate1, Terminate
    <3>3. CASE Terminate2
      BY <3>3 DEF Terminate2, Terminate
    <3>4. QED
      BY <2>1, <3>0, <3>1, <3>2, <3>3, <3>5 DEF Control
  <2>2. CASE StartFails \/ StopFails
    BY <2>2 DEF StartFails, StopFails
  <2>3. CASE Stop \/ Shutdown
    BY <2>3 DEF Stop, Shutdown
  <2>4. CASE Worker
    <3>1. CASE Spawn1 \/ Spawn2 \/ Relaunch
      BY <3>1 DEF Spawn1, Spawn2, Relaunch, Spawn
    <3>2. CASE Sample \/ Watch
      BY <3>2 DEF Sample, Watch
    <3>3. CASE LoopStops \/ LoopWatches \/ Signal
      BY <3>3 DEF LoopStops, LoopWatches, Signal
    <3>4. CASE QueryListed \/ QueryGone
      BY <3>4 DEF QueryListed, QueryGone
    <3>5. QED
      BY <2>4, <3>1, <3>2, <3>3, <3>4 DEF Worker
  <2>5. CASE RdpFlips
    BY <2>5 DEF RdpFlips
  <2>6. ASSUME NEW l \in Launchers, GiveUp(l) \/ CreateProcess(l) \/ CreateFails(l)
        PROVE TypeOK'
    BY <2>6 DEF GiveUp, CreateProcess, CreateFails
  <2>7. ASSUME NEW l \in Launchers, StoreHandle(l) \/ StoreId(l)
        PROVE TypeOK'
    BY <2>7 DEF StoreHandle, StoreId, Process
  <2>8. ASSUME NEW l \in Launchers, Release(l) \/ ReleaseCrashes(l) \/ HelperEnds(l)
        PROVE TypeOK'
    <3>1. CASE Release(l)
      BY <3>1 DEF Release
    <3>2. CASE ReleaseCrashes(l)
      <4>1. alive' \in BOOLEAN
        BY <3>2 DEF ReleaseCrashes
      <4>2. svc' \in {"START_PENDING", "RUNNING", "STOP_PENDING", "STOPPED"}
        BY <3>2 DEF ReleaseCrashes
      <4>3. UNCHANGED <<cpc, m_fStopping, worker, lpc, procs, helpers, rest>>
        BY <3>2 DEF ReleaseCrashes
      <4>4. QED
        BY <4>1, <4>2, <4>3
    <3>3. CASE HelperEnds(l)
      BY <3>3 DEF HelperEnds
    <3>4. QED
      BY <2>8, <3>1, <3>2, <3>3
  <2>9. CASE UNCHANGED vars
    BY <2>9 DEF vars
  <2>10. QED
    BY <2>1, <2>2, <2>3, <2>4, <2>5, <2>6, <2>7, <2>8, <2>9, NextCases
<1>3. QED
  BY <1>1, <1>2, PTL DEF Spec

-----------------------------------------------------------------------------
LEMMA NamesDiffer == /\ Login # User /\ Login # Again /\ User # Again
                     /\ User \in Launchers /\ NULL \notin Launchers
BY DEF Login, User, Again, NULL, Launchers

LEMMA InvInit == Init => LaunchedOnce /\ Recorded /\ Killed /\ Signalled
BY NamesDiffer DEF Init, LaunchedOnce, Recorded, Killed, Signalled, Past1, Past2, Launchers

(* The worker creates each launcher once, the one for later only when it has   *)
(* seen a remote session.                                                      *)
LEMMA LaunchedOnceStays ==
  ASSUME TypeOK, LaunchedOnce, [Next]_vars
  PROVE  LaunchedOnce'
<1> USE NamesDiffer DEF TypeOK, LaunchedOnce, worker, rest, control
<1>1. CASE Control
  BY <1>1 DEF Control, OnStart, Started, SetStopping, Terminate1, Terminate2, StopDone, ProcessEnds
<1>2. CASE StartFails \/ StopFails \/ Stop \/ Shutdown
  BY <1>2 DEF StartFails, StopFails, Stop, Shutdown
<1>3. CASE Worker
  <2>1. CASE Spawn1 \/ Spawn2 \/ Relaunch
    BY <2>1 DEF Spawn1, Spawn2, Relaunch, Spawn, Launchers
  <2>2. CASE Sample \/ Watch
    BY <2>2 DEF Sample, Watch
  <2>3. CASE LoopStops \/ LoopWatches \/ QueryListed \/ QueryGone \/ Signal
    BY <2>3 DEF LoopStops, LoopWatches, QueryListed, QueryGone, Signal
  <2>4. QED
    BY <1>3, <2>1, <2>2, <2>3 DEF Worker
<1>4. CASE RdpFlips
  BY <1>4 DEF RdpFlips
<1>5. ASSUME NEW l \in Launchers, GiveUp(l) \/ CreateProcess(l) \/ CreateFails(l)
      PROVE LaunchedOnce'
  BY <1>5 DEF GiveUp, CreateProcess, CreateFails, Launchers
<1>6. ASSUME NEW l \in Launchers, StoreHandle(l) \/ StoreId(l) PROVE LaunchedOnce'
  BY <1>6 DEF StoreHandle, StoreId, Launchers
<1>7. ASSUME NEW l \in Launchers, Release(l) \/ ReleaseCrashes(l) \/ HelperEnds(l)
      PROVE LaunchedOnce'
  BY <1>7 DEF Release, Waited, ReleaseCrashes, HelperEnds, Launchers
<1>8. CASE UNCHANGED vars
  BY <1>8 DEF vars
<1>9. QED
  BY <1>1, <1>2, <1>3, <1>4, <1>5, <1>6, <1>7, <1>8, NextCases

(* No launcher forgets or repeats what it has stored.                          *)
LEMMA RecordedStays ==
  ASSUME TypeOK, LaunchedOnce, Recorded, [Next]_vars
  PROVE  Recorded'
<1> USE NamesDiffer DEF TypeOK, Recorded, worker, rest, procs
<1>1. CASE Control
  BY <1>1 DEF Control, OnStart, Started, SetStopping, Terminate1, Terminate2, StopDone, ProcessEnds
<1>2. CASE StartFails \/ StopFails \/ Stop \/ Shutdown
  BY <1>2 DEF StartFails, StopFails, Stop, Shutdown
<1>3. CASE Worker
  <2>1. CASE Spawn1 \/ Spawn2 \/ Relaunch
    BY <2>1 DEF LaunchedOnce, Spawn1, Spawn2, Relaunch, Spawn, Launchers
  <2>2. CASE ~(Spawn1 \/ Spawn2 \/ Relaunch)
    BY <1>3, <2>2 DEF Worker, Sample, Watch, LoopStops, LoopWatches, QueryListed, QueryGone, Signal
  <2>3. QED
    BY <2>1, <2>2
<1>4. CASE RdpFlips
  BY <1>4 DEF RdpFlips
<1>5. ASSUME NEW l \in Launchers, GiveUp(l) \/ CreateProcess(l) \/ CreateFails(l)
      PROVE Recorded'
  BY <1>5 DEF GiveUp, CreateProcess, CreateFails
<1>6. ASSUME NEW l \in Launchers, StoreHandle(l) \/ StoreId(l) PROVE Recorded'
  <2>1. CASE StoreId(l)
    BY <2>1 DEF StoreId
  <2>2. CASE StoreHandle(l) /\ l = User
    <3>1. m_proc2' \in {User, NULL} /\ m_proc1' = m_proc1 /\ known' = known
      BY <2>2 DEF StoreHandle, Process
    <3>2. User \notin known /\ lpc' = [lpc EXCEPT ![User] = "wait"]
      BY <2>2 DEF StoreHandle
    <3>3. QED
      BY <3>1, <3>2
  <2>3. CASE StoreHandle(l) /\ l # User
    <3>1. m_proc1' \in {l, NULL} /\ m_proc2' = m_proc2 /\ known' = known
      BY <2>3 DEF StoreHandle, Process
    <3>2. lpc' = [lpc EXCEPT ![l] = "storeId"]
      BY <2>3 DEF StoreHandle
    <3>3. QED
      BY <2>3, <3>1, <3>2
  <2>4. QED
    BY <1>6, <2>1, <2>2, <2>3
<1>7. ASSUME NEW l \in Launchers, Release(l) \/ ReleaseCrashes(l) \/ HelperEnds(l)
      PROVE Recorded'
  BY <1>7 DEF Release, Waited, ReleaseCrashes, HelperEnds
<1>8. CASE UNCHANGED vars
  BY <1>8 DEF vars
<1>9. QED
  BY <1>1, <1>2, <1>3, <1>4, <1>5, <1>6, <1>7, <1>8, NextCases

(* A helper OnStop has killed is not created again, nor does its handle return *)
(* to the place where OnStop looked.                                           *)
LEMMA KilledStays ==
  ASSUME TypeOK, Recorded, Killed, [Next]_vars
  PROVE  Killed'
<1> USE NamesDiffer DEF TypeOK, Killed, Past1, Past2, Dead, control, helpers, rest, procs
<1>1. CASE Control
  <2>1. CASE Terminate1
    BY <2>1 DEF Terminate1, Terminate
  <2>2. CASE Terminate2
    BY <2>2 DEF Terminate2, Terminate, Recorded
  <2>3. CASE OnStart \/ Started
    BY <2>3 DEF OnStart, Started
  <2>4. CASE SetStopping
    BY <2>4 DEF SetStopping
  <2>5. CASE StopDone
    BY <2>5 DEF StopDone
  <2>6. CASE ProcessEnds
    <3>1. UNCHANGED <<cpc, m_fStopping, known, m_proc1, child, closed>>
      BY <2>6 DEF ProcessEnds
    <3>2. QED
      BY <3>1
  <2>7. QED
    BY <1>1, <2>1, <2>2, <2>3, <2>4, <2>5, <2>6 DEF Control
<1>2. CASE StartFails \/ StopFails \/ Stop \/ Shutdown
  <2>1. CASE StartFails \/ Shutdown
    BY <2>1 DEF StartFails, Shutdown
  <2>2. CASE StopFails
    BY <2>2 DEF StopFails
  <2>3. CASE Stop
    BY <2>3 DEF Stop
  <2>4. QED
    BY <1>2, <2>1, <2>2, <2>3
<1>3. CASE Worker
  BY <1>3 DEF Worker, Spawn1, Spawn2, Relaunch, Sample, Watch, LoopStops, LoopWatches,
              QueryListed, QueryGone, Signal
<1>4. CASE RdpFlips
  BY <1>4 DEF RdpFlips
<1>5. ASSUME NEW l \in Launchers, GiveUp(l) \/ CreateProcess(l) \/ CreateFails(l)
      PROVE Killed'
  BY <1>5 DEF GiveUp, CreateProcess, CreateFails, Recorded
<1>6. ASSUME NEW l \in Launchers, StoreHandle(l) \/ StoreId(l) PROVE Killed'
  BY <1>6 DEF StoreHandle, StoreId, Process, Recorded
<1>7. ASSUME NEW l \in Launchers, Release(l) \/ ReleaseCrashes(l) \/ HelperEnds(l)
      PROVE Killed'
  BY <1>7 DEF Release, Waited, ReleaseCrashes, HelperEnds
<1>8. CASE UNCHANGED vars
  BY <1>8 DEF vars
<1>9. QED
  BY <1>1, <1>2, <1>3, <1>4, <1>5, <1>6, <1>7, <1>8, NextCases

LEMMA SignalledStays ==
  ASSUME TypeOK, LaunchedOnce, Signalled, [Next]_vars
  PROVE  Signalled'
<1> USE DEF TypeOK, Signalled, control, worker, rest
<1>1. CASE Control
  BY <1>1 DEF LaunchedOnce, Control, OnStart, Started, SetStopping, Terminate1, Terminate2,
              StopDone, ProcessEnds
<1>2. CASE StartFails \/ StopFails \/ Stop \/ Shutdown
  BY <1>2 DEF StartFails, StopFails, Stop, Shutdown
<1>3. CASE Worker
  BY <1>3 DEF Worker, Spawn1, Spawn2, Relaunch, Sample, Watch, LoopStops, LoopWatches,
              QueryListed, QueryGone, Signal
<1>4. CASE RdpFlips
  BY <1>4 DEF RdpFlips
<1>5. ASSUME NEW l \in Launchers, Launcher(l) \/ HelperEnds(l) PROVE Signalled'
  BY <1>5 DEF Launcher, GiveUp, CreateProcess, CreateFails, StoreHandle, StoreId, Release,
              Waited, ReleaseCrashes, HelperEnds
<1>6. CASE UNCHANGED vars
  BY <1>6 DEF vars
<1>7. QED
  BY <1>1, <1>2, <1>3, <1>4, <1>5, <1>6 DEF Next

THEOREM ServiceInv == Spec => []IInv
<1>1. Init => LaunchedOnce /\ Recorded /\ Killed /\ Signalled
  BY InvInit
<1>2. TypeOK /\ LaunchedOnce /\ Recorded /\ Killed /\ Signalled /\ [Next]_vars
        => (LaunchedOnce /\ Recorded /\ Killed /\ Signalled)'
  BY LaunchedOnceStays, RecordedStays, KilledStays, SignalledStays
<1>3. QED
  BY <1>1, <1>2, TypeCorrect, PTL DEF Spec, IInv

(* A helper that was on record when the stop began and that is alive after it  *)
(* had its place in m_proc1 taken, or its handle closed by a failed launcher.  *)
THEOREM OnStopKills == Spec => []SurvivorsWereLost
<1>1. IInv => SurvivorsWereLost
  BY DEF IInv, TypeOK, Killed, Past1, Past2, Dead, SurvivorsWereLost
<1>2. QED
  BY <1>1, ServiceInv, PTL

(* STOPPED is reported for a stop only after the worker has seen the flag and  *)
(* left its loop.                                                              *)
THEOREM StopWaitsForWorker == Spec => StoppedAfterWorker
<1>1. IInv /\ [Next]_vars
        => [svc = "STOP_PENDING" /\ svc' = "STOPPED" /\ alive'
              => wpc = "done" /\ m_fStopping]_vars
  <2> SUFFICES ASSUME IInv, Next, svc = "STOP_PENDING", svc' = "STOPPED", alive'
               PROVE  wpc = "done" /\ m_fStopping
    BY DEF vars
  <2> USE DEF IInv, TypeOK, Signalled, control, rest
  <2>1. CASE Control
    BY <2>1 DEF Control, OnStart, Started, SetStopping, Terminate1, Terminate2, StopDone,
                ProcessEnds
  <2>2. CASE StartFails \/ StopFails \/ Stop \/ Shutdown
    BY <2>2 DEF StartFails, StopFails, Stop, Shutdown
  <2>3. CASE Worker
    BY <2>3 DEF Worker, Spawn1, Spawn2, Relaunch, Sample, Watch, LoopStops, LoopWatches,
                QueryListed, QueryGone, Signal
  <2>4. ASSUME NEW l \in Launchers, Launcher(l) \/ HelperEnds(l)
        PROVE  wpc = "done" /\ m_fStopping
    BY <2>4 DEF Launcher, GiveUp, CreateProcess, CreateFails, StoreHandle, StoreId, Release,
                ReleaseCrashes, HelperEnds
  <2>5. CASE RdpFlips
    BY <2>5 DEF RdpFlips
  <2>6. QED
    BY <2>1, <2>2, <2>3, <2>4, <2>5 DEF Next
<1>2. QED
  BY <1>1, ServiceInv, PTL DEF Spec, StoppedAfterWorker
=============================================================================
