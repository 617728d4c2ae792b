------------------------------- MODULE Service -------------------------------
(* The Windows service (YangScreenService.cpp, on ServiceBase.cpp): the control *)
(* thread that starts and stops it, the worker it queues, and a launcher thread *)
(* for each helper process, which creates the process, stores its handle where  *)
(* OnStop looks for it, and waits for its end. The helper on the winlogon       *)
(* desktop is created again, once, when a remote desktop session is over.       *)
(* The threads share plain members of the service object, without a lock.       *)
EXTENDS Naturals, FiniteSets

CONSTANTS MaxFlips,  \* how often a remote desktop session begins or ends (a bound)
          MaxFaults  \* how many calls of the system fail (a bound)

ASSUME BoundsAssumption == MaxFlips \in Nat /\ MaxFaults \in Nat

Login == "login"     \* first yang_run_service_thread: winlogon helper
User  == "user"      \* yang_run_service_thread2: helper on the user's desktop
Again == "again"     \* second yang_run_service_thread
Launchers == {Login, User, Again}
NULL == "null"
NoPid == "-1"        \* m_procId1 before anything is stored

VARIABLES svc,                        \* m_status.dwCurrentState, as the SCM sees it
          alive,                      \* the service process runs
          cpc,                        \* control thread, in Start or Stop
          m_fStopping, m_hStoppedEvent,
          wpc, isRdp,                 \* ServiceWorkerThread
          lpc,                        \* launcher threads
          m_proc1, m_proc2, m_procId1,
          child,                      \* helper process of each launcher
          risk, closed,               \* handles a second CloseHandle may hit, has hit
          rdp, flips,                 \* a remote desktop session is active
          faults,                     \* system calls that failed
          known                       \* helpers on record when the stop began

control == <<svc, alive, cpc, m_fStopping>>
worker == <<m_hStoppedEvent, wpc, isRdp>>
procs == <<m_proc1, m_proc2, m_procId1>>
helpers == <<child, risk, closed>>
session == <<rdp, flips>>
rest == <<session, faults, known>>
vars == <<control, worker, lpc, procs, helpers, rest>>

Handles == Launchers \cup {NULL}

TypeOK == /\ svc \in {"START_PENDING", "RUNNING", "STOP_PENDING", "STOPPED"}
          /\ alive \in BOOLEAN /\ m_fStopping \in BOOLEAN /\ m_hStoppedEvent \in BOOLEAN
          /\ cpc \in {"start", "started", "idle", "flag", "kill1", "kill2", "wait", "stopped"}
          /\ wpc \in {"none", "spawn1", "spawn2", "sample", "loop", "watch", "query",
                      "relaunch", "signal", "done"}
          /\ isRdp \in BOOLEAN
          /\ lpc \in [Launchers -> {"unborn", "create", "store", "storeId", "wait",
                                    "done"}]
          /\ m_proc1 \in Handles /\ m_proc2 \in Handles
          /\ m_procId1 \in Handles \cup {NoPid}
          /\ child \in [Launchers -> {"none", "failed", "running", "exited"}]
          /\ risk \subseteq Launchers /\ closed \subseteq Launchers
          /\ rdp \in BOOLEAN /\ flips \in 0 .. MaxFlips
          /\ faults \in 0 .. MaxFaults
          /\ known \subseteq Launchers

Init == /\ svc = "START_PENDING" /\ alive = TRUE /\ cpc = "start"
        /\ m_fStopping = FALSE /\ m_hStoppedEvent = FALSE
        /\ wpc = "none" /\ isRdp = FALSE
        /\ lpc = [l \in Launchers |-> "unborn"]
        /\ m_proc1 = NULL /\ m_proc2 = NULL /\ m_procId1 = NoPid
        /\ child = [l \in Launchers |-> "none"]
        /\ risk = {} /\ closed = {}
        /\ rdp \in BOOLEAN /\ flips = 0 /\ faults = 0
        /\ known = {}

-----------------------------------------------------------------------------
Fault == faults < MaxFaults /\ faults' = faults + 1

(* The control thread. OnStart queues the worker; it throws when it cannot.     *)
OnStart == /\ alive /\ cpc = "start"
           /\ cpc' = "started" /\ wpc' = "spawn1"
           /\ UNCHANGED <<svc, alive, m_fStopping, m_hStoppedEvent, isRdp, lpc, procs,
                          helpers, rest>>

StartFails == /\ alive /\ cpc = "start"
              /\ svc' = "STOPPED" /\ cpc' = "stopped"
              /\ Fault
              /\ UNCHANGED <<alive, m_fStopping, worker, lpc, procs, helpers, session, known>>

Started == /\ alive /\ cpc = "started"
           /\ svc' = "RUNNING" /\ cpc' = "idle"
           /\ UNCHANGED <<alive, m_fStopping, worker, lpc, procs, helpers, rest>>

(* The handle and pid a launcher got; ZeroMemory leaves both 0 on failure.      *)
Process(l) == IF child[l] = "failed" THEN NULL ELSE l

(* The SCM sends controls to a running service only, one at a time.             *)
Stop == /\ alive /\ cpc = "idle" /\ svc = "RUNNING"
        /\ svc' = "STOP_PENDING" /\ cpc' = "flag"
        /\ known' = {m_proc1, m_proc2} \ {NULL}
        /\ UNCHANGED <<alive, m_fStopping, worker, lpc, procs, helpers, session, faults>>

SetStopping == /\ alive /\ cpc = "flag"
               /\ m_fStopping' = TRUE /\ cpc' = "kill1"
               /\ UNCHANGED <<svc, alive, worker, lpc, procs, helpers, rest>>

(* TerminateProcess; with a handle that is closed by now it does nothing.       *)
Terminate(h) == child' = [l \in Launchers |->
                            IF l = h /\ l \notin closed /\ child[l] = "running"
                            THEN "exited" ELSE child[l]]

Terminate1 == /\ alive /\ cpc = "kill1"
              /\ Terminate(m_proc1) /\ cpc' = "kill2"
              /\ UNCHANGED <<svc, alive, m_fStopping, worker, lpc, procs, risk, closed,
                             rest>>

Terminate2_Bug == /\ alive /\ cpc = "kill2"   \* m_proc1 once more
                  /\ Terminate(m_proc1) /\ cpc' = "wait"
                  /\ UNCHANGED <<svc, alive, m_fStopping, worker, lpc, procs, risk, closed,
                                 rest>>

Terminate2 == /\ alive /\ cpc = "kill2"
              /\ Terminate(m_proc2) /\ cpc' = "wait"
              /\ UNCHANGED <<svc, alive, m_fStopping, worker, lpc, procs, risk, closed,
                             rest>>

StopDone_Bug == /\ alive /\ cpc = "wait"   \* no wait for m_hStoppedEvent
                /\ svc' = "STOPPED" /\ cpc' = "stopped"
                /\ UNCHANGED <<alive, m_fStopping, worker, lpc, procs, helpers, rest>>

StopDone == /\ alive /\ cpc = "wait" /\ m_hStoppedEvent
            /\ svc' = "STOPPED" /\ cpc' = "stopped"
            /\ UNCHANGED <<alive, m_fStopping, worker, lpc, procs, helpers, rest>>

(* WaitForSingleObject fails: OnStop throws, Stop restores the original state.  *)
StopFails == /\ alive /\ cpc = "wait"
             /\ svc' = "RUNNING" /\ cpc' = "idle"
             /\ Fault
             /\ UNCHANGED <<alive, m_fStopping, worker, lpc, procs, helpers, session, known>>

(* OnShutdown is empty: the worker and the helpers are not told.                *)
Shutdown == /\ alive /\ cpc = "idle" /\ svc = "RUNNING"
            /\ svc' = "STOPPED" /\ cpc' = "stopped"
            /\ UNCHANGED <<alive, m_fStopping, worker, lpc, procs, helpers, rest>>

(* Run returns once the service has stopped, main with it: every thread is gone.*)
ProcessEnds == /\ alive /\ svc = "STOPPED"
               /\ alive' = FALSE
               /\ UNCHANGED <<svc, cpc, m_fStopping, worker, lpc, procs, helpers, rest>>

-----------------------------------------------------------------------------
(* The worker. CreateThread may fail, which nobody looks at.                    *)
Spawn(l) == \/ lpc' = [lpc EXCEPT ![l] = "create"] /\ UNCHANGED faults
            \/ lpc' = [lpc EXCEPT ![l] = "done"] /\ Fault

Spawn1 == /\ alive /\ wpc = "spawn1"
          /\ Spawn(Login) /\ wpc' = "spawn2"
          /\ UNCHANGED <<control, m_hStoppedEvent, isRdp, procs, helpers, session, known>>

Spawn2 == /\ alive /\ wpc = "spawn2"
          /\ Spawn(User) /\ wpc' = "sample"
          /\ UNCHANGED <<control, m_hStoppedEvent, isRdp, procs, helpers, session, known>>

(* isRdpSession says no as well when the sessions cannot be listed.             *)
SeesRdp(b) == \/ b = rdp /\ UNCHANGED faults
              \/ ~b /\ rdp /\ Fault

Sample == /\ alive /\ wpc = "sample"
          /\ \E b \in BOOLEAN : SeesRdp(b) /\ isRdp' = b
          /\ wpc' = "loop"
          /\ UNCHANGED <<control, m_hStoppedEvent, lpc, procs, helpers, session, known>>

LoopStops == /\ alive /\ wpc = "loop" /\ m_fStopping
             /\ wpc' = "signal"
             /\ UNCHANGED <<control, m_hStoppedEvent, isRdp, lpc, procs, helpers, rest>>

(* Without isRdp a round of the loop only sleeps.                               *)
LoopWatches == /\ alive /\ wpc = "loop" /\ ~m_fStopping /\ isRdp
               /\ wpc' = "watch"
               /\ UNCHANGED <<control, m_hStoppedEvent, isRdp, lpc, procs, helpers, rest>>

Watch_Bug == /\ alive /\ wpc = "watch"   \* the test the wrong way round
             /\ \E b \in BOOLEAN : SeesRdp(b) /\ wpc' = IF b THEN "query" ELSE "loop"
             /\ UNCHANGED <<control, m_hStoppedEvent, isRdp, lpc, procs, helpers, session,
                            known>>

Watch == /\ alive /\ wpc = "watch"
         /\ \E b \in BOOLEAN : SeesRdp(b) /\ wpc' = IF b THEN "loop" ELSE "query"
         /\ UNCHANGED <<control, m_hStoppedEvent, isRdp, lpc, procs, helpers, session,
                        known>>

(* queryProcess: is the pid listed? Pid 0, of a helper that was never created,  *)
(* may be: systems list their idle process under it. Not if listing fails.      *)
MayBeListed(pid) == pid = NULL \/ (pid \in Launchers /\ child[pid] = "running")
MayBeGone(pid) == pid \in {NULL, NoPid} \/ (pid \in Launchers /\ child[pid] = "exited")

QueryListed == /\ alive /\ wpc = "query" /\ MayBeListed(m_procId1)
               /\ wpc' = "loop"
               /\ UNCHANGED <<control, m_hStoppedEvent, isRdp, lpc, procs, helpers, rest>>

QueryGone == /\ alive /\ wpc = "query"
             /\ \/ MayBeGone(m_procId1) /\ UNCHANGED faults
                \/ ~MayBeGone(m_procId1) /\ Fault
             /\ wpc' = "relaunch"
             /\ UNCHANGED <<control, m_hStoppedEvent, isRdp, lpc, procs, helpers, session,
                            known>>

Relaunch == /\ alive /\ wpc = "relaunch"
            /\ Spawn(Again)
            /\ isRdp' = FALSE /\ wpc' = "loop"
            /\ UNCHANGED <<control, m_hStoppedEvent, procs, helpers, session, known>>

Signal_Bug == /\ alive /\ wpc = "signal"   \* no SetEvent
              /\ wpc' = "done"
              /\ UNCHANGED <<control, m_hStoppedEvent, isRdp, lpc, procs, helpers, rest>>

Signal == /\ alive /\ wpc = "signal"
          /\ m_hStoppedEvent' = TRUE /\ wpc' = "done"
          /\ UNCHANGED <<control, isRdp, lpc, procs, helpers, rest>>

-----------------------------------------------------------------------------
(* createProcess, on a launcher thread: no token or no environment.             *)
GiveUp(l) == /\ alive /\ lpc[l] = "create"
             /\ lpc' = [lpc EXCEPT ![l] = "done"]
             /\ Fault
             /\ UNCHANGED <<control, worker, procs, helpers, session, known>>

(* While a launcher that failed has its token handles closed but not forgotten, *)
(* a new process handle may get the number of one of them.                      *)
Failing == {l \in Launchers : child[l] = "failed" /\ lpc[l] # "done"}

CreateProcess(l) == /\ alive /\ lpc[l] = "create"
                    /\ child' = [child EXCEPT ![l] = "running"]
                    /\ risk' = IF Failing = {} THEN risk ELSE risk \cup {l}
                    /\ lpc' = [lpc EXCEPT ![l] = "store"]
                    /\ UNCHANGED <<control, worker, procs, closed, rest>>

(* CreateProcessAsUser fails: the handles are closed, and the code goes on.     *)
CreateFails(l) == /\ alive /\ lpc[l] = "create"
                  /\ child' = [child EXCEPT ![l] = "failed"]
                  /\ lpc' = [lpc EXCEPT ![l] = "store"]
                  /\ Fault
                  /\ UNCHANGED <<control, worker, procs, risk, closed, session, known>>

StoreHandle(l) ==
    /\ alive /\ lpc[l] = "store"
    /\ IF l = User
       THEN m_proc2' = Process(l) /\ UNCHANGED m_proc1
       ELSE m_proc1' = Process(l) /\ UNCHANGED m_proc2
    /\ lpc' = [lpc EXCEPT ![l] = IF l = User THEN "wait" ELSE "storeId"]
    /\ UNCHANGED <<control, worker, m_procId1, helpers, rest>>

StoreId(l) == /\ alive /\ lpc[l] = "storeId"
              /\ m_procId1' = Process(l)
              /\ lpc' = [lpc EXCEPT ![l] = "wait"]
              /\ UNCHANGED <<control, worker, m_proc1, m_proc2, helpers, rest>>

(* The wait ends with the helper; a bad handle does not wait. After a failure   *)
(* everything is released for the second time: the handles may be others' now,  *)
(* and DestroyEnvironmentBlock on freed memory may end the service process.     *)
Waited(l) == alive /\ lpc[l] = "wait" /\ (child[l] # "running" \/ l \in closed)

Release(l) == /\ Waited(l)
              /\ \E hit \in SUBSET risk :
                    /\ child[l] # "failed" => hit = {}
                    /\ closed' = closed \cup hit
              /\ lpc' = [lpc EXCEPT ![l] = "done"]
              /\ UNCHANGED <<control, worker, procs, child, risk, rest>>

ReleaseCrashes(l) == /\ Waited(l) /\ child[l] = "failed"
                     /\ alive' = FALSE /\ svc' = "STOPPED"
                     /\ UNCHANGED <<cpc, m_fStopping, worker, lpc, procs, helpers, rest>>

-----------------------------------------------------------------------------
(* The system: helpers may end by themselves (their main loop tests g_fStopping,*)
(* which is never set), sessions begin and end.                                 *)
HelperEnds(l) == /\ child[l] = "running"
                 /\ child' = [child EXCEPT ![l] = "exited"]
                 /\ UNCHANGED <<control, worker, lpc, procs, risk, closed, rest>>

RdpFlips == /\ alive /\ flips < MaxFlips
            /\ rdp' = ~rdp /\ flips' = flips + 1
            /\ UNCHANGED <<control, worker, lpc, procs, helpers, faults, known>>

Control == \/ OnStart \/ Started
           \/ SetStopping \/ Terminate1 \/ Terminate2 \/ StopDone
           \/ ProcessEnds

Worker == \/ Spawn1 \/ Spawn2 \/ Sample \/ LoopStops \/ LoopWatches \/ Watch
          \/ QueryListed \/ QueryGone \/ Relaunch \/ Signal

Launcher(l) == \/ GiveUp(l) \/ CreateProcess(l) \/ CreateFails(l) \/ StoreHandle(l)
               \/ StoreId(l) \/ Release(l) \/ ReleaseCrashes(l)

Next == \/ Control \/ StartFails \/ StopFails
        \/ Stop \/ Shutdown
        \/ Worker
        \/ \E l \in Launchers : Launcher(l) \/ HelperEnds(l)
        \/ RdpFlips

Spec == Init /\ [][Next]_vars

(* Threads of the service run; the SCM, the helpers and faults owe nothing.     *)
FairSpec == /\ Spec /\ WF_vars(Control) /\ WF_vars(Worker)
            /\ \A l \in Launchers : WF_vars(Launcher(l))

-----------------------------------------------------------------------------
(* A stop that ends in STOPPED ends after the worker: main returns then, and    *)
(* takes the service object the worker uses with it.                            *)
StoppedAfterWorker == [][svc = "STOP_PENDING" /\ svc' = "STOPPED" /\ alive'
                         => wpc = "done" /\ m_fStopping]_vars

(* A helper on record when a stop begins outlives it only if a second winlogon  *)
(* helper shared m_proc1 with it, or if a launcher that had failed closed its   *)
(* handle: OnStop kills every other one, whatever the launchers do meanwhile.   *)
SurvivorsWereLost ==
    cpc = "stopped" /\ m_fStopping =>
        \A l \in known : child[l] = "running" =>
            l \in closed \/ (l # User /\ l # m_proc1)

(* A stop is answered: every thread OnStop waits for comes to an end.           *)
StopEnds == svc = "STOP_PENDING" ~> svc # "STOP_PENDING"

(* When a remote session has ended and taken the winlogon helper with it, the   *)
(* worker tries to create the helper again, unless the service stops or a new   *)
(* remote session begins.                                                       *)
HelperComesBack ==
    (wpc = "loop" /\ isRdp /\ m_procId1 = Login /\ child[Login] = "exited" /\ ~rdp)
        ~> (lpc[Again] # "unborn" \/ m_fStopping \/ rdp \/ svc = "STOPPED")

(* screenshareService.cpp:91: "Periodically check if the service is stopping."  *)
(* Helpers end when the service is stopped.                                     *)
HelpersSeeStop == (cpc = "stopped" /\ m_fStopping) ~>
                      \A l \in Launchers : child[l] # "running"
=============================================================================
