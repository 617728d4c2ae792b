---------------------------- MODULE AsyncRefresh ----------------------------
(* AsyncRefresh2 (winlin.utility.js), the one object that refreshes whatever *)
(* view of the page is open. Every view sets its own call up when it opens   *)
(* (refresh_change, request(0)); the call loads something, and when it is    *)
(* loaded a callback starts the next request. Loads that are on their way    *)
(* when the view changes come back to the object of the next view.           *)
EXTENDS Naturals, FiniteSets, FiniteSetsExt

CONSTANTS MaxCalls,      \* bounds: views opened,
          MaxRestarts,   \*   restarts,
          MaxPopovers    \*   popovers that hold the refresh up

ASSUME BoundsAssumption == MaxCalls \in Nat /\ MaxRestarts \in Nat /\ MaxPopovers \in Nat

VARIABLES
  current,   \* the call in __call; 0 is the one of the constructor, with no pfn
  hasPfn,    \* per call: it has a pfn and a timeout
  enabled,   \* per call: __enabled
  armed,     \* per call: timers that will fire
  loads,     \* per call: what its pfn has started and is not loaded
  popover,   \* a popover is open: on_before_call_pfn aborts
  restarts, popovers

vars == <<current, hasPfn, enabled, armed, loads, popover, restarts, popovers>>

Calls == 0 .. MaxCalls

Init ==
  /\ current = 0
  /\ hasPfn = [c \in Calls |-> FALSE] /\ enabled = [c \in Calls |-> FALSE]
  /\ armed = [c \in Calls |-> 0] /\ loads = [c \in Calls |-> 0]
  /\ popover = FALSE /\ restarts = 0 /\ popovers = 0

-----------------------------------------------------------------------------

(* request, of call c when f are the timers: the timer of its handler is     *)
(* cleared, and set again unless the refresher is disabled.                  *)
Request_Bug(f, c, has) ==
  IF has THEN [f EXCEPT ![c] = @ + 1] ELSE f

Request(f, c, has) ==
  [f EXCEPT ![c] = IF has THEN 1 ELSE 0]

(* refresh_change (initialize), then request(0), as every view does. The     *)
(* timer to cancel is looked up in this.__handler, which is never set: the   *)
(* timer of the call before stays armed.                                     *)
RefreshChange_Bug(has) ==
  /\ current < MaxCalls
  /\ current' = current + 1
  /\ hasPfn' = [hasPfn EXCEPT ![current + 1] = has]
  /\ enabled' = [enabled EXCEPT ![current + 1] = TRUE]
  /\ armed' = Request(armed, current + 1, has)
  /\ UNCHANGED <<loads, popover, restarts, popovers>>

RefreshChange(has) ==
  /\ current < MaxCalls
  /\ current' = current + 1
  /\ hasPfn' = [hasPfn EXCEPT ![current + 1] = has]
  /\ enabled' = [enabled EXCEPT ![current] = FALSE, ![current + 1] = TRUE]
  /\ armed' = Request(armed, current + 1, has)
  /\ UNCHANGED <<loads, popover, restarts, popovers>>

Stop ==
  /\ enabled[current]
  /\ enabled' = [enabled EXCEPT ![current] = FALSE]
  /\ UNCHANGED <<current, hasPfn, armed, loads, popover, restarts, popovers>>

Restart ==
  /\ restarts < MaxRestarts
  /\ restarts' = restarts + 1
  /\ enabled' = [enabled EXCEPT ![current] = TRUE]
  /\ armed' = Request(armed, current, hasPfn[current])
  /\ UNCHANGED <<current, hasPfn, loads, popover, popovers>>

-----------------------------------------------------------------------------
(* The function a timer of call c runs.                                      *)

Fired(c) == [armed EXCEPT ![c] = @ - 1]

FireDisabled(c) ==
  /\ armed[c] > 0 /\ ~enabled[c]
  /\ armed' = Fired(c)
  /\ UNCHANGED <<current, hasPfn, enabled, loads, popover, restarts, popovers>>

FireAborted_Bug(c) ==
  /\ armed[c] > 0 /\ enabled[c] /\ popover
  /\ armed' = Fired(c)
  /\ UNCHANGED <<current, hasPfn, enabled, loads, popover, restarts, popovers>>

(* on_before_call_pfn asks for the next request itself, as its comment says. *)
FireAborted(c) ==
  /\ armed[c] > 0 /\ enabled[c] /\ popover
  /\ armed' = Request(Fired(c), current, hasPfn[current])
  /\ UNCHANGED <<current, hasPfn, enabled, loads, popover, restarts, popovers>>

Fire_Bug(c) ==   \* starts the next request itself
  /\ armed[c] > 0 /\ enabled[c] /\ ~popover
  /\ armed' = Request(Fired(c), c, TRUE)
  /\ loads' = [loads EXCEPT ![c] = @ + 1]
  /\ UNCHANGED <<current, hasPfn, enabled, popover, restarts, popovers>>

Fire(c) ==
  /\ armed[c] > 0 /\ enabled[c] /\ ~popover
  /\ armed' = Fired(c)
  /\ loads' = [loads EXCEPT ![c] = @ + 1]
  /\ UNCHANGED <<current, hasPfn, enabled, popover, restarts, popovers>>

(* A view's callback: what the pfn of c started is loaded, and the view asks *)
(* for the next request, of the object all views share.                      *)
Loaded(c) ==
  /\ loads[c] > 0
  /\ loads' = [loads EXCEPT ![c] = @ - 1]
  /\ armed' = Request(armed, current, hasPfn[current])
  /\ UNCHANGED <<current, hasPfn, enabled, popover, restarts, popovers>>

OpenPopover ==
  /\ ~popover /\ popovers < MaxPopovers
  /\ popover' = TRUE /\ popovers' = popovers + 1
  /\ UNCHANGED <<current, hasPfn, enabled, armed, loads, restarts>>

ClosePopover ==
  /\ popover
  /\ popover' = FALSE
  /\ UNCHANGED <<current, hasPfn, enabled, armed, loads, restarts, popovers>>

Next ==
  \/ \E has \in BOOLEAN : RefreshChange(has)
  \/ Stop \/ Restart
  \/ \E c \in Calls : FireDisabled(c) \/ FireAborted(c) \/ Fire(c) \/ Loaded(c)
  \/ OpenPopover \/ ClosePopover

(* Timers fire, loads come back, and popovers are closed.                    *)
Fairness ==
  /\ \A c \in Calls : WF_vars(FireDisabled(c) \/ FireAborted(c) \/ Fire(c)) /\ WF_vars(Loaded(c))
  /\ WF_vars(ClosePopover)

Spec == Init /\ [][Next]_vars
FairSpec == Spec /\ Fairness

-----------------------------------------------------------------------------

TypeOK ==
  /\ current \in Calls
  /\ hasPfn \in [Calls -> BOOLEAN] /\ enabled \in [Calls -> BOOLEAN]
  /\ armed \in [Calls -> Nat] /\ loads \in [Calls -> Nat]
  /\ popover \in BOOLEAN /\ restarts \in Nat /\ popovers \in Nat

(* A call has at most one timer, however many callbacks, restarts and        *)
(* aborted calls ask for a request.                                          *)
OneTimer == \A c \in Calls : armed[c] <= 1

(* After refresh_change the pfn of an old view is never called again,        *)
(* although its timer is left armed and loads of the old view still come     *)
(* back to the object of the new one; and no call ever has two timers.       *)
OldIsHarmless ==
  /\ []OneTimer
  /\ [][\A c \in Calls : loads'[c] > loads[c] => c = current]_vars

Loops == MapThenSumSet(LAMBDA c : armed[c] + loads[c], Calls)

(* A view that is open and not stopped is loaded again and again, and yet    *)
(* refreshing does not multiply by itself: timers and loads become more only *)
(* when a view is opened or the refresh restarted.                           *)
KeepsRefreshing ==
  /\ [][Loops' > Loops => current' # current \/ restarts' # restarts]_vars
  /\ \A c \in Calls :
       current = c /\ enabled[c] /\ hasPfn[c] ~> loads[c] > 0 \/ current # c \/ ~enabled[c]
=============================================================================
