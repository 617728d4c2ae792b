------------------------------- MODULE PeerSlot -------------------------------
(* What the signalling side may rely on about the one WebRTC session of the    *)
(* screen server: a slot for the current peer connection, a flag that says the *)
(* session is open, and the life of each peer connection object. YangIpcRtc    *)
(* implements it with several threads (IpcRtc), and the signalling model is    *)
(* built on it.                                                                *)
EXTENDS Naturals

CONSTANTS Peer,      \* peer connection objects that may be created
          NoPeer     \* the NULL pointer

VARIABLES slot,      \* the current peer connection
          pending,   \* a peer connection still negotiating its answer
          live,      \* objects created and not yet deleted
          born,      \* objects ever created
          open,      \* a session has been asked for and not closed
          reaping    \* somebody is about to delete whatever the slot holds

vars == <<slot, pending, live, born, open, reaping>>

Init == /\ slot = NoPeer /\ pending = NoPeer
        /\ live = {} /\ born = {}
        /\ open = FALSE /\ reaping = FALSE

(* A new object, never a reused one; the session counts as open from here on.  *)
Begin(p) == /\ pending = NoPeer /\ p \notin born
            /\ pending' = p
            /\ live' = live \union {p}
            /\ born' = born \union {p}
            /\ open' = TRUE
            /\ UNCHANGED <<slot, reaping>>

(* Negotiation failed: the new object goes, the slot is not touched.           *)
Abort == /\ pending # NoPeer
         /\ live' = live \ {pending}
         /\ pending' = NoPeer
         /\ open' = FALSE
         /\ UNCHANGED <<slot, born, reaping>>

(* Negotiation done. The object the slot held before is not deleted.           *)
Install == /\ pending # NoPeer
           /\ slot' = pending
           /\ pending' = NoPeer
           /\ UNCHANGED <<live, born, open, reaping>>

Close == open' = FALSE /\ UNCHANGED <<slot, pending, live, born, reaping>>

(* A closed session has been noticed; another thread may be on its way already.*)
Decide == /\ ~open
          /\ reaping' = TRUE
          /\ UNCHANGED <<slot, pending, live, born, open>>

(* The slot is emptied together with the deletion of what it held THEN. Others *)
(* may still be on their way.                                                  *)
Reap == /\ reaping
        /\ live' = live \ {slot}
        /\ slot' = NoPeer
        /\ reaping' \in BOOLEAN
        /\ UNCHANGED <<pending, born, open>>

Next == \/ \E p \in Peer : Begin(p)
        \/ Abort \/ Install \/ Close \/ Decide \/ Reap

Spec == Init /\ [][Next]_vars
===============================================================================
