---------------------------- MODULE AtLeastOnce ----------------------------
(***************************************************************************)
(* What the outbox promises to whoever reads the stream (ADR 0005): an     *)
(* event is delivered only once it was accepted, maybe several times, and  *)
(* it is forgotten only after it was delivered.                            *)
(***************************************************************************)
CONSTANT Events

VARIABLES
    accepted,       \* events committed with their business transaction
    delivered,      \* events the stream received
    forgotten       \* events whose record is gone

vars == <<accepted, delivered, forgotten>>

Init ==
    /\ accepted = {}
    /\ delivered = {}
    /\ forgotten = {}

Accept(e) ==
    /\ e \notin accepted
    /\ accepted' = accepted \union {e}
    /\ UNCHANGED <<delivered, forgotten>>

\* A repeated delivery is a stuttering step.
Deliver(e) ==
    /\ e \in accepted
    /\ delivered' = delivered \union {e}
    /\ UNCHANGED <<accepted, forgotten>>

Forget(e) ==
    /\ e \in delivered
    /\ forgotten' = forgotten \union {e}
    /\ UNCHANGED <<accepted, delivered>>

Next == \E e \in Events : Accept(e) \/ Deliver(e) \/ Forget(e)

Spec == Init /\ [][Next]_vars
=============================================================================
