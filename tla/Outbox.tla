------------------------------- MODULE Outbox -------------------------------
(***************************************************************************)
(* The transactional outbox: commands record events in the transaction of  *)
(* their own writes, dispatchers publish them to a Redis stream.           *)
(*                                                                         *)
(* A dispatcher holds the rows of its batch locked (FOR UPDATE SKIP        *)
(* LOCKED) while it publishes them one by one, and marks them all in one   *)
(* commit.  The stream may store an event and its answer be lost; the      *)
(* process may die, and so may its connection to the database, which frees *)
(* the rows while the process still publishes.                             *)
(***************************************************************************)
EXTENDS Naturals, FiniteSets

CONSTANTS
    Events,         \* rows of outbox_events, numbered as inserted
    Dispatchers,    \* processes running worker.main
    BatchLimit      \* limite, 100 in the code

ASSUME EventsAssumption == Events \subseteq Nat

ASSUME BatchLimitAssumption == BatchLimit \in Nat \ {0}

VARIABLES
    outbox,         \* table outbox_events: the state of each row
    stream,         \* copies of each event the stream stored: 0, 1 or several
    batch,          \* the batch of each dispatcher
    lost            \* history: events with an attempt that stored them, or may
                    \* yet store them, and cannot mark them any more

vars == <<outbox, stream, batch, lost>>

\* WRITTEN: inserted by a transaction that has not committed.
\* WAITING: available_at lies ahead.  FORGOTTEN: deleted by the retention.
RowState ==
    {"NONE", "WRITTEN", "UNDONE", "PENDING", "WAITING", "PROCESSED", "FORGOTTEN"}

Several == 2

Once(n) == IF n = 0 THEN 1 ELSE Several

\* held: rows locked by the transaction, none once the connection is lost.
NoBatch == [held |-> {}, left |-> {}, done |-> {}, failed |-> {}]

Taken(d) == batch[d].left \union batch[d].done \union batch[d].failed

Busy(d) == Taken(d) # {}

Connected(d) == batch[d].held # {}

Locked == UNION {batch[d].held : d \in Dispatchers}

-----------------------------------------------------------------------------
\* Commands.

\* Numbers are given at the insert, so events may commit in another order.
Record(e) ==
    /\ outbox[e] = "NONE"
    /\ \A f \in Events : f < e => outbox[f] # "NONE"
    /\ outbox' = [outbox EXCEPT ![e] = "WRITTEN"]
    /\ UNCHANGED <<stream, batch, lost>>

CommitCommand(e) ==
    /\ outbox[e] = "WRITTEN"
    /\ outbox' = [outbox EXCEPT ![e] = "PENDING"]
    /\ UNCHANGED <<stream, batch, lost>>

UndoCommand(e) ==
    /\ outbox[e] = "WRITTEN"
    /\ outbox' = [outbox EXCEPT ![e] = "UNDONE"]
    /\ UNCHANGED <<stream, batch, lost>>

-----------------------------------------------------------------------------
\* despachar_lote.

\* Mutant: the SELECT also reads what is not committed.
AvailableDirty == {e \in Events : outbox[e] \in {"PENDING", "WRITTEN"}}

\* Mutant: an event the stream already has is not selected again.
AvailableUndelivered == {e \in Events : outbox[e] = "PENDING" /\ stream[e] = 0}

Available == {e \in Events : outbox[e] = "PENDING"}

\* Mutant: rows are selected without FOR UPDATE.
SelectableUnlocked == Available

Selectable == Available \ Locked

FirstOf(S) == {e \in S : Cardinality({f \in S : f <= e}) <= BatchLimit}

TakeBatch(d) ==
    /\ ~Busy(d)
    /\ Selectable # {}
    /\ batch' = [batch EXCEPT ![d] =
           [NoBatch EXCEPT !.held = FirstOf(Selectable), !.left = FirstOf(Selectable)]]
    /\ UNCHANGED <<outbox, stream, lost>>

\* The event the loop is at.
IsNext(d, e) == e \in batch[d].left /\ \A f \in batch[d].left : e <= f

Publish(d, e) ==
    /\ IsNext(d, e)
    /\ stream' = [stream EXCEPT ![e] = Once(@)]
    /\ batch' = [batch EXCEPT ![d].left = @ \ {e}, ![d].done = @ \union {e}]
    /\ UNCHANGED <<outbox, lost>>

\* xadd raises, before or after the stream stored the event.
PublishFails(d, e) ==
    /\ IsNext(d, e)
    /\ \/ UNCHANGED <<stream, lost>>
       \/ /\ stream' = [stream EXCEPT ![e] = Once(@)]
          /\ lost' = lost \union {e}
    /\ batch' = [batch EXCEPT ![d].left = @ \ {e}, ![d].failed = @ \union {e}]
    /\ UNCHANGED outbox

\* Mutant: the whole batch is marked.
MarkAll(d) ==
    [e \in Events |-> IF e \in batch[d].done \union batch[d].failed
                      THEN "PROCESSED" ELSE outbox[e]]

Marked(d) ==
    [e \in Events |->
        CASE e \in batch[d].done -> "PROCESSED"
          [] e \in batch[d].failed -> "WAITING"
          [] OTHER -> outbox[e]]

CommitBatch(d) ==
    /\ Connected(d)
    /\ batch[d].left = {}
    /\ outbox' = Marked(d)
    /\ batch' = [batch EXCEPT ![d] = NoBatch]
    /\ UNCHANGED <<stream, lost>>

-----------------------------------------------------------------------------
\* The back-off of a failed event passes.
BackOff(e) ==
    /\ outbox[e] = "WAITING"
    /\ outbox' = [outbox EXCEPT ![e] = "PENDING"]
    /\ UNCHANGED <<stream, batch, lost>>

\* The daily retention deletes what was processed long ago.
Forget(e) ==
    /\ outbox[e] = "PROCESSED"
    /\ outbox' = [outbox EXCEPT ![e] = "FORGOTTEN"]
    /\ UNCHANGED <<stream, batch, lost>>

\* The commit of a lost connection raises, which ends the process.
CommitRaises(d) ==
    /\ Busy(d)
    /\ ~Connected(d)
    /\ batch[d].left = {}
    /\ batch' = [batch EXCEPT ![d] = NoBatch]
    /\ UNCHANGED <<outbox, stream, lost>>

\* The process dies and is started again.
Crash(d) ==
    /\ Connected(d) \/ batch[d].left # {}
    /\ lost' = lost \union batch[d].done
    /\ batch' = [batch EXCEPT ![d] = NoBatch]
    /\ UNCHANGED <<outbox, stream>>

\* The database ends the session and frees its rows; the loop does not notice.
LoseConnection(d) ==
    /\ Connected(d)
    /\ lost' = lost \union batch[d].left \union batch[d].done
    /\ batch' = [batch EXCEPT ![d].held = {}]
    /\ UNCHANGED <<outbox, stream>>

-----------------------------------------------------------------------------
Init ==
    /\ outbox = [e \in Events |-> "NONE"]
    /\ stream = [e \in Events |-> 0]
    /\ batch = [d \in Dispatchers |-> NoBatch]
    /\ lost = {}

Command(e) == Record(e) \/ CommitCommand(e) \/ UndoCommand(e)

Dispatch(d) ==
    \/ TakeBatch(d)
    \/ \E e \in Events : Publish(d, e)
    \/ CommitBatch(d)
    \/ CommitRaises(d)

Fault(d) ==
    \/ \E e \in Events : PublishFails(d, e)
    \/ LoseConnection(d)
    \/ Crash(d)

Next ==
    \/ \E e \in Events : Command(e) \/ BackOff(e) \/ Forget(e)
    \/ \E d \in Dispatchers : Dispatch(d) \/ Fault(d)

NothingFails == ~ \E d \in Dispatchers : Fault(d)

\* Time passes, the loop of a live worker goes on, and there comes a time from
\* which on nothing fails.
Fairness ==
    /\ \A e \in Events : WF_vars(BackOff(e))
    /\ \A d \in Dispatchers : WF_vars(Dispatch(d))
    /\ <>[][NothingFails]_vars

Spec == Init /\ [][Next]_vars

FairSpec == Spec /\ Fairness

-----------------------------------------------------------------------------
(***************************************************************************)
(* Properties.                                                             *)
(***************************************************************************)

\* Shape of the tables and batches; a row is locked by one dispatcher at most
\* and nobody else changes it meanwhile.
TypeOK ==
    /\ outbox \in [Events -> RowState]
    /\ stream \in [Events -> 0..Several]
    /\ batch \in [Dispatchers ->
           [held : SUBSET Events, left : SUBSET Events,
            done : SUBSET Events, failed : SUBSET Events]]
    /\ lost \subseteq Events
    /\ \A d \in Dispatchers : \A e \in batch[d].held :
           /\ outbox[e] = "PENDING"
           /\ \A c \in Dispatchers \ {d} : e \notin batch[c].held

\* Whoever failed or died on it before, an event marked as processed is in the
\* stream (outbox_dispatcher.py:73 after :57).
MarkedIsPublished ==
    \A e \in Events : outbox[e] \in {"PROCESSED", "FORGOTTEN"} => stream[e] > 0

\* Several dispatchers do not publish an event twice by themselves: a second
\* copy needs an attempt whose outcome was lost.
DuplicatesOnlyByLoss == \A e \in Events : stream[e] = Several => e \in lost

Accepted == {e \in Events : outbox[e] \notin {"NONE", "WRITTEN", "UNDONE"}}

Delivered == {e \in Events : stream[e] > 0}

Forgotten == {e \in Events : outbox[e] = "FORGOTTEN"}

Delivery == INSTANCE AtLeastOnce
    WITH accepted <- Accepted, delivered <- Delivered, forgotten <- Forgotten

\* The stream sees what AtLeastOnce says: nothing that is not committed, and
\* the retention forgets nothing that was not delivered (ADR 0005, "A entrega é
\* ao menos uma vez").
KeepsDelivery == Delivery!Spec

\* Once the failures stop, every committed event ends up published and marked,
\* whatever they left behind ("at least once" is also a promise).
EventuallyMarked ==
    \A e \in Events : e \in Accepted ~> outbox[e] \in {"PROCESSED", "FORGOTTEN"}
=============================================================================
