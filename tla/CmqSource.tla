------------------------------ MODULE CmqSource ------------------------------
(***************************************************************************)
(* The cmq_queue event source: receive a message from CMQ, put it on the   *)
(* rulebook's queue, delete it from CMQ, and start over; an exception of   *)
(* either call becomes an error event and a pause.  Around it: the CMQ     *)
(* service, which hides a received message until its visibility timeout    *)
(* expires; calls whose request or whose reply is lost; the rulebook,      *)
(* which takes events from a bounded queue; and the death of the process,  *)
(* which takes the events still queued with it.                            *)
(***************************************************************************)
EXTENDS Naturals, Sequences

CONSTANTS
  Messages,       \* the messages that were sent to the CMQ queue
  Modes,          \* the values of acknowledge to try: a subset of BOOLEAN
  Room,           \* how many events the rulebook's queue holds
  Failure,        \* the event that reports an exception
  None,           \* no message in hand
  MaxFaults,      \* bound: calls that fail
  MaxCrashes,     \* bound: deaths of the process
  MaxSlow,        \* bound: messages that time out while the source has them
  MaxYields       \* bound: deliveries of a message that is never acknowledged

ASSUME CmqAssumption ==
  /\ Modes \subseteq BOOLEAN /\ Modes # {}
  /\ Room \in Nat \ {0}
  /\ Failure \notin Messages /\ None \notin Messages
  /\ MaxFaults \in Nat /\ MaxCrashes \in Nat /\ MaxSlow \in Nat /\ MaxYields \in Nat

VARIABLES
  stored,         \* the messages CMQ still has
  hidden,         \* those it does not hand out: received, not yet timed out
  acknowledge,    \* the source's acknowledge parameter
  pc,             \* what the source does next
  held,           \* the message it received last
  queue,          \* the rulebook's queue of events
  yields,         \* yields[m]: how many times m was put on that queue
  expiries,       \* expiries[m]: how many times m became visible again
  processed,      \* the messages the rulebook took from its queue
  faults, crashes, slow

source == <<pc, held, acknowledge>>
rulebook == <<queue, yields, processed>>
service == <<stored, hidden, expiries, slow>>
vars == <<source, rulebook, service, faults, crashes>>

Visible == stored \ hidden

Init ==
  /\ stored = Messages /\ hidden = {} /\ expiries = [m \in Messages |-> 0] /\ slow = 0
  /\ acknowledge \in Modes /\ pc = "receive" /\ held = None
  /\ queue = <<>> /\ yields = [m \in Messages |-> 0] /\ processed = {}
  /\ faults = 0 /\ crashes = 0

\* A call ends in an exception: the handler is next.
Raise ==
  /\ faults < MaxFaults
  /\ faults' = faults + 1
  /\ pc' = "report"

\* Mutant: the message is acknowledged as soon as it is received.
ReceiveDeletes(m) ==
  /\ pc = "receive" /\ m \in Visible
  /\ IF acknowledge THEN stored' = stored \ {m} /\ UNCHANGED hidden
                    ELSE hidden' = hidden \cup {m} /\ UNCHANGED stored
  /\ pc' = "put" /\ held' = m
  /\ UNCHANGED <<acknowledge, rulebook, expiries, slow, faults, crashes>>

\* ReceiveMessage hands out a visible message and hides it; the reply may be lost.
Receive(m) ==
  /\ pc = "receive" /\ m \in Visible
  /\ hidden' = hidden \cup {m}
  /\ \/ pc' = "put" /\ held' = m /\ UNCHANGED faults
     \/ Raise /\ UNCHANGED held
  /\ UNCHANGED <<acknowledge, rulebook, stored, expiries, slow, crashes>>

\* The long poll ends without a message: MsgBody is None.
ReceiveNothing ==
  /\ pc = "receive" /\ Visible = {}
  /\ pc' = "sleep"
  /\ UNCHANGED <<held, acknowledge, rulebook, service, faults, crashes>>

ReceiveFails ==
  /\ pc = "receive" /\ Raise
  /\ UNCHANGED <<held, acknowledge, rulebook, service, crashes>>

\* Mutant: the event is dropped when the rulebook's queue is full.
PutOrDrop ==
  /\ pc = "put"
  /\ queue' = IF Len(queue) < Room THEN Append(queue, held) ELSE queue
  /\ yields' = [yields EXCEPT ![held] = @ + 1]
  /\ pc' = IF acknowledge THEN "delete" ELSE "receive"
  /\ UNCHANGED <<held, acknowledge, processed, service, faults, crashes>>

\* The event is queued, when the rulebook has room; only then is CMQ told.
Put ==
  /\ pc = "put" /\ Len(queue) < Room
  /\ queue' = Append(queue, held)
  /\ yields' = [yields EXCEPT ![held] = @ + 1]
  /\ pc' = IF acknowledge THEN "delete" ELSE "receive"
  /\ UNCHANGED <<held, acknowledge, processed, service, faults, crashes>>

\* DeleteMessage removes the message; the reply may be lost.
Delete ==
  /\ pc = "delete"
  /\ stored' = stored \ {held} /\ hidden' = hidden \ {held}
  /\ \/ pc' = "receive" /\ UNCHANGED faults
     \/ Raise
  /\ UNCHANGED <<held, acknowledge, rulebook, expiries, slow, crashes>>

\* DeleteMessage fails: the call did not arrive, or the receipt has expired.
DeleteFails ==
  /\ pc = "delete"
  /\ \/ Raise
     \/ held \notin hidden /\ pc' = "report" /\ UNCHANGED faults
  /\ UNCHANGED <<held, acknowledge, rulebook, service, crashes>>

\* Mutant: the handler never returns to polling.
ReportForever ==
  /\ pc = "report" /\ Len(queue) < Room
  /\ queue' = Append(queue, Failure)
  /\ UNCHANGED <<source, yields, processed, service, faults, crashes>>

\* The exception handler queues an error event and pauses.
Report ==
  /\ pc = "report" /\ Len(queue) < Room
  /\ queue' = Append(queue, Failure)
  /\ pc' = "sleep"
  /\ UNCHANGED <<held, acknowledge, yields, processed, service, faults, crashes>>

\* Mutant: after a failure the source yields the message it still holds.
WakeAgain ==
  /\ pc = "sleep" /\ pc' = IF held \in stored THEN "put" ELSE "receive"
  /\ UNCHANGED <<held, acknowledge, rulebook, service, faults, crashes>>

\* The pause is over.
Wake ==
  /\ pc = "sleep" /\ pc' = "receive"
  /\ UNCHANGED <<held, acknowledge, rulebook, service, faults, crashes>>

\* The visibility timeout of a received message ends.
Expire(m) ==
  /\ m \in hidden
  /\ IF pc \in {"put", "delete"} /\ held = m
       THEN slow < MaxSlow /\ slow' = slow + 1
       ELSE UNCHANGED slow
  /\ acknowledge \/ yields[m] < MaxYields
  /\ hidden' = hidden \ {m}
  /\ expiries' = [expiries EXCEPT ![m] = @ + 1]
  /\ UNCHANGED <<source, rulebook, stored, faults, crashes>>

\* The rulebook takes the next event.
Consume ==
  /\ queue # <<>>
  /\ processed' = processed \cup ({Head(queue)} \cap Messages)
  /\ queue' = Tail(queue)
  /\ UNCHANGED <<source, yields, service, faults, crashes>>

\* The task is cancelled or the process dies; later it is started again.
Crash ==
  /\ pc # "down" /\ crashes < MaxCrashes
  /\ crashes' = crashes + 1
  /\ pc' = "down" /\ queue' = <<>>
  /\ UNCHANGED <<held, acknowledge, yields, processed, service, faults>>

Restart ==
  /\ pc = "down" /\ pc' = "receive" /\ held' = None
  /\ UNCHANGED <<acknowledge, rulebook, service, faults, crashes>>

Poll ==
  \/ \E m \in Messages : Receive(m)
  \/ ReceiveNothing \/ ReceiveFails \/ Put \/ Delete \/ DeleteFails \/ Report \/ Wake

Next ==
  \/ Poll \/ Consume \/ Crash \/ Restart
  \/ \E m \in Messages : Expire(m)

\* The loop and the rulebook keep going, a timeout ends, a dead process is restarted.
Fairness ==
  /\ WF_vars(Poll) /\ WF_vars(Consume) /\ WF_vars(Restart)
  /\ \A m \in Messages : WF_vars(Expire(m))

Spec == Init /\ [][Next]_vars
FairSpec == Spec /\ Fairness

-----------------------------------------------------------------------------
\* The shapes of the variables.
TypeOK ==
  /\ stored \subseteq Messages /\ hidden \subseteq stored
  /\ acknowledge \in Modes /\ held \in Messages \cup {None}
  /\ pc \in {"receive", "put", "delete", "report", "sleep", "down"}
  /\ queue \in Seq(Messages \cup {Failure}) /\ Len(queue) <= Room
  /\ yields \in [Messages -> Nat] /\ expiries \in [Messages -> Nat]
  /\ processed \subseteq Messages
  /\ faults \in 0..MaxFaults /\ crashes \in 0..MaxCrashes /\ slow \in 0..MaxSlow

Queued(m) == \E i \in DOMAIN queue : queue[i] = m

\* "each message is deleted after it is yielded": whatever call fails and
\* whenever the process dies, a message has left CMQ only if it was yielded.
YieldedFirst == \A m \in Messages \ stored : yields[m] > 0

\* A yielded message waits for the rulebook or was taken by it, unless the
\* process died: the loop itself drops nothing.
OnlyACrashLoses ==
  crashes = 0 => \A m \in Messages : yields[m] > 0 => Queued(m) \/ m \in processed

\* Redelivery has one cause, the visibility timeout: a message is yielded at
\* most once more than it timed out, so never twice when it never did.
OncePerTimeout == \A m \in Messages : yields[m] <= 1 + expiries[m]

\* Without acknowledge the source leaves every message in the queue.
LeavesUnacknowledged == ~acknowledge => stored = Messages

\* Every message reaches the rulebook's queue, over failures and restarts.
EveryMessageYielded == \A m \in Messages : <>(yields[m] > 0)

\* With acknowledge the CMQ queue drains and stays empty.
Drains == acknowledge ~> [](stored = {})

=============================================================================
