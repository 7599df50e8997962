------------------------------ MODULE TkeSource ------------------------------
(***************************************************************************)
(* The tke_cluster event source: ask for the clusters' states, compare the *)
(* answer with what earlier polls recorded, queue an event for each        *)
(* transition and for each cluster that is gone, pause, and start over.    *)
(* A cluster is its signature, the pair of its state and its instance      *)
(* state, and its node counts.                                             *)
(***************************************************************************)
EXTENDS Naturals, Sequences

CONSTANTS
  Clusters,       \* the cluster ids
  Signatures,     \* the values of (cluster_state, cluster_instance_state)
  Counts,         \* the values of the node counts
  None,           \* no cluster, no previous state
  Modes,          \* the values of initial to try: a subset of BOOLEAN
  MaxChanges,     \* bound: changes of the clusters
  MaxFaults       \* bound: calls that fail

ASSUME TkeAssumption ==
  /\ None \notin Signatures /\ Modes \subseteq BOOLEAN
  /\ MaxChanges \in Nat /\ MaxFaults \in Nat

VARIABLES
  cloud,          \* cloud[c]: the cluster, None when it does not exist
  changes,        \* how often it changed
  initial,        \* the source's parameter
  pc,             \* "poll", "compare" or "sleep"
  current,        \* current[c]: c in the latest answer
  states,         \* states[c]: the cluster recorded by the latest poll that differed
  log,            \* log[c]: the events queued for c
  baseline,       \* history: what the first answer recorded
  polls,          \* history: an answer was compared
  relapsed,       \* history: a later one was taken for the first
  faults

vars == <<cloud, changes, initial, pc, current, states, log, baseline, polls, relapsed, faults>>

Cluster == [signature : Signatures, nodes : Counts]
NoCluster == [signature |-> None, nodes |-> None]
Nothing == [c \in Clusters |-> NoCluster]
Event == [event_type : {"ClusterStateChanged", "ClusterDeleted"},
          signature : Signatures \cup {None}, nodes : Counts \cup {None},
          previous : Signatures \cup {None}]

Init ==
  /\ cloud \in [Clusters -> Cluster \cup {NoCluster}] /\ changes = 0
  /\ initial \in Modes /\ pc = "poll" /\ current = Nothing /\ states = Nothing
  /\ log = [c \in Clusters |-> <<>>] /\ baseline = Nothing
  /\ polls = FALSE /\ relapsed = FALSE /\ faults = 0

\* A cluster is created, moves, or is deleted.
Change(c) ==
  /\ changes < MaxChanges /\ changes' = changes + 1
  /\ \E new \in (Cluster \cup {NoCluster}) \ {cloud[c]} : cloud' = [cloud EXCEPT ![c] = new]
  /\ UNCHANGED <<initial, pc, current, states, log, baseline, polls, relapsed, faults>>

\* DescribeClusterStatus answers, or fails and the error is queued.
Describe ==
  /\ pc = "poll" /\ pc' = "compare" /\ current' = cloud
  /\ UNCHANGED <<cloud, changes, initial, states, log, baseline, polls, relapsed, faults>>

DescribeFails ==
  /\ pc = "poll" /\ faults < MaxFaults
  /\ faults' = faults + 1 /\ pc' = "sleep" /\ current' = Nothing
  /\ UNCHANGED <<cloud, changes, initial, states, log, baseline, polls, relapsed>>

Known(table) == {c \in Clusters : table[c] # NoCluster}

\* Mutant: the clusters of the answer that are not recorded.
MovedNew == Known(current) \ Known(states)

\* The clusters of the answer whose signature is not the recorded one.
Moved == {c \in Known(current) : states[c].signature # current[c].signature}

\* The recorded clusters that are not in the answer.
Gone == Known(states) \ Known(current)

first_poll == Known(states) = {}

\* Mutant: an event names the state it reports as the previous one.
ChangedTo(c) ==
  [event_type |-> "ClusterStateChanged", signature |-> current[c].signature,
   nodes |-> current[c].nodes, previous |-> current[c].signature]

Changed(c) ==
  [event_type |-> "ClusterStateChanged", signature |-> current[c].signature,
   nodes |-> current[c].nodes, previous |-> states[c].signature]

\* The event of a deleted cluster names no previous state.
Deleted(c) ==
  [event_type |-> "ClusterDeleted", signature |-> None, nodes |-> None, previous |-> None]

\* The comparison: a cluster that moved is recorded and, unless nothing was
\* recorded before and initial is off, announced; a cluster that is gone is
\* announced and forgotten.
Compare ==
  /\ pc = "compare" /\ pc' = "sleep"
  /\ log' = [c \in Clusters |->
               IF c \in Moved /\ (~first_poll \/ initial) THEN Append(log[c], Changed(c))
               ELSE IF c \in Gone THEN Append(log[c], Deleted(c))
               ELSE log[c]]
  /\ states' = [c \in Clusters |-> IF c \in Moved THEN current[c]
                                   ELSE IF c \in Gone THEN NoCluster ELSE states[c]]
  /\ baseline' = IF polls \/ initial THEN baseline ELSE states'
  /\ relapsed' = (relapsed \/ (polls /\ first_poll /\ Moved # {}))
  /\ polls' = TRUE
  /\ UNCHANGED <<cloud, changes, initial, current, faults>>

Sleep ==
  /\ pc = "sleep" /\ pc' = "poll"
  /\ UNCHANGED <<cloud, changes, initial, current, states, log, baseline, polls, relapsed, faults>>

Poll == Describe \/ DescribeFails \/ Compare \/ Sleep

Next == Poll \/ \E c \in Clusters : Change(c)

Spec == Init /\ [][Next]_vars
FairSpec == Spec /\ WF_vars(Poll)

-----------------------------------------------------------------------------
\* The shapes of the variables.
TypeOK ==
  /\ cloud \in [Clusters -> Cluster \cup {NoCluster}] /\ changes \in 0..MaxChanges
  /\ initial \in Modes /\ pc \in {"poll", "compare", "sleep"}
  /\ current \in [Clusters -> Cluster \cup {NoCluster}]
  /\ states \in [Clusters -> Cluster \cup {NoCluster}]
  /\ log \in [Clusters -> Seq(Event)]
  /\ baseline \in [Clusters -> Cluster \cup {NoCluster}]
  /\ polls \in BOOLEAN /\ relapsed \in BOOLEAN /\ faults \in 0..MaxFaults

\* What a reader of the events believes after n of them.
Told(c, n) == IF n = 0 THEN baseline[c].signature ELSE log[c][n].signature

\* A reader of the events, who starts from the baseline, knows what the source
\* has recorded.
Announced(c) == Told(c, Len(log[c])) = states[c].signature

IsChange(e) == e.event_type = "ClusterStateChanged"

\* Every event continues from the ones before it: a transition starts from what
\* they told and ends elsewhere, and only a cluster they told of is deleted.
Chained(c) ==
  \A n \in DOMAIN log[c] :
    /\ IsChange(log[c][n]) => log[c][n].previous = Told(c, n - 1)
    /\ log[c][n].signature # Told(c, n - 1)

\* Nothing is recorded silently and no event is out of line, with initial, or
\* as long as the record was empty at the first poll only.
RecordsAreAnnounced == initial \/ ~relapsed => \A c \in Clusters : Announced(c)
EventsAreChained == initial \/ ~relapsed => \A c \in Clusters : Chained(c)

\* A state that lasts is recorded in the end, over failed calls; so is absence.
EveryStateSeen ==
  \A c \in Clusters, s \in Signatures \cup {None} :
    cloud[c].signature = s ~> states[c].signature = s \/ cloud[c].signature # s
=============================================================================
