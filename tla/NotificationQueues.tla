------------------------- MODULE NotificationQueues -------------------------
(***************************************************************************)
(* What the notifications of the service manager promise to a process: a   *)
(* bounded queue of its own, in the order of publication, that nothing but *)
(* the process itself takes from, and the set of its subscriptions.        *)
(***************************************************************************)
EXTENDS Integers, Sequences

CONSTANTS Procs, Ids, Cap

VARIABLES
    known,       \* processes the service manager has a record of
    enabled,     \* processes that asked for notifications
    subscribed,  \* the subscriptions of each process
    queue        \* the notifications each process has yet to receive

vars == <<known, enabled, subscribed, queue>>

Init ==
    /\ known = {} /\ enabled = {}
    /\ subscribed = [p \in Procs |-> {}]
    /\ queue = [p \in Procs |-> <<>>]

Register(p) ==
    /\ p \notin known
    /\ known' = known \cup {p}
    /\ UNCHANGED <<enabled, subscribed, queue>>

\* What a process had not received goes with it.
Forget(p) ==
    /\ known' = known \ {p} /\ enabled' = enabled \ {p}
    /\ subscribed' = [subscribed EXCEPT ![p] = {}]
    /\ queue' = [queue EXCEPT ![p] = <<>>]

Enable(p) ==
    /\ known' = known \cup {p} /\ enabled' = enabled \cup {p}
    /\ UNCHANGED <<subscribed, queue>>

Subscribe(p, n) ==
    /\ p \in enabled
    /\ subscribed' = [subscribed EXCEPT ![p] = @ \cup {n}]
    /\ UNCHANGED <<known, enabled, queue>>

Unsubscribe(p, n) ==
    /\ p \in enabled
    /\ subscribed' = [subscribed EXCEPT ![p] = @ \ {n}]
    /\ UNCHANGED <<known, enabled, queue>>

\* A publication reaches some of the processes that enabled notifications.
Publish(n, reached) ==
    /\ \A p \in reached : Len(queue[p]) < Cap
    /\ queue' = [p \in Procs |-> IF p \in reached THEN Append(queue[p], n) ELSE queue[p]]
    /\ UNCHANGED <<known, enabled, subscribed>>

Receive(p) ==
    /\ p \in enabled /\ queue[p] # <<>>
    /\ queue' = [queue EXCEPT ![p] = Tail(@)]
    /\ UNCHANGED <<known, enabled, subscribed>>

Next ==
    \/ \E p \in Procs : Register(p) \/ Forget(p) \/ Enable(p) \/ Receive(p)
    \/ \E p \in Procs, n \in Ids : Subscribe(p, n) \/ Unsubscribe(p, n)
    \/ \E n \in Ids, reached \in SUBSET enabled : Publish(n, reached)

Spec == Init /\ [][Next]_vars

=============================================================================
