-------------------------- MODULE SmNotifications ---------------------------
(***************************************************************************)
(* The notifications of the service manager (sysmodules/sm): a ring of     *)
(* pending notifications for each process, its subscriptions, and the      *)
(* semaphore that tells the process how many it may receive.  A command is *)
(* one action, for the server is one thread and answers before it takes    *)
(* the next.  A client waits on its semaphore and then asks for the        *)
(* notification, in two steps that others come between.                    *)
(***************************************************************************)
EXTENDS Integers, Sequences, FiniteSets

CONSTANTS
    Kips,          \* section-0 modules: never registered by pm
    Others,        \* processes pm registers
    Ids,           \* notification ids
    OnceIds,       \* those every publisher sends with flags & 1
    Cap,           \* size of pendingNotifications
    SubMax,        \* size of subscribedNotifications
    SemMax,        \* maximum count of a notification semaphore
    PoolSize,      \* size of processDataPool
    NoReply

Procs == Kips \cup Others

ASSUME ConstantsAssumption ==
    /\ Kips \cap Others = {}
    /\ OnceIds \subseteq Ids
    /\ Ids # {}
    /\ Cap \in Nat \ {0} /\ SubMax \in Nat /\ PoolSize \in Nat
    /\ SemMax \in Nat /\ SemMax >= Cap

VARIABLES
    list,      \* processDataInUseList
    enabled,   \* ProcessData.notificationEnabled
    received,  \* ProcessData.receivedNotificationIndex
    pending,   \* ProcessData.pendingNotificationIndex
    nbPending, \* ProcessData.nbPendingNotifications
    ring,      \* ProcessData.pendingNotifications
    subs,      \* ProcessData.subscribedNotifications[0..nbSubscribed-1]
    sem,       \* count of ProcessData.notificationSemaphore
    reply,     \* the answer to the last publication, NoReply after anything else
    panicked,  \* the server trapped
    alive,     \* kernel: running processes
    acquired   \* notifications a client acquired and did not ask for yet

procVars == <<enabled, received, pending, nbPending, ring, subs, sem>>
vars == <<list, procVars, reply, panicked, alive, acquired>>

RangeOf(q) == {q[i] : i \in DOMAIN q}
Known == RangeOf(list)

Running == ~panicked

Slots == 0..(Cap - 1)
\* Mutant: the index does not wrap.
Following_NoWrap(i) == i + 1
\* The next place of the ring: (i + 1) % 16.
Following(i) == (i + 1) % Cap

\* The notifications of the ring, oldest first.
Queue(p) == [i \in 1..nbPending[p] |-> ring[p][(received[p] + i - 1) % Cap]]
IsPending(p, n) == \E i \in 1..nbPending[p] : Queue(p)[i] = n

Init ==
    /\ list = <<>>
    /\ enabled = [p \in Procs |-> FALSE]
    /\ received = [p \in Procs |-> 0] /\ pending = [p \in Procs |-> 0]
    /\ nbPending = [p \in Procs |-> 0]
    /\ ring = [p \in Procs |-> [i \in Slots |-> CHOOSE n \in Ids : TRUE]]
    /\ subs = [p \in Procs |-> <<>>]
    /\ sem = [p \in Procs |-> 0]
    /\ reply = NoReply /\ panicked = FALSE
    /\ alive = Kips
    /\ acquired = [p \in Procs |-> 0]

-----------------------------------------------------------------------------
(* Process records *)

\* allocateNode clears the record and puts it at the front of the list; an empty pool traps.
Allocate(p) ==
    IF Len(list) < PoolSize
    THEN list' = <<p>> \o list /\ UNCHANGED panicked
    ELSE panicked' = TRUE /\ UNCHANGED list

\* moveNode takes the record out of the list.
Remove(p) ==
    \E i \in DOMAIN list :
        /\ list[i] = p
        /\ list' = [j \in 1..(Len(list) - 1) |-> IF j < i THEN list[j] ELSE list[j + 1]]

\* pm registers a process it is about to start.
RegisterProcess(p) ==
    /\ Running /\ p \in Others \ alive /\ p \notin Known
    /\ Allocate(p)
    /\ alive' = alive \cup {p}
    /\ reply' = NoReply
    /\ UNCHANGED <<procVars, acquired>>

\* Mutant: a record is given back with the notifications it still holds, and
\* allocateNode does not clear it.
UnregisterProcess_NotCleared(p) ==
    /\ Running /\ p \in Others \ alive /\ p \in Known
    /\ Remove(p)
    /\ enabled' = [enabled EXCEPT ![p] = FALSE]
    /\ sem' = [sem EXCEPT ![p] = 0]
    /\ reply' = NoReply
    /\ UNCHANGED <<received, pending, nbPending, ring, subs, panicked, alive, acquired>>

\* The record goes back to the pool, where the next allocation clears it; its
\* semaphore is closed.
UnregisterProcess(p) ==
    /\ Running /\ p \in Others \ alive /\ p \in Known
    /\ Remove(p)
    /\ enabled' = [enabled EXCEPT ![p] = FALSE]
    /\ received' = [received EXCEPT ![p] = 0] /\ pending' = [pending EXCEPT ![p] = 0]
    /\ nbPending' = [nbPending EXCEPT ![p] = 0]
    /\ subs' = [subs EXCEPT ![p] = <<>>]
    /\ sem' = [sem EXCEPT ![p] = 0]
    /\ reply' = NoReply
    /\ UNCHANGED <<ring, panicked, alive, acquired>>

-----------------------------------------------------------------------------
(* Commands of a process *)

\* A section-0 module is registered when it first asks for notifications.
EnableNotification(p) ==
    /\ Running /\ p \in alive /\ p \in Known \cup Kips
    /\ IF p \in Known THEN UNCHANGED <<list, panicked>> ELSE Allocate(p)
    /\ enabled' = [enabled EXCEPT ![p] = (panicked' = FALSE)]
    /\ reply' = NoReply
    /\ UNCHANGED <<received, pending, nbPending, ring, subs, sem, alive, acquired>>

MaySubscribe(p) == Running /\ p \in alive /\ p \in Known /\ enabled[p]

MayReceive(p) == MaySubscribe(p) /\ nbPending[p] > 0

Subscribe(p, n) ==
    /\ MaySubscribe(p)
    /\ n \notin RangeOf(subs[p]) /\ Len(subs[p]) < SubMax
    /\ subs' = [subs EXCEPT ![p] = Append(@, n)]
    /\ reply' = NoReply
    /\ UNCHANGED <<list, enabled, received, pending, nbPending, ring, sem, panicked, alive, acquired>>

\* The last subscription takes the place of the one removed.
Unsubscribe(p, n) ==
    /\ MaySubscribe(p)
    /\ \E i \in DOMAIN subs[p] :
         /\ subs[p][i] = n
         /\ LET last == Len(subs[p])
            IN  subs' = [subs EXCEPT ![p] =
                    [j \in 1..(last - 1) |-> IF j = i THEN subs[p][last] ELSE subs[p][j]]]
    /\ reply' = NoReply
    /\ UNCHANGED <<list, enabled, received, pending, nbPending, ring, sem, panicked, alive, acquired>>

\* The client's wait on its semaphore returns.
Acquire(p) ==
    /\ p \in alive /\ sem[p] > 0
    /\ sem' = [sem EXCEPT ![p] = @ - 1]
    /\ acquired' = [acquired EXCEPT ![p] = @ + 1]
    /\ reply' = NoReply
    /\ UNCHANGED <<list, enabled, received, pending, nbPending, ring, subs, panicked, alive>>

\* Mutant: the read index is left where it was.
ReceiveNotification_KeepIndex(p) ==
    /\ MayReceive(p)
    /\ acquired[p] > 0
    /\ acquired' = [acquired EXCEPT ![p] = @ - 1]
    /\ nbPending' = [nbPending EXCEPT ![p] = @ - 1]
    /\ reply' = NoReply
    /\ UNCHANGED <<list, enabled, received, pending, ring, subs, sem, panicked, alive>>

\* Every client waits on its semaphore before it asks.
ReceiveNotification(p) ==
    /\ MayReceive(p)
    /\ acquired[p] > 0
    /\ acquired' = [acquired EXCEPT ![p] = @ - 1]
    /\ nbPending' = [nbPending EXCEPT ![p] = @ - 1]
    /\ received' = [received EXCEPT ![p] = Following(@)]
    /\ reply' = NoReply
    /\ UNCHANGED <<list, enabled, pending, ring, subs, sem, panicked, alive>>

\* Commands that answer an error and change nothing: a process not known or not
\* enabled, a subscription that exists or does not, a full table, an empty ring.
\* A client that acquired a notification and gets an error has lost it.
Refused(p) ==
    /\ Running /\ p \in alive
    /\ reply' = NoReply
    /\ \E n \in {acquired[p]} \cup (IF MayReceive(p) THEN {} ELSE {acquired[p] - 1}) :
         n >= 0 /\ acquired' = [acquired EXCEPT ![p] = n]
    /\ UNCHANGED <<list, procVars, panicked, alive>>

-----------------------------------------------------------------------------
(* Publication *)

\* Mutant: the ring is compared from its first slot, not from the one received next.
Skipped_FromZero(p, n, once) == once /\ \E i \in 0..(nbPending[p] - 1) : ring[p][i] = n

\* flags & 1: only send if not already pending.
Skipped(p, n, once) == once /\ IsPending(p, n)
Full(p) == nbPending[p] = Cap

\* The processes a walk of the list gets to: it returns at the first one that
\* is full, unless flags & 2 says to go on.
Fails(p, n, once, force) == Full(p) /\ ~force /\ ~Skipped(p, n, once)

\* Mutant: the walk ends at the first process it notified.
Walked_FirstOnly(targets, n, once, force) ==
    {list[i] : i \in {k \in DOMAIN list :
        list[k] \in targets /\ \A j \in 1..(k - 1) : list[j] \notin targets}}

Walked(targets, n, once, force) ==
    {list[i] : i \in {k \in DOMAIN list :
        /\ list[k] \in targets
        /\ \A j \in 1..(k - 1) : list[j] \in targets => ~Fails(list[j], n, once, force)}}

Pushed(p, n, once) == ~Full(p) /\ ~Skipped(p, n, once)

\* doPublishNotification for every process walked; releasing a semaphore beyond its
\* maximum traps.
Publish(targets, n, once, force) ==
    LET walked == Walked(targets, n, once, force)
        pushed == {p \in walked : Pushed(p, n, once)}
    IN  /\ Running
        /\ IF \A p \in pushed : sem[p] < SemMax
           THEN /\ ring' = [p \in Procs |-> IF p \in pushed THEN [ring[p] EXCEPT ![pending[p]] = n] ELSE ring[p]]
                /\ pending' = [p \in Procs |-> IF p \in pushed THEN Following(pending[p]) ELSE pending[p]]
                /\ nbPending' = [p \in Procs |-> IF p \in pushed THEN nbPending[p] + 1 ELSE nbPending[p]]
                /\ sem' = [p \in Procs |-> IF p \in pushed THEN sem[p] + 1 ELSE sem[p]]
                /\ reply' = [id |-> n, to |-> targets, forced |-> force,
                             ok |-> ~\E p \in targets : Fails(p, n, once, force)]
                /\ UNCHANGED <<list, enabled, received, subs, panicked, alive, acquired>>
           ELSE /\ panicked' = TRUE
                /\ UNCHANGED <<list, procVars, reply, alive, acquired>>

EnabledProcs == {p \in Known : enabled[p]}
Subscribers(n) == {p \in EnabledProcs : n \in RangeOf(subs[p])}

PublishToSubscriber(n, once, force) ==
    /\ n \in OnceIds => once
    /\ Publish(Subscribers(n), n, once, force)

\* The ids of the processes notified are returned, with flags 0.
PublishAndGetSubscriber(n) ==
    n \notin OnceIds /\ Publish(Subscribers(n), n, FALSE, FALSE)

\* A process that is unknown or not enabled is an error, and nothing is sent.
PublishToProcess(p, n) ==
    /\ n \notin OnceIds /\ p \in EnabledProcs
    /\ Publish({p}, n, FALSE, FALSE)

PublishToAll(n) ==
    n \notin OnceIds /\ Publish(EnabledProcs, n, FALSE, FALSE)

-----------------------------------------------------------------------------
ProcessEnds(p) ==
    /\ p \in alive \cap Others
    /\ alive' = alive \ {p}
    /\ acquired' = [acquired EXCEPT ![p] = 0]
    /\ reply' = NoReply
    /\ UNCHANGED <<list, procVars, panicked>>

Next ==
    \/ \E p \in Procs : \/ RegisterProcess(p) \/ UnregisterProcess(p)
                        \/ EnableNotification(p) \/ Acquire(p) \/ ReceiveNotification(p)
                        \/ Refused(p) \/ ProcessEnds(p)
    \/ \E p \in Procs, n \in Ids : Subscribe(p, n) \/ Unsubscribe(p, n) \/ PublishToProcess(p, n)
    \/ \E n \in Ids, once, force \in BOOLEAN : PublishToSubscriber(n, once, force)
    \/ \E n \in Ids : PublishAndGetSubscriber(n) \/ PublishToAll(n)

Spec == Init /\ [][Next]_vars

-----------------------------------------------------------------------------
(* Properties *)

TypeOK ==
    /\ list \in Seq(Procs)
    /\ enabled \in [Procs -> BOOLEAN]
    /\ received \in [Procs -> Slots] /\ pending \in [Procs -> Slots]
    /\ nbPending \in [Procs -> 0..Cap]
    /\ ring \in [Procs -> [Slots -> Ids]]
    /\ subs \in [Procs -> Seq(Ids)]
    /\ sem \in [Procs -> 0..SemMax]
    /\ reply \in {NoReply} \cup
          [id: Ids, to: SUBSET Procs, forced: BOOLEAN, ok: BOOLEAN]
    /\ panicked \in BOOLEAN
    /\ alive \subseteq Procs
    /\ acquired \in [Procs -> 0..SemMax]

\* What a client may still acquire, and what it acquired and did not ask for, is
\* what is pending: a client whose wait returned is never refused (pxi, pm,
\* loader and rosalina leave their loop, or trap, when srvReceiveNotification fails).
SemaphoreCountsPending ==
    \A p \in Procs : p \in alive => sem[p] + acquired[p] = nbPending[p]

\* A publication that answers success is pending for everyone it is meant for:
\* a walk of the list that ended at a full process does not hide behind a success.
SuccessReachesAll ==
    reply # NoReply /\ reply.ok /\ ~reply.forced => \A p \in reply.to : IsPending(p, reply.id)

\* notifications.c:24, "only send if not already pending".
OncePending ==
    \A p \in Procs, n \in OnceIds :
        Cardinality({i \in 1..nbPending[p] : Queue(p)[i] = n}) <= 1

\* The rings implement the queues.
Queues == INSTANCE NotificationQueues WITH
    known      <- Known,
    enabled    <- EnabledProcs,
    subscribed <- [p \in Procs |-> RangeOf(subs[p])],
    queue      <- [p \in Procs |-> Queue(p)]

ImplementsQueues == Queues!Spec

=============================================================================
