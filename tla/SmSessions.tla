----------------------------- MODULE SmSessions -----------------------------
(***************************************************************************)
(* The service manager (sysmodules/sm): the single-threaded event loop     *)
(* around svcReplyAndReceive, the session lists it moves sessions between, *)
(* the table of registered services and named ports, and the wake-up of    *)
(* the clients that asked for a service before it existed or while it was  *)
(* full.                                                                   *)
(*                                                                         *)
(* The server is one thread, so one iteration of the loop is one action.   *)
(* Its environment interleaves freely: clients close their sessions or     *)
(* die, servers close their ports, service sessions end.  A request is     *)
(* taken from the environment when it is received: a client blocks in its  *)
(* request, so nothing can change it between sending and reception.        *)
(***************************************************************************)
EXTENDS Integers, Sequences, FiniteSets

CONSTANTS
    Sessions,     \* the session pool (sessionDataPool)
    Procs,        \* the processes that talk to the service manager
    Names,        \* valid service and named port names
    Ports,        \* client port handles of registered services
    MaxServices,  \* size of servicesInfo
    SemMax,       \* maximum count of the resume semaphore
    SrvMax,       \* sessions the kernel admits on srv:
    SrvPmMax,     \* sessions the kernel admits on srv:pm
    PortMax,      \* sessions the kernel admits on a service port
    IsPre7x,      \* srv:pm also serves the srv: commands before 7.x
    PortCloseSeen, \* TRUE: a service is only unregistered once no session waits on its port
    NoSession, NoPid, NoPort, NoCmd, Pm

ASSUME ConstantsAssumption ==
    /\ IsFiniteSet(Sessions)
    /\ NoSession \notin Sessions
    /\ NoPid \notin Procs /\ Pm \notin Procs
    /\ NoPort \notin Ports
    /\ MaxServices \in Nat /\ SemMax \in Nat /\ PortMax \in Nat \ {0}
    /\ SrvMax \in Nat /\ SrvPmMax \in Nat
    /\ IsPre7x \in BOOLEAN /\ PortCloseSeen \in BOOLEAN

VARIABLES
    parent,       \* the list each session is in (node->parent)
    waitingReg,   \* sessionDataWaitingForServiceOrPortRegisterList
    toWakeUp,     \* sessionDataToWakeUpAfterServiceOrPortRegisterList
    waitingPort,  \* sessionDataWaitingPortReadyList
    pid,          \* SessionData.pid
    isSrvPm,      \* SessionData.isSrvPm
    cmd,          \* SessionData.replayCmdbuf of a postponed session
    clobbered,    \* sessions whose replay command lost its name
    busy,         \* SessionData.busyClientPortHandle
    services,     \* servicesInfo[0..nbServices-1]
    processes,    \* pids in processDataInUseList
    sem,          \* count of resumeGetServiceHandleOrPortRegisteredSemaphore
    replyTarget,  \* the session to reply to at the next svcReplyAndReceive
    panicked,     \* why the server trapped, "no" while it runs
    owner,        \* kernel: the process that opened the session
    open,         \* kernel: the client end of the session is open
    alive,        \* kernel: running processes
    port          \* kernel: the client ports sm created for services

smVars  == <<parent, waitingReg, toWakeUp, waitingPort, pid, isSrvPm, cmd,
             clobbered, busy, services, processes, sem, replyTarget, panicked>>
envVars == <<owner, open, alive, port>>
vars    == <<smVars, envVars>>

-----------------------------------------------------------------------------
(* Types *)

Lists  == {"free", "inUse", "waitingReg", "toWakeUp", "waitingPort"}
Owners == Procs \cup {Pm}
Pids   == Procs \cup {NoPid, Pm}

\* The two commands that can be postponed, GetServiceHandle (5) and GetPort (8), as
\* far as the 16 bytes of replayCmdbuf keep them: the flags word is not among them.
Cmds == [op: {"GetServiceHandle", "GetPort"}, name: Names]

Services == [name: Names, isNamedPort: BOOLEAN, pid: Pids, clientPort: Ports \cup {NoPort}]

\* live: the server end is open; held: sm's client handle is open; used: its sessions.
PortStates == [live: BOOLEAN, held: BOOLEAN, used: 0..PortMax, holder: Owners]
ClosedPort == [live |-> FALSE, held |-> FALSE, used |-> 0, holder |-> Pm]

Panics == {"no", "invalidHandle", "noFreeSession", "resumeEmpty", "semaphoreFull"}

RangeOf(q) == {q[i] : i \in DOMAIN q}

-----------------------------------------------------------------------------
(* Lists *)

\* moveNode's removal of a node from the list it is in.
Without(q, s) ==
    IF s \in RangeOf(q)
    THEN LET i == CHOOSE k \in DOMAIN q : q[k] = s
         IN  [k \in 1..(Len(q) - 1) |-> q[IF k < i THEN k ELSE k + 1]]
    ELSE q

\* The increasing enumerations of a set of positions: exactly one for each set.
Enumerations(I) ==
    {f \in [1..Cardinality(I) -> I] :
        /\ \A i, j \in DOMAIN f : i < j => f[i] < f[j]
        /\ \A x \in I : \E i \in DOMAIN f : f[i] = x}

Init ==
    /\ parent = [s \in Sessions |-> "free"]
    /\ waitingReg = <<>> /\ toWakeUp = <<>> /\ waitingPort = <<>>
    /\ pid = [s \in Sessions |-> NoPid]
    /\ isSrvPm = [s \in Sessions |-> FALSE]
    /\ cmd = [s \in Sessions |-> NoCmd]
    /\ clobbered = {}
    /\ busy = [s \in Sessions |-> NoPort]
    /\ services = {} /\ processes = {}
    /\ sem = 0
    /\ replyTarget = NoSession
    /\ panicked = "no"
    /\ owner = [s \in Sessions |-> Pm]
    /\ open = [s \in Sessions |-> FALSE]
    /\ alive = {}
    /\ port = [p \in Ports |-> ClosedPort]

-----------------------------------------------------------------------------
(* svcReplyAndReceive *)

InUse == {s \in Sessions : parent[s] = "inUse"}

\* The kernel refuses the whole call when a handle of the list is closed.
StaleHandle == \E s \in RangeOf(waitingPort) : ~port[busy[s]].held

Running   == panicked = "no"
\* The server is blocked in svcReplyAndReceive with every handle valid and the reply sent.
Receiving == Running /\ replyTarget = NoSession /\ ~StaleHandle
\* Mutant: the semaphore is the last handle of the list.
Listening_SemaphoreLast == Receiving
\* The resume semaphore is handles[0]: signalled, it wins over every other handle,
\* for only the server itself releases it, before it calls svcReplyAndReceive.
Listening == Receiving /\ sem = 0

-----------------------------------------------------------------------------
(* The service table *)

Entry(n, named) == CHOOSE e \in services : e.name = n /\ e.isNamedPort = named
Registered(n, named) == \E e \in services : e.name = n /\ e.isNamedPort = named

\* The client's postponed request is for this name.
Awaits(s, n, named) ==
    /\ cmd[s].name = n
    /\ cmd[s].op = IF named THEN "GetPort" ELSE "GetServiceHandle"

\* The test of the wake-up loop, on the name as replayCmdbuf still has it.
AsksFor(s, n, named) == s \notin clobbered /\ Awaits(s, n, named)

\* A client port object nothing refers to any more.
FreshPorts ==
    {p \in Ports : /\ ~port[p].live /\ ~port[p].held /\ port[p].used = 0
                   /\ \A s \in Sessions : busy[s] # p}

-----------------------------------------------------------------------------
(* Commands: every one ends in a reply, or postpones the session. *)

\* The session is answered; tw and wp are the wake-up and port lists once the
\* session has been moved to the in-use list.
Answer(s, tw, wp) ==
    /\ parent' = [parent EXCEPT ![s] = "inUse"]
    /\ toWakeUp' = tw /\ waitingPort' = wp
    /\ cmd' = [cmd EXCEPT ![s] = NoCmd]
    /\ busy' = [busy EXCEPT ![s] = NoPort]
    /\ replyTarget' = s
    /\ UNCHANGED waitingReg

\* Mutant: the postponed request is replied to as well.
PostponeUntilRegistered_Replied(s, c, tw, wp) ==
    /\ parent' = [parent EXCEPT ![s] = "waitingReg"]
    /\ waitingReg' = Append(waitingReg, s)
    /\ toWakeUp' = tw /\ waitingPort' = wp
    /\ cmd' = [cmd EXCEPT ![s] = c]
    /\ busy' = [busy EXCEPT ![s] = NoPort]
    /\ replyTarget' = s

\* 0xD0406401: service or named port not registered yet.
PostponeUntilRegistered(s, c, tw, wp) ==
    /\ parent' = [parent EXCEPT ![s] = "waitingReg"]
    /\ waitingReg' = Append(waitingReg, s)
    /\ toWakeUp' = tw /\ waitingPort' = wp
    /\ cmd' = [cmd EXCEPT ![s] = c]
    /\ busy' = [busy EXCEPT ![s] = NoPort]
    /\ UNCHANGED replyTarget

\* 0xD0406402: service full.
PostponeUntilPortReady(s, c, p, tw, wp) ==
    /\ parent' = [parent EXCEPT ![s] = "waitingPort"]
    /\ toWakeUp' = tw /\ waitingPort' = Append(wp, s)
    /\ cmd' = [cmd EXCEPT ![s] = c]
    /\ busy' = [busy EXCEPT ![s] = p]
    /\ UNCHANGED <<waitingReg, replyTarget>>

\* nowait is flags & 1 here, flags == 0 in GetPort: the word of the command as it
\* was sent or, at a replay, what the last message left in the command buffer.
GetServiceHandle(s, c, nowait, tw, wp) ==
    LET p    == Entry(c.name, FALSE).clientPort
        full == port[p].used = PortMax
    IN  \/ /\ ~Registered(c.name, FALSE)
           /\ PostponeUntilRegistered(s, c, tw, wp)
           /\ UNCHANGED port
        \/ /\ Registered(c.name, FALSE)
           /\ port[p].live /\ full /\ ~nowait
           /\ PostponeUntilPortReady(s, c, p, tw, wp)
           /\ UNCHANGED port
        \/ /\ Registered(c.name, FALSE)
           /\ port[p].live /\ ~full
           /\ port' = [port EXCEPT ![p].used = @ + 1]
           /\ Answer(s, tw, wp)
        \/ /\ Registered(c.name, FALSE)
           /\ ~port[p].live \/ (full /\ nowait)
           /\ Answer(s, tw, wp)
           /\ UNCHANGED port

GetPort(s, c, nowait, tw, wp) ==
    /\ IF ~Registered(c.name, TRUE) /\ ~nowait
       THEN PostponeUntilRegistered(s, c, tw, wp)
       ELSE Answer(s, tw, wp)
    /\ UNCHANGED port

HandlePostponable(s, c, tw, wp) ==
    \E nowait \in BOOLEAN :
        \/ c.op = "GetServiceHandle" /\ GetServiceHandle(s, c, nowait, tw, wp)
        \/ c.op = "GetPort" /\ GetPort(s, c, nowait, tw, wp)

-----------------------------------------------------------------------------
(* Loop iterations that run a command of a session in the in-use list *)

\* The session's client may issue srv: commands now.
SrvRequest(s) ==
    /\ Listening /\ s \in InUse /\ open[s]
    /\ isSrvPm[s] => IsPre7x

SrvPmRequest(s) == Listening /\ s \in InUse /\ open[s] /\ isSrvPm[s]

\* A command that only answers, whatever it changed elsewhere.
Reply(s) ==
    /\ replyTarget' = s
    /\ UNCHANGED <<parent, waitingReg, toWakeUp, waitingPort, cmd, busy>>

\* Mutant: the descriptor word of the command is taken for the process id.
RegisterClient_WrongWord(s) ==
    /\ SrvRequest(s)
    /\ pid' = [pid EXCEPT ![s] = "IPC_Desc_CurProcessId"]
    /\ Reply(s)
    /\ UNCHANGED <<isSrvPm, clobbered, services, processes, sem, panicked, envVars>>

RegisterClient(s) ==
    /\ SrvRequest(s)
    /\ pid' = [pid EXCEPT ![s] = owner[s]]
    /\ Reply(s)
    /\ UNCHANGED <<isSrvPm, clobbered, services, processes, sem, panicked, envVars>>

RequestServiceOrPort(s) ==
    /\ SrvRequest(s)
    /\ \E c \in Cmds : HandlePostponable(s, c, toWakeUp, waitingPort)
    /\ UNCHANGED <<pid, isSrvPm, clobbered, services, processes, sem, panicked,
                   owner, open, alive>>

\* svcReleaseSemaphore of the resume semaphore, n > 0; exceeding its maximum traps.
ReleaseResume(n) ==
    IF sem + n <= SemMax
    THEN sem' = sem + n /\ UNCHANGED panicked
    ELSE panicked' = "semaphoreFull" /\ UNCHANGED sem

\* The order-preserving split of the waiting list: the sessions at the positions
\* in match move, one after the other, to the back of the wake-up list.
MoveToWakeUp(match) ==
    \E f \in Enumerations(match), g \in Enumerations(DOMAIN waitingReg \ match) :
        /\ toWakeUp'   = toWakeUp \o [i \in DOMAIN f |-> waitingReg[f[i]]]
        /\ waitingReg' = [i \in DOMAIN g |-> waitingReg[g[i]]]
        /\ parent' = [x \in Sessions |->
                        IF \E i \in match : waitingReg[i] = x THEN "toWakeUp" ELSE parent[x]]

Askers(n, named) == {i \in DOMAIN waitingReg : AsksFor(waitingReg[i], n, named)}

\* Mutant: the semaphore is released once, whatever the number of sessions.
WakeUpWaiters_ReleaseOnce(n, named) ==
    /\ MoveToWakeUp(Askers(n, named))
    /\ ReleaseResume(IF Askers(n, named) = {} THEN 0 ELSE 1)

\* Mutant: every session of the list is counted, not only those that moved.
WakeUpWaiters_CountAll(n, named) ==
    /\ MoveToWakeUp(Askers(n, named))
    /\ ReleaseResume(Len(waitingReg))

\* Mutant: if(n > 1) instead of if(n > 0).
WakeUpWaiters_SkipSingle(n, named) ==
    /\ MoveToWakeUp(Askers(n, named))
    /\ ReleaseResume(IF Cardinality(Askers(n, named)) > 1 THEN Cardinality(Askers(n, named)) ELSE 0)

\* Mutant: the loop stops at the first session that waits for the name.
WakeUpWaiters_FirstOnly(n, named) ==
    LET first == {i \in Askers(n, named) : \A j \in Askers(n, named) : i <= j}
    IN  MoveToWakeUp(first) /\ ReleaseResume(Cardinality(first))

\* The end of doRegisterServiceOrPort: every session that waits for the name
\* moves to the wake-up list, and the semaphore is released once for each.
WakeUpWaiters(n, named) ==
    /\ MoveToWakeUp(Askers(n, named))
    /\ ReleaseResume(Cardinality(Askers(n, named)))

\* The name is free and the table has room.
MayRegister(n, named) == ~Registered(n, named) /\ Cardinality(services) < MaxServices

RegisterService(s, n) ==
    /\ SrvRequest(s)
    /\ MayRegister(n, FALSE)
    /\ \E p \in FreshPorts :
         /\ services' = services \cup
              {[name |-> n, isNamedPort |-> FALSE, pid |-> pid[s], clientPort |-> p]}
         /\ port' = [port EXCEPT ![p] =
              [live |-> TRUE, held |-> TRUE, used |-> 0, holder |-> owner[s]]]
    /\ WakeUpWaiters(n, FALSE)
    /\ replyTarget' = s
    /\ UNCHANGED <<waitingPort, pid, isSrvPm, cmd, clobbered, busy, processes,
                   owner, open, alive>>

RegisterPort(s, n) ==
    /\ SrvRequest(s)
    /\ MayRegister(n, TRUE)
    /\ services' = services \cup
         {[name |-> n, isNamedPort |-> TRUE, pid |-> pid[s], clientPort |-> NoPort]}
    /\ WakeUpWaiters(n, TRUE)
    /\ replyTarget' = s
    /\ UNCHANGED <<waitingPort, pid, isSrvPm, cmd, clobbered, busy, processes, envVars>>

\* Commands refused with an error and commands that only read: a bad name, a name
\* already taken, a full table, svcCreatePort failing, a name that is not
\* registered or is another process's, IsServiceRegistered, an unknown command.
ErrorOrQuery(s) ==
    /\ Listening /\ s \in InUse /\ open[s]
    /\ Reply(s)
    /\ UNCHANGED <<pid, isSrvPm, clobbered, services, processes, sem, panicked, envVars>>

\* The client ports of the entries sm closes its handle of.
CloseHandlesOf(E) ==
    port' = [p \in Ports |->
        IF \E e \in E : e.clientPort = p THEN [port[p] EXCEPT !.held = FALSE] ELSE port[p]]

\* The environment assumption PortCloseSeen stands for.
NobodyWaitsOn(E) == \A e \in E, s \in RangeOf(waitingPort) : busy[s] # e.clientPort

UnregisterServiceOrPort(s, n, named) ==
    LET e == Entry(n, named)
    IN  /\ SrvRequest(s)
        /\ Registered(n, named)
        /\ e.pid = pid[s]
        /\ PortCloseSeen => NobodyWaitsOn({e})
        /\ services' = services \ {e}
        /\ CloseHandlesOf({e})
        /\ Reply(s)
        /\ UNCHANGED <<pid, isSrvPm, clobbered, processes, sem, panicked, owner, open, alive>>

-----------------------------------------------------------------------------
(* srv:pm commands.  pm registers a process before it runs and unregisters it
   after it ended. *)

RegisterProcess(s, p) ==
    /\ SrvPmRequest(s)
    /\ p \notin alive /\ p \notin processes
    /\ processes' = processes \cup {p}
    /\ alive' = alive \cup {p}
    /\ Reply(s)
    /\ UNCHANGED <<pid, isSrvPm, clobbered, services, sem, panicked, owner, open, port>>

\* The entries UnregisterProcess removes: all of the process.
OwnedBy(p) == {e \in services : e.pid = p}

UnregisterProcess(s, p) ==
    LET mine == OwnedBy(p)
    IN  /\ SrvPmRequest(s)
        /\ p \notin alive /\ p \in processes
        /\ PortCloseSeen => NobodyWaitsOn(mine)
        /\ services' = services \ mine
        /\ CloseHandlesOf(mine)
        /\ processes' = processes \ {p}
        /\ Reply(s)
        /\ UNCHANGED <<pid, isSrvPm, clobbered, sem, panicked, owner, open, alive>>

-----------------------------------------------------------------------------
(* The other iterations of the loop *)

\* The sessions the kernel counts on one of the two ports.
Admitted(isPm) == {s \in Sessions : parent[s] # "free" /\ isSrvPm[s] = isPm}
AdmittedMax(isPm) == IF isPm THEN SrvPmMax ELSE SrvMax

\* New srv: or srv:pm session: the kernel admits it, allocateNode takes a free one.
AcceptSession(p, isPm) ==
    /\ Listening
    /\ isPm \/ p \in alive
    /\ Cardinality(Admitted(isPm)) < AdmittedMax(isPm)
    /\ \/ \E s \in Sessions :
            /\ parent[s] = "free"
            /\ parent' = [parent EXCEPT ![s] = "inUse"]
            /\ pid' = [pid EXCEPT ![s] = NoPid]
            /\ isSrvPm' = [isSrvPm EXCEPT ![s] = isPm]
            /\ clobbered' = clobbered \ {s}
            /\ owner' = [owner EXCEPT ![s] = p]
            /\ open' = [open EXCEPT ![s] = TRUE]
            /\ UNCHANGED panicked
       \/ /\ \A s \in Sessions : parent[s] # "free"
          /\ panicked' = "noFreeSession"
          /\ UNCHANGED <<parent, pid, isSrvPm, clobbered, owner, open>>
    /\ UNCHANGED <<waitingReg, toWakeUp, waitingPort, cmd, busy, services, processes, sem,
                   replyTarget, alive, port>>

\* Mutant: replyTarget is not reset when the remote was unreachable.
Free_KeepsReplyTarget(s) ==
    /\ parent' = [parent EXCEPT ![s] = "free"]
    /\ pid' = [pid EXCEPT ![s] = NoPid]
    /\ isSrvPm' = [isSrvPm EXCEPT ![s] = FALSE]
    /\ owner' = [owner EXCEPT ![s] = Pm]
    /\ UNCHANGED <<waitingReg, toWakeUp, waitingPort, cmd, clobbered, busy, services,
                   processes, sem, replyTarget, panicked, open, alive, port>>

\* moveNode to the free list; what the next allocateNode clears is cleared here.
Free(s) ==
    /\ parent' = [parent EXCEPT ![s] = "free"]
    /\ pid' = [pid EXCEPT ![s] = NoPid]
    /\ isSrvPm' = [isSrvPm EXCEPT ![s] = FALSE]
    /\ owner' = [owner EXCEPT ![s] = Pm]
    /\ replyTarget' = NoSession
    /\ UNCHANGED <<waitingReg, toWakeUp, waitingPort, cmd, clobbered, busy, services,
                   processes, sem, panicked, open, alive, port>>

\* Unreachable remote, id of a session in use.
SessionClosed(s) == Listening /\ s \in InUse /\ ~open[s] /\ Free(s)

\* The reply half of svcReplyAndReceive: it reaches the client, or the client
\* is gone and the call returns without an index.
DeliverReply ==
    /\ Running /\ ~StaleHandle /\ replyTarget # NoSession
    /\ \/ /\ open[replyTarget]
          /\ replyTarget' = NoSession
          /\ UNCHANGED <<parent, pid, isSrvPm, owner>>
          /\ UNCHANGED <<waitingReg, toWakeUp, waitingPort, cmd, clobbered, busy, services,
                         processes, sem, panicked, open, alive, port>>
       \/ ~open[replyTarget] /\ Free(replyTarget)

\* id 0: replay the command of the first session to wake up.
Resume ==
    /\ Receiving /\ sem > 0
    /\ \/ /\ toWakeUp = <<>>
          /\ panicked' = "resumeEmpty"
          /\ UNCHANGED <<parent, waitingReg, toWakeUp, waitingPort, cmd, busy, sem, replyTarget, port>>
       \/ /\ toWakeUp # <<>>
          /\ sem' = sem - 1
          /\ HandlePostponable(Head(toWakeUp), cmd[Head(toWakeUp)], Tail(toWakeUp), waitingPort)
          /\ UNCHANGED panicked
    /\ UNCHANGED <<pid, isSrvPm, clobbered, services, processes, owner, open, alive>>

\* The places of the sessions that wait on a port, and whether i is the first one.
WaitersOn(p) == {i \in DOMAIN waitingPort : busy[waitingPort[i]] = p}
FirstWaiter(p, i) == i \in WaitersOn(p) /\ \A j \in WaitersOn(p) : i <= j

\* A full port has room again: replay the command of its first waiter.
ResumePortReady(p) ==
    /\ Listening
    /\ port[p].live /\ port[p].used < PortMax
    /\ \E i \in DOMAIN waitingPort :
         /\ FirstWaiter(p, i)
         /\ LET s == waitingPort[i]
            IN  HandlePostponable(s, cmd[s], toWakeUp, Without(waitingPort, s))
    /\ UNCHANGED <<pid, isSrvPm, clobbered, services, processes, sem, panicked, owner, open, alive>>

ForgetPort(who) == busy' = [x \in Sessions |-> IF x \in who THEN NoPort ELSE busy[x]]

\* Unreachable remote, id of a port: its waiters now wait for a registration.
\* Writing the new reason to replayCmdbuf[1] overwrites the start of the name.
PortClosed(p) ==
    LET mine == WaitersOn(p)
        rest == DOMAIN waitingPort \ mine
        who  == {waitingPort[i] : i \in mine}
    IN  /\ Listening
        /\ mine # {}
        /\ ~port[p].live
        /\ \E f \in Enumerations(mine), g \in Enumerations(rest) :
             /\ waitingReg'  = waitingReg \o [i \in DOMAIN f |-> waitingPort[f[i]]]
             /\ waitingPort' = [i \in DOMAIN g |-> waitingPort[g[i]]]
        /\ parent' = [x \in Sessions |-> IF x \in who THEN "waitingReg" ELSE parent[x]]
        /\ ForgetPort(who)
        /\ clobbered' = clobbered \cup who
        /\ UNCHANGED <<toWakeUp, pid, isSrvPm, cmd, services, processes, sem, replyTarget,
                       panicked, envVars>>

\* svcReplyAndReceive fails on a handle that is not open any more: panic(res).
Trap ==
    /\ Running /\ StaleHandle
    /\ panicked' = "invalidHandle"
    /\ UNCHANGED <<parent, waitingReg, toWakeUp, waitingPort, pid, isSrvPm, cmd, clobbered,
                   busy, services, processes, sem, replyTarget, envVars>>

-----------------------------------------------------------------------------
(* The environment: clients and servers *)

\* A client closes its session, or its thread is terminated in the request.
\* pm never closes its own.
ClientCloses(s) ==
    /\ open[s] /\ owner[s] # Pm
    /\ open' = [open EXCEPT ![s] = FALSE]
    /\ UNCHANGED <<smVars, owner, alive, port>>

\* The kernel closes the handles of a process that ends.
ProcessEnds(p) ==
    /\ p \in alive
    /\ alive' = alive \ {p}
    /\ open' = [s \in Sessions |-> open[s] /\ owner[s] # p]
    /\ port' = [q \in Ports |-> IF port[q].holder = p THEN [port[q] EXCEPT !.live = FALSE] ELSE port[q]]
    /\ UNCHANGED <<smVars, owner>>

ServerClosesPort(p) ==
    /\ port[p].live
    /\ port' = [port EXCEPT ![p].live = FALSE]
    /\ UNCHANGED <<smVars, owner, open, alive>>

ServiceSessionEnds(p) ==
    /\ port[p].used > 0
    /\ port' = [port EXCEPT ![p].used = @ - 1]
    /\ UNCHANGED <<smVars, owner, open, alive>>

-----------------------------------------------------------------------------
Server ==
    \/ \E s \in Sessions : \/ RegisterClient(s)
                           \/ RequestServiceOrPort(s)
                           \/ ErrorOrQuery(s)
                           \/ SessionClosed(s)
    \/ \E s \in Sessions, n \in Names : \/ RegisterService(s, n)
                                        \/ RegisterPort(s, n)
    \/ \E s \in Sessions, n \in Names, named \in BOOLEAN : UnregisterServiceOrPort(s, n, named)
    \/ \E s \in Sessions, p \in Procs : \/ RegisterProcess(s, p)
                                        \/ UnregisterProcess(s, p)
    \/ \E p \in Procs : AcceptSession(p, FALSE)
    \/ AcceptSession(Pm, TRUE)
    \/ DeliverReply
    \/ Resume
    \/ \E p \in Ports : ResumePortReady(p) \/ PortClosed(p)
    \/ Trap

Environment ==
    \/ \E s \in Sessions : ClientCloses(s)
    \/ \E p \in Procs : ProcessEnds(p)
    \/ \E p \in Ports : ServerClosesPort(p) \/ ServiceSessionEnds(p)

Next == Server \/ Environment

Spec == Init /\ [][Next]_vars

-----------------------------------------------------------------------------
(* Fairness: the server's thread is never stopped, so a reply that can be sent
   is sent and a session that can be resumed is resumed.  Nothing else is fair:
   the kernel serves the lowest signalled handle, and clients are free. *)

ServerStep == DeliverReply \/ Resume \/ Trap

FairSpec == Spec /\ WF_vars(ServerStep)

-----------------------------------------------------------------------------
(* Properties *)

TypeOK ==
    /\ parent \in [Sessions -> Lists]
    /\ waitingReg \in Seq(Sessions) /\ toWakeUp \in Seq(Sessions) /\ waitingPort \in Seq(Sessions)
    /\ pid \in [Sessions -> Pids]
    /\ isSrvPm \in [Sessions -> BOOLEAN]
    /\ cmd \in [Sessions -> Cmds \cup {NoCmd}]
    /\ clobbered \subseteq Sessions
    /\ busy \in [Sessions -> Ports \cup {NoPort}]
    /\ services \subseteq Services
    /\ processes \subseteq Procs
    /\ sem \in 0..SemMax
    /\ replyTarget \in Sessions \cup {NoSession}
    /\ panicked \in Panics
    /\ owner \in [Sessions -> Owners]
    /\ open \in [Sessions -> BOOLEAN]
    /\ alive \subseteq Procs
    /\ port \in [Ports -> PortStates]

Injective(q) == \A i, j \in DOMAIN q : q[i] = q[j] => i = j

\* A session is in the list its parent field names, once, and in no other
\* (moveNode; the wake-up and port-closed loops move nodes while they walk a list).
ListsConsistent ==
    /\ \A s \in Sessions : /\ s \in RangeOf(waitingReg) <=> parent[s] = "waitingReg"
                           /\ s \in RangeOf(toWakeUp) <=> parent[s] = "toWakeUp"
                           /\ s \in RangeOf(waitingPort) <=> parent[s] = "waitingPort"
    /\ Injective(waitingReg) /\ Injective(toWakeUp) /\ Injective(waitingPort)

\* The resume semaphore counts the sessions to wake up, so that the loop never
\* finds the wake-up list empty (panic(0)) and never leaves a session in it.
ResumeAccounted == panicked # "semaphoreFull" => sem = Len(toWakeUp)

\* The wake-up loop misses nobody: who waits for a name that is registered waits
\* for a service, and its port closed while the client waited for room on it, when
\* the loop at main.c:147 wrote the new reason over the name.  That wake-up is lost.
OnlyPortCloseLosesWakeup ==
    \A s \in RangeOf(waitingReg), n \in Names, named \in BOOLEAN :
        Awaits(s, n, named) /\ Registered(n, named) => s \in clobbered /\ ~named

\* A session that is being woken up finds its name still registered when its
\* command is replayed, whatever requests arrived since: no second wait.
WokenFindsName ==
    \A s \in RangeOf(toWakeUp) : Registered(cmd[s].name, cmd[s].op = "GetPort")

\* The server replies only to a session in use: a postponed request is not
\* answered before it is replayed.
ReplyToSessionInUse == replyTarget # NoSession => parent[replyTarget] = "inUse"

\* Every postponed session has the command to replay.
CommandsKept == \A s \in Sessions : parent[s] \notin {"free", "inUse"} => cmd[s] \in Cmds

\* The semaphore can count every session that may be postponed but one: the one
\* whose registration wakes the others is in use itself.
SemaphoreSuffices == SrvMax + (IF IsPre7x THEN SrvPmMax ELSE 0) <= SemMax + 1

\* The server traps in two cases only, as long as the semaphore is large enough: it
\* waits on a closed port handle, or the kernel admits more sessions than the pool has.
OnlyStaleHandlePanics ==
    SemaphoreSuffices =>
        \/ panicked \in {"no", "invalidHandle"}
        \/ /\ panicked = "noFreeSession"
           /\ \A s \in Sessions : parent[s] # "free"
           /\ Cardinality(Sessions) < SrvMax + SrvPmMax

\* A session waits for room on the port of a service, and one whose name was
\* overwritten has done so and is never woken again.
PortWaitersAskServices ==
    \A s \in Sessions :
        /\ parent[s] = "waitingPort" => cmd[s].op = "GetServiceHandle"
        /\ s \in clobbered => parent[s] = "waitingReg" /\ cmd[s].op = "GetServiceHandle"

\* Who asks for a name the wake-up loop can find does so because it is not there.
AskersNeedTheName ==
    \A s \in RangeOf(waitingReg), n \in Names, named \in BOOLEAN :
        AsksFor(s, n, named) => ~Registered(n, named)

\* The inductive invariant of the wake-up.  WokenFindsName is kept by an
\* unregistration only because the semaphore is served first: an empty wake-up
\* list when any other request is received, which is what ResumeAccounted says.
WakeUpInv ==
    /\ TypeOK
    /\ ListsConsistent
    /\ CommandsKept
    /\ ResumeAccounted
    /\ AskersNeedTheName
    /\ WokenFindsName
    /\ ReplyToSessionInUse

\* The inductive invariant of the traps: the kernel's limits bound the sessions
\* of each port, and a session of srv:pm is only postponed where srv:pm serves srv:.
TrapInv ==
    /\ \A isPm \in BOOLEAN : Cardinality(Admitted(isPm)) <= AdmittedMax(isPm)
    /\ \A s \in Sessions : parent[s] \notin {"free", "inUse"} /\ isSrvPm[s] => IsPre7x
    /\ OnlyStaleHandlePanics

\* A woken session is replayed, however busy the server is.
WokenIsReplayed == \A s \in Sessions : parent[s] = "toWakeUp" ~> parent[s] # "toWakeUp"

\* Every command that ran is answered, or its session freed.
ReplyIsSent == \A s \in Sessions : replyTarget = s ~> replyTarget # s

=============================================================================
