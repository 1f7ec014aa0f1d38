------------------------------ MODULE DiscordRpc ------------------------------
(***************************************************************************)
(* The life of the Discord RPC thread of Rosalina (discord_rpc_main.c),    *)
(* with everything that starts and stops it: the menu, the task runner     *)
(* that the shell notifications use, the pre-termination notification of   *)
(* pm, and the thread of ndm_yield.c that restarts it after a game.        *)
(*                                                                         *)
(* The globals of DiscordRPC_Start and DiscordRPC_Stop are read and        *)
(* written without a lock around the test and the set: each is a step of   *)
(* its own, and any other thread may run in between.  A wait with a        *)
(* timeout may end at any time.  g_rpcThreadStack is one stack: what two   *)
(* threads on it would do is undefined, and a behaviour ends there, with   *)
(* overlap = TRUE.  g_stopSleep, a field of the logout request, is left    *)
(* out, and so is g_rpcThread.handle: a join returns whatever it is.       *)
(*                                                                         *)
(* Sources is the set of the events that are considered.                   *)
(***************************************************************************)
EXTENDS Naturals

CONSTANTS Sources,       \* subset of {"menu", "shell", "yield", "term"}
          AutoStart      \* the preference PREFS_AUTO_START

ASSUME SwitchesAssumption ==
    Sources \subseteq {"menu", "shell", "yield", "term"} /\ AutoStart \in BOOLEAN

Callers == {"menu", "runner", "service", "wake"}

VARIABLES
    state,          \* g_discord_state
    shouldStop,     \* g_shouldStop, and g_rpc_should_stop_event with it
    stopping,       \* g_rpcStopping
    activeSession,  \* active_session
    pc,             \* where the RPC thread is, "none" when there is none
    inited,         \* it is past network_init
    reconnecting,   \* its local
    attempt,        \* the local of login_session
    overlap,        \* a second thread was created meanwhile
    yielding,       \* s_yieldActive
    released,       \* s_yieldGeneration # s_rpcYieldGen
    wasActive,      \* s_wasActive
    wakeEvent,      \* s_wakeEvent
    online,         \* what netWatchIsOnline sees
    caller,         \* where each caller of Start and Stop is
    pending,        \* the task the service thread is posting
    task,           \* g_taskRunner.task, posted and not yet taken
    wasDiscordActive, \* s_wasDiscordActive
    lid,            \* the last shell notification
    published       \* 0x2001 was published

sharedVars  == <<state, shouldStop, stopping>>
threadVars  == <<pc, inited, reconnecting, attempt>>
sessionVars == <<yielding, wasActive, wakeEvent>>
taskVars    == <<pending, task, wasDiscordActive, lid>>
vars == <<sharedVars, activeSession, threadVars, overlap, sessionVars, released,
          online, caller, taskVars, published>>

\* what no step of the RPC thread changes
environment == <<shouldStop, stopping, overlap, sessionVars, caller, taskVars,
                 published>>

States == {"stopped", "login", "verify", "active", "error"}
Labels == {"none", "begin", "check", "online", "kick", "netwait", "init", "login",
           "verify", "active", "poll", "lost", "cleanup", "logout", "stopping",
           "exiting"}
Places == {"idle", "delay", "start", "reset", "claim", "create", "started",
           "stop", "guard", "request", "join", "polling", "post", "publish",
           "done"}
MaxAttempts == 3

Alive == pc # "none"

TypeOK ==
    /\ state \in States
    /\ {shouldStop, stopping, activeSession, inited, reconnecting, overlap,
        yielding, released, wasActive, wakeEvent, online, wasDiscordActive,
        published} \subseteq BOOLEAN
    /\ pc \in Labels
    /\ attempt \in 1..MaxAttempts
    /\ caller \in [Callers -> Places]
    /\ {pending, task} \subseteq {"none", "start", "stop"}
    /\ lid \in {"boot", "open", "closed"}

Init ==
    /\ state = "stopped"
    /\ shouldStop = FALSE /\ stopping = FALSE
    /\ activeSession = FALSE
    /\ pc = "none" /\ inited = FALSE /\ reconnecting = FALSE /\ attempt = 1
    /\ overlap = FALSE
    /\ yielding = FALSE /\ released = FALSE
    /\ wasActive = FALSE /\ wakeEvent = FALSE
    /\ online \in BOOLEAN
    /\ caller = [c \in Callers |-> "idle"]
    /\ pending = "none" /\ task = "none"
    /\ wasDiscordActive = FALSE
    /\ lid = "boot"
    /\ published = FALSE

-----------------------------------------------------------------------------
(* The RPC thread: DiscordRPC_ThreadMain and what it calls.                *)

\* the thread is there and may run
At(label) == pc = label /\ ~overlap
Goto(label) == pc' = label /\ UNCHANGED <<inited, reconnecting, attempt>>

\* yieldWantsExit: true while the radio is lent, and once after each release
WantsExit == yielding \/ released

\* wait_network_ready returned false
Aborted ==
    /\ Goto(IF inited THEN "cleanup" ELSE "exiting")
    /\ state' = IF inited THEN state ELSE "stopped"
    /\ activeSession' = (activeSession /\ ~inited)

\* wait_network_ready returned true
Ready ==
    /\ Goto(IF inited THEN "login" ELSE "init")
    /\ state' = IF inited THEN "login" ELSE state
    /\ UNCHANGED activeSession

Begin ==
    /\ At("begin")
    /\ activeSession' = FALSE
    /\ released' = FALSE
    /\ Goto("check")
    /\ UNCHANGED <<state, online, environment>>

\* wait_network_ready, its first test
CheckReady ==
    /\ At("check")
    /\ IF shouldStop \/ WantsExit
       THEN Aborted
       ELSE Goto("online") /\ UNCHANGED <<state, activeSession>>
    /\ released' = (released /\ shouldStop)
    /\ UNCHANGED <<online, environment>>

\* netWatchIsOnline, and the second look at the yield generation
CheckOnline ==
    /\ At("online")
    /\ \/ online /\ Ready /\ UNCHANGED released
       \/ /\ ~online
          /\ released' = FALSE
          /\ IF WantsExit
             THEN state' = "login" /\ Goto("netwait")
             ELSE UNCHANGED state /\ Goto("kick")
          /\ UNCHANGED activeSession
    /\ UNCHANGED <<online, environment>>

\* netWatchKick: the connection is made, or it fails, times out or is cancelled
Kick ==
    /\ At("kick")
    /\ \/ online' = TRUE /\ Ready
       \/ /\ state' = "login"
          /\ Goto("netwait")
          /\ UNCHANGED <<online, activeSession>>
    /\ UNCHANGED <<released, environment>>

\* one turn of the loop of wait_network_ready: the stop event, an AC
\* notification or the 60 s fallback ends the wait
NetWait ==
    /\ At("netwait")
    /\ \/ shouldStop /\ Aborted /\ UNCHANGED released
       \/ /\ ~shouldStop
          /\ released' = FALSE
          /\ IF WantsExit THEN Aborted
             ELSE IF online THEN Ready
             ELSE UNCHANGED <<threadVars, state, activeSession>>
    /\ UNCHANGED <<online, environment>>

\* network_init, and the failure path of DiscordRPC_ThreadMain
NetworkInit ==
    /\ At("init")
    /\ \/ state' = "error" /\ Goto("exiting")
       \/ /\ pc' = "check" /\ inited' = TRUE
          /\ UNCHANGED <<state, reconnecting, attempt>>
    /\ UNCHANGED <<activeSession, released, online, environment>>

\* mutant: one more attempt than max_attempts
AttemptFailed_OneMore ==
    IF attempt <= (IF reconnecting THEN MaxAttempts ELSE 1)
    THEN /\ state' = "login"
         /\ pc' = "login" /\ attempt' = attempt + 1 /\ UNCHANGED reconnecting
    ELSE /\ state' = "error"
         /\ pc' = "check" /\ attempt' = 1 /\ reconnecting' = TRUE

\* an attempt of login_session failed: sleep 3 s and retry, or give up
AttemptFailed ==
    IF attempt < (IF reconnecting THEN MaxAttempts ELSE 1)
    THEN /\ state' = "login"
         /\ pc' = "login" /\ attempt' = attempt + 1 /\ UNCHANGED reconnecting
    ELSE /\ state' = "error"
         /\ pc' = "check" /\ attempt' = 1 /\ reconnecting' = TRUE

\* the loop of login_session, up to the answer to discord_login
Login ==
    /\ At("login")
    /\ \/ /\ state' = IF shouldStop THEN state ELSE "error"    \* STOPPED, REFUSED
          /\ pc' = "cleanup" /\ attempt' = 1 /\ UNCHANGED reconnecting
       \/ /\ ~shouldStop
          /\ state' = "verify" /\ Goto("verify")
       \/ ~shouldStop /\ AttemptFailed
    /\ UNCHANGED <<inited, activeSession, released, online, environment>>

Verify ==
    /\ At("verify")
    /\ \/ /\ activeSession' = TRUE
          /\ state' = "active"
          /\ pc' = "active" /\ attempt' = 1 /\ reconnecting' = FALSE
       \/ AttemptFailed /\ UNCHANGED activeSession
    /\ UNCHANGED <<inited, released, online, environment>>

\* mutant: the activity loop does not test g_shouldStop
Activity_NoStop ==
    /\ At("active")
    /\ \/ Goto("poll") /\ UNCHANGED <<state, activeSession>>
       \/ /\ state' = "error"
          /\ Goto("lost")
          /\ activeSession' \in {FALSE, activeSession}
    /\ UNCHANGED <<released, online, environment>>

\* the top of run_activity_loop: the request succeeds, or finds the session
\* expired (1), or fails (2 and -1)
Activity ==
    /\ At("active")
    /\ IF shouldStop
       THEN Goto("cleanup") /\ UNCHANGED <<state, activeSession>>
       ELSE \/ Goto("poll") /\ UNCHANGED <<state, activeSession>>
            \/ /\ state' = "error"
               /\ Goto("lost")
               /\ activeSession' \in {FALSE, activeSession}
    /\ UNCHANGED <<released, online, environment>>

\* mutant: the yield flag is not tested while polling
Poll_NoYield ==
    /\ At("poll")
    /\ Goto("active")
    /\ UNCHANGED <<state, activeSession, released, online, environment>>

\* the ten seconds between two requests
Poll ==
    /\ At("poll")
    /\ Goto(IF WantsExit THEN "cleanup" ELSE "active")  \* ACTIVITY_YIELD_EXIT
    /\ activeSession' = (activeSession /\ ~WantsExit)
    /\ released' = FALSE
    /\ UNCHANGED <<state, online, environment>>

\* ACTIVITY_NETWORK_LOST
Lost ==
    /\ At("lost")
    /\ pc' = IF WantsExit THEN "cleanup" ELSE "check"
    /\ reconnecting' = (reconnecting \/ ~WantsExit)
    /\ activeSession' = (activeSession /\ ~WantsExit)
    /\ released' = FALSE
    /\ UNCHANGED <<state, inited, attempt, online, environment>>

\* the stop path: the logout is sent only with a session and the radio
Cleanup ==
    /\ At("cleanup")
    /\ Goto(IF activeSession /\ ~yielding THEN "logout" ELSE "stopping")
    /\ UNCHANGED <<state, activeSession, released, online, environment>>

Logout ==
    /\ At("logout")
    /\ Goto("stopping")
    /\ UNCHANGED <<state, activeSession, released, online, environment>>

SetStopped ==
    /\ At("stopping")
    /\ state' = "stopped"
    /\ Goto("exiting")
    /\ UNCHANGED <<activeSession, released, online, environment>>

\* ndmYieldSafeSocExit if network_init was called, then MyThread_Exit
ThreadExit ==
    /\ At("exiting")
    /\ pc' = "none" /\ inited' = FALSE /\ reconnecting' = FALSE
    /\ UNCHANGED <<state, attempt, activeSession, released, online, environment>>

ThreadStep ==
    \/ Begin \/ CheckReady \/ CheckOnline \/ Kick \/ NetWait \/ NetworkInit
    \/ Login \/ Verify \/ Activity \/ Poll \/ Lost \/ Cleanup \/ Logout
    \/ SetStopped \/ ThreadExit

-----------------------------------------------------------------------------
(* DiscordRPC_Start and DiscordRPC_Stop, in the thread of caller c.        *)

Is(c, place) == caller[c] = place /\ ~overlap
Move(c, place) == caller' = [caller EXCEPT ![c] = place]

\* where a caller is once Start or Stop has returned
Back(c) == IF c = "service" THEN "publish" ELSE "idle"

\* what no step of a caller changes
presence == <<activeSession, threadVars, overlap, sessionVars, released, online,
              taskVars, published>>

\* Start, its test
StartTest(c) ==
    /\ Is(c, "start")
    /\ Move(c, IF state = "stopped" THEN "reset" ELSE Back(c))
    /\ UNCHANGED <<sharedVars, presence>>

\* Start forgets the last stop request
StartReset(c) ==
    /\ Is(c, "reset")
    /\ shouldStop' = FALSE /\ stopping' = FALSE
    /\ Move(c, "claim")
    /\ UNCHANGED <<state, presence>>

\* Start, set_state(DISCORD_LOGIN)
StartClaim(c) ==
    /\ Is(c, "claim")
    /\ state' = "login"
    /\ Move(c, "create")
    /\ UNCHANGED <<shouldStop, stopping, presence>>

\* Start creates its event and the thread, or fails to
StartCreate(c) ==
    /\ Is(c, "create")
    /\ \/ /\ pc' = IF Alive THEN pc ELSE "begin"
          /\ overlap' = Alive
          /\ Move(c, "started")
          /\ UNCHANGED state
       \/ /\ state' = "stopped"
          /\ Move(c, Back(c))
          /\ UNCHANGED <<pc, overlap>>
    /\ UNCHANGED <<shouldStop, stopping, activeSession, inited, reconnecting,
                   attempt, sessionVars, released, online, taskVars, published>>

\* the thread has signalled g_rpcStartedEvent, or 10 s have passed
Started(c) ==
    /\ Is(c, "started")
    /\ Move(c, Back(c))
    /\ UNCHANGED <<sharedVars, presence>>

\* Stop, its test of g_rpcStopping
StopTest(c) ==
    /\ Is(c, "stop")
    /\ Move(c, IF stopping THEN Back(c) ELSE "guard")
    /\ UNCHANGED <<sharedVars, presence>>

\* Stop sets g_rpcStopping, and writes its log
StopGuard(c) ==
    /\ Is(c, "guard")
    /\ stopping' = TRUE
    /\ Move(c, "request")
    /\ UNCHANGED <<state, shouldStop, presence>>

\* Stop asks the thread to end, and waits for it
StopRequest(c) ==
    /\ Is(c, "request")
    /\ shouldStop' = TRUE
    /\ Move(c, "join")
    /\ UNCHANGED <<state, stopping, presence>>

\* mutant: a join without a timeout
Joined_NoTimeout(c) ==
    /\ Is(c, "join") /\ ~Alive
    /\ state' = "stopped"
    /\ Move(c, Back(c))
    /\ UNCHANGED <<shouldStop, stopping, presence>>

\* the end of Stop: the thread has exited, its handle is not valid any more, or
\* 10 s have passed
Joined(c) ==
    /\ Is(c, "join")
    /\ state' = "stopped"
    /\ Move(c, Back(c))
    /\ UNCHANGED <<shouldStop, stopping, presence>>

CallerStep(c) ==
    \/ StartTest(c) \/ StartReset(c) \/ StartClaim(c) \/ StartCreate(c)
    \/ Started(c) \/ StopTest(c) \/ StopGuard(c) \/ StopRequest(c) \/ Joined(c)

-----------------------------------------------------------------------------
(* The callers.                                                            *)

\* what no step outside the thread, Start and Stop changes
rpc == <<sharedVars, activeSession, threadVars, overlap>>

\* the two entries of the Discord menu, shown according to the state; the
\* menu thread is gone once the termination was requested
MenuStart ==
    /\ "menu" \in Sources /\ Is("menu", "idle") /\ ~published /\ lid # "closed"
    /\ state = "stopped"
    /\ Move("menu", "start")
    /\ UNCHANGED <<rpc, sessionVars, released, online, taskVars, published>>

MenuStop ==
    /\ "menu" \in Sources /\ Is("menu", "idle") /\ ~published /\ lid # "closed"
    /\ state # "stopped"
    /\ Move("menu", "stop")
    /\ UNCHANGED <<rpc, sessionVars, released, online, taskVars, published>>

\* handleShellNotification, 0x213: the lid was opened, or the system started
ShellOpened ==
    /\ "shell" \in Sources /\ Is("service", "idle") /\ lid # "open"
    /\ IF wasDiscordActive \/ (lid = "boot" /\ AutoStart /\ state = "stopped")
       THEN /\ wasDiscordActive' = FALSE
            /\ pending' = "start"
            /\ Move("service", "post")
       ELSE UNCHANGED <<wasDiscordActive, pending, caller>>
    /\ lid' = "open"
    /\ UNCHANGED <<rpc, sessionVars, released, online, task, published>>

\* handleShellNotification, 0x214
ShellClosed ==
    /\ "shell" \in Sources /\ Is("service", "idle") /\ lid = "open"
    /\ IF state # "stopped"
       THEN /\ wasDiscordActive' = TRUE
            /\ pending' = "stop"
            /\ Move("service", "post")
       ELSE UNCHANGED <<wasDiscordActive, pending, caller>>
    /\ lid' = "closed"
    /\ UNCHANGED <<rpc, sessionVars, released, online, task, published>>

\* TaskRunner_RunTask: waits for the runner to be ready
PostTask ==
    /\ Is("service", "post")
    /\ task = "none" /\ Is("runner", "idle")
    /\ task' = pending
    /\ pending' = "none"
    /\ Move("service", "idle")
    /\ UNCHANGED <<rpc, sessionVars, released, online, wasDiscordActive, lid,
                   published>>

\* TaskRunner_HandleTasks takes the task; the start task first sleeps for a
\* second, and longer while ndm:u and ac:u are not there
TakeTask ==
    /\ Is("runner", "idle") /\ task # "none"
    /\ Move("runner", IF task = "start" THEN "delay" ELSE "stop")
    /\ task' = "none"
    /\ UNCHANGED <<rpc, sessionVars, released, online, pending, wasDiscordActive,
                   lid, published>>

Delayed ==
    /\ Is("runner", "delay")
    /\ Move("runner", "start")
    /\ UNCHANGED <<rpc, sessionVars, released, online, taskVars, published>>

\* handlePreTermNotification, its test
PreTerm ==
    /\ "term" \in Sources /\ Is("service", "idle") /\ ~published
    /\ Move("service", IF state # "stopped" THEN "stop" ELSE "publish")
    /\ UNCHANGED <<rpc, sessionVars, released, online, taskVars, published>>

\* handlePreTermNotification, from the notification 0x2001 on
Publish ==
    /\ Is("service", "publish")
    /\ published' = TRUE
    /\ Move("service", "done")
    /\ UNCHANGED <<rpc, sessionVars, released, online, taskVars>>

\* ndmYieldProcess: a game asked for the radio and nobody else owns it
Release ==
    /\ "yield" \in Sources /\ Is("menu", "idle") /\ ~published /\ ~yielding
    /\ wasActive' = (state # "stopped")
    /\ yielding' = TRUE
    /\ released' = TRUE
    /\ UNCHANGED <<rpc, wakeEvent, online, caller, taskVars, published>>

\* ndmYieldProcess: ndm is free again; doRestore(true)
Restore ==
    /\ Is("menu", "idle") /\ ~published /\ yielding
    /\ yielding' = FALSE
    /\ wakeEvent' = (wakeEvent \/ wasActive)
    /\ wasActive' = FALSE
    /\ UNCHANGED <<rpc, released, online, caller, taskVars, published>>

\* ndmYieldThreadMain: the wake-up, and the polling that follows it
Wake ==
    /\ Is("wake", "idle") /\ wakeEvent
    /\ wakeEvent' = FALSE
    /\ Move("wake", "polling")
    /\ UNCHANGED <<rpc, yielding, wasActive, released, online, taskVars, published>>

PollStopped ==
    /\ Is("wake", "polling") /\ state = "stopped"
    /\ Move("wake", "start")
    /\ UNCHANGED <<rpc, sessionVars, released, online, taskVars, published>>

\* the access point comes and goes
WifiChanges ==
    /\ ~overlap
    /\ online' = ~online
    /\ UNCHANGED <<rpc, sessionVars, released, caller, taskVars, published>>

ServiceStep == PostTask \/ Publish
RunnerStep == TakeTask \/ Delayed
WakeStep == Wake \/ PollStopped
Events == MenuStart \/ MenuStop \/ ShellOpened \/ ShellClosed \/ PreTerm
          \/ Release \/ Restore \/ WifiChanges

Next == \/ ThreadStep
        \/ \E c \in Callers : CallerStep(c)
        \/ ServiceStep \/ RunnerStep \/ WakeStep
        \/ Events

Spec == Init /\ [][Next]_vars

\* Every thread that can run does.  What a user, a game, pm or the access point
\* does is not owed, and the polling of the yield thread may well miss a short
\* DISCORD_STOPPED.
Fairness == /\ WF_vars(ThreadStep)
            /\ WF_vars(CallerStep("service") \/ ServiceStep)
            /\ WF_vars(CallerStep("menu"))
            /\ WF_vars(CallerStep("runner") \/ RunnerStep)
            /\ WF_vars(CallerStep("wake") \/ WakeStep)

FairSpec == Spec /\ Fairness

-----------------------------------------------------------------------------
(* What must hold, as long as the thread is alone on its stack.            *)

\* A stop request ends the thread, wherever it is: waiting for WiFi, in a
\* login that is being retried or between two heartbeats.
StopEndsThread == (shouldStop /\ Alive) ~> (~shouldStop \/ ~Alive \/ overlap)

\* While the radio is lent to a game the thread ends, whatever the network does
\* meanwhile.
YieldEndsThread == (yielding /\ Alive) ~> (~yielding \/ ~Alive \/ overlap)

\* pm waits for the notification 0x2001 before it kills the network services:
\* a pre-termination that has to stop the presence reaches that publication,
\* though others stop it and start it again meanwhile.
PreTermPublishes == caller["service"] = "stop" ~> (published \/ overlap)

\* The shell notifications and the pre-termination share one thread, which may
\* have to wait for the task runner, itself in a Start or a Stop: it always
\* gets back to its loop.
ServiceReturns ==
    caller["service"] # "idle" ~> (caller["service"] \in {"idle", "done"} \/ overlap)

\* ndm_yield.c: "Wait end of clean before restarting".  When the yield thread
\* restarts the presence, no thread is left between its DISCORD_STOPPED and the
\* sockets it has yet to leave.
RestartAfterCleanup ==
    [][caller["wake"] = "create" /\ caller'["wake"] = "started"
         => ~(pc = "exiting" /\ inited)]_vars
=============================================================================
