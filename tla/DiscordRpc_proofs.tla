--------------------------- MODULE DiscordRpc_proofs ---------------------------
(***************************************************************************)
(* Proofs about DiscordRpc, for every set of events and whatever the       *)
(* threads that start and stop the presence do between two steps of each   *)
(* other.                                                                  *)
(***************************************************************************)
EXTENDS DiscordRpc, TLAPS

\* The variables that only the RPC thread and the creation of one change.
ThreadTypes ==
    /\ pc \in Labels
    /\ attempt \in 1..MaxAttempts
    /\ {activeSession, inited, reconnecting, overlap} \subseteq BOOLEAN

\* Where the requests to the server are made, and their cleanup.
UsesSockets == pc \in {"login", "verify", "active", "poll", "lost", "cleanup",
                       "logout", "stopping"}

\* Past network_init a thread goes on until it has left the sockets; before,
\* only the waits of its first wait_network_ready and network_init itself.
SocketsInv ==
    /\ UsesSockets => inited
    /\ pc \in {"none", "begin", "init"} => ~inited
    /\ pc \in {"none", "begin", "init"} => ~reconnecting
    /\ reconnecting => inited

Inv == TypeOK /\ SocketsInv

USE DEF sharedVars, threadVars, sessionVars, taskVars, environment, presence, rpc

-----------------------------------------------------------------------------

\* A failed attempt either leaves one more or gives up.
LEMMA AttemptTypes ==
    ASSUME TypeOK, AttemptFailed
    PROVE  /\ pc' \in {"login", "check"} /\ state' \in {"login", "error"}
           /\ attempt' \in 1..MaxAttempts /\ reconnecting' \in BOOLEAN
           /\ pc' = "login" => reconnecting' = reconnecting
<1>1. attempt \in 1..3 /\ reconnecting \in BOOLEAN
    BY DEF TypeOK, MaxAttempts
<1>2. CASE attempt < (IF reconnecting THEN MaxAttempts ELSE 1)
  <2>1. attempt' = attempt + 1 /\ attempt < 3
      BY <1>1, <1>2 DEF AttemptFailed, MaxAttempts
  <2>2. attempt' \in 1..3
      BY <1>1, <2>1
  <2>3. pc' = "login" /\ state' = "login" /\ reconnecting' = reconnecting
      BY <1>2 DEF AttemptFailed
  <2>4. QED
      BY <1>1, <2>2, <2>3 DEF MaxAttempts
<1>3. CASE ~(attempt < (IF reconnecting THEN MaxAttempts ELSE 1))
    BY <1>3 DEF AttemptFailed, MaxAttempts
<1>4. QED
    BY <1>2, <1>3

\* A step of the RPC thread keeps the types.
LEMMA ThreadTypeStep ==
    ASSUME TypeOK, ThreadStep PROVE TypeOK'
<1>1. UNCHANGED environment
    BY Zenon DEF ThreadStep, Begin, CheckReady, CheckOnline, Kick, NetWait,
       NetworkInit, Login, Verify, Activity, Poll, Lost, Cleanup, Logout,
       SetStopped, ThreadExit
<1>2. /\ state' \in States /\ pc' \in Labels /\ attempt' \in 1..MaxAttempts
      /\ {activeSession', inited', reconnecting', released', online'} \subseteq BOOLEAN
  <2> USE DEF TypeOK, States, Labels, At, Goto, MaxAttempts, WantsExit, Aborted, Ready
  <2>1. CASE Begin
      BY <2>1 DEF Begin
  <2>2. CASE CheckReady
      BY <2>2 DEF CheckReady
  <2>3. CASE CheckOnline
      BY <2>3 DEF CheckOnline
  <2>4. CASE Kick
      BY <2>4 DEF Kick
  <2>5. CASE NetWait
      BY <2>5 DEF NetWait
  <2>6. CASE NetworkInit
      BY <2>6 DEF NetworkInit
  <2>7. CASE Login
    <3>1. UNCHANGED <<inited, activeSession, released, online>>
        BY <2>7 DEF Login
    <3>2. CASE AttemptFailed
        BY <3>1, <3>2, AttemptTypes
    <3>3. CASE ~AttemptFailed
      <4>1. state' \in States /\ pc' \in {"cleanup", "verify"}
          BY <2>7, <3>3 DEF Login
      <4>2. attempt' \in {1, attempt} /\ reconnecting' = reconnecting
          BY <2>7, <3>3 DEF Login
      <4>3. attempt' \in 1..3
          BY <4>2
      <4>4. QED
          BY <3>1, <4>1, <4>2, <4>3
    <3>4. QED
        BY <3>2, <3>3
  <2>8. CASE Verify
    <3>1. UNCHANGED <<inited, released, online>>
        BY <2>8 DEF Verify
    <3>2. CASE AttemptFailed /\ UNCHANGED activeSession
        BY <3>1, <3>2, AttemptTypes
    <3>3. CASE ~(AttemptFailed /\ UNCHANGED activeSession)
      <4>1. /\ activeSession' = TRUE /\ state' = "active" /\ pc' = "active"
            /\ attempt' = 1 /\ reconnecting' = FALSE
          BY <2>8, <3>3 DEF Verify
      <4>2. attempt' \in 1..3
          BY <4>1
      <4>3. {activeSession', inited', reconnecting', released', online'} \subseteq BOOLEAN
          BY <3>1, <4>1
      <4>4. QED
          BY <4>1, <4>2, <4>3
    <3>4. QED
        BY <3>2, <3>3
  <2>9. CASE Activity
      BY <2>9 DEF Activity
  <2>10. CASE Poll
      BY <2>10 DEF Poll
  <2>11. CASE Lost
      BY <2>11 DEF Lost
  <2>12. CASE Cleanup
      BY <2>12 DEF Cleanup
  <2>13. CASE Logout
      BY <2>13 DEF Logout
  <2>14. CASE SetStopped
      BY <2>14 DEF SetStopped
  <2>15. CASE ThreadExit
      BY <2>15 DEF ThreadExit
  <2>16. QED
      BY <2>1, <2>2, <2>3, <2>4, <2>5, <2>6, <2>7, <2>8, <2>9, <2>10, <2>11,
         <2>12, <2>13, <2>14, <2>15, Zenon DEF ThreadStep
<1>3. QED
    BY <1>1, <1>2 DEF TypeOK

\* A step of DiscordRPC_Start or DiscordRPC_Stop keeps the types.
LEMMA CallerTypeStep ==
    ASSUME TypeOK, NEW c \in Callers, CallerStep(c) PROVE TypeOK'
<1>1. PICK p \in Places : Move(c, p)
    BY DEF CallerStep, StartTest, StartReset, StartClaim, StartCreate, Started,
       StopTest, StopGuard, StopRequest, Joined, Back, Places
<1>2. caller' \in [Callers -> Places]
    BY <1>1 DEF Move, TypeOK
<1>3. UNCHANGED <<activeSession, inited, reconnecting, attempt, sessionVars,
                  released, online, taskVars, published>>
    BY Zenon DEF CallerStep, StartTest, StartReset, StartClaim, StartCreate,
       Started, StopTest, StopGuard, StopRequest, Joined
<1>4. /\ state' \in States /\ {shouldStop', stopping', overlap'} \subseteq BOOLEAN
      /\ pc' \in Labels
  <2> USE DEF TypeOK, States, Labels, Alive
  <2>1. CASE StartTest(c) \/ Started(c) \/ StopTest(c)
      BY <2>1 DEF StartTest, Started, StopTest
  <2>2. CASE StartReset(c) \/ StartClaim(c)
      BY <2>2 DEF StartReset, StartClaim
  <2>3. CASE StartCreate(c)
      BY <2>3 DEF StartCreate
  <2>4. CASE StopGuard(c) \/ StopRequest(c) \/ Joined(c)
      BY <2>4 DEF StopGuard, StopRequest, Joined
  <2>5. QED
      BY <2>1, <2>2, <2>3, <2>4, Zenon DEF CallerStep
<1>5. QED
    BY <1>2, <1>3, <1>4 DEF TypeOK

\* The steps of the callers outside Start and Stop, and the events.
OtherStep == ServiceStep \/ RunnerStep \/ WakeStep \/ Events

\* They leave the thread and the globals of Start and Stop alone.
LEMMA OtherLeavesThread ==
    ASSUME OtherStep PROVE UNCHANGED rpc
BY Zenon DEF OtherStep, ServiceStep, RunnerStep, WakeStep, Events, PostTask,
   Publish, TakeTask, Delayed, Wake, PollStopped, MenuStart, MenuStop,
   ShellOpened, ShellClosed, PreTerm, Release, Restore, WifiChanges

\* They keep the types.
LEMMA OtherTypeStep ==
    ASSUME TypeOK, OtherStep PROVE TypeOK'
<1>1. caller' \in [Callers -> Places]
  <2>1. UNCHANGED caller \/ \E c \in Callers, p \in Places : Move(c, p)
    <3> USE DEF Callers, Places
    <3>1. CASE PostTask \/ Publish \/ TakeTask \/ Delayed
        BY <3>1 DEF PostTask, Publish, TakeTask, Delayed
    <3>2. CASE Wake \/ PollStopped
        BY <3>2 DEF Wake, PollStopped
    <3>3. CASE MenuStart \/ MenuStop \/ PreTerm
        BY <3>3 DEF MenuStart, MenuStop, PreTerm
    <3>4. CASE ShellOpened \/ ShellClosed
        BY <3>4 DEF ShellOpened, ShellClosed
    <3>5. CASE Release \/ Restore \/ WifiChanges
        BY <3>5 DEF Release, Restore, WifiChanges
    <3>6. QED
        BY <3>1, <3>2, <3>3, <3>4, <3>5 DEF OtherStep, ServiceStep, RunnerStep,
           WakeStep, Events
  <2>2. QED
      BY <2>1 DEF Move, TypeOK
<1>2. /\ {yielding', wasActive', wakeEvent', released', online',
          wasDiscordActive', published'} \subseteq BOOLEAN
      /\ {pending', task'} \subseteq {"none", "start", "stop"}
      /\ lid' \in {"boot", "open", "closed"}
  <2> USE DEF TypeOK
  <2>1. CASE PostTask \/ Publish \/ TakeTask \/ Delayed
      BY <2>1 DEF PostTask, Publish, TakeTask, Delayed
  <2>2. CASE Wake \/ PollStopped
      BY <2>2 DEF Wake, PollStopped
  <2>3. CASE MenuStart \/ MenuStop \/ PreTerm
      BY <2>3 DEF MenuStart, MenuStop, PreTerm
  <2>4. CASE ShellOpened \/ ShellClosed
      BY <2>4 DEF ShellOpened, ShellClosed
  <2>5. CASE Release \/ Restore \/ WifiChanges
      BY <2>5 DEF Release, Restore, WifiChanges
  <2>6. QED
      BY <2>1, <2>2, <2>3, <2>4, <2>5 DEF OtherStep, ServiceStep, RunnerStep,
         WakeStep, Events
<1>3. QED
    BY <1>1, <1>2, OtherLeavesThread DEF TypeOK

\* Every step keeps the types.
LEMMA TypeStep ==
    ASSUME TypeOK, [Next]_vars PROVE TypeOK'
<1>1. CASE UNCHANGED vars
    BY <1>1 DEF TypeOK, vars
<1>2. QED
    BY <1>1, ThreadTypeStep, CallerTypeStep, OtherTypeStep, Zenon DEF Next, OtherStep

\* Every step keeps the thread off the sockets outside network_init and its
\* exit.
LEMMA SocketsStep ==
    ASSUME TypeOK, SocketsInv, [Next]_vars PROVE SocketsInv'
<1> USE DEF SocketsInv, UsesSockets
<1>1. CASE ThreadStep
  <2> USE DEF At, Goto, Aborted, Ready
  <2>1. CASE Begin \/ CheckReady \/ CheckOnline
      BY <2>1 DEF Begin, CheckReady, CheckOnline
  <2>2. CASE Kick \/ NetWait
      BY <2>2 DEF Kick, NetWait
  <2>3. CASE NetworkInit
      BY <2>3 DEF NetworkInit
  <2>4. CASE Login
    <3>1. inited /\ inited'
        BY <2>4 DEF Login
    <3>2. pc' \in {"cleanup", "verify", "login", "check"}
        BY <2>4, AttemptTypes DEF Login
    <3>3. QED
        BY <3>1, <3>2
  <2>5. CASE Verify
    <3>1. inited /\ inited'
        BY <2>5 DEF Verify
    <3>2. pc' \in {"active", "login", "check"}
        BY <2>5, AttemptTypes DEF Verify
    <3>3. QED
        BY <3>1, <3>2
  <2>6. CASE Activity \/ Poll
      BY <2>6 DEF Activity, Poll
  <2>7. CASE Lost
      BY <2>7 DEF Lost
  <2>8. CASE Cleanup \/ Logout \/ SetStopped \/ ThreadExit
      BY <2>8 DEF Cleanup, Logout, SetStopped, ThreadExit
  <2>9. QED
      BY <1>1, <2>1, <2>2, <2>3, <2>4, <2>5, <2>6, <2>7, <2>8, Zenon DEF ThreadStep
<1>2. ASSUME NEW c \in Callers, CallerStep(c) PROVE SocketsInv'
  <2>1. UNCHANGED <<inited, reconnecting>> /\ (pc' = pc \/ (pc = "none" /\ pc' = "begin"))
      BY <1>2 DEF CallerStep, StartTest, StartReset, StartClaim, StartCreate,
         Started, StopTest, StopGuard, StopRequest, Joined, Alive
  <2>2. QED
      BY <2>1
<1>3. CASE OtherStep
    BY <1>3, OtherLeavesThread
<1>4. CASE UNCHANGED vars
    BY <1>4 DEF vars
<1>5. QED
    BY <1>1, <1>2, <1>3, <1>4, Zenon DEF Next, OtherStep

-----------------------------------------------------------------------------
(* What follows for every behaviour.                                       *)

\* TypeOK and SocketsInv together are inductive.
THEOREM InvHolds == Spec => []Inv
<1>1. Init => Inv
  <2> SUFFICES ASSUME Init PROVE Inv
      OBVIOUS
  <2>1. caller \in [Callers -> Places]
      BY DEF Init, Places
  <2>2. /\ {shouldStop, stopping, activeSession, inited, reconnecting, overlap,
             yielding, released, wasActive, wakeEvent, wasDiscordActive,
             published} = {FALSE}
        /\ state = "stopped" /\ pc = "none" /\ attempt = 1 /\ lid = "boot"
        /\ online \in BOOLEAN /\ {pending, task} = {"none"}
      BY DEF Init
  <2>3. attempt \in 1..3
      BY <2>2
  <2>4. TypeOK
    <3>1. {shouldStop, stopping, activeSession, inited, reconnecting, overlap,
           yielding, released, wasActive, wakeEvent, online, wasDiscordActive,
           published} \subseteq BOOLEAN
        BY <2>2
    <3>2. QED
        BY <2>1, <2>2, <2>3, <3>1 DEF TypeOK, States, Labels, MaxAttempts
  <2>5. SocketsInv
      BY DEF Init, SocketsInv, UsesSockets
  <2>6. QED
      BY <2>4, <2>5 DEF Inv
<1>2. Inv /\ [Next]_vars => Inv'
    BY TypeStep, SocketsStep DEF Inv
<1>3. QED
    BY <1>1, <1>2, PTL DEF Spec

\* The states of the presence, of its thread and of everybody who starts and
\* stops it keep their types; in particular login_session never makes a fourth
\* attempt.
THEOREM TypeCorrect == Spec => []TypeOK
<1>1. Inv => TypeOK
    BY DEF Inv
<1>2. QED
    BY <1>1, InvHolds, PTL

\* A request to the server, a logout included, is made between network_init
\* and the exit of the same thread, never after an early abort or a restart.
THEOREM RequestsHaveSockets == Spec => [](UsesSockets => inited)
<1>1. Inv => (UsesSockets => inited)
    BY DEF Inv, SocketsInv
<1>2. QED
    BY <1>1, InvHolds, PTL
=============================================================================
