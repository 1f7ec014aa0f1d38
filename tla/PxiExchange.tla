----------------------------- MODULE PxiExchange ------------------------------
(***************************************************************************)
(* The pxi system module (sysmodules/pxi): what its clients ask of         *)
(* Process9, on the other processor, and what Process9 answers, pass       *)
(* through four threads:                                                   *)
(*   main      accepts the sessions, and ends the module                   *)
(*   sender    receives the requests, sends them, replies to the clients   *)
(*   receiver  takes the answers out of the FIFO                           *)
(*   handler   serves the one service that Process9 calls, pxi:srv11       *)
(* The words of a message are sent under one mutex and abstracted to the   *)
(* service they are for; the FIFO towards Process9 to the set of messages  *)
(* it has not yet answered.  The sender holds senderLock except while it   *)
(* waits, so a step of main under that lock needs the sender to wait; the  *)
(* locks of the sessions never make anybody wait and are left out.         *)
(***************************************************************************)
EXTENDS Integers, FiniteSets, Sequences

CONSTANTS Mc,            \* pxi:mc, searched first
          Services,      \* the services that clients call, with Mc
          Srv11,         \* pxi:srv11
          Needs,         \* nbStaticBuffersByService
          Provide,       \* how many static buffers a thread has: 4
          NbBuffers,     \* NB_STATIC_BUFFERS
          Happens        \* what else happens: the client of pxi:mc orders the sleep,
                         \* pm tells the module to end, Process9 publishes

NoService == "none"
All == Services \cup {Srv11}
Buffers == 0..(NbBuffers - 1)

ASSUME ServicesAssumption ==
    /\ Mc \in Services /\ Srv11 \notin Services /\ NoService \notin All
    /\ IsFiniteSet(Services)
ASSUME BuffersAssumption ==
    /\ Provide \in Nat /\ NbBuffers \in Nat
    /\ Needs \in [Services -> 0..Provide] /\ Needs[Mc] = 0
ASSUME HappensAssumption == Happens \subseteq {"sleep", "end", "publish"}

VARIABLES
    state,          \* SessionData.state
    command,        \* SessionData.buffer: what the last request was
    handle,         \* SessionData.handle is open
    used,           \* SessionData.usedStaticBuffers
    provided,       \* currentlyProvidedStaticBuffers
    free,           \* freeStaticBuffers
    latest,         \* latest_PXI_MC5_val
    pending,        \* pendingArm9Commands
    disabled,       \* sendingDisabled
    newSession,     \* sendAllBuffersToArm9Event
    replySem,       \* replySemaphore
    received,       \* PXISRV11CommandReceivedEvent
    replySent,      \* PXISRV11ReplySentEvent
    terminate,      \* terminationRequestedEvent
    shouldTerminate,
    mutex,          \* PXITransferMutex
    sender,         \* the threads: where they are
    receiver,
    handler,
    main,
    client,         \* the client of each service
    at9,            \* requests Process9 has not answered
    fifo,           \* the receive FIFO: services answered
    irq,            \* PXISyncInterrupt
    asks9,          \* Process9 waits for pxi:srv11
    panicked,       \* svcBreak
    odd             \* history: what the module does not cope with

sessionVars == <<state, command, handle>>
bufferVars  == <<used, provided, free>>
sleepVars   == <<latest, pending, disabled>>
eventVars   == <<newSession, replySem, received, replySent>>
endVars     == <<terminate, shouldTerminate>>
arm9Vars    == <<at9, fifo, irq, asks9>>
vars == <<sessionVars, bufferVars, sleepVars, eventVars, endVars, mutex, sender, receiver,
          handler, main, client, arm9Vars, panicked, odd>>

States == {"idle", "from11", "sent", "from9"}
\* snap: the idle sessions whose handles are waited for; reply: replyTarget
SenderAt == [pc : {"start", "send", "sending", "collect", "wait", "end"},
             cur : Services \cup {NoService}, snap : SUBSET Services,
             reply : Services \cup {NoService}]
ReceiverAt == [pc : {"start", "wait", "read", "fill", "signal", "answered", "end"},
               cur : All \cup {NoService}]
HandlerAt == {"start", "wait", "work", "sending", "sent", "signal", "end"}
MainAt == {"run", "mark", "sending", "join", "end"}
Commands == {"plain", "sleep", "wake"}
Clients == {"none", "connecting", "open", "asking", "waiting", "gone"}

TypeOK ==
    /\ state \in [All -> States]
    /\ command \in [Services -> Commands]
    /\ handle \in [Services -> BOOLEAN]
    /\ used \in [Services -> SUBSET Buffers]
    /\ provided \in SUBSET Buffers /\ Cardinality(provided) <= Provide
    /\ free \in SUBSET Buffers
    /\ latest \in 0..2 /\ pending \in Int /\ disabled \in BOOLEAN
    /\ newSession \in BOOLEAN /\ received \in BOOLEAN /\ replySent \in BOOLEAN
    /\ replySem \in Nat
    /\ terminate \in BOOLEAN /\ shouldTerminate \in BOOLEAN
    /\ mutex \in {"sender", "handler", "main", "free"}
    /\ sender \in SenderAt /\ receiver \in ReceiverAt
    /\ handler \in HandlerAt /\ main \in MainAt
    /\ client \in [Services -> Clients]
    /\ at9 \in SUBSET All /\ fifo \in Seq(All)
    /\ irq \in BOOLEAN /\ asks9 \in BOOLEAN
    /\ panicked \in BOOLEAN
    /\ odd \in SUBSET {"crossed", "short", "inuse", "late"}

Init ==
    /\ state = [s \in All |-> "idle"]
    /\ command = [s \in Services |-> "plain"]
    /\ handle = [s \in Services |-> FALSE]
    /\ used = [s \in Services |-> {}]
    /\ provided = {} /\ free = Buffers
    /\ latest = 0 /\ pending = 0 /\ disabled = FALSE
    /\ newSession = FALSE /\ replySem = 0 /\ received = FALSE /\ replySent = FALSE
    /\ terminate = FALSE /\ shouldTerminate = FALSE
    /\ mutex = "free"
    /\ sender = [pc |-> "start", cur |-> NoService, snap |-> {}, reply |-> NoService]
    /\ receiver = [pc |-> "start", cur |-> NoService]
    /\ handler = "start" /\ main = "run"
    /\ client = [s \in Services |-> "none"]
    /\ at9 = {} /\ fifo = <<>> /\ irq = FALSE /\ asks9 = FALSE
    /\ panicked = FALSE /\ odd = {}

-----------------------------------------------------------------------------
(* sender: static buffers                                                  *)

\* what no step of the sender changes
othersOfSender == <<received, replySent, endVars, receiver, handler, main, fifo, irq, asks9>>

\* the count largest members of S, which clearMSBs clears
Largest(S, count) == {x \in S : Cardinality({y \in S : y > x}) < count}

\* mutant: those provided before are still provided
Provision_Adds(f) ==
    /\ provided' = provided \cup Largest(f, Provide)
    /\ free' = f \ Largest(f, Provide)

\* acquireStaticBuffers, of those in f
Provision(f) ==
    /\ provided' = Largest(f, Provide)
    /\ free' = f \ Largest(f, Provide)

SenderStart ==
    /\ sender.pc = "start"
    /\ Provision(Buffers)
    /\ sender' = [sender EXCEPT !.pc = "send"]
    /\ UNCHANGED <<othersOfSender, sessionVars, sleepVars, used, newSession, replySem, mutex,
                   client, at9, panicked, odd>>

-----------------------------------------------------------------------------
(* sender: requests to Process9                                            *)

\* mutant: requests that came after the order to sleep are sent
Sends_WhileAsleep(s) ==
    /\ handle[s] /\ state[s] = "from11"
    /\ disabled => pending = 0

\* the requests that the loop sends when it comes by
Sends(s) ==
    /\ handle[s] /\ state[s] = "from11"
    /\ disabled => pending = 0 /\ latest # 0

\* the next request, pxi:mc first (the others in any order)
Look(s) ==
    /\ sender.pc = "send" /\ Sends(s)
    /\ s = Mc \/ ~Sends(Mc)
    /\ pending' = IF disabled THEN pending ELSE pending + 1
    /\ state' = [state EXCEPT ![s] = "sent"]
    /\ sender' = [sender EXCEPT !.pc = "sending", !.cur = s]
    /\ UNCHANGED <<othersOfSender, bufferVars, command, handle, latest, disabled, newSession,
                   replySem, mutex, client, at9, panicked, odd>>

\* sendPXICmdbuf: waits for the mutex ...
SenderLocks ==
    /\ sender.pc = "sending" /\ mutex = "free"
    /\ mutex' = "sender"
    /\ UNCHANGED <<othersOfSender, sessionVars, bufferVars, sleepVars, newSession, replySem,
                   sender, client, at9, panicked, odd>>

\* ... unless the module is to end; then the sender closes its sessions
SenderCancelled ==
    /\ sender.pc = "sending" /\ mutex \in {"handler", "main"} /\ terminate
    /\ sender' = [sender EXCEPT !.pc = "end"]
    /\ handle' = [s \in Services |-> FALSE]
    /\ UNCHANGED <<othersOfSender, bufferVars, sleepVars, state, command, newSession, replySem,
                   mutex, client, at9, panicked, odd>>

SenderSends ==
    /\ sender.pc = "sending" /\ mutex = "sender"
    /\ at9' = at9 \cup {sender.cur}
    /\ mutex' = "free"
    /\ sender' = [sender EXCEPT !.pc = "send", !.cur = NoService]
    /\ UNCHANGED <<othersOfSender, sessionVars, bufferVars, sleepVars, newSession, replySem,
                   client, panicked, odd>>

-----------------------------------------------------------------------------
(* sender: svcReplyAndReceive                                              *)

\* mutant: all the sessions are waited for
Idle_AllOpen == {s \in Services : handle[s]}

\* the sessions waited for, those without a request under way
Idle == {s \in Services : handle[s] /\ state[s] = "idle"}

\* the handles are collected and the lock released; the reply comes first, and when its
\* client has gone the call returns at once and the session is closed
Collect ==
    /\ sender.pc = "collect" \/ (sender.pc = "send" /\ \A s \in Services : ~Sends(s))
    /\ IF sender.reply = NoService
       THEN /\ sender' = [sender EXCEPT !.pc = "wait", !.snap = Idle]
            /\ UNCHANGED <<client, handle>>
       ELSE IF client[sender.reply] = "gone"
       THEN /\ sender' = [sender EXCEPT !.pc = "send", !.reply = NoService]
            /\ handle' = [handle EXCEPT ![sender.reply] = FALSE]
            /\ client' = [client EXCEPT ![sender.reply] = "none"]
       ELSE /\ sender' = [sender EXCEPT !.pc = "wait", !.snap = Idle, !.reply = NoService]
            /\ client' = [client EXCEPT ![sender.reply] = "open"]
            /\ UNCHANGED handle
    /\ UNCHANGED <<othersOfSender, bufferVars, sleepVars, state, command, newSession, replySem,
                   mutex, at9, panicked, odd>>

Waiting == sender.pc = "wait"
Resume(pc, r) == sender' = [sender EXCEPT !.pc = pc, !.reply = r, !.snap = {}]

SenderEnds ==
    /\ Waiting /\ terminate
    /\ Resume("end", NoService)
    /\ handle' = [s \in Services |-> FALSE]
    /\ UNCHANGED <<othersOfSender, bufferVars, sleepVars, state, command, newSession, replySem,
                   mutex, client, at9, panicked, odd>>

\* a session was accepted: the handles are collected again
SenderHears ==
    /\ Waiting /\ newSession
    /\ newSession' = FALSE
    /\ Resume("send", NoService)
    /\ UNCHANGED <<othersOfSender, sessionVars, bufferVars, sleepVars, replySem, mutex, client,
                   at9, panicked, odd>>

Panic ==
    /\ panicked' = TRUE
    /\ UNCHANGED <<sessionVars, bufferVars, sleepVars, client, sender>>

\* the answer taken is that of the first session with one (pxi:mc before the others)
IsFirst(s) ==
    /\ state[s] = "from9"
    /\ s = Mc \/ state[Mc] # "from9"

\* mutant: the buffers of the request are not released
Answered_KeepsBuffers(s) ==
    /\ Waiting /\ replySem > 0 /\ IsFirst(s)
    /\ replySem' = replySem - 1
    /\ disabled' = (disabled /\ latest # 2)
    /\ pending' = IF latest = 0 THEN pending - 1 ELSE pending
    /\ used' = [used EXCEPT ![s] = {}]
    /\ state' = [state EXCEPT ![s] = "idle"]
    /\ Resume(IF handle[s] THEN "collect" ELSE "send", IF handle[s] THEN s ELSE NoService)
    /\ UNCHANGED <<othersOfSender, command, handle, free, provided, latest, client, odd,
                   panicked, newSession, mutex, at9>>

\* an answer of Process9
Answered(s) ==
    /\ Waiting /\ replySem > 0
    /\ IsFirst(s) \/ \A t \in Services : state[t] # "from9"
    /\ replySem' = replySem - 1
    /\ IF state[s] # "from9" \/ (latest = 2 /\ pending # 0)
       THEN Panic
       ELSE /\ disabled' = (disabled /\ latest # 2)
            /\ pending' = IF latest = 0 THEN pending - 1 ELSE pending
            /\ free' = free \cup used[s]
            /\ used' = [used EXCEPT ![s] = {}]
            /\ state' = [state EXCEPT ![s] = "idle"]
            /\ Resume(IF handle[s] THEN "collect" ELSE "send", IF handle[s] THEN s ELSE NoService)
            /\ UNCHANGED <<command, handle, provided, latest, client, panicked>>
    /\ UNCHANGED <<othersOfSender, odd, newSession, mutex, at9>>

\* the requests of a client: the sleep and the wake are pxi:mc 5, with 1 and with 0
Requests(s) == IF s = Mc /\ "sleep" \in Happens THEN Commands ELSE {"plain"}

\* sleep and wake are received out of turn
OutOfTurn(c) == (c = "sleep" /\ disabled) \/ (c = "wake" /\ ~disabled)

\* the sleep is meant for a Process9 without work, and for clients that then are silent
Crosses(c) == OutOfTurn(c) \/ (c = "plain" /\ disabled) \/ (c = "sleep" /\ pending # 0)

\* the thread had fewer buffers to provide than the 4 that the code counts on
Short(s) == Needs[s] > 0 /\ Cardinality(provided) < Provide

\* a request of a client; it keeps the buffers it needs, and the thread provides others
Request(s, c) ==
    LET kept == provided \ Largest(provided, Provide - Needs[s])
        left == free \cup (provided \ kept)
    IN  /\ Waiting /\ s \in sender.snap /\ client[s] = "asking"
        /\ odd' = odd \cup (IF Crosses(c) THEN {"crossed"} ELSE {})
                      \cup (IF Short(s) THEN {"short"} ELSE {})
        /\ IF state[s] # "idle" \/ OutOfTurn(c)
           THEN Panic
           ELSE /\ latest' = CASE c = "plain" -> 0 [] c = "sleep" -> 1 [] c = "wake" -> 2
                /\ disabled' = (disabled \/ c = "sleep")
                /\ state' = [state EXCEPT ![s] = "from11"]
                /\ command' = [command EXCEPT ![s] = c]
                /\ client' = [client EXCEPT ![s] = "waiting"]
                /\ used' = [used EXCEPT ![s] = kept]
                /\ Provision(left)
                /\ Resume("send", NoService)
                /\ UNCHANGED <<handle, pending, panicked>>
        /\ UNCHANGED <<othersOfSender, newSession, replySem, mutex, at9>>

\* a client has closed its session
Closed(s) ==
    /\ Waiting /\ s \in sender.snap /\ client[s] = "gone"
    /\ handle' = [handle EXCEPT ![s] = FALSE]
    /\ client' = [client EXCEPT ![s] = "none"]
    /\ Resume("send", NoService)
    /\ UNCHANGED <<othersOfSender, bufferVars, sleepVars, state, command, newSession, replySem,
                   mutex, at9, panicked, odd>>

-----------------------------------------------------------------------------
(* receiver                                                                *)

\* what no step of the receiver changes
othersOfReceiver == <<command, handle, bufferVars, sleepVars, newSession, shouldTerminate, mutex,
                      sender, handler, main, client, at9, asks9, odd>>

ReceiverStart ==
    /\ receiver.pc = "start" /\ replySent
    /\ replySent' = FALSE
    /\ receiver' = [receiver EXCEPT !.pc = "wait"]
    /\ UNCHANGED <<othersOfReceiver, state, replySem, received, terminate, fifo, irq, panicked>>

\* the interrupt is the first of the two objects waited for
ReceiverHears ==
    /\ receiver.pc = "wait" /\ irq
    /\ irq' = FALSE
    /\ receiver' = [receiver EXCEPT !.pc = "read"]
    /\ UNCHANGED <<othersOfReceiver, state, replySem, received, replySent, terminate, fifo,
                   panicked>>

ReceiverEnds ==
    /\ receiver.pc = "wait" /\ ~irq /\ terminate
    /\ receiver' = [receiver EXCEPT !.pc = "end"]
    /\ UNCHANGED <<othersOfReceiver, state, replySem, received, replySent, terminate, fifo, irq,
                   panicked>>

\* receiveFromArm9: the next message, or none
ReceiverReads ==
    /\ receiver.pc = "read"
    /\ IF fifo = <<>>
       THEN /\ receiver' = [receiver EXCEPT !.pc = "wait"]
            /\ UNCHANGED <<fifo, panicked>>
       ELSE /\ fifo' = Tail(fifo)
            /\ IF state[Head(fifo)] # "sent"
               THEN panicked' = TRUE /\ UNCHANGED receiver
               ELSE /\ receiver' = [pc |-> "fill", cur |-> Head(fifo)]
                    /\ UNCHANGED panicked
    /\ UNCHANGED <<othersOfReceiver, state, replySem, received, replySent, terminate, irq>>

ReceiverFills ==
    /\ receiver.pc = "fill"
    /\ state' = [state EXCEPT ![receiver.cur] = "from9"]
    /\ receiver' = [receiver EXCEPT !.pc = "signal"]
    /\ UNCHANGED <<othersOfReceiver, replySem, received, replySent, terminate, fifo, irq, panicked>>

\* mutant: the answer to the order to end is announced as any other
ReceiverSignals_AsAny ==
    /\ receiver.pc = "signal"
    /\ IF receiver.cur = Srv11
       THEN /\ received' = TRUE
            /\ receiver' = [receiver EXCEPT !.pc = "answered"]
            /\ UNCHANGED replySem
       ELSE /\ replySem' = replySem + 1
            /\ receiver' = [pc |-> "read", cur |-> NoService]
            /\ UNCHANGED received
    /\ UNCHANGED <<othersOfReceiver, state, replySent, terminate, fifo, irq, panicked>>

\* mutant: the count is an event
ReceiverSignals_Event ==
    /\ receiver.pc = "signal"
    /\ receiver' = IF receiver.cur = Srv11 THEN [receiver EXCEPT !.pc = "answered"]
                   ELSE [pc |-> "read", cur |-> NoService]
    /\ IF receiver.cur = Srv11
       THEN received' = TRUE /\ UNCHANGED <<terminate, replySem>>
       ELSE replySem' = 1 /\ UNCHANGED <<terminate, received>>
    /\ UNCHANGED <<othersOfReceiver, state, replySent, fifo, irq, panicked>>

\* mutant: one message for each interrupt
ReceiverSignals_OnlyOne ==
    /\ receiver.pc = "signal"
    /\ receiver' = [pc |-> "wait", cur |-> NoService]
    /\ replySem' = replySem + 1
    /\ UNCHANGED <<othersOfReceiver, state, received, replySent, terminate, fifo, irq, panicked>>

\* the answer is announced: to the sender, or, the one to the order to end, to all threads
ReceiverSignals ==
    /\ receiver.pc = "signal"
    /\ receiver' = IF receiver.cur = Srv11 THEN [receiver EXCEPT !.pc = "answered"]
                   ELSE [pc |-> "read", cur |-> NoService]
    /\ IF receiver.cur = Mc /\ shouldTerminate
       THEN terminate' = TRUE /\ UNCHANGED <<received, replySem>>
       ELSE IF receiver.cur = Srv11
       THEN received' = TRUE /\ UNCHANGED <<terminate, replySem>>
       ELSE replySem' = replySem + 1 /\ UNCHANGED <<terminate, received>>
    /\ UNCHANGED <<othersOfReceiver, state, replySent, fifo, irq, panicked>>

\* the handler has sent its reply
ReceiverResumes ==
    /\ receiver.pc = "answered" /\ replySent
    /\ replySent' = FALSE
    /\ IF state[Srv11] # "sent"
       THEN panicked' = TRUE /\ UNCHANGED receiver
       ELSE /\ receiver' = [pc |-> "read", cur |-> NoService]
            /\ UNCHANGED panicked
    /\ UNCHANGED <<othersOfReceiver, state, replySem, received, terminate, fifo, irq>>

-----------------------------------------------------------------------------
(* handler: pxi:srv11                                                      *)

othersOfHandler == <<command, handle, bufferVars, sleepVars, newSession, replySem, endVars, sender,
                     receiver, main, client, fifo, irq, asks9, odd>>

HandlerStart ==
    /\ handler = "start"
    /\ state' = [state EXCEPT ![Srv11] = "sent"]
    /\ handler' = "signal"
    /\ UNCHANGED <<othersOfHandler, received, replySent, mutex, at9, panicked>>

\* a command comes before the end, when both are there
HandlerHears ==
    /\ handler = "wait"
    /\ received \/ terminate
    /\ handler' = IF received THEN "work" ELSE "end"
    /\ received' = FALSE
    /\ UNCHANGED <<othersOfHandler, state, replySent, mutex, at9, panicked>>

\* the notification is published (srvPublishToSubscriber)
HandlerWorks ==
    /\ handler = "work"
    /\ IF state[Srv11] # "from9"
       THEN panicked' = TRUE /\ UNCHANGED <<state, handler>>
       ELSE /\ state' \in {[state EXCEPT ![Srv11] = w] : w \in {"idle", "from11"}}
            /\ handler' = "sending"
            /\ UNCHANGED panicked
    /\ UNCHANGED <<othersOfHandler, received, replySent, mutex, at9>>

\* sendPXICmdbuf, which must not be cancelled here
HandlerLocks ==
    /\ handler = "sending" /\ mutex # "handler" /\ (mutex = "free" \/ terminate)
    /\ IF mutex = "free"
       THEN mutex' = "handler" /\ UNCHANGED panicked
       ELSE panicked' = TRUE /\ UNCHANGED mutex
    /\ UNCHANGED <<othersOfHandler, state, handler, received, replySent, at9>>

HandlerSends ==
    /\ handler = "sending" /\ mutex = "handler"
    /\ at9' = at9 \cup {Srv11}
    /\ mutex' = "free"
    /\ handler' = "sent"
    /\ UNCHANGED <<othersOfHandler, state, received, replySent, panicked>>

HandlerSent ==
    /\ handler = "sent"
    /\ state' = [state EXCEPT ![Srv11] = "sent"]
    /\ handler' = "signal"
    /\ UNCHANGED <<othersOfHandler, received, replySent, mutex, at9, panicked>>

HandlerSignals ==
    /\ handler = "signal"
    /\ replySent' = TRUE
    /\ handler' = "wait"
    /\ UNCHANGED <<othersOfHandler, state, received, mutex, at9, panicked>>

-----------------------------------------------------------------------------
(* main                                                                    *)

othersOfMain == <<command, bufferVars, sleepVars, replySem, received, replySent, terminate, sender,
                  receiver, handler, fifo, irq, asks9>>

\* svcAcceptSession, and the session under senderLock, which the sender must not hold
Accept(s) ==
    /\ main = "run" /\ client[s] = "connecting" /\ sender.pc \in {"start", "wait", "end"}
    /\ IF handle[s]
       THEN panicked' = TRUE /\ UNCHANGED <<handle, newSession, client>>
       ELSE /\ handle' = [handle EXCEPT ![s] = TRUE]
            /\ newSession' = TRUE
            /\ client' = [client EXCEPT ![s] = "open"]
            /\ UNCHANGED panicked
    /\ UNCHANGED <<othersOfMain, state, shouldTerminate, mutex, main, at9, odd>>

\* notification 0x100
Told ==
    /\ "end" \in Happens /\ main = "run"
    /\ shouldTerminate' = TRUE
    /\ main' = "mark"
    /\ odd' = odd \cup (IF handle[Mc] \/ state[Mc] # "idle" \/ receiver.cur = Mc
                        THEN {"inuse"} ELSE {})
    /\ UNCHANGED <<othersOfMain, state, handle, newSession, mutex, client, at9, panicked>>

\* the session of pxi:mc is taken for the order to end, without its lock
MainMarks ==
    /\ main = "mark"
    /\ state' = [state EXCEPT ![Mc] = "sent"]
    /\ main' = "sending"
    /\ UNCHANGED <<othersOfMain, handle, newSession, shouldTerminate, mutex, client, at9, panicked,
                   odd>>

MainLocks ==
    /\ main = "sending" /\ mutex = "free"
    /\ mutex' = "main"
    /\ UNCHANGED <<othersOfMain, state, handle, newSession, shouldTerminate, main, client, at9,
                   panicked, odd>>

MainSends ==
    /\ main = "sending" /\ mutex = "main"
    /\ at9' = at9 \cup {Mc}
    /\ mutex' = "free"
    /\ main' = "join"
    /\ UNCHANGED <<othersOfMain, state, handle, newSession, shouldTerminate, client, panicked, odd>>

MainEnds ==
    /\ main = "join" /\ receiver.pc = "end" /\ sender.pc = "end" /\ handler = "end"
    /\ main' = "end"
    /\ UNCHANGED <<othersOfMain, state, handle, newSession, shouldTerminate, mutex, client, at9,
                   panicked, odd>>

-----------------------------------------------------------------------------
(* external: the clients, and Process9                                     *)

othersOfClients == <<sessionVars, bufferVars, sleepVars, eventVars, endVars, mutex, sender,
                     receiver, handler, main, arm9Vars, panicked, odd>>

\* each service has one session at a time (srvRegisterService with 1)
Connect(s) ==
    /\ client[s] = "none" /\ ~shouldTerminate
    /\ client' = [client EXCEPT ![s] = "connecting"]
    /\ UNCHANGED othersOfClients

Ask(s) ==
    /\ client[s] = "open"
    /\ client' = [client EXCEPT ![s] = "asking"]
    /\ UNCHANGED othersOfClients

Dies(s) ==
    /\ client[s] \in {"open", "asking", "waiting"}
    /\ client' = [client EXCEPT ![s] = "gone"]
    /\ UNCHANGED othersOfClients

othersOf9 == <<sessionVars, bufferVars, sleepVars, eventVars, endVars, mutex, sender, receiver,
               handler, main, client, panicked>>

\* Process9 answers what it was asked, in any order
Answer(s) ==
    /\ s \in at9
    /\ at9' = at9 \ {s}
    /\ fifo' = Append(fifo, s)
    /\ irq' = TRUE
    /\ UNCHANGED <<othersOf9, asks9, odd>>

\* Process9 publishes a notification; it waits for the reply before the next
AskPublish ==
    /\ "publish" \in Happens /\ ~asks9
    /\ asks9' = TRUE
    /\ fifo' = Append(fifo, Srv11)
    /\ irq' = TRUE
    /\ odd' = odd \cup (IF main = "join" /\ Mc \notin at9 THEN {"late"} ELSE {})
    /\ UNCHANGED <<othersOf9, at9>>

TakesReply ==
    /\ Srv11 \in at9
    /\ at9' = at9 \ {Srv11}
    /\ asks9' = FALSE
    /\ UNCHANGED <<othersOf9, fifo, irq, odd>>

-----------------------------------------------------------------------------
Sender == \/ SenderStart \/ SenderLocks \/ SenderCancelled \/ SenderSends \/ Collect
          \/ SenderEnds \/ SenderHears
          \/ \E s \in Services : \/ Look(s) \/ Answered(s) \/ Closed(s)
                                 \/ \E c \in Requests(s) : Request(s, c)
Receiver == \/ ReceiverStart \/ ReceiverHears \/ ReceiverEnds \/ ReceiverReads
            \/ ReceiverFills \/ ReceiverSignals \/ ReceiverResumes
Handler == \/ HandlerStart \/ HandlerHears \/ HandlerWorks \/ HandlerLocks
           \/ HandlerSends \/ HandlerSent \/ HandlerSignals
MainThread == \/ MainMarks \/ MainLocks \/ MainSends \/ MainEnds
              \/ \E s \in Services : Accept(s)
Process9 == TakesReply \/ \E s \in Services : Answer(s)
Clientele == \E s \in Services : Connect(s) \/ Ask(s) \/ Dies(s)

\* what follows when the end meets what it does not cope with is not modelled
Running == ~panicked /\ odd \subseteq {"short", "crossed"}

\* the module has stopped, or is stuck
Stopped == ~Running \/ main = "end" \/ "crossed" \in odd

Next ==
    \/ Running /\ (Sender \/ Receiver \/ Handler \/ MainThread \/ Told)
    \/ Running /\ (Process9 \/ AskPublish \/ Clientele)
    \/ Stopped /\ UNCHANGED vars

Spec == Init /\ [][Next]_vars

-----------------------------------------------------------------------------
(* Properties                                                              *)

\* answers announced to the sender, and about to be
Announced == replySem + (IF receiver.pc = "signal" /\ receiver.cur # Srv11 THEN 1 ELSE 0)

\* replySemaphore counts the sessions with an answer: the sender, which on each count
\* looks for such a session and panics when there is none, always finds one, and
\* never leaves one behind (until the module is told to end: sender.c:179, receiver.c:45).
SemaphoreCounts ==
    (~shouldTerminate /\ ~panicked)
      => Announced = Cardinality({s \in Services : state[s] = "from9"})

\* No thread ever comes upon a session in another state than it expects (the svcBreaks of
\* the three threads), whatever clients die or reconnect, answers come together, or
\* notifications Process9 publishes; except when the sleep crosses other requests, or
\* pxi:mc is in use as the module is told to end, or Process9 publishes after it has agreed
\* to the end (sender.c:114, 184-190 and 295, main.c:197).
NeverPanics == odd \subseteq {"short"} => ~panicked

\* Each static buffer is free, provided to the sender or kept by one request, none is lost
\* and none is in two places; and a request under way keeps as many as its service needs,
\* so that the next one does not overwrite its data: as long as the sender had its 4 buffers
\* to provide when it came (sender.c:235-237).
BuffersExclusive ==
    sender.pc # "start"
      => /\ provided \cap free = {}
         /\ \A s \in Services : used[s] \cap (provided \cup free) = {}
         /\ \A s, t \in Services : s # t => used[s] \cap used[t] = {}
         /\ Buffers = provided \cup free \cup UNION {used[s] : s \in Services}
         /\ "short" \notin odd
              => \A s \in Services : state[s] \in {"from11", "sent", "from9"}
                                       => Cardinality(used[s]) = Needs[s]

\* requests that Process9 has been or is being sent, and has not answered
InFlight == {s \in Services : state[s] = "sent" /\ command[s] = "plain"}

\* Between the sleep and the wake Process9 is sent no other command, whatever the clients
\* ask; and it is sent the order to sleep when it has answered all else, as long as no
\* request crossed an earlier sleep (sender.c:112-116).
QuietWhileAsleep ==
    [][\A s \in Services :
          (sender.pc = "send" /\ sender'.cur = s)
            => /\ (command[s] = "sleep" /\ "crossed" \notin odd) => InFlight = {}
               /\ (command[s] = "plain" /\ disabled) => command[Mc] = "wake"]_vars

\* A session is replied to only when its client, and not a later one of the same service,
\* has asked and waits, or has gone; pxi:mc must not be in use when the module is told
\* to end (sender.c:134, 200, main.c:197).
ReplyToAsker ==
    (sender.reply # NoService /\ "inuse" \notin odd)
      => client[sender.reply] \in {"waiting", "gone"}

\* nothing the module does not cope with has happened, and it is not told to end
Ordinary == odd \subseteq {"short"} /\ ~shouldTerminate

\* Every request gets its reply, unless its client dies first, as long as Process9
\* answers: no answer, count or wake-up is lost between the threads.  The answers of pxi:mc
\* come first: others wait while they keep coming (sender.c:176-204).
EveryAnswered ==
    \A s \in Services :
        client[s] = "waiting" ~> \/ client[s] # "waiting" \/ ~Ordinary
                                 \/ (s # Mc /\ state[Mc] = "from9")

\* Told to end, the module ends: the answer to its last order stops all three threads,
\* wherever they are (main.c:196-202, receiver.c:36-40).
EndsWhenTold ==
    shouldTerminate ~> (main = "end" \/ ~(odd \subseteq {"short"}))

\* the threads run, the mutex passes to each that waits for it, and the order to end is not
\* passed over for ever (it is the first of the objects that the sender waits for)
Threads ==
    /\ WF_vars(Running /\ Sender) /\ WF_vars(Running /\ Receiver)
    /\ WF_vars(Running /\ Handler) /\ WF_vars(Running /\ MainThread)
    /\ SF_vars(Running /\ SenderLocks) /\ SF_vars(Running /\ HandlerLocks)
    /\ SF_vars(Running /\ MainLocks) /\ SF_vars(Running /\ SenderEnds)

\* Process9 answers, and its answers are taken before the requests of the sessions
Answers == \A s \in Services : /\ WF_vars(Running /\ Answer(s))
                               /\ SF_vars(Running /\ Answered(s))

LiveSpec == Spec /\ Threads /\ Answers

EndSpec == Spec /\ Threads /\ WF_vars(Running /\ Answer(Mc))

=============================================================================
