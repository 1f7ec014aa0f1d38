-------------------------- MODULE PxiExchange_proofs --------------------------
(***************************************************************************)
(* For any number of services and of static buffers: the semaphore of the  *)
(* answers counts the sessions that have one, a static buffer is never in  *)
(* two places, a reply goes to the client that asked, and nothing is sent  *)
(* between the sleep and the wake.                                         *)
(***************************************************************************)
EXTENDS PxiExchange, FiniteSetTheorems, WellFoundedInduction, TLAPS

USE DEF NoService, All

-----------------------------------------------------------------------------
(* The largest members of a set of buffers                                 *)

\* Every non-empty set of natural numbers has a least element.
LEMMA LeastOf ==
    ASSUME NEW T \in SUBSET Nat, T # {}
    PROVE  \E x \in T : \A y \in T : x <= y
<1> DEFINE R == {ss \in Nat \X Nat : ss[1] < ss[2]}
<1>1. IsWellFoundedOn(R, Nat)
  BY NatLessThanWellFounded DEF OpToRel
<1>2. \A x, y \in Nat : y < x => <<y, x>> \in R
  OBVIOUS
<1> HIDE DEF R
<1>3. PICK x \in T : \A y \in T : ~(<<y, x>> \in R)
  BY <1>1, WFMin
<1>4. \A y \in T : ~(y < x)
  BY <1>2, <1>3
<1>5. QED BY <1>4

\* Every non-empty set of buffers has a greatest one.
LEMMA GreatestOf ==
    ASSUME NEW T \in SUBSET Buffers, T # {}
    PROVE  \E x \in T : \A y \in T : y <= x
<1> DEFINE n == NbBuffers
           U == {n - x : x \in T}
<1>1. n \in Nat /\ \A x \in T : x \in Nat /\ x <= n /\ n - x \in Nat
  BY BuffersAssumption DEF Buffers
<1>2. U \in SUBSET Nat
  BY <1>1
<1>3. U # {}
  OBVIOUS
<1>4. PICK x \in U : \A y \in U : x <= y
  <2> HIDE DEF U
  <2>1. QED BY <1>2, <1>3, LeastOf
<1>5. PICK z \in T : x = n - z
  OBVIOUS
<1>6. \A y \in T : n - z <= n - y
  BY <1>4, <1>5
<1>7. QED BY <1>1, <1>6

\* A buffer is a number ...
LEMMA BuffersNat == Buffers \in SUBSET Nat
BY BuffersAssumption DEF Buffers

\* ... and there are finitely many.
LEMMA BuffersFinite ==
    ASSUME NEW S \in SUBSET Buffers
    PROVE  IsFiniteSet(S) /\ Cardinality(S) \in Nat
<1>1. IsFiniteSet(Buffers)
  BY FS_Interval, BuffersAssumption DEF Buffers
<1>2. IsFiniteSet(S)
  BY <1>1, FS_Subset
<1>3. QED BY <1>2, FS_CardinalityType

\* clearMSBs clears as many as it is told, or all that there are.
LEMMA LargestCount ==
    ASSUME NEW S \in SUBSET Buffers, NEW count \in Nat
    PROVE  /\ Largest(S, count) \subseteq S
           /\ Cardinality(Largest(S, count)) <= count
           /\ Largest(S, count) = S \/ Cardinality(Largest(S, count)) = count
<1> DEFINE Above(x) == {y \in S : y > x}
           T == Largest(S, count)
<1>1. T = {x \in S : Cardinality(Above(x)) < count}
  BY DEF Largest
<1>2. T \in SUBSET Buffers /\ T \subseteq S
  BY <1>1
<1>3. \A x \in Buffers : /\ Above(x) \in SUBSET Buffers /\ IsFiniteSet(Above(x))
                         /\ Cardinality(Above(x)) \in Nat
  BY BuffersFinite
<1>4. IsFiniteSet(T) /\ Cardinality(T) \in Nat
  BY <1>2, BuffersFinite
<1> HIDE DEF T
<1>5. Cardinality(T) <= count
  <2>1. CASE T = {}
    BY <2>1, FS_EmptySet
  <2>2. CASE T # {}
    <3>1. PICK x \in T : \A y \in T : x <= y
      <4>1. T \in SUBSET Nat
        BY <1>2, BuffersNat
      <4>2. QED BY <2>2, <4>1, LeastOf
    <3>2. T \ {x} \subseteq Above(x)
      <4>1. \A y \in T : y \in S /\ y \in Nat /\ x \in Nat
        BY <1>2, BuffersNat
      <4>2. QED BY <3>1, <4>1
    <3>3. Cardinality(T \ {x}) <= Cardinality(Above(x))
      BY <1>2, <1>3, <3>2, FS_Subset
    <3>4. Cardinality(T \ {x}) = Cardinality(T) - 1
      BY <1>4, FS_RemoveElement
    <3>5. Cardinality(Above(x)) < count /\ Cardinality(Above(x)) \in Nat
      BY <1>1, <1>2, <1>3
    <3>6. QED BY <1>4, <3>3, <3>4, <3>5
  <2>3. QED BY <2>1, <2>2
<1>6. T = S \/ Cardinality(T) = count
  <2>1. SUFFICES ASSUME T # S PROVE Cardinality(T) = count
    OBVIOUS
  <2>2. S \ T # {} /\ S \ T \in SUBSET Buffers
    BY <1>2, <2>1
  <2>3. PICK x \in S \ T : \A y \in S \ T : y <= x
    BY <2>2, GreatestOf
  <2>4. Above(x) \subseteq T
    <3>1. x \in Nat /\ \A y \in S : y \in Nat
      BY <2>3, BuffersNat
    <3>2. \A y \in S : y > x => y \in T
      BY <2>3, <3>1
    <3>3. QED BY <3>2
  <2>5. Cardinality(Above(x)) <= Cardinality(T)
    BY <1>4, <2>4, FS_Subset
  <2>6. ~(Cardinality(Above(x)) < count) /\ Cardinality(Above(x)) \in Nat
    BY <1>1, <1>3, <2>3
  <2>7. QED BY <1>4, <1>5, <2>5, <2>6
<1>7. QED BY <1>2, <1>5, <1>6 DEF T

\* A request keeps as many buffers as its service needs, if the sender had all.
LEMMA KeptCount ==
    ASSUME NEW S \in SUBSET Buffers, NEW need \in 0..Provide, Cardinality(S) <= Provide,
           need > 0 => Cardinality(S) = Provide
    PROVE  Cardinality(S \ Largest(S, Provide - need)) = need
<1> DEFINE T == Largest(S, Provide - need)
<1>1. Provide \in Nat /\ Provide - need \in Nat
  BY BuffersAssumption
<1>2. T \subseteq S /\ Cardinality(T) <= Provide - need
      /\ (T = S \/ Cardinality(T) = Provide - need)
  BY <1>1, LargestCount
<1>3. IsFiniteSet(S) /\ IsFiniteSet(T) /\ Cardinality(S) \in Nat /\ Cardinality(T) \in Nat
  BY <1>2, BuffersFinite
<1> HIDE DEF T
<1>4. Cardinality(S \ T) = Cardinality(S) - Cardinality(T)
  <2>1. S \cap T = T
    BY <1>2
  <2>2. Cardinality(S \ T) = Cardinality(S) - Cardinality(S \cap T)
    BY <1>3, FS_Difference
  <2>3. QED BY <2>1, <2>2
<1>5. Cardinality(S) - Cardinality(T) = need
  <2>1. need \in Nat /\ need <= Provide
    BY <1>1
  <2>2. CASE T = S
    <3>1. need = 0
      <4>1. SUFFICES ASSUME need > 0 PROVE FALSE
        BY <2>1
      <4>2. Cardinality(S) = Provide
        BY <4>1
      <4>3. QED BY <1>1, <1>2, <2>1, <2>2, <4>1, <4>2
    <3>2. QED BY <1>3, <2>2, <3>1
  <2>3. CASE Cardinality(T) = Provide - need
    <3>1. CASE need > 0
      BY <1>1, <2>1, <2>3, <3>1
    <3>2. CASE need = 0
      <4>1. Cardinality(T) <= Cardinality(S)
        BY <1>2, <1>3, FS_Subset
      <4>2. QED BY <1>1, <1>3, <2>3, <3>2, <4>1
    <3>3. QED BY <2>1, <3>1, <3>2
  <2>4. QED BY <1>2, <2>2, <2>3
<1>6. QED BY <1>4, <1>5 DEF T

-----------------------------------------------------------------------------
(* The inductive invariant                                                 *)

Odd(o) == o \in odd
Busy(s) == state[s] # "idle"
InFifo(s) == \E i \in DOMAIN fifo : fifo[i] = s
Sending(s) == sender.pc = "sending" /\ sender.cur = s
Filling(s) == receiver.pc = "fill" /\ receiver.cur = s
Signalling(s) == receiver.pc = "signal" /\ receiver.cur = s

\* Where the threads are, and what follows from it.
PlacesInv ==
    /\ main # "run" <=> shouldTerminate
    /\ terminate => main # "run"
    /\ receiver.pc \in {"fill", "signal"} => receiver.cur \in All
    /\ receiver.pc = "fill" => state[receiver.cur] = "sent"
    /\ sender.pc = "sending" => sender.cur \in Services
    /\ sender.reply # NoService <=> sender.pc = "collect"
    /\ sender.pc # "wait" => sender.snap = {}
    /\ mutex = "sender" => sender.pc = "sending"
    /\ mutex = "main" => main = "sending"
    /\ main = "end" => sender.pc = "end" /\ receiver.pc = "end" /\ handler = "end"
    /\ \A s \in Services : handle[s] => client[s] \notin {"none", "connecting"}

\* The receiver and the handler of pxi:srv11 take turns.
TurnsInv ==
    /\ received => /\ receiver.pc = "answered" /\ handler \in {"wait", "end"}
                   /\ ~replySent /\ state[Srv11] = "from9"
    /\ replySent => /\ receiver.pc \in {"start", "answered"} /\ handler \in {"wait", "end"}
                    /\ state[Srv11] = "sent"
    /\ handler = "start" => receiver.pc = "start"
    /\ handler = "signal" => receiver.pc \in {"start", "answered"} /\ state[Srv11] = "sent"
    /\ handler \in {"work", "sending", "sent"} => receiver.pc = "answered"
    /\ handler = "work" => state[Srv11] = "from9"
    /\ receiver.pc = "answered" => received \/ replySent \/ handler \notin {"wait", "end", "start"}
    /\ receiver.pc \in {"wait", "read", "end", "fill"} => state[Srv11] = "sent"
    /\ receiver.pc = "signal" =>
         state[Srv11] = IF receiver.cur = Srv11 THEN "from9" ELSE "sent"

\* replySemaphore counts the sessions with an answer; once the module is told to end,
\* the answer to that order is not counted.
HaveAnswer(S) == {s \in S : state[s] = "from9"}
CountInv ==
    /\ ~shouldTerminate /\ ~panicked => Announced = Cardinality(HaveAnswer(Services))
    /\ main # "run" /\ ~Odd("inuse") /\ ~panicked =>
         replySem + (IF receiver.pc = "signal" /\ receiver.cur \in Services \ {Mc} THEN 1 ELSE 0)
           <= Cardinality(HaveAnswer(Services \ {Mc}))

\* A session that is open has the client that asked, one that is closed is idle.
HandleInv ==
    ~Odd("inuse") =>
        /\ main # "run" => ~handle[Mc]
        /\ \A s \in Services : main = "run" /\ ~handle[s] => ~Busy(s)
        /\ \A s \in Services : handle[s] /\ Busy(s) => client[s] \in {"waiting", "gone"}
        /\ \A s \in sender.snap : handle[s] /\ ~Busy(s)
        /\ sender.reply # NoService => /\ handle[sender.reply] /\ ~Busy(sender.reply)
                                       /\ client[sender.reply] \in {"waiting", "gone"}

\* Every buffer is in one place, and a request has those it needs.
BufferInv ==
    /\ sender.pc = "start" => provided = {} /\ free = Buffers
    /\ sender.pc = "start" => \A s \in Services : used[s] = {}
    /\ provided \cap free = {}
    /\ \A s \in Services : used[s] \cap (provided \cup free) = {}
    /\ \A s, t \in Services : s # t => used[s] \cap used[t] = {}
    /\ \A x \in Buffers : x \in provided \cup free \/ \E s \in Services : x \in used[s]
    /\ \A s \in Services : ~Busy(s) => used[s] = {}
    /\ ~Odd("short") => \A s \in Services : Busy(s) => Cardinality(used[s]) = Needs[s]

\* A request that Process9 has not answered is in one place, and its session in state sent.
TokenInv ==
    ~Odd("inuse") =>
        /\ \A s \in Services : Sending(s) \/ s \in at9 \/ InFifo(s) => state[s] = "sent"
        /\ \A s \in Services : /\ Sending(s) => s \notin at9 /\ ~InFifo(s) /\ ~Filling(s)
                               /\ s \in at9 => ~InFifo(s) /\ ~Filling(s)
                               /\ InFifo(s) => ~Filling(s)
        /\ \A i, j \in DOMAIN fifo : fifo[i] = fifo[j] /\ fifo[i] \in Services => i = j
        /\ main = "mark" => ~Busy(Mc)
        /\ main = "sending" => state[Mc] = "sent" /\ Mc \notin at9 /\ ~InFifo(Mc)
        /\ main \in {"mark", "sending"} => receiver.cur # Mc
        /\ main # "run" => ~Sending(Mc)

\* If Process9 publishes nothing after its answer to the order to end, pxi:srv11 is idle
\* when that answer is announced.
LastAnswer ==
    /\ terminate => main = "join" /\ Mc \notin at9
    /\ main = "join" /\ Mc \notin at9 =>
         \A j \in DOMAIN fifo : fifo[j] = Srv11 => \E i \in DOMAIN fifo : i > j /\ fifo[i] = Mc
    /\ (main = "join" /\ (Filling(Mc) \/ Signalling(Mc))) \/ terminate =>
         /\ Mc \notin at9 /\ ~InFifo(Srv11)
         /\ ~received /\ handler \notin {"work", "sending"}
         /\ ~Filling(Srv11) /\ ~Signalling(Srv11)

LastInv == ~Odd("inuse") /\ ~Odd("late") /\ main # "end" => LastAnswer

\* While Process9 sleeps only pxi:mc has a request, unless another crosses the order; and
\* pendingArm9Commands counts the requests while it does not.
UnderWay == {s \in Services : state[s] \in {"sent", "from9"}}
SleepRules ==
    /\ latest # 0 => pending = 0 /\ \A s \in Services \ {Mc} : ~Busy(s)
    /\ disabled => latest # 0
    /\ latest = 1 => disabled
    /\ main = "run" /\ latest = 2 /\ ~disabled => ~Busy(Mc)
    /\ main = "run" /\ latest = 0 /\ ~panicked => pending = Cardinality(UnderWay)
    /\ sender.pc \in {"wait", "collect"} =>
         \A s \in Services : handle[s] => state[s] # "from11"

SleepInv == ~Odd("inuse") /\ ~Odd("crossed") => SleepRules

Inv ==
    /\ TypeOK /\ PlacesInv /\ TurnsInv /\ CountInv /\ HandleInv /\ BufferInv
    /\ TokenInv /\ LastInv /\ SleepInv /\ NeverPanics

USE DEF sessionVars, bufferVars, sleepVars, eventVars, endVars, arm9Vars, vars,
        othersOfSender, othersOfReceiver, othersOfHandler, othersOfMain, othersOfClients, othersOf9

\* The next message is for one of the services.
LEMMA HeadOfFifo ==
    ASSUME TypeOK, fifo # <<>>
    PROVE  /\ Head(fifo) \in All /\ Head(fifo) = fifo[1] /\ 1 \in DOMAIN fifo
           /\ Tail(fifo) \in Seq(All)
BY DEF TypeOK

\* The fields of the sender.
LEMMA SenderFields ==
    ASSUME TypeOK
    PROVE  /\ sender.snap \subseteq Services
           /\ sender.reply \in Services \cup {NoService}
           /\ sender.cur \in Services \cup {NoService}
BY DEF TypeOK, SenderAt

\* Where the sender goes from the steps with several outcomes.
LEMMA CollectDoes ==
    ASSUME TypeOK, Collect
    PROVE  /\ sender.pc \in {"collect", "send"}
           /\ sender'.reply = NoService /\ sender'.cur = sender.cur
           /\ sender.reply = NoService =>
                /\ sender'.pc = "wait" /\ sender'.snap = Idle
                /\ UNCHANGED <<client, handle>>
           /\ sender.reply # NoService /\ client[sender.reply] = "gone" =>
                /\ sender'.pc = "send" /\ sender'.snap = sender.snap
                /\ handle' = [handle EXCEPT ![sender.reply] = FALSE]
                /\ client' = [client EXCEPT ![sender.reply] = "none"]
           /\ sender.reply # NoService /\ client[sender.reply] # "gone" =>
                /\ sender'.pc = "wait" /\ sender'.snap = Idle
                /\ client' = [client EXCEPT ![sender.reply] = "open"]
                /\ UNCHANGED handle
           /\ sender.pc = "send" => \A s \in Services : ~Sends(s)
           /\ UNCHANGED <<othersOfSender, bufferVars, sleepVars, state, command, newSession,
                          replySem, mutex, at9, panicked, odd>>
<1>1. sender \in SenderAt
  BY DEF TypeOK
<1>2. CASE sender.reply = NoService
  BY <1>1, <1>2 DEF Collect, SenderAt
<1>3. CASE sender.reply # NoService /\ client[sender.reply] = "gone"
  BY <1>1, <1>3 DEF Collect, SenderAt
<1>4. CASE sender.reply # NoService /\ client[sender.reply] # "gone"
  BY <1>1, <1>4 DEF Collect, SenderAt
<1>5. QED BY <1>2, <1>3, <1>4

\* The sender resumes where it is told, and no longer waits.
LEMMA ResumeGoes ==
    ASSUME TypeOK, NEW pc, NEW r, Resume(pc, r)
    PROVE  sender'.pc = pc /\ sender'.snap = {} /\ sender'.reply = r /\ sender'.cur = sender.cur
<1>1. sender \in SenderAt
  BY DEF TypeOK
<1>2. QED BY <1>1 DEF Resume, SenderAt

Panics(s) == state[s] # "from9" \/ (latest = 2 /\ pending # 0)

\* what the answers and the requests leave alone
othersOfBoth == <<othersOfSender, newSession, mutex, at9, handle, panicked>>

\* What an answer does when it does not panic.
LEMMA AnsweredDoes ==
    ASSUME TypeOK, NEW s \in Services, Answered(s), ~Panics(s)
    PROVE  /\ sender.pc = "wait" /\ sender'.snap = {} /\ sender'.cur = sender.cur
           /\ handle[s] => sender'.pc = "collect" /\ sender'.reply = s
           /\ ~handle[s] => sender'.pc = "send" /\ sender'.reply = NoService
           /\ replySem > 0 /\ replySem' = replySem - 1
           /\ state[s] = "from9" /\ state' = [state EXCEPT ![s] = "idle"]
           /\ free' = free \cup used[s] /\ used' = [used EXCEPT ![s] = {}]
           /\ disabled' = (disabled /\ latest # 2)
           /\ pending' = IF latest = 0 THEN pending - 1 ELSE pending
           /\ UNCHANGED <<othersOfBoth, command, provided, latest, client, odd>>
<1>1. Resume(IF handle[s] THEN "collect" ELSE "send", IF handle[s] THEN s ELSE NoService)
  BY DEF Answered, Panics
<1>2. /\ sender'.snap = {} /\ sender'.cur = sender.cur
      /\ handle[s] => sender'.pc = "collect" /\ sender'.reply = s
      /\ ~handle[s] => sender'.pc = "send" /\ sender'.reply = NoService
  BY <1>1, ResumeGoes
<1>3. QED BY <1>2 DEF Answered, Panics, Waiting, othersOfBoth

Kept(s) == provided \ Largest(provided, Provide - Needs[s])
Left(s) == free \cup (provided \ Kept(s))

\* What a request does when it does not panic.
LEMMA RequestDoes ==
    ASSUME TypeOK, NEW s \in Services, NEW c, Request(s, c), ~Busy(s), ~OutOfTurn(c)
    PROVE  /\ sender.pc = "wait" /\ s \in sender.snap
           /\ sender'.pc = "send" /\ sender'.snap = {} /\ sender'.cur = sender.cur
           /\ sender'.reply = NoService
           /\ latest' = CASE c = "plain" -> 0 [] c = "sleep" -> 1 [] c = "wake" -> 2
           /\ disabled' = (disabled \/ c = "sleep")
           /\ state[s] = "idle" /\ state' = [state EXCEPT ![s] = "from11"]
           /\ command' = [command EXCEPT ![s] = c]
           /\ client' = [client EXCEPT ![s] = "waiting"]
           /\ odd' = odd \cup (IF Crosses(c) THEN {"crossed"} ELSE {})
                         \cup (IF Short(s) THEN {"short"} ELSE {})
           /\ used' = [used EXCEPT ![s] = Kept(s)]
           /\ provided' = Largest(Left(s), Provide)
           /\ free' = Left(s) \ Largest(Left(s), Provide)
           /\ UNCHANGED <<othersOfBoth, pending, replySem>>
<1>1. Resume("send", NoService)
  BY DEF Request, Busy
<1>2. /\ sender'.pc = "send" /\ sender'.snap = {} /\ sender'.cur = sender.cur
      /\ sender'.reply = NoService
  BY <1>1, ResumeGoes
<1>3. QED BY <1>2 DEF Request, Busy, Waiting, Provision, Kept, Left, othersOfBoth

\* The threads stay where PlacesInv says.
LEMMA PlacesStep ==
    ASSUME TypeOK, PlacesInv, TurnsInv, [Next]_vars
    PROVE  PlacesInv'
<1>1. CASE UNCHANGED <<main, shouldTerminate, terminate, receiver, state, sender, mutex,
                        handler, handle, client>>
  BY <1>1 DEF PlacesInv, TypeOK, TurnsInv
<1>2. CASE SenderStart
  BY <1>2, ServicesAssumption DEF PlacesInv, TypeOK, TurnsInv, SenderStart
<1>3. ASSUME NEW s \in Services, Look(s) PROVE PlacesInv'
  BY <1>3, ServicesAssumption DEF PlacesInv, TypeOK, TurnsInv, Look, Sends
<1>4. CASE SenderLocks
  BY <1>4, ServicesAssumption DEF PlacesInv, TypeOK, TurnsInv, SenderLocks
<1>5. CASE SenderCancelled
  BY <1>5, ServicesAssumption DEF PlacesInv, TypeOK, TurnsInv, SenderCancelled
<1>6. CASE SenderSends
  BY <1>6, ServicesAssumption DEF PlacesInv, TypeOK, TurnsInv, SenderSends
<1>7. CASE Collect
  <2>1. CASE sender.reply = NoService
    BY <1>7, <2>1, CollectDoes, ServicesAssumption DEF PlacesInv, TypeOK, TurnsInv, Idle
  <2>2. CASE sender.reply # NoService /\ client[sender.reply] = "gone"
    BY <1>7, <2>2, CollectDoes, ServicesAssumption DEF PlacesInv, TypeOK, TurnsInv
  <2>3. CASE sender.reply # NoService /\ client[sender.reply] # "gone"
    BY <1>7, <2>3, CollectDoes, ServicesAssumption DEF PlacesInv, TypeOK, TurnsInv, Idle
  <2>4. QED BY <2>1, <2>2, <2>3
<1>8. CASE SenderEnds
  BY <1>8, ServicesAssumption DEF PlacesInv, TypeOK, TurnsInv, SenderEnds, Waiting, Resume
<1>9. CASE SenderHears
  BY <1>9, ServicesAssumption DEF PlacesInv, TypeOK, TurnsInv, SenderHears, Waiting, Resume
<1>10. ASSUME NEW s \in Services, Answered(s) PROVE PlacesInv'
  <2>1. CASE Panics(s)
    BY <1>10, <2>1, ServicesAssumption DEF Answered, Waiting, Panics, Panic, PlacesInv,
       TypeOK, TurnsInv
  <2>2. CASE ~Panics(s)
    BY <1>10, <2>2, AnsweredDoes, ServicesAssumption DEF othersOfBoth, PlacesInv, TypeOK, TurnsInv
  <2>3. QED BY <2>1, <2>2
<1>11. ASSUME NEW s \in Services, NEW c \in Requests(s), Request(s, c) PROVE PlacesInv'
  <2>1. CASE Busy(s) \/ OutOfTurn(c)
    BY <1>11, <2>1, ServicesAssumption DEF Request, Busy, Waiting, Panic, PlacesInv, TypeOK,
       TurnsInv
  <2>2. CASE ~Busy(s) /\ ~OutOfTurn(c)
    BY <1>11, <2>2, RequestDoes, ServicesAssumption DEF othersOfBoth, PlacesInv, TypeOK, TurnsInv
  <2>3. QED BY <2>1, <2>2
<1>12. ASSUME NEW s \in Services, Closed(s) PROVE PlacesInv'
  BY <1>12, ServicesAssumption DEF PlacesInv, TypeOK, TurnsInv, Closed, Waiting, Resume
<1>13. CASE ReceiverStart
  BY <1>13, ServicesAssumption DEF PlacesInv, TypeOK, TurnsInv, ReceiverStart
<1>14. CASE ReceiverHears
  BY <1>14, ServicesAssumption DEF PlacesInv, TypeOK, TurnsInv, ReceiverHears
<1>15. CASE ReceiverEnds
  BY <1>15, ServicesAssumption DEF PlacesInv, TypeOK, TurnsInv, ReceiverEnds
<1>16. CASE ReceiverReads
  <2> USE DEF ReceiverReads, TypeOK, ReceiverAt
  <2>1. CASE fifo = <<>>
    BY <1>16, <2>1, ServicesAssumption DEF PlacesInv, TurnsInv
  <2>2. CASE fifo # <<>>
    BY <1>16, <2>2, HeadOfFifo, ServicesAssumption DEF PlacesInv, TurnsInv
  <2>3. QED BY <2>1, <2>2
<1>17. CASE ReceiverFills
  BY <1>17, ServicesAssumption DEF PlacesInv, TypeOK, TurnsInv, ReceiverFills
<1>18. CASE ReceiverSignals
  BY <1>18, ServicesAssumption DEF PlacesInv, TypeOK, TurnsInv, ReceiverSignals
<1>19. CASE ReceiverResumes
  BY <1>19, ServicesAssumption DEF PlacesInv, TypeOK, TurnsInv, ReceiverResumes
<1>20. CASE HandlerStart
  BY <1>20, ServicesAssumption DEF PlacesInv, TypeOK, TurnsInv, HandlerStart
<1>21. CASE HandlerHears
  BY <1>21, ServicesAssumption DEF PlacesInv, TypeOK, TurnsInv, HandlerHears
<1>22. CASE HandlerWorks
  BY <1>22, ServicesAssumption DEF PlacesInv, TypeOK, TurnsInv, HandlerWorks
<1>23. CASE HandlerLocks
  BY <1>23, ServicesAssumption DEF PlacesInv, TypeOK, TurnsInv, HandlerLocks
<1>24. CASE HandlerSends
  BY <1>24, ServicesAssumption DEF PlacesInv, TypeOK, TurnsInv, HandlerSends
<1>25. CASE HandlerSent
  BY <1>25, ServicesAssumption DEF PlacesInv, TypeOK, TurnsInv, HandlerSent
<1>26. CASE HandlerSignals
  BY <1>26, ServicesAssumption DEF PlacesInv, TypeOK, TurnsInv, HandlerSignals
<1>27. ASSUME NEW s \in Services, Accept(s) PROVE PlacesInv'
  BY <1>27, ServicesAssumption DEF PlacesInv, TypeOK, TurnsInv, Accept
<1>28. CASE Told
  BY <1>28, ServicesAssumption DEF PlacesInv, TypeOK, TurnsInv, Told
<1>29. CASE MainMarks
  BY <1>29, ServicesAssumption DEF PlacesInv, TypeOK, TurnsInv, MainMarks
<1>30. CASE MainLocks
  BY <1>30, ServicesAssumption DEF PlacesInv, TypeOK, TurnsInv, MainLocks
<1>31. CASE MainSends
  BY <1>31, ServicesAssumption DEF PlacesInv, TypeOK, TurnsInv, MainSends
<1>32. CASE MainEnds
  BY <1>32, ServicesAssumption DEF PlacesInv, TypeOK, TurnsInv, MainEnds
<1>33. ASSUME NEW s \in Services, Connect(s) PROVE PlacesInv'
  BY <1>33, ServicesAssumption DEF PlacesInv, TypeOK, TurnsInv, Connect
<1>34. ASSUME NEW s \in Services, Ask(s) PROVE PlacesInv'
  BY <1>34, ServicesAssumption DEF PlacesInv, TypeOK, TurnsInv, Ask
<1>35. ASSUME NEW s \in Services, Dies(s) PROVE PlacesInv'
  BY <1>35, ServicesAssumption DEF PlacesInv, TypeOK, TurnsInv, Dies
<1>36. ASSUME NEW s \in Services,
                  \/ Answer(s) \/ AskPublish \/ TakesReply
     PROVE  UNCHANGED <<main, shouldTerminate, terminate, receiver, state, sender, mutex,
                        handler, handle, client>>
  BY <1>36 DEF Answer, AskPublish, TakesReply
<1>37. QED
  BY <1>1, <1>2, <1>3, <1>4, <1>5, <1>6, <1>7, <1>8, <1>9, <1>10, <1>11, <1>12, <1>13, <1>14,
     <1>15, <1>16, <1>17, <1>18, <1>19, <1>20, <1>21, <1>22, <1>23, <1>24, <1>25, <1>26, <1>27,
     <1>28, <1>29, <1>30, <1>31, <1>32, <1>33, <1>34, <1>35, <1>36, ServicesAssumption DEF Next,
     Sender, Receiver, Handler, MainThread, Process9, Clientele

\* The receiver and the handler go on taking turns.
LEMMA TurnsStep ==
    ASSUME TypeOK, PlacesInv, TurnsInv, [Next]_vars
    PROVE  TurnsInv'
<1>1. CASE UNCHANGED <<received, receiver, handler, replySent, state>>
  BY <1>1 DEF TurnsInv, TypeOK, PlacesInv
<1>2. ASSUME NEW s \in Services, Look(s) PROVE TurnsInv'
  BY <1>2, ServicesAssumption DEF TurnsInv, TypeOK, PlacesInv, Look, Sends
<1>3. ASSUME NEW s \in Services, Answered(s) PROVE TurnsInv'
  BY <1>3, ServicesAssumption DEF TurnsInv, TypeOK, PlacesInv, Answered, Waiting, Resume,
     IsFirst, Panic
<1>4. ASSUME NEW s \in Services, NEW c \in Requests(s), Request(s, c) PROVE TurnsInv'
  BY <1>4, ServicesAssumption DEF TurnsInv, TypeOK, PlacesInv, Request, Waiting, Resume, Panic,
     Provision, OutOfTurn
<1>5. CASE ReceiverStart
  BY <1>5, ServicesAssumption DEF TurnsInv, TypeOK, PlacesInv, ReceiverStart
<1>6. CASE ReceiverHears
  BY <1>6, ServicesAssumption DEF TurnsInv, TypeOK, PlacesInv, ReceiverHears
<1>7. CASE ReceiverEnds
  BY <1>7, ServicesAssumption DEF TurnsInv, TypeOK, PlacesInv, ReceiverEnds
<1>8. CASE ReceiverReads
  <2> USE DEF ReceiverReads, TypeOK, ReceiverAt
  <2>1. CASE fifo = <<>>
    BY <1>8, <2>1, ServicesAssumption DEF PlacesInv, TurnsInv
  <2>2. CASE fifo # <<>>
    BY <1>8, <2>2, HeadOfFifo, ServicesAssumption DEF PlacesInv, TurnsInv
  <2>3. QED BY <2>1, <2>2
<1>9. CASE ReceiverFills
  BY <1>9, ServicesAssumption DEF TurnsInv, TypeOK, PlacesInv, ReceiverFills
<1>10. CASE ReceiverSignals
  BY <1>10, ServicesAssumption DEF TurnsInv, TypeOK, PlacesInv, ReceiverAt, HandlerAt,
     ReceiverSignals
<1>11. CASE ReceiverResumes
  BY <1>11, ServicesAssumption DEF TurnsInv, TypeOK, PlacesInv, ReceiverResumes
<1>12. CASE HandlerStart
  BY <1>12, ServicesAssumption DEF TurnsInv, TypeOK, PlacesInv, HandlerStart
<1>13. CASE HandlerHears
  BY <1>13, ServicesAssumption DEF TurnsInv, TypeOK, PlacesInv, HandlerHears
<1>14. CASE HandlerWorks
  BY <1>14, ServicesAssumption DEF TurnsInv, TypeOK, PlacesInv, HandlerWorks
<1>15. CASE HandlerSends
  BY <1>15, ServicesAssumption DEF TurnsInv, TypeOK, PlacesInv, HandlerSends
<1>16. CASE HandlerSent
  BY <1>16, ServicesAssumption DEF TurnsInv, TypeOK, PlacesInv, HandlerSent
<1>17. CASE HandlerSignals
  BY <1>17, ServicesAssumption DEF TurnsInv, TypeOK, PlacesInv, HandlerSignals
<1>18. CASE MainMarks
  BY <1>18, ServicesAssumption DEF TurnsInv, TypeOK, PlacesInv, MainMarks
<1>19. ASSUME NEW s \in Services,
                  \/ SenderStart \/ SenderLocks \/ SenderCancelled \/ SenderSends \/ Collect
                  \/ SenderEnds \/ SenderHears \/ Closed(s) \/ HandlerLocks \/ Accept(s)
                  \/ Told \/ MainLocks \/ MainSends \/ MainEnds \/ Connect(s) \/ Ask(s)
                  \/ Dies(s) \/ Answer(s) \/ AskPublish \/ TakesReply
     PROVE  UNCHANGED <<received, receiver, handler, replySent, state>>
  BY <1>19 DEF SenderStart, SenderLocks, SenderCancelled, SenderSends, Collect, SenderEnds,
     SenderHears, Closed, HandlerLocks, Accept, Told, MainLocks, MainSends, MainEnds, Connect,
     Ask, Dies, Answer, AskPublish, TakesReply, Resume, Waiting
<1>20. QED
  BY <1>1, <1>2, <1>3, <1>4, <1>5, <1>6, <1>7, <1>8, <1>9, <1>10, <1>11, <1>12, <1>13, <1>14,
     <1>15, <1>16, <1>17, <1>18, <1>19, ServicesAssumption DEF Next, Sender, Receiver, Handler,
     MainThread, Process9, Clientele

\* Sessions keep their clients.
LEMMA HandleStep ==
    ASSUME TypeOK, PlacesInv, HandleInv, [Next]_vars
    PROVE  HandleInv'
<1>1. CASE UNCHANGED <<odd, main, handle, state, client, sender>>
  BY <1>1 DEF HandleInv, TypeOK, PlacesInv, Busy, Odd
<1>2. CASE SenderStart
  BY <1>2, ServicesAssumption, SenderFields DEF HandleInv, TypeOK, PlacesInv, Busy, Odd,
     SenderAt, SenderStart
<1>3. ASSUME NEW s \in Services, Look(s) PROVE HandleInv'
  BY <1>3, ServicesAssumption, SenderFields DEF HandleInv, TypeOK, PlacesInv, Busy, Odd,
     SenderAt, Look, Sends
<1>4. CASE SenderCancelled
  BY <1>4, ServicesAssumption, SenderFields DEF HandleInv, TypeOK, PlacesInv, Busy, Odd,
     SenderCancelled
<1>5. CASE SenderSends
  BY <1>5, ServicesAssumption, SenderFields DEF HandleInv, TypeOK, PlacesInv, Busy, Odd,
     SenderAt, SenderSends
<1>6. CASE Collect
  <2>1. CASE sender.reply = NoService
    BY <1>6, <2>1, CollectDoes, ServicesAssumption, SenderFields DEF HandleInv, TypeOK,
       PlacesInv, Busy, Odd, Idle
  <2>2. CASE sender.reply # NoService /\ client[sender.reply] = "gone"
    BY <1>6, <2>2, CollectDoes, ServicesAssumption, SenderFields DEF HandleInv, TypeOK,
       PlacesInv, Busy, Odd
  <2>3. CASE sender.reply # NoService /\ client[sender.reply] # "gone"
    BY <1>6, <2>3, CollectDoes, ServicesAssumption, SenderFields DEF HandleInv, TypeOK,
       PlacesInv, Busy, Odd, Idle
  <2>4. QED BY <2>1, <2>2, <2>3
<1>7. CASE SenderEnds
  <2>1. sender'.pc = "end" /\ sender'.snap = {} /\ sender'.reply = NoService
    BY <1>7, ResumeGoes DEF SenderEnds
  <2>2. QED BY <1>7, <2>1, ServicesAssumption DEF SenderEnds, Waiting, HandleInv, TypeOK,
               PlacesInv, Busy, Odd
<1>8. CASE SenderHears
  <2>1. sender'.pc = "send" /\ sender'.snap = {} /\ sender'.reply = NoService
    BY <1>8, ResumeGoes DEF SenderHears
  <2>2. QED BY <1>8, <2>1, ServicesAssumption DEF SenderHears, Waiting, HandleInv, TypeOK,
               PlacesInv, Busy, Odd
<1>9. ASSUME NEW s \in Services, Answered(s) PROVE HandleInv'
  <2>1. CASE Panics(s)
    BY <1>9, <2>1, ServicesAssumption, SenderFields DEF Answered, Waiting, Panics, Panic,
       HandleInv, TypeOK, PlacesInv, Busy, Odd
  <2>2. CASE ~Panics(s)
    BY <1>9, <2>2, AnsweredDoes, ServicesAssumption, SenderFields DEF othersOfBoth,
       HandleInv, TypeOK, PlacesInv, Busy, Odd
  <2>3. QED BY <2>1, <2>2
<1>10. ASSUME NEW s \in Services, NEW c \in Requests(s), Request(s, c) PROVE HandleInv'
  <2>1. CASE Busy(s) \/ OutOfTurn(c)
    BY <1>10, <2>1, ServicesAssumption, SenderFields DEF Request, Busy, Waiting, Panic,
       HandleInv, TypeOK, PlacesInv, Busy, Odd
  <2>2. CASE ~Busy(s) /\ ~OutOfTurn(c)
    BY <1>10, <2>2, RequestDoes, ServicesAssumption, SenderFields DEF othersOfBoth,
       HandleInv, TypeOK, PlacesInv, Busy, Odd
  <2>3. QED BY <2>1, <2>2
<1>11. ASSUME NEW s \in Services, Closed(s) PROVE HandleInv'
  <2>1. sender'.pc = "send" /\ sender'.snap = {} /\ sender'.reply = NoService
    BY <1>11, ResumeGoes DEF Closed
  <2>2. QED BY <1>11, <2>1, ServicesAssumption, SenderFields DEF Closed, Waiting, HandleInv,
               TypeOK, PlacesInv, Busy, Odd
<1>12. CASE ReceiverFills
  BY <1>12, ServicesAssumption, SenderFields DEF HandleInv, TypeOK, PlacesInv, Busy, Odd,
     ReceiverFills
<1>13. CASE HandlerStart
  BY <1>13, ServicesAssumption, SenderFields DEF HandleInv, TypeOK, PlacesInv, Busy, Odd,
     HandlerStart
<1>14. CASE HandlerWorks
  BY <1>14, ServicesAssumption, SenderFields DEF HandleInv, TypeOK, PlacesInv, Busy, Odd,
     HandlerWorks
<1>15. CASE HandlerSent
  BY <1>15, ServicesAssumption, SenderFields DEF HandleInv, TypeOK, PlacesInv, Busy, Odd,
     HandlerSent
<1>16. ASSUME NEW s \in Services, Accept(s) PROVE HandleInv'
  BY <1>16, ServicesAssumption, SenderFields DEF HandleInv, TypeOK, PlacesInv, Busy, Odd, Accept
<1>17. CASE Told
  BY <1>17, ServicesAssumption, SenderFields DEF HandleInv, TypeOK, PlacesInv, Busy, Odd, Told
<1>18. CASE MainMarks
  BY <1>18, ServicesAssumption, SenderFields DEF HandleInv, TypeOK, PlacesInv, Busy, Odd,
     MainMarks
<1>19. CASE MainSends
  BY <1>19, ServicesAssumption, SenderFields DEF HandleInv, TypeOK, PlacesInv, Busy, Odd,
     MainSends
<1>20. CASE MainEnds
  BY <1>20, ServicesAssumption, SenderFields DEF HandleInv, TypeOK, PlacesInv, Busy, Odd,
     MainEnds
<1>21. ASSUME NEW s \in Services, Connect(s) PROVE HandleInv'
  BY <1>21, ServicesAssumption, SenderFields DEF HandleInv, TypeOK, PlacesInv, Busy, Odd,
     Connect
<1>22. ASSUME NEW s \in Services, Ask(s) PROVE HandleInv'
  BY <1>22, ServicesAssumption, SenderFields DEF HandleInv, TypeOK, PlacesInv, Busy, Odd, Ask
<1>23. ASSUME NEW s \in Services, Dies(s) PROVE HandleInv'
  BY <1>23, ServicesAssumption, SenderFields DEF HandleInv, TypeOK, PlacesInv, Busy, Odd, Dies
<1>24. CASE AskPublish
  BY <1>24, ServicesAssumption, SenderFields DEF HandleInv, TypeOK, PlacesInv, Busy, Odd,
     AskPublish
<1>25. ASSUME NEW s \in Services,
                  \/ SenderLocks \/ ReceiverStart \/ ReceiverHears \/ ReceiverEnds
                  \/ ReceiverReads \/ ReceiverSignals \/ ReceiverResumes \/ HandlerHears
                  \/ HandlerLocks \/ HandlerSends \/ HandlerSignals \/ MainLocks \/ Answer(s)
                  \/ TakesReply
     PROVE  UNCHANGED <<odd, main, handle, state, client, sender>>
  BY <1>25 DEF SenderLocks, ReceiverStart, ReceiverHears, ReceiverEnds, ReceiverReads,
     ReceiverSignals, ReceiverResumes, HandlerHears, HandlerLocks, HandlerSends, HandlerSignals,
     MainLocks, Answer, TakesReply
<1>26. QED
  BY <1>1, <1>2, <1>3, <1>4, <1>5, <1>6, <1>7, <1>8, <1>9, <1>10, <1>11, <1>12, <1>13, <1>14,
     <1>15, <1>16, <1>17, <1>18, <1>19, <1>20, <1>21, <1>22, <1>23, <1>24, <1>25,
     ServicesAssumption DEF Next, Sender, Receiver, Handler, MainThread, Process9, Clientele

\* What reading the FIFO does.
LEMMA FifoRead ==
    ASSUME TypeOK, fifo # <<>>, fifo' = Tail(fifo)
    PROVE  /\ 1 \in DOMAIN fifo
           /\ \A i \in DOMAIN fifo' : /\ i \in Nat /\ i >= 1 /\ i + 1 \in DOMAIN fifo
                                      /\ fifo'[i] = fifo[i + 1]
           /\ \A i \in DOMAIN fifo : i > 1 => i - 1 \in DOMAIN fifo' /\ fifo'[i - 1] = fifo[i]
BY DEF TypeOK

\* What writing the FIFO does.
LEMMA FifoWritten ==
    ASSUME TypeOK, NEW x \in All, fifo' = Append(fifo, x)
    PROVE  /\ fifo' \in Seq(All)
           /\ DOMAIN fifo' = 1..(Len(fifo) + 1) /\ Len(fifo) \in Nat /\ DOMAIN fifo = 1..Len(fifo)
           /\ fifo'[Len(fifo) + 1] = x
           /\ \A i \in DOMAIN fifo : i \in DOMAIN fifo' /\ fifo'[i] = fifo[i]
           /\ \A i \in DOMAIN fifo' : i \in DOMAIN fifo \/ i = Len(fifo) + 1
BY DEF TypeOK

\* A request stays in one place.
LEMMA TokenStep ==
    ASSUME TypeOK, PlacesInv, HandleInv, TokenInv, [Next]_vars
    PROVE  TokenInv'
<1>1. CASE UNCHANGED <<odd, sender, at9, fifo, state, receiver, main>>
  BY <1>1 DEF TokenInv, TypeOK, PlacesInv, HandleInv, Busy, Odd, Sending, Filling, InFifo
<1>2. CASE SenderStart
  BY <1>2, ServicesAssumption, SenderFields DEF TokenInv, TypeOK, PlacesInv, HandleInv, Busy,
     Odd, Sending, Filling, InFifo, SenderAt, SenderStart
<1>3. ASSUME NEW s \in Services, Look(s) PROVE TokenInv'
  BY <1>3, ServicesAssumption, SenderFields DEF TokenInv, TypeOK, PlacesInv, HandleInv, Busy,
     Odd, Sending, Filling, InFifo, SenderAt, Look, Sends
<1>4. CASE SenderCancelled
  BY <1>4, ServicesAssumption, SenderFields DEF TokenInv, TypeOK, PlacesInv, HandleInv, Busy,
     Odd, Sending, Filling, InFifo, SenderCancelled
<1>5. CASE SenderSends
  BY <1>5, ServicesAssumption, SenderFields DEF TokenInv, TypeOK, PlacesInv, HandleInv, Busy,
     Odd, Sending, Filling, InFifo, SenderAt, SenderSends
<1>6. CASE Collect
  <2>1. CASE sender.reply = NoService
    BY <1>6, <2>1, CollectDoes, ServicesAssumption, SenderFields DEF TokenInv, TypeOK,
       PlacesInv, TurnsInv, HandleInv, Busy, Odd, Sending, Filling, InFifo
  <2>2. CASE sender.reply # NoService /\ client[sender.reply] = "gone"
    BY <1>6, <2>2, CollectDoes, ServicesAssumption, SenderFields DEF TokenInv, TypeOK,
       PlacesInv, TurnsInv, HandleInv, Busy, Odd, Sending, Filling, InFifo
  <2>3. CASE sender.reply # NoService /\ client[sender.reply] # "gone"
    BY <1>6, <2>3, CollectDoes, ServicesAssumption, SenderFields DEF TokenInv, TypeOK,
       PlacesInv, TurnsInv, HandleInv, Busy, Odd, Sending, Filling, InFifo
  <2>4. QED BY <2>1, <2>2, <2>3
<1>7. CASE SenderEnds
  <2>1. sender'.pc = "end" /\ sender'.snap = {} /\ sender'.reply = NoService
    BY <1>7, ResumeGoes DEF SenderEnds
  <2>2. QED BY <1>7, <2>1, ServicesAssumption DEF SenderEnds, Waiting, TokenInv, TypeOK,
               PlacesInv, TurnsInv, HandleInv, Busy, Odd, Sending, Filling, InFifo
<1>8. CASE SenderHears
  <2>1. sender'.pc = "send" /\ sender'.snap = {} /\ sender'.reply = NoService
    BY <1>8, ResumeGoes DEF SenderHears
  <2>2. QED BY <1>8, <2>1, ServicesAssumption DEF SenderHears, Waiting, TokenInv, TypeOK,
               PlacesInv, TurnsInv, HandleInv, Busy, Odd, Sending, Filling, InFifo
<1>9. ASSUME NEW s \in Services, Answered(s) PROVE TokenInv'
  <2>1. CASE Panics(s)
    BY <1>9, <2>1, ServicesAssumption, SenderFields DEF Answered, Waiting, Panics, Panic,
       TokenInv, TypeOK, PlacesInv, TurnsInv, HandleInv, Busy, Odd, Sending, Filling, InFifo
  <2>2. CASE ~Panics(s)
    BY <1>9, <2>2, AnsweredDoes, ServicesAssumption, SenderFields DEF othersOfBoth,
       TokenInv, TypeOK, PlacesInv, TurnsInv, HandleInv, Busy, Odd, Sending, Filling, InFifo
  <2>3. QED BY <2>1, <2>2
<1>10. ASSUME NEW s \in Services, NEW c \in Requests(s), Request(s, c) PROVE TokenInv'
  <2>1. CASE Busy(s) \/ OutOfTurn(c)
    BY <1>10, <2>1, ServicesAssumption, SenderFields DEF Request, Busy, Waiting, Panic,
       TokenInv, TypeOK, PlacesInv, TurnsInv, HandleInv, Busy, Odd, Sending, Filling, InFifo
  <2>2. CASE ~Busy(s) /\ ~OutOfTurn(c)
    BY <1>10, <2>2, RequestDoes, ServicesAssumption, SenderFields DEF othersOfBoth,
       TokenInv, TypeOK, PlacesInv, TurnsInv, HandleInv, Busy, Odd, Sending, Filling, InFifo
  <2>3. QED BY <2>1, <2>2
<1>11. ASSUME NEW s \in Services, Closed(s) PROVE TokenInv'
  <2>1. sender'.pc = "send" /\ sender'.snap = {} /\ sender'.reply = NoService
    BY <1>11, ResumeGoes DEF Closed
  <2>2. QED BY <1>11, <2>1, ServicesAssumption, SenderFields DEF Closed, Waiting, TokenInv,
               TypeOK, PlacesInv, TurnsInv, HandleInv, Busy, Odd, Sending, Filling, InFifo
<1>12. CASE ReceiverStart
  BY <1>12, ServicesAssumption, SenderFields DEF TokenInv, TypeOK, PlacesInv, HandleInv, Busy,
     Odd, Sending, Filling, InFifo, ReceiverStart
<1>13. CASE ReceiverHears
  BY <1>13, ServicesAssumption, SenderFields DEF TokenInv, TypeOK, PlacesInv, HandleInv, Busy,
     Odd, Sending, Filling, InFifo, ReceiverHears
<1>14. CASE ReceiverEnds
  BY <1>14, ServicesAssumption, SenderFields DEF TokenInv, TypeOK, PlacesInv, HandleInv, Busy,
     Odd, Sending, Filling, InFifo, ReceiverEnds
<1>15. CASE ReceiverReads
  BY <1>15, ServicesAssumption, SenderFields, HeadOfFifo, FifoRead DEF TokenInv, TypeOK,
     PlacesInv, HandleInv, Busy, Odd, Sending, Filling, InFifo, ReceiverAt, ReceiverReads
<1>16. CASE ReceiverFills
  BY <1>16, ServicesAssumption, SenderFields DEF TokenInv, TypeOK, PlacesInv, HandleInv, Busy,
     Odd, Sending, Filling, InFifo, ReceiverFills
<1>17. CASE ReceiverSignals
  BY <1>17, ServicesAssumption, SenderFields DEF TokenInv, TypeOK, PlacesInv, HandleInv, Busy,
     Odd, Sending, Filling, InFifo, ReceiverSignals
<1>18. CASE ReceiverResumes
  BY <1>18, ServicesAssumption, SenderFields DEF TokenInv, TypeOK, PlacesInv, HandleInv, Busy,
     Odd, Sending, Filling, InFifo, ReceiverResumes
<1>19. CASE HandlerStart
  BY <1>19, ServicesAssumption, SenderFields DEF TokenInv, TypeOK, PlacesInv, HandleInv, Busy,
     Odd, Sending, Filling, InFifo, HandlerStart
<1>20. CASE HandlerWorks
  BY <1>20, ServicesAssumption, SenderFields DEF TokenInv, TypeOK, PlacesInv, HandleInv, Busy,
     Odd, Sending, Filling, InFifo, HandlerWorks
<1>21. CASE HandlerSends
  BY <1>21, ServicesAssumption, SenderFields DEF TokenInv, TypeOK, PlacesInv, HandleInv, Busy,
     Odd, Sending, Filling, InFifo, HandlerSends
<1>22. CASE HandlerSent
  BY <1>22, ServicesAssumption, SenderFields DEF TokenInv, TypeOK, PlacesInv, HandleInv, Busy,
     Odd, Sending, Filling, InFifo, HandlerSent
<1>23. CASE Told
  BY <1>23, ServicesAssumption, SenderFields DEF TokenInv, TypeOK, PlacesInv, HandleInv, Busy,
     Odd, Sending, Filling, InFifo, Told
<1>24. CASE MainMarks
  BY <1>24, ServicesAssumption, SenderFields DEF TokenInv, TypeOK, PlacesInv, HandleInv, Busy,
     Odd, Sending, Filling, InFifo, MainMarks
<1>25. CASE MainSends
  BY <1>25, ServicesAssumption, SenderFields DEF TokenInv, TypeOK, PlacesInv, HandleInv, Busy,
     Odd, Sending, Filling, InFifo, MainSends
<1>26. CASE MainEnds
  BY <1>26, ServicesAssumption, SenderFields DEF TokenInv, TypeOK, PlacesInv, HandleInv, Busy,
     Odd, Sending, Filling, InFifo, MainEnds
<1>27. ASSUME NEW s \in Services, Answer(s) PROVE TokenInv'
  BY <1>27, ServicesAssumption, SenderFields, FifoWritten DEF TokenInv, TypeOK, PlacesInv,
     HandleInv, Busy, Odd, Sending, Filling, InFifo, Answer
<1>28. CASE AskPublish
  BY <1>28, ServicesAssumption, SenderFields, FifoWritten DEF TokenInv, TypeOK, PlacesInv,
     HandleInv, Busy, Odd, Sending, Filling, InFifo, AskPublish
<1>29. CASE TakesReply
  BY <1>29, ServicesAssumption, SenderFields DEF TokenInv, TypeOK, PlacesInv, HandleInv, Busy,
     Odd, Sending, Filling, InFifo, TakesReply
<1>30. ASSUME NEW s \in Services,
                  \/ SenderLocks \/ HandlerHears \/ HandlerLocks \/ HandlerSignals
                  \/ Accept(s) \/ MainLocks \/ Connect(s) \/ Ask(s) \/ Dies(s)
     PROVE  UNCHANGED <<odd, sender, at9, fifo, state, receiver, main>>
  BY <1>30 DEF SenderLocks, HandlerHears, HandlerLocks, HandlerSignals, Accept, MainLocks,
     Connect, Ask, Dies
<1>31. QED
  BY <1>1, <1>2, <1>3, <1>4, <1>5, <1>6, <1>7, <1>8, <1>9, <1>10, <1>11, <1>12, <1>13, <1>14,
     <1>15, <1>16, <1>17, <1>18, <1>19, <1>20, <1>21, <1>22, <1>23, <1>24, <1>25, <1>26, <1>27,
     <1>28, <1>29, <1>30, ServicesAssumption DEF Next, Sender, Receiver, Handler, MainThread,
     Process9, Clientele

\* The answer to the order to end comes after all notifications.
LEMMA LastStep ==
    ASSUME TypeOK, PlacesInv, TurnsInv, TokenInv, LastInv, [Next]_vars
    PROVE  LastInv'
<1>1. CASE UNCHANGED <<odd, main, terminate, at9, fifo, receiver, received, handler>>
  BY <1>1 DEF LastInv, LastAnswer, TypeOK, PlacesInv, TurnsInv, TokenInv, Busy, Odd,
     Sending, Filling, Signalling, InFifo
<1>2. CASE SenderSends
  BY <1>2, ServicesAssumption DEF LastInv, LastAnswer, TypeOK, PlacesInv, TurnsInv, TokenInv,
     Busy, Odd, Sending, Filling, Signalling, InFifo, SenderAt, SenderSends
<1>3. ASSUME NEW s \in Services, NEW c \in Requests(s), Request(s, c) PROVE LastInv'
  <2>1. CASE Busy(s) \/ OutOfTurn(c)
    BY <1>3, <2>1, ServicesAssumption DEF Request, Busy, Waiting, Panic, LastInv,
       LastAnswer, TypeOK, PlacesInv, TurnsInv, TokenInv, Busy, Odd, Sending, Filling,
       InFifo, Signalling
  <2>2. CASE ~Busy(s) /\ ~OutOfTurn(c)
    BY <1>3, <2>2, RequestDoes, ServicesAssumption DEF othersOfBoth, LastInv, LastAnswer,
       TypeOK, PlacesInv, TurnsInv, TokenInv, Busy, Odd, Sending, Filling, InFifo,
       Signalling
  <2>3. QED BY <2>1, <2>2
<1>4. CASE ReceiverStart
  BY <1>4, ServicesAssumption DEF LastInv, LastAnswer, TypeOK, PlacesInv, TurnsInv, TokenInv,
     Busy, Odd, Sending, Filling, Signalling, InFifo, ReceiverStart
<1>5. CASE ReceiverHears
  BY <1>5, ServicesAssumption DEF LastInv, LastAnswer, TypeOK, PlacesInv, TurnsInv, TokenInv,
     Busy, Odd, Sending, Filling, Signalling, InFifo, ReceiverHears
<1>6. CASE ReceiverEnds
  BY <1>6, ServicesAssumption DEF LastInv, LastAnswer, TypeOK, PlacesInv, TurnsInv, TokenInv,
     Busy, Odd, Sending, Filling, Signalling, InFifo, ReceiverEnds
<1>7. CASE ReceiverReads
  <2> SUFFICES ASSUME ~Odd("inuse"), ~Odd("late"), main # "end"
               PROVE  LastAnswer'
    BY <1>7 DEF LastInv, Odd, ReceiverReads
  <2>1. CASE fifo = <<>>
    <3>1. receiver.pc = "read" /\ receiver'.pc = "wait" /\ UNCHANGED fifo
      BY <1>7, <2>1 DEF ReceiverReads, TypeOK, ReceiverAt
    <3>2. UNCHANGED <<main, at9, terminate, received, handler>>
      BY <1>7 DEF ReceiverReads
    <3>3. LastAnswer
      BY DEF LastInv
    <3>4. QED BY <3>1, <3>2, <3>3 DEF LastAnswer, Filling, Signalling, InFifo
  <2>2. CASE fifo # <<>>
    <3>1. /\ fifo' = Tail(fifo) /\ state[Head(fifo)] = "sent"
          /\ receiver.pc = "read" /\ receiver' = [pc |-> "fill", cur |-> Head(fifo)]
          /\ UNCHANGED <<main, at9, terminate, received, handler, odd>>
      <4>1. Head(fifo) \in All /\ Head(fifo) = fifo[1] /\ 1 \in DOMAIN fifo
        BY <2>2, HeadOfFifo
      <4>2. state[Head(fifo)] = "sent"
        BY <1>7, <4>1 DEF ReceiverReads, TokenInv, TurnsInv, InFifo, Odd
      <4>3. QED BY <1>7, <2>2, <4>2 DEF ReceiverReads
    <3>2. /\ 1 \in DOMAIN fifo /\ Head(fifo) = fifo[1]
          /\ \A i \in DOMAIN fifo' : /\ i \in Nat /\ i >= 1 /\ i + 1 \in DOMAIN fifo
                                     /\ fifo'[i] = fifo[i + 1]
          /\ \A i \in DOMAIN fifo : i > 1 => i - 1 \in DOMAIN fifo' /\ fifo'[i - 1] = fifo[i]
      BY <2>2, <3>1, FifoRead, HeadOfFifo
    <3>3. ~received /\ handler \notin {"work", "sending"}
      BY <3>1 DEF TurnsInv
    <3>4. \A s \in All : InFifo(s)' => InFifo(s)
      BY <3>2 DEF InFifo
    <3>5. CASE terminate
      BY <3>1, <3>2, <3>3, <3>4, <3>5 DEF LastInv, LastAnswer, Odd, Filling, Signalling, InFifo
    <3>6. CASE ~terminate
      <4>1. ASSUME main = "join", Head(fifo) = Mc
            PROVE  Mc \notin at9 /\ ~InFifo(Srv11)'
        <5>1. Mc \notin at9
          BY <3>2, <4>1, ServicesAssumption DEF TokenInv, Odd, InFifo
        <5>2. SUFFICES ASSUME NEW j \in DOMAIN fifo', fifo'[j] = Srv11 PROVE FALSE
          BY <5>1 DEF InFifo
        <5>3. PICK i \in DOMAIN fifo : i > j + 1 /\ fifo[i] = Mc
          BY <3>2, <4>1, <5>1, <5>2 DEF LastInv, LastAnswer, Odd
        <5>4. i = 1
          BY <3>2, <4>1, <5>3, ServicesAssumption DEF TokenInv, Odd
        <5>5. QED BY <3>2, <5>3, <5>4
      <4>2. ASSUME main = "join", Mc \notin at9, NEW j \in DOMAIN fifo', fifo'[j] = Srv11
            PROVE  \E i \in DOMAIN fifo' : i > j /\ fifo'[i] = Mc
        <5>1. PICK i \in DOMAIN fifo : i > j + 1 /\ fifo[i] = Mc
          BY <3>2, <4>2 DEF LastInv, LastAnswer, Odd
        <5>2. i \in Nat /\ j \in Nat
          BY <3>2 DEF TypeOK
        <5>3. i - 1 > j /\ i - 1 \in DOMAIN fifo' /\ fifo'[i - 1] = Mc
          BY <3>2, <5>1, <5>2
        <5>4. QED BY <5>3
      <4>3. QED
        BY <3>1, <3>3, <3>6, <4>1, <4>2, ServicesAssumption
           DEF LastInv, LastAnswer, Odd, Filling, Signalling, InFifo
    <3>7. QED BY <3>5, <3>6
  <2>3. QED BY <2>1, <2>2
<1>8. CASE ReceiverFills
  BY <1>8, ServicesAssumption DEF LastInv, LastAnswer, TypeOK, PlacesInv, TurnsInv, TokenInv,
     Busy, Odd, Sending, Filling, Signalling, InFifo, ReceiverFills
<1>9. CASE ReceiverSignals
  <2> USE DEF ReceiverSignals, TypeOK, ReceiverAt, HandlerAt
  <2> SUFFICES ASSUME ~Odd("inuse"), ~Odd("late"), main # "end"
               PROVE  LastAnswer'
    BY <1>9 DEF LastInv, Odd
  <2>1. LastAnswer
    BY DEF LastInv
  <2>2. UNCHANGED <<main, at9, fifo, handler>> /\ ~Filling(Srv11)' /\ ~Filling(Mc)'
    BY <1>9 DEF Filling
  <2>3. CASE receiver.cur = Srv11
    BY <1>9, <2>1, <2>2, <2>3, ServicesAssumption DEF LastAnswer, Filling, Signalling, InFifo
  <2>4. CASE receiver.cur = Mc /\ shouldTerminate
    <3>1. main = "join"
      BY <1>9, <2>4 DEF TokenInv, PlacesInv, Odd, MainAt
    <3>2. receiver'.pc = "read" /\ terminate' /\ UNCHANGED received
      BY <1>9, <2>4, ServicesAssumption
    <3>3. Signalling(Mc)
      BY <1>9, <2>4 DEF Signalling
    <3>4. QED BY <2>1, <2>2, <3>1, <3>2, <3>3 DEF LastAnswer, Filling, Signalling, InFifo
  <2>5. CASE receiver.cur # Srv11 /\ ~(receiver.cur = Mc /\ shouldTerminate)
    <3>1. receiver'.pc = "read" /\ UNCHANGED <<received, terminate>>
      BY <1>9, <2>5
    <3>2. QED BY <2>1, <2>2, <3>1 DEF LastAnswer, Filling, Signalling, InFifo
  <2>6. QED BY <2>3, <2>4, <2>5
<1>10. CASE ReceiverResumes
  BY <1>10, ServicesAssumption DEF LastInv, LastAnswer, TypeOK, PlacesInv, TurnsInv, TokenInv,
     Busy, Odd, Sending, Filling, Signalling, InFifo, ReceiverResumes
<1>11. CASE HandlerStart
  BY <1>11, ServicesAssumption DEF LastInv, LastAnswer, TypeOK, PlacesInv, TurnsInv, TokenInv,
     Busy, Odd, Sending, Filling, Signalling, InFifo, HandlerStart
<1>12. CASE HandlerHears
  BY <1>12, ServicesAssumption DEF LastInv, LastAnswer, TypeOK, PlacesInv, TurnsInv, TokenInv,
     Busy, Odd, Sending, Filling, Signalling, InFifo, HandlerAt, HandlerHears
<1>13. CASE HandlerWorks
  BY <1>13, ServicesAssumption DEF LastInv, LastAnswer, TypeOK, PlacesInv, TurnsInv, TokenInv,
     Busy, Odd, Sending, Filling, Signalling, InFifo, HandlerAt, HandlerWorks
<1>14. CASE HandlerSends
  BY <1>14, ServicesAssumption DEF LastInv, LastAnswer, TypeOK, PlacesInv, TurnsInv, TokenInv,
     Busy, Odd, Sending, Filling, Signalling, InFifo, HandlerSends
<1>15. CASE HandlerSent
  BY <1>15, ServicesAssumption DEF LastInv, LastAnswer, TypeOK, PlacesInv, TurnsInv, TokenInv,
     Busy, Odd, Sending, Filling, Signalling, InFifo, HandlerSent
<1>16. CASE HandlerSignals
  BY <1>16, ServicesAssumption DEF LastInv, LastAnswer, TypeOK, PlacesInv, TurnsInv, TokenInv,
     Busy, Odd, Sending, Filling, Signalling, InFifo, HandlerSignals
<1>17. CASE Told
  BY <1>17, ServicesAssumption DEF LastInv, LastAnswer, TypeOK, PlacesInv, TurnsInv, TokenInv,
     Busy, Odd, Sending, Filling, Signalling, InFifo, Told
<1>18. CASE MainMarks
  BY <1>18, ServicesAssumption DEF LastInv, LastAnswer, TypeOK, PlacesInv, TurnsInv, TokenInv,
     Busy, Odd, Sending, Filling, Signalling, InFifo, MainMarks
<1>19. CASE MainSends
  BY <1>19, ServicesAssumption DEF LastInv, LastAnswer, TypeOK, PlacesInv, TurnsInv, TokenInv,
     Busy, Odd, Sending, Filling, Signalling, InFifo, MainSends
<1>20. CASE MainEnds
  BY <1>20, ServicesAssumption DEF LastInv, LastAnswer, TypeOK, PlacesInv, TurnsInv, TokenInv,
     Busy, Odd, Sending, Filling, Signalling, InFifo, MainEnds
<1>21. ASSUME NEW s \in Services, Answer(s) PROVE LastInv'
  BY <1>21, ServicesAssumption, FifoWritten DEF LastInv, LastAnswer, TypeOK, PlacesInv,
     TurnsInv, TokenInv, Busy, Odd, Sending, Filling, Signalling, InFifo, Answer
<1>22. CASE AskPublish
  BY <1>22, ServicesAssumption, FifoWritten DEF LastInv, LastAnswer, TypeOK, PlacesInv,
     TurnsInv, TokenInv, Busy, Odd, Sending, Filling, Signalling, InFifo, AskPublish
<1>23. CASE TakesReply
  BY <1>23, ServicesAssumption DEF LastInv, LastAnswer, TypeOK, PlacesInv, TurnsInv, TokenInv,
     Busy, Odd, Sending, Filling, Signalling, InFifo, TakesReply
<1>24. ASSUME NEW s \in Services,
                  \/ SenderStart \/ Look(s) \/ SenderLocks \/ SenderCancelled \/ Collect
                  \/ SenderEnds \/ SenderHears \/ Answered(s) \/ Closed(s) \/ HandlerLocks
                  \/ Accept(s) \/ MainLocks \/ Connect(s) \/ Ask(s) \/ Dies(s)
     PROVE  UNCHANGED <<odd, main, terminate, at9, fifo, receiver, received, handler>>
  BY <1>24 DEF SenderStart, Look, SenderLocks, SenderCancelled, Collect, SenderEnds,
     SenderHears, Answered, Closed, HandlerLocks, Accept, MainLocks, Connect, Ask, Dies,
     IsFirst, Panic, Resume, Sends, Waiting
<1>25. QED
  BY <1>1, <1>2, <1>3, <1>4, <1>5, <1>6, <1>7, <1>8, <1>9, <1>10, <1>11, <1>12, <1>13, <1>14,
     <1>15, <1>16, <1>17, <1>18, <1>19, <1>20, <1>21, <1>22, <1>23, <1>24, ServicesAssumption
     DEF Next, Sender, Receiver, Handler, MainThread, Process9, Clientele

\* One session more or less under way, or with an answer.
LEMMA UnderWayCount ==
    ASSUME TypeOK, NEW s \in Services
    PROVE  /\ IsFiniteSet(UnderWay) /\ Cardinality(UnderWay) \in Nat
           /\ s \notin UnderWay => Cardinality(UnderWay \cup {s}) = Cardinality(UnderWay) + 1
           /\ s \in UnderWay => Cardinality(UnderWay \ {s}) = Cardinality(UnderWay) - 1
<1>1. IsFiniteSet(UnderWay)
  <2>1. UnderWay \subseteq Services
    BY DEF UnderWay
  <2>2. QED BY <2>1, FS_Subset, ServicesAssumption
<1>2. QED BY <1>1, FS_CardinalityType, FS_AddElement, FS_RemoveElement

\* One session more or less with an answer.
LEMMA AnswerCount ==
    ASSUME TypeOK, NEW S \in SUBSET Services
    PROVE  /\ IsFiniteSet(HaveAnswer(S)) /\ Cardinality(HaveAnswer(S)) \in Nat
           /\ \A s \in Services \ HaveAnswer(S) :
                Cardinality(HaveAnswer(S) \cup {s}) = Cardinality(HaveAnswer(S)) + 1
           /\ \A s \in HaveAnswer(S) :
                Cardinality(HaveAnswer(S) \ {s}) = Cardinality(HaveAnswer(S)) - 1
<1>1. IsFiniteSet(HaveAnswer(S))
  <2>1. HaveAnswer(S) \subseteq S /\ IsFiniteSet(S)
    BY FS_Subset, ServicesAssumption DEF HaveAnswer
  <2>2. QED BY <2>1, FS_Subset
<1>2. QED BY <1>1, FS_CardinalityType, FS_AddElement, FS_RemoveElement

\* What is counted changes only with the answers.
LEMMA SameAnswers ==
    ASSUME \A s \in Services : state'[s] = "from9" <=> state[s] = "from9"
    PROVE  /\ HaveAnswer(Services)' = HaveAnswer(Services)
           /\ HaveAnswer(Services \ {Mc})' = HaveAnswer(Services \ {Mc})
BY DEF HaveAnswer

\* The semaphore goes on counting the answers.
LEMMA CountStep ==
    ASSUME TypeOK, PlacesInv, CountInv, [Next]_vars
    PROVE  CountInv'
<1>1. CASE UNCHANGED <<odd, shouldTerminate, main, panicked, replySem, receiver, state>>
  BY <1>1 DEF CountInv, Announced, HaveAnswer, PlacesInv, Odd
<1>2. ASSUME NEW s \in Services, Look(s) PROVE CountInv'
  <2>1. \A x \in Services : state'[x] = "from9" <=> state[x] = "from9"
    BY <1>2, ServicesAssumption DEF Look, TypeOK, Sends
  <2>2. /\ HaveAnswer(Services)' = HaveAnswer(Services)
        /\ HaveAnswer(Services \ {Mc})' = HaveAnswer(Services \ {Mc})
    BY <2>1, SameAnswers
  <2>3. UNCHANGED <<replySem, receiver, main, shouldTerminate, odd>> /\ (panicked => panicked')
    BY <1>2 DEF Look
  <2>4. QED BY <2>2, <2>3 DEF CountInv, Announced, Odd
<1>3. ASSUME NEW s \in Services, Answered(s) PROVE CountInv'
  <2>1. CASE Panics(s)
    BY <1>3, <2>1 DEF Answered, Panics, Panic, CountInv
  <2>2. CASE ~Panics(s)
    <3>1. /\ replySem > 0 /\ replySem' = replySem - 1
          /\ state[s] = "from9" /\ state' = [state EXCEPT ![s] = "idle"]
          /\ UNCHANGED <<receiver, main, shouldTerminate, odd, panicked>>
      BY <1>3, <2>2, AnsweredDoes DEF othersOfBoth
    <3>2. HaveAnswer(Services)' = HaveAnswer(Services) \ {s} /\ s \in HaveAnswer(Services)
      BY <1>3, <3>1 DEF HaveAnswer, TypeOK
    <3>3. CASE s = Mc
      <4>1. HaveAnswer(Services \ {Mc})' = HaveAnswer(Services \ {Mc})
        BY <3>1, <3>3 DEF HaveAnswer, TypeOK
      <4>2. Cardinality(HaveAnswer(Services) \ {s}) = Cardinality(HaveAnswer(Services)) - 1
        BY <3>2, AnswerCount
      <4>3. Cardinality(HaveAnswer(Services \ {Mc})) \in Nat /\ Cardinality(HaveAnswer(Services)) \in Nat
        BY AnswerCount
      <4>4. QED BY <3>1, <3>2, <4>1, <4>2, <4>3 DEF CountInv, Announced, TypeOK, Odd
    <3>4. CASE s # Mc
      <4>1. /\ HaveAnswer(Services \ {Mc})' = HaveAnswer(Services \ {Mc}) \ {s}
            /\ s \in HaveAnswer(Services \ {Mc})
        BY <1>3, <3>1, <3>4 DEF HaveAnswer, TypeOK
      <4>2. Cardinality(HaveAnswer(Services) \ {s}) = Cardinality(HaveAnswer(Services)) - 1
        BY <3>2, AnswerCount
      <4>3. Cardinality(HaveAnswer(Services \ {Mc}) \ {s}) = Cardinality(HaveAnswer(Services \ {Mc})) - 1
        BY <4>1, AnswerCount
      <4>4. Cardinality(HaveAnswer(Services \ {Mc})) \in Nat /\ Cardinality(HaveAnswer(Services)) \in Nat
        BY AnswerCount
      <4>5. /\ Cardinality(HaveAnswer(Services))' = Cardinality(HaveAnswer(Services)) - 1
            /\ Cardinality(HaveAnswer(Services \ {Mc}))' = Cardinality(HaveAnswer(Services \ {Mc})) - 1
        BY <3>2, <4>1, <4>2, <4>3
      <4>6. replySem \in Nat
        BY DEF TypeOK
      <4>7. QED BY <3>1, <4>4, <4>5, <4>6 DEF CountInv, Announced, Odd
    <3>5. QED BY <3>3, <3>4
  <2>3. QED BY <2>1, <2>2
<1>4. ASSUME NEW s \in Services, NEW c \in Requests(s), Request(s, c) PROVE CountInv'
  <2>1. CASE Busy(s) \/ OutOfTurn(c)
    BY <1>4, <2>1 DEF Request, Busy, Panic, CountInv
  <2>2. CASE ~Busy(s) /\ ~OutOfTurn(c)
    <3>1. /\ state[s] = "idle" /\ state' = [state EXCEPT ![s] = "from11"]
          /\ UNCHANGED <<receiver, main, shouldTerminate, panicked, replySem>>
          /\ Odd("inuse") => Odd("inuse")'
      BY <1>4, <2>2, RequestDoes DEF othersOfBoth, Odd
    <3>2. \A t \in Services : state'[t] = "from9" <=> state[t] = "from9"
      BY <1>4, <3>1 DEF TypeOK
    <3>3. /\ HaveAnswer(Services)' = HaveAnswer(Services)
          /\ HaveAnswer(Services \ {Mc})' = HaveAnswer(Services \ {Mc})
      BY <3>2, SameAnswers
    <3>4. QED BY <3>1, <3>3 DEF CountInv, Announced, Odd
  <2>3. QED BY <2>1, <2>2
<1>5. CASE ReceiverStart
  <2>1. CASE panicked'
    BY <2>1 DEF CountInv
  <2>2. CASE ~panicked'
    <3>1. /\ receiver.pc # "signal" /\ receiver'.pc # "signal" /\ ~panicked
          /\ UNCHANGED <<state, replySem, main, shouldTerminate, odd>>
      BY <1>5, <2>2 DEF ReceiverStart, TypeOK, ReceiverAt
    <3>2. QED BY <3>1 DEF CountInv, Announced, HaveAnswer, Odd
  <2>3. QED BY <2>1, <2>2
<1>6. CASE ReceiverHears
  <2>1. CASE panicked'
    BY <2>1 DEF CountInv
  <2>2. CASE ~panicked'
    <3>1. /\ receiver.pc # "signal" /\ receiver'.pc # "signal" /\ ~panicked
          /\ UNCHANGED <<state, replySem, main, shouldTerminate, odd>>
      BY <1>6, <2>2 DEF ReceiverHears, TypeOK, ReceiverAt
    <3>2. QED BY <3>1 DEF CountInv, Announced, HaveAnswer, Odd
  <2>3. QED BY <2>1, <2>2
<1>7. CASE ReceiverEnds
  <2>1. CASE panicked'
    BY <2>1 DEF CountInv
  <2>2. CASE ~panicked'
    <3>1. /\ receiver.pc # "signal" /\ receiver'.pc # "signal" /\ ~panicked
          /\ UNCHANGED <<state, replySem, main, shouldTerminate, odd>>
      BY <1>7, <2>2 DEF ReceiverEnds, TypeOK, ReceiverAt
    <3>2. QED BY <3>1 DEF CountInv, Announced, HaveAnswer, Odd
  <2>3. QED BY <2>1, <2>2
<1>8. CASE ReceiverReads
  <2>1. CASE panicked'
    BY <2>1 DEF CountInv
  <2>2. CASE ~panicked'
    <3>1. /\ receiver.pc # "signal" /\ receiver'.pc # "signal" /\ ~panicked
          /\ UNCHANGED <<state, replySem, main, shouldTerminate, odd>>
      BY <1>8, <2>2 DEF ReceiverReads, TypeOK, ReceiverAt
    <3>2. QED BY <3>1 DEF CountInv, Announced, HaveAnswer, Odd
  <2>3. QED BY <2>1, <2>2
<1>9. CASE ReceiverFills
  <2>1. /\ receiver.pc = "fill" /\ receiver'.pc = "signal" /\ receiver'.cur = receiver.cur
        /\ receiver.cur \in All /\ state[receiver.cur] = "sent"
        /\ state' = [state EXCEPT ![receiver.cur] = "from9"]
        /\ UNCHANGED <<replySem, main, shouldTerminate, odd, panicked>>
    BY <1>9 DEF ReceiverFills, PlacesInv, TypeOK, ReceiverAt
  <2>2. CASE receiver.cur = Srv11
    <3>1. \A s \in Services : state'[s] = "from9" <=> state[s] = "from9"
      BY <2>1, <2>2, ServicesAssumption DEF TypeOK
    <3>2. /\ HaveAnswer(Services)' = HaveAnswer(Services)
          /\ HaveAnswer(Services \ {Mc})' = HaveAnswer(Services \ {Mc})
      BY <3>1, SameAnswers
    <3>3. QED BY <2>1, <2>2, <3>2, ServicesAssumption DEF CountInv, Announced, Odd
  <2>3. CASE receiver.cur # Srv11
    <3>1. receiver.cur \in Services \ HaveAnswer(Services)
      BY <2>1, <2>3 DEF HaveAnswer
    <3>2. HaveAnswer(Services)' = HaveAnswer(Services) \cup {receiver.cur}
      BY <2>1, <3>1 DEF HaveAnswer, TypeOK
    <3>3. Cardinality(HaveAnswer(Services))' = Cardinality(HaveAnswer(Services)) + 1
      BY <3>1, <3>2, AnswerCount
    <3>4. CASE receiver.cur = Mc
      <4>1. HaveAnswer(Services \ {Mc})' = HaveAnswer(Services \ {Mc})
        BY <2>1, <3>4 DEF HaveAnswer, TypeOK
      <4>2. QED BY <2>1, <2>3, <3>3, <3>4, <4>1 DEF CountInv, Announced, TypeOK, Odd
    <3>5. CASE receiver.cur # Mc
      <4>1. /\ HaveAnswer(Services \ {Mc})' = HaveAnswer(Services \ {Mc}) \cup {receiver.cur}
            /\ receiver.cur \in Services \ HaveAnswer(Services \ {Mc})
        BY <2>1, <3>1, <3>5 DEF HaveAnswer, TypeOK
      <4>2. Cardinality(HaveAnswer(Services \ {Mc}))' = Cardinality(HaveAnswer(Services \ {Mc})) + 1
        BY <4>1, AnswerCount
      <4>3. Cardinality(HaveAnswer(Services \ {Mc})) \in Nat /\ Cardinality(HaveAnswer(Services)) \in Nat
        BY AnswerCount
      <4>4. QED BY <2>1, <2>3, <3>1, <3>3, <3>5, <4>2, <4>3 DEF CountInv, Announced, TypeOK, Odd
    <3>6. QED BY <3>4, <3>5
  <2>4. QED BY <2>2, <2>3
<1>10. CASE ReceiverSignals
  <2>1. /\ receiver.pc = "signal" /\ receiver.cur \in All
        /\ receiver' = IF receiver.cur = Srv11 THEN [receiver EXCEPT !.pc = "answered"]
                       ELSE [pc |-> "read", cur |-> NoService]
        /\ receiver'.pc # "signal"
        /\ UNCHANGED <<state, main, shouldTerminate, odd, panicked>>
    BY <1>10 DEF ReceiverSignals, PlacesInv, TypeOK, ReceiverAt
  <2>2. CASE receiver.cur = Mc /\ shouldTerminate
    <3>1. UNCHANGED replySem
      BY <1>10, <2>2, ServicesAssumption DEF ReceiverSignals
    <3>2. QED BY <2>1, <2>2, <3>1 DEF CountInv, Announced, HaveAnswer, TypeOK, Odd
  <2>3. CASE receiver.cur = Srv11
    <3>1. UNCHANGED replySem
      BY <1>10, <2>3, ServicesAssumption DEF ReceiverSignals
    <3>2. QED BY <2>1, <2>3, <3>1, ServicesAssumption DEF CountInv, Announced, HaveAnswer,
                 TypeOK, Odd
  <2>4. CASE receiver.cur # Srv11 /\ ~(receiver.cur = Mc /\ shouldTerminate)
    <3>1. replySem' = replySem + 1
      BY <1>10, <2>4 DEF ReceiverSignals
    <3>2. receiver.cur = Mc => main = "run"
      BY <2>4 DEF PlacesInv
    <3>3. QED BY <2>1, <2>4, <3>1, <3>2 DEF CountInv, Announced, HaveAnswer, TypeOK,
                 PlacesInv, Odd
  <2>5. QED BY <2>2, <2>3, <2>4
<1>11. CASE ReceiverResumes
  <2>1. CASE panicked'
    BY <2>1 DEF CountInv
  <2>2. CASE ~panicked'
    <3>1. /\ receiver.pc # "signal" /\ receiver'.pc # "signal" /\ ~panicked
          /\ UNCHANGED <<state, replySem, main, shouldTerminate, odd>>
      BY <1>11, <2>2 DEF ReceiverResumes, TypeOK, ReceiverAt
    <3>2. QED BY <3>1 DEF CountInv, Announced, HaveAnswer, Odd
  <2>3. QED BY <2>1, <2>2
<1>12. CASE HandlerStart
  <2>1. \A s \in Services : state'[s] = "from9" <=> state[s] = "from9"
    BY <1>12, ServicesAssumption DEF HandlerStart, TypeOK
  <2>2. /\ HaveAnswer(Services)' = HaveAnswer(Services)
        /\ HaveAnswer(Services \ {Mc})' = HaveAnswer(Services \ {Mc})
    BY <2>1, SameAnswers
  <2>3. UNCHANGED <<replySem, receiver, main, shouldTerminate, odd>> /\ (panicked => panicked')
    BY <1>12 DEF HandlerStart
  <2>4. QED BY <2>2, <2>3 DEF CountInv, Announced, Odd
<1>13. CASE HandlerWorks
  <2>1. \A s \in Services : state'[s] = "from9" <=> state[s] = "from9"
    BY <1>13, ServicesAssumption DEF HandlerWorks, TypeOK
  <2>2. /\ HaveAnswer(Services)' = HaveAnswer(Services)
        /\ HaveAnswer(Services \ {Mc})' = HaveAnswer(Services \ {Mc})
    BY <2>1, SameAnswers
  <2>3. UNCHANGED <<replySem, receiver, main, shouldTerminate, odd>> /\ (panicked => panicked')
    BY <1>13 DEF HandlerWorks
  <2>4. QED BY <2>2, <2>3 DEF CountInv, Announced, Odd
<1>14. CASE HandlerLocks
  BY <1>14, ServicesAssumption DEF CountInv, Announced, HaveAnswer, PlacesInv, Odd, HandlerLocks
<1>15. CASE HandlerSent
  <2>1. \A s \in Services : state'[s] = "from9" <=> state[s] = "from9"
    BY <1>15, ServicesAssumption DEF HandlerSent, TypeOK
  <2>2. /\ HaveAnswer(Services)' = HaveAnswer(Services)
        /\ HaveAnswer(Services \ {Mc})' = HaveAnswer(Services \ {Mc})
    BY <2>1, SameAnswers
  <2>3. UNCHANGED <<replySem, receiver, main, shouldTerminate, odd>> /\ (panicked => panicked')
    BY <1>15 DEF HandlerSent
  <2>4. QED BY <2>2, <2>3 DEF CountInv, Announced, Odd
<1>16. ASSUME NEW s \in Services, Accept(s) PROVE CountInv'
  BY <1>16, ServicesAssumption DEF CountInv, Announced, HaveAnswer, PlacesInv, Odd, Accept
<1>17. CASE Told
  <2>1. CASE Odd("inuse")'
    BY <1>17, <2>1 DEF Told, CountInv
  <2>2. CASE ~Odd("inuse")'
    <3>1. state[Mc] = "idle" /\ receiver.cur # Mc /\ ~shouldTerminate /\ shouldTerminate'
      BY <1>17, <2>2 DEF Told, Odd, PlacesInv
    <3>2. HaveAnswer(Services) = HaveAnswer(Services \ {Mc})
      BY <3>1 DEF HaveAnswer
    <3>3. UNCHANGED <<replySem, receiver, state, panicked>>
      BY <1>17 DEF Told
    <3>4. Cardinality(HaveAnswer(Services)) \in Nat
      BY AnswerCount
    <3>5. receiver.pc = "signal" => receiver.cur \in All
      BY DEF PlacesInv
    <3>6. Cardinality(HaveAnswer(Services \ {Mc}))' = Cardinality(HaveAnswer(Services))
      BY <3>2, <3>3 DEF HaveAnswer
    <3>7. replySem \in Nat
      BY DEF TypeOK
    <3>8. QED BY <3>1, <3>3, <3>4, <3>5, <3>6, <3>7, ServicesAssumption DEF CountInv, Announced
  <2>3. QED BY <2>1, <2>2
<1>18. CASE MainMarks
  <2>1. HaveAnswer(Services \ {Mc})' = HaveAnswer(Services \ {Mc})
    BY <1>18 DEF MainMarks, HaveAnswer, TypeOK
  <2>2. shouldTerminate /\ UNCHANGED <<replySem, receiver, shouldTerminate, odd, panicked>>
        /\ main # "run"
    BY <1>18 DEF MainMarks, PlacesInv
  <2>3. QED BY <2>1, <2>2 DEF CountInv, Announced, Odd
<1>19. CASE MainSends
  BY <1>19, ServicesAssumption DEF CountInv, Announced, HaveAnswer, PlacesInv, Odd, MainSends
<1>20. CASE MainEnds
  BY <1>20, ServicesAssumption DEF CountInv, Announced, HaveAnswer, PlacesInv, Odd, MainEnds
<1>21. CASE AskPublish
  BY <1>21, ServicesAssumption DEF CountInv, Announced, HaveAnswer, PlacesInv, Odd, AskPublish
<1>22. ASSUME NEW s \in Services,
                  \/ SenderStart \/ SenderLocks \/ SenderCancelled \/ SenderSends \/ Collect
                  \/ SenderEnds \/ SenderHears \/ Closed(s) \/ HandlerHears \/ HandlerSends
                  \/ HandlerSignals \/ MainLocks \/ Connect(s) \/ Ask(s) \/ Dies(s)
                  \/ Answer(s) \/ TakesReply
     PROVE  UNCHANGED <<odd, shouldTerminate, main, panicked, replySem, receiver, state>>
  BY <1>22 DEF SenderStart, SenderLocks, SenderCancelled, SenderSends, Collect, SenderEnds,
     SenderHears, Closed, HandlerHears, HandlerSends, HandlerSignals, MainLocks, Connect, Ask,
     Dies, Answer, TakesReply, Resume, Waiting
<1>23. QED
  BY <1>1, <1>2, <1>3, <1>4, <1>5, <1>6, <1>7, <1>8, <1>9, <1>10, <1>11, <1>12, <1>13, <1>14,
     <1>15, <1>16, <1>17, <1>18, <1>19, <1>20, <1>21, <1>22, ServicesAssumption DEF Next,
     Sender, Receiver, Handler, MainThread, Process9, Clientele

\* No buffer is lost or in two places.
LEMMA BufferStep ==
    ASSUME TypeOK, PlacesInv, BufferInv, [Next]_vars
    PROVE  BufferInv'
<1>1. CASE UNCHANGED <<sender, provided, free, used, state, odd>>
  BY <1>1 DEF BufferInv, Busy, Odd
<1>2. CASE SenderStart
  <2>1. /\ sender'.pc = "send" /\ UNCHANGED <<used, state, odd>> /\ sender.pc = "start"
        /\ provided' = Largest(Buffers, Provide) /\ free' = Buffers \ Largest(Buffers, Provide)
    BY <1>2 DEF SenderStart, Provision, TypeOK, SenderAt
  <2>2. Largest(Buffers, Provide) \subseteq Buffers
    BY LargestCount, BuffersAssumption
  <2>3. \A s \in Services : used[s] = {}
    BY <2>1 DEF BufferInv
  <2>4. QED BY <2>1, <2>2, <2>3 DEF BufferInv, Busy, Odd
<1>3. ASSUME NEW s \in Services, Look(s) PROVE BufferInv'
  <2>1. \A x \in Services : Busy(x)' <=> Busy(x)
    BY <1>3, ServicesAssumption DEF Look, TypeOK, Busy, Sends
  <2>2. UNCHANGED <<provided, free, used, odd>> /\ (sender'.pc = "start" => sender.pc = "start")
    BY <1>3 DEF Look, TypeOK, SenderAt, Waiting
  <2>3. QED BY <2>1, <2>2 DEF BufferInv, Odd
<1>4. CASE SenderCancelled
  <2>1. \A s \in Services : Busy(s)' <=> Busy(s)
    BY <1>4, ServicesAssumption DEF SenderCancelled, TypeOK, Busy
  <2>2. UNCHANGED <<provided, free, used, odd>> /\ (sender'.pc = "start" => sender.pc = "start")
    BY <1>4 DEF SenderCancelled, TypeOK, SenderAt, Waiting
  <2>3. QED BY <2>1, <2>2 DEF BufferInv, Odd
<1>5. CASE SenderSends
  <2>1. \A s \in Services : Busy(s)' <=> Busy(s)
    BY <1>5, ServicesAssumption DEF SenderSends, TypeOK, Busy
  <2>2. UNCHANGED <<provided, free, used, odd>> /\ (sender'.pc = "start" => sender.pc = "start")
    BY <1>5 DEF SenderSends, TypeOK, SenderAt, Waiting
  <2>3. QED BY <2>1, <2>2 DEF BufferInv, Odd
<1>6. CASE Collect
  <2>1. sender'.pc \in {"wait", "send"} /\ UNCHANGED <<provided, free, used, odd, state>>
    BY <1>6, CollectDoes
  <2>2. QED BY <2>1 DEF BufferInv, Busy, Odd
<1>7. CASE SenderEnds
  <2>1. sender'.pc = "end"
    BY <1>7, ResumeGoes DEF SenderEnds
  <2>2. UNCHANGED <<provided, free, used, odd, state>>
    BY <1>7 DEF SenderEnds
  <2>3. QED BY <2>1, <2>2 DEF BufferInv, Busy, Odd
<1>8. CASE SenderHears
  <2>1. sender'.pc = "send"
    BY <1>8, ResumeGoes DEF SenderHears
  <2>2. UNCHANGED <<provided, free, used, odd, state>>
    BY <1>8 DEF SenderHears
  <2>3. QED BY <2>1, <2>2 DEF BufferInv, Busy, Odd
<1>9. ASSUME NEW s \in Services, Answered(s) PROVE BufferInv'
  <2>1. CASE Panics(s)
    BY <1>9, <2>1 DEF Answered, Panics, Panic, BufferInv, Busy, Odd
  <2>2. CASE ~Panics(s)
    <3>1. /\ sender'.pc \in {"collect", "send"}
          /\ state' = [state EXCEPT ![s] = "idle"]
          /\ free' = free \cup used[s] /\ used' = [used EXCEPT ![s] = {}]
          /\ UNCHANGED <<provided, odd>>
      BY <1>9, <2>2, AnsweredDoes DEF othersOfBoth
    <3>2. /\ used'[s] = {} /\ \A t \in Services : t # s => used'[t] = used[t]
          /\ ~Busy(s)' /\ \A t \in Services : t # s => Busy(t)' = Busy(t)
      BY <1>9, <3>1, ServicesAssumption DEF TypeOK, Busy
    <3>3. /\ provided \cap free = {}
          /\ \A t \in Services : used[t] \cap (provided \cup free) = {}
          /\ \A t, u \in Services : t # u => used[t] \cap used[u] = {}
      BY DEF BufferInv
    <3>4. \A x \in Buffers : x \in (provided \cup free)' \/ \E t \in Services : x \in used'[t]
      BY <3>1, <3>2 DEF BufferInv
    <3>5. \A t \in Services : ~Busy(t)' => used'[t] = {}
      BY <3>2 DEF BufferInv
    <3>6. ~Odd("short")' => \A t \in Services : Busy(t)' => Cardinality(used'[t]) = Needs[t]
      BY <3>1, <3>2 DEF BufferInv, Odd
    <3>7. /\ (provided \cap free)' = {}
          /\ \A t \in Services : used'[t] \cap (provided \cup free)' = {}
          /\ \A t, u \in Services : t # u => used'[t] \cap used'[u] = {}
      BY <1>9, <3>1, <3>2, <3>3
    <3>8. QED BY <3>1, <3>4, <3>5, <3>6, <3>7 DEF BufferInv
  <2>3. QED BY <2>1, <2>2
<1>10. ASSUME NEW s \in Services, NEW c \in Requests(s), Request(s, c) PROVE BufferInv'
  <2>1. CASE Busy(s) \/ OutOfTurn(c)
    BY <1>10, <2>1 DEF Request, Waiting, Busy, Panic, BufferInv, Odd
  <2>2. CASE ~Busy(s) /\ ~OutOfTurn(c)
    <3>1. /\ sender'.pc = "send" /\ state' = [state EXCEPT ![s] = "from11"]
          /\ used' = [used EXCEPT ![s] = Kept(s)]
          /\ provided' = Largest(Left(s), Provide)
          /\ free' = Left(s) \ Largest(Left(s), Provide)
          /\ Odd("short") => Odd("short")'
          /\ Short(s) => Odd("short")'
      BY <1>10, <2>2, RequestDoes DEF Odd
    <3>2. /\ used'[s] = Kept(s) /\ \A t \in Services : t # s => used'[t] = used[t]
          /\ Busy(s)' /\ \A t \in Services : t # s => Busy(t)' = Busy(t)
      BY <1>10, <3>1, ServicesAssumption DEF TypeOK, Busy
    <3>3. /\ provided \cap free = {} /\ used[s] = {}
          /\ \A t \in Services : used[t] \cap (provided \cup free) = {}
          /\ \A t, u \in Services : t # u => used[t] \cap used[u] = {}
      BY <1>10, <2>2 DEF BufferInv
    <3>4. /\ Kept(s) \subseteq provided /\ Left(s) = free \cup (provided \ Kept(s))
          /\ Left(s) \in SUBSET Buffers
      BY DEF Kept, Left, TypeOK
    <3>5. Largest(Left(s), Provide) \subseteq Left(s)
      BY <3>4, LargestCount, BuffersAssumption
    <3>6. (provided \cup free)' = Left(s) /\ (provided \cap free)' = {}
      BY <3>1, <3>5
    <3>7. \A t \in Services : used'[t] \cap (provided \cup free)' = {}
      BY <3>2, <3>3, <3>4, <3>6
    <3>8. \A t, u \in Services : t # u => used'[t] \cap used'[u] = {}
      BY <3>2, <3>3, <3>4
    <3>9. \A x \in Buffers : x \in (provided \cup free)' \/ \E t \in Services : x \in used'[t]
      <4>1. TAKE x \in Buffers
      <4>2. x \in provided \cup free \/ \E t \in Services : x \in used[t]
        BY DEF BufferInv
      <4>3. QED BY <1>10, <3>2, <3>3, <3>4, <3>6, <4>2
    <3>10. \A t \in Services : ~Busy(t)' => used'[t] = {}
      BY <3>2 DEF BufferInv
    <3>11. ~Short(s) => Cardinality(Kept(s)) = Needs[s]
      <4>1. provided \in SUBSET Buffers /\ Cardinality(provided) <= Provide
        BY DEF TypeOK
      <4>2. Cardinality(provided) \in Nat
        BY <4>1, BuffersFinite
      <4>3. Needs[s] \in 0..Provide /\ Provide \in Nat
        BY <1>10, BuffersAssumption
      <4>4. ~Short(s) /\ Needs[s] > 0 => Cardinality(provided) = Provide
        BY <4>1, <4>2, <4>3 DEF Short
      <4>5. QED BY <4>1, <4>3, <4>4, KeptCount DEF Kept
    <3>12. ~Odd("short")' => \A t \in Services : Busy(t)' => Cardinality(used'[t]) = Needs[t]
      BY <3>1, <3>2, <3>11 DEF BufferInv
    <3>13. QED BY <3>1, <3>6, <3>7, <3>8, <3>9, <3>10, <3>12 DEF BufferInv
  <2>3. QED BY <2>1, <2>2
<1>11. ASSUME NEW s \in Services, Closed(s) PROVE BufferInv'
  <2>1. sender'.pc = "send"
    BY <1>11, ResumeGoes DEF Closed
  <2>2. UNCHANGED <<provided, free, used, odd, state>>
    BY <1>11 DEF Closed
  <2>3. QED BY <2>1, <2>2 DEF BufferInv, Busy, Odd
<1>12. CASE ReceiverFills
  <2>1. \A s \in Services : Busy(s)' <=> Busy(s)
    BY <1>12, ServicesAssumption DEF ReceiverFills, TypeOK, Busy, PlacesInv
  <2>2. UNCHANGED <<provided, free, used, odd>> /\ (sender'.pc = "start" => sender.pc = "start")
    BY <1>12 DEF ReceiverFills, TypeOK, SenderAt, Waiting
  <2>3. QED BY <2>1, <2>2 DEF BufferInv, Odd
<1>13. CASE HandlerStart
  <2>1. \A s \in Services : Busy(s)' <=> Busy(s)
    BY <1>13, ServicesAssumption DEF HandlerStart, TypeOK, Busy
  <2>2. UNCHANGED <<provided, free, used, odd>> /\ (sender'.pc = "start" => sender.pc = "start")
    BY <1>13 DEF HandlerStart, TypeOK, SenderAt, Waiting
  <2>3. QED BY <2>1, <2>2 DEF BufferInv, Odd
<1>14. CASE HandlerWorks
  <2>1. \A s \in Services : Busy(s)' <=> Busy(s)
    BY <1>14, ServicesAssumption DEF HandlerWorks, TypeOK, Busy
  <2>2. UNCHANGED <<provided, free, used, odd>> /\ (sender'.pc = "start" => sender.pc = "start")
    BY <1>14 DEF HandlerWorks, TypeOK, SenderAt, Waiting
  <2>3. QED BY <2>1, <2>2 DEF BufferInv, Odd
<1>15. CASE HandlerSent
  <2>1. \A s \in Services : Busy(s)' <=> Busy(s)
    BY <1>15, ServicesAssumption DEF HandlerSent, TypeOK, Busy
  <2>2. UNCHANGED <<provided, free, used, odd>> /\ (sender'.pc = "start" => sender.pc = "start")
    BY <1>15 DEF HandlerSent, TypeOK, SenderAt, Waiting
  <2>3. QED BY <2>1, <2>2 DEF BufferInv, Odd
<1>16. CASE Told
  <2>1. Odd("short")' = Odd("short") /\ UNCHANGED <<provided, free, used, sender, state>>
    BY <1>16 DEF Told, Odd
  <2>2. QED BY <2>1 DEF BufferInv, Busy
<1>17. CASE MainMarks
  <2>1. /\ state' = [state EXCEPT ![Mc] = "sent"]
        /\ UNCHANGED <<provided, free, used, odd, sender>>
    BY <1>17 DEF MainMarks
  <2>2. Busy(Mc)' /\ \A t \in Services : t # Mc => Busy(t)' = Busy(t)
    BY <2>1, ServicesAssumption DEF TypeOK, Busy
  <2>3. ~Odd("short") => Cardinality(used[Mc]) = Needs[Mc]
    BY ServicesAssumption, BuffersAssumption, FS_EmptySet DEF BufferInv
  <2>4. QED BY <2>1, <2>2, <2>3 DEF BufferInv, Odd
<1>18. CASE AskPublish
  <2>1. Odd("short")' = Odd("short") /\ UNCHANGED <<provided, free, used, sender, state>>
    BY <1>18 DEF AskPublish, Odd
  <2>2. QED BY <2>1 DEF BufferInv, Busy
<1>19. ASSUME NEW s \in Services,
                  \/ SenderLocks \/ ReceiverStart \/ ReceiverHears \/ ReceiverEnds
                  \/ ReceiverReads \/ ReceiverSignals \/ ReceiverResumes \/ HandlerHears
                  \/ HandlerLocks \/ HandlerSends \/ HandlerSignals \/ Accept(s) \/ MainLocks
                  \/ MainSends \/ MainEnds \/ Connect(s) \/ Ask(s) \/ Dies(s) \/ Answer(s)
                  \/ TakesReply
     PROVE  UNCHANGED <<sender, provided, free, used, state, odd>>
  BY <1>19 DEF SenderLocks, ReceiverStart, ReceiverHears, ReceiverEnds, ReceiverReads,
     ReceiverSignals, ReceiverResumes, HandlerHears, HandlerLocks, HandlerSends, HandlerSignals,
     Accept, MainLocks, MainSends, MainEnds, Connect, Ask, Dies, Answer, TakesReply
<1>20. QED
  BY <1>1, <1>2, <1>3, <1>4, <1>5, <1>6, <1>7, <1>8, <1>9, <1>10, <1>11, <1>12, <1>13, <1>14,
     <1>15, <1>16, <1>17, <1>18, <1>19, ServicesAssumption DEF Next, Sender, Receiver, Handler,
     MainThread, Process9, Clientele

\* What is under way changes only as requests are sent and answered.
LEMMA SameUnderWay ==
    ASSUME \A s \in Services : state'[s] \in {"sent", "from9"} <=> state[s] \in {"sent", "from9"}
    PROVE  UnderWay' = UnderWay
BY DEF UnderWay

\* What the sleep and the wake rely on remains so.
LEMMA SleepStep ==
    ASSUME TypeOK, PlacesInv, HandleInv, SleepInv, [Next]_vars
    PROVE  SleepInv'
<1>1. CASE UNCHANGED <<odd, latest, disabled, pending, state, main, panicked, sender, handle>>
  BY <1>1 DEF SleepInv, SleepRules, TypeOK, HandleInv, PlacesInv, UnderWay, Busy, Odd
<1>2. CASE SenderStart
  BY <1>2, ServicesAssumption, SenderFields DEF SleepInv, SleepRules, TypeOK, HandleInv,
     PlacesInv, UnderWay, Busy, Odd, SenderAt, SenderStart
<1>3. ASSUME NEW s \in Services, Look(s) PROVE SleepInv'
  <2> SUFFICES ASSUME ~Odd("inuse"), ~Odd("crossed") PROVE SleepRules'
    BY <1>3 DEF SleepInv, Odd, Look
  <2>0. SleepRules
    BY DEF SleepInv
  <2>1. /\ handle[s] /\ state[s] = "from11" /\ (disabled => pending = 0 /\ latest # 0)
        /\ state' = [state EXCEPT ![s] = "sent"]
        /\ pending' = IF disabled THEN pending ELSE pending + 1
        /\ sender'.pc = "sending"
        /\ UNCHANGED <<latest, disabled, main, panicked, handle>>
    BY <1>3 DEF Look, Sends, TypeOK, SenderAt
  <2>2. latest # 0 => disabled
    <3>1. SUFFICES ASSUME latest # 0, ~disabled PROVE FALSE
      OBVIOUS
    <3>2. s = Mc /\ latest = 2
      BY <1>3, <2>0, <2>1, <3>1 DEF SleepRules, TypeOK, Busy
    <3>3. QED BY <2>0, <2>1, <3>1, <3>2 DEF SleepRules, HandleInv, PlacesInv, Busy
  <2>3. latest # 0 => s = Mc
    BY <1>3, <2>0, <2>1 DEF SleepRules, Busy
  <2>4. UnderWay' = UnderWay \cup {s} /\ s \notin UnderWay
    BY <1>3, <2>1 DEF UnderWay, TypeOK
  <2>5. Cardinality(UnderWay)' = Cardinality(UnderWay) + 1
    BY <1>3, <2>4, UnderWayCount
  <2>6. \A t \in Services : t # s => (Busy(t)' <=> Busy(t))
    BY <1>3, <2>1, ServicesAssumption DEF TypeOK, Busy
  <2>7. QED BY <2>0, <2>1, <2>2, <2>3, <2>5, <2>6, ServicesAssumption DEF SleepRules
<1>4. CASE SenderCancelled
  BY <1>4, ServicesAssumption, SenderFields DEF SleepInv, SleepRules, TypeOK, HandleInv,
     PlacesInv, UnderWay, Busy, Odd, SenderAt, SenderCancelled
<1>5. CASE SenderSends
  BY <1>5, ServicesAssumption, SenderFields DEF SleepInv, SleepRules, TypeOK, HandleInv,
     PlacesInv, UnderWay, Busy, Odd, SenderAt, SenderSends
<1>6. CASE Collect
  <2>0. /\ sender.pc \in {"collect", "send"} /\ (\A s \in Services : handle'[s] => handle[s])
        /\ sender.pc = "send" => \A s \in Services : ~Sends(s)
        /\ UNCHANGED <<state, latest, disabled, pending, main, panicked, odd>>
    <3>1. CASE sender.reply = NoService
      BY <1>6, <3>1, CollectDoes
    <3>2. CASE sender.reply # NoService /\ client[sender.reply] = "gone"
      BY <1>6, <3>2, CollectDoes, SenderFields DEF TypeOK
    <3>3. CASE sender.reply # NoService /\ client[sender.reply] # "gone"
      BY <1>6, <3>3, CollectDoes
    <3>4. QED BY <3>1, <3>2, <3>3
  <2> SUFFICES ASSUME ~Odd("inuse"), ~Odd("crossed") PROVE SleepRules'
    BY <2>0 DEF SleepInv, Odd
  <2>1. SleepRules
    BY <2>0 DEF SleepInv, Odd
  <2>2. \A s \in Services : handle'[s] => state[s] # "from11"
    BY <2>0, <2>1 DEF SleepRules, Sends
  <2>3. QED BY <2>0, <2>1, <2>2 DEF SleepRules, Busy, UnderWay
<1>7. CASE SenderEnds
  <2>1. sender'.pc = "end"
    BY <1>7, ResumeGoes DEF SenderEnds
  <2>2. UNCHANGED <<state, latest, disabled, pending, main, panicked, odd>>
    BY <1>7 DEF SenderEnds
  <2>3. QED BY <2>1, <2>2 DEF SleepInv, SleepRules, Busy, UnderWay, Odd
<1>8. CASE SenderHears
  <2>1. sender'.pc = "send"
    BY <1>8, ResumeGoes DEF SenderHears
  <2>2. UNCHANGED <<state, latest, disabled, pending, main, panicked, odd>>
    BY <1>8 DEF SenderHears
  <2>3. QED BY <2>1, <2>2 DEF SleepInv, SleepRules, Busy, UnderWay, Odd
<1>9. ASSUME NEW s \in Services, Answered(s) PROVE SleepInv'
  <2>1. CASE Panics(s)
    BY <1>9, <2>1 DEF Answered, Panics, Panic, SleepInv, SleepRules, Busy, Odd
  <2>2. CASE ~Panics(s)
    <3>1. /\ sender.pc = "wait"
          /\ state[s] = "from9" /\ state' = [state EXCEPT ![s] = "idle"]
          /\ disabled' = (disabled /\ latest # 2)
          /\ pending' = IF latest = 0 THEN pending - 1 ELSE pending
          /\ UNCHANGED <<latest, handle, main, panicked, odd>>
      BY <1>9, <2>2, AnsweredDoes DEF othersOfBoth
    <3> SUFFICES ASSUME ~Odd("inuse"), ~Odd("crossed") PROVE SleepRules'
      BY <3>1 DEF SleepInv, Odd
    <3>2. SleepRules
      BY DEF SleepInv
    <3>3. /\ ~Busy(s)' /\ state'[s] # "from11"
          /\ \A t \in Services : t # s => (Busy(t)' = Busy(t) /\ state'[t] = state[t])
      BY <1>9, <3>1, ServicesAssumption DEF TypeOK, Busy
    <3>4. UnderWay' = UnderWay \ {s} /\ s \in UnderWay
      BY <1>9, <3>1 DEF UnderWay, TypeOK
    <3>5. Cardinality(UnderWay)' = Cardinality(UnderWay) - 1
      BY <1>9, <3>4, UnderWayCount
    <3>6. latest # 0 => s = Mc
      BY <1>9, <3>1, <3>2 DEF SleepRules, Busy
    <3>7. latest # 0 => pending' = 0 /\ \A t \in Services \ {Mc} : ~Busy(t)'
      BY <3>1, <3>2, <3>3 DEF SleepRules
    <3>8. main = "run" /\ latest = 2 => ~Busy(Mc)'
      BY <3>3, <3>6
    <3>9. main = "run" /\ latest = 0 /\ ~panicked => pending' = Cardinality(UnderWay)'
      BY <3>1, <3>2, <3>5 DEF SleepRules
    <3>10. \A t \in Services : handle[t] => state'[t] # "from11"
      BY <3>1, <3>2, <3>3 DEF SleepRules
    <3>11. /\ disabled' => latest # 0
           /\ latest = 1 => disabled'
      <4>1. disabled' = (disabled /\ latest # 2) /\ disabled \in BOOLEAN
        BY <3>1 DEF TypeOK
      <4>2. (disabled => latest # 0) /\ (latest = 1 => disabled)
        BY <3>2 DEF SleepRules
      <4>3. CASE latest = 1
        <5>1. latest # 2
          BY <4>3
        <5>2. disabled
          BY <4>2, <4>3
        <5>3. disabled'
          BY <4>1, <5>1, <5>2
        <5>4. QED BY <4>2, <5>2, <5>3
      <4>4. CASE latest # 1
        BY <4>1, <4>2, <4>4
      <4>5. QED BY <4>3, <4>4
    <3>12. QED BY <3>1, <3>7, <3>8, <3>9, <3>10, <3>11 DEF SleepRules
  <2>3. QED BY <2>1, <2>2
<1>10. ASSUME NEW s \in Services, NEW c \in Requests(s), Request(s, c), Running PROVE SleepInv'
  <2>1. CASE Busy(s) \/ OutOfTurn(c)
    <3>1. UNCHANGED <<state, latest, disabled, pending, sender, handle, main>> /\ panicked'
          /\ (Odd("inuse") => Odd("inuse")') /\ (Odd("crossed") => Odd("crossed")')
      BY <1>10, <2>1 DEF Request, Waiting, Busy, Panic, Odd
    <3>2. QED BY <3>1 DEF SleepInv, SleepRules, Busy
  <2>2. CASE ~Busy(s) /\ ~OutOfTurn(c)
    <3>1. /\ sender.pc = "wait" /\ sender'.pc = "send" /\ s \in sender.snap
          /\ latest' = CASE c = "plain" -> 0 [] c = "sleep" -> 1 [] c = "wake" -> 2
          /\ disabled' = (disabled \/ c = "sleep")
          /\ state[s] = "idle" /\ state' = [state EXCEPT ![s] = "from11"]
          /\ UNCHANGED <<pending, handle, main, panicked>> /\ ~panicked
          /\ (Odd("inuse") => Odd("inuse")') /\ (Odd("crossed") => Odd("crossed")')
          /\ Crosses(c) => Odd("crossed")'
      BY <1>10, <2>2, RequestDoes DEF othersOfBoth, Odd, Running
    <3> SUFFICES ASSUME ~Odd("inuse"), ~Odd("crossed"), ~Crosses(c) PROVE SleepRules'
      BY <3>1 DEF SleepInv
    <3>2. SleepRules
      BY DEF SleepInv
    <3>10. /\ sender'.pc = "send" /\ ~panicked' /\ UNCHANGED <<pending, main>>
           /\ \A t \in Services : t # s => Busy(t)' = Busy(t)
      BY <1>10, <3>1, ServicesAssumption DEF TypeOK, Busy
    <3>3. handle[s] /\ (s = Mc => main = "run")
      BY <1>10, <3>1 DEF HandleInv, PlacesInv
    <3>4. \A t \in Services : t # s => (Busy(t)' = Busy(t) /\ state'[t] = state[t])
      BY <1>10, <3>1, ServicesAssumption DEF TypeOK, Busy
    <3>5. UnderWay' = UnderWay
      <4>1. \A t \in Services : state'[t] \in {"sent", "from9"} <=> state[t] \in {"sent", "from9"}
        BY <1>10, <3>1 DEF TypeOK
      <4>2. QED BY <4>1, SameUnderWay
    <3>6. CASE c = "plain"
      <4>1. ~disabled /\ latest' = 0 /\ ~disabled'
        BY <3>1, <3>6 DEF Crosses, OutOfTurn
      <4>2. ASSUME main = "run" PROVE pending = Cardinality(UnderWay)
        <5>1. CASE latest = 0
          BY <3>1, <3>2, <4>2, <5>1 DEF SleepRules
        <5>2. CASE latest # 0
          <6>1. latest = 2 /\ pending = 0 /\ \A t \in Services : ~Busy(t)
            BY <3>2, <4>1, <4>2, <5>2 DEF SleepRules, TypeOK
          <6>2. UnderWay = {}
            BY <6>1 DEF UnderWay, Busy
          <6>3. QED BY <6>1, <6>2, FS_EmptySet
        <5>3. QED BY <5>1, <5>2
      <4>3. QED BY <3>10, <3>5, <4>1, <4>2 DEF SleepRules
    <3>7. CASE c = "sleep"
      <4>1. /\ ~disabled /\ latest' = 1 /\ disabled' /\ pending = 0 /\ s = Mc /\ main = "run"
        BY <1>10, <3>1, <3>3, <3>7 DEF Crosses, OutOfTurn, Requests
      <4>2. \A t \in Services \ {Mc} : ~Busy(t)
        <5>1. CASE latest = 0
          <6>1. Cardinality(UnderWay) = 0
            BY <3>1, <3>2, <4>1, <5>1 DEF SleepRules
          <6>2. UnderWay = {}
            BY <1>10, <6>1, UnderWayCount, FS_EmptySet
          <6>3. \A t \in Services : state[t] # "from11"
            BY <3>1, <3>2, <4>1 DEF SleepRules, HandleInv, Busy
          <6>4. QED BY <6>2, <6>3 DEF UnderWay, Busy, TypeOK, States
        <5>2. CASE latest # 0
          BY <3>2, <5>2 DEF SleepRules
        <5>3. QED BY <5>1, <5>2
      <4>3. QED BY <3>10, <4>1, <4>2 DEF SleepRules
    <3>8. CASE c = "wake"
      <4>1. disabled /\ latest' = 2 /\ disabled' /\ s = Mc
        BY <1>10, <3>1, <3>8 DEF Crosses, OutOfTurn, Requests
      <4>2. QED BY <3>10, <3>2, <4>1 DEF SleepRules
    <3>9. QED BY <1>10, <3>6, <3>7, <3>8 DEF Requests, Commands
  <2>3. QED BY <2>1, <2>2
<1>11. ASSUME NEW s \in Services, Closed(s) PROVE SleepInv'
  <2>1. sender'.pc = "send"
    BY <1>11, ResumeGoes DEF Closed
  <2>2. UNCHANGED <<state, latest, disabled, pending, main, panicked, odd>>
    BY <1>11 DEF Closed
  <2>3. QED BY <2>1, <2>2 DEF SleepInv, SleepRules, Busy, UnderWay, Odd
<1>12. CASE ReceiverReads
  BY <1>12, ServicesAssumption, SenderFields DEF SleepInv, SleepRules, TypeOK, HandleInv,
     PlacesInv, UnderWay, Busy, Odd, ReceiverReads
<1>13. CASE ReceiverFills
  <2> SUFFICES ASSUME ~Odd("inuse"), ~Odd("crossed") PROVE SleepRules'
    BY <1>13 DEF SleepInv, Odd, ReceiverFills
  <2>0. SleepRules
    BY DEF SleepInv
  <2>1. /\ \A s \in Services : state'[s] \in {"sent", "from9"} <=> state[s] \in {"sent", "from9"}
        /\ \A s \in Services : (state'[s] = "from11" <=> state[s] = "from11") /\ (Busy(s)' <=> Busy(s))
    BY <1>13, ServicesAssumption DEF ReceiverFills, TypeOK, Busy, PlacesInv
  <2>2. UnderWay' = UnderWay
    BY <2>1, SameUnderWay
  <2>3. UNCHANGED <<latest, disabled, pending, sender, handle, main>> /\ (panicked => panicked')
    BY <1>13 DEF ReceiverFills
  <2>4. QED BY <2>0, <2>1, <2>2, <2>3, ServicesAssumption DEF SleepRules
<1>14. CASE ReceiverResumes
  BY <1>14, ServicesAssumption, SenderFields DEF SleepInv, SleepRules, TypeOK, HandleInv,
     PlacesInv, UnderWay, Busy, Odd, ReceiverResumes
<1>15. CASE HandlerStart
  <2> SUFFICES ASSUME ~Odd("inuse"), ~Odd("crossed") PROVE SleepRules'
    BY <1>15 DEF SleepInv, Odd, HandlerStart
  <2>0. SleepRules
    BY DEF SleepInv
  <2>1. /\ \A s \in Services : state'[s] \in {"sent", "from9"} <=> state[s] \in {"sent", "from9"}
        /\ \A s \in Services : (state'[s] = "from11" <=> state[s] = "from11") /\ (Busy(s)' <=> Busy(s))
    BY <1>15, ServicesAssumption DEF HandlerStart, TypeOK, Busy
  <2>2. UnderWay' = UnderWay
    BY <2>1, SameUnderWay
  <2>3. UNCHANGED <<latest, disabled, pending, sender, handle, main>> /\ (panicked => panicked')
    BY <1>15 DEF HandlerStart
  <2>4. QED BY <2>0, <2>1, <2>2, <2>3, ServicesAssumption DEF SleepRules
<1>16. CASE HandlerWorks
  <2> SUFFICES ASSUME ~Odd("inuse"), ~Odd("crossed") PROVE SleepRules'
    BY <1>16 DEF SleepInv, Odd, HandlerWorks
  <2>0. SleepRules
    BY DEF SleepInv
  <2>1. /\ \A s \in Services : state'[s] \in {"sent", "from9"} <=> state[s] \in {"sent", "from9"}
        /\ \A s \in Services : (state'[s] = "from11" <=> state[s] = "from11") /\ (Busy(s)' <=> Busy(s))
    BY <1>16, ServicesAssumption DEF HandlerWorks, TypeOK, Busy
  <2>2. UnderWay' = UnderWay
    BY <2>1, SameUnderWay
  <2>3. UNCHANGED <<latest, disabled, pending, sender, handle, main>> /\ (panicked => panicked')
    BY <1>16 DEF HandlerWorks
  <2>4. QED BY <2>0, <2>1, <2>2, <2>3, ServicesAssumption DEF SleepRules
<1>17. CASE HandlerLocks
  BY <1>17, ServicesAssumption, SenderFields DEF SleepInv, SleepRules, TypeOK, HandleInv,
     PlacesInv, UnderWay, Busy, Odd, HandlerLocks
<1>18. CASE HandlerSent
  <2> SUFFICES ASSUME ~Odd("inuse"), ~Odd("crossed") PROVE SleepRules'
    BY <1>18 DEF SleepInv, Odd, HandlerSent
  <2>0. SleepRules
    BY DEF SleepInv
  <2>1. /\ \A s \in Services : state'[s] \in {"sent", "from9"} <=> state[s] \in {"sent", "from9"}
        /\ \A s \in Services : (state'[s] = "from11" <=> state[s] = "from11") /\ (Busy(s)' <=> Busy(s))
    BY <1>18, ServicesAssumption DEF HandlerSent, TypeOK, Busy
  <2>2. UnderWay' = UnderWay
    BY <2>1, SameUnderWay
  <2>3. UNCHANGED <<latest, disabled, pending, sender, handle, main>> /\ (panicked => panicked')
    BY <1>18 DEF HandlerSent
  <2>4. QED BY <2>0, <2>1, <2>2, <2>3, ServicesAssumption DEF SleepRules
<1>19. ASSUME NEW s \in Services, Accept(s) PROVE SleepInv'
  BY <1>19, ServicesAssumption, SenderFields DEF SleepInv, SleepRules, TypeOK, HandleInv,
     PlacesInv, UnderWay, Busy, Odd, Accept
<1>20. CASE Told
  BY <1>20, ServicesAssumption, SenderFields DEF SleepInv, SleepRules, TypeOK, HandleInv,
     PlacesInv, UnderWay, Busy, Odd, Told
<1>21. CASE MainMarks
  BY <1>21, ServicesAssumption, SenderFields DEF SleepInv, SleepRules, TypeOK, HandleInv,
     PlacesInv, UnderWay, Busy, Odd, MainMarks
<1>22. CASE MainSends
  BY <1>22, ServicesAssumption, SenderFields DEF SleepInv, SleepRules, TypeOK, HandleInv,
     PlacesInv, UnderWay, Busy, Odd, MainSends
<1>23. CASE MainEnds
  BY <1>23, ServicesAssumption, SenderFields DEF SleepInv, SleepRules, TypeOK, HandleInv,
     PlacesInv, UnderWay, Busy, Odd, MainEnds
<1>24. CASE AskPublish
  BY <1>24, ServicesAssumption, SenderFields DEF SleepInv, SleepRules, TypeOK, HandleInv,
     PlacesInv, UnderWay, Busy, Odd, AskPublish
<1>25. ASSUME NEW s \in Services,
                  \/ SenderLocks \/ ReceiverStart \/ ReceiverHears \/ ReceiverEnds
                  \/ ReceiverSignals \/ HandlerHears \/ HandlerSends \/ HandlerSignals
                  \/ MainLocks \/ Connect(s) \/ Ask(s) \/ Dies(s) \/ Answer(s) \/ TakesReply
     PROVE  UNCHANGED <<odd, latest, disabled, pending, state, main, panicked, sender,
                        handle>>
  BY <1>25 DEF SenderLocks, ReceiverStart, ReceiverHears, ReceiverEnds, ReceiverSignals,
     HandlerHears, HandlerSends, HandlerSignals, MainLocks, Connect, Ask, Dies, Answer,
     TakesReply
<1>26. QED
  BY <1>1, <1>2, <1>3, <1>4, <1>5, <1>6, <1>7, <1>8, <1>9, <1>10, <1>11, <1>12, <1>13, <1>14,
     <1>15, <1>16, <1>17, <1>18, <1>19, <1>20, <1>21, <1>22, <1>23, <1>24, <1>25,
     ServicesAssumption DEF Next, Sender, Receiver, Handler, MainThread, Process9, Clientele

\* No thread comes upon a session in an unexpected state.
LEMMA PanicStep ==
    ASSUME TypeOK, PlacesInv, TurnsInv, CountInv, HandleInv, TokenInv, LastInv, SleepInv,
           NeverPanics, [Next]_vars
    PROVE  NeverPanics'
<1>1. CASE UNCHANGED <<odd, panicked>>
  BY <1>1 DEF NeverPanics, Running
<1>2. ASSUME NEW s \in Services, Answered(s), Running PROVE NeverPanics'
  <2>1. ~panicked /\ UNCHANGED odd
    BY <1>2 DEF Running, Answered
  <2>2. SUFFICES ASSUME odd \subseteq {"short"} PROVE ~Panics(s)
    BY <1>2, <2>1, AnsweredDoes DEF othersOfBoth, NeverPanics
  <2>3. ~Odd("inuse") /\ ~Odd("crossed")
    BY <2>2 DEF Odd
  <2>4. replySem > 0 /\ (IsFirst(s) \/ \A t \in Services : state[t] # "from9")
    BY <1>2 DEF Answered
  <2>5. ~(latest = 2 /\ pending # 0)
    BY <2>3 DEF SleepInv, SleepRules
  <2>6. \E t \in Services : state[t] = "from9"
    <3>1. SUFFICES ASSUME \A t \in Services : state[t] # "from9" PROVE FALSE
      OBVIOUS
    <3>2. HaveAnswer(Services) = {} /\ HaveAnswer(Services \ {Mc}) = {}
      BY <3>1 DEF HaveAnswer
    <3>3. Cardinality(HaveAnswer(Services)) = 0 /\ Cardinality(HaveAnswer(Services \ {Mc})) = 0
      BY <3>2, FS_EmptySet
    <3>4. replySem \in Nat
      BY DEF TypeOK
    <3>5. main # "run" <=> shouldTerminate
      BY DEF PlacesInv
    <3>6. QED BY <2>1, <2>3, <2>4, <3>3, <3>4, <3>5 DEF CountInv, Announced
  <2>7. QED BY <2>4, <2>5, <2>6 DEF IsFirst, Panics
<1>3. ASSUME NEW s \in Services, NEW c \in Requests(s), Request(s, c), Running PROVE NeverPanics'
  <2>1. CASE Busy(s)
    BY <1>3, <2>1 DEF Request, HandleInv, Odd, NeverPanics
  <2>2. CASE OutOfTurn(c)
    BY <1>3, <2>2 DEF Request, Crosses, NeverPanics
  <2>3. CASE ~Busy(s) /\ ~OutOfTurn(c)
    BY <1>3, <2>3, RequestDoes DEF othersOfBoth, Running, NeverPanics
  <2>4. QED BY <2>1, <2>2, <2>3
<1>4. ASSUME ReceiverReads, Running PROVE NeverPanics'
  <2>1. CASE fifo = <<>>
    BY <1>4, <2>1 DEF ReceiverReads, Running, NeverPanics
  <2>2. CASE fifo # <<>>
    <3>1. Head(fifo) \in All /\ Head(fifo) = fifo[1] /\ 1 \in DOMAIN fifo
      BY <2>2, HeadOfFifo
    <3>2. ~Odd("inuse") => state[Head(fifo)] = "sent"
      BY <1>4, <3>1 DEF ReceiverReads, TokenInv, TurnsInv, InFifo
    <3>3. QED BY <1>4, <2>2, <3>2 DEF ReceiverReads, Running, NeverPanics, Odd
  <2>3. QED BY <2>1, <2>2
<1>5. ASSUME ReceiverResumes, Running PROVE NeverPanics'
  BY <1>5, ServicesAssumption DEF NeverPanics, Running, TurnsInv, ReceiverResumes
<1>6. ASSUME HandlerWorks, Running PROVE NeverPanics'
  BY <1>6, ServicesAssumption DEF NeverPanics, Running, TurnsInv, HandlerWorks
<1>7. ASSUME HandlerLocks, Running PROVE NeverPanics'
  <2>1. odd \subseteq {"short"} => ~(handler = "sending" /\ terminate)
    BY DEF LastInv, LastAnswer, PlacesInv, Odd
  <2>2. QED BY <1>7, <2>1 DEF HandlerLocks, Running, NeverPanics
<1>8. ASSUME NEW s \in Services, Accept(s), Running PROVE NeverPanics'
  BY <1>8, ServicesAssumption DEF NeverPanics, Running, PlacesInv, Accept
<1>9. ASSUME Told, Running PROVE NeverPanics'
  BY <1>9, ServicesAssumption DEF NeverPanics, Running, Told
<1>10. ASSUME AskPublish, Running PROVE NeverPanics'
  BY <1>10, ServicesAssumption DEF NeverPanics, Running, AskPublish
<1>11. ASSUME NEW s \in Services,
                  \/ SenderStart \/ Look(s) \/ SenderLocks \/ SenderCancelled \/ SenderSends
                  \/ Collect \/ SenderEnds \/ SenderHears \/ Closed(s) \/ ReceiverStart
                  \/ ReceiverHears \/ ReceiverEnds \/ ReceiverFills \/ ReceiverSignals
                  \/ HandlerStart \/ HandlerHears \/ HandlerSends \/ HandlerSent
                  \/ HandlerSignals \/ MainMarks \/ MainLocks \/ MainSends \/ MainEnds
                  \/ Connect(s) \/ Ask(s) \/ Dies(s) \/ Answer(s) \/ TakesReply
     PROVE  UNCHANGED <<odd, panicked>>
  BY <1>11 DEF SenderStart, Look, SenderLocks, SenderCancelled, SenderSends, Collect,
     SenderEnds, SenderHears, Closed, ReceiverStart, ReceiverHears, ReceiverEnds, ReceiverFills,
     ReceiverSignals, HandlerStart, HandlerHears, HandlerSends, HandlerSent, HandlerSignals,
     MainMarks, MainLocks, MainSends, MainEnds, Connect, Ask, Dies, Answer, TakesReply, Resume,
     Sends, Waiting
<1>12. QED
  BY <1>1, <1>2, <1>3, <1>4, <1>5, <1>6, <1>7, <1>8, <1>9, <1>10, <1>11, ServicesAssumption DEF
     Next, Sender, Receiver, Handler, MainThread, Process9, Clientele

\* TypeOK in parts.
SessionTypes == /\ state \in [All -> States] /\ command \in [Services -> Commands]
                /\ handle \in [Services -> BOOLEAN] /\ client \in [Services -> Clients]
BufferTypes == /\ used \in [Services -> SUBSET Buffers]
               /\ provided \in SUBSET Buffers /\ Cardinality(provided) <= Provide
               /\ free \in SUBSET Buffers
SenderTypes == sender \in SenderAt
ReceiverTypes == receiver \in ReceiverAt /\ handler \in HandlerAt /\ main \in MainAt
OrderTypes == /\ latest \in 0..2 /\ pending \in Int /\ disabled \in BOOLEAN
              /\ replySem \in Nat /\ fifo \in Seq(All) /\ at9 \in SUBSET All
              /\ odd \in SUBSET {"crossed", "short", "inuse", "late"}
              /\ mutex \in {"sender", "handler", "main", "free"}
FlagTypes == /\ newSession \in BOOLEAN /\ received \in BOOLEAN /\ replySent \in BOOLEAN
             /\ terminate \in BOOLEAN /\ shouldTerminate \in BOOLEAN
             /\ irq \in BOOLEAN /\ asks9 \in BOOLEAN /\ panicked \in BOOLEAN

\* The types of the sessions and clients.
LEMMA SessionTypesStep ==
    ASSUME TypeOK, PlacesInv, [Next]_vars
    PROVE  SessionTypes'
<1>1. CASE UNCHANGED <<state, command, handle, client>>
  BY <1>1 DEF SessionTypes, TypeOK, PlacesInv, States, Clients
<1>2. ASSUME NEW s \in Services, Look(s) PROVE SessionTypes'
  BY <1>2, ServicesAssumption DEF SessionTypes, TypeOK, PlacesInv, States, Clients, Look, Sends
<1>3. CASE SenderCancelled
  BY <1>3, ServicesAssumption DEF SessionTypes, TypeOK, PlacesInv, States, Clients,
     SenderCancelled
<1>4. CASE Collect
  <2>1. UNCHANGED <<state, command>>
    BY <1>4 DEF Collect
  <2>2. handle' \in [Services -> BOOLEAN] /\ client' \in [Services -> Clients]
    <3>1. CASE sender.reply = NoService
      BY <1>4, <3>1 DEF Collect, TypeOK
    <3>2. CASE sender.reply # NoService /\ client[sender.reply] = "gone"
      <4>1. /\ handle' = [handle EXCEPT ![sender.reply] = FALSE]
            /\ client' = [client EXCEPT ![sender.reply] = "none"]
        BY <1>4, <3>2 DEF Collect
      <4>2. QED BY <4>1 DEF TypeOK, Clients
    <3>3. CASE sender.reply # NoService /\ client[sender.reply] # "gone"
      <4>1. client' = [client EXCEPT ![sender.reply] = "open"] /\ UNCHANGED handle
        BY <1>4, <3>3 DEF Collect
      <4>2. QED BY <4>1 DEF TypeOK, Clients
    <3>4. QED BY <3>1, <3>2, <3>3
  <2>3. QED BY <2>1, <2>2 DEF SessionTypes, TypeOK
<1>5. CASE SenderEnds
  BY <1>5, ServicesAssumption DEF SessionTypes, TypeOK, PlacesInv, States, Clients, SenderEnds,
     Waiting, Resume
<1>6. ASSUME NEW s \in Services, Answered(s) PROVE SessionTypes'
  <2>1. CASE Panics(s)
    BY <1>6, <2>1 DEF Answered, Panics, Panic, TypeOK, SessionTypes
  <2>2. CASE ~Panics(s)
    <3>1. state' = [state EXCEPT ![s] = "idle"] /\ UNCHANGED <<command, client, handle>>
      BY <1>6, <2>2, AnsweredDoes DEF othersOfBoth
    <3>2. QED BY <3>1 DEF TypeOK, SessionTypes, States
  <2>3. QED BY <2>1, <2>2
<1>7. ASSUME NEW s \in Services, NEW c \in Requests(s), Request(s, c) PROVE SessionTypes'
  <2>1. CASE Busy(s) \/ OutOfTurn(c)
    BY <1>7, <2>1 DEF Request, Busy, Panic, TypeOK, SessionTypes
  <2>2. CASE ~Busy(s) /\ ~OutOfTurn(c)
    <3>1. /\ state' = [state EXCEPT ![s] = "from11"] /\ command' = [command EXCEPT ![s] = c]
          /\ client' = [client EXCEPT ![s] = "waiting"] /\ UNCHANGED handle
      BY <1>7, <2>2, RequestDoes DEF othersOfBoth
    <3>2. c \in Commands
      BY <1>7 DEF Requests, Commands
    <3>3. state' \in [All -> States] /\ client' \in [Services -> Clients]
      BY <3>1 DEF TypeOK, States, Clients
    <3>4. command' \in [Services -> Commands]
      BY <3>1, <3>2 DEF TypeOK
    <3>5. QED BY <3>1, <3>3, <3>4 DEF SessionTypes, TypeOK
  <2>3. QED BY <2>1, <2>2
<1>8. ASSUME NEW s \in Services, Closed(s) PROVE SessionTypes'
  BY <1>8, ServicesAssumption DEF SessionTypes, TypeOK, PlacesInv, States, Clients, Closed,
     Waiting, Resume
<1>9. CASE ReceiverFills
  BY <1>9, ServicesAssumption DEF SessionTypes, TypeOK, PlacesInv, States, Clients,
     ReceiverFills
<1>10. CASE HandlerStart
  BY <1>10, ServicesAssumption DEF SessionTypes, TypeOK, PlacesInv, States, Clients,
     HandlerStart
<1>11. CASE HandlerWorks
  BY <1>11, ServicesAssumption DEF SessionTypes, TypeOK, PlacesInv, States, Clients,
     HandlerWorks
<1>12. CASE HandlerSent
  BY <1>12, ServicesAssumption DEF SessionTypes, TypeOK, PlacesInv, States, Clients, HandlerSent
<1>13. ASSUME NEW s \in Services, Accept(s) PROVE SessionTypes'
  BY <1>13, ServicesAssumption DEF SessionTypes, TypeOK, PlacesInv, States, Clients, Accept
<1>14. CASE MainMarks
  BY <1>14, ServicesAssumption DEF SessionTypes, TypeOK, PlacesInv, States, Clients, MainMarks
<1>15. ASSUME NEW s \in Services, Connect(s) PROVE SessionTypes'
  BY <1>15, ServicesAssumption DEF SessionTypes, TypeOK, PlacesInv, States, Clients, Connect
<1>16. ASSUME NEW s \in Services, Ask(s) PROVE SessionTypes'
  BY <1>16, ServicesAssumption DEF SessionTypes, TypeOK, PlacesInv, States, Clients, Ask
<1>17. ASSUME NEW s \in Services, Dies(s) PROVE SessionTypes'
  BY <1>17, ServicesAssumption DEF SessionTypes, TypeOK, PlacesInv, States, Clients, Dies
<1>18. ASSUME NEW s \in Services,
                  \/ SenderStart \/ SenderLocks \/ SenderSends \/ SenderHears \/ ReceiverStart
                  \/ ReceiverHears \/ ReceiverEnds \/ ReceiverReads \/ ReceiverSignals
                  \/ ReceiverResumes \/ HandlerHears \/ HandlerLocks \/ HandlerSends
                  \/ HandlerSignals \/ Told \/ MainLocks \/ MainSends \/ MainEnds \/ Answer(s)
                  \/ AskPublish \/ TakesReply
     PROVE  UNCHANGED <<state, command, handle, client>>
  BY <1>18 DEF SenderStart, SenderLocks, SenderSends, SenderHears, ReceiverStart, ReceiverHears,
     ReceiverEnds, ReceiverReads, ReceiverSignals, ReceiverResumes, HandlerHears, HandlerLocks,
     HandlerSends, HandlerSignals, Told, MainLocks, MainSends, MainEnds, Answer, AskPublish,
     TakesReply, Resume, Waiting
<1>19. QED
  BY <1>1, <1>2, <1>3, <1>4, <1>5, <1>6, <1>7, <1>8, <1>9, <1>10, <1>11, <1>12, <1>13, <1>14,
     <1>15, <1>16, <1>17, <1>18, ServicesAssumption DEF Next, Sender, Receiver, Handler,
     MainThread, Process9, Clientele

\* The types of the sets of buffers.
LEMMA BufferTypesStep ==
    ASSUME TypeOK, PlacesInv, [Next]_vars
    PROVE  BufferTypes'
<1>1. CASE UNCHANGED <<used, provided, free>>
  BY <1>1 DEF BufferTypes, TypeOK
<1>2. CASE SenderStart
  <2>1. /\ provided' \in SUBSET Buffers /\ Cardinality(provided') <= Provide
        /\ free' \in SUBSET Buffers
    BY <1>2, LargestCount, BuffersAssumption DEF SenderStart, Provision
  <2>2. QED BY <1>2, <2>1 DEF SenderStart, TypeOK, BufferTypes
<1>3. ASSUME NEW s \in Services, Answered(s) PROVE BufferTypes'
  <2>1. CASE Panics(s)
    BY <1>3, <2>1 DEF Answered, Panics, Panic, TypeOK, BufferTypes
  <2>2. CASE ~Panics(s)
    BY <1>3, <2>2, AnsweredDoes DEF othersOfBoth, TypeOK, BufferTypes
  <2>3. QED BY <2>1, <2>2
<1>4. ASSUME NEW s \in Services, NEW c \in Requests(s), Request(s, c) PROVE BufferTypes'
  <2>1. CASE Busy(s) \/ OutOfTurn(c)
    BY <1>4, <2>1 DEF Request, Busy, Panic, TypeOK, BufferTypes
  <2>2. CASE ~Busy(s) /\ ~OutOfTurn(c)
    <3>1. /\ provided' = Largest(Left(s), Provide) /\ free' = Left(s) \ Largest(Left(s), Provide)
          /\ used' = [used EXCEPT ![s] = Kept(s)]
      BY <1>4, <2>2, RequestDoes
    <3>2. Kept(s) \in SUBSET Buffers /\ Left(s) \in SUBSET Buffers
      BY DEF Kept, Left, TypeOK
    <3>3. QED BY <3>1, <3>2, LargestCount, BuffersAssumption DEF TypeOK, BufferTypes
  <2>3. QED BY <2>1, <2>2
<1>5. ASSUME NEW s \in Services,
                  \/ Look(s) \/ SenderLocks \/ SenderCancelled \/ SenderSends \/ Collect
                  \/ SenderEnds \/ SenderHears \/ Closed(s) \/ ReceiverStart \/ ReceiverHears
                  \/ ReceiverEnds \/ ReceiverReads \/ ReceiverFills \/ ReceiverSignals
                  \/ ReceiverResumes \/ HandlerStart \/ HandlerHears \/ HandlerWorks
                  \/ HandlerLocks \/ HandlerSends \/ HandlerSent \/ HandlerSignals
                  \/ Accept(s) \/ Told \/ MainMarks \/ MainLocks \/ MainSends \/ MainEnds
                  \/ Connect(s) \/ Ask(s) \/ Dies(s) \/ Answer(s) \/ AskPublish \/ TakesReply
     PROVE  UNCHANGED <<used, provided, free>>
  BY <1>5 DEF Look, SenderLocks, SenderCancelled, SenderSends, Collect, SenderEnds, SenderHears,
     Closed, ReceiverStart, ReceiverHears, ReceiverEnds, ReceiverReads, ReceiverFills,
     ReceiverSignals, ReceiverResumes, HandlerStart, HandlerHears, HandlerWorks, HandlerLocks,
     HandlerSends, HandlerSent, HandlerSignals, Accept, Told, MainMarks, MainLocks, MainSends,
     MainEnds, Connect, Ask, Dies, Answer, AskPublish, TakesReply, Resume, Sends, Waiting
<1>6. QED
  BY <1>1, <1>2, <1>3, <1>4, <1>5, ServicesAssumption DEF Next, Sender, Receiver, Handler,
     MainThread, Process9, Clientele

\* The type of the sender.
LEMMA SenderTypesStep ==
    ASSUME TypeOK, PlacesInv, [Next]_vars
    PROVE  SenderTypes'
<1>1. CASE UNCHANGED <<sender>>
  BY <1>1 DEF SenderTypes, TypeOK, SenderAt
<1>2. CASE SenderStart
  BY <1>2, ServicesAssumption DEF SenderTypes, TypeOK, SenderAt, SenderStart
<1>3. ASSUME NEW s \in Services, Look(s) PROVE SenderTypes'
  BY <1>3, ServicesAssumption DEF SenderTypes, TypeOK, SenderAt, Look, Sends
<1>4. CASE SenderCancelled
  BY <1>4, ServicesAssumption DEF SenderTypes, TypeOK, SenderAt, SenderCancelled
<1>5. CASE SenderSends
  BY <1>5, ServicesAssumption DEF SenderTypes, TypeOK, SenderAt, SenderSends
<1>6. CASE Collect
  <2>1. sender \in SenderAt /\ Idle \in SUBSET Services
    BY DEF TypeOK, Idle
  <2>2. CASE sender.reply = NoService
    <3>1. sender' = [sender EXCEPT !.pc = "wait", !.snap = Idle]
      BY <1>6, <2>2 DEF Collect
    <3>2. QED BY <2>1, <3>1 DEF SenderTypes, SenderAt
  <2>3. CASE sender.reply # NoService /\ client[sender.reply] = "gone"
    <3>1. sender' = [sender EXCEPT !.pc = "send", !.reply = NoService]
      BY <1>6, <2>3 DEF Collect
    <3>2. QED BY <2>1, <3>1 DEF SenderTypes, SenderAt
  <2>4. CASE sender.reply # NoService /\ client[sender.reply] # "gone"
    <3>1. sender' = [sender EXCEPT !.pc = "wait", !.snap = Idle, !.reply = NoService]
      BY <1>6, <2>4 DEF Collect
    <3>2. QED BY <2>1, <3>1 DEF SenderTypes, SenderAt
  <2>5. QED BY <2>2, <2>3, <2>4
<1>7. CASE SenderEnds
  BY <1>7, ServicesAssumption DEF SenderTypes, TypeOK, SenderAt, SenderEnds, Waiting, Resume
<1>8. CASE SenderHears
  BY <1>8, ServicesAssumption DEF SenderTypes, TypeOK, SenderAt, SenderHears, Waiting, Resume
<1>9. ASSUME NEW s \in Services, Answered(s) PROVE SenderTypes'
  <2>1. CASE Panics(s)
    BY <1>9, <2>1 DEF Answered, Panics, Panic, TypeOK, SenderTypes
  <2>2. CASE ~Panics(s)
    <3>1. sender \in SenderAt
      BY DEF TypeOK
    <3>2. Resume(IF handle[s] THEN "collect" ELSE "send", IF handle[s] THEN s ELSE NoService)
      BY <1>9, <2>2 DEF Answered, Panics
    <3>3. QED BY <1>9, <3>1, <3>2 DEF Resume, SenderTypes, SenderAt
  <2>3. QED BY <2>1, <2>2
<1>10. ASSUME NEW s \in Services, NEW c \in Requests(s), Request(s, c) PROVE SenderTypes'
  <2>1. CASE Busy(s) \/ OutOfTurn(c)
    BY <1>10, <2>1 DEF Request, Busy, Panic, TypeOK, SenderTypes
  <2>2. CASE ~Busy(s) /\ ~OutOfTurn(c)
    BY <1>10, <2>2 DEF Request, Busy, Resume, TypeOK, SenderTypes, SenderAt
  <2>3. QED BY <2>1, <2>2
<1>11. ASSUME NEW s \in Services, Closed(s) PROVE SenderTypes'
  BY <1>11, ServicesAssumption DEF SenderTypes, TypeOK, SenderAt, Closed, Waiting, Resume
<1>12. ASSUME NEW s \in Services,
                  \/ SenderLocks \/ ReceiverStart \/ ReceiverHears \/ ReceiverEnds
                  \/ ReceiverReads \/ ReceiverFills \/ ReceiverSignals \/ ReceiverResumes
                  \/ HandlerStart \/ HandlerHears \/ HandlerWorks \/ HandlerLocks
                  \/ HandlerSends \/ HandlerSent \/ HandlerSignals \/ Accept(s) \/ Told
                  \/ MainMarks \/ MainLocks \/ MainSends \/ MainEnds \/ Connect(s) \/ Ask(s)
                  \/ Dies(s) \/ Answer(s) \/ AskPublish \/ TakesReply
     PROVE  UNCHANGED <<sender>>
  BY <1>12 DEF SenderLocks, ReceiverStart, ReceiverHears, ReceiverEnds, ReceiverReads,
     ReceiverFills, ReceiverSignals, ReceiverResumes, HandlerStart, HandlerHears, HandlerWorks,
     HandlerLocks, HandlerSends, HandlerSent, HandlerSignals, Accept, Told, MainMarks,
     MainLocks, MainSends, MainEnds, Connect, Ask, Dies, Answer, AskPublish, TakesReply
<1>13. QED
  BY <1>1, <1>2, <1>3, <1>4, <1>5, <1>6, <1>7, <1>8, <1>9, <1>10, <1>11, <1>12,
     ServicesAssumption DEF Next, Sender, Receiver, Handler, MainThread, Process9, Clientele

\* The types of the other threads.
LEMMA ReceiverTypesStep ==
    ASSUME TypeOK, PlacesInv, [Next]_vars
    PROVE  ReceiverTypes'
<1>1. CASE UNCHANGED <<receiver, handler, main>>
  BY <1>1 DEF ReceiverTypes, TypeOK, ReceiverAt, HandlerAt, MainAt
<1>2. CASE ReceiverStart
  BY <1>2, ServicesAssumption DEF ReceiverTypes, TypeOK, ReceiverAt, HandlerAt, MainAt,
     ReceiverStart
<1>3. CASE ReceiverHears
  BY <1>3, ServicesAssumption DEF ReceiverTypes, TypeOK, ReceiverAt, HandlerAt, MainAt,
     ReceiverHears
<1>4. CASE ReceiverEnds
  BY <1>4, ServicesAssumption DEF ReceiverTypes, TypeOK, ReceiverAt, HandlerAt, MainAt,
     ReceiverEnds
<1>5. CASE ReceiverReads
  <2>1. CASE fifo = <<>>
    BY <1>5, <2>1 DEF ReceiverReads, TypeOK, ReceiverAt, ReceiverTypes
  <2>2. CASE fifo # <<>>
    BY <1>5, <2>2, HeadOfFifo DEF ReceiverReads, TypeOK, ReceiverAt, ReceiverTypes
  <2>3. QED BY <2>1, <2>2
<1>6. CASE ReceiverFills
  BY <1>6, ServicesAssumption DEF ReceiverTypes, TypeOK, ReceiverAt, HandlerAt, MainAt,
     ReceiverFills
<1>7. CASE ReceiverSignals
  BY <1>7, ServicesAssumption DEF ReceiverTypes, TypeOK, ReceiverAt, HandlerAt, MainAt,
     ReceiverSignals
<1>8. CASE ReceiverResumes
  BY <1>8, ServicesAssumption DEF ReceiverTypes, TypeOK, ReceiverAt, HandlerAt, MainAt,
     ReceiverResumes
<1>9. CASE HandlerStart
  BY <1>9, ServicesAssumption DEF ReceiverTypes, TypeOK, ReceiverAt, HandlerAt, MainAt,
     HandlerStart
<1>10. CASE HandlerHears
  BY <1>10, ServicesAssumption DEF ReceiverTypes, TypeOK, ReceiverAt, HandlerAt, MainAt,
     HandlerHears
<1>11. CASE HandlerWorks
  BY <1>11, ServicesAssumption DEF ReceiverTypes, TypeOK, ReceiverAt, HandlerAt, MainAt,
     HandlerWorks
<1>12. CASE HandlerSends
  BY <1>12, ServicesAssumption DEF ReceiverTypes, TypeOK, ReceiverAt, HandlerAt, MainAt,
     HandlerSends
<1>13. CASE HandlerSent
  BY <1>13, ServicesAssumption DEF ReceiverTypes, TypeOK, ReceiverAt, HandlerAt, MainAt,
     HandlerSent
<1>14. CASE HandlerSignals
  BY <1>14, ServicesAssumption DEF ReceiverTypes, TypeOK, ReceiverAt, HandlerAt, MainAt,
     HandlerSignals
<1>15. CASE Told
  BY <1>15, ServicesAssumption DEF ReceiverTypes, TypeOK, ReceiverAt, HandlerAt, MainAt, Told
<1>16. CASE MainMarks
  BY <1>16, ServicesAssumption DEF ReceiverTypes, TypeOK, ReceiverAt, HandlerAt, MainAt,
     MainMarks
<1>17. CASE MainSends
  BY <1>17, ServicesAssumption DEF ReceiverTypes, TypeOK, ReceiverAt, HandlerAt, MainAt,
     MainSends
<1>18. CASE MainEnds
  BY <1>18, ServicesAssumption DEF ReceiverTypes, TypeOK, ReceiverAt, HandlerAt, MainAt,
     MainEnds
<1>19. ASSUME NEW s \in Services, NEW c \in Requests(s), Request(s, c)
     PROVE  UNCHANGED <<receiver, handler, main>>
  BY <1>19 DEF Request, Panic, Resume, Waiting
<1>20. ASSUME NEW s \in Services,
                  \/ SenderStart \/ Look(s) \/ SenderLocks \/ SenderCancelled \/ SenderSends
                  \/ Collect \/ SenderEnds \/ SenderHears \/ Answered(s) \/ Closed(s)
                  \/ HandlerLocks \/ Accept(s) \/ MainLocks \/ Connect(s) \/ Ask(s) \/ Dies(s)
                  \/ Answer(s) \/ AskPublish \/ TakesReply
     PROVE  UNCHANGED <<receiver, handler, main>>
  BY <1>20 DEF SenderStart, Look, SenderLocks, SenderCancelled, SenderSends, Collect,
     SenderEnds, SenderHears, Answered, Closed, HandlerLocks, Accept, MainLocks, Connect, Ask,
     Dies, Answer, AskPublish, TakesReply, IsFirst, Panic, Resume, Sends, Waiting
<1>21. QED
  BY <1>1, <1>2, <1>3, <1>4, <1>5, <1>6, <1>7, <1>8, <1>9, <1>10, <1>11, <1>12, <1>13, <1>14,
     <1>15, <1>16, <1>17, <1>18, <1>19, <1>20, ServicesAssumption DEF Next, Sender, Receiver,
     Handler, MainThread, Process9, Clientele

\* The types of the orders and counts.
LEMMA OrderTypesStep ==
    ASSUME TypeOK, PlacesInv, [Next]_vars
    PROVE  OrderTypes'
<1>1. CASE UNCHANGED <<latest, pending, disabled, replySem, fifo, at9, odd, mutex>>
  BY <1>1 DEF OrderTypes, TypeOK
<1>2. ASSUME NEW s \in Services, Look(s) PROVE OrderTypes'
  BY <1>2, ServicesAssumption DEF OrderTypes, TypeOK, Look, Sends
<1>3. CASE SenderLocks
  BY <1>3, ServicesAssumption DEF OrderTypes, TypeOK, SenderLocks
<1>4. CASE SenderSends
  BY <1>4, ServicesAssumption DEF OrderTypes, TypeOK, PlacesInv, SenderSends
<1>5. ASSUME NEW s \in Services, Answered(s) PROVE OrderTypes'
  <2>1. CASE Panics(s)
    BY <1>5, <2>1 DEF Answered, Panics, Panic, TypeOK, OrderTypes
  <2>2. CASE ~Panics(s)
    <3>1. replySem > 0 /\ replySem' = replySem - 1 /\ disabled' = (disabled /\ latest # 2)
      BY <1>5, <2>2, AnsweredDoes
    <3>2. UNCHANGED <<latest, fifo, at9, odd, mutex>>
      BY <1>5, <2>2, AnsweredDoes DEF othersOfBoth
    <3>3. pending' \in Int
      BY <1>5, <2>2, AnsweredDoes DEF TypeOK
    <3>4. replySem' \in Nat
      BY <3>1 DEF TypeOK
    <3>5. disabled' \in BOOLEAN
      BY <3>1
    <3>6. QED BY <3>2, <3>3, <3>4, <3>5 DEF TypeOK, OrderTypes
  <2>3. QED BY <2>1, <2>2
<1>6. ASSUME NEW s \in Services, NEW c \in Requests(s), Request(s, c) PROVE OrderTypes'
  <2>1. CASE Busy(s) \/ OutOfTurn(c)
    BY <1>6, <2>1 DEF Request, Busy, Panic, TypeOK, OrderTypes
  <2>2. CASE ~Busy(s) /\ ~OutOfTurn(c)
    <3>1. c \in {"plain", "sleep", "wake"}
      BY <1>6 DEF Requests, Commands
    <3>2. latest' \in 0..2
      BY <1>6, <2>2, <3>1, RequestDoes
    <3>3. disabled' \in BOOLEAN
      BY <1>6, <2>2, RequestDoes
    <3>4. odd' \in SUBSET {"crossed", "short", "inuse", "late"}
      BY <1>6 DEF Request, TypeOK
    <3>5. UNCHANGED <<pending, replySem, fifo, at9, mutex>>
      BY <1>6, <2>2, RequestDoes DEF othersOfBoth
    <3>6. QED BY <3>2, <3>3, <3>4, <3>5 DEF TypeOK, OrderTypes
  <2>3. QED BY <2>1, <2>2
<1>7. CASE ReceiverReads
  <2>1. CASE fifo = <<>>
    BY <1>7, <2>1 DEF ReceiverReads, TypeOK, OrderTypes
  <2>2. CASE fifo # <<>>
    BY <1>7, <2>2, HeadOfFifo DEF ReceiverReads, TypeOK, OrderTypes
  <2>3. QED BY <2>1, <2>2
<1>8. CASE ReceiverSignals
  BY <1>8, ServicesAssumption DEF OrderTypes, TypeOK, ReceiverSignals
<1>9. CASE HandlerLocks
  BY <1>9, ServicesAssumption DEF OrderTypes, TypeOK, HandlerLocks
<1>10. CASE HandlerSends
  BY <1>10, ServicesAssumption DEF OrderTypes, TypeOK, HandlerSends
<1>11. CASE Told
  BY <1>11, ServicesAssumption DEF OrderTypes, TypeOK, Told
<1>12. CASE MainLocks
  BY <1>12, ServicesAssumption DEF OrderTypes, TypeOK, MainLocks
<1>13. CASE MainSends
  BY <1>13, ServicesAssumption DEF OrderTypes, TypeOK, MainSends
<1>14. ASSUME NEW s \in Services, Answer(s) PROVE OrderTypes'
  BY <1>14, ServicesAssumption DEF OrderTypes, TypeOK, Answer
<1>15. CASE AskPublish
  BY <1>15, ServicesAssumption DEF OrderTypes, TypeOK, AskPublish
<1>16. CASE TakesReply
  BY <1>16, ServicesAssumption DEF OrderTypes, TypeOK, TakesReply
<1>17. ASSUME NEW s \in Services,
                  \/ SenderStart \/ SenderCancelled \/ Collect \/ SenderEnds \/ SenderHears
                  \/ Closed(s) \/ ReceiverStart \/ ReceiverHears \/ ReceiverEnds
                  \/ ReceiverFills \/ ReceiverResumes \/ HandlerStart \/ HandlerHears
                  \/ HandlerWorks \/ HandlerSent \/ HandlerSignals \/ Accept(s) \/ MainMarks
                  \/ MainEnds \/ Connect(s) \/ Ask(s) \/ Dies(s)
     PROVE  UNCHANGED <<latest, pending, disabled, replySem, fifo, at9, odd, mutex>>
  BY <1>17 DEF SenderStart, SenderCancelled, Collect, SenderEnds, SenderHears, Closed,
     ReceiverStart, ReceiverHears, ReceiverEnds, ReceiverFills, ReceiverResumes, HandlerStart,
     HandlerHears, HandlerWorks, HandlerSent, HandlerSignals, Accept, MainMarks, MainEnds,
     Connect, Ask, Dies, Resume, Waiting
<1>18. QED
  BY <1>1, <1>2, <1>3, <1>4, <1>5, <1>6, <1>7, <1>8, <1>9, <1>10, <1>11, <1>12, <1>13, <1>14,
     <1>15, <1>16, <1>17, ServicesAssumption DEF Next, Sender, Receiver, Handler, MainThread,
     Process9, Clientele

\* The types of the flags.
LEMMA FlagTypesStep ==
    ASSUME TypeOK, PlacesInv, [Next]_vars
    PROVE  FlagTypes'
<1>1. CASE UNCHANGED <<newSession, received, replySent, terminate, shouldTerminate, irq,
                        asks9, panicked>>
  BY <1>1 DEF FlagTypes, TypeOK
<1>2. CASE SenderHears
  BY <1>2, ServicesAssumption DEF FlagTypes, TypeOK, SenderHears, Waiting, Resume
<1>3. ASSUME NEW s \in Services, Answered(s) PROVE FlagTypes'
  <2>1. CASE Panics(s)
    BY <1>3, <2>1 DEF Answered, Panics, Panic, TypeOK, FlagTypes
  <2>2. CASE ~Panics(s)
    BY <1>3, <2>2, AnsweredDoes DEF othersOfBoth, TypeOK, FlagTypes
  <2>3. QED BY <2>1, <2>2
<1>4. ASSUME NEW s \in Services, NEW c \in Requests(s), Request(s, c) PROVE FlagTypes'
  <2>1. CASE Busy(s) \/ OutOfTurn(c)
    BY <1>4, <2>1 DEF Request, Busy, Panic, TypeOK, FlagTypes
  <2>2. CASE ~Busy(s) /\ ~OutOfTurn(c)
    BY <1>4, <2>2, RequestDoes, ServicesAssumption DEF Requests, Commands, othersOfBoth,
       TypeOK, FlagTypes
  <2>3. QED BY <2>1, <2>2
<1>5. CASE ReceiverStart
  BY <1>5, ServicesAssumption DEF FlagTypes, TypeOK, ReceiverStart
<1>6. CASE ReceiverHears
  BY <1>6, ServicesAssumption DEF FlagTypes, TypeOK, ReceiverHears
<1>7. CASE ReceiverReads
  BY <1>7, ServicesAssumption DEF FlagTypes, TypeOK, ReceiverReads
<1>8. CASE ReceiverSignals
  BY <1>8, ServicesAssumption DEF FlagTypes, TypeOK, ReceiverSignals
<1>9. CASE ReceiverResumes
  BY <1>9, ServicesAssumption DEF FlagTypes, TypeOK, ReceiverResumes
<1>10. CASE HandlerHears
  BY <1>10, ServicesAssumption DEF FlagTypes, TypeOK, HandlerHears
<1>11. CASE HandlerWorks
  BY <1>11, ServicesAssumption DEF FlagTypes, TypeOK, HandlerWorks
<1>12. CASE HandlerLocks
  BY <1>12, ServicesAssumption DEF FlagTypes, TypeOK, HandlerLocks
<1>13. CASE HandlerSignals
  BY <1>13, ServicesAssumption DEF FlagTypes, TypeOK, HandlerSignals
<1>14. ASSUME NEW s \in Services, Accept(s) PROVE FlagTypes'
  BY <1>14, ServicesAssumption DEF FlagTypes, TypeOK, Accept
<1>15. CASE Told
  BY <1>15, ServicesAssumption DEF FlagTypes, TypeOK, Told
<1>16. ASSUME NEW s \in Services, Answer(s) PROVE FlagTypes'
  BY <1>16, ServicesAssumption DEF FlagTypes, TypeOK, Answer
<1>17. CASE AskPublish
  BY <1>17, ServicesAssumption DEF FlagTypes, TypeOK, AskPublish
<1>18. CASE TakesReply
  BY <1>18, ServicesAssumption DEF FlagTypes, TypeOK, TakesReply
<1>19. ASSUME NEW s \in Services,
                  \/ SenderStart \/ Look(s) \/ SenderLocks \/ SenderCancelled \/ SenderSends
                  \/ Collect \/ SenderEnds \/ Closed(s) \/ ReceiverEnds \/ ReceiverFills
                  \/ HandlerStart \/ HandlerSends \/ HandlerSent \/ MainMarks \/ MainLocks
                  \/ MainSends \/ MainEnds \/ Connect(s) \/ Ask(s) \/ Dies(s)
     PROVE  UNCHANGED <<newSession, received, replySent, terminate, shouldTerminate, irq,
                        asks9, panicked>>
  BY <1>19 DEF SenderStart, Look, SenderLocks, SenderCancelled, SenderSends, Collect,
     SenderEnds, Closed, ReceiverEnds, ReceiverFills, HandlerStart, HandlerSends, HandlerSent,
     MainMarks, MainLocks, MainSends, MainEnds, Connect, Ask, Dies, Resume, Sends, Waiting
<1>20. QED
  BY <1>1, <1>2, <1>3, <1>4, <1>5, <1>6, <1>7, <1>8, <1>9, <1>10, <1>11, <1>12, <1>13, <1>14,
     <1>15, <1>16, <1>17, <1>18, <1>19, ServicesAssumption DEF Next, Sender, Receiver, Handler,
     MainThread, Process9, Clientele

\* The variables keep their types.
LEMMA TypeStep ==
    ASSUME TypeOK, PlacesInv, [Next]_vars
    PROVE  TypeOK'
<1>1. /\ SessionTypes' /\ BufferTypes' /\ SenderTypes'
      /\ ReceiverTypes' /\ OrderTypes' /\ FlagTypes'
  BY SessionTypesStep, BufferTypesStep, SenderTypesStep, ReceiverTypesStep, OrderTypesStep,
     FlagTypesStep
<1>2. QED
  BY <1>1 DEF TypeOK, SessionTypes, BufferTypes, SenderTypes, ReceiverTypes, OrderTypes, FlagTypes

\* Each reachable state satisfies the inductive invariant.
LEMMA InvInit == Init => Inv
<1> SUFFICES ASSUME Init PROVE Inv
  OBVIOUS
<1>1. Cardinality({}) = 0
  BY FS_EmptySet
<1>2. TypeOK
  <2>1. SessionTypes
    BY DEF Init, SessionTypes, States, Commands, Clients
  <2>2. BufferTypes
    BY <1>1, BuffersAssumption DEF Init, BufferTypes
  <2>3. SenderTypes /\ ReceiverTypes
    BY DEF Init, SenderTypes, ReceiverTypes, SenderAt, ReceiverAt, HandlerAt, MainAt
  <2>4. OrderTypes /\ FlagTypes
    <3>1. fifo \in Seq(All)
      BY DEF Init
    <3>2. latest = 0 /\ pending = 0 /\ replySem = 0
      BY DEF Init
    <3>5. latest \in 0..2 /\ pending \in Int /\ replySem \in Nat
      BY <3>2
    <3>6. /\ disabled \in BOOLEAN /\ at9 \in SUBSET All
          /\ odd \in SUBSET {"crossed", "short", "inuse", "late"}
      BY DEF Init
    <3>7. mutex \in {"sender", "handler", "main", "free"}
      BY DEF Init
    <3>3. FlagTypes
      BY DEF Init, FlagTypes
    <3>4. QED BY <3>1, <3>3, <3>5, <3>6, <3>7 DEF OrderTypes
  <2>5. QED
    BY <2>1, <2>2, <2>3, <2>4
       DEF TypeOK, SessionTypes, BufferTypes, SenderTypes, ReceiverTypes, OrderTypes, FlagTypes
<1>3. PlacesInv /\ TurnsInv
  BY ServicesAssumption DEF Init, PlacesInv, TurnsInv
<1>4. HaveAnswer(Services) = {} /\ HaveAnswer(Services \ {Mc}) = {}
  BY DEF Init, HaveAnswer
<1>5. CountInv
  BY <1>1, <1>4 DEF Init, CountInv, Announced
<1>6. HandleInv
  BY DEF Init, HandleInv, Busy
<1>7. BufferInv
  BY DEF Init, BufferInv, Busy
<1>8. TokenInv /\ LastInv
  BY ServicesAssumption
     DEF Init, TokenInv, LastInv, LastAnswer, Busy, InFifo, Sending, Filling, Signalling
<1>9. UnderWay = {}
  BY DEF Init, UnderWay
<1>10. SleepInv
  BY <1>1, <1>9 DEF Init, SleepInv, SleepRules, Busy
<1>11. NeverPanics
  BY DEF Init, NeverPanics
<1>12. QED
  BY <1>2, <1>3, <1>5, <1>6, <1>7, <1>8, <1>10, <1>11 DEF Inv

\* Every step preserves the inductive invariant.
LEMMA InvStep == Inv /\ [Next]_vars => Inv'
<1> SUFFICES ASSUME Inv, [Next]_vars PROVE Inv'
  OBVIOUS
<1>1. /\ TypeOK /\ PlacesInv /\ TurnsInv /\ CountInv /\ HandleInv /\ BufferInv
      /\ TokenInv /\ LastInv /\ SleepInv /\ NeverPanics
  BY DEF Inv
<1>2. TypeOK' /\ PlacesInv' /\ TurnsInv' /\ CountInv' /\ HandleInv'
  BY <1>1, TypeStep, PlacesStep, TurnsStep, CountStep, HandleStep
<1>3. BufferInv' /\ TokenInv' /\ LastInv' /\ SleepInv' /\ NeverPanics'
  BY <1>1, BufferStep, TokenStep, LastStep, SleepStep, PanicStep
<1>4. QED BY <1>2, <1>3 DEF Inv

\* Every reachable state satisfies the inductive invariant.
THEOREM InvHolds == Spec => []Inv
BY InvInit, InvStep, PTL DEF Spec

-----------------------------------------------------------------------------
(* The sleep                                                               *)

\* pxi:mc alone orders the sleep and the wake, and its last request tells which was last.
CommandInv ==
    /\ \A s \in Services : command[s] # "plain" => s = Mc
    /\ latest = 1 => disabled /\ command[Mc] = "sleep"
    /\ latest = 2 => command[Mc] = "wake"
    /\ command[Mc] = "sleep" => disabled

\* While the order to sleep is the last request, no other waits to be sent; and the sender
\* waits only when it has sent all that it may.
HeldInv ==
    /\ latest = 1 => \A s \in Services \ {Mc} : ~(handle[s] /\ state[s] = "from11")
    /\ sender.pc \in {"wait", "collect"} => \A s \in Services : ~Sends(s)

\* The sender has a service in hand only while it sends.
CurInv == sender.pc \in {"start", "send", "collect", "wait"} => sender.cur = NoService

QuietInv == CommandInv /\ HeldInv /\ CurInv

\* Only a request and the answer to the wake change what CommandInv speaks of.
LEMMA CommandStep ==
    ASSUME TypeOK, CommandInv, [Next]_vars
    PROVE  CommandInv'
<1>1. CASE UNCHANGED <<command, latest, disabled>>
  BY <1>1 DEF CommandInv
<1>2. ASSUME NEW s \in Services, Answered(s) PROVE CommandInv'
  <2>1. CASE Panics(s)
    BY <1>2, <2>1 DEF Answered, Panics, Panic, CommandInv
  <2>2. CASE ~Panics(s)
    <3>1. disabled' = (disabled /\ latest # 2) /\ UNCHANGED <<command, latest>>
      BY <1>2, <2>2, AnsweredDoes
    <3>2. disabled /\ latest # 2 => disabled'
      BY <3>1
    <3>3. QED BY <3>1, <3>2 DEF CommandInv
  <2>3. QED BY <2>1, <2>2
<1>3. ASSUME NEW s \in Services, NEW c \in Requests(s), Request(s, c) PROVE CommandInv'
  <2>1. CASE Busy(s) \/ OutOfTurn(c)
    BY <1>3, <2>1 DEF Request, Busy, Panic, CommandInv
  <2>2. CASE ~Busy(s) /\ ~OutOfTurn(c)
    <3>1. /\ latest' = CASE c = "plain" -> 0 [] c = "sleep" -> 1 [] c = "wake" -> 2
          /\ disabled' = (disabled \/ c = "sleep")
          /\ command' = [command EXCEPT ![s] = c]
      BY <1>3, <2>2, RequestDoes
    <3>2. c \in Commands /\ (s # Mc => c = "plain")
      BY <1>3 DEF Requests, Commands
    <3>3. c = "wake" => disabled
      BY <2>2 DEF OutOfTurn
    <3>4. command \in [Services -> Commands] /\ Mc \in Services
      BY ServicesAssumption DEF TypeOK
    <3>5. c = "plain" => latest' = 0
      BY <3>1
    <3>6. c = "sleep" => latest' = 1 /\ disabled'
      BY <3>1
    <3>7. c = "wake" => latest' = 2 /\ disabled'
      BY <3>1, <3>3
    <3>8. \A t \in Services : command'[t] = IF t = s THEN c ELSE command[t]
      BY <3>1, <3>4
    <3>9. command'[Mc] = "sleep" => disabled'
      BY <3>1, <3>4, <3>6, <3>8 DEF CommandInv
    <3>10. \A t \in Services : command'[t] # "plain" => t = Mc
      BY <3>2, <3>8 DEF CommandInv
    <3>11. latest' = 1 => disabled' /\ command'[Mc] = "sleep"
      BY <3>2, <3>4, <3>5, <3>6, <3>7, <3>8 DEF Commands
    <3>12. latest' = 2 => command'[Mc] = "wake"
      BY <3>2, <3>4, <3>5, <3>6, <3>7, <3>8 DEF Commands
    <3>13. QED BY <3>9, <3>10, <3>11, <3>12 DEF CommandInv
  <2>3. QED BY <2>1, <2>2
<1>4. ASSUME NEW s \in Services,
                  \/ SenderStart \/ Look(s) \/ SenderLocks \/ SenderCancelled \/ SenderSends
                  \/ Collect \/ SenderEnds \/ SenderHears \/ Closed(s)
     PROVE  UNCHANGED <<command, latest, disabled>>
  BY <1>4 DEF SenderStart, Look, SenderLocks, SenderCancelled, SenderSends, Collect,
     SenderEnds, SenderHears, Closed
<1>5. ASSUME Receiver \/ Handler PROVE UNCHANGED <<command, latest, disabled>>
  BY <1>5 DEF Receiver, ReceiverStart, ReceiverHears, ReceiverEnds, ReceiverReads,
     ReceiverFills, ReceiverSignals, ReceiverResumes, Handler, HandlerStart, HandlerHears,
     HandlerWorks, HandlerLocks, HandlerSends, HandlerSent, HandlerSignals
<1>6. ASSUME MainThread \/ Told \/ Process9 \/ AskPublish \/ Clientele
     PROVE  UNCHANGED <<command, latest, disabled>>
  BY <1>6 DEF MainThread, MainMarks, MainLocks, MainSends, MainEnds, Accept, Told, Process9,
     TakesReply, Answer, AskPublish, Clientele, Connect, Ask, Dies
<1>7. QED
  BY <1>1, <1>2, <1>3, <1>4, <1>5, <1>6, ServicesAssumption DEF Next, Sender

\* The sender takes a service in hand when it sends, and lets go of it when it has.
LEMMA CurStep ==
    ASSUME TypeOK, CurInv, [Next]_vars
    PROVE  CurInv'
<1>1. sender \in SenderAt
  BY DEF TypeOK
<1>2. CASE UNCHANGED sender
  BY <1>2 DEF CurInv
<1>3. CASE SenderStart \/ SenderCancelled \/ SenderSends
  BY <1>1, <1>3 DEF CurInv, SenderAt, SenderStart, SenderCancelled, SenderSends
<1>4. ASSUME NEW s \in Services, Look(s) PROVE CurInv'
  BY <1>1, <1>4 DEF CurInv, SenderAt, Look
<1>5. CASE Collect
  BY <1>5, CollectDoes DEF CurInv
<1>6. CASE SenderEnds \/ SenderHears
  BY <1>6, ResumeGoes DEF CurInv, SenderEnds, SenderHears, Waiting
<1>7. ASSUME NEW s \in Services, Closed(s) PROVE CurInv'
  BY <1>7, ResumeGoes DEF CurInv, Closed, Waiting
<1>8. ASSUME NEW s \in Services, Answered(s) PROVE CurInv'
  <2>1. CASE Panics(s)
    BY <1>2, <1>8, <2>1 DEF Answered, Panics, Panic
  <2>2. CASE ~Panics(s)
    BY <1>8, <2>2, AnsweredDoes DEF CurInv
  <2>3. QED BY <2>1, <2>2
<1>9. ASSUME NEW s \in Services, NEW c \in Requests(s), Request(s, c) PROVE CurInv'
  <2>1. CASE Busy(s) \/ OutOfTurn(c)
    BY <1>2, <1>9, <2>1 DEF Request, Busy, Panic
  <2>2. CASE ~Busy(s) /\ ~OutOfTurn(c)
    BY <1>9, <2>2, RequestDoes DEF CurInv
  <2>3. QED BY <2>1, <2>2
<1>10. ASSUME Receiver \/ Handler PROVE UNCHANGED sender
  BY <1>10 DEF Receiver, ReceiverStart, ReceiverHears, ReceiverEnds, ReceiverReads,
     ReceiverFills, ReceiverSignals, ReceiverResumes, Handler, HandlerStart, HandlerHears,
     HandlerWorks, HandlerLocks, HandlerSends, HandlerSent, HandlerSignals
<1>11. ASSUME MainThread \/ Told \/ Process9 \/ AskPublish \/ Clientele
     PROVE  UNCHANGED sender
  BY <1>11 DEF MainThread, MainMarks, MainLocks, MainSends, MainEnds, Accept, Told, Process9,
     TakesReply, Answer, AskPublish, Clientele, Connect, Ask, Dies
<1>12. CASE SenderLocks
  BY <1>2, <1>12 DEF SenderLocks
<1>13. QED
  BY <1>2, <1>3, <1>4, <1>5, <1>6, <1>7, <1>8, <1>9, <1>10, <1>11, <1>12 DEF Next, Sender

\* What the sender may send grows by no step while it waits; and no session comes to wait
\* behind the order to sleep.
LEMMA HeldStep ==
    ASSUME TypeOK, PlacesInv, TurnsInv, HandleInv, CommandInv, HeldInv, [Next]_vars
    PROVE  HeldInv'
<1> DEFINE May(s) == handle[s] /\ state[s] = "from11"
           Free == disabled => pending = 0 /\ latest # 0
<1>1. \A s \in Services : Sends(s) <=> May(s) /\ Free
  BY DEF Sends
<1>2. \A s \in Services : Sends(s)' <=> May(s)' /\ Free'
  BY DEF Sends
<1>3. sender \in SenderAt /\ state \in [All -> States] /\ handle \in [Services -> BOOLEAN]
      /\ Mc \in Services /\ Srv11 \notin Services
  BY ServicesAssumption DEF TypeOK
\* the steps after which no more may be sent than before
<1>4. ASSUME UNCHANGED <<latest, pending, disabled>>,
             \A s \in Services : May(s)' => May(s),
             sender'.pc \in {"wait", "collect"} => sender.pc \in {"wait", "collect"}
     PROVE  HeldInv'
  <2>1. Free' <=> Free
    BY <1>4
  <2>2. latest' = 1 => \A s \in Services \ {Mc} : ~May(s)'
    BY <1>4 DEF HeldInv
  <2>3. sender'.pc \in {"wait", "collect"} => \A s \in Services : ~Sends(s)'
    <3>1. ASSUME sender'.pc \in {"wait", "collect"}, NEW s \in Services, Sends(s)' PROVE FALSE
      <4>1. May(s)' /\ Free'
        BY <1>2, <3>1
      <4>2. Sends(s)
        BY <1>1, <1>4, <2>1, <4>1
      <4>3. QED BY <1>4, <3>1, <4>2 DEF HeldInv
    <3>2. QED BY <3>1
  <2>4. QED BY <2>2, <2>3 DEF HeldInv
<1>5. CASE UNCHANGED <<state, handle, latest, pending, disabled, sender>>
  <2>1. \A s \in Services : May(s)' <=> May(s)
    BY <1>5
  <2>2. QED BY <1>4, <1>5, <2>1
<1>6. CASE SenderStart
  BY <1>3, <1>4, <1>6 DEF SenderStart, SenderAt
<1>7. ASSUME NEW s \in Services, Look(s) PROVE HeldInv'
  <2>1. /\ state' = [state EXCEPT ![s] = "sent"] /\ UNCHANGED <<handle, latest>>
        /\ sender'.pc = "sending"
    BY <1>3, <1>7 DEF Look, SenderAt
  <2>2. \A t \in Services : May(t)' => May(t)
    BY <1>3, <2>1
  <2>3. QED BY <2>1, <2>2 DEF HeldInv
<1>8. CASE SenderSends
  BY <1>3, <1>4, <1>8 DEF SenderSends, SenderAt
<1>9. CASE SenderCancelled
  BY <1>3, <1>4, <1>9 DEF SenderCancelled, SenderAt
<1>10. CASE Collect
  <2>1. /\ sender.pc \in {"collect", "send"} /\ UNCHANGED <<state, latest, pending, disabled>>
        /\ sender.pc = "send" => \A s \in Services : ~Sends(s)
        /\ handle' = handle \/ handle' = [handle EXCEPT ![sender.reply] = FALSE]
    BY <1>10, CollectDoes
  <2>2. \A s \in Services : May(s)' => May(s)
    BY <1>3, <2>1
  <2>3. Free' <=> Free
    BY <2>1
  <2>4. \A s \in Services : ~Sends(s)
    BY <2>1 DEF HeldInv
  <2>5. \A s \in Services : ~Sends(s)'
    BY <1>1, <1>2, <2>2, <2>3, <2>4
  <2>6. QED BY <2>1, <2>2, <2>5 DEF HeldInv
<1>11. CASE SenderEnds
  <2>1. sender.pc = "wait"
    BY <1>11 DEF SenderEnds, Waiting
  <2>2. \A s \in Services : ~handle'[s]
    BY <1>11 DEF SenderEnds
  <2>3. latest' = latest /\ sender'.pc = "end"
    BY <1>11, ResumeGoes DEF SenderEnds
  <2>4. QED BY <2>2, <2>3 DEF HeldInv
<1>12. CASE SenderHears
  <2>1. sender'.pc = "send" /\ UNCHANGED <<state, handle, latest, pending, disabled>>
    BY <1>12, ResumeGoes DEF SenderHears
  <2>2. QED BY <1>4, <2>1
<1>13. ASSUME NEW s \in Services, Closed(s) PROVE HeldInv'
  <2>1. /\ sender'.pc = "send" /\ UNCHANGED <<state, latest, pending, disabled>>
        /\ handle' = [handle EXCEPT ![s] = FALSE]
    BY <1>13, ResumeGoes DEF Closed
  <2>2. \A t \in Services : May(t)' => May(t)
    BY <1>3, <2>1
  <2>3. QED BY <1>4, <2>1, <2>2
<1>14. ASSUME NEW s \in Services, Answered(s) PROVE HeldInv'
  <2>1. CASE Panics(s)
    BY <1>5, <1>14, <2>1 DEF Answered, Panics, Panic
  <2>2. CASE ~Panics(s)
    <3>1. /\ sender.pc = "wait" /\ state' = [state EXCEPT ![s] = "idle"]
          /\ disabled' = (disabled /\ latest # 2)
          /\ pending' = IF latest = 0 THEN pending - 1 ELSE pending
          /\ UNCHANGED <<handle, latest>>
      BY <1>14, <2>2, AnsweredDoes DEF othersOfBoth
    <3>2. latest = 2 => pending = 0
      BY <2>2 DEF Panics
    <3>3. \A t \in Services : May(t)' => May(t)
      BY <1>3, <3>1
    <3>4. Free' => Free
      <4>1. CASE latest = 2
        BY <3>2, <4>1
      <4>2. CASE latest # 2 /\ disabled
        <5>1. disabled' /\ latest' = latest
          BY <3>1, <4>2
        <5>2. latest # 0 => pending' = pending
          BY <3>1
        <5>3. QED BY <5>1, <5>2
      <4>3. CASE ~disabled
        BY <4>3
      <4>4. QED BY <4>1, <4>2, <4>3
    <3>5. \A t \in Services : ~Sends(t)
      BY <3>1 DEF HeldInv
    <3>6. \A t \in Services : ~Sends(t)'
      BY <1>1, <1>2, <3>3, <3>4, <3>5
    <3>7. QED BY <3>1, <3>3, <3>6 DEF HeldInv
  <2>3. QED BY <2>1, <2>2
<1>15. ASSUME NEW s \in Services, NEW c \in Requests(s), Request(s, c) PROVE HeldInv'
  <2>1. CASE Busy(s) \/ OutOfTurn(c)
    BY <1>5, <1>15, <2>1 DEF Request, Busy, Panic
  <2>2. CASE ~Busy(s) /\ ~OutOfTurn(c)
    <3>1. /\ sender.pc = "wait" /\ sender'.pc = "send"
          /\ latest' = CASE c = "plain" -> 0 [] c = "sleep" -> 1 [] c = "wake" -> 2
          /\ state' = [state EXCEPT ![s] = "from11"] /\ UNCHANGED handle
      BY <1>15, <2>2, RequestDoes DEF othersOfBoth
    <3>2. c \in Commands /\ (s # Mc => c = "plain")
      BY <1>15 DEF Requests, Commands
    <3>3. ASSUME latest' = 1 PROVE \A t \in Services \ {Mc} : ~May(t)'
      <4>1. c = "sleep"
        BY <3>1, <3>2, <3>3 DEF Commands
      <4>2. ~disabled /\ s = Mc
        BY <2>2, <3>2, <4>1 DEF OutOfTurn
      <4>3. \A t \in Services : ~May(t)
        BY <1>1, <3>1, <4>2 DEF HeldInv
      <4>4. QED BY <1>3, <3>1, <4>2, <4>3
    <3>4. QED BY <3>1, <3>3 DEF HeldInv
  <2>3. QED BY <2>1, <2>2
<1>16. ASSUME NEW s \in Services, Running, Accept(s) PROVE HeldInv'
  <2>1. UNCHANGED <<state, latest, pending, disabled, sender>> /\ main = "run"
        /\ (handle' = handle \/ (~handle[s] /\ handle' = [handle EXCEPT ![s] = TRUE]))
    BY <1>16 DEF Accept
  <2>2. ~handle[s] => state[s] = "idle"
    BY <1>16, <2>1 DEF HandleInv, Busy, Odd, Running
  <2>3. \A t \in Services : May(t)' => May(t)
    BY <1>3, <2>1, <2>2
  <2>4. QED BY <1>4, <2>1, <2>3
<1>17. CASE ReceiverFills
  <2>1. /\ state' = [state EXCEPT ![receiver.cur] = "from9"]
        /\ UNCHANGED <<handle, latest, pending, disabled, sender>>
    BY <1>17 DEF ReceiverFills
  <2>2. \A t \in Services : May(t)' => May(t)
    BY <1>3, <2>1
  <2>3. QED BY <1>4, <2>1, <2>2
<1>18. CASE HandlerStart \/ HandlerWorks \/ HandlerSent
  <2>1. /\ UNCHANGED <<handle, latest, pending, disabled, sender>>
        /\ \A t \in Services : state'[t] = state[t]
    BY <1>3, <1>18 DEF HandlerStart, HandlerWorks, HandlerSent
  <2>2. \A t \in Services : May(t)' => May(t)
    BY <2>1
  <2>3. QED BY <1>4, <2>1, <2>2
<1>19. CASE MainMarks
  <2>1. /\ UNCHANGED <<handle, latest, pending, disabled, sender>>
        /\ state' = [state EXCEPT ![Mc] = "sent"]
    BY <1>19 DEF MainMarks
  <2>2. \A t \in Services : May(t)' => May(t)
    BY <1>3, <2>1
  <2>3. QED BY <1>4, <2>1, <2>2
<1>20. ASSUME \/ SenderLocks \/ ReceiverStart \/ ReceiverHears \/ ReceiverEnds \/ ReceiverReads
              \/ ReceiverSignals \/ ReceiverResumes \/ HandlerHears \/ HandlerLocks
              \/ HandlerSends \/ HandlerSignals
      PROVE  UNCHANGED <<state, handle, latest, pending, disabled, sender>>
  BY <1>20 DEF SenderLocks, ReceiverStart, ReceiverHears, ReceiverEnds, ReceiverReads,
     ReceiverSignals, ReceiverResumes, HandlerHears, HandlerLocks, HandlerSends, HandlerSignals
<1>21. ASSUME \/ MainLocks \/ MainSends \/ MainEnds \/ Told \/ Process9 \/ AskPublish
              \/ Clientele
      PROVE  UNCHANGED <<state, handle, latest, pending, disabled, sender>>
  BY <1>21 DEF MainLocks, MainSends, MainEnds, Told, Process9, TakesReply, Answer, AskPublish,
     Clientele, Connect, Ask, Dies
<1>22. QED
  BY <1>5, <1>6, <1>7, <1>8, <1>9, <1>10, <1>11, <1>12, <1>13, <1>14, <1>15, <1>16, <1>17,
     <1>18, <1>19, <1>20, <1>21 DEF Next, Sender, Receiver, Handler, MainThread

\* Every reachable state satisfies the rules of the sleep.
LEMMA QuietHolds == Spec => []QuietInv
<1>1. ASSUME Init PROVE QuietInv
  BY <1>1, ServicesAssumption DEF Init, QuietInv, CommandInv, HeldInv, CurInv
<1>2. ASSUME Inv, QuietInv, [Next]_vars PROVE QuietInv'
  BY <1>2, CommandStep, HeldStep, CurStep DEF Inv, QuietInv
<1>3. QED BY <1>1, <1>2, InvHolds, PTL DEF Spec

\* The service that the sender takes in hand has its request sent.
LEMMA LookOnly ==
    ASSUME TypeOK, CurInv, [Next]_vars, NEW s \in Services, sender.pc = "send", sender'.cur = s
    PROVE  Running /\ Look(s)
<1>1. sender \in SenderAt /\ s # NoService /\ sender.cur = NoService
  BY ServicesAssumption DEF TypeOK, CurInv
<1>2. sender' # sender
  BY <1>1
<1>3. ~Collect
  BY <1>1, CollectDoes
<1>4. ~SenderStart /\ ~SenderLocks /\ ~SenderCancelled /\ ~SenderSends /\ ~SenderEnds /\ ~SenderHears
  BY DEF SenderStart, SenderLocks, SenderCancelled, SenderSends, SenderEnds, SenderHears, Waiting
<1>5. ASSUME NEW t \in Services, Look(t) PROVE t = s
  BY <1>1, <1>5 DEF Look, SenderAt
<1>6. \A t \in Services : ~Answered(t) /\ ~Closed(t) /\ \A c \in Requests(t) : ~Request(t, c)
  BY DEF Answered, Closed, Request, Waiting
<1>7. ~Receiver /\ ~Handler
  BY <1>2 DEF Receiver, ReceiverStart, ReceiverHears, ReceiverEnds, ReceiverReads,
     ReceiverFills, ReceiverSignals, ReceiverResumes, Handler, HandlerStart, HandlerHears,
     HandlerWorks, HandlerLocks, HandlerSends, HandlerSent, HandlerSignals
<1>8. ~MainThread /\ ~Told /\ ~Process9 /\ ~AskPublish /\ ~Clientele
  BY <1>2 DEF MainThread, MainMarks, MainLocks, MainSends, MainEnds, Accept, Told, Process9,
     TakesReply, Answer, AskPublish, Clientele, Connect, Ask, Dies
<1>9. QED BY <1>2, <1>3, <1>4, <1>5, <1>6, <1>7, <1>8 DEF Next, Sender

\* The step that sends is quiet.
LEMMA QuietStep ==
    ASSUME Inv, QuietInv, [Next]_vars, NEW s \in Services, sender.pc = "send", sender'.cur = s
    PROVE  /\ (command[s] = "sleep" /\ "crossed" \notin odd) => InFlight = {}
           /\ (command[s] = "plain" /\ disabled) => command[Mc] = "wake"
<1>1. TypeOK /\ SleepInv /\ CommandInv /\ HeldInv /\ CurInv
  BY DEF Inv, QuietInv
<1>2. Running /\ Look(s)
  BY <1>1, LookOnly
<1>3. handle[s] /\ state[s] = "from11" /\ (disabled => latest # 0)
  BY <1>2 DEF Look, Sends
<1>4. ~Odd("inuse")
  BY <1>2 DEF Running, Odd
<1>5. ASSUME command[s] = "sleep", ~Odd("crossed") PROVE InFlight = {}
  <2>1. s = Mc /\ disabled
    BY <1>1, <1>5 DEF CommandInv
  <2>2. \A t \in Services \ {Mc} : state[t] = "idle"
    BY <1>1, <1>3, <1>4, <1>5, <2>1 DEF SleepInv, SleepRules, Busy
  <2>3. QED BY <1>3, <2>1, <2>2 DEF InFlight
<1>6. ASSUME command[s] = "plain", disabled PROVE command[Mc] = "wake"
  <2>1. latest \in {1, 2}
    BY <1>1, <1>3, <1>6 DEF TypeOK
  <2>2. CASE latest = 2
    BY <1>1, <2>2 DEF CommandInv
  <2>3. CASE latest = 1
    BY <1>1, <1>3, <2>3, <1>6 DEF HeldInv, CommandInv
  <2>4. QED BY <2>1, <2>2, <2>3
<1>7. QED BY <1>5, <1>6 DEF Odd

-----------------------------------------------------------------------------
(* Theorems                                                                *)

\* Every variable keeps its type, and the thread never provides more buffers than it
\* can (acquireStaticBuffers).
THEOREM TypeCorrect == Spec => []TypeOK
<1>1. Inv => TypeOK
  BY DEF Inv
<1>2. QED BY <1>1, InvHolds, PTL

\* The semaphore counts the sessions with an answer, so the sender that takes a count
\* always finds one (sender.c:176-190), for any number of services.
THEOREM SemaphoreCountsAnswers == Spec => []SemaphoreCounts
<1>1. Inv => SemaphoreCounts
  BY DEF Inv, CountInv, SemaphoreCounts, HaveAnswer
<1>2. QED BY <1>1, InvHolds, PTL

\* No thread panics but in the cases that the module does not cope with.
THEOREM NoPanic == Spec => []NeverPanics
<1>1. Inv => NeverPanics
  BY DEF Inv
<1>2. QED BY <1>1, InvHolds, PTL

\* A static buffer is never in two places and none is lost, and a request has those it
\* needs (acquireStaticBuffers, sender.c:226-240), for any number of buffers and services.
THEOREM BuffersInOnePlace == Spec => []BuffersExclusive
<1>1. ASSUME Inv PROVE BuffersExclusive
  <2>1. TypeOK /\ BufferInv
    BY <1>1 DEF Inv
  <2>2. provided \cup free \cup UNION {used[s] : s \in Services} \subseteq Buffers
    BY <2>1 DEF TypeOK
  <2>3. Buffers \subseteq provided \cup free \cup UNION {used[s] : s \in Services}
    BY <2>1 DEF BufferInv
  <2>4. /\ provided \cap free = {}
        /\ \A s \in Services : used[s] \cap (provided \cup free) = {}
        /\ \A s, t \in Services : s # t => used[s] \cap used[t] = {}
        /\ "short" \notin odd
             => \A s \in Services : state[s] \in {"from11", "sent", "from9"}
                                      => Cardinality(used[s]) = Needs[s]
    BY <2>1 DEF BufferInv, Busy, Odd
  <2>5. Buffers = provided \cup free \cup UNION {used[s] : s \in Services}
    BY <2>2, <2>3
  <2>6. QED BY <2>4, <2>5 DEF BuffersExclusive
<1>2. QED BY <1>1, InvHolds, PTL

\* A reply goes to the client that asked, or to nobody (sender.c:134 and 200).
THEOREM ReplyGoesToAsker == Spec => []ReplyToAsker
<1>1. Inv => ReplyToAsker
  BY DEF Inv, HandleInv, ReplyToAsker, Odd
<1>2. QED BY <1>1, InvHolds, PTL

\* Between the sleep and the wake Process9 is sent no other command, and the order to sleep
\* only when it has answered all else (sender.c:112-116), for any number of services.
THEOREM QuietBetweenSleepAndWake == Spec => QuietWhileAsleep
<1>1. Inv /\ QuietInv /\ [Next]_vars =>
        [\A s \in Services :
           (sender.pc = "send" /\ sender'.cur = s)
             => /\ (command[s] = "sleep" /\ "crossed" \notin odd) => InFlight = {}
                /\ (command[s] = "plain" /\ disabled) => command[Mc] = "wake"]_vars
  BY QuietStep
<1>2. QED BY <1>1, InvHolds, QuietHolds, PTL DEF Spec, QuietWhileAsleep

===============================================================================
