--------------------------- MODULE SmSessions_proofs ---------------------------
(* Proofs about SmSessions: type correctness, and the wake-up of waiting sessions. *)
EXTENDS SmSessions, FiniteSetTheorems, SequenceTheorems, TLAPS

-----------------------------------------------------------------------------
(* Lemmas about the lists *)

\* The elements of a list.
LEMMA RangeInSet ==
    ASSUME NEW S, NEW q \in Seq(S)
    PROVE  RangeOf(q) \subseteq S
  BY ElementOfSeq, LenProperties DEF RangeOf

\* Appending a session that is not in a list keeps it free of duplicates.
LEMMA AppendFresh ==
    ASSUME NEW S, NEW q \in Seq(S), NEW s \in S, Injective(q), s \notin RangeOf(q)
    PROVE  /\ Append(q, s) \in Seq(S)
           /\ Injective(Append(q, s))
           /\ RangeOf(Append(q, s)) = RangeOf(q) \cup {s}
<1> DEFINE r == Append(q, s)
<1>1. /\ r \in Seq(S) /\ Len(r) = Len(q) + 1 /\ DOMAIN r = 1..(Len(q) + 1)
      /\ DOMAIN q = 1..Len(q) /\ Len(q) \in Nat
      /\ r[Len(q) + 1] = s
      /\ \A i \in 1..Len(q) : r[i] = q[i]
  BY AppendProperties, LenProperties
<1>2. Injective(r)
  BY <1>1 DEF Injective, RangeOf
<1>3. RangeOf(r) = RangeOf(q) \cup {s}
  <2>1. \A i \in DOMAIN r : r[i] \in RangeOf(q) \cup {s}
    BY <1>1 DEF RangeOf
  <2>2. \A x \in RangeOf(q) : x \in RangeOf(r)
    BY <1>1 DEF RangeOf
  <2>3. s \in RangeOf(r)
    <3>1. Len(q) + 1 \in DOMAIN r
      BY <1>1
    <3>2. QED BY <3>1, <1>1 DEF RangeOf
  <2>4. QED BY <2>1, <2>2, <2>3 DEF RangeOf
<1>4. QED BY <1>1, <1>2, <1>3

\* Popping the head of a list without duplicates removes that session only.
LEMMA PopHead ==
    ASSUME NEW S, NEW q \in Seq(S), q # <<>>, Injective(q)
    PROVE  /\ Head(q) \in S /\ Head(q) \in RangeOf(q)
           /\ Tail(q) \in Seq(S)
           /\ Len(Tail(q)) = Len(q) - 1
           /\ Injective(Tail(q))
           /\ RangeOf(Tail(q)) = RangeOf(q) \ {Head(q)}
<1>1. /\ Head(q) \in S /\ Head(q) = q[1]
      /\ Tail(q) \in Seq(S) /\ Len(Tail(q)) = Len(q) - 1
      /\ \A i \in 1..(Len(q) - 1) : Tail(q)[i] = q[i + 1]
      /\ Len(q) \in Nat /\ Len(q) > 0
      /\ DOMAIN q = 1..Len(q) /\ DOMAIN Tail(q) = 1..(Len(q) - 1)
  BY HeadTailProperties, LenProperties, EmptySeq
<1>2. Injective(Tail(q))
  BY <1>1 DEF Injective
<1>3. \A i \in DOMAIN Tail(q) : Tail(q)[i] \in RangeOf(q) \ {Head(q)}
  BY <1>1 DEF Injective, RangeOf
<1>4. \A i \in DOMAIN q : q[i] # Head(q) => q[i] \in RangeOf(Tail(q))
  <2> SUFFICES ASSUME NEW i \in DOMAIN q, q[i] # Head(q)
               PROVE  q[i] \in RangeOf(Tail(q))
    OBVIOUS
  <2>1. i - 1 \in DOMAIN Tail(q) /\ Tail(q)[i - 1] = q[i]
    BY <1>1
  <2>2. QED BY <2>1 DEF RangeOf
<1>5. QED BY <1>1, <1>2, <1>3, <1>4 DEF RangeOf

\* Taking a session out of a list without duplicates removes that session only.
LEMMA WithoutOne ==
    ASSUME NEW S, NEW q \in Seq(S), NEW s \in RangeOf(q), Injective(q)
    PROVE  /\ Without(q, s) \in Seq(S)
           /\ Injective(Without(q, s))
           /\ RangeOf(Without(q, s)) = RangeOf(q) \ {s}
<1> DEFINE i == CHOOSE k \in DOMAIN q : q[k] = s
           r == [k \in 1..(Len(q) - 1) |-> q[IF k < i THEN k ELSE k + 1]]
<1>1. i \in DOMAIN q /\ q[i] = s
  BY DEF RangeOf
<1>2. DOMAIN q = 1..Len(q) /\ Len(q) \in Nat
  BY LenProperties
<1> HIDE DEF i
<1>3. /\ r \in Seq(S) /\ Len(r) = Len(q) - 1
      /\ DOMAIN r = 1..(Len(q) - 1)
      /\ \A k \in 1..(Len(q) - 1) : r[k] = IF k < i THEN q[k] ELSE q[k + 1]
  <2>1. Len(q) - 1 \in Nat
    BY <1>1, <1>2
  <2>2. \A k \in 1..(Len(q) - 1) : q[IF k < i THEN k ELSE k + 1] \in S
    BY <1>1, <1>2, ElementOfSeq
  <2>3. r \in Seq(S) /\ Len(r) = Len(q) - 1
    BY <2>1, <2>2, IsASeq
  <2>4. QED BY <2>3
<1> HIDE DEF r
<1>4. Injective(r)
  <2> SUFFICES ASSUME NEW a \in 1..(Len(q) - 1), NEW b \in 1..(Len(q) - 1), r[a] = r[b]
               PROVE  a = b
    BY <1>3 DEF Injective
  <2> DEFINE pa == IF a < i THEN a ELSE a + 1
             pb == IF b < i THEN b ELSE b + 1
  <2>1. pa \in DOMAIN q /\ pb \in DOMAIN q /\ r[a] = q[pa] /\ r[b] = q[pb]
    BY <1>1, <1>2, <1>3
  <2>2. pa = pb
    BY <2>1 DEF Injective
  <2>3. QED BY <2>2, <1>1, <1>2
<1>5. \A k \in DOMAIN r : r[k] \in RangeOf(q) \ {s}
  <2> SUFFICES ASSUME NEW k \in 1..(Len(q) - 1)
               PROVE  r[k] \in RangeOf(q) \ {s}
    BY <1>3
  <2> DEFINE m == IF k < i THEN k ELSE k + 1
  <2>1. m \in DOMAIN q /\ r[k] = q[m] /\ m # i
    BY <1>1, <1>2, <1>3
  <2>2. q[m] # s
    BY <2>1, <1>1 DEF Injective
  <2>3. QED BY <2>1, <2>2 DEF RangeOf
<1>6. \A k \in DOMAIN q : q[k] # s => q[k] \in RangeOf(r)
  <2> SUFFICES ASSUME NEW k \in DOMAIN q, q[k] # s
               PROVE  q[k] \in RangeOf(r)
    OBVIOUS
  <2> DEFINE j == IF k < i THEN k ELSE k - 1
  <2>1. j \in DOMAIN r /\ r[j] = q[k]
    BY <1>1, <1>2, <1>3
  <2>2. QED BY <2>1 DEF RangeOf
<1>7. Without(q, s) = r
  BY DEF Without, i, r
<1>8. QED BY <1>3, <1>4, <1>5, <1>6, <1>7 DEF RangeOf

\* Picking a set of positions of a sequence without repetition leaves the rest.
LEMMA PickedAndLeft ==
    ASSUME NEW S, NEW q \in Seq(S), Injective(q), NEW I \in SUBSET DOMAIN q,
           NEW A, A = {q[i] : i \in I}, NEW B, B = {q[i] : i \in DOMAIN q \ I}
    PROVE  A \subseteq RangeOf(q) /\ B = RangeOf(q) \ A
<1>1. A \subseteq RangeOf(q) /\ B \subseteq RangeOf(q)
  BY DEF RangeOf
<1>2. \A i \in I, j \in DOMAIN q \ I : q[i] # q[j]
  BY DEF Injective
<1>3. \A x : x \in A <=> \E i \in I : x = q[i]
  OBVIOUS
<1>4. \A x : x \in B <=> \E j \in DOMAIN q \ I : x = q[j]
  OBVIOUS
<1>5. A \cap B = {}
  BY <1>2, <1>3, <1>4
<1>6. RangeOf(q) \subseteq A \cup B
  BY <1>3, <1>4 DEF RangeOf
<1>7. QED BY <1>1, <1>5, <1>6

\* The sessions at a set of positions, enumerated in order.
LEMMA PickPositions ==
    ASSUME NEW S, NEW q \in Seq(S), Injective(q),
           NEW I \in SUBSET DOMAIN q, NEW f \in Enumerations(I)
    PROVE  LET r == [i \in DOMAIN f |-> q[f[i]]]
           IN  /\ r \in Seq(S) /\ Len(r) = Cardinality(I)
               /\ Injective(r)
               /\ RangeOf(r) = {q[i] : i \in I}
<1> DEFINE r == [i \in DOMAIN f |-> q[f[i]]]
           n == Cardinality(I)
<1>1. DOMAIN q = 1..Len(q) /\ Len(q) \in Nat
  BY LenProperties
<1>2. n \in Nat
  <2>1. IsFiniteSet(1..Len(q))
    BY <1>1, FS_Interval
  <2>2. IsFiniteSet(I)
    BY <2>1, <1>1, FS_Subset
  <2>3. QED BY <2>2, FS_CardinalityType
<1>3. /\ f \in [1..n -> I]
      /\ \A i, j \in DOMAIN f : i < j => f[i] < f[j]
      /\ \A x \in I : \E i \in DOMAIN f : f[i] = x
  BY DEF Enumerations
<1> HIDE DEF n
<1>4. DOMAIN f = 1..n /\ \A i \in 1..n : f[i] \in I /\ f[i] \in DOMAIN q
  BY <1>3
<1>5. \A i \in 1..n : q[f[i]] \in S
  BY <1>4, ElementOfSeq, <1>1
<1>6. r \in Seq(S) /\ Len(r) = n
  <2>1. r = [i \in 1..n |-> q[f[i]]]
    BY <1>4
  <2>2. QED BY <2>1, <1>5, <1>2, IsASeq
<1>7. Injective(r)
  <2> SUFFICES ASSUME NEW a \in 1..n, NEW b \in 1..n, q[f[a]] = q[f[b]]
               PROVE  a = b
    BY <1>4 DEF Injective
  <2>1. f[a] = f[b]
    BY <1>4 DEF Injective
  <2>2. f[a] \in Int /\ f[b] \in Int
    BY <1>4, <1>1
  <2>3. ~(a < b) /\ ~(b < a)
    BY <2>1, <2>2, <1>3, <1>4
  <2>4. QED BY <2>3, <1>2
<1>8. RangeOf(r) = {q[i] : i \in I}
  BY <1>3, <1>4 DEF RangeOf
<1>9. QED BY <1>6, <1>7, <1>8 DEF n

\* Concatenating two lists that share no session.
LEMMA ConcatDisjoint ==
    ASSUME NEW S, NEW q \in Seq(S), NEW r \in Seq(S), Injective(q), Injective(r),
           RangeOf(q) \cap RangeOf(r) = {}
    PROVE  /\ q \o r \in Seq(S) /\ Len(q \o r) = Len(q) + Len(r)
           /\ Injective(q \o r)
           /\ RangeOf(q \o r) = RangeOf(q) \cup RangeOf(r)
<1> DEFINE c == q \o r
<1>1. /\ DOMAIN q = 1..Len(q) /\ Len(q) \in Nat
      /\ DOMAIN r = 1..Len(r) /\ Len(r) \in Nat
  BY LenProperties
<1>2. /\ c \in Seq(S) /\ Len(c) = Len(q) + Len(r)
      /\ DOMAIN c = 1..(Len(q) + Len(r))
      /\ \A i \in 1..(Len(q) + Len(r)) : c[i] = IF i <= Len(q) THEN q[i] ELSE r[i - Len(q)]
  BY <1>1, ConcatProperties, LenProperties
<1> HIDE DEF c
<1>3. \A i \in DOMAIN c : \/ i \in DOMAIN q /\ c[i] = q[i]
                          \/ i - Len(q) \in DOMAIN r /\ c[i] = r[i - Len(q)]
  BY <1>1, <1>2
<1>4. Injective(c)
  <2> SUFFICES ASSUME NEW i \in DOMAIN c, NEW j \in DOMAIN c, c[i] = c[j]
               PROVE  i = j
    BY DEF Injective
  <2>1. CASE i \in DOMAIN q /\ c[i] = q[i] /\ j \in DOMAIN q /\ c[j] = q[j]
    BY <2>1 DEF Injective
  <2>2. CASE /\ i - Len(q) \in DOMAIN r /\ c[i] = r[i - Len(q)]
             /\ j - Len(q) \in DOMAIN r /\ c[j] = r[j - Len(q)]
    <3>1. i - Len(q) = j - Len(q)
      BY <2>2 DEF Injective
    <3>2. QED BY <3>1, <1>1, <1>2
  <2>3. CASE \/ /\ i \in DOMAIN q /\ c[i] = q[i]
                /\ j - Len(q) \in DOMAIN r /\ c[j] = r[j - Len(q)]
             \/ /\ j \in DOMAIN q /\ c[j] = q[j]
                /\ i - Len(q) \in DOMAIN r /\ c[i] = r[i - Len(q)]
    <3>1. c[i] \in RangeOf(q) /\ c[i] \in RangeOf(r)
      BY <2>3 DEF RangeOf
    <3>2. QED BY <3>1
  <2>4. QED BY <2>1, <2>2, <2>3, <1>3
<1>5. \A x \in RangeOf(q) \cup RangeOf(r) : x \in RangeOf(c)
  <2>1. \A i \in DOMAIN q : i \in DOMAIN c /\ c[i] = q[i]
    BY <1>1, <1>2
  <2>2. \A i \in DOMAIN r : i + Len(q) \in DOMAIN c /\ c[i + Len(q)] = r[i]
    BY <1>1, <1>2
  <2>3. \A x \in RangeOf(q) : x \in RangeOf(c)
    BY <2>1 DEF RangeOf
  <2>4. \A x \in RangeOf(r) : x \in RangeOf(c)
    BY <2>2 DEF RangeOf
  <2>5. QED BY <2>3, <2>4
<1>6. \A x \in RangeOf(c) : x \in RangeOf(q) \cup RangeOf(r)
  BY <1>3 DEF RangeOf
<1>7. RangeOf(c) = RangeOf(q) \cup RangeOf(r)
  BY <1>5, <1>6
<1>8. QED BY <1>2, <1>4, <1>7 DEF c

-----------------------------------------------------------------------------
(* Steps that leave the lists, the replay commands and the services alone *)

\* What the wake-up invariant says beyond the types depends on these variables only.
LEMMA FrameKeeps ==
    ASSUME WakeUpInv, TypeOK', ReplyToSessionInUse',
           UNCHANGED <<parent, waitingReg, toWakeUp, waitingPort, cmd, clobbered, services,
                       sem, panicked>>
    PROVE  WakeUpInv'
  BY DEF WakeUpInv, ListsConsistent, CommandsKept, ResumeAccounted, AskersNeedTheName,
         WokenFindsName, Registered, AsksFor, Awaits

LEMMA RegisterClientKeeps ==
    ASSUME WakeUpInv, NEW s \in Sessions, RegisterClient(s)
    PROVE  WakeUpInv'
<1>1. TypeOK'
  BY DEF WakeUpInv, TypeOK, RegisterClient, Reply, envVars, Pids, Owners
<1>2. ReplyToSessionInUse'
  BY DEF RegisterClient, Reply, SrvRequest, InUse, ReplyToSessionInUse
<1>3. QED BY <1>1, <1>2, FrameKeeps DEF RegisterClient, Reply, envVars

LEMMA ErrorOrQueryKeeps ==
    ASSUME WakeUpInv, NEW s \in Sessions, ErrorOrQuery(s)
    PROVE  WakeUpInv'
<1>1. TypeOK'
  BY DEF WakeUpInv, TypeOK, ErrorOrQuery, Reply, envVars
<1>2. ReplyToSessionInUse'
  BY DEF ErrorOrQuery, Reply, InUse, ReplyToSessionInUse
<1>3. QED BY <1>1, <1>2, FrameKeeps DEF ErrorOrQuery, Reply, envVars

LEMMA RegisterProcessKeeps ==
    ASSUME WakeUpInv, NEW s \in Sessions, NEW p \in Procs, RegisterProcess(s, p)
    PROVE  WakeUpInv'
<1>1. TypeOK'
  BY DEF WakeUpInv, TypeOK, RegisterProcess, Reply
<1>2. ReplyToSessionInUse'
  BY DEF RegisterProcess, Reply, SrvPmRequest, InUse, ReplyToSessionInUse
<1>3. QED BY <1>1, <1>2, FrameKeeps DEF RegisterProcess, Reply

LEMMA EnvironmentKeeps ==
    ASSUME WakeUpInv, Environment
    PROVE  WakeUpInv'
<1>1. TypeOK' /\ UNCHANGED smVars
  <2>1. CASE \E s \in Sessions : ClientCloses(s)
    BY <2>1 DEF WakeUpInv, TypeOK, ClientCloses, smVars
  <2>2. CASE \E p \in Procs : ProcessEnds(p)
    <3>1. PICK p \in Procs : ProcessEnds(p)
      BY <2>2
    <3>2. port' \in [Ports -> PortStates]
      <4> SUFFICES ASSUME NEW q \in Ports PROVE port'[q] \in PortStates
        BY <3>1 DEF ProcessEnds
      <4>1. port[q] \in PortStates
        BY DEF WakeUpInv, TypeOK
      <4>2. [port[q] EXCEPT !.live = FALSE] \in PortStates
        BY <4>1 DEF PortStates
      <4>3. QED BY <3>1, <4>1, <4>2 DEF ProcessEnds
    <3>3. QED BY <3>1, <3>2 DEF WakeUpInv, TypeOK, ProcessEnds, smVars
  <2>3. CASE \E p \in Ports : ServerClosesPort(p)
    <3>1. PICK p \in Ports : ServerClosesPort(p)
      BY <2>3
    <3>2. port' \in [Ports -> PortStates]
      BY <3>1 DEF WakeUpInv, TypeOK, ServerClosesPort, PortStates
    <3>3. QED BY <3>1, <3>2 DEF WakeUpInv, TypeOK, ServerClosesPort, smVars
  <2>4. CASE \E p \in Ports : ServiceSessionEnds(p)
    <3>1. PICK p \in Ports : ServiceSessionEnds(p)
      BY <2>4
    <3>2. port[p] \in PortStates /\ port[p].used - 1 \in 0..PortMax
      BY <3>1, ConstantsAssumption DEF WakeUpInv, TypeOK, ServiceSessionEnds, PortStates
    <3>3. [port[p] EXCEPT !.used = @ - 1] \in PortStates
      BY <3>2 DEF PortStates
    <3>4. port' \in [Ports -> PortStates]
      BY <3>1, <3>3 DEF WakeUpInv, TypeOK, ServiceSessionEnds
    <3>5. QED BY <3>1, <3>4 DEF WakeUpInv, TypeOK, ServiceSessionEnds, smVars
  <2>5. QED BY <2>1, <2>2, <2>3, <2>4 DEF Environment
<1>2. ReplyToSessionInUse'
  BY <1>1 DEF WakeUpInv, ReplyToSessionInUse, smVars
<1>3. QED BY <1>1, <1>2, FrameKeeps DEF smVars

-----------------------------------------------------------------------------
(* Steps that remove services: the wake-up list is empty then *)

\* While the server listens, nobody is being woken up.
LEMMA ListeningEmpty ==
    ASSUME WakeUpInv, Listening
    PROVE  toWakeUp = <<>> /\ RangeOf(toWakeUp) = {}
<1>1. Len(toWakeUp) = 0
  BY DEF WakeUpInv, ResumeAccounted, Listening, Receiving, Running
<1>2. toWakeUp = <<>>
  BY <1>1, EmptySeq DEF WakeUpInv, TypeOK
<1>3. QED BY <1>2 DEF RangeOf

LEMMA CloseHandlesType ==
    ASSUME TypeOK, NEW E, CloseHandlesOf(E)
    PROVE  port' \in [Ports -> PortStates]
<1> SUFFICES ASSUME NEW q \in Ports PROVE port'[q] \in PortStates
  BY DEF CloseHandlesOf
<1>1. port[q] \in PortStates
  BY DEF TypeOK
<1>2. [port[q] EXCEPT !.held = FALSE] \in PortStates
  BY <1>1 DEF PortStates
<1>3. QED BY <1>1, <1>2 DEF CloseHandlesOf

\* Fewer services and the same lists keep the invariant while nobody is woken.
LEMMA FewerServicesKeep ==
    ASSUME WakeUpInv, TypeOK', ReplyToSessionInUse', RangeOf(toWakeUp) = {},
           services' \subseteq services,
           UNCHANGED <<parent, waitingReg, toWakeUp, waitingPort, cmd, clobbered, sem, panicked>>
    PROVE  WakeUpInv'
<1>1. AskersNeedTheName'
  BY DEF WakeUpInv, AskersNeedTheName, Registered, AsksFor, Awaits
<1>2. WokenFindsName'
  BY DEF WokenFindsName
<1>3. QED BY <1>1, <1>2 DEF WakeUpInv, ListsConsistent, CommandsKept, ResumeAccounted

LEMMA UnregisterServiceOrPortKeeps ==
    ASSUME WakeUpInv, NEW s \in Sessions, NEW n \in Names, NEW named \in BOOLEAN,
           UnregisterServiceOrPort(s, n, named)
    PROVE  WakeUpInv'
<1>1. Listening /\ s \in InUse /\ RangeOf(toWakeUp) = {}
  BY ListeningEmpty DEF UnregisterServiceOrPort, SrvRequest
<1>2. port' \in [Ports -> PortStates]
  BY CloseHandlesType DEF UnregisterServiceOrPort, WakeUpInv
<1>3. TypeOK'
  BY <1>2 DEF WakeUpInv, TypeOK, UnregisterServiceOrPort, Reply
<1>4. ReplyToSessionInUse'
  BY <1>1 DEF UnregisterServiceOrPort, Reply, InUse, ReplyToSessionInUse
<1>5. QED BY <1>1, <1>3, <1>4, FewerServicesKeep DEF UnregisterServiceOrPort, Reply

LEMMA UnregisterProcessKeeps ==
    ASSUME WakeUpInv, NEW s \in Sessions, NEW p \in Procs, UnregisterProcess(s, p)
    PROVE  WakeUpInv'
<1>1. Listening /\ s \in InUse /\ RangeOf(toWakeUp) = {}
  BY ListeningEmpty DEF UnregisterProcess, SrvPmRequest
<1>2. port' \in [Ports -> PortStates]
  BY CloseHandlesType DEF UnregisterProcess, WakeUpInv
<1>3. TypeOK'
  BY <1>2 DEF WakeUpInv, TypeOK, UnregisterProcess, Reply
<1>4. ReplyToSessionInUse'
  BY <1>1 DEF UnregisterProcess, Reply, InUse, ReplyToSessionInUse
<1>5. QED BY <1>1, <1>3, <1>4, FewerServicesKeep DEF UnregisterProcess, Reply

-----------------------------------------------------------------------------
(* Commands that may be postponed *)

\* What a postponable command does to the lists: one of three things, and a
\* session is put on the list of unregistered names only if its name is not there.
LEMMA HandleOutcomes ==
    ASSUME TypeOK, NEW s \in Sessions, NEW c \in Cmds, NEW tw, NEW wp,
           HandlePostponable(s, c, tw, wp)
    PROVE  /\ \/ Answer(s, tw, wp)
              \/ /\ PostponeUntilRegistered(s, c, tw, wp)
                 /\ ~Registered(c.name, c.op = "GetPort")
              \/ /\ \E p \in Ports \cup {NoPort} : PostponeUntilPortReady(s, c, p, tw, wp)
                 /\ c.op = "GetServiceHandle"
           /\ port' \in [Ports -> PortStates]
<1>0. PICK nowait \in BOOLEAN :
        \/ c.op = "GetServiceHandle" /\ GetServiceHandle(s, c, nowait, tw, wp)
        \/ c.op = "GetPort" /\ GetPort(s, c, nowait, tw, wp)
  BY DEF HandlePostponable
<1>1. CASE c.op = "GetServiceHandle" /\ GetServiceHandle(s, c, nowait, tw, wp)
  <2> DEFINE p == Entry(c.name, FALSE).clientPort
  <2>1. CASE /\ ~Registered(c.name, FALSE)
             /\ PostponeUntilRegistered(s, c, tw, wp)
             /\ UNCHANGED port
    BY <1>1, <2>1 DEF TypeOK
  <2>2. CASE /\ Registered(c.name, FALSE)
             /\ PostponeUntilPortReady(s, c, p, tw, wp)
             /\ UNCHANGED port
    <3>1. Entry(c.name, FALSE) \in services
      BY <2>2 DEF Registered, Entry
    <3>2. p \in Ports \cup {NoPort}
      BY <3>1 DEF TypeOK, Services
    <3>3. QED BY <1>1, <2>2, <3>2 DEF TypeOK
  <2>3. CASE /\ port[p].used # PortMax
             /\ port' = [port EXCEPT ![p].used = @ + 1]
             /\ Answer(s, tw, wp)
    <3> HIDE DEF p
    <3>1. CASE p \in Ports
      <4>1. port[p] \in PortStates
        BY <3>1 DEF TypeOK
      <4>u. PortMax \in Nat /\ port[p].used \in 0..PortMax
        BY <4>1, ConstantsAssumption DEF PortStates
      <4>2. port[p].used + 1 \in 0..PortMax
        BY <4>u, <2>3
      <4>3. [port[p] EXCEPT !.used = @ + 1] \in PortStates
        BY <4>1, <4>2 DEF PortStates
      <4>4. QED BY <2>3, <4>3 DEF TypeOK
    <3>2. CASE p \notin Ports
      <4>1. /\ port' = [q \in Ports |-> port'[q]]
            /\ \A q \in Ports : port'[q] = port[q]
        BY <2>3, <3>2 DEF TypeOK
      <4>2. port' \in [Ports -> PortStates]
        BY <4>1 DEF TypeOK
      <4>3. QED BY <2>3, <4>2
    <3>3. QED BY <3>1, <3>2
  <2>4. CASE Answer(s, tw, wp) /\ UNCHANGED port
    BY <2>4 DEF TypeOK
  <2>5. QED BY <1>1, <2>1, <2>2, <2>3, <2>4 DEF GetServiceHandle
<1>2. CASE c.op = "GetPort" /\ GetPort(s, c, nowait, tw, wp)
  BY <1>2 DEF GetPort, TypeOK
<1>3. QED BY <1>0, <1>1, <1>2

\* The variables a replayed or fresh postponable command leaves alone.
OtherVars == <<pid, isSrvPm, clobbered, services, processes, panicked, owner, open, alive>>

\* Running a postponable command of a session that is on none of the lists tw,
\* wp and waitingReg keeps the invariant.
LEMMA ReplayKeeps ==
    ASSUME WakeUpInv, Running, replyTarget = NoSession,
           NEW s \in Sessions, NEW c \in Cmds,
           NEW tw \in Seq(Sessions), NEW wp \in Seq(Sessions),
           Injective(tw), Injective(wp),
           RangeOf(tw) = RangeOf(toWakeUp) \ {s}, RangeOf(wp) = RangeOf(waitingPort) \ {s},
           s \notin RangeOf(waitingReg),
           HandlePostponable(s, c, tw, wp),
           UNCHANGED OtherVars,
           sem' = Len(tw), sem' \in 0..SemMax
    PROVE  WakeUpInv'
<1> USE DEF WakeUpInv
<1>1. /\ \/ Answer(s, tw, wp)
         \/ /\ PostponeUntilRegistered(s, c, tw, wp)
            /\ ~Registered(c.name, c.op = "GetPort")
         \/ \E p \in Ports \cup {NoPort} : PostponeUntilPortReady(s, c, p, tw, wp)
      /\ port' \in [Ports -> PortStates]
  BY HandleOutcomes
<1>w. RangeOf(toWakeUp) \subseteq Sessions
  BY RangeInSet DEF TypeOK
<1>2. CASE Answer(s, tw, wp)
  <2>1. TypeOK'
    BY <1>1, <1>2 DEF TypeOK, Answer, OtherVars, Lists
  <2>2. ListsConsistent'
    BY <1>2 DEF ListsConsistent, Answer, TypeOK, Injective
  <2>3. CommandsKept' /\ ResumeAccounted' /\ ReplyToSessionInUse'
    BY <1>2 DEF CommandsKept, ResumeAccounted, ReplyToSessionInUse, Answer, OtherVars, TypeOK
  <2>4. AskersNeedTheName'
    BY <1>2 DEF AskersNeedTheName, AsksFor, Awaits, Registered, Answer, OtherVars, TypeOK
  <2>5. WokenFindsName'
    BY <1>2, <1>w DEF WokenFindsName, Registered, Answer, OtherVars, TypeOK
  <2>6. QED BY <2>1, <2>2, <2>3, <2>4, <2>5
<1>3. CASE /\ PostponeUntilRegistered(s, c, tw, wp)
           /\ ~Registered(c.name, c.op = "GetPort")
  <2>0. /\ waitingReg' = Append(waitingReg, s) /\ waitingReg' \in Seq(Sessions)
        /\ Injective(waitingReg')
        /\ RangeOf(waitingReg') = RangeOf(waitingReg) \cup {s}
    BY <1>3, AppendFresh DEF PostponeUntilRegistered, ListsConsistent, TypeOK
  <2>1. TypeOK'
    BY <1>1, <1>3, <2>0 DEF TypeOK, PostponeUntilRegistered, OtherVars, Lists
  <2>2. ListsConsistent'
    BY <1>3, <2>0 DEF ListsConsistent, PostponeUntilRegistered, TypeOK
  <2>3. CommandsKept' /\ ResumeAccounted' /\ ReplyToSessionInUse'
    BY <1>3 DEF CommandsKept, ResumeAccounted, ReplyToSessionInUse,
                PostponeUntilRegistered, OtherVars, TypeOK
  <2>4. AskersNeedTheName'
    <3> SUFFICES ASSUME NEW x \in RangeOf(waitingReg'), NEW n \in Names, NEW named \in BOOLEAN,
                        AsksFor(x, n, named)'
                 PROVE  ~Registered(n, named)'
      BY DEF AskersNeedTheName
    <3>1. services' = services /\ clobbered' = clobbered /\ cmd' = [cmd EXCEPT ![s] = c]
      BY <1>3 DEF OtherVars, PostponeUntilRegistered
    <3>2. CASE x = s
      <4>1. c.name = n /\ c.op = IF named THEN "GetPort" ELSE "GetServiceHandle"
        BY <3>1, <3>2 DEF AsksFor, Awaits, TypeOK
      <4>2. (c.op = "GetPort") = named
        BY <4>1
      <4>3. QED BY <1>3, <3>1, <4>1, <4>2 DEF Registered
    <3>3. CASE x # s
      <4>1. x \in RangeOf(waitingReg) /\ AsksFor(x, n, named)
        BY <2>0, <3>1, <3>3 DEF AsksFor, Awaits, TypeOK
      <4>2. QED BY <3>1, <4>1 DEF AskersNeedTheName, Registered
    <3>4. QED BY <3>2, <3>3
  <2>5. WokenFindsName'
    BY <1>3, <1>w DEF WokenFindsName, Registered, PostponeUntilRegistered, OtherVars, TypeOK
  <2>6. QED BY <2>1, <2>2, <2>3, <2>4, <2>5
<1>4. CASE \E p \in Ports \cup {NoPort} : PostponeUntilPortReady(s, c, p, tw, wp)
  <2>p. PICK p \in Ports \cup {NoPort} : PostponeUntilPortReady(s, c, p, tw, wp)
    BY <1>4
  <2>0. /\ waitingPort' = Append(wp, s) /\ waitingPort' \in Seq(Sessions)
        /\ Injective(waitingPort')
        /\ RangeOf(waitingPort') = RangeOf(wp) \cup {s}
    BY <2>p, AppendFresh DEF PostponeUntilPortReady
  <2>1. TypeOK'
    BY <1>1, <2>p, <2>0 DEF TypeOK, PostponeUntilPortReady, OtherVars, Lists
  <2>2. ListsConsistent'
    BY <2>p, <2>0 DEF ListsConsistent, PostponeUntilPortReady, TypeOK
  <2>3. CommandsKept' /\ ResumeAccounted' /\ ReplyToSessionInUse'
    BY <2>p DEF CommandsKept, ResumeAccounted, ReplyToSessionInUse,
                PostponeUntilPortReady, OtherVars, TypeOK
  <2>4. AskersNeedTheName'
    BY <2>p DEF AskersNeedTheName, AsksFor, Awaits, Registered, PostponeUntilPortReady, OtherVars, TypeOK
  <2>5. WokenFindsName'
    BY <2>p, <1>w DEF WokenFindsName, Registered, PostponeUntilPortReady, OtherVars, TypeOK
  <2>6. QED BY <2>1, <2>2, <2>3, <2>4, <2>5
<1>5. QED BY <1>1, <1>2, <1>3, <1>4

LEMMA RequestServiceOrPortKeeps ==
    ASSUME WakeUpInv, NEW s \in Sessions, RequestServiceOrPort(s)
    PROVE  WakeUpInv'
<1>1. PICK c \in Cmds : HandlePostponable(s, c, toWakeUp, waitingPort)
  BY DEF RequestServiceOrPort
<1>2. /\ Listening /\ Running /\ replyTarget = NoSession /\ parent[s] = "inUse"
      /\ UNCHANGED OtherVars /\ sem' = sem
  BY DEF RequestServiceOrPort, SrvRequest, Listening, Receiving, InUse, OtherVars
<1>3. s \notin RangeOf(waitingReg) /\ s \notin RangeOf(toWakeUp) /\ s \notin RangeOf(waitingPort)
  BY <1>2 DEF WakeUpInv, ListsConsistent
<1>4. sem' = Len(toWakeUp)
  BY <1>2 DEF WakeUpInv, ResumeAccounted, Running
<1>5. /\ toWakeUp \in Seq(Sessions) /\ Injective(toWakeUp)
      /\ waitingPort \in Seq(Sessions) /\ Injective(waitingPort)
  BY DEF WakeUpInv, ListsConsistent, TypeOK
<1>6. /\ RangeOf(toWakeUp) = RangeOf(toWakeUp) \ {s}
      /\ RangeOf(waitingPort) = RangeOf(waitingPort) \ {s}
  BY <1>3
<1>7. sem' \in 0..SemMax
  BY <1>2 DEF WakeUpInv, TypeOK
<1>8. QED BY <1>1, <1>2, <1>3, <1>4, <1>5, <1>6, <1>7, ReplayKeeps

LEMMA ResumeKeeps ==
    ASSUME WakeUpInv, Resume
    PROVE  WakeUpInv'
<1>1. Receiving /\ Running /\ sem > 0 /\ replyTarget = NoSession /\ sem = Len(toWakeUp)
  BY DEF Resume, Receiving, Running, WakeUpInv, ResumeAccounted
<1>2. toWakeUp # <<>> /\ toWakeUp \in Seq(Sessions) /\ Len(toWakeUp) > 0
  BY <1>1, EmptySeq DEF WakeUpInv, TypeOK
<1> DEFINE s == Head(toWakeUp)
           tw == Tail(toWakeUp)
<1>3. /\ s \in Sessions /\ s \in RangeOf(toWakeUp)
      /\ tw \in Seq(Sessions) /\ Len(tw) = Len(toWakeUp) - 1
      /\ Injective(tw) /\ RangeOf(tw) = RangeOf(toWakeUp) \ {s}
  BY <1>2, PopHead DEF WakeUpInv, ListsConsistent
<1>4. /\ HandlePostponable(s, cmd[s], tw, waitingPort) /\ sem' = sem - 1
      /\ UNCHANGED OtherVars
  BY <1>2 DEF Resume, OtherVars
<1> HIDE DEF s, tw
<1>5. /\ parent[s] = "toWakeUp" /\ cmd[s] \in Cmds
      /\ s \notin RangeOf(waitingReg) /\ s \notin RangeOf(waitingPort)
  BY <1>3 DEF WakeUpInv, ListsConsistent, CommandsKept
<1>6. sem' = Len(tw) /\ sem' \in 0..SemMax
  BY <1>1, <1>3, <1>4, ConstantsAssumption DEF WakeUpInv, TypeOK
<1>7. /\ waitingPort \in Seq(Sessions) /\ Injective(waitingPort)
      /\ RangeOf(waitingPort) = RangeOf(waitingPort) \ {s}
  BY <1>5 DEF WakeUpInv, ListsConsistent, TypeOK
<1>8. QED BY <1>1, <1>3, <1>4, <1>5, <1>6, <1>7, ReplayKeeps

LEMMA ResumePortReadyKeeps ==
    ASSUME WakeUpInv, NEW p \in Ports, ResumePortReady(p)
    PROVE  WakeUpInv'
<1>0. PICK i \in DOMAIN waitingPort :
        HandlePostponable(waitingPort[i], cmd[waitingPort[i]], toWakeUp,
                          Without(waitingPort, waitingPort[i]))
  BY DEF ResumePortReady
<1> DEFINE s == waitingPort[i]
           wp == Without(waitingPort, s)
<1>1. /\ Listening /\ Running /\ replyTarget = NoSession
      /\ HandlePostponable(s, cmd[s], toWakeUp, wp)
      /\ UNCHANGED OtherVars /\ sem' = sem
  BY <1>0 DEF ResumePortReady, Listening, Receiving, OtherVars
<1>2. s \in RangeOf(waitingPort) /\ s \in Sessions
  BY RangeInSet DEF WakeUpInv, TypeOK, RangeOf
<1>3. /\ wp \in Seq(Sessions) /\ Injective(wp)
      /\ RangeOf(wp) = RangeOf(waitingPort) \ {s}
  BY <1>2, WithoutOne DEF WakeUpInv, TypeOK, ListsConsistent
<1> HIDE DEF s, wp
<1>4. /\ parent[s] = "waitingPort" /\ cmd[s] \in Cmds
      /\ s \notin RangeOf(waitingReg) /\ s \notin RangeOf(toWakeUp)
  BY <1>2 DEF WakeUpInv, ListsConsistent, CommandsKept
<1>5. sem' = Len(toWakeUp) /\ sem' \in 0..SemMax
  BY <1>1 DEF WakeUpInv, ResumeAccounted, Running, TypeOK
<1>6. /\ toWakeUp \in Seq(Sessions) /\ Injective(toWakeUp)
      /\ RangeOf(toWakeUp) = RangeOf(toWakeUp) \ {s}
  BY <1>4 DEF WakeUpInv, ListsConsistent, TypeOK
<1>7. QED BY <1>1, <1>2, <1>3, <1>4, <1>5, <1>6, ReplayKeeps

-----------------------------------------------------------------------------
(* Registrations: the waiters for the name move to the wake-up list *)

\* Whatever set of sessions moves to the wake-up list, the lists stay consistent.
LEMMA MoveToWakeUpLists ==
    ASSUME WakeUpInv, NEW I \in SUBSET DOMAIN waitingReg, MoveToWakeUp(I), UNCHANGED waitingPort
    PROVE  LET moved == {waitingReg[i] : i \in I}
           IN  /\ waitingReg' \in Seq(Sessions) /\ toWakeUp' \in Seq(Sessions)
               /\ Len(toWakeUp') = Len(toWakeUp) + Cardinality(I)
               /\ RangeOf(waitingReg') = RangeOf(waitingReg) \ moved
               /\ RangeOf(toWakeUp') = RangeOf(toWakeUp) \cup moved
               /\ moved \subseteq Sessions
               /\ parent' \in [Sessions -> Lists]
               /\ \A x \in Sessions : parent'[x] = IF x \in moved THEN "toWakeUp" ELSE parent[x]
               /\ ListsConsistent'
<1> DEFINE moved == {waitingReg[i] : i \in I}
           J == DOMAIN waitingReg \ I
           kept == {waitingReg[i] : i \in J}
<1>1. PICK f \in Enumerations(I), g \in Enumerations(J) :
        /\ toWakeUp'   = toWakeUp \o [i \in DOMAIN f |-> waitingReg[f[i]]]
        /\ waitingReg' = [i \in DOMAIN g |-> waitingReg[g[i]]]
        /\ parent' = [x \in Sessions |->
                        IF \E i \in I : waitingReg[i] = x THEN "toWakeUp" ELSE parent[x]]
  BY DEF MoveToWakeUp
<1> DEFINE woken == [i \in DOMAIN f |-> waitingReg[f[i]]]
<1>2. /\ waitingReg \in Seq(Sessions) /\ Injective(waitingReg)
      /\ toWakeUp \in Seq(Sessions) /\ Injective(toWakeUp)
      /\ RangeOf(waitingReg) \subseteq Sessions
  BY RangeInSet DEF WakeUpInv, TypeOK, ListsConsistent
<1>3. /\ woken \in Seq(Sessions) /\ Len(woken) = Cardinality(I)
      /\ Injective(woken) /\ RangeOf(woken) = moved
  BY <1>2, PickPositions
<1>4. /\ waitingReg' \in Seq(Sessions) /\ Injective(waitingReg')
      /\ RangeOf(waitingReg') = kept
  <2>1. J \in SUBSET DOMAIN waitingReg /\ g \in Enumerations(J)
    OBVIOUS
  <2>2. kept = {waitingReg[i] : i \in J}
    OBVIOUS
  <2> HIDE DEF J, kept
  <2>3. LET r == [i \in DOMAIN g |-> waitingReg[g[i]]]
        IN  r \in Seq(Sessions) /\ Injective(r) /\ RangeOf(r) = {waitingReg[i] : i \in J}
    BY <2>1, <1>2, PickPositions
  <2>4. QED BY <2>2, <2>3, <1>1
<1>5. moved \subseteq RangeOf(waitingReg) /\ kept = RangeOf(waitingReg) \ moved
  <2>1. moved = {waitingReg[i] : i \in I} /\ kept = {waitingReg[i] : i \in DOMAIN waitingReg \ I}
    OBVIOUS
  <2> HIDE DEF kept, J, moved
  <2>2. QED BY <2>1, <1>2, PickedAndLeft
<1> HIDE DEF woken, kept, J, moved
<1>6. RangeOf(toWakeUp) \cap moved = {}
  <2>1. \A x \in moved : x \in Sessions /\ parent[x] = "waitingReg"
    BY <1>2, <1>5 DEF WakeUpInv, ListsConsistent
  <2>2. QED BY <2>1 DEF WakeUpInv, ListsConsistent
<1>7. toWakeUp' = toWakeUp \o woken
  BY <1>1 DEF woken
<1>8. /\ toWakeUp' \in Seq(Sessions) /\ Len(toWakeUp') = Len(toWakeUp) + Cardinality(I)
      /\ Injective(toWakeUp') /\ RangeOf(toWakeUp') = RangeOf(toWakeUp) \cup moved
  <2>1. RangeOf(toWakeUp) \cap RangeOf(woken) = {}
    BY <1>3, <1>6
  <2>2. LET c == toWakeUp \o woken
        IN  /\ c \in Seq(Sessions) /\ Len(c) = Len(toWakeUp) + Len(woken)
            /\ Injective(c) /\ RangeOf(c) = RangeOf(toWakeUp) \cup RangeOf(woken)
    BY <2>1, <1>2, <1>3, ConcatDisjoint
  <2>3. QED BY <2>2, <1>3, <1>7
<1>9. \A x \in Sessions : parent'[x] = IF x \in moved THEN "toWakeUp" ELSE parent[x]
  BY <1>1 DEF moved
<1>10. parent' \in [Sessions -> Lists]
  BY <1>1 DEF WakeUpInv, TypeOK, Lists
<1>11. ListsConsistent'
  <2>1. \A s \in Sessions : s \in RangeOf(waitingReg') <=> parent'[s] = "waitingReg"
    BY <1>4, <1>5, <1>9 DEF WakeUpInv, ListsConsistent
  <2>2. \A s \in Sessions : s \in RangeOf(toWakeUp') <=> parent'[s] = "toWakeUp"
    BY <1>5, <1>8, <1>9 DEF WakeUpInv, ListsConsistent
  <2>3. \A s \in Sessions : s \in RangeOf(waitingPort') <=> parent'[s] = "waitingPort"
    BY <1>5, <1>9 DEF WakeUpInv, ListsConsistent
  <2>4. QED BY <2>1, <2>2, <2>3, <1>4, <1>8 DEF WakeUpInv, ListsConsistent
<1>12. QED BY <1>2, <1>4, <1>5, <1>8, <1>9, <1>10, <1>11 DEF moved

\* Registering a name wakes exactly those who wait for it.
LEMMA WakeUpKeeps ==
    ASSUME WakeUpInv, Running, NEW n \in Names, NEW named \in BOOLEAN,
           NEW e \in Services, e.name = n, e.isNamedPort = named,
           services' = services \cup {e}, WakeUpWaiters(n, named),
           NEW s \in InUse, replyTarget' = s,
           port' \in [Ports -> PortStates],
           UNCHANGED <<waitingPort, pid, isSrvPm, cmd, clobbered, busy, processes,
                       owner, open, alive>>
    PROVE  WakeUpInv'
<1> DEFINE I == Askers(n, named)
           moved == {waitingReg[i] : i \in I}
<1>1. /\ I \in SUBSET DOMAIN waitingReg
      /\ MoveToWakeUp(I) /\ ReleaseResume(Cardinality(I))
      /\ \A i \in DOMAIN waitingReg : i \in I <=> AsksFor(waitingReg[i], n, named)
  BY DEF WakeUpWaiters, Askers
<1> HIDE DEF I
<1>2. /\ waitingReg' \in Seq(Sessions) /\ toWakeUp' \in Seq(Sessions)
      /\ Len(toWakeUp') = Len(toWakeUp) + Cardinality(I)
      /\ RangeOf(waitingReg') = RangeOf(waitingReg) \ moved
      /\ RangeOf(toWakeUp') = RangeOf(toWakeUp) \cup moved
      /\ moved \subseteq Sessions
      /\ parent' \in [Sessions -> Lists]
      /\ \A x \in Sessions : parent'[x] = IF x \in moved THEN "toWakeUp" ELSE parent[x]
      /\ ListsConsistent'
  BY <1>1, MoveToWakeUpLists
<1>3. Cardinality(I) \in Nat
  <2>1. DOMAIN waitingReg = 1..Len(waitingReg) /\ Len(waitingReg) \in Nat
    BY LenProperties DEF WakeUpInv, TypeOK
  <2>2. IsFiniteSet(1..Len(waitingReg))
    BY <2>1, FS_Interval
  <2>3. IsFiniteSet(I)
    BY <2>1, <2>2, <1>1, FS_Subset
  <2>4. QED BY <2>3, FS_CardinalityType
<1>4. \A x \in RangeOf(waitingReg) : x \in moved <=> AsksFor(x, n, named)
  BY <1>1 DEF RangeOf, AsksFor, Awaits
<1>5. moved \subseteq RangeOf(waitingReg)
  BY <1>1 DEF RangeOf
<1> HIDE DEF moved
<1>6. sem' \in 0..SemMax /\ panicked' \in Panics /\ ResumeAccounted'
  BY <1>1, <1>2, <1>3, ConstantsAssumption
  DEF ReleaseResume, ResumeAccounted, WakeUpInv, TypeOK, Panics, Running
<1>7. TypeOK'
  BY <1>2, <1>6 DEF WakeUpInv, TypeOK, InUse
<1>8. CommandsKept'
  <2> SUFFICES ASSUME NEW x \in Sessions, parent'[x] \notin {"free", "inUse"}
               PROVE  cmd[x] \in Cmds
    BY DEF CommandsKept
  <2>1. CASE x \in moved
    BY <2>1, <1>5 DEF WakeUpInv, CommandsKept, ListsConsistent
  <2>2. CASE x \notin moved
    BY <2>2, <1>2 DEF WakeUpInv, CommandsKept
  <2>3. QED BY <2>1, <2>2
<1>9. AskersNeedTheName'
  <2> SUFFICES ASSUME NEW x \in RangeOf(waitingReg'), NEW m \in Names, NEW k \in BOOLEAN,
                      AsksFor(x, m, k)', Registered(m, k)'
               PROVE  FALSE
    BY DEF AskersNeedTheName
  <2>1. x \in RangeOf(waitingReg) /\ x \notin moved /\ AsksFor(x, m, k)
    BY <1>2 DEF AsksFor, Awaits
  <2>2. ~Registered(m, k)
    BY <2>1 DEF WakeUpInv, AskersNeedTheName
  <2>3. m = n /\ k = named
    BY <2>2 DEF Registered
  <2>4. QED BY <2>1, <2>3, <1>4
<1>10. WokenFindsName'
  <2> SUFFICES ASSUME NEW x \in RangeOf(toWakeUp')
               PROVE  Registered(cmd[x].name, cmd[x].op = "GetPort")'
    BY DEF WokenFindsName
  <2>1. CASE x \in RangeOf(toWakeUp)
    BY <2>1 DEF WakeUpInv, WokenFindsName, Registered
  <2>2. CASE x \in moved
    <3>1. cmd[x].name = n /\ cmd[x].op = IF named THEN "GetPort" ELSE "GetServiceHandle"
      BY <2>2, <1>4, <1>5 DEF AsksFor, Awaits
    <3>2. (cmd[x].op = "GetPort") = named
      BY <3>1
    <3>3. QED BY <3>1, <3>2 DEF Registered
  <2>3. QED BY <2>1, <2>2, <1>2
<1>11. ReplyToSessionInUse'
  <2>1. parent[s] = "inUse" /\ s \in Sessions
    BY DEF InUse
  <2>2. s \notin moved
    BY <2>1, <1>5 DEF WakeUpInv, ListsConsistent
  <2>3. QED BY <2>1, <2>2, <1>2 DEF ReplyToSessionInUse
<1>12. QED BY <1>2, <1>6, <1>7, <1>8, <1>9, <1>10, <1>11 DEF WakeUpInv

LEMMA RegisterServiceKeeps ==
    ASSUME WakeUpInv, NEW s \in Sessions, NEW n \in Names, RegisterService(s, n)
    PROVE  WakeUpInv'
<1>1. PICK p \in Ports :
        /\ services' = services \cup
             {[name |-> n, isNamedPort |-> FALSE, pid |-> pid[s], clientPort |-> p]}
        /\ port' = [port EXCEPT ![p] =
             [live |-> TRUE, held |-> TRUE, used |-> 0, holder |-> owner[s]]]
  BY DEF RegisterService, FreshPorts
<1> DEFINE e == [name |-> n, isNamedPort |-> FALSE, pid |-> pid[s], clientPort |-> p]
<1>2. e \in Services /\ e.name = n /\ e.isNamedPort = FALSE
  BY DEF Services, WakeUpInv, TypeOK
<1>3. [live |-> TRUE, held |-> TRUE, used |-> 0, holder |-> owner[s]] \in PortStates
  BY ConstantsAssumption DEF PortStates, WakeUpInv, TypeOK
<1>4. port' \in [Ports -> PortStates]
  BY <1>1, <1>3 DEF WakeUpInv, TypeOK
<1>5. Running /\ s \in InUse
  BY DEF RegisterService, SrvRequest, Listening, Receiving
<1> HIDE DEF e
<1>6. services' = services \cup {e}
  BY <1>1 DEF e
<1>7. QED BY <1>2, <1>4, <1>5, <1>6, WakeUpKeeps DEF RegisterService

LEMMA RegisterPortKeeps ==
    ASSUME WakeUpInv, NEW s \in Sessions, NEW n \in Names, RegisterPort(s, n)
    PROVE  WakeUpInv'
<1> DEFINE e == [name |-> n, isNamedPort |-> TRUE, pid |-> pid[s], clientPort |-> NoPort]
<1>1. services' = services \cup {e}
  BY DEF RegisterPort
<1>2. e \in Services /\ e.name = n /\ e.isNamedPort = TRUE
  BY DEF Services, WakeUpInv, TypeOK
<1>3. port' \in [Ports -> PortStates] /\ Running /\ s \in InUse
  BY DEF RegisterPort, SrvRequest, Listening, Receiving, WakeUpInv, TypeOK, envVars
<1> HIDE DEF e
<1>4. QED BY <1>1, <1>2, <1>3, WakeUpKeeps DEF RegisterPort, envVars

-----------------------------------------------------------------------------
(* The other iterations of the loop *)

LEMMA PortClosedKeeps ==
    ASSUME WakeUpInv, NEW p \in Ports, PortClosed(p)
    PROVE  WakeUpInv'
<1> DEFINE I == WaitersOn(p)
           J == DOMAIN waitingPort \ I
           who == {waitingPort[i] : i \in I}
           kept == {waitingPort[i] : i \in J}
<1>1. PICK f \in Enumerations(I), g \in Enumerations(J) :
        /\ waitingReg'  = waitingReg \o [i \in DOMAIN f |-> waitingPort[f[i]]]
        /\ waitingPort' = [i \in DOMAIN g |-> waitingPort[g[i]]]
  BY DEF PortClosed
<1>2. /\ parent' = [x \in Sessions |-> IF x \in who THEN "waitingReg" ELSE parent[x]]
      /\ busy' = [x \in Sessions |-> IF x \in who THEN NoPort ELSE busy[x]]
      /\ clobbered' = clobbered \cup who
      /\ replyTarget = NoSession
      /\ UNCHANGED <<toWakeUp, pid, isSrvPm, cmd, services, processes, sem, replyTarget,
                     panicked, envVars>>
  BY DEF PortClosed, ForgetPort, Listening, Receiving
<1> DEFINE moved == [i \in DOMAIN f |-> waitingPort[f[i]]]
<1>3. /\ waitingPort \in Seq(Sessions) /\ Injective(waitingPort)
      /\ waitingReg \in Seq(Sessions) /\ Injective(waitingReg)
      /\ RangeOf(waitingPort) \subseteq Sessions
      /\ I \in SUBSET DOMAIN waitingPort
  BY RangeInSet DEF WakeUpInv, TypeOK, ListsConsistent, WaitersOn
<1>4. moved \in Seq(Sessions) /\ Injective(moved) /\ RangeOf(moved) = who
  BY <1>3, PickPositions
<1>5. /\ waitingPort' \in Seq(Sessions) /\ Injective(waitingPort')
      /\ RangeOf(waitingPort') = kept
  <2>1. J \in SUBSET DOMAIN waitingPort /\ g \in Enumerations(J)
    OBVIOUS
  <2>2. kept = {waitingPort[i] : i \in J}
    OBVIOUS
  <2> HIDE DEF I, J, who, kept
  <2>3. LET r == [i \in DOMAIN g |-> waitingPort[g[i]]]
        IN  r \in Seq(Sessions) /\ Injective(r) /\ RangeOf(r) = {waitingPort[i] : i \in J}
    BY <2>1, <1>3, PickPositions
  <2>4. QED BY <2>2, <2>3, <1>1
<1>6. who \subseteq RangeOf(waitingPort) /\ kept = RangeOf(waitingPort) \ who
  <2>1. who = {waitingPort[i] : i \in I} /\ kept = {waitingPort[i] : i \in DOMAIN waitingPort \ I}
    OBVIOUS
  <2> HIDE DEF who, kept, I, J
  <2>2. QED BY <2>1, <1>3, PickedAndLeft
<1>7. waitingReg' = waitingReg \o moved
  BY <1>1
<1> HIDE DEF moved, who, kept, I, J
<1>8. \A x \in who : x \in Sessions /\ parent[x] = "waitingPort"
  BY <1>3, <1>6 DEF WakeUpInv, ListsConsistent
<1>9. /\ waitingReg' \in Seq(Sessions) /\ Injective(waitingReg')
      /\ RangeOf(waitingReg') = RangeOf(waitingReg) \cup who
  <2>1. RangeOf(waitingReg) \cap RangeOf(moved) = {}
    BY <1>4, <1>8 DEF WakeUpInv, ListsConsistent
  <2>2. LET c == waitingReg \o moved
        IN  c \in Seq(Sessions) /\ Injective(c)
            /\ RangeOf(c) = RangeOf(waitingReg) \cup RangeOf(moved)
    BY <2>1, <1>3, <1>4, ConcatDisjoint
  <2>3. QED BY <2>2, <1>4, <1>7
<1>10. TypeOK'
  BY <1>2, <1>5, <1>8, <1>9 DEF WakeUpInv, TypeOK, Lists, envVars
<1>11. ListsConsistent'
  <2>1. \A s \in Sessions : s \in RangeOf(waitingReg') <=> parent'[s] = "waitingReg"
    BY <1>2, <1>8, <1>9 DEF WakeUpInv, ListsConsistent
  <2>2. \A s \in Sessions : s \in RangeOf(toWakeUp') <=> parent'[s] = "toWakeUp"
    BY <1>2, <1>8 DEF WakeUpInv, ListsConsistent
  <2>3. \A s \in Sessions : s \in RangeOf(waitingPort') <=> parent'[s] = "waitingPort"
    BY <1>2, <1>5, <1>6 DEF WakeUpInv, ListsConsistent
  <2>4. QED BY <2>1, <2>2, <2>3, <1>2, <1>5, <1>9 DEF WakeUpInv, ListsConsistent
<1>12. CommandsKept'
  BY <1>2, <1>8 DEF WakeUpInv, CommandsKept
<1>13. ResumeAccounted' /\ ReplyToSessionInUse'
  BY <1>2 DEF WakeUpInv, ResumeAccounted, ReplyToSessionInUse, TypeOK
<1>14. AskersNeedTheName'
  BY <1>2, <1>9 DEF WakeUpInv, AskersNeedTheName, AsksFor, Awaits, Registered
<1>15. WokenFindsName'
  BY <1>2 DEF WakeUpInv, WokenFindsName, Registered
<1>16. QED BY <1>10, <1>11, <1>12, <1>13, <1>14, <1>15 DEF WakeUpInv

LEMMA AcceptSessionKeeps ==
    ASSUME WakeUpInv, NEW p \in Owners, NEW isPm \in BOOLEAN, AcceptSession(p, isPm)
    PROVE  WakeUpInv'
<1>0. /\ UNCHANGED <<waitingReg, toWakeUp, waitingPort, cmd, busy, services, processes, sem,
                     replyTarget, alive, port>>
      /\ replyTarget = NoSession /\ Running
  BY DEF AcceptSession, Listening, Receiving
<1>1. CASE \E s \in Sessions :
            /\ parent[s] = "free"
            /\ parent' = [parent EXCEPT ![s] = "inUse"]
            /\ pid' = [pid EXCEPT ![s] = NoPid]
            /\ isSrvPm' = [isSrvPm EXCEPT ![s] = isPm]
            /\ clobbered' = clobbered \ {s}
            /\ owner' = [owner EXCEPT ![s] = p]
            /\ open' = [open EXCEPT ![s] = TRUE]
            /\ UNCHANGED panicked
  <2>1. PICK s \in Sessions :
            /\ parent[s] = "free"
            /\ parent' = [parent EXCEPT ![s] = "inUse"]
            /\ pid' = [pid EXCEPT ![s] = NoPid]
            /\ isSrvPm' = [isSrvPm EXCEPT ![s] = isPm]
            /\ clobbered' = clobbered \ {s}
            /\ owner' = [owner EXCEPT ![s] = p]
            /\ open' = [open EXCEPT ![s] = TRUE]
            /\ UNCHANGED panicked
    BY <1>1
  <2>2. TypeOK'
    BY <1>0, <2>1 DEF WakeUpInv, TypeOK, Lists, Pids
  <2>3. ListsConsistent' /\ CommandsKept'
    BY <1>0, <2>1 DEF WakeUpInv, TypeOK, ListsConsistent, CommandsKept
  <2>4. ResumeAccounted' /\ ReplyToSessionInUse'
    BY <1>0, <2>1 DEF WakeUpInv, ResumeAccounted, ReplyToSessionInUse
  <2>5. AskersNeedTheName'
    <3>1. s \notin RangeOf(waitingReg)
      BY <2>1 DEF WakeUpInv, ListsConsistent
    <3>2. QED BY <1>0, <2>1, <3>1 DEF WakeUpInv, AskersNeedTheName, AsksFor, Awaits, Registered
  <2>6. WokenFindsName'
    BY <1>0 DEF WakeUpInv, WokenFindsName, Registered
  <2>7. QED BY <2>2, <2>3, <2>4, <2>5, <2>6 DEF WakeUpInv
<1>2. CASE /\ panicked' = "noFreeSession"
           /\ UNCHANGED <<parent, pid, isSrvPm, clobbered, owner, open>>
  <2>1. TypeOK'
    BY <1>0, <1>2 DEF WakeUpInv, TypeOK, Panics
  <2>2. QED
    BY <1>0, <1>2, <2>1 DEF WakeUpInv, ListsConsistent, CommandsKept, ResumeAccounted, Running,
       AskersNeedTheName, WokenFindsName, ReplyToSessionInUse, AsksFor, Awaits, Registered
<1>3. QED BY <1>1, <1>2 DEF AcceptSession

LEMMA FreeKeeps ==
    ASSUME WakeUpInv, NEW s \in Sessions, parent[s] = "inUse", Free(s)
    PROVE  WakeUpInv'
<1>1. TypeOK'
  BY DEF WakeUpInv, TypeOK, Free, Lists, Pids, Owners
<1>2. ListsConsistent' /\ CommandsKept'
  BY DEF WakeUpInv, TypeOK, ListsConsistent, CommandsKept, Free
<1>3. ResumeAccounted' /\ ReplyToSessionInUse' /\ AskersNeedTheName' /\ WokenFindsName'
  BY DEF WakeUpInv, ResumeAccounted, ReplyToSessionInUse, AskersNeedTheName, WokenFindsName,
         AsksFor, Awaits, Registered, Free
<1>4. QED BY <1>1, <1>2, <1>3 DEF WakeUpInv

LEMMA DeliverReplyKeeps ==
    ASSUME WakeUpInv, DeliverReply
    PROVE  WakeUpInv'
<1>1. replyTarget \in Sessions /\ parent[replyTarget] = "inUse"
  BY DEF WakeUpInv, TypeOK, ReplyToSessionInUse, DeliverReply
<1>2. CASE Free(replyTarget)
  BY <1>1, <1>2, FreeKeeps
<1>3. CASE /\ replyTarget' = NoSession
           /\ UNCHANGED <<parent, pid, isSrvPm, owner>>
           /\ UNCHANGED <<waitingReg, toWakeUp, waitingPort, cmd, clobbered, busy, services,
                          processes, sem, panicked, open, alive, port>>
  <2>1. TypeOK' /\ ReplyToSessionInUse'
    BY <1>3 DEF WakeUpInv, TypeOK, ReplyToSessionInUse
  <2>2. QED BY <1>3, <2>1, FrameKeeps
<1>4. QED BY <1>2, <1>3 DEF DeliverReply

LEMMA TrapKeeps ==
    ASSUME WakeUpInv, Trap
    PROVE  WakeUpInv'
<1>1. TypeOK'
  BY DEF WakeUpInv, TypeOK, Trap, Panics, envVars
<1>2. ResumeAccounted'
  BY DEF WakeUpInv, ResumeAccounted, Trap, Running
<1>3. QED
  BY <1>1, <1>2 DEF WakeUpInv, ListsConsistent, CommandsKept, AskersNeedTheName, WokenFindsName,
     ReplyToSessionInUse, AsksFor, Awaits, Registered, Trap

-----------------------------------------------------------------------------
(* The traps *)

\* The sessions of the two ports are finite in number.
LEMMA AdmittedFinite ==
    ASSUME NEW isPm \in BOOLEAN
    PROVE  /\ Admitted(isPm) \subseteq Sessions
           /\ IsFiniteSet(Admitted(isPm)) /\ Cardinality(Admitted(isPm)) \in Nat
<1>1. Admitted(isPm) \subseteq Sessions
  BY DEF Admitted
<1>2. IsFiniteSet(Admitted(isPm))
  BY <1>1, ConstantsAssumption, FS_Subset
<1>3. QED BY <1>1, <1>2, FS_CardinalityType

\* A step that admits no session to a port, and postpones none of srv:pm that was
\* not postponed or that may issue srv: commands, keeps the limits.
LEMMA FewerSessionsKeep ==
    ASSUME TrapInv, OnlyStaleHandlePanics',
           \A isPm \in BOOLEAN : Admitted(isPm)' \subseteq Admitted(isPm),
           \A s \in Sessions : parent'[s] \notin {"free", "inUse"} /\ isSrvPm'[s]
                                 => \/ IsPre7x
                                    \/ parent[s] \notin {"free", "inUse"} /\ isSrvPm[s]
    PROVE  TrapInv'
<1>1. ASSUME NEW isPm \in BOOLEAN
      PROVE  (Cardinality(Admitted(isPm)) <= AdmittedMax(isPm))'
  <2> DEFINE A == Admitted(isPm)
             B == Admitted(isPm)'
  <2>1. /\ IsFiniteSet(A) /\ Cardinality(A) \in Nat /\ Cardinality(A) <= AdmittedMax(isPm)
        /\ B \in SUBSET A
    BY AdmittedFinite DEF TrapInv
  <2>2. AdmittedMax(isPm) \in Nat
    BY ConstantsAssumption DEF AdmittedMax
  <2> HIDE DEF A, B
  <2>3. Cardinality(B) <= Cardinality(A) /\ Cardinality(B) \in Nat
    BY <2>1, FS_Subset, FS_CardinalityType
  <2>4. Cardinality(B) <= AdmittedMax(isPm)
    BY <2>1, <2>2, <2>3
  <2>5. QED BY <2>4 DEF B, AdmittedMax
<1>2. (\A s \in Sessions : parent[s] \notin {"free", "inUse"} /\ isSrvPm[s] => IsPre7x)'
  BY DEF TrapInv
<1>3. QED BY <1>1, <1>2 DEF TrapInv

\* What keeps every session in or out of the free list, and the reason of the
\* trap, keeps the limits.
LEMMA SameSessionsKeep ==
    ASSUME TrapInv, OnlyStaleHandlePanics', UNCHANGED isSrvPm,
           \A s \in Sessions : parent'[s] # "free" => parent[s] # "free",
           \A s \in Sessions : parent'[s] \notin {"free", "inUse"} /\ isSrvPm[s]
                                 => IsPre7x \/ parent[s] \notin {"free", "inUse"}
    PROVE  TrapInv'
<1>1. \A isPm \in BOOLEAN : Admitted(isPm)' \subseteq Admitted(isPm)
  BY DEF Admitted
<1>2. QED BY <1>1, FewerSessionsKeep

\* At a registration the sessions that wait for the name fit in the semaphore:
\* the session that registers is not one of them.
LEMMA AskersFit ==
    ASSUME WakeUpInv, TrapInv, SemaphoreSuffices, NEW s \in Sessions, SrvRequest(s),
           NEW n \in Names, NEW named \in BOOLEAN
    PROVE  sem + Cardinality(Askers(n, named)) <= SemMax
<1> DEFINE I == Askers(n, named)
           A == Admitted(FALSE)
           B == IF IsPre7x THEN Admitted(TRUE) ELSE {}
           P == A \cup B
           room == IF IsPre7x THEN SrvPmMax ELSE 0
<1>1. sem = 0 /\ parent[s] = "inUse" /\ (isSrvPm[s] => IsPre7x)
  BY DEF SrvRequest, Listening, InUse
<1>2. /\ waitingReg \in Seq(Sessions) /\ Injective(waitingReg)
      /\ \A i \in I : /\ i \in DOMAIN waitingReg /\ waitingReg[i] \in Sessions
                      /\ parent[waitingReg[i]] = "waitingReg"
  BY ElementOfSeq, LenProperties
  DEF WakeUpInv, TypeOK, ListsConsistent, Askers, RangeOf
<1>3. /\ IsFiniteSet(A) /\ Cardinality(A) \in Nat /\ Cardinality(A) <= SrvMax
      /\ IsFiniteSet(B) /\ Cardinality(B) \in Nat /\ Cardinality(B) <= room
  <2>1. IsFiniteSet({}) /\ Cardinality({}) = 0
    BY FS_EmptySet
  <2>2. \A isPm \in BOOLEAN : /\ IsFiniteSet(Admitted(isPm))
                              /\ Cardinality(Admitted(isPm)) \in Nat
                              /\ Cardinality(Admitted(isPm)) <= AdmittedMax(isPm)
    BY AdmittedFinite DEF TrapInv
  <2>3. CASE IsPre7x
    <3>1. B = Admitted(TRUE) /\ room = SrvPmMax
      BY <2>3
    <3>2. QED BY <3>1, <2>2 DEF AdmittedMax
  <2>4. CASE ~IsPre7x
    <3>1. B = {} /\ room = 0
      BY <2>4
    <3> HIDE DEF B, room
    <3>2. IsFiniteSet(B) /\ Cardinality(B) \in Nat /\ Cardinality(B) <= room
      BY <3>1, <2>1
    <3>3. IsFiniteSet(A) /\ Cardinality(A) \in Nat /\ Cardinality(A) <= SrvMax
      BY <2>2 DEF AdmittedMax
    <3>4. QED BY <3>2, <3>3
  <2>5. QED BY <2>3, <2>4
<1>4. s \in P
  BY <1>1 DEF Admitted, WakeUpInv, TypeOK
<1>5. \A i \in I : waitingReg[i] \in P \ {s}
  <2> SUFFICES ASSUME NEW i \in I PROVE waitingReg[i] \in P \ {s}
    OBVIOUS
  <2> DEFINE w == waitingReg[i]
  <2>1. w \in Sessions /\ parent[w] = "waitingReg" /\ isSrvPm[w] \in BOOLEAN
    BY <1>2 DEF WakeUpInv, TypeOK
  <2>2. isSrvPm[w] => IsPre7x
    BY <2>1 DEF TrapInv
  <2>3. w # s
    BY <2>1, <1>1
  <2>4. QED BY <2>1, <2>2, <2>3 DEF Admitted
<1> HIDE DEF A, B, I
<1>6. IsFiniteSet(P) /\ Cardinality(P) \in Nat /\ Cardinality(P) <= Cardinality(A) + Cardinality(B)
  <2>1. /\ IsFiniteSet(P)
        /\ Cardinality(P) = Cardinality(A) + Cardinality(B) - Cardinality(A \cap B)
    BY <1>3, FS_Union
  <2>2. Cardinality(A \cap B) \in Nat
    BY <1>3, FS_Intersection, FS_CardinalityType
  <2>3. Cardinality(P) \in Nat
    BY <2>1, FS_CardinalityType
  <2>4. QED BY <2>1, <2>2, <2>3, <1>3
<1> HIDE DEF P
<1>7. IsFiniteSet(P \ {s}) /\ Cardinality(P \ {s}) = Cardinality(P) - 1
  BY <1>4, <1>6, FS_RemoveElement
<1>8. Cardinality(I) \in Nat /\ Cardinality(I) <= Cardinality(P \ {s})
  <2> DEFINE T == P \ {s}
             f == [i \in I |-> waitingReg[i]]
  <2>1. f \in Injection(I, T)
    <3>1. f \in [I -> T]
      BY <1>5
    <3>2. \A i, j \in I : f[i] = f[j] => i = j
      BY <1>2 DEF Injective
    <3> HIDE DEF f, T
    <3>3. QED BY <3>1, <3>2 DEF Injection, IsInjective
  <2>2. IsFiniteSet(T)
    BY <1>7
  <2> HIDE DEF f, T
  <2>3. IsFiniteSet(I) /\ Cardinality(I) <= Cardinality(T)
    BY <2>1, <2>2, FS_Injection
  <2>4. QED BY <2>3, FS_CardinalityType DEF T
<1>9. SrvMax \in Nat /\ SemMax \in Nat /\ room \in Nat /\ SrvMax + room <= SemMax + 1
  BY ConstantsAssumption DEF SemaphoreSuffices
<1>10. Cardinality(I) <= SemMax
  <2> HIDE DEF room
  <2>1. Cardinality(P \ {s}) + 1 <= SemMax + 1
    BY <1>3, <1>6, <1>7, <1>9
  <2>2. QED BY <2>1, <1>6, <1>7, <1>8, <1>9
<1>11. QED BY <1>1, <1>8, <1>9, <1>10 DEF I

\* A registration, of a service or of a named port, does not exceed the semaphore.
LEMMA WakeUpWaitersKeepTrap ==
    ASSUME WakeUpInv, TrapInv, NEW s \in Sessions, SrvRequest(s),
           NEW n \in Names, NEW named \in BOOLEAN, WakeUpWaiters(n, named),
           UNCHANGED isSrvPm
    PROVE  TrapInv'
<1>1. OnlyStaleHandlePanics'
  <2> SUFFICES ASSUME SemaphoreSuffices
               PROVE  panicked' \in {"no", "invalidHandle"}
    BY DEF OnlyStaleHandlePanics, SemaphoreSuffices
  <2>1. sem + Cardinality(Askers(n, named)) <= SemMax
    BY AskersFit
  <2>2. panicked' = panicked
    BY <2>1 DEF WakeUpWaiters, ReleaseResume
  <2>3. QED BY <2>2 DEF SrvRequest, Listening, Receiving, Running
<1>2. \A x \in Sessions : parent'[x] = parent[x] \/
                          (parent[x] = "waitingReg" /\ parent'[x] = "toWakeUp")
  <2>1. parent' = [x \in Sessions |->
                     IF \E i \in Askers(n, named) : waitingReg[i] = x
                     THEN "toWakeUp" ELSE parent[x]]
    BY DEF WakeUpWaiters, MoveToWakeUp
  <2>2. \A i \in Askers(n, named) : waitingReg[i] \in Sessions => parent[waitingReg[i]] = "waitingReg"
    BY DEF Askers, RangeOf, WakeUpInv, ListsConsistent
  <2>3. QED BY <2>1, <2>2
<1>3. QED BY <1>1, <1>2, SameSessionsKeep

\* A command that may be postponed moves a session that may issue it.
LEMMA HandleKeepsTrap ==
    ASSUME WakeUpInv, TrapInv, OnlyStaleHandlePanics', NEW s \in Sessions,
           parent[s] # "free",
           isSrvPm[s] => IsPre7x \/ parent[s] # "inUse",
           NEW c \in Cmds, NEW tw, NEW wp, HandlePostponable(s, c, tw, wp),
           UNCHANGED isSrvPm
    PROVE  TrapInv'
<1>1. \E l : parent' = [parent EXCEPT ![s] = l]
  BY HandleOutcomes DEF WakeUpInv, Answer, PostponeUntilRegistered, PostponeUntilPortReady
<1>2. \A x \in Sessions : x # s => parent'[x] = parent[x]
  BY <1>1
<1>3. QED BY <1>2, SameSessionsKeep

LEMMA AcceptSessionKeepsTrap ==
    ASSUME WakeUpInv, TrapInv, NEW p, NEW isPm \in BOOLEAN, AcceptSession(p, isPm)
    PROVE  TrapInv'
<1>0. /\ \A b \in BOOLEAN : /\ IsFiniteSet(Admitted(b)) /\ Cardinality(Admitted(b)) \in Nat
                            /\ Cardinality(Admitted(b)) <= AdmittedMax(b)
                            /\ AdmittedMax(b) \in Nat
      /\ Cardinality(Admitted(isPm)) < AdmittedMax(isPm)
      /\ panicked = "no"
  BY AdmittedFinite, ConstantsAssumption
  DEF TrapInv, AcceptSession, AdmittedMax, Listening, Receiving, Running
<1>1. CASE \E s \in Sessions :
            /\ parent[s] = "free"
            /\ parent' = [parent EXCEPT ![s] = "inUse"]
            /\ isSrvPm' = [isSrvPm EXCEPT ![s] = isPm]
            /\ UNCHANGED panicked
  <2>1. PICK s \in Sessions :
            /\ parent[s] = "free"
            /\ parent' = [parent EXCEPT ![s] = "inUse"]
            /\ isSrvPm' = [isSrvPm EXCEPT ![s] = isPm]
            /\ UNCHANGED panicked
    BY <1>1
  <2>2. parent \in [Sessions -> Lists] /\ isSrvPm \in [Sessions -> BOOLEAN]
    BY DEF WakeUpInv, TypeOK
  <2>3. Admitted(isPm)' = Admitted(isPm) \cup {s} /\ s \notin Admitted(isPm)
    BY <2>1, <2>2 DEF Admitted
  <2>4. \A b \in BOOLEAN : b # isPm => Admitted(b)' = Admitted(b)
    BY <2>1, <2>2 DEF Admitted
  <2>5. ASSUME NEW b \in BOOLEAN PROVE (Cardinality(Admitted(b)) <= AdmittedMax(b))'
    <3>1. CASE b # isPm
      BY <3>1, <2>4, <1>0 DEF AdmittedMax
    <3>2. CASE b = isPm
      <4>1. Cardinality(Admitted(isPm) \cup {s}) = Cardinality(Admitted(isPm)) + 1
        BY <2>3, <1>0, FS_AddElement
      <4>2. Cardinality(Admitted(isPm) \cup {s}) <= AdmittedMax(isPm)
        BY <4>1, <1>0
      <4>3. QED BY <4>2, <3>2, <2>3 DEF AdmittedMax
    <3>3. QED BY <3>1, <3>2
  <2>6. (\A x \in Sessions : parent[x] \notin {"free", "inUse"} /\ isSrvPm[x] => IsPre7x)'
    BY <2>1, <2>2 DEF TrapInv
  <2>7. OnlyStaleHandlePanics'
    BY <2>1, <1>0 DEF OnlyStaleHandlePanics
  <2>8. QED BY <2>5, <2>6, <2>7 DEF TrapInv
<1>2. CASE /\ \A s \in Sessions : parent[s] # "free"
           /\ panicked' = "noFreeSession"
           /\ UNCHANGED <<parent, isSrvPm>>
  <2> DEFINE A == Admitted(TRUE)
             B == Admitted(FALSE)
  <2>1. Sessions = A \cup B
    BY <1>2 DEF Admitted, WakeUpInv, TypeOK
  <2>2. A \cap B = {}
    BY DEF Admitted
  <2>3. /\ IsFiniteSet(A) /\ Cardinality(A) \in Nat /\ Cardinality(A) <= SrvPmMax
        /\ IsFiniteSet(B) /\ Cardinality(B) \in Nat /\ Cardinality(B) <= SrvMax
        /\ Cardinality(A) < SrvPmMax \/ Cardinality(B) < SrvMax
        /\ SrvMax \in Nat /\ SrvPmMax \in Nat
    BY <1>0, ConstantsAssumption DEF AdmittedMax
  <2> HIDE DEF A, B
  <2>4. Cardinality(Sessions) = Cardinality(A) + Cardinality(B)
    <3>1. Cardinality(A \cup B) = Cardinality(A) + Cardinality(B) - Cardinality(A \cap B)
      BY <2>3, FS_Union
    <3>2. Cardinality(A \cap B) = 0
      BY <2>2, FS_EmptySet
    <3>3. QED BY <3>1, <3>2, <2>1, <2>3
  <2>5. Cardinality(Sessions) < SrvMax + SrvPmMax
    BY <2>3, <2>4
  <2>6. OnlyStaleHandlePanics'
    BY <1>2, <2>5 DEF OnlyStaleHandlePanics
  <2>7. QED BY <1>2, <2>6, SameSessionsKeep
<1>3. QED BY <1>1, <1>2 DEF AcceptSession

LEMMA FreeKeepsTrap ==
    ASSUME WakeUpInv, TrapInv, Running, NEW s \in Sessions, Free(s)
    PROVE  TrapInv'
<1>1. OnlyStaleHandlePanics'
  BY DEF OnlyStaleHandlePanics, Free, Running
<1>2. parent' = [parent EXCEPT ![s] = "free"] /\ isSrvPm' = [isSrvPm EXCEPT ![s] = FALSE]
  BY DEF Free
<1>3. \A isPm \in BOOLEAN : Admitted(isPm)' \subseteq Admitted(isPm)
  BY <1>2 DEF Admitted, WakeUpInv, TypeOK
<1>4. QED BY <1>1, <1>2, <1>3, FewerSessionsKeep DEF WakeUpInv, TypeOK

\* What TrapInv says depends on these variables only.
LEMMA TrapFrame ==
    ASSUME TrapInv, UNCHANGED <<parent, isSrvPm, panicked>>
    PROVE  TrapInv'
<1>1. OnlyStaleHandlePanics'
  BY DEF TrapInv, OnlyStaleHandlePanics, SemaphoreSuffices
<1>2. QED BY <1>1, SameSessionsKeep

LEMMA InitTrapInv == Init => TrapInv
<1> SUFFICES ASSUME Init PROVE TrapInv
  OBVIOUS
<1>1. \A isPm \in BOOLEAN : Admitted(isPm) = {}
  BY DEF Init, Admitted
<1>2. \A isPm \in BOOLEAN : Cardinality(Admitted(isPm)) <= AdmittedMax(isPm)
  BY <1>1, FS_EmptySet, ConstantsAssumption DEF AdmittedMax
<1>3. QED BY <1>2 DEF Init, TrapInv, OnlyStaleHandlePanics

LEMMA NextKeepsTrapInv == WakeUpInv /\ TrapInv /\ [Next]_vars => TrapInv'
<1> SUFFICES ASSUME WakeUpInv, TrapInv, [Next]_vars PROVE TrapInv'
  OBVIOUS
<1>1. ASSUME NEW s \in Sessions, RegisterClient(s) \/ ErrorOrQuery(s) PROVE TrapInv'
  BY <1>1, TrapFrame DEF RegisterClient, ErrorOrQuery, Reply
<1>2. ASSUME NEW s \in Sessions, RequestServiceOrPort(s) PROVE TrapInv'
  <2>1. PICK c \in Cmds : HandlePostponable(s, c, toWakeUp, waitingPort)
    BY <1>2 DEF RequestServiceOrPort
  <2>2. parent[s] # "free" /\ (isSrvPm[s] => IsPre7x)
    BY <1>2 DEF RequestServiceOrPort, SrvRequest, InUse
  <2>3. OnlyStaleHandlePanics' /\ UNCHANGED isSrvPm
    BY <1>2 DEF RequestServiceOrPort, OnlyStaleHandlePanics, SrvRequest, Listening, Receiving,
                Running
  <2>4. QED BY <2>1, <2>2, <2>3, HandleKeepsTrap
<1>3. ASSUME NEW s \in Sessions, SessionClosed(s) PROVE TrapInv'
  BY <1>3, FreeKeepsTrap DEF SessionClosed, Listening, Receiving
<1>4. ASSUME NEW s \in Sessions, NEW n \in Names, RegisterService(s, n) PROVE TrapInv'
  BY <1>4, WakeUpWaitersKeepTrap DEF RegisterService
<1>5. ASSUME NEW s \in Sessions, NEW n \in Names, RegisterPort(s, n) PROVE TrapInv'
  BY <1>5, WakeUpWaitersKeepTrap DEF RegisterPort
<1>6. ASSUME NEW s \in Sessions, NEW n \in Names, NEW named \in BOOLEAN,
             UnregisterServiceOrPort(s, n, named)
      PROVE  TrapInv'
  BY <1>6, TrapFrame DEF UnregisterServiceOrPort, Reply
<1>7. ASSUME NEW s \in Sessions, NEW p \in Procs, RegisterProcess(s, p) \/ UnregisterProcess(s, p)
      PROVE  TrapInv'
  BY <1>7, TrapFrame DEF RegisterProcess, UnregisterProcess, Reply
<1>8. ASSUME NEW p, NEW isPm \in BOOLEAN, AcceptSession(p, isPm) PROVE TrapInv'
  BY <1>8, AcceptSessionKeepsTrap
<1>9. CASE DeliverReply
  <2>1. CASE Free(replyTarget)
    BY <2>1, <1>9, FreeKeepsTrap DEF DeliverReply, WakeUpInv, TypeOK
  <2>2. CASE UNCHANGED <<parent, isSrvPm, panicked>>
    BY <2>2, TrapFrame
  <2>3. QED BY <1>9, <2>1, <2>2 DEF DeliverReply
<1>10. CASE Resume
  <2> DEFINE s == Head(toWakeUp)
  <2>1. toWakeUp # <<>>
    BY <1>10, EmptySeq DEF Resume, Receiving, Running, WakeUpInv, ResumeAccounted
  <2>2. s \in Sessions /\ s \in RangeOf(toWakeUp)
    BY <2>1, PopHead DEF WakeUpInv, TypeOK, ListsConsistent
  <2>3. parent[s] = "toWakeUp" /\ cmd[s] \in Cmds
    BY <2>2 DEF WakeUpInv, ListsConsistent, CommandsKept
  <2>4. HandlePostponable(s, cmd[s], Tail(toWakeUp), waitingPort) /\ UNCHANGED <<panicked, isSrvPm>>
    BY <1>10, <2>1 DEF Resume
  <2>5. OnlyStaleHandlePanics'
    BY <1>10, <2>4 DEF Resume, OnlyStaleHandlePanics, Receiving, Running
  <2> HIDE DEF s
  <2>6. QED BY <2>2, <2>3, <2>4, <2>5, HandleKeepsTrap
<1>11. ASSUME NEW p \in Ports, ResumePortReady(p) PROVE TrapInv'
  <2>1. PICK i \in DOMAIN waitingPort :
          HandlePostponable(waitingPort[i], cmd[waitingPort[i]], toWakeUp,
                            Without(waitingPort, waitingPort[i]))
    BY <1>11 DEF ResumePortReady
  <2> DEFINE s == waitingPort[i]
  <2>2. s \in RangeOf(waitingPort) /\ s \in Sessions
    BY ElementOfSeq, LenProperties DEF RangeOf, WakeUpInv, TypeOK
  <2>3. parent[s] = "waitingPort" /\ cmd[s] \in Cmds
    BY <2>2 DEF WakeUpInv, ListsConsistent, CommandsKept
  <2>4. UNCHANGED <<panicked, isSrvPm>>
    BY <1>11 DEF ResumePortReady
  <2>5. OnlyStaleHandlePanics'
    BY <1>11, <2>4 DEF ResumePortReady, OnlyStaleHandlePanics, Listening, Receiving, Running
  <2>6. HandlePostponable(s, cmd[s], toWakeUp, Without(waitingPort, s))
    BY <2>1
  <2> HIDE DEF s
  <2>7. QED BY <2>2, <2>3, <2>4, <2>5, <2>6, HandleKeepsTrap
<1>12. ASSUME NEW p \in Ports, PortClosed(p) PROVE TrapInv'
  <2> DEFINE who == {waitingPort[i] : i \in WaitersOn(p)}
  <2>1. /\ parent' = [x \in Sessions |-> IF x \in who THEN "waitingReg" ELSE parent[x]]
        /\ UNCHANGED <<panicked, isSrvPm>>
    BY <1>12 DEF PortClosed
  <2>2. \A x \in who : x \in Sessions => parent[x] = "waitingPort"
    BY DEF WaitersOn, RangeOf, WakeUpInv, ListsConsistent
  <2>3. OnlyStaleHandlePanics'
    BY <2>1 DEF TrapInv, OnlyStaleHandlePanics, SemaphoreSuffices
  <2> HIDE DEF who
  <2>4. QED BY <2>1, <2>2, <2>3, SameSessionsKeep
<1>13. CASE Trap
  <2>1. OnlyStaleHandlePanics'
    BY <1>13 DEF Trap, OnlyStaleHandlePanics
  <2>2. UNCHANGED <<parent, isSrvPm>>
    BY <1>13 DEF Trap
  <2>3. QED BY <2>1, <2>2, SameSessionsKeep
<1>14. CASE Environment
  BY <1>14, TrapFrame
  DEF Environment, ClientCloses, ProcessEnds, ServerClosesPort, ServiceSessionEnds, smVars
<1>15. CASE UNCHANGED vars
  BY <1>15, TrapFrame DEF vars, smVars
<1>16. QED
  BY <1>1, <1>2, <1>3, <1>4, <1>5, <1>6, <1>7, <1>8, <1>9, <1>10, <1>11, <1>12, <1>13, <1>14,
     <1>15 DEF Next, Server

-----------------------------------------------------------------------------
(* The theorems *)

LEMMA InitWakeUpInv == Init => WakeUpInv
<1> SUFFICES ASSUME Init PROVE WakeUpInv
  OBVIOUS
<1>1. ClosedPort \in PortStates
  BY ConstantsAssumption DEF ClosedPort, PortStates, Owners
<1>2. TypeOK
  BY <1>1, ConstantsAssumption, EmptySeq
  DEF Init, TypeOK, Lists, Pids, Owners, Panics
<1>3. RangeOf(<<>>) = {} /\ Injective(<<>>)
  BY DEF RangeOf, Injective
<1>4. QED
  BY <1>2, <1>3 DEF Init, WakeUpInv, ListsConsistent, CommandsKept, ResumeAccounted,
     AskersNeedTheName, WokenFindsName, ReplyToSessionInUse

LEMMA NextKeepsWakeUpInv == WakeUpInv /\ [Next]_vars => WakeUpInv'
<1> SUFFICES ASSUME WakeUpInv, [Next]_vars PROVE WakeUpInv'
  OBVIOUS
<1>1. ASSUME NEW s \in Sessions, RegisterClient(s) PROVE WakeUpInv'
  BY <1>1, RegisterClientKeeps
<1>2. ASSUME NEW s \in Sessions, RequestServiceOrPort(s) PROVE WakeUpInv'
  BY <1>2, RequestServiceOrPortKeeps
<1>3. ASSUME NEW s \in Sessions, ErrorOrQuery(s) PROVE WakeUpInv'
  BY <1>3, ErrorOrQueryKeeps
<1>4. ASSUME NEW s \in Sessions, SessionClosed(s) PROVE WakeUpInv'
  BY <1>4, FreeKeeps DEF SessionClosed, InUse
<1>5. ASSUME NEW s \in Sessions, NEW n \in Names, RegisterService(s, n) PROVE WakeUpInv'
  BY <1>5, RegisterServiceKeeps
<1>6. ASSUME NEW s \in Sessions, NEW n \in Names, RegisterPort(s, n) PROVE WakeUpInv'
  BY <1>6, RegisterPortKeeps
<1>7. ASSUME NEW s \in Sessions, NEW n \in Names, NEW named \in BOOLEAN,
             UnregisterServiceOrPort(s, n, named)
      PROVE  WakeUpInv'
  BY <1>7, UnregisterServiceOrPortKeeps
<1>8. ASSUME NEW s \in Sessions, NEW p \in Procs, RegisterProcess(s, p) PROVE WakeUpInv'
  BY <1>8, RegisterProcessKeeps
<1>9. ASSUME NEW s \in Sessions, NEW p \in Procs, UnregisterProcess(s, p) PROVE WakeUpInv'
  BY <1>9, UnregisterProcessKeeps
<1>10. ASSUME NEW p \in Procs, AcceptSession(p, FALSE) PROVE WakeUpInv'
  BY <1>10, AcceptSessionKeeps DEF Owners
<1>11. CASE AcceptSession(Pm, TRUE)
  BY <1>11, AcceptSessionKeeps DEF Owners
<1>12. CASE DeliverReply
  BY <1>12, DeliverReplyKeeps
<1>13. CASE Resume
  BY <1>13, ResumeKeeps
<1>14. ASSUME NEW p \in Ports, ResumePortReady(p) PROVE WakeUpInv'
  BY <1>14, ResumePortReadyKeeps
<1>15. ASSUME NEW p \in Ports, PortClosed(p) PROVE WakeUpInv'
  BY <1>15, PortClosedKeeps
<1>16. CASE Trap
  BY <1>16, TrapKeeps
<1>17. CASE Environment
  BY <1>17, EnvironmentKeeps
<1>18. CASE UNCHANGED vars
  <2>1. TypeOK' /\ ReplyToSessionInUse'
    BY <1>18 DEF vars, smVars, envVars, WakeUpInv, TypeOK, ReplyToSessionInUse
  <2>2. QED BY <1>18, <2>1, FrameKeeps DEF vars, smVars
<1>19. QED
  BY <1>1, <1>2, <1>3, <1>4, <1>5, <1>6, <1>7, <1>8, <1>9, <1>10, <1>11, <1>12, <1>13, <1>14,
     <1>15, <1>16, <1>17, <1>18 DEF Next, Server

\* sm's state keeps its types and its wake-up bookkeeping under every sequence
\* of requests, closes and deaths.
THEOREM WakeUpInvariant == Spec => []WakeUpInv
<1>1. Init => WakeUpInv
  BY InitWakeUpInv
<1>2. WakeUpInv /\ [Next]_vars => WakeUpInv'
  BY NextKeepsWakeUpInv
<1>3. QED BY <1>1, <1>2, PTL DEF Spec

\* Every variable of the service manager keeps its type.
THEOREM TypeCorrect == Spec => []TypeOK
<1>1. WakeUpInv => TypeOK
  BY DEF WakeUpInv
<1>2. QED BY <1>1, WakeUpInvariant, PTL

\* The session lists partition the postponed sessions (moveNode, list.c).
THEOREM SessionsInOneList == Spec => []ListsConsistent
<1>1. WakeUpInv => ListsConsistent
  BY DEF WakeUpInv
<1>2. QED BY <1>1, WakeUpInvariant, PTL

\* The resume semaphore counts the sessions to wake up: the panic(0) of an empty
\* wake-up list (main.c:187) is unreachable, and no session is forgotten in it.
THEOREM ResumeSemaphoreCounts == Spec => []ResumeAccounted
<1>1. WakeUpInv => ResumeAccounted
  BY DEF WakeUpInv
<1>2. QED BY <1>1, WakeUpInvariant, PTL

\* The replay of a woken session's command finds the name it waited for.
THEOREM WokenSessionsFindTheirName == Spec => []WokenFindsName
<1>1. WakeUpInv => WokenFindsName
  BY DEF WakeUpInv
<1>2. QED BY <1>1, WakeUpInvariant, PTL

\* A postponed request gets no reply before it is replayed (main.c:213-226).
THEOREM RepliesGoToSessionsInUse == Spec => []ReplyToSessionInUse
<1>1. WakeUpInv => ReplyToSessionInUse
  BY DEF WakeUpInv
<1>2. QED BY <1>1, WakeUpInvariant, PTL

\* The sessions of a port never exceed its limit, and only sessions that may
\* issue srv: commands are ever postponed (srv.c, srv_pm.c, main.c:171).
THEOREM TrapInvariant == Spec => []TrapInv
<1>1. Init => TrapInv
  BY InitTrapInv
<1>2. WakeUpInv /\ TrapInv /\ [Next]_vars => TrapInv'
  BY NextKeepsTrapInv
<1>3. QED BY <1>1, <1>2, WakeUpInvariant, PTL DEF Spec

\* With a semaphore large enough for the ports sm traps for a closed port handle in
\* its wait, or because its pool is smaller than what the kernel admits and every
\* session of it is taken (main.c:49): never for an empty wake-up list (main.c:187)
\* nor for a release beyond the maximum.
THEOREM TrapsInTwoCases == Spec => []OnlyStaleHandlePanics
<1>1. TrapInv => OnlyStaleHandlePanics
  BY DEF TrapInv
<1>2. QED BY <1>1, TrapInvariant, PTL

-----------------------------------------------------------------------------
(* The wake-ups that are lost *)

LEMMA NextKeepsPortWaiters ==
    WakeUpInv /\ PortWaitersAskServices /\ [Next]_vars => PortWaitersAskServices'
<1> SUFFICES ASSUME WakeUpInv, PortWaitersAskServices, [Next]_vars
             PROVE  PortWaitersAskServices'
  OBVIOUS
<1>0. ASSUME UNCHANGED <<parent, cmd, clobbered>> PROVE PortWaitersAskServices'
  BY <1>0 DEF PortWaitersAskServices
\* A postponable command of a session in another list than the waiting one.
<1>h. ASSUME NEW s \in Sessions, parent[s] # "waitingReg", NEW c \in Cmds, NEW tw, NEW wp,
             HandlePostponable(s, c, tw, wp), UNCHANGED clobbered
      PROVE  PortWaitersAskServices'
  <2>1. parent \in [Sessions -> Lists] /\ cmd \in [Sessions -> Cmds \cup {NoCmd}]
    BY DEF WakeUpInv, TypeOK
  <2>2. s \notin clobbered
    BY <1>h DEF PortWaitersAskServices
  <2>3. /\ \E l : parent' = [parent EXCEPT ![s] = l]
        /\ \E d : cmd' = [cmd EXCEPT ![s] = d]
        /\ parent'[s] = "waitingPort" => cmd'[s] = c /\ c.op = "GetServiceHandle"
    <3>1. \/ Answer(s, tw, wp)
          \/ PostponeUntilRegistered(s, c, tw, wp)
          \/ /\ \E p \in Ports \cup {NoPort} : PostponeUntilPortReady(s, c, p, tw, wp)
             /\ c.op = "GetServiceHandle"
      BY <1>h, HandleOutcomes DEF WakeUpInv
    <3>2. QED BY <3>1, <2>1 DEF Answer, PostponeUntilRegistered, PostponeUntilPortReady
  <2>4. \A x \in Sessions : x # s => parent'[x] = parent[x] /\ cmd'[x] = cmd[x]
    BY <2>1, <2>3
  <2>5. QED BY <1>h, <2>2, <2>3, <2>4 DEF PortWaitersAskServices
\* A session that moves from a list to the one in use, or from it to the free one.
<1>m. ASSUME NEW s \in Sessions, parent[s] \in {"free", "inUse"}, NEW l \in {"free", "inUse"},
             parent' = [parent EXCEPT ![s] = l], UNCHANGED cmd, clobbered' \subseteq clobbered
      PROVE  PortWaitersAskServices'
  BY <1>m DEF PortWaitersAskServices, WakeUpInv, TypeOK
\* A registration.
<1>w. ASSUME NEW n \in Names, NEW named \in BOOLEAN, WakeUpWaiters(n, named),
             UNCHANGED <<cmd, clobbered>>
      PROVE  PortWaitersAskServices'
  <2>1. parent' = [x \in Sessions |->
                     IF \E i \in Askers(n, named) : waitingReg[i] = x
                     THEN "toWakeUp" ELSE parent[x]]
    BY <1>w DEF WakeUpWaiters, MoveToWakeUp
  <2>2. \A i \in Askers(n, named) : waitingReg[i] \notin clobbered
    BY DEF Askers, AsksFor
  <2>3. QED BY <1>w, <2>1, <2>2 DEF PortWaitersAskServices
<1>1. ASSUME NEW s \in Sessions, RegisterClient(s) \/ ErrorOrQuery(s)
      PROVE  PortWaitersAskServices'
  BY <1>0, <1>1 DEF RegisterClient, ErrorOrQuery, Reply
<1>2. ASSUME NEW s \in Sessions, RequestServiceOrPort(s) PROVE PortWaitersAskServices'
  <2>1. PICK c \in Cmds : HandlePostponable(s, c, toWakeUp, waitingPort)
    BY <1>2 DEF RequestServiceOrPort
  <2>2. QED BY <1>2, <1>h, <2>1 DEF RequestServiceOrPort, SrvRequest, InUse
<1>3. ASSUME NEW s \in Sessions, SessionClosed(s) PROVE PortWaitersAskServices'
  BY <1>3, <1>m DEF SessionClosed, InUse, Free
<1>4. ASSUME NEW s \in Sessions, NEW n \in Names, RegisterService(s, n) \/ RegisterPort(s, n)
      PROVE  PortWaitersAskServices'
  BY <1>4, <1>w DEF RegisterService, RegisterPort
<1>5. ASSUME NEW s \in Sessions, NEW n \in Names, NEW named \in BOOLEAN,
             UnregisterServiceOrPort(s, n, named)
      PROVE  PortWaitersAskServices'
  BY <1>0, <1>5 DEF UnregisterServiceOrPort, Reply
<1>6. ASSUME NEW s \in Sessions, NEW p \in Procs, RegisterProcess(s, p) \/ UnregisterProcess(s, p)
      PROVE  PortWaitersAskServices'
  BY <1>0, <1>6 DEF RegisterProcess, UnregisterProcess, Reply
<1>7. ASSUME NEW p, NEW isPm \in BOOLEAN, AcceptSession(p, isPm) PROVE PortWaitersAskServices'
  <2>1. CASE \E s \in Sessions : /\ parent[s] = "free"
                                 /\ parent' = [parent EXCEPT ![s] = "inUse"]
                                 /\ clobbered' = clobbered \ {s}
    BY <1>7, <1>m, <2>1 DEF AcceptSession
  <2>2. CASE UNCHANGED <<parent, clobbered>>
    BY <1>0, <1>7, <2>2 DEF AcceptSession
  <2>3. QED BY <1>7, <2>1, <2>2 DEF AcceptSession
<1>8. CASE DeliverReply
  <2>1. replyTarget \in Sessions /\ parent[replyTarget] = "inUse"
    BY <1>8 DEF WakeUpInv, TypeOK, ReplyToSessionInUse, DeliverReply
  <2>2. CASE Free(replyTarget)
    BY <2>1, <2>2, <1>m DEF Free
  <2>3. CASE UNCHANGED <<parent, cmd, clobbered>>
    BY <1>0, <2>3
  <2>4. QED BY <1>8, <2>2, <2>3 DEF DeliverReply
<1>9. CASE Resume
  <2> DEFINE s == Head(toWakeUp)
  <2>1. toWakeUp # <<>>
    BY <1>9, EmptySeq DEF Resume, Receiving, Running, WakeUpInv, ResumeAccounted
  <2>2. s \in Sessions /\ s \in RangeOf(toWakeUp)
    BY <2>1, PopHead DEF WakeUpInv, TypeOK, ListsConsistent
  <2>3. parent[s] = "toWakeUp" /\ cmd[s] \in Cmds
    BY <2>2 DEF WakeUpInv, ListsConsistent, CommandsKept
  <2>4. HandlePostponable(s, cmd[s], Tail(toWakeUp), waitingPort) /\ UNCHANGED clobbered
    BY <1>9, <2>1 DEF Resume
  <2> HIDE DEF s
  <2>5. QED BY <2>2, <2>3, <2>4, <1>h
<1>10. ASSUME NEW p \in Ports, ResumePortReady(p) PROVE PortWaitersAskServices'
  <2>1. PICK i \in DOMAIN waitingPort :
          HandlePostponable(waitingPort[i], cmd[waitingPort[i]], toWakeUp,
                            Without(waitingPort, waitingPort[i]))
    BY <1>10 DEF ResumePortReady
  <2> DEFINE s == waitingPort[i]
  <2>2. s \in RangeOf(waitingPort) /\ s \in Sessions
    BY ElementOfSeq, LenProperties DEF RangeOf, WakeUpInv, TypeOK
  <2>3. parent[s] = "waitingPort" /\ cmd[s] \in Cmds
    BY <2>2 DEF WakeUpInv, ListsConsistent, CommandsKept
  <2>4. /\ HandlePostponable(s, cmd[s], toWakeUp, Without(waitingPort, s))
        /\ UNCHANGED clobbered
    BY <1>10, <2>1 DEF ResumePortReady
  <2> HIDE DEF s
  <2>5. QED BY <2>2, <2>3, <2>4, <1>h
<1>11. ASSUME NEW p \in Ports, PortClosed(p) PROVE PortWaitersAskServices'
  <2> DEFINE who == {waitingPort[i] : i \in WaitersOn(p)}
  <2>1. /\ parent' = [x \in Sessions |-> IF x \in who THEN "waitingReg" ELSE parent[x]]
        /\ clobbered' = clobbered \cup who /\ cmd' = cmd
    BY <1>11 DEF PortClosed
  <2>2. \A x \in who : x \in Sessions => parent[x] = "waitingPort"
    BY DEF WaitersOn, RangeOf, WakeUpInv, ListsConsistent
  <2> HIDE DEF who
  <2>3. QED BY <2>1, <2>2 DEF PortWaitersAskServices
<1>12. CASE Trap \/ Environment \/ UNCHANGED vars
  BY <1>0, <1>12
  DEF Trap, Environment, ClientCloses, ProcessEnds, ServerClosesPort, ServiceSessionEnds, vars,
      smVars
<1>13. QED
  BY <1>1, <1>2, <1>3, <1>4, <1>5, <1>6, <1>7, <1>8, <1>9, <1>10, <1>11, <1>12 DEF Next, Server

\* Who waits for a registered name is a client whose wake-up main.c:147 has lost: it
\* waited for room on a service and the port closed.  Nobody waits for a named port
\* that is registered, and the wake-up loop of services.c:83 misses nobody else.
THEOREM OnlyPortCloseLoses == Spec => []OnlyPortCloseLosesWakeup
<1>1. Init => PortWaitersAskServices
  BY DEF Init, PortWaitersAskServices
<1>2. WakeUpInv /\ PortWaitersAskServices /\ [Next]_vars => PortWaitersAskServices'
  BY NextKeepsPortWaiters
<1>3. WakeUpInv /\ PortWaitersAskServices => OnlyPortCloseLosesWakeup
  <2> SUFFICES ASSUME WakeUpInv, PortWaitersAskServices, NEW s \in RangeOf(waitingReg),
                      NEW n \in Names, NEW named \in BOOLEAN,
                      Awaits(s, n, named), Registered(n, named)
               PROVE  s \in clobbered /\ ~named
    BY DEF OnlyPortCloseLosesWakeup
  <2>1. s \in clobbered
    BY DEF WakeUpInv, AskersNeedTheName, AsksFor
  <2>2. s \in Sessions
    BY RangeInSet DEF WakeUpInv, TypeOK
  <2>3. cmd[s].op = "GetServiceHandle"
    BY <2>1, <2>2 DEF PortWaitersAskServices
  <2>4. QED BY <2>1, <2>3 DEF Awaits
<1>4. QED BY <1>1, <1>2, <1>3, WakeUpInvariant, PTL DEF Spec

=============================================================================
