----------------------- MODULE SmNotifications_proofs -----------------------
(***************************************************************************)
(* Proofs about SmNotifications: type correctness, the agreement of        *)
(* semaphores, clients and rings, what a successful publication means, and *)
(* that the rings implement the queues of NotificationQueues.              *)
(***************************************************************************)
EXTENDS SmNotifications, SequenceTheorems, FiniteSetTheorems, TLAPS

Injective(q) == \A i, j \in DOMAIN q : q[i] = q[j] => i = j

-----------------------------------------------------------------------------
(* Lemmas about lists *)

\* The elements of a list.
LEMMA RangeInSet ==
    ASSUME NEW S, NEW q \in Seq(S)
    PROVE  RangeOf(q) \subseteq S
  BY ElementOfSeq, LenProperties DEF RangeOf

\* A record put at the front of the list.
LEMMA FrontFresh ==
    ASSUME NEW S, NEW q \in Seq(S), NEW s \in S, Injective(q), s \notin RangeOf(q)
    PROVE  /\ <<s>> \o q \in Seq(S)
           /\ Injective(<<s>> \o q)
           /\ RangeOf(<<s>> \o q) = RangeOf(q) \cup {s}
<1>1. <<s>> \in Seq(S) /\ Len(<<s>>) = 1 /\ <<s>>[1] = s
  OBVIOUS
<1>2. SUFFICES ASSUME NEW one \in Seq(S), Len(one) = 1, one[1] = s,
                      NEW r, r = one \o q
               PROVE  r \in Seq(S) /\ Injective(r) /\ RangeOf(r) = RangeOf(q) \cup {s}
  BY <1>1
<1>3. /\ Len(q) \in Nat /\ DOMAIN q = 1..Len(q)
      /\ r \in Seq(S) /\ Len(r) = Len(q) + 1 /\ DOMAIN r = 1..(Len(q) + 1)
  <2>1. r \in Seq(S) /\ Len(r) = Len(one) + Len(q)
    BY <1>2, ConcatProperties
  <2>2. Len(q) \in Nat /\ DOMAIN q = 1..Len(q)
    BY LenProperties
  <2>3. Len(r) = Len(q) + 1 /\ DOMAIN r = 1..Len(r)
    BY <1>2, <2>1, <2>2, LenProperties
  <2>4. QED BY <2>1, <2>2, <2>3
<1>4. \A i \in 1..(Len(q) + 1) : r[i] = IF i <= 1 THEN one[i] ELSE q[i - 1]
  BY <1>2, <1>3, ConcatProperties
<1>5. r[1] = s /\ \A i \in 1..Len(q) : r[i + 1] = q[i]
  BY <1>2, <1>3, <1>4
<1>6. \A i \in DOMAIN r : i = 1 \/ (i - 1 \in DOMAIN q /\ r[i] = q[i - 1])
  BY <1>3, <1>4
<1>7. Injective(r)
  BY <1>3, <1>5, <1>6 DEF Injective, RangeOf
<1>8. \A i \in DOMAIN r : r[i] \in RangeOf(q) \cup {s}
  BY <1>5, <1>6 DEF RangeOf
<1>9. s \in RangeOf(r)
  BY <1>3, <1>5 DEF RangeOf
<1>10. \A i \in DOMAIN q : q[i] \in RangeOf(r)
  <2> SUFFICES ASSUME NEW i \in DOMAIN q PROVE q[i] \in RangeOf(r)
    OBVIOUS
  <2>1. i + 1 \in DOMAIN r /\ r[i + 1] = q[i]
    BY <1>3, <1>5
  <2>2. QED BY <2>1 DEF RangeOf
<1>11. RangeOf(r) = RangeOf(q) \cup {s}
  BY <1>8, <1>9, <1>10 DEF RangeOf
<1>12. QED BY <1>3, <1>7, <1>11

\* A record taken out of the list.
LEMMA TakenOut ==
    ASSUME NEW S, NEW q \in Seq(S), Injective(q), NEW i \in DOMAIN q,
           NEW r, r = [j \in 1..(Len(q) - 1) |-> IF j < i THEN q[j] ELSE q[j + 1]]
    PROVE  r \in Seq(S) /\ Injective(r) /\ RangeOf(r) = RangeOf(q) \ {q[i]}
<1>1. /\ Len(q) \in Nat /\ DOMAIN q = 1..Len(q) /\ Len(q) >= 1
      /\ DOMAIN r = 1..(Len(q) - 1)
      /\ \A j \in DOMAIN r : r[j] = IF j < i THEN q[j] ELSE q[j + 1]
      /\ \A j \in 1..Len(q) : q[j] \in S
  BY LenProperties, ElementOfSeq
<1>2. r \in Seq(S)
  <2>1. \A j \in 1..(Len(q) - 1) : r[j] \in S
    BY <1>1
  <2>2. Len(q) - 1 \in Nat /\ r \in [1..(Len(q) - 1) -> S]
    BY <1>1, <2>1
  <2>3. QED BY <2>2, SeqDef
<1>3. Injective(r)
  BY <1>1 DEF Injective
<1>4. \A j \in DOMAIN r : r[j] \in RangeOf(q) /\ r[j] # q[i]
  BY <1>1 DEF Injective, RangeOf
<1>5. \A j \in DOMAIN q : q[j] # q[i] => q[j] \in RangeOf(r)
  <2> SUFFICES ASSUME NEW j \in DOMAIN q, q[j] # q[i] PROVE q[j] \in RangeOf(r)
    OBVIOUS
  <2>1. CASE j < i
    BY <2>1, <1>1 DEF RangeOf
  <2>2. CASE j > i
    <3>1. j - 1 \in DOMAIN r /\ r[j - 1] = q[j]
      BY <2>2, <1>1
    <3>2. QED BY <3>1 DEF RangeOf
  <2>3. QED BY <2>1, <2>2, <1>1
<1>6. RangeOf(r) = RangeOf(q) \ {q[i]}
  <2>1. \A x \in RangeOf(r) : x \in RangeOf(q) /\ x # q[i]
    BY <1>4 DEF RangeOf
  <2>2. \A x \in RangeOf(q) : x # q[i] => x \in RangeOf(r)
    BY <1>5 DEF RangeOf
  <2>3. QED BY <2>1, <2>2
<1>7. QED BY <1>2, <1>3, <1>6

\* A subscription removed by moving the last one into its place.
LEMMA SwappedOut ==
    ASSUME NEW S, NEW q \in Seq(S), Injective(q), NEW i \in DOMAIN q,
           NEW r, r = [j \in 1..(Len(q) - 1) |-> IF j = i THEN q[Len(q)] ELSE q[j]]
    PROVE  r \in Seq(S) /\ Injective(r) /\ RangeOf(r) = RangeOf(q) \ {q[i]}
<1>1. /\ Len(q) \in Nat /\ DOMAIN q = 1..Len(q) /\ Len(q) >= 1
      /\ DOMAIN r = 1..(Len(q) - 1)
      /\ \A j \in DOMAIN r : r[j] = IF j = i THEN q[Len(q)] ELSE q[j]
      /\ \A j \in 1..Len(q) : q[j] \in S
  BY LenProperties, ElementOfSeq
<1>2. r \in Seq(S)
  <2>1. \A j \in 1..(Len(q) - 1) : r[j] \in S
    BY <1>1
  <2>2. Len(q) - 1 \in Nat /\ r \in [1..(Len(q) - 1) -> S]
    BY <1>1, <2>1
  <2>3. QED BY <2>2, SeqDef
<1>3. Injective(r)
  BY <1>1 DEF Injective
<1>4. \A j \in DOMAIN r : r[j] \in RangeOf(q) /\ r[j] # q[i]
  BY <1>1 DEF Injective, RangeOf
<1>5. \A j \in DOMAIN q : q[j] # q[i] => q[j] \in RangeOf(r)
  <2> SUFFICES ASSUME NEW j \in DOMAIN q, q[j] # q[i] PROVE q[j] \in RangeOf(r)
    OBVIOUS
  <2>1. CASE j < Len(q)
    BY <2>1, <1>1 DEF RangeOf
  <2>2. CASE j = Len(q)
    <3>1. i \in DOMAIN r /\ r[i] = q[j]
      BY <2>2, <1>1
    <3>2. QED BY <3>1 DEF RangeOf
  <2>3. QED BY <2>1, <2>2, <1>1
<1>6. RangeOf(r) = RangeOf(q) \ {q[i]}
  <2>1. \A x \in RangeOf(r) : x \in RangeOf(q) /\ x # q[i]
    BY <1>4 DEF RangeOf
  <2>2. \A x \in RangeOf(q) : x # q[i] => x \in RangeOf(r)
    BY <1>5 DEF RangeOf
  <2>3. QED BY <2>1, <2>2
<1>7. QED BY <1>2, <1>3, <1>6

-----------------------------------------------------------------------------
(* Lemmas about the rings *)

\* Going round the ring: (a + b) % 16, for an index and a count.
LEMMA Wraps ==
    ASSUME NEW a \in Slots, NEW b \in 0..Cap
    PROVE  /\ (a + b) % Cap = IF a + b < Cap THEN a + b ELSE a + b - Cap
           /\ (a + b) % Cap \in Slots
  BY ConstantsAssumption DEF Slots

\* A ring, from its read index, as a sequence: what Queue(p) is.
Unrolled(g, r, k) == [i \in 1..k |-> g[(r + i - 1) % Cap]]

LEMMA UnrolledIsSeq ==
    ASSUME NEW g \in [Slots -> Ids], NEW r \in Slots, NEW k \in 0..Cap
    PROVE  /\ Unrolled(g, r, k) \in Seq(Ids) /\ Len(Unrolled(g, r, k)) = k
           /\ DOMAIN Unrolled(g, r, k) = 1..k
<1>1. Cap \in Nat \ {0} /\ k \in Nat
  BY ConstantsAssumption
<1>2. \A i \in 1..k : (r + (i - 1)) % Cap \in Slots
  BY <1>1, Wraps
<1>3. \A i \in 1..k : (r + i - 1) % Cap \in Slots
  BY <1>1, <1>2 DEF Slots
<1>4. Unrolled(g, r, k) \in [1..k -> Ids]
  BY <1>3 DEF Unrolled
<1>5. Unrolled(g, r, k) \in Seq(Ids)
  BY <1>1, <1>4, SeqDef
<1>6. QED BY <1>1, <1>4, <1>5, LenProperties

\* A notification stored at the write index goes to the end of the queue.
LEMMA RingPush ==
    ASSUME NEW g \in [Slots -> Ids], NEW r \in Slots, NEW k \in 0..(Cap - 1), NEW n \in Ids
    PROVE  Unrolled([g EXCEPT ![(r + k) % Cap] = n], r, k + 1) = Append(Unrolled(g, r, k), n)
<1> DEFINE h == [g EXCEPT ![(r + k) % Cap] = n]
           q == Unrolled(g, r, k)
           u == Unrolled(h, r, k + 1)
<1>1. Cap \in Nat \ {0} /\ k \in Nat /\ k + 1 \in 0..Cap /\ k \in 0..Cap
  BY ConstantsAssumption
<1>2. (r + k) % Cap \in Slots
  BY <1>1, Wraps
<1>3. h \in [Slots -> Ids]
  BY <1>2
<1>4. q \in Seq(Ids) /\ Len(q) = k /\ DOMAIN q = 1..k
  BY <1>1, UnrolledIsSeq
<1>5. u \in Seq(Ids) /\ Len(u) = k + 1 /\ DOMAIN u = 1..(k + 1)
  <2> HIDE DEF h
  <2>1. QED BY <1>1, <1>3, UnrolledIsSeq
<1>6. \A i \in 1..k : (r + i - 1) % Cap \in Slots /\ (r + i - 1) % Cap # (r + k) % Cap
  <2> SUFFICES ASSUME NEW i \in 1..k
               PROVE  (r + i - 1) % Cap \in Slots /\ (r + i - 1) % Cap # (r + k) % Cap
    OBVIOUS
  <2>1. i - 1 \in 0..Cap /\ r + (i - 1) = r + i - 1 /\ i - 1 < k
    BY <1>1 DEF Slots
  <2>2. /\ (r + (i - 1)) % Cap = IF r + (i - 1) < Cap THEN r + (i - 1) ELSE r + (i - 1) - Cap
        /\ (r + (i - 1)) % Cap \in Slots
    BY <2>1, Wraps
  <2>3. (r + k) % Cap = IF r + k < Cap THEN r + k ELSE r + k - Cap
    BY <1>1, Wraps
  <2>4. QED BY <1>1, <2>1, <2>2, <2>3 DEF Slots
<1>7. \A i \in 1..k : u[i] = q[i]
  BY <1>1, <1>5, <1>4, <1>6 DEF Unrolled
<1>8. u[k + 1] = n
  <2>1. r + (k + 1) - 1 = r + k /\ k + 1 \in 1..(k + 1)
    BY <1>1 DEF Slots
  <2>2. QED BY <2>1, <1>2 DEF Unrolled
<1> HIDE DEF h, q, u
<1>9. /\ Append(q, n) \in Seq(Ids) /\ Len(Append(q, n)) = k + 1
      /\ Append(q, n)[k + 1] = n
      /\ \A i \in 1..k : Append(q, n)[i] = q[i]
  BY <1>4, AppendProperties
<1>10. \A i \in 1..Len(u) : u[i] = Append(q, n)[i]
  BY <1>1, <1>5, <1>7, <1>8, <1>9
<1>11. u = Append(q, n)
  BY <1>5, <1>9, <1>10, SeqEqual
<1>12. QED BY <1>11 DEF u, q, h

\* Moving the read index takes the oldest notification off the queue.
LEMMA RingPop ==
    ASSUME NEW g \in [Slots -> Ids], NEW r \in Slots, NEW k \in 1..Cap
    PROVE  /\ Unrolled(g, r, k) # <<>>
           /\ Unrolled(g, (r + 1) % Cap, k - 1) = Tail(Unrolled(g, r, k))
<1> DEFINE q == Unrolled(g, r, k)
           u == Unrolled(g, (r + 1) % Cap, k - 1)
<1>1. Cap \in Nat \ {0} /\ k \in Nat /\ k - 1 \in 0..Cap /\ k \in 0..Cap /\ 1 \in 0..Cap
  BY ConstantsAssumption
<1>2. (r + 1) % Cap = (IF r + 1 < Cap THEN r + 1 ELSE r + 1 - Cap) /\ (r + 1) % Cap \in Slots
  BY <1>1, Wraps
<1>3. q \in Seq(Ids) /\ Len(q) = k /\ DOMAIN q = 1..k
  BY <1>1, UnrolledIsSeq
<1>4. u \in Seq(Ids) /\ Len(u) = k - 1 /\ DOMAIN u = 1..(k - 1)
  BY <1>1, <1>2, UnrolledIsSeq
<1>5. \A i \in 1..(k - 1) : u[i] = q[i + 1]
  <2> SUFFICES ASSUME NEW i \in 1..(k - 1) PROVE u[i] = q[i + 1]
    OBVIOUS
  <2> DEFINE s == (r + 1) % Cap
  <2>1. i - 1 \in 0..Cap /\ i \in 0..Cap /\ i + 1 \in 1..k
    BY <1>1
  <2>2. (s + (i - 1)) % Cap = IF s + (i - 1) < Cap THEN s + (i - 1) ELSE s + (i - 1) - Cap
    BY <1>2, <2>1, Wraps
  <2>3. (r + i) % Cap = IF r + i < Cap THEN r + i ELSE r + i - Cap
    BY <2>1, Wraps
  <2>4. (s + (i - 1)) % Cap = (r + i) % Cap
    BY <1>1, <1>2, <2>1, <2>2, <2>3 DEF Slots
  <2>5. s + (i - 1) = s + i - 1 /\ r + (i + 1) - 1 = r + i
    BY <1>2 DEF Slots
  <2>6. u[i] = g[(s + i - 1) % Cap] /\ q[i + 1] = g[(r + (i + 1) - 1) % Cap]
    BY <2>1 DEF Unrolled
  <2>7. QED BY <2>4, <2>5, <2>6
<1> HIDE DEF q, u
<1>6. q # <<>>
  BY <1>1, <1>3, EmptySeq
<1>7. /\ Tail(q) \in Seq(Ids) /\ Len(Tail(q)) = k - 1
      /\ \A i \in 1..(k - 1) : Tail(q)[i] = q[i + 1]
  BY <1>3, <1>6, HeadTailProperties
<1>8. \A i \in 1..Len(u) : u[i] = Tail(q)[i]
  BY <1>4, <1>5, <1>7
<1>9. u = Tail(q)
  BY <1>4, <1>7, <1>8, SeqEqual
<1>10. QED BY <1>6, <1>9 DEF u, q

-----------------------------------------------------------------------------
(* The inductive invariant *)

\* What a process record that is not in use, or not enabled, still holds: nothing.
RecordsInv ==
    /\ Injective(list)
    /\ \A p \in Procs :
         /\ Injective(subs[p])
         /\ enabled[p] => p \in Known
         /\ nbPending[p] > 0 => enabled[p]
         /\ p \notin Known => subs[p] = <<>>

\* The write index is where the queue ends.
IndexInv == \A p \in Procs : pending[p] = (received[p] + nbPending[p]) % Cap

\* The semaphore of a process that has ended is not counted down any more.
CountInv ==
    \A p \in Procs : /\ sem[p] + acquired[p] <= nbPending[p]
                     /\ p \in alive => sem[p] + acquired[p] = nbPending[p]
                     /\ p \notin alive => acquired[p] = 0

Inv == TypeOK /\ RecordsInv /\ IndexInv /\ CountInv /\ SuccessReachesAll

LEMMA InitInv == Init => Inv
<1> SUFFICES ASSUME Init PROVE Inv
  OBVIOUS
<1> USE ConstantsAssumption
<1>1. (CHOOSE n \in Ids : TRUE) \in Ids
  OBVIOUS
<1>2. TypeOK
  <2>1. ring \in [Procs -> [Slots -> Ids]]
    BY <1>1 DEF Init
  <2>2. 0 \in Slots /\ 0 \in 0..Cap /\ 0 \in 0..SemMax
    BY DEF Slots
  <2>3. list \in Seq(Procs) /\ subs \in [Procs -> Seq(Ids)]
    BY DEF Init
  <2>4. alive \subseteq Procs
    BY DEF Init, Procs
  <2>5. QED BY <2>1, <2>2, <2>3, <2>4 DEF Init, TypeOK
<1>3. Known = {}
  BY DEF Init, Known, RangeOf
<1>4. RecordsInv
  BY <1>3 DEF Init, RecordsInv, Injective
<1>5. IndexInv
  BY DEF Init, IndexInv
<1>6. CountInv
  BY DEF Init, CountInv
<1>7. SuccessReachesAll
  BY DEF Init, SuccessReachesAll
<1>8. QED BY <1>2, <1>4, <1>5, <1>6, <1>7 DEF Inv

\* A record allocated for a process that had none, or a trap.
LEMMA AllocateOutcome ==
    ASSUME TypeOK, RecordsInv, NEW p \in Procs \ Known, Allocate(p)
    PROVE  \/ /\ list' \in Seq(Procs) /\ Injective(list') /\ Known' = Known \cup {p}
              /\ panicked' = panicked
           \/ list' = list /\ Known' = Known /\ panicked' = TRUE
<1>1. CASE list' = <<p>> \o list /\ UNCHANGED panicked
  <2>1. list \in Seq(Procs) /\ Injective(list) /\ p \notin RangeOf(list)
    BY DEF TypeOK, RecordsInv, Known
  <2>2. list' \in Seq(Procs) /\ Injective(list') /\ RangeOf(list') = RangeOf(list) \cup {p}
    BY <1>1, <2>1, FrontFresh
  <2>3. QED BY <1>1, <2>2 DEF Known
<1>2. CASE panicked' = TRUE /\ UNCHANGED list
  BY <1>2 DEF Known
<1>3. QED BY <1>1, <1>2 DEF Allocate

LEMMA RegisterProcessKeeps ==
    ASSUME Inv, NEW p \in Procs, RegisterProcess(p) PROVE Inv'
<1> USE DEF Inv
<1>1. /\ p \notin Known /\ p \notin alive /\ p \in Procs \ Known /\ p \in Others
      /\ alive' = alive \cup {p} /\ reply' = NoReply
      /\ UNCHANGED <<enabled, received, pending, nbPending, ring, subs, sem, acquired>>
      /\ Allocate(p)
  BY DEF RegisterProcess, procVars
<1>2. \/ /\ list' \in Seq(Procs) /\ Injective(list') /\ Known' = Known \cup {p}
         /\ panicked' = panicked
      \/ list' = list /\ Known' = Known /\ panicked' = TRUE
  BY <1>1, AllocateOutcome
<1>3. TypeOK'
  BY <1>1, <1>2 DEF TypeOK
<1>4. RecordsInv'
  BY <1>1, <1>2 DEF RecordsInv
<1>5. IndexInv'
  BY <1>1 DEF IndexInv
<1>6. CountInv'
  <2>1. nbPending[p] = 0 /\ sem[p] = 0 /\ acquired[p] = 0
    BY <1>1 DEF RecordsInv, CountInv, TypeOK
  <2>2. QED BY <1>1, <2>1 DEF CountInv
<1>7. SuccessReachesAll'
  BY <1>1 DEF SuccessReachesAll
<1>8. QED BY <1>3, <1>4, <1>5, <1>6, <1>7

\* The record that leaves the list.
LEMMA RemoveOutcome ==
    ASSUME TypeOK, RecordsInv, NEW p \in Known, Remove(p)
    PROVE  list' \in Seq(Procs) /\ Injective(list') /\ Known' = Known \ {p}
<1>1. list \in Seq(Procs) /\ Injective(list)
  BY DEF TypeOK, RecordsInv
<1>2. PICK i \in DOMAIN list :
        /\ list[i] = p
        /\ list' = [j \in 1..(Len(list) - 1) |-> IF j < i THEN list[j] ELSE list[j + 1]]
  BY DEF Remove
<1>3. list' \in Seq(Procs) /\ Injective(list') /\ RangeOf(list') = RangeOf(list) \ {list[i]}
  BY <1>1, <1>2, TakenOut
<1>4. QED BY <1>2, <1>3 DEF Known

LEMMA UnregisterProcessKeeps ==
    ASSUME Inv, NEW p \in Procs, UnregisterProcess(p) PROVE Inv'
<1> USE DEF Inv
<1>1. /\ p \in Known /\ p \notin alive /\ Remove(p)
      /\ enabled' = [enabled EXCEPT ![p] = FALSE]
      /\ received' = [received EXCEPT ![p] = 0] /\ pending' = [pending EXCEPT ![p] = 0]
      /\ nbPending' = [nbPending EXCEPT ![p] = 0]
      /\ subs' = [subs EXCEPT ![p] = <<>>]
      /\ sem' = [sem EXCEPT ![p] = 0]
      /\ reply' = NoReply
      /\ UNCHANGED <<ring, panicked, alive, acquired>>
  BY DEF UnregisterProcess
<1>2. list' \in Seq(Procs) /\ Injective(list') /\ Known' = Known \ {p}
  BY <1>1, RemoveOutcome
<1>3. TypeOK'
  <2>1. 0 \in Slots /\ 0 \in 0..Cap /\ 0 \in 0..SemMax /\ <<>> \in Seq(Ids)
    BY ConstantsAssumption DEF Slots
  <2>2. QED BY <1>1, <1>2, <2>1 DEF TypeOK
<1>4. RecordsInv'
  <2>1. Injective(<<>>)
    BY DEF Injective
  <2>2. \A q \in Procs : Injective(subs'[q])
    BY <1>1, <2>1 DEF RecordsInv, TypeOK
  <2>3. QED BY <1>1, <1>2, <2>2 DEF RecordsInv, TypeOK
<1>5. IndexInv'
  <2>1. (0 + 0) % Cap = 0
    BY ConstantsAssumption
  <2>2. QED BY <1>1, <2>1 DEF IndexInv, TypeOK
<1>6. CountInv'
  BY <1>1 DEF CountInv, TypeOK
<1>7. SuccessReachesAll'
  BY <1>1 DEF SuccessReachesAll
<1>8. QED BY <1>3, <1>4, <1>5, <1>6, <1>7

LEMMA EnableNotificationKeeps ==
    ASSUME Inv, NEW p \in Procs, EnableNotification(p) PROVE Inv'
<1> USE DEF Inv
<1>1. /\ p \in alive /\ panicked = FALSE
      /\ IF p \in Known THEN UNCHANGED <<list, panicked>> ELSE Allocate(p)
      /\ enabled' = [enabled EXCEPT ![p] = (panicked' = FALSE)]
      /\ reply' = NoReply
      /\ UNCHANGED <<received, pending, nbPending, ring, subs, sem, alive, acquired>>
  BY DEF EnableNotification, Running, TypeOK
<1>2. \/ /\ list' \in Seq(Procs) /\ Injective(list') /\ Known' = Known \cup {p}
         /\ panicked' = FALSE
      \/ /\ p \notin Known
         /\ list' \in Seq(Procs) /\ Injective(list') /\ Known' = Known /\ panicked' = TRUE
  <2>1. CASE p \in Known
    <3>1. list' = list /\ panicked' = FALSE
      BY <1>1, <2>1
    <3>2. Known' = Known
      BY <3>1 DEF Known
    <3>3. QED BY <3>1, <3>2, <2>1 DEF TypeOK, RecordsInv
  <2>2. CASE p \notin Known
    <3>1. p \in Procs \ Known /\ Allocate(p)
      BY <1>1, <2>2
    <3>2. \/ /\ list' \in Seq(Procs) /\ Injective(list') /\ Known' = Known \cup {p}
             /\ panicked' = panicked
          \/ list' = list /\ Known' = Known /\ panicked' = TRUE
      BY <3>1, AllocateOutcome
    <3>3. list \in Seq(Procs) /\ Injective(list)
      BY DEF TypeOK, RecordsInv
    <3>4. QED BY <1>1, <2>2, <3>2, <3>3
  <2>3. QED BY <2>1, <2>2
<1>3. TypeOK'
  <2>1. (panicked' = FALSE) \in BOOLEAN /\ panicked' \in BOOLEAN
    BY <1>2
  <2>2. enabled' \in [Procs -> BOOLEAN]
    BY <1>1, <2>1 DEF TypeOK
  <2>3. QED BY <1>1, <1>2, <2>1, <2>2 DEF TypeOK
<1>4. RecordsInv'
  <2>1. \A q \in Procs : q # p => (enabled'[q] <=> enabled[q])
    BY <1>1 DEF TypeOK
  <2>2. enabled'[p] <=> panicked' = FALSE
    BY <1>1 DEF TypeOK
  <2>3. panicked' = TRUE => nbPending[p] = 0
    BY <1>2 DEF RecordsInv, TypeOK
  <2>4. \A q \in Procs : enabled'[q] => q \in Known'
    BY <1>2, <2>1, <2>2 DEF RecordsInv
  <2>5. \A q \in Procs : nbPending[q] > 0 => enabled'[q]
    BY <1>2, <2>1, <2>2, <2>3 DEF RecordsInv
  <2>6. \A q \in Procs : q \notin Known' => subs[q] = <<>>
    BY <1>2 DEF RecordsInv
  <2>7. \A q \in Procs : Injective(subs[q])
    BY DEF RecordsInv
  <2>8. QED BY <1>1, <1>2, <2>4, <2>5, <2>6, <2>7 DEF RecordsInv
<1>5. IndexInv'
  BY <1>1 DEF IndexInv
<1>6. CountInv'
  BY <1>1 DEF CountInv
<1>7. SuccessReachesAll'
  BY <1>1 DEF SuccessReachesAll
<1>8. QED BY <1>3, <1>4, <1>5, <1>6, <1>7

LEMMA SubscribeKeeps ==
    ASSUME Inv, NEW p \in Procs, NEW n \in Ids, Subscribe(p, n) PROVE Inv'
<1> USE DEF Inv
<1>1. /\ p \in Known /\ n \notin RangeOf(subs[p])
      /\ subs' = [subs EXCEPT ![p] = Append(subs[p], n)]
      /\ reply' = NoReply
      /\ UNCHANGED <<list, enabled, received, pending, nbPending, ring, sem, panicked, alive, acquired>>
  BY DEF Subscribe, MaySubscribe
<1>2. Append(subs[p], n) \in Seq(Ids) /\ Injective(Append(subs[p], n))
  <2>1. subs[p] \in Seq(Ids) /\ Injective(subs[p])
    BY DEF TypeOK, RecordsInv
  <2>2. /\ Append(subs[p], n) \in Seq(Ids) /\ DOMAIN Append(subs[p], n) = 1..(Len(subs[p]) + 1)
        /\ Append(subs[p], n)[Len(subs[p]) + 1] = n
        /\ \A i \in 1..Len(subs[p]) : Append(subs[p], n)[i] = subs[p][i]
        /\ DOMAIN subs[p] = 1..Len(subs[p]) /\ Len(subs[p]) \in Nat
    BY <2>1, AppendProperties, LenProperties
  <2>3. QED BY <1>1, <2>1, <2>2 DEF Injective, RangeOf
<1>3. TypeOK'
  BY <1>1, <1>2 DEF TypeOK
<1>4. RecordsInv'
  <2>1. Known' = Known
    BY <1>1 DEF Known
  <2>2. \A q \in Procs : Injective(subs'[q])
    BY <1>1, <1>2 DEF RecordsInv, TypeOK
  <2>3. QED BY <1>1, <2>1, <2>2 DEF RecordsInv, TypeOK
<1>5. IndexInv'
  BY <1>1 DEF IndexInv
<1>6. CountInv'
  BY <1>1 DEF CountInv
<1>7. SuccessReachesAll'
  BY <1>1 DEF SuccessReachesAll
<1>8. QED BY <1>3, <1>4, <1>5, <1>6, <1>7

\* What Unsubscribe leaves in the table.
LEMMA UnsubscribeOutcome ==
    ASSUME TypeOK, RecordsInv, NEW p \in Procs, NEW n \in Ids, Unsubscribe(p, n)
    PROVE  /\ subs' \in [Procs -> Seq(Ids)]
           /\ \A q \in Procs : q # p => subs'[q] = subs[q]
           /\ Injective(subs'[p]) /\ RangeOf(subs'[p]) = RangeOf(subs[p]) \ {n}
<1>1. subs[p] \in Seq(Ids) /\ Injective(subs[p])
  BY DEF TypeOK, RecordsInv
<1>2. PICK i \in DOMAIN subs[p] :
        /\ subs[p][i] = n
        /\ subs' = [subs EXCEPT ![p] =
             [j \in 1..(Len(subs[p]) - 1) |-> IF j = i THEN subs[p][Len(subs[p])] ELSE subs[p][j]]]
  BY DEF Unsubscribe
<1> DEFINE r == [j \in 1..(Len(subs[p]) - 1) |-> IF j = i THEN subs[p][Len(subs[p])] ELSE subs[p][j]]
<1>3. r \in Seq(Ids) /\ Injective(r) /\ RangeOf(r) = RangeOf(subs[p]) \ {subs[p][i]}
  BY <1>1, SwappedOut
<1>4. subs' = [subs EXCEPT ![p] = r]
  BY <1>2
<1> HIDE DEF r
<1>5. QED BY <1>2, <1>3, <1>4 DEF TypeOK

LEMMA UnsubscribeKeeps ==
    ASSUME Inv, NEW p \in Procs, NEW n \in Ids, Unsubscribe(p, n) PROVE Inv'
<1> USE DEF Inv
<1>1. /\ p \in Known /\ reply' = NoReply
      /\ UNCHANGED <<list, enabled, received, pending, nbPending, ring, sem, panicked, alive, acquired>>
  BY DEF Unsubscribe, MaySubscribe
<1>2. /\ subs' \in [Procs -> Seq(Ids)]
      /\ \A q \in Procs : q # p => subs'[q] = subs[q]
      /\ Injective(subs'[p])
  BY UnsubscribeOutcome
<1>3. TypeOK'
  BY <1>1, <1>2 DEF TypeOK
<1>4. RecordsInv'
  <2>1. Known' = Known
    BY <1>1 DEF Known
  <2>2. \A q \in Procs : Injective(subs'[q])
    BY <1>2 DEF RecordsInv
  <2>3. QED BY <1>1, <1>2, <2>1, <2>2 DEF RecordsInv
<1>5. IndexInv'
  BY <1>1 DEF IndexInv
<1>6. CountInv'
  BY <1>1 DEF CountInv
<1>7. SuccessReachesAll'
  BY <1>1 DEF SuccessReachesAll
<1>8. QED BY <1>3, <1>4, <1>5, <1>6, <1>7

LEMMA AcquireKeeps ==
    ASSUME Inv, NEW p \in Procs, Acquire(p) PROVE Inv'
<1> USE DEF Inv
<1>1. /\ p \in alive /\ sem[p] > 0
      /\ sem' = [sem EXCEPT ![p] = sem[p] - 1]
      /\ acquired' = [acquired EXCEPT ![p] = acquired[p] + 1]
      /\ reply' = NoReply
      /\ UNCHANGED <<list, enabled, received, pending, nbPending, ring, subs, panicked, alive>>
  BY DEF Acquire
<1>2. TypeOK'
  <2>1. sem[p] - 1 \in 0..SemMax /\ acquired[p] + 1 \in 0..SemMax
    BY <1>1, ConstantsAssumption DEF CountInv, TypeOK
  <2>2. QED BY <1>1, <2>1 DEF TypeOK
<1>3. RecordsInv'
  <2>1. Known' = Known
    BY <1>1 DEF Known
  <2>2. QED BY <1>1, <2>1 DEF RecordsInv
<1>4. IndexInv'
  BY <1>1 DEF IndexInv
<1>5. CountInv'
  <2>1. \A q \in Procs : sem[q] \in Nat /\ acquired[q] \in Nat /\ nbPending[q] \in Nat
    BY ConstantsAssumption DEF TypeOK
  <2>2. sem'[p] = sem[p] - 1 /\ acquired'[p] = acquired[p] + 1
    BY <1>1 DEF TypeOK
  <2>3. \A q \in Procs : q # p => sem'[q] = sem[q] /\ acquired'[q] = acquired[q]
    BY <1>1 DEF TypeOK
  <2>4. \A q \in Procs : sem'[q] + acquired'[q] = sem[q] + acquired[q]
    BY <2>1, <2>2, <2>3
  <2>5. QED BY <1>1, <2>3, <2>4 DEF CountInv
<1>6. SuccessReachesAll'
  BY <1>1 DEF SuccessReachesAll
<1>7. QED BY <1>2, <1>3, <1>4, <1>5, <1>6

LEMMA ReceiveNotificationKeeps ==
    ASSUME Inv, NEW p \in Procs, ReceiveNotification(p) PROVE Inv'
<1> USE DEF Inv
<1>1. /\ p \in alive /\ p \in Known /\ enabled[p] /\ nbPending[p] > 0 /\ acquired[p] > 0
      /\ acquired' = [acquired EXCEPT ![p] = acquired[p] - 1]
      /\ nbPending' = [nbPending EXCEPT ![p] = nbPending[p] - 1]
      /\ received' = [received EXCEPT ![p] = Following(received[p])]
      /\ reply' = NoReply
      /\ UNCHANGED <<list, enabled, pending, ring, subs, sem, panicked, alive>>
  BY DEF ReceiveNotification, MayReceive, MaySubscribe
<1>2. /\ received[p] \in Slots /\ nbPending[p] \in 1..Cap /\ Cap \in Nat \ {0}
      /\ Following(received[p]) \in Slots
      /\ (Following(received[p]) + (nbPending[p] - 1)) % Cap = (received[p] + nbPending[p]) % Cap
  <2>1. received[p] \in Slots /\ nbPending[p] \in 1..Cap /\ Cap \in Nat \ {0}
    BY <1>1, ConstantsAssumption DEF TypeOK
  <2>2. 1 \in 0..Cap /\ nbPending[p] - 1 \in 0..Cap /\ nbPending[p] \in 0..Cap
    BY <2>1
  <2> DEFINE r == received[p]
             k == nbPending[p]
             s == Following(r)
  <2>3. s = (IF r + 1 < Cap THEN r + 1 ELSE r + 1 - Cap) /\ s \in Slots
    BY <2>1, <2>2, Wraps DEF Following
  <2>4. (s + (k - 1)) % Cap = IF s + (k - 1) < Cap THEN s + (k - 1) ELSE s + (k - 1) - Cap
    BY <2>2, <2>3, Wraps
  <2>5. (r + k) % Cap = IF r + k < Cap THEN r + k ELSE r + k - Cap
    BY <2>1, <2>2, Wraps
  <2> HIDE DEF s
  <2>6. (s + (k - 1)) % Cap = (r + k) % Cap
    BY <2>1, <2>3, <2>4, <2>5 DEF Slots
  <2>7. QED BY <2>1, <2>3, <2>6 DEF s
<1>3. TypeOK'
  <2>1. nbPending[p] - 1 \in 0..Cap
    BY <1>2
  <2>2. acquired[p] \in 0..SemMax /\ SemMax \in Nat
    BY ConstantsAssumption DEF TypeOK
  <2>3. acquired[p] - 1 \in 0..SemMax
    BY <1>1, <2>2
  <2>4. QED BY <1>1, <1>2, <2>1, <2>3 DEF TypeOK
<1>4. RecordsInv'
  <2>1. Known' = Known
    BY <1>1 DEF Known
  <2>2. QED BY <1>1, <2>1 DEF RecordsInv, TypeOK
<1>5. IndexInv'
  BY <1>1, <1>2 DEF IndexInv, TypeOK
<1>6. CountInv'
  BY <1>1 DEF CountInv, TypeOK
<1>7. SuccessReachesAll'
  BY <1>1 DEF SuccessReachesAll
<1>8. QED BY <1>3, <1>4, <1>5, <1>6, <1>7

\* A client that has acquired a notification is not refused.
LEMMA RefusedKeeps ==
    ASSUME Inv, NEW p \in Procs, Refused(p) PROVE Inv' /\ acquired' = acquired
<1> USE DEF Inv
<1>1. /\ panicked = FALSE /\ p \in alive /\ reply' = NoReply
      /\ UNCHANGED <<list, procVars, panicked, alive>>
      /\ \E n \in {acquired[p]} \cup (IF MayReceive(p) THEN {} ELSE {acquired[p] - 1}) :
           n >= 0 /\ acquired' = [acquired EXCEPT ![p] = n]
  BY DEF Refused, Running, TypeOK
<1>2. ~MayReceive(p) => acquired[p] = 0
  BY <1>1 DEF MayReceive, MaySubscribe, Running, RecordsInv, CountInv, TypeOK
<1>3. acquired' = acquired
  BY <1>1, <1>2 DEF TypeOK
<1>4. TypeOK'
  BY <1>1, <1>3 DEF TypeOK, procVars
<1>5. RecordsInv'
  <2>1. Known' = Known
    BY <1>1 DEF Known
  <2>2. QED BY <1>1, <2>1 DEF RecordsInv, procVars
<1>6. IndexInv'
  BY <1>1 DEF IndexInv, procVars
<1>7. CountInv'
  BY <1>1, <1>3 DEF CountInv, procVars
<1>8. SuccessReachesAll'
  BY <1>1 DEF SuccessReachesAll
<1>9. QED BY <1>3, <1>4, <1>5, <1>6, <1>7, <1>8

LEMMA ProcessEndsKeeps ==
    ASSUME Inv, NEW p \in Procs, ProcessEnds(p) PROVE Inv'
<1> USE DEF Inv
<1>1. /\ alive' = alive \ {p}
      /\ acquired' = [acquired EXCEPT ![p] = 0]
      /\ reply' = NoReply
      /\ UNCHANGED <<list, procVars, panicked>>
  BY DEF ProcessEnds
<1>2. TypeOK'
  <2>1. 0 \in 0..SemMax
    BY ConstantsAssumption
  <2>2. QED BY <1>1, <2>1 DEF TypeOK, procVars
<1>3. RecordsInv'
  <2>1. Known' = Known
    BY <1>1 DEF Known
  <2>2. QED BY <1>1, <2>1 DEF RecordsInv, procVars
<1>4. IndexInv'
  BY <1>1 DEF IndexInv, procVars
<1>5. CountInv'
  BY <1>1 DEF CountInv, TypeOK, procVars
<1>6. SuccessReachesAll'
  BY <1>1 DEF SuccessReachesAll
<1>7. QED BY <1>2, <1>3, <1>4, <1>5, <1>6

-----------------------------------------------------------------------------
(* Publications *)

\* A publication that does not trap: the processes notified, and what it leaves.
Notified(targets, n, once, force) ==
    {p \in Walked(targets, n, once, force) : Pushed(p, n, once)}

LEMMA NotifiedHaveRoom ==
    ASSUME Inv, NEW targets \in SUBSET EnabledProcs, NEW n, NEW once, NEW force
    PROVE  /\ Notified(targets, n, once, force) \subseteq targets
           /\ \A p \in Notified(targets, n, once, force) :
                p \in Procs /\ enabled[p] /\ nbPending[p] \in 0..(Cap - 1) /\ sem[p] < SemMax
<1> USE DEF Inv
<1>1. Notified(targets, n, once, force) \subseteq targets
  BY DEF Notified, Walked
<1>2. SUFFICES ASSUME NEW p \in Notified(targets, n, once, force)
               PROVE  p \in Procs /\ enabled[p] /\ nbPending[p] \in 0..(Cap - 1) /\ sem[p] < SemMax
  BY <1>1
<1>3. p \in Procs /\ enabled[p]
  BY <1>1, RangeInSet DEF EnabledProcs, Known, TypeOK
<1>4. nbPending[p] # Cap /\ nbPending[p] \in 0..Cap /\ Cap \in Nat \ {0}
  BY <1>3, ConstantsAssumption DEF Notified, Pushed, Full, TypeOK
<1>5. sem[p] <= nbPending[p] /\ sem[p] \in Nat /\ SemMax \in Nat /\ SemMax >= Cap
  BY <1>3, ConstantsAssumption DEF CountInv, TypeOK
<1>6. QED BY <1>3, <1>4, <1>5

Published(who, targets, n, once, force) ==
    /\ ring' = [p \in Procs |-> IF p \in who THEN [ring[p] EXCEPT ![pending[p]] = n] ELSE ring[p]]
    /\ pending' = [p \in Procs |-> IF p \in who THEN Following(pending[p]) ELSE pending[p]]
    /\ nbPending' = [p \in Procs |-> IF p \in who THEN nbPending[p] + 1 ELSE nbPending[p]]
    /\ sem' = [p \in Procs |-> IF p \in who THEN sem[p] + 1 ELSE sem[p]]
    /\ reply' = [id |-> n, to |-> targets, forced |-> force,
                 ok |-> ~\E p \in targets : Fails(p, n, once, force)]
    /\ UNCHANGED <<list, enabled, received, subs, panicked, alive, acquired>>

LEMMA PublishOutcome ==
    ASSUME Inv, NEW targets \in SUBSET EnabledProcs, NEW n, NEW once, NEW force,
           Publish(targets, n, once, force)
    PROVE  Published(Notified(targets, n, once, force), targets, n, once, force)
<1>1. \A p \in Notified(targets, n, once, force) : sem[p] < SemMax
  BY NotifiedHaveRoom
<1>2. QED BY <1>1 DEF Publish, Notified, Published

LEMMA QueueIsSeq ==
    ASSUME TypeOK, NEW p \in Procs
    PROVE  Queue(p) \in Seq(Ids) /\ Len(Queue(p)) = nbPending[p] /\ nbPending[p] \in Nat
<1> DEFINE g == ring[p]
           r == received[p]
           k == nbPending[p]
<1>1. g \in [Slots -> Ids] /\ r \in Slots /\ k \in 0..Cap /\ k \in Nat
  BY ConstantsAssumption DEF TypeOK
<1>2. Queue(p) = Unrolled(g, r, k)
  BY DEF Queue, Unrolled
<1> HIDE DEF g, r, k
<1>3. Unrolled(g, r, k) \in Seq(Ids) /\ Len(Unrolled(g, r, k)) = k
  BY <1>1, UnrolledIsSeq
<1>4. QED BY <1>1, <1>2, <1>3 DEF k

\* The queues after a publication.
LEMMA PublishQueues ==
    ASSUME Inv, NEW targets \in SUBSET EnabledProcs, NEW n \in Ids, NEW once, NEW force,
           Publish(targets, n, once, force), NEW p \in Procs
    PROVE  Queue(p)' = IF p \in Notified(targets, n, once, force)
                       THEN Append(Queue(p), n) ELSE Queue(p)
<1> DEFINE who == Notified(targets, n, once, force)
<1>1. /\ ring' = [q \in Procs |-> IF q \in who THEN [ring[q] EXCEPT ![pending[q]] = n] ELSE ring[q]]
      /\ nbPending' = [q \in Procs |-> IF q \in who THEN nbPending[q] + 1 ELSE nbPending[q]]
      /\ received' = received
  <2>1. Published(who, targets, n, once, force)
    BY PublishOutcome
  <2>2. QED BY <2>1 DEF Published
<1> USE DEF Inv
<1>2. Queue(p)' = Unrolled(ring'[p], received[p], nbPending'[p])
  BY <1>1 DEF Queue, Unrolled
<1>3. Queue(p) = Unrolled(ring[p], received[p], nbPending[p])
  BY DEF Queue, Unrolled
<1>4. CASE p \in who
  <2>1. /\ ring[p] \in [Slots -> Ids] /\ received[p] \in Slots /\ nbPending[p] \in 0..(Cap - 1)
        /\ pending[p] = (received[p] + nbPending[p]) % Cap
    <3>1. nbPending[p] \in 0..(Cap - 1)
      BY <1>4, NotifiedHaveRoom
    <3>2. QED BY <3>1 DEF TypeOK, IndexInv
  <2>2. ring'[p] = [ring[p] EXCEPT ![(received[p] + nbPending[p]) % Cap] = n]
        /\ nbPending'[p] = nbPending[p] + 1
    BY <1>1, <1>4, <2>1
  <2>3. Unrolled(ring'[p], received[p], nbPending'[p]) = Append(Unrolled(ring[p], received[p], nbPending[p]), n)
    <3> DEFINE g == ring[p]
               r == received[p]
               k == nbPending[p]
    <3>1. g \in [Slots -> Ids] /\ r \in Slots /\ k \in 0..(Cap - 1)
      BY <2>1
    <3> HIDE DEF g, r, k
    <3>2. Unrolled([g EXCEPT ![(r + k) % Cap] = n], r, k + 1) = Append(Unrolled(g, r, k), n)
      BY <3>1, RingPush
    <3>3. QED BY <2>2, <3>2 DEF g, r, k
  <2>4. QED BY <1>2, <1>3, <1>4, <2>3
<1>5. CASE p \notin who
  BY <1>1, <1>2, <1>3, <1>5
<1>6. QED BY <1>4, <1>5

\* A walk that nobody fails gets to everyone.
LEMMA WalksAll ==
    ASSUME NEW targets \in SUBSET EnabledProcs, NEW n, NEW once, NEW force,
           ~\E p \in targets : Fails(p, n, once, force)
    PROVE  Walked(targets, n, once, force) = targets
<1>1. \A p \in targets : p \in RangeOf(list)
  BY DEF EnabledProcs, Known
<1>2. \A p \in targets : p \in Walked(targets, n, once, force)
  BY <1>1 DEF Walked, RangeOf
<1>3. QED BY <1>2 DEF Walked

LEMMA PublishKeeps ==
    ASSUME Inv, NEW targets \in SUBSET EnabledProcs, NEW n \in Ids,
           NEW once \in BOOLEAN, NEW force \in BOOLEAN, Publish(targets, n, once, force)
    PROVE  Inv'
<1> DEFINE who == Notified(targets, n, once, force)
<1>1. Published(who, targets, n, once, force)
  BY PublishOutcome
<1>2. /\ who \subseteq targets
      /\ \A p \in who : p \in Procs /\ enabled[p] /\ nbPending[p] \in 0..(Cap - 1) /\ sem[p] < SemMax
  <2>1. targets \in SUBSET EnabledProcs /\ n \in Ids /\ once \in BOOLEAN /\ force \in BOOLEAN
    OBVIOUS
  <2> HIDE DEF who
  <2>2. who = Notified(targets, n, once, force)
    BY DEF who
  <2>3. QED BY <2>1, <2>2, NotifiedHaveRoom
<1>3. \A p \in Procs : Queue(p)' = IF p \in who THEN Append(Queue(p), n) ELSE Queue(p)
  BY PublishQueues
<1> HIDE DEF who
<1> USE DEF Inv
<1>4. targets \subseteq Procs
  BY RangeInSet DEF EnabledProcs, Known, TypeOK
<1>5. TypeOK'
  <2>1. ring' \in [Procs -> [Slots -> Ids]]
    BY <1>1 DEF Published, TypeOK
  <2>2. pending' \in [Procs -> Slots]
    <3>1. \A p \in Procs : Following(pending[p]) \in Slots
      <4>1. 1 \in 0..Cap
        BY ConstantsAssumption
      <4>2. QED BY <4>1, Wraps DEF TypeOK, Following
    <3>2. QED BY <1>1, <3>1 DEF Published, TypeOK
  <2>3. nbPending' \in [Procs -> 0..Cap]
    <3>1. \A p \in who : nbPending[p] + 1 \in 0..Cap
      BY <1>2, ConstantsAssumption
    <3>2. QED BY <1>1, <3>1 DEF Published, TypeOK
  <2>4. sem' \in [Procs -> 0..SemMax]
    <3>1. \A p \in who : sem[p] + 1 \in 0..SemMax
      BY <1>2, ConstantsAssumption DEF TypeOK
    <3>2. QED BY <1>1, <3>1 DEF Published, TypeOK
  <2>5. reply' \in [id: Ids, to: SUBSET Procs, forced: BOOLEAN, ok: BOOLEAN]
    BY <1>1, <1>4 DEF Published
  <2>6. QED BY <1>1, <2>1, <2>2, <2>3, <2>4, <2>5 DEF Published, TypeOK
<1>6. RecordsInv'
  <2>1. Known' = Known
    BY <1>1 DEF Known, Published
  <2>2. \A p \in Procs : nbPending'[p] > 0 => enabled[p]
    BY <1>1, <1>2 DEF Published, RecordsInv
  <2>3. QED BY <1>1, <2>1, <2>2 DEF Published, RecordsInv
<1>7. IndexInv'
  <2> SUFFICES ASSUME NEW p \in Procs
               PROVE  pending'[p] = (received[p] + nbPending'[p]) % Cap
    BY <1>1 DEF IndexInv, Published
  <2>1. CASE p \in who
    <3>1. pending'[p] = Following(pending[p]) /\ nbPending'[p] = nbPending[p] + 1
      BY <1>1, <2>1 DEF Published
    <3>2. nbPending[p] \in 0..(Cap - 1) /\ received[p] \in Slots /\ Cap \in Nat \ {0}
      BY <1>2, <2>1, ConstantsAssumption DEF TypeOK
    <3>3. pending[p] = (received[p] + nbPending[p]) % Cap /\ pending[p] \in Slots
      BY DEF IndexInv, TypeOK
    <3> DEFINE r == received[p]
               k == nbPending[p]
               w == pending[p]
    <3>4. w = IF r + k < Cap THEN r + k ELSE r + k - Cap
      BY <3>2, <3>3, Wraps
    <3>5. (w + 1) % Cap = IF w + 1 < Cap THEN w + 1 ELSE w + 1 - Cap
      BY <3>2, <3>3, Wraps
    <3>6. (r + (k + 1)) % Cap = IF r + (k + 1) < Cap THEN r + (k + 1) ELSE r + (k + 1) - Cap
      BY <3>2, Wraps
    <3>7. k \in 0..(Cap - 1) /\ r \in Slots /\ w \in Slots /\ Cap \in Nat \ {0}
      BY <3>2, <3>3
    <3> HIDE DEF r, k, w
    <3>8. (w + 1) % Cap = (r + (k + 1)) % Cap
      BY <3>4, <3>5, <3>6, <3>7 DEF Slots
    <3>9. QED BY <3>1, <3>8 DEF r, k, w, Following
  <2>2. CASE p \notin who
    BY <1>1, <2>2 DEF Published, IndexInv
  <2>3. QED BY <2>1, <2>2
<1>8. CountInv'
  <2>1. \A p \in Procs : sem[p] \in Nat /\ acquired[p] \in Nat /\ nbPending[p] \in Nat
    BY ConstantsAssumption DEF TypeOK
  <2>2. \A p \in Procs : \/ sem'[p] = sem[p] + 1 /\ nbPending'[p] = nbPending[p] + 1
                         \/ sem'[p] = sem[p] /\ nbPending'[p] = nbPending[p]
    BY <1>1 DEF Published
  <2>3. acquired' = acquired /\ alive' = alive
    BY <1>1 DEF Published
  <2>4. QED BY <2>1, <2>2, <2>3 DEF CountInv
<1>9. SuccessReachesAll'
  <2> SUFFICES ASSUME reply'.ok, ~reply'.forced, NEW p \in reply'.to
               PROVE  IsPending(p, n)'
    BY <1>1 DEF SuccessReachesAll, Published
  <2>1. /\ p \in targets /\ p \in Procs /\ ~force
        /\ ~\E q \in targets : Fails(q, n, once, force)
    BY <1>1, <1>4 DEF Published
  <2>2. p \in Walked(targets, n, once, force)
    BY <2>1, WalksAll
  <2>3. Queue(p) \in Seq(Ids) /\ Len(Queue(p)) = nbPending[p] /\ nbPending[p] \in Nat
    BY <2>1, QueueIsSeq
  <2>4. CASE p \in who
    <3>1. Queue(p)' = Append(Queue(p), n) /\ nbPending'[p] = nbPending[p] + 1
      BY <1>1, <1>3, <2>1, <2>4 DEF Published
    <3>2. Append(Queue(p), n)[nbPending[p] + 1] = n
      BY <2>3, AppendProperties
    <3>3. nbPending[p] + 1 \in 1..nbPending'[p]
      BY <2>3, <3>1
    <3>4. QED BY <3>1, <3>2, <3>3 DEF IsPending
  <2>5. CASE p \notin who
    <3>1. IsPending(p, n)
      BY <2>1, <2>2, <2>5 DEF who, Notified, Pushed, Fails, Skipped
    <3>2. Queue(p)' = Queue(p) /\ nbPending'[p] = nbPending[p]
      BY <1>1, <1>3, <2>1, <2>5 DEF Published
    <3>3. QED BY <3>1, <3>2 DEF IsPending
  <2>6. QED BY <2>4, <2>5
<1>10. QED BY <1>5, <1>6, <1>7, <1>8, <1>9

LEMMA SubscribersEnabled ==
    \A n : Subscribers(n) \in SUBSET EnabledProcs
  BY DEF Subscribers

\* The disjuncts of Next, publications taken together.
LEMMA NextCases ==
    ASSUME Next
    PROVE  \/ \E p \in Procs : \/ RegisterProcess(p) \/ UnregisterProcess(p)
                               \/ EnableNotification(p) \/ Acquire(p) \/ ReceiveNotification(p)
                               \/ Refused(p) \/ ProcessEnds(p)
           \/ \E p \in Procs, n \in Ids : Subscribe(p, n) \/ Unsubscribe(p, n)
           \/ \E n \in Ids, targets \in SUBSET EnabledProcs, o \in BOOLEAN, f \in BOOLEAN :
                Publish(targets, n, o, f) /\ (n \in OnceIds => o)
<1>1. CASE \E p \in Procs : \/ RegisterProcess(p) \/ UnregisterProcess(p)
                            \/ EnableNotification(p) \/ Acquire(p) \/ ReceiveNotification(p)
                            \/ Refused(p) \/ ProcessEnds(p)
  BY <1>1
<1>2. CASE \E p \in Procs, n \in Ids : Subscribe(p, n) \/ Unsubscribe(p, n) \/ PublishToProcess(p, n)
  <2>1. PICK p \in Procs, n \in Ids : Subscribe(p, n) \/ Unsubscribe(p, n) \/ PublishToProcess(p, n)
    BY <1>2
  <2>2. CASE PublishToProcess(p, n)
    BY <2>2 DEF PublishToProcess
  <2>3. QED BY <2>1, <2>2
<1>3. CASE \E n \in Ids, once, force \in BOOLEAN : PublishToSubscriber(n, once, force)
  BY <1>3, SubscribersEnabled DEF PublishToSubscriber
<1>4. CASE \E n \in Ids : PublishAndGetSubscriber(n) \/ PublishToAll(n)
  BY <1>4, SubscribersEnabled DEF PublishAndGetSubscriber, PublishToAll
<1>5. QED BY <1>1, <1>2, <1>3, <1>4 DEF Next

LEMMA NextKeeps == Inv /\ [Next]_vars => Inv'
<1> SUFFICES ASSUME Inv, [Next]_vars PROVE Inv'
  OBVIOUS
<1>1. CASE Next
  <2>1. ASSUME NEW p \in Procs,
               \/ RegisterProcess(p) \/ UnregisterProcess(p)
               \/ EnableNotification(p) \/ Acquire(p) \/ ReceiveNotification(p)
               \/ Refused(p) \/ ProcessEnds(p)
        PROVE  Inv'
    BY <2>1, RegisterProcessKeeps, UnregisterProcessKeeps, EnableNotificationKeeps, AcquireKeeps,
       ReceiveNotificationKeeps, RefusedKeeps, ProcessEndsKeeps
  <2>2. ASSUME NEW p \in Procs, NEW n \in Ids, Subscribe(p, n) \/ Unsubscribe(p, n)
        PROVE  Inv'
    BY <2>2, SubscribeKeeps, UnsubscribeKeeps
  <2>3. ASSUME NEW n \in Ids, NEW targets \in SUBSET EnabledProcs,
               NEW o \in BOOLEAN, NEW f \in BOOLEAN, Publish(targets, n, o, f)
        PROVE  Inv'
    BY <2>3, PublishKeeps
  <2>4. QED BY <1>1, <2>1, <2>2, <2>3, NextCases
<1>2. CASE UNCHANGED vars
  <2> USE <1>2 DEF Inv, vars, procVars
  <2>1. TypeOK'
    BY DEF TypeOK
  <2>2. RecordsInv'
    BY DEF RecordsInv, Known
  <2>3. IndexInv' /\ CountInv'
    BY DEF IndexInv, CountInv
  <2>4. SuccessReachesAll'
    BY DEF SuccessReachesAll, IsPending, Queue
  <2>5. QED BY <2>1, <2>2, <2>3, <2>4
<1>3. QED BY <1>1, <1>2

\* The inductive invariant of the notifications: what the records hold, where
\* the write index is, what the semaphores count.
THEOREM NotificationInvariant == Spec => []Inv
  BY InitInv, NextKeeps, PTL DEF Spec

\* The state keeps its types: indexes in the ring, counts within their limits.
THEOREM TypeCorrect == Spec => []TypeOK
<1>1. Inv => TypeOK
  BY DEF Inv
<1>2. QED BY <1>1, NotificationInvariant, PTL

\* What a client may acquire and has acquired is what is pending for it
\* (svcReleaseSemaphore in doPublishNotification): its requests are not refused.
THEOREM SemaphoresCount == Spec => []SemaphoreCountsPending
<1>1. Inv => SemaphoreCountsPending
  BY DEF Inv, CountInv, SemaphoreCountsPending
<1>2. QED BY <1>1, NotificationInvariant, PTL

\* A publication that answers success is pending for everyone it is meant for.
THEOREM SuccessReachesEveryone == Spec => []SuccessReachesAll
<1>1. Inv => SuccessReachesAll
  BY DEF Inv
<1>2. QED BY <1>1, NotificationInvariant, PTL

-----------------------------------------------------------------------------
(* The rings implement the queues                                          *)

\* The refinement mapping, as in Queues.
SubsOf  == [p \in Procs |-> RangeOf(subs[p])]
QueueOf == [p \in Procs |-> Queue(p)]
queueVars == <<Known, EnabledProcs, SubsOf, QueueOf>>

LEMMA Unchanged ==
    /\ UNCHANGED list => UNCHANGED Known
    /\ UNCHANGED <<list, enabled>> => UNCHANGED <<Known, EnabledProcs>>
    /\ UNCHANGED subs => UNCHANGED SubsOf
    /\ UNCHANGED <<ring, received, nbPending>> => UNCHANGED QueueOf
  BY DEF Known, EnabledProcs, SubsOf, QueueOf, Queue

LEMMA InitRefines == Init => Queues!Init
<1> SUFFICES ASSUME Init PROVE Queues!Init
  OBVIOUS
<1>1. Known = {} /\ EnabledProcs = {}
  BY DEF Init, Known, EnabledProcs, RangeOf
<1>2. SubsOf = [p \in Procs |-> {}]
  BY DEF Init, SubsOf, RangeOf
<1>3. \A p \in Procs : Queue(p) = <<>>
  <2> SUFFICES ASSUME NEW p \in Procs PROVE Queue(p) = <<>>
    OBVIOUS
  <2>1. Queue(p) \in Seq(Ids) /\ Len(Queue(p)) = 0
    <3>1. TypeOK /\ nbPending[p] = 0
      BY InitInv DEF Inv, Init
    <3>2. QED BY <3>1, QueueIsSeq
  <2>2. QED BY <2>1, EmptySeq
<1>4. QueueOf = [p \in Procs |-> <<>>]
  BY <1>3 DEF QueueOf
<1>5. QED BY <1>1, <1>2, <1>4 DEF Queues!Init, SubsOf, QueueOf

LEMMA RegisterProcessRefines ==
    ASSUME Inv, NEW p \in Procs, RegisterProcess(p)
    PROVE  Queues!Register(p) \/ UNCHANGED queueVars
<1>1. /\ p \notin Known /\ p \in Procs \ Known /\ Allocate(p)
      /\ UNCHANGED <<enabled, received, nbPending, ring, subs>>
  BY DEF RegisterProcess, procVars
<1>2. \/ Known' = Known \cup {p}
      \/ Known' = Known
  BY <1>1, AllocateOutcome DEF Inv
<1>3. UNCHANGED <<SubsOf, QueueOf>>
  BY <1>1, Unchanged
<1>4. ~enabled[p]
  BY <1>1 DEF Inv, RecordsInv
<1>5. EnabledProcs' = EnabledProcs
  BY <1>1, <1>2, <1>4 DEF EnabledProcs
<1>6. QED BY <1>1, <1>2, <1>3, <1>5 DEF Queues!Register, queueVars, SubsOf, QueueOf

LEMMA UnregisterProcessRefines ==
    ASSUME Inv, NEW p \in Procs, UnregisterProcess(p) PROVE Queues!Forget(p)
<1> USE DEF Inv
<1>1. /\ p \in Known /\ Remove(p)
      /\ enabled' = [enabled EXCEPT ![p] = FALSE]
      /\ received' = [received EXCEPT ![p] = 0]
      /\ nbPending' = [nbPending EXCEPT ![p] = 0]
      /\ subs' = [subs EXCEPT ![p] = <<>>]
      /\ UNCHANGED ring
  BY DEF UnregisterProcess
<1>2. Known' = Known \ {p}
  BY <1>1, RemoveOutcome
<1>3. EnabledProcs' = EnabledProcs \ {p}
  <2>1. Known \subseteq Procs
    BY RangeInSet DEF Known, TypeOK
  <2>2. \A q \in Known \ {p} : enabled'[q] = enabled[q]
    BY <1>1, <2>1 DEF TypeOK
  <2>3. QED BY <1>2, <2>2 DEF EnabledProcs
<1>4. SubsOf' = [SubsOf EXCEPT ![p] = {}]
  <2>1. RangeOf(<<>>) = {}
    BY DEF RangeOf
  <2>2. \A q \in Procs : subs'[q] = IF q = p THEN <<>> ELSE subs[q]
    BY <1>1 DEF TypeOK
  <2>3. QED BY <2>1, <2>2 DEF SubsOf
<1>5. QueueOf' = [QueueOf EXCEPT ![p] = <<>>]
  <2>1. Queue(p)' = <<>>
    <3>1. Queue(p)' = Unrolled(ring[p], 0, 0)
      BY <1>1 DEF Queue, Unrolled, TypeOK
    <3>2. ring[p] \in [Slots -> Ids] /\ 0 \in Slots /\ 0 \in 0..Cap
      BY ConstantsAssumption DEF TypeOK, Slots
    <3>3. Unrolled(ring[p], 0, 0) \in Seq(Ids) /\ Len(Unrolled(ring[p], 0, 0)) = 0
      BY <3>2, UnrolledIsSeq
    <3>4. QED BY <3>1, <3>3, EmptySeq
  <2>2. \A q \in Procs : q # p => Queue(q)' = Queue(q)
    BY <1>1 DEF Queue, TypeOK
  <2>3. QED BY <2>1, <2>2 DEF QueueOf
<1>6. QED BY <1>2, <1>3, <1>4, <1>5 DEF Queues!Forget, SubsOf, QueueOf

LEMMA EnableNotificationRefines ==
    ASSUME Inv, NEW p \in Procs, EnableNotification(p)
    PROVE  Queues!Enable(p) \/ UNCHANGED queueVars
<1> USE DEF Inv
<1>1. /\ panicked = FALSE
      /\ IF p \in Known THEN UNCHANGED <<list, panicked>> ELSE Allocate(p)
      /\ enabled' = [enabled EXCEPT ![p] = (panicked' = FALSE)]
      /\ UNCHANGED <<received, nbPending, ring, subs>>
  BY DEF EnableNotification, Running, TypeOK
<1>2. UNCHANGED <<SubsOf, QueueOf>>
  BY <1>1, Unchanged
<1>3. Known \subseteq Procs
  BY RangeInSet DEF Known, TypeOK
<1>4. \A q \in Procs : enabled'[q] = IF q = p THEN (panicked' = FALSE) ELSE enabled[q]
  BY <1>1 DEF TypeOK
<1>5. \/ Known' = Known \cup {p} /\ panicked' = FALSE
      \/ Known' = Known /\ p \notin Known
  <2>1. CASE p \in Known
    BY <1>1, <2>1, Unchanged
  <2>2. CASE p \notin Known
    BY <1>1, <2>2, AllocateOutcome
  <2>3. QED BY <2>1, <2>2
<1>6. CASE Known' = Known \cup {p} /\ panicked' = FALSE
  <2>1. EnabledProcs' = EnabledProcs \cup {p}
    BY <1>3, <1>4, <1>6 DEF EnabledProcs
  <2>2. QED BY <1>2, <1>6, <2>1 DEF Queues!Enable, SubsOf, QueueOf
<1>7. CASE Known' = Known /\ p \notin Known
  <2>1. EnabledProcs' = EnabledProcs
    BY <1>3, <1>4, <1>7 DEF EnabledProcs
  <2>2. QED BY <1>2, <1>7, <2>1 DEF queueVars
<1>8. QED BY <1>5, <1>6, <1>7

LEMMA SubscribeRefines ==
    ASSUME Inv, NEW p \in Procs, NEW n \in Ids, Subscribe(p, n) PROVE Queues!Subscribe(p, n)
<1> USE DEF Inv
<1>1. /\ p \in EnabledProcs
      /\ subs' = [subs EXCEPT ![p] = Append(subs[p], n)]
      /\ UNCHANGED <<list, enabled, received, nbPending, ring>>
  BY DEF Subscribe, MaySubscribe, EnabledProcs
<1>2. UNCHANGED <<Known, EnabledProcs, QueueOf>>
  BY <1>1, Unchanged
<1>3. RangeOf(Append(subs[p], n)) = RangeOf(subs[p]) \cup {n}
  <2> DEFINE q == subs[p]
             r == Append(q, n)
  <2>1. q \in Seq(Ids)
    BY DEF TypeOK
  <2>2. /\ DOMAIN r = 1..(Len(q) + 1) /\ r[Len(q) + 1] = n
        /\ \A i \in 1..Len(q) : r[i] = q[i]
        /\ DOMAIN q = 1..Len(q) /\ Len(q) \in Nat
    BY <2>1, AppendProperties, LenProperties
  <2> HIDE DEF q, r
  <2>3. \A i \in DOMAIN r : r[i] \in RangeOf(q) \cup {n}
    BY <2>2 DEF RangeOf
  <2>4. n \in RangeOf(r) /\ \A i \in DOMAIN q : q[i] \in RangeOf(r)
    <3>1. Len(q) + 1 \in DOMAIN r /\ \A i \in DOMAIN q : i \in DOMAIN r
      BY <2>2
    <3>2. QED BY <2>2, <3>1 DEF RangeOf
  <2>5. RangeOf(r) = RangeOf(q) \cup {n}
    BY <2>3, <2>4 DEF RangeOf
  <2>6. QED BY <2>5 DEF q, r
<1>4. SubsOf' = [SubsOf EXCEPT ![p] = SubsOf[p] \cup {n}]
  <2>1. \A q \in Procs : subs'[q] = IF q = p THEN Append(subs[p], n) ELSE subs[q]
    BY <1>1 DEF TypeOK
  <2>2. QED BY <1>3, <2>1 DEF SubsOf
<1>5. QED BY <1>1, <1>2, <1>4 DEF Queues!Subscribe, SubsOf, QueueOf

LEMMA UnsubscribeRefines ==
    ASSUME Inv, NEW p \in Procs, NEW n \in Ids, Unsubscribe(p, n) PROVE Queues!Unsubscribe(p, n)
<1>1. /\ p \in EnabledProcs
      /\ UNCHANGED <<list, enabled, received, nbPending, ring>>
  BY DEF Unsubscribe, MaySubscribe, EnabledProcs
<1>2. UNCHANGED <<Known, EnabledProcs, QueueOf>>
  BY <1>1, Unchanged
<1>3. /\ \A q \in Procs : q # p => subs'[q] = subs[q]
      /\ RangeOf(subs'[p]) = RangeOf(subs[p]) \ {n}
  BY UnsubscribeOutcome DEF Inv
<1>4. SubsOf' = [SubsOf EXCEPT ![p] = SubsOf[p] \ {n}]
  BY <1>3 DEF SubsOf
<1>5. QED BY <1>1, <1>2, <1>4 DEF Queues!Unsubscribe, SubsOf, QueueOf

LEMMA ReceiveNotificationRefines ==
    ASSUME Inv, NEW p \in Procs, ReceiveNotification(p) PROVE Queues!Receive(p)
<1> USE DEF Inv
<1>1. /\ p \in EnabledProcs /\ nbPending[p] > 0
      /\ nbPending' = [nbPending EXCEPT ![p] = nbPending[p] - 1]
      /\ received' = [received EXCEPT ![p] = Following(received[p])]
      /\ UNCHANGED <<list, enabled, ring, subs>>
  BY DEF ReceiveNotification, MayReceive, MaySubscribe, EnabledProcs
<1>2. UNCHANGED <<Known, EnabledProcs, SubsOf>>
  BY <1>1, Unchanged
<1> DEFINE g == ring[p]
           r == received[p]
           k == nbPending[p]
<1>3. g \in [Slots -> Ids] /\ r \in Slots /\ k \in 1..Cap
  BY <1>1, ConstantsAssumption DEF TypeOK
<1>4. Queue(p) = Unrolled(g, r, k) /\ Queue(p)' = Unrolled(g, (r + 1) % Cap, k - 1)
  BY <1>1 DEF Queue, Unrolled, Following, TypeOK
<1>5. Queue(p) # <<>> /\ Queue(p)' = Tail(Queue(p))
  <2> HIDE DEF g, r, k
  <2>1. QED BY <1>3, <1>4, RingPop
<1>6. \A q \in Procs : q # p => Queue(q)' = Queue(q)
  BY <1>1 DEF Queue, TypeOK
<1>7. QueueOf' = [QueueOf EXCEPT ![p] = Tail(QueueOf[p])]
  BY <1>5, <1>6 DEF QueueOf
<1>8. QED BY <1>1, <1>2, <1>5, <1>7 DEF Queues!Receive, SubsOf, QueueOf

LEMMA PublishRefines ==
    ASSUME Inv, NEW targets \in SUBSET EnabledProcs, NEW n \in Ids, NEW once, NEW force,
           Publish(targets, n, once, force)
    PROVE  Queues!Publish(n, Notified(targets, n, once, force))
           /\ Notified(targets, n, once, force) \in SUBSET EnabledProcs
<1> DEFINE who == Notified(targets, n, once, force)
<1>1. UNCHANGED <<list, enabled, subs>>
  BY PublishOutcome DEF Published
<1>2. UNCHANGED <<Known, EnabledProcs, SubsOf>>
  BY <1>1, Unchanged
<1>3. /\ who \subseteq targets
      /\ \A p \in who : p \in Procs /\ nbPending[p] \in 0..(Cap - 1)
  BY NotifiedHaveRoom
<1>4. \A p \in Procs : Queue(p)' = IF p \in who THEN Append(Queue(p), n) ELSE Queue(p)
  BY PublishQueues
<1> HIDE DEF who
<1>5. \A p \in who : Len(Queue(p)) < Cap
  BY <1>3, QueueIsSeq, ConstantsAssumption DEF Inv
<1>6. QueueOf' = [p \in Procs |-> IF p \in who THEN Append(QueueOf[p], n) ELSE QueueOf[p]]
  BY <1>4 DEF QueueOf
<1>7. Queues!Publish(n, who)
  BY <1>2, <1>3, <1>5, <1>6 DEF Queues!Publish, SubsOf, QueueOf
<1>8. QED BY <1>3, <1>7 DEF who

LEMMA StepRefines == Inv /\ [Next]_vars => [Queues!Next]_(Queues!vars)
<1> SUFFICES ASSUME Inv, [Next]_vars, ~UNCHANGED queueVars PROVE Queues!Next
  BY DEF Queues!vars, queueVars, SubsOf, QueueOf
<1>1. CASE Next
  <2>1. ASSUME NEW p \in Procs, RegisterProcess(p) \/ EnableNotification(p) PROVE Queues!Next
    BY <2>1, RegisterProcessRefines, EnableNotificationRefines DEF Queues!Next
  <2>2. ASSUME NEW p \in Procs, UnregisterProcess(p) \/ ReceiveNotification(p) PROVE Queues!Next
    BY <2>2, UnregisterProcessRefines, ReceiveNotificationRefines DEF Queues!Next
  <2>3. ASSUME NEW p \in Procs, Acquire(p) \/ Refused(p) \/ ProcessEnds(p) PROVE FALSE
    <3>1. UNCHANGED <<list, enabled, subs, ring, received, nbPending>>
      BY <2>3 DEF Acquire, Refused, ProcessEnds, procVars
    <3>2. QED BY <3>1, Unchanged DEF queueVars
  <2>4. ASSUME NEW p \in Procs, NEW n \in Ids, Subscribe(p, n) \/ Unsubscribe(p, n)
        PROVE  Queues!Next
    BY <2>4, SubscribeRefines, UnsubscribeRefines DEF Queues!Next
  <2>5. ASSUME NEW n \in Ids, NEW targets \in SUBSET EnabledProcs,
               NEW o \in BOOLEAN, NEW f \in BOOLEAN, Publish(targets, n, o, f)
        PROVE  Queues!Next
    BY <2>5, PublishRefines DEF Queues!Next
  <2>6. QED BY <1>1, <2>1, <2>2, <2>3, <2>4, <2>5, NextCases
<1>2. CASE UNCHANGED vars
  BY <1>2, Unchanged DEF vars, procVars, queueVars
<1>3. QED BY <1>1, <1>2

\* The rings of sm implement the queues: each process receives what was
\* published to it, in that order, and nothing that was meant for the process
\* whose record it was given.
THEOREM RingsImplementQueues == Spec => ImplementsQueues
  BY InitRefines, StepRefines, NotificationInvariant, PTL DEF Spec, ImplementsQueues, Queues!Spec

-----------------------------------------------------------------------------
(* Notifications published with flags & 1                                  *)

AtMostOnce(q, n) == \A i, j \in DOMAIN q : q[i] = n /\ q[j] = n => i = j
OnceInv == \A p \in Procs, n \in OnceIds : AtMostOnce(Queue(p), n)

LEMMA OnceAppend ==
    ASSUME NEW q \in Seq(Ids), NEW n, NEW m \in Ids, AtMostOnce(q, n),
           m = n => \A i \in DOMAIN q : q[i] # n
    PROVE  AtMostOnce(Append(q, m), n)
<1> DEFINE r == Append(q, m)
<1>1. /\ DOMAIN r = 1..(Len(q) + 1) /\ r[Len(q) + 1] = m
      /\ \A i \in 1..Len(q) : r[i] = q[i]
      /\ DOMAIN q = 1..Len(q) /\ Len(q) \in Nat
  BY AppendProperties, LenProperties
<1> HIDE DEF r
<1>2. \A i \in DOMAIN r : i = Len(q) + 1 \/ i \in DOMAIN q
  BY <1>1
<1>3. AtMostOnce(r, n)
  BY <1>1, <1>2 DEF AtMostOnce
<1>4. QED BY <1>3 DEF r

LEMMA OnceTail ==
    ASSUME NEW q \in Seq(Ids), q # <<>>, NEW n, AtMostOnce(q, n)
    PROVE  AtMostOnce(Tail(q), n)
<1>1. /\ DOMAIN Tail(q) = 1..(Len(q) - 1)
      /\ \A i \in 1..(Len(q) - 1) : Tail(q)[i] = q[i + 1]
      /\ DOMAIN q = 1..Len(q) /\ Len(q) \in Nat
  BY HeadTailProperties, LenProperties
<1>2. QED BY <1>1 DEF AtMostOnce

LEMMA OnceKeeps ==
    ASSUME Inv, OnceInv, [Next]_vars PROVE OnceInv'
<1> SUFFICES ASSUME NEW p \in Procs, NEW n \in OnceIds PROVE AtMostOnce(Queue(p)', n)
  BY DEF OnceInv, AtMostOnce
<1>1. AtMostOnce(Queue(p), n) /\ Queue(p) \in Seq(Ids)
  BY QueueIsSeq DEF OnceInv, Inv
<1>2. CASE UNCHANGED QueueOf
  BY <1>1, <1>2 DEF QueueOf
<1>3. ASSUME NEW q \in Procs, UnregisterProcess(q) PROVE AtMostOnce(Queue(p)', n)
  <2>1. QueueOf' = [QueueOf EXCEPT ![q] = <<>>]
    BY <1>3, UnregisterProcessRefines DEF Queues!Forget, QueueOf
  <2>2. Queue(p)' = Queue(p) \/ Queue(p)' = <<>>
    BY <2>1 DEF QueueOf
  <2>3. AtMostOnce(<<>>, n)
    BY DEF AtMostOnce
  <2>4. QED BY <1>1, <2>2, <2>3
<1>4. ASSUME NEW q \in Procs, ReceiveNotification(q) PROVE AtMostOnce(Queue(p)', n)
  <2>1. QueueOf[q] # <<>> /\ QueueOf' = [QueueOf EXCEPT ![q] = Tail(QueueOf[q])]
    BY <1>4, ReceiveNotificationRefines DEF Queues!Receive, QueueOf
  <2>2. Queue(p)' = Queue(p) \/ (Queue(p) # <<>> /\ Queue(p)' = Tail(Queue(p)))
    BY <2>1 DEF QueueOf
  <2>3. QED BY <1>1, <2>2, OnceTail
<1>5. ASSUME NEW m \in Ids, NEW targets \in SUBSET EnabledProcs,
             NEW o \in BOOLEAN, NEW f \in BOOLEAN,
             Publish(targets, m, o, f), m \in OnceIds => o
      PROVE  AtMostOnce(Queue(p)', n)
  <2>1. Queue(p)' = IF p \in Notified(targets, m, o, f) THEN Append(Queue(p), m) ELSE Queue(p)
    <3>1. \A q \in Procs : Queue(q)' = IF q \in Notified(targets, m, o, f)
                                       THEN Append(Queue(q), m) ELSE Queue(q)
      BY <1>5, PublishQueues
    <3>2. QED BY <3>1
  <2>2. CASE p \in Notified(targets, m, o, f)
    <3>1. m = n => ~IsPending(p, n)
      BY <1>5, <2>2 DEF Notified, Pushed, Skipped
    <3>2. DOMAIN Queue(p) = 1..nbPending[p]
      BY DEF Queue
    <3>3. m = n => \A i \in DOMAIN Queue(p) : Queue(p)[i] # n
      BY <3>1, <3>2 DEF IsPending
    <3>4. AtMostOnce(Append(Queue(p), m), n)
      BY <1>1, <3>3, OnceAppend
    <3>5. QED BY <2>1, <2>2, <3>4
  <2>3. QED BY <1>1, <2>1, <2>2
<1>6. CASE Next
  <2>1. ASSUME NEW q \in Procs, \/ RegisterProcess(q) \/ EnableNotification(q)
                                \/ Acquire(q) \/ Refused(q) \/ ProcessEnds(q)
        PROVE  UNCHANGED QueueOf
    <3>1. UNCHANGED <<ring, received, nbPending>>
      BY <2>1 DEF RegisterProcess, EnableNotification, Acquire, Refused, ProcessEnds, procVars
    <3>2. QED BY <3>1, Unchanged
  <2>2. ASSUME NEW q \in Procs, NEW m \in Ids, Subscribe(q, m) \/ Unsubscribe(q, m)
        PROVE  UNCHANGED QueueOf
    <3>1. UNCHANGED <<ring, received, nbPending>>
      BY <2>2 DEF Subscribe, Unsubscribe
    <3>2. QED BY <3>1, Unchanged
  <2>3. QED BY <1>2, <1>3, <1>4, <1>5, <1>6, <2>1, <2>2, NextCases
<1>7. CASE UNCHANGED vars
  BY <1>2, <1>7, Unchanged DEF vars, procVars
<1>8. QED BY <1>6, <1>7

\* A notification that every publisher sends with flags & 1 is in a ring at most once.
THEOREM OnceInEachRing == Spec => []OncePending
<1>1. Init => OnceInv
  <2> SUFFICES ASSUME Init, NEW p \in Procs PROVE DOMAIN Queue(p) = {}
    BY DEF OnceInv, AtMostOnce
  <2>1. QED BY DEF Init, Queue
<1>2. Inv /\ OnceInv /\ [Next]_vars => OnceInv'
  BY OnceKeeps
<1>3. OnceInv => OncePending
  <2> SUFFICES ASSUME OnceInv, NEW p \in Procs, NEW n \in OnceIds
               PROVE  Cardinality({i \in 1..nbPending[p] : Queue(p)[i] = n}) <= 1
    BY DEF OncePending
  <2> DEFINE S == {i \in 1..nbPending[p] : Queue(p)[i] = n}
  <2>1. \A i, j \in S : i = j
    BY DEF OnceInv, AtMostOnce, Queue
  <2> SUFFICES Cardinality(S) <= 1
    OBVIOUS
  <2> HIDE DEF S
  <2>2. CASE S = {}
    BY <2>2, FS_EmptySet
  <2>3. CASE S # {}
    <3>1. PICK i \in S : TRUE
      BY <2>3
    <3>2. S = {i}
      BY <2>1, <3>1
    <3>3. QED BY <3>2, FS_Singleton
  <2>4. QED BY <2>2, <2>3
<1>4. QED BY <1>1, <1>2, <1>3, NotificationInvariant, PTL DEF Spec

=============================================================================
