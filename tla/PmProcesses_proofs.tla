-------------------------- MODULE PmProcesses_proofs --------------------------
(***************************************************************************)
(* For any programs, dependencies, commands and bounds: the entries, the   *)
(* monitor and the workers fit together, two applications are never there  *)
(* together, and a worker that waits for processes returns after they      *)
(* ended, unless the monitor signalled on a list it had read too early.    *)
(***************************************************************************)
EXTENDS PmProcesses, FiniteSetTheorems, TLAPS

USE DEF listVars, eventVars, lockVars, workVars, taskVars, restVars, vars

-----------------------------------------------------------------------------
(* The invariant.                                                          *)

\* The four parts of TypeOK.
ProcOK == proc \in [Procs -> Process]
MonOK == mon \in Mon
JobsOK == pc \in [Workers -> Places] /\ job \in [Workers -> Job] /\ task \in Job
RestOK ==
    /\ runningApp \in Procs \cup {NoProc}
    /\ {waiting, allNotified, newProcess, reboot, ready} \subseteq BOOLEAN
    /\ owner \in Workers \cup {Monitor, Nobody}
    /\ debt \in 0..MaxDebt
    /\ clients \in Commands
    /\ told \subseteq Procs
    /\ launches \in 0..MaxLaunches
    /\ odd \subseteq Oddities

LaunchPlaces == Loading \cup {"check", "load", "run", "fail"}

\* What a job is about: a launch, or a restart in place, of a program; before a reboot
\* or a restart somebody waits for the end of the processes; what is still to be launched
\* is needed by one whose needs were merged.
JobGood(j) ==
    /\ j.op = "launch" => j.p \in Programs
    /\ j.op = "chain" => j.p \in Programs \cup {NoProc}
    /\ j.hear => j.p \in Procs
    /\ j.op \in {"reboot", "chain", "kips"} => j.commit
    /\ IsFiniteSet(j.merged)
    /\ \A d \in j.rest : \E x \in j.merged : d \in Needs[x]

\* What worker t does at l fits its job j: main launches what is not an application, and
\* terminates only the application, itself.
Fits(t, l, j) ==
    /\ l \in LaunchPlaces => j.op = "launch"
    /\ l = "again" => j.p \in Programs
    /\ l = "post" => j.look = "no"
    /\ l \in {"dreg", "drun", "flag", "incref", "merge"} => j.dep \in Deps
    /\ l \in {"dreg", "drun", "flag", "incref"} => \E x \in j.merged : j.dep \in Needs[x]
    /\ t = "main" => /\ l \in LaunchPlaces => j.p \in Applets
                     /\ l \in {"send", "commit", "wait", "wait2", "done"} => j.op = "app"
                     /\ l \notin {"list", "ros", "kips", "again", "halt"}

Jobs == \A t \in Workers : JobGood(job[t]) /\ Fits(t, pc[t], job[t])
TaskGood == JobGood(task) /\ task.look = "no"
JobInv == Jobs /\ TaskGood /\ runningApp \in Apps \cup {NoProc}

\* A process that is not listed, or is marked as terminated, has ended.
EndedInv ==
    \A p \in Procs : proc[p].status \in {"absent", "terminated"} => ~proc[p].alive

\* The monitor looks at listed processes; the one it marks and cleans up has ended.
MonInv ==
    /\ mon.snap \subseteq Listed
    /\ mon.pc \in {"mark", "deps", "clean", "forget"} =>
         mon.cur \in Procs /\ mon.snap = {} /\ ~proc[mon.cur].alive
    /\ mon.pc = "mark" => mon.cur \in Listed

\* A process that was notified is registered, unless it ended and was cleaned up before
\* its launch had registered it.
RegInv ==
    /\ \A p \in Kips : proc[p].reg
    /\ \A p \in Procs : proc[p].status = "sent" => proc[p].reg \/ ~proc[p].alive

Waits(t) == pc[t] \in {"wait", "wait2"}
Awaited(p) == proc[p].status = "sent" \/ (proc[p].status = "failed" /\ ~proc[p].alive)
AllEnded(P) == \A p \in P : ~proc[p].alive

\* A worker waits for processes that were told to end, or that were told again after they
\* ended.  The monitor decides for it on a list read since it began to wait, or marks it as
\* woken early; it signals for the others only when those they wait for have ended.
WaitInv ==
    /\ \A t \in Workers : Waits(t) => \A p \in job[t].held : Awaited(p)
    /\ \A t \in Workers : Marked(t) /\ job[t].look = "seen" => Waits(t)
    /\ \A t \in Workers : mon.pc = "decide" /\ ~mon.sent /\ Waits(t) /\ job[t].look = "seen"
                            => AllEnded(job[t].held)
    /\ \A t \in Workers : allNotified /\ Marked(t) /\ job[t].look # "early"
                            => job[t].look = "seen" /\ AllEnded(job[t].held)

\* The task runner is launching application p, listed by now, and found no other running.
InLaunch(p) == pc["runner"] \in LaunchPlaces \ {"check", "load"} /\ job["runner"].p = p
\* An application that has not ended is the running one, or is being launched while none is.
AppInv ==
    /\ \A p \in Apps : proc[p].alive => runningApp = p \/ InLaunch(p)
    /\ pc["runner"] \in LaunchPlaces \ {"check"} /\ job["runner"].p \in Apps => runningApp = NoProc

ListInv == EndedInv /\ MonInv /\ RegInv
Inv == TypeOK /\ JobInv /\ ListInv /\ WaitInv /\ AppInv

-----------------------------------------------------------------------------
(* What a step does to the processes.                                      *)

\* An entry r that comes after q: the process has the same status, or was told to end.
Kept(q, r) == r.status = q.status /\ (r.alive => q.alive) /\ (q.reg => r.reg)
ToldEntry(q, r) ==
    /\ q.status # "absent" /\ r.status = (IF q.reg THEN "sent" ELSE "failed")
    /\ (r.alive => q.alive) /\ (r.reg <=> q.reg)

\* A process that is loaded is a dependency, or the program of a launch.
Loads(p) == Free(p) /\ p \notin Kips /\ (p \in Apps => \E t \in Workers : Load(t) /\ p = job[t].p)

\* Steps that keep, tell or load processes.
Touches ==
    \A p \in Procs :
         \/ Kept(proc[p], proc'[p])
         \/ ToldEntry(proc[p], proc'[p])
         \/ Loads(p) /\ proc'[p].status = "running"

\* Those that a worker waits for remain so, and those that have ended stay ended.
NoneForgotten ==
    \A p \in Procs : Awaited(p) => Awaited(p)' /\ (~proc[p].alive => ~proc'[p].alive)

\* No application begins but by a launch.
AppsKept ==
    \A p \in Apps : proc'[p].alive => proc[p].alive \/ \E t \in Workers : Load(t) /\ p = job[t].p

\* Such steps forget no process that a worker waits for.
LEMMA TouchAwaited ==
    ASSUME RegInv, Touches
    PROVE  NoneForgotten /\ AppsKept
<1>1. ASSUME NEW p \in Procs, Awaited(p)
      PROVE  Awaited(p)' /\ (~proc[p].alive => ~proc'[p].alive)
  <2>1. ~Loads(p)
    BY <1>1 DEF Awaited, Loads, Free, Listed
  <2>2. CASE Kept(proc[p], proc'[p])
    BY <1>1, <2>2 DEF Kept, Awaited
  <2>3. CASE ToldEntry(proc[p], proc'[p])
    BY <1>1, <2>3 DEF ToldEntry, Awaited, RegInv
  <2>4. QED BY <2>1, <2>2, <2>3 DEF Touches
<1>2. ASSUME NEW p \in Apps, proc'[p].alive, ~proc[p].alive
      PROVE  \E t \in Workers : Load(t) /\ p = job[t].p
  <2>1. p \in Procs
    BY DEF Procs, Needy, Programs
  <2>2. Loads(p)
    BY <1>2, <2>1 DEF Touches, Kept, ToldEntry
  <2>3. QED BY <1>2, <2>2 DEF Loads
<1>3. QED BY <1>1, <1>2 DEF NoneForgotten, AppsKept

\* The monitor stays where it is, or goes on with the same processes.
SameMon ==
    /\ mon'.snap = mon.snap /\ mon'.cur = mon.cur
    /\ \/ mon'.pc = mon.pc
       \/ {mon.pc, mon'.pc} \subseteq {"scan", "decide", "wait"}
       \/ {mon.pc, mon'.pc} \subseteq {"deps", "clean", "forget"}

\* Such steps keep what the invariant says of the list.
LEMMA TouchKeeps ==
    ASSUME ProcOK, ListInv, ProcOK', Touches, SameMon
    PROVE  ListInv' /\ NoneForgotten /\ AppsKept
<1>1. Listed \subseteq Listed'
  BY DEF Touches, Listed, Kept, ToldEntry
<1>2. EndedInv'
  BY DEF Touches, Kept, ToldEntry, ListInv, EndedInv
<1>3. MonInv'
  <2>1. /\ mon.pc \in {"mark", "deps", "clean", "forget"} <=> mon'.pc \in {"mark", "deps", "clean", "forget"}
        /\ mon.pc = "mark" <=> mon'.pc = "mark"
    BY DEF SameMon
  <2>2. ASSUME mon.pc \in {"mark", "deps", "clean", "forget"} PROVE ~proc'[mon.cur].alive
    <3>1. mon.cur \in Procs /\ ~proc[mon.cur].alive /\ (mon.pc = "mark" => mon.cur \in Listed)
      BY <2>2 DEF ListInv, MonInv
    <3>2. ~Free(mon.cur)
      BY <2>2, <3>1 DEF Free, Cleaning
    <3>3. QED BY <3>1, <3>2 DEF Touches, Kept, ToldEntry, Loads
  <2>3. QED BY <1>1, <2>1, <2>2 DEF ListInv, MonInv, SameMon
<1>4. RegInv'
  <2>1. \A p \in Kips : proc'[p].reg
    BY DEF ListInv, RegInv, Touches, Kept, ToldEntry, Procs, Loads
  <2>2. \A p \in Procs : proc'[p].status = "sent" => proc'[p].reg \/ ~proc'[p].alive
    BY DEF ListInv, RegInv, Touches, Kept, ToldEntry, Loads
  <2>3. QED BY <2>1, <2>2 DEF RegInv
<1>5. QED BY <1>2, <1>3, <1>4, TouchAwaited DEF ListInv

\* ProcessData_SendTerminationNotification leaves the rest of the entry.
LEMMA NotifiedEntry ==
    ASSUME NEW q \in Process
    PROVE  /\ Notified(q) \in Process /\ Notified(q).alive = q.alive /\ Notified(q).reg = q.reg
           /\ Notified(q).status = (IF q.status = "absent" THEN "absent"
                                    ELSE IF q.reg THEN "sent" ELSE "failed")
           /\ Kept(q, Notified(q)) \/ ToldEntry(q, Notified(q))
<1>1. /\ Notified(q) \in Process /\ Notified(q).alive = q.alive /\ Notified(q).reg = q.reg
      /\ Notified(q).status = (IF q.status = "absent" THEN "absent"
                               ELSE IF q.reg THEN "sent" ELSE "failed")
  BY DEF Notified, Process, Statuses
<1>2. QED BY <1>1 DEF Kept, ToldEntry

\* An entry whose flags change stays what it is.
LEMMA SameEntry ==
    ASSUME NEW q, NEW m, NEW r, m.status = q.status, m.alive = q.alive, m.reg = q.reg,
           Kept(m, r) \/ ToldEntry(m, r)
    PROVE  Kept(q, r) \/ ToldEntry(q, r)
  BY DEF Kept, ToldEntry

\* A dependency that is released is kept, or told to end while it runs.
LEMMA UnusedEntry ==
    ASSUME ProcOK, NEW d \in Procs, NEW P
    PROVE  /\ Unused(d, P) \in Process
           /\ Kept(proc[d], Unused(d, P)) \/ ToldEntry(proc[d], Unused(d, P))
<1>1. proc[d] \in Process
  BY DEF ProcOK
<1>2. CASE d \in P /\ proc[d].status = "running" /\ proc[d].auto
  <2> DEFINE q == [proc[d] EXCEPT !.ref = (@ + RefMod - 1) % RefMod]
  <2>1. /\ q \in Process /\ q.alive = proc[d].alive /\ q.reg = proc[d].reg
        /\ q.status = proc[d].status
    BY <1>1 DEF Process, RefMod
  <2>2. Unused(d, P) = IF q.ref > 0 THEN q ELSE Notified(q)
    BY <1>2 DEF Unused
  <2>3. Unused(d, P) \in {q, Notified(q)}
    BY <2>2
  <2> HIDE DEF q
  <2>4. Kept(q, q)
    BY DEF Kept
  <2>5. QED BY <2>1, <2>3, <2>4, NotifiedEntry, SameEntry
<1>3. CASE ~(d \in P /\ proc[d].status = "running" /\ proc[d].auto)
  BY <1>1, <1>3 DEF Unused, Kept
<1>4. QED BY <1>2, <1>3

\* So are all processes when one is told to end and its dependencies are released.
LEMMA TerminatedEntries ==
    ASSUME ProcOK, NEW p \in Procs, NEW q \in Process, NEW x \in Procs,
           q.status = proc[p].status, q.alive = proc[p].alive, q.reg = proc[p].reg
    PROVE  /\ Terminated(p, q)[x] \in Process
           /\ Kept(proc[x], Terminated(p, q)[x]) \/ ToldEntry(proc[x], Terminated(p, q)[x])
<1>1. CASE x = p
  <2>1. Terminated(p, q)[x] = [Notified(q) EXCEPT !.deps = FALSE]
    BY <1>1 DEF Terminated
  <2> DEFINE r == Notified(q)
             s == [r EXCEPT !.deps = FALSE]
  <2>2. r \in Process /\ (Kept(q, r) \/ ToldEntry(q, r))
    BY NotifiedEntry
  <2> HIDE DEF r
  <2>3. s \in Process /\ s.status = r.status /\ s.alive = r.alive /\ s.reg = r.reg
    BY <2>2 DEF Process
  <2> HIDE DEF s
  <2>4. Kept(q, s) \/ ToldEntry(q, s)
    BY <2>2, <2>3 DEF Kept, ToldEntry
  <2>5. Kept(proc[x], s) \/ ToldEntry(proc[x], s)
    BY <1>1, <2>4, SameEntry
  <2>6. QED BY <2>1, <2>3, <2>5 DEF r, s
<1>2. CASE x # p
  <2>1. Terminated(p, q)[x] \in {Unused(x, Needs[p]), proc[x]}
    BY <1>2 DEF Terminated
  <2>2. proc[x] \in Process /\ Kept(proc[x], proc[x])
    BY DEF ProcOK, Kept
  <2>3. QED BY <2>1, <2>2, UnusedEntry
<1>3. QED BY <1>1, <1>2

-----------------------------------------------------------------------------
(* The steps that only touch processes.                                    *)

Mild == ProcOK' /\ Touches /\ UNCHANGED mon

\* Nothing happens to the list.
LEMMA ListUnchanged ==
    ASSUME ProcOK, UNCHANGED <<proc, mon>>
    PROVE  Mild
  BY DEF Mild, ProcOK, Touches, Kept

\* One entry is replaced by one that is kept.
LEMMA EntryKept ==
    ASSUME ProcOK, NEW p, NEW r, p \in Procs => r \in Process /\ Kept(proc[p], r),
           proc' = [proc EXCEPT ![p] = r], UNCHANGED mon
    PROVE  Mild
  BY DEF Mild, ProcOK, Touches, Kept

\* Entries one field of which changes.
LEMMA FieldEntries ==
    ASSUME NEW q \in Process, NEW b \in BOOLEAN, NEW n \in 0..(RefMod - 1)
    PROVE  /\ (b => q.alive) => /\ [q EXCEPT !.alive = b] \in Process
                                /\ Kept(q, [q EXCEPT !.alive = b])
           /\ [q EXCEPT !.reg = TRUE] \in Process /\ Kept(q, [q EXCEPT !.reg = TRUE])
           /\ [q EXCEPT !.ran = TRUE] \in Process /\ Kept(q, [q EXCEPT !.ran = TRUE])
           /\ [q EXCEPT !.auto = b] \in Process /\ Kept(q, [q EXCEPT !.auto = b])
           /\ [q EXCEPT !.deps = b] \in Process /\ Kept(q, [q EXCEPT !.deps = b])
           /\ [q EXCEPT !.notify = b] \in Process /\ Kept(q, [q EXCEPT !.notify = b])
           /\ [q EXCEPT !.ref = n] \in Process /\ Kept(q, [q EXCEPT !.ref = n])
<1>1. ASSUME b => q.alive
      PROVE  [q EXCEPT !.alive = b] \in Process /\ Kept(q, [q EXCEPT !.alive = b])
  <2> DEFINE r == [q EXCEPT !.alive = b]
  <2>1. r \in Process /\ r.alive = b /\ r.status = q.status /\ r.reg = q.reg
    BY DEF Process
  <2> HIDE DEF r
  <2>2. r \in Process /\ Kept(q, r)
    BY <1>1, <2>1 DEF Kept
  <2>3. QED BY <2>2 DEF r
<1>2. [q EXCEPT !.reg = TRUE] \in Process /\ Kept(q, [q EXCEPT !.reg = TRUE])
  BY DEF Process, Kept
<1>3. [q EXCEPT !.ran = TRUE] \in Process /\ Kept(q, [q EXCEPT !.ran = TRUE])
  BY DEF Process, Kept
<1>4. [q EXCEPT !.auto = b] \in Process /\ Kept(q, [q EXCEPT !.auto = b])
  BY DEF Process, Kept
<1>5. [q EXCEPT !.deps = b] \in Process /\ Kept(q, [q EXCEPT !.deps = b])
  BY DEF Process, Kept
<1>6. [q EXCEPT !.notify = b] \in Process /\ Kept(q, [q EXCEPT !.notify = b])
  BY DEF Process, Kept
<1>7. [q EXCEPT !.ref = n] \in Process /\ Kept(q, [q EXCEPT !.ref = n])
  BY DEF Process, Kept
<1>8. QED BY <1>1, <1>2, <1>3, <1>4, <1>5, <1>6, <1>7

\* One after the other.
LEMMA KeptTwice ==
    ASSUME NEW q, NEW m, NEW r, Kept(q, m), Kept(m, r)
    PROVE  Kept(q, r)
  BY DEF Kept

\* Processes are killed.
LEMMA SomeKilled ==
    ASSUME ProcOK, NEW P, proc' = Killed(P), UNCHANGED mon
    PROVE  Mild
<1>1. \A p \in Procs : proc'[p] = [proc[p] EXCEPT !.alive = @ /\ p \notin P]
  BY DEF Killed
<1>2. ASSUME NEW p \in Procs PROVE proc'[p] \in Process /\ Kept(proc[p], proc'[p])
  <2> DEFINE b == proc[p].alive /\ p \notin P
  <2>1. proc'[p] = [proc[p] EXCEPT !.alive = b] /\ b \in BOOLEAN /\ (b => proc[p].alive)
    BY <1>1
  <2>2. proc[p] \in Process /\ 0 \in 0..(RefMod - 1)
    BY DEF ProcOK, RefMod
  <2> HIDE DEF b
  <2>3. QED BY <2>1, <2>2, FieldEntries
<1>3. proc' \in [Procs -> Process]
  BY <1>2 DEF Killed
<1>4. QED BY <1>2, <1>3 DEF Mild, ProcOK, Touches

\* A process is loaded.
LEMMA EntryLoaded ==
    ASSUME ProcOK, NEW p \in Procs, Loads(p), NEW r \in Process, r.status = "running",
           proc' = [proc EXCEPT ![p] = r], UNCHANGED mon
    PROVE  Mild
<1>1. \A x \in Procs : proc'[x] = (IF x = p THEN r ELSE proc[x])
  BY DEF ProcOK
<1>2. ProcOK'
  BY DEF ProcOK
<1>3. QED BY <1>1, <1>2 DEF Mild, Touches, Kept

\* Every entry is kept or told to end.
LEMMA EntriesTold ==
    ASSUME ProcOK, NEW f, proc' = [x \in Procs |-> f[x]], UNCHANGED mon,
           \A x \in Procs : f[x] \in Process /\ (Kept(proc[x], f[x]) \/ ToldEntry(proc[x], f[x]))
    PROVE  Mild
<1>1. \A x \in Procs : proc'[x] = f[x]
  OBVIOUS
<1>2. proc' \in [Procs -> Process]
  OBVIOUS
<1>3. QED BY <1>1, <1>2 DEF Mild, ProcOK, Touches

\* A process just loaded.
LEMMA LoadedEntry ==
    /\ Absent \in Process /\ Absent.status = "absent" /\ ~Absent.alive
    /\ Loaded \in Process /\ Loaded.status = "running" /\ Loaded.alive
<1>1. Absent \in Process /\ Absent.status = "absent" /\ ~Absent.alive
  BY DEF Absent, Process, Statuses, RefMod
<1> DEFINE a == [Absent EXCEPT !.status = "running"]
           b == [a EXCEPT !.alive = TRUE]
<1>2. a \in Process /\ a.status = "running"
  BY <1>1 DEF Process, Statuses
<1> HIDE DEF a
<1>3. b \in Process /\ b.status = "running" /\ b.alive
  BY <1>2 DEF Process
<1> HIDE DEF b
<1>4. Loaded = [b EXCEPT !.ref = 1]
  BY DEF Loaded, a, b
<1>5. [b EXCEPT !.ref = 1] \in Process
  BY <1>3 DEF Process, RefMod
<1>6. [b EXCEPT !.ref = 1].status = "running" /\ [b EXCEPT !.ref = 1].alive
  BY <1>3 DEF Process
<1>7. QED BY <1>1, <1>4, <1>5, <1>6

\* remrefcounts[] counts at least the one for which a dependency is launched.
LEMMA Remaining ==
    ASSUME NEW j, JobGood(j), NEW d, \E x \in j.merged : d \in Needs[x]
    PROVE  Cardinality({x \in j.merged : d \in Needs[x]}) \in Nat \ {0}
<1> DEFINE R == {x \in j.merged : d \in Needs[x]}
<1>1. IsFiniteSet(R)
  BY FS_Subset DEF JobGood
<1>2. R # {}
  OBVIOUS
<1>3. Cardinality(R) \in Nat /\ Cardinality(R) # 0
  BY <1>1, <1>2, FS_CardinalityType, FS_EmptySet
<1>4. QED BY <1>3

\* listMergeUniqueDependencies only counts.
LEMMA MergeMild ==
    ASSUME ProcOK, UNCHANGED mon, NEW t, NEW x, Merge(t, x)
    PROVE  Mild
<1> DEFINE found == (Needs[x] \cap Listed) \ job[t].missing
           f == [d \in Procs |-> IF d \in found /\ proc[d].auto
                                 THEN [proc[d] EXCEPT !.ref = @ + 1] ELSE proc[d]]
<1>1. proc' = f /\ \A d \in found : proc[d].auto => proc[d].ref + 1 < RefMod
  BY DEF Merge, MayCount
<1>2. ASSUME NEW d \in Procs PROVE f[d] \in Process /\ Kept(proc[d], f[d])
  <2>1. proc[d] \in Process
    BY DEF ProcOK
  <2>2. CASE d \in found /\ proc[d].auto
    <3>1. f[d] = [proc[d] EXCEPT !.ref = proc[d].ref + 1]
      BY <2>2
    <3>2. proc[d].ref + 1 \in 0..(RefMod - 1)
      BY <1>1, <2>1, <2>2 DEF Process, RefMod
    <3> HIDE DEF f
    <3>3. QED BY <2>1, <3>1, <3>2, FieldEntries
  <2>3. CASE ~(d \in found /\ proc[d].auto)
    BY <2>1, <2>3 DEF Kept
  <2>4. QED BY <2>2, <2>3
<1>3. proc' = [d \in Procs |-> f[d]]
  BY <1>1
<1> HIDE DEF f
<1>4. QED BY <1>2, <1>3, EntriesTold

\* The steps of a launch.
LEMMA LaunchMild ==
    ASSUME ProcOK, JobsOK, Jobs, NEW t \in Workers, Launching(t)
    PROVE  Mild
<1>1. /\ job[t] \in Job /\ JobGood(job[t]) /\ Fits(t, pc[t], job[t])
      /\ (pc[t] \in LaunchPlaces => job[t].p \in Programs)
  BY DEF JobsOK, Jobs, Fits, JobGood
<1>2. /\ Programs \subseteq Procs \ Kips /\ Deps \subseteq Procs \ Kips
      /\ Apps \subseteq Programs /\ Deps \cap Apps = {}
  BY NeedsAssumption DEF Procs, Needy, Programs
<1>3. 0 \in 0..(RefMod - 1)
  BY DEF RefMod
<1>4. CASE Check(t) \/ LoadRefused(t) \/ DepsDone(t)
  BY <1>4, ListUnchanged DEF Check, LoadRefused, DepsDone
<1>5. ASSUME NEW d \in Deps, DepRaced(t, d) \/ DepRefused(t, d) PROVE Mild
  BY <1>5, ListUnchanged DEF DepRaced, DepRefused
<1>6. CASE Load(t)
  <2>1. Loads(job[t].p) /\ job[t].p \in Procs
    BY <1>1, <1>2, <1>6 DEF Load, LaunchPlaces, Loads
  <2>2. proc' = [proc EXCEPT ![job[t].p] = Loaded] /\ UNCHANGED mon
    BY <1>6 DEF Load
  <2>3. QED BY <2>1, <2>2, EntryLoaded, LoadedEntry
<1>7. ASSUME NEW d \in Deps, LoadDep(t, d) PROVE Mild
  <2>1. Loads(d) /\ d \in Procs
    BY <1>2, <1>7 DEF LoadDep, Loads
  <2>2. proc' = [proc EXCEPT ![d] = Loaded] /\ UNCHANGED mon
    BY <1>7 DEF LoadDep
  <2>3. QED BY <2>1, <2>2, EntryLoaded, LoadedEntry
<1>8. CASE Register(t) \/ RegisterDep(t)
  <2>1. PICK p : proc' = [proc EXCEPT ![p].reg = TRUE] /\ UNCHANGED mon
    BY <1>8 DEF Register, RegisterDep
  <2> DEFINE r == [proc[p] EXCEPT !.reg = TRUE]
  <2>2. proc' = [proc EXCEPT ![p] = r]
    BY <2>1 DEF ProcOK
  <2>3. p \in Procs => r \in Process /\ Kept(proc[p], r)
    BY <1>3, FieldEntries DEF ProcOK
  <2> HIDE DEF r
  <2>4. QED BY <2>1, <2>2, <2>3, EntryKept
<1>9. CASE CountDeps(t) \/ MergeDep(t)
  <2>1. UNCHANGED mon /\ \E x : Merge(t, x)
    BY <1>9 DEF CountDeps, MergeDep, Merge
  <2>2. QED BY <2>1, MergeMild
<1>10. CASE OwnDeps(t)
  <2> DEFINE p == job[t].p
             b == proc[p].deps \/ Needs[p] # {}
             r == [proc[p] EXCEPT !.deps = b]
  <2>1. proc' = [proc EXCEPT ![p] = r] /\ UNCHANGED mon
    BY <1>10 DEF OwnDeps, ProcOK
  <2>2. b \in BOOLEAN
    OBVIOUS
  <2> HIDE DEF b
  <2>3. p \in Procs => r \in Process /\ Kept(proc[p], r)
    BY <1>3, <2>2, FieldEntries DEF ProcOK
  <2> HIDE DEF r
  <2>4. QED BY <2>1, <2>3, EntryKept
<1>11. CASE RunDep(t)
  <2> DEFINE d == job[t].dep
             r == [proc[d] EXCEPT !.ran = TRUE]
  <2>1. UNCHANGED mon /\ (UNCHANGED proc \/ proc' = [proc EXCEPT ![d] = r])
    BY <1>11 DEF RunDep, ProcOK
  <2>2. d \in Procs => r \in Process /\ Kept(proc[d], r)
    BY <1>3, FieldEntries DEF ProcOK
  <2> HIDE DEF r
  <2>3. QED BY <2>1, <2>2, EntryKept, ListUnchanged
<1>12. CASE FlagDep(t)
  <2> DEFINE d == job[t].dep
             m == [proc[d] EXCEPT !.auto = TRUE]
             r == [m EXCEPT !.deps = TRUE]
  <2>1. UNCHANGED mon /\ (UNCHANGED proc \/ proc' = [proc EXCEPT ![d].auto = TRUE, ![d].deps = TRUE])
    BY <1>12 DEF FlagDep
  <2>2. d \in Procs => m \in Process /\ Kept(proc[d], m)
    BY <1>3, FieldEntries DEF ProcOK
  <2>3. [proc EXCEPT ![d].auto = TRUE, ![d].deps = TRUE] = [proc EXCEPT ![d] = r]
    <3>1. [proc EXCEPT ![d].auto = TRUE, ![d].deps = TRUE]
             = [[proc EXCEPT ![d] = m] EXCEPT ![d] = [[proc EXCEPT ![d] = m][d] EXCEPT !.deps = TRUE]]
      OBVIOUS
    <3>2. CASE d \in Procs
      BY <3>1, <3>2 DEF ProcOK
    <3>3. CASE d \notin Procs
      BY <3>1, <3>3 DEF ProcOK
    <3>4. QED BY <3>2, <3>3
  <2> HIDE DEF m
  <2>4. d \in Procs => r \in Process /\ Kept(m, r)
    BY <1>3, <2>2, FieldEntries
  <2> HIDE DEF r
  <2>5. d \in Procs => r \in Process /\ Kept(proc[d], r)
    BY <2>2, <2>4, KeptTwice
  <2>6. QED BY <2>1, <2>3, <2>5, EntryKept, ListUnchanged
<1>13. CASE IncrefDep(t)
  <2> DEFINE d == job[t].dep
             rem == Cardinality({x \in job[t].merged : d \in Needs[x]})
  <2>1. pc[t] = "incref" /\ UNCHANGED mon
    BY <1>13 DEF IncrefDep
  <2>2. d \in Deps /\ d \in Procs /\ proc[d] \in Process
    BY <1>1, <1>2, <2>1 DEF Fits, ProcOK
  <2>3. rem \in Nat \ {0}
    BY <1>1, <2>1, Remaining DEF Fits
  <2> HIDE DEF rem
  <2>4. CASE proc[d].auto
    <3>1. PICK n \in {1, proc[d].ref} :
            n + rem - 1 < RefMod /\ proc' = [proc EXCEPT ![d].ref = n + rem - 1]
      BY <1>13, <2>4 DEF IncrefDep, rem
    <3>2. n + rem - 1 \in 0..(RefMod - 1)
      <4>1. n \in Nat
        <5>1. proc[d].ref \in 0..(RefMod - 1)
          BY <2>2 DEF Process
        <5>2. QED BY <3>1, <5>1 DEF RefMod
      <4>2. QED BY <2>3, <3>1, <4>1 DEF RefMod
    <3> DEFINE r == [proc[d] EXCEPT !.ref = n + rem - 1]
    <3>3. proc' = [proc EXCEPT ![d] = r] /\ r \in Process /\ Kept(proc[d], r)
      BY <2>2, <3>1, <3>2, FieldEntries DEF ProcOK
    <3> HIDE DEF r
    <3>4. QED BY <2>1, <3>3, EntryKept
  <2>5. CASE ~proc[d].auto
    BY <1>13, <2>1, <2>5, ListUnchanged DEF IncrefDep
  <2>6. QED BY <2>4, <2>5
<1>14. CASE DepFails(t) \/ Fail(t)
  <2>1. PICK p : proc' = [proc EXCEPT ![p].alive = FALSE] /\ UNCHANGED mon
    BY <1>14 DEF DepFails, Fail
  <2> DEFINE r == [proc[p] EXCEPT !.alive = FALSE]
  <2>2. proc' = [proc EXCEPT ![p] = r]
    BY <2>1 DEF ProcOK
  <2>3. p \in Procs => r \in Process /\ Kept(proc[p], r)
    BY <1>3, FieldEntries DEF ProcOK
  <2> HIDE DEF r
  <2>4. QED BY <2>1, <2>2, <2>3, EntryKept
<1>15. CASE Run(t)
  <2> DEFINE p == job[t].p
             b == proc[p].notify \/ p \in Apps
             m == [proc[p] EXCEPT !.ran = TRUE]
             r == [m EXCEPT !.notify = b]
  <2>1. p \in Procs /\ proc[p] \in Process
    BY <1>1, <1>2, <1>15 DEF Run, LaunchPlaces, ProcOK
  <2>2. UNCHANGED mon /\ (UNCHANGED proc \/ proc' = [proc EXCEPT ![p] = r])
    BY <1>15, <2>1 DEF Run, ProcOK, Process
  <2>3. m \in Process /\ Kept(proc[p], m) /\ b \in BOOLEAN
    BY <1>3, <2>1, FieldEntries
  <2> HIDE DEF m, b
  <2>4. r \in Process /\ Kept(m, r)
    BY <1>3, <2>3, FieldEntries
  <2> HIDE DEF r
  <2>5. Kept(proc[p], r)
    BY <2>3, <2>4, KeptTwice
  <2>6. QED BY <2>2, <2>4, <2>5, EntryKept, ListUnchanged
<1>16. QED
  BY <1>4, <1>5, <1>6, <1>7, <1>8, <1>9, <1>10, <1>11, <1>12, <1>13, <1>14, <1>15 DEF Launching

\* The flags that are set before a process is told to end.
LEMMA ToldFlags ==
    ASSUME NEW t, NEW p, proc[p] \in Process
    PROVE  /\ Told(t, p) \in Process /\ Told(t, p).status = proc[p].status
           /\ Told(t, p).alive = proc[p].alive /\ Told(t, p).reg = proc[p].reg
<1> DEFINE q == proc[p]
           n == [q EXCEPT !.notify = FALSE]
           d == [q EXCEPT !.deps = FALSE]
<1>1. n \in Process /\ n.status = q.status /\ n.alive = q.alive /\ n.reg = q.reg
  BY DEF Process
<1>2. d \in Process /\ d.status = q.status /\ d.alive = q.alive /\ d.reg = q.reg
  BY DEF Process
<1>3. Told(t, p) \in {q, [n EXCEPT !.keep = TRUE], [d EXCEPT !.notify = FALSE]}
  BY DEF Told
<1> HIDE DEF n, d, q
<1>4. /\ [n EXCEPT !.keep = TRUE] \in Process /\ [n EXCEPT !.keep = TRUE].status = q.status
      /\ [n EXCEPT !.keep = TRUE].alive = q.alive /\ [n EXCEPT !.keep = TRUE].reg = q.reg
  BY <1>1 DEF Process
<1>5. /\ [d EXCEPT !.notify = FALSE] \in Process /\ [d EXCEPT !.notify = FALSE].status = q.status
      /\ [d EXCEPT !.notify = FALSE].alive = q.alive /\ [d EXCEPT !.notify = FALSE].reg = q.reg
  BY <1>2 DEF Process
<1>6. Told(t, p) \in Process /\ Told(t, p).status = q.status /\ Told(t, p).alive = q.alive
      /\ Told(t, p).reg = q.reg
  <2>1. q \in Process
    BY DEF q
  <2>2. QED BY <1>3, <1>4, <1>5, <2>1
<1>7. QED BY <1>6 DEF q

\* The steps of a termination.
LEMMA TerminationMild ==
    ASSUME ProcOK, JobsOK, RestOK, NEW t \in Workers, Terminating(t)
    PROVE  Mild
<1>1. CASE AskRosalina(t) \/ Woken(t) \/ Done(t) \/ Again(t)
  BY <1>1, ListUnchanged DEF AskRosalina, Woken, Done, Again
<1>2. CASE Commit(t) \/ TimesOut(t)
  BY <1>2, SomeKilled DEF Commit, TimesOut
<1>3. 0 \in 0..(RefMod - 1)
  BY DEF RefMod
<1>7. CASE SendKips(t)
  <2> DEFINE f == [p \in Procs |-> IF p \in Kips THEN Notified(proc[p]) ELSE proc[p]]
  <2>1. UNCHANGED mon /\ (proc' = f \/ UNCHANGED proc)
    BY <1>7 DEF SendKips
  <2>2. ASSUME NEW x \in Procs
        PROVE  f[x] \in Process /\ (Kept(proc[x], f[x]) \/ ToldEntry(proc[x], f[x]))
    <3>1. f[x] \in {Notified(proc[x]), proc[x]} /\ proc[x] \in Process /\ Kept(proc[x], proc[x])
      BY DEF ProcOK, Kept
    <3> HIDE DEF f
    <3>2. QED BY <3>1, NotifiedEntry
  <2>3. f = [x \in Procs |-> f[x]]
    OBVIOUS
  <2> HIDE DEF f
  <2>4. QED BY <2>1, <2>2, <2>3, EntriesTold, ListUnchanged
<1>8. CASE SendAll(t)
  <2> DEFINE c == job[t].p
             Spared(p) == p = c \/ (c \in Programs /\ p \in Needs[c])
             Counts(p) == p \in Listed /\ Spared(p) /\ proc[p].auto /\ p # runningApp
             One(p) == IF p = runningApp THEN Notified([proc[p] EXCEPT !.deps = FALSE])
                       ELSE IF p \notin Listed \/ p \in Kips THEN proc[p]
                       ELSE IF Spared(p) /\ proc[p].auto THEN [proc[p] EXCEPT !.ref = @ + 1]
                       ELSE IF Spared(p) /\ p # c THEN proc[p]
                       ELSE Notified(proc[p])
             f == [p \in Procs |-> One(p)]
  <2>1. /\ proc' = f /\ UNCHANGED mon
        /\ \A p \in Listed : Counts(p) => proc[p].ref + 1 < RefMod
    BY <1>8 DEF SendAll, MayCount
  <2>2. ASSUME NEW x \in Procs
        PROVE  One(x) \in Process /\ (Kept(proc[x], One(x)) \/ ToldEntry(proc[x], One(x)))
    <3>1. proc[x] \in Process
      BY DEF ProcOK
    <3>2. CASE One(x) = proc[x]
      BY <3>1, <3>2 DEF Kept
    <3>3. CASE Counts(x) /\ One(x) = [proc[x] EXCEPT !.ref = proc[x].ref + 1]
      <4>1. proc[x].ref + 1 \in 0..(RefMod - 1)
        BY <2>1, <3>1, <3>3 DEF Process, RefMod
      <4> HIDE DEF One
      <4>2. QED BY <3>1, <3>3, <4>1, FieldEntries
    <3>4. CASE One(x) = Notified(proc[x])
      <4> HIDE DEF One
      <4>1. QED BY <3>1, <3>4, NotifiedEntry
    <3>5. CASE One(x) = Notified([proc[x] EXCEPT !.deps = FALSE])
      <4> DEFINE q == [proc[x] EXCEPT !.deps = FALSE]
      <4>1. q \in Process /\ q.status = proc[x].status /\ q.alive = proc[x].alive /\ q.reg = proc[x].reg
        BY <3>1 DEF Process
      <4>2. One(x) = Notified(q)
        BY <3>5
      <4> HIDE DEF One, q
      <4>3. QED BY <4>1, <4>2, NotifiedEntry, SameEntry
    <3>6. QED BY <3>2, <3>3, <3>4, <3>5
  <2>3. proc' = [x \in Procs |-> f[x]] /\ \A x \in Procs : f[x] = One(x)
    BY <2>1
  <2> HIDE DEF f, One
  <2>4. QED BY <2>1, <2>2, <2>3, EntriesTold
<1>9. CASE Send(t)
  <2> DEFINE p == IF job[t].op = "title" THEN job[t].p ELSE runningApp
             q == Told(t, p)
             f == Terminated(p, q)
  <2>1. /\ UNCHANGED mon
        /\ UNCHANGED proc \/ (p # NoProc /\ (proc' = f \/ proc' = [proc EXCEPT ![p] = q]))
    BY <1>9 DEF Send
  <2>2. CASE p # NoProc /\ (proc' = f \/ proc' = [proc EXCEPT ![p] = q])
    <3>1. p \in Procs
      BY <2>2 DEF JobsOK, Job, RestOK
    <3>2. proc[p] \in Process
      BY <3>1 DEF ProcOK
    <3>3. /\ q \in Process /\ q.status = proc[p].status /\ q.alive = proc[p].alive
          /\ q.reg = proc[p].reg
      BY <3>2, ToldFlags
    <3> HIDE DEF q, p
    <3>4. \A x \in Procs : /\ f[x] \in Process
                           /\ Kept(proc[x], f[x]) \/ ToldEntry(proc[x], f[x])
      BY <3>1, <3>3, TerminatedEntries
    <3>5. f = [x \in Procs |-> f[x]]
      BY DEF Terminated
    <3>6. Kept(proc[p], q)
      BY <3>3 DEF Kept
    <3> HIDE DEF f
    <3>7. QED BY <2>1, <2>2, <3>3, <3>4, <3>5, <3>6, EntriesTold, EntryKept
  <2>3. QED BY <2>1, <2>2, ListUnchanged
<1>10. QED
  BY <1>1, <1>2, <1>7, <1>8, <1>9 DEF Terminating

\* The commands but one, the hand-over to the task runner, and the end of a process.
LEMMA CommandMild ==
    ASSUME ProcOK, Command \/ ClearAuto \/ Posted \/ Take \/ (\E p \in Procs : Ends(p)),
           \A p \in Procs : ~UnregisterProcess(p)
    PROVE  Mild
<1>1. CASE TerminateApplication \/ ChainloadHomebrewDirty \/ LaunchFirm \/ Posted \/ Take
  BY <1>1, ListUnchanged DEF TerminateApplication, ChainloadHomebrewDirty, LaunchFirm, Posted, Take
<1>2. ASSUME NEW c \in Programs, PrepareForReboot(c) PROVE Mild
  BY <1>2, ListUnchanged DEF PrepareForReboot
<1>3. ASSUME NEW p \in Programs, TerminateProcessOrTitle(p) PROVE Mild
  <2>1. UNCHANGED mon /\ proc' \in {proc, Killed({p})}
    BY <1>3 DEF TerminateProcessOrTitle
  <2>2. QED BY <2>1, ListUnchanged, SomeKilled
<1>4. ASSUME NEW p \in Procs, Ends(p) PROVE Mild
  BY <1>4, SomeKilled DEF Ends
<1>5. ASSUME NEW p \in Procs, LaunchTitle(p) PROVE Mild
  BY <1>5, ListUnchanged DEF LaunchTitle
<1>6. CASE ClearAuto
  <2> DEFINE p == job["main"].p
             r == [proc[p] EXCEPT !.auto = FALSE]
  <2>1. UNCHANGED mon /\ proc' = [proc EXCEPT ![p] = r]
    BY <1>6 DEF ClearAuto, ProcOK
  <2>2. 0 \in 0..(RefMod - 1)
    BY DEF RefMod
  <2>3. p \in Procs => r \in Process /\ Kept(proc[p], r)
    BY <2>2, FieldEntries DEF ProcOK
  <2> HIDE DEF r
  <2>4. QED BY <2>1, <2>3, EntryKept
<1>7. QED
  BY <1>1, <1>2, <1>3, <1>4, <1>5, <1>6 DEF Command

-----------------------------------------------------------------------------
(* The monitor, and UnregisterProcess.                                     *)

\* What the other parts of the proof need of a step: the list, and those who are awaited.
ForgottenBut(gone) ==
    \A p \in Procs \ gone : Awaited(p) => Awaited(p)' /\ (~proc[p].alive => ~proc'[p].alive)
ListKept(gone) == ProcOK' /\ MonOK' /\ ListInv' /\ ForgottenBut(gone) /\ AppsKept

LEMMA MildKeeps ==
    ASSUME ProcOK, MonOK, ListInv, Mild
    PROVE  ListKept({})
<1>1. MonOK' /\ SameMon
  BY DEF Mild, MonOK, SameMon
<1>2. QED BY <1>1, TouchKeeps DEF Mild, ListKept, ForgottenBut, NoneForgotten

\* The monitor looks, decides and waits; the entries stay as they are.
LEMMA MonitorLooks ==
    ASSUME ProcOK, MonOK, ListInv, Scan \/ Decide \/ WaitNew \/ (\E p \in Procs : WaitEnded(p))
    PROVE  ListKept({})
<1>1. UNCHANGED listVars /\ Listed' = Listed /\ Sent' = Sent /\ ProcOK'
  BY DEF Scan, Decide, WaitNew, WaitEnded, Listed, Sent, ProcOK
<1>2. ForgottenBut({}) /\ AppsKept
  BY <1>1 DEF ForgottenBut, AppsKept, Awaited
<1>3. EndedInv' /\ RegInv'
  BY <1>1 DEF ListInv, EndedInv, RegInv
<1>4. SUFFICES MonOK' /\ MonInv'
  BY <1>1, <1>2, <1>3 DEF ListKept, ListInv
<1>5. CASE Decide
  <2>1. mon.pc = "decide" /\ mon' = [mon EXCEPT !.pc = "wait", !.sent = FALSE]
    BY <1>5 DEF Decide
  <2>2. MonOK' /\ mon'.pc = "wait" /\ mon'.snap = mon.snap
    BY <2>1 DEF MonOK, Mon
  <2>3. QED BY <1>1, <2>2 DEF ListInv, MonInv
<1>6. CASE Scan
  <2>1. mon' = [mon EXCEPT !.pc = "decide", !.sent = (Sent # {}),
                           !.snap = {p \in Listed : proc[p].status # "terminated"}]
    BY <1>6 DEF Scan
  <2>2. mon'.pc = "decide" /\ mon'.snap = {p \in Listed : proc[p].status # "terminated"}
    BY <2>1 DEF MonOK, Mon
  <2>3. MonOK'
    <3>1. (Sent # {}) \in BOOLEAN /\ {p \in Listed : proc[p].status # "terminated"} \in SUBSET Procs
      BY DEF Listed
    <3>2. QED BY <2>1, <3>1 DEF MonOK, Mon
  <2>4. QED BY <1>1, <2>2, <2>3 DEF MonInv
<1>7. CASE WaitNew
  <2>1. mon' = [mon EXCEPT !.pc = "scan", !.snap = {}]
    BY <1>7 DEF WaitNew
  <2>2. MonOK' /\ mon'.pc = "scan" /\ mon'.snap = {}
    BY <2>1 DEF MonOK, Mon
  <2>3. QED BY <2>2 DEF MonInv
<1>8. ASSUME NEW p \in Procs, WaitEnded(p) PROVE MonOK' /\ MonInv'
  <2>1. /\ p \in mon.snap /\ ~proc[p].alive
        /\ mon' = [mon EXCEPT !.pc = "mark", !.cur = p, !.snap = {}]
    BY <1>8 DEF WaitEnded
  <2>2. MonOK' /\ mon'.pc = "mark" /\ mon'.cur = p /\ mon'.snap = {}
    BY <2>1 DEF MonOK, Mon
  <2>3. QED BY <1>1, <2>1, <2>2 DEF ListInv, MonInv
<1>9. QED BY <1>5, <1>6, <1>7, <1>8

\* The dependencies of an ended process are released.
LEMMA CleanDepsKeeps ==
    ASSUME ProcOK, MonOK, ListInv, CleanDeps
    PROVE  ListKept({})
<1> DEFINE p == mon.cur
<1>1. PICK ok \in BOOLEAN :
        proc' = [x \in Procs |-> IF ok /\ p \in Needy THEN Unused(x, Needs[p]) ELSE proc[x]]
  BY DEF CleanDeps, Lists
<1> DEFINE f == [x \in Procs |-> IF ok /\ p \in Needy THEN Unused(x, Needs[p]) ELSE proc[x]]
<1>2. /\ mon.pc = "deps" /\ mon' = [mon EXCEPT !.pc = "clean", !.deps = FALSE] /\ proc' = f
  BY <1>1 DEF CleanDeps
<1>3. MonOK' /\ SameMon
  BY <1>2 DEF MonOK, Mon, SameMon
<1>4. ASSUME NEW x \in Procs
      PROVE  f[x] \in Process /\ (Kept(proc[x], f[x]) \/ ToldEntry(proc[x], f[x]))
  <2>1. f[x] \in {Unused(x, Needs[p]), proc[x]} /\ proc[x] \in Process /\ Kept(proc[x], proc[x])
    BY DEF ProcOK, Kept
  <2> HIDE DEF f
  <2>2. QED BY <2>1, UnusedEntry
<1>5. proc' = [x \in Procs |-> f[x]]
  BY <1>2
<1> HIDE DEF f
<1>6. ProcOK' /\ Touches
  BY <1>4, <1>5 DEF ProcOK, Touches
<1>7. QED BY <1>3, <1>6, TouchKeeps DEF ListKept, ForgottenBut, NoneForgotten

\* An entry is freed, or marked as terminated.
LEMMA FreedEntry ==
    ASSUME NEW q \in Process
    PROVE  /\ Freed(q) \in Process /\ Freed(q).status = "absent" /\ Freed(q).alive = q.alive
           /\ Freed(q).reg = q.reg
           /\ [q EXCEPT !.status = "terminated", !.keep = TRUE] \in Process
           /\ [q EXCEPT !.status = "terminated", !.keep = TRUE].status = "terminated"
           /\ [q EXCEPT !.status = "terminated", !.keep = TRUE].alive = q.alive
           /\ [q EXCEPT !.status = "terminated", !.keep = TRUE].reg = q.reg
<1> DEFINE a == [Absent EXCEPT !.alive = q.alive]
           b == [a EXCEPT !.reg = q.reg]
           m == [q EXCEPT !.status = "terminated"]
<1>1. a \in Process /\ a.status = "absent" /\ a.alive = q.alive
  BY LoadedEntry DEF Process
<1> HIDE DEF a
<1>2. b \in Process /\ b.status = "absent" /\ b.alive = q.alive /\ b.reg = q.reg
  BY <1>1 DEF Process
<1> HIDE DEF b
<1>3. Freed(q) = [b EXCEPT !.deps = q.deps]
  BY DEF Freed, a, b
<1>4. /\ Freed(q) \in Process /\ Freed(q).status = "absent" /\ Freed(q).alive = q.alive
      /\ Freed(q).reg = q.reg
  BY <1>2, <1>3 DEF Process
<1>5. m \in Process /\ m.status = "terminated" /\ m.alive = q.alive /\ m.reg = q.reg
  BY DEF Process, Statuses
<1>6. [q EXCEPT !.status = "terminated", !.keep = TRUE] = [m EXCEPT !.keep = TRUE]
  OBVIOUS
<1> HIDE DEF m
<1>7. /\ [m EXCEPT !.keep = TRUE] \in Process /\ [m EXCEPT !.keep = TRUE].status = m.status
      /\ [m EXCEPT !.keep = TRUE].alive = m.alive /\ [m EXCEPT !.keep = TRUE].reg = m.reg
  BY <1>5 DEF Process
<1>8. QED BY <1>4, <1>5, <1>6, <1>7

\* The process that has ended is marked, or its entry freed.
LEMMA MarkTerminatedKeeps ==
    ASSUME ProcOK, MonOK, ListInv, MarkTerminated
    PROVE  ListKept({mon.cur})
<1> DEFINE p == mon.cur
           keep == proc[p].keep \/ proc[p].notify
           r == IF keep THEN [proc[p] EXCEPT !.status = "terminated", !.keep = TRUE]
                ELSE Freed(proc[p])
<1>1. /\ mon.pc = "mark"
      /\ mon' = [mon EXCEPT !.pc = "deps", !.deps = proc[p].deps, !.notify = proc[p].notify]
  BY DEF MarkTerminated
<1>2. p \in Procs /\ ~proc[p].alive /\ mon.snap = {} /\ proc[p] \in Process
  BY <1>1 DEF ListInv, MonInv, ProcOK
<1>3. proc' = [proc EXCEPT ![p] = r]
  BY <1>2 DEF MarkTerminated, ProcOK
<1>4. /\ r \in Process /\ r.alive = proc[p].alive /\ r.reg = proc[p].reg
      /\ r.status \in {"absent", "terminated"}
  BY <1>2, FreedEntry
<1> HIDE DEF r
<1>5. ProcOK' /\ proc'[p] = r /\ \A x \in Procs \ {p} : proc'[x] = proc[x]
  BY <1>2, <1>3, <1>4 DEF ProcOK
<1>6. MonOK' /\ mon'.pc = "deps" /\ mon'.cur = p /\ mon'.snap = {}
  BY <1>1, <1>2 DEF MonOK, Mon, Process
<1>7. EndedInv'
  BY <1>2, <1>4, <1>5 DEF ListInv, EndedInv
<1>8. MonInv'
  BY <1>2, <1>4, <1>5, <1>6 DEF MonInv
<1>9. RegInv'
  BY <1>2, <1>4, <1>5 DEF ListInv, RegInv, Procs
<1>10. ForgottenBut({p})
  BY <1>5 DEF ForgottenBut, Awaited
<1>11. AppsKept
  <2>1. Apps \subseteq Procs
    BY DEF Procs, Needy, Programs
  <2>2. QED BY <1>4, <1>5, <2>1 DEF AppsKept
<1>12. QED BY <1>5, <1>6, <1>7, <1>8, <1>9, <1>10, <1>11 DEF ListKept, ListInv

\* sm and fs forget the process, which has ended.
LEMMA CleanRegsKeeps ==
    ASSUME ProcOK, MonOK, ListInv, CleanRegs
    PROVE  ListKept({})
<1> DEFINE p == mon.cur
           b == proc[p].reg /\ p \in Kips
           r == [proc[p] EXCEPT !.reg = b]
<1>1. mon.pc = "clean" /\ mon' = [mon EXCEPT !.pc = "forget"]
  BY DEF CleanRegs
<1>2. p \in Procs /\ ~proc[p].alive /\ mon.snap = {} /\ proc[p] \in Process /\ b \in BOOLEAN
  BY <1>1 DEF ListInv, MonInv, ProcOK
<1>3. proc' = [proc EXCEPT ![p] = r]
  BY <1>2 DEF CleanRegs, ProcOK
<1>4. /\ r \in Process /\ r.alive = proc[p].alive /\ r.status = proc[p].status
      /\ p \in Kips /\ proc[p].reg => r.reg
  BY <1>2 DEF Process
<1> HIDE DEF r, b
<1>5. ProcOK' /\ proc'[p] = r /\ \A x \in Procs \ {p} : proc'[x] = proc[x]
  BY <1>2, <1>3, <1>4 DEF ProcOK
<1>6. MonOK' /\ mon'.pc = "forget" /\ mon'.cur = p /\ mon'.snap = {}
  BY <1>1, <1>2 DEF MonOK, Mon
<1>7. EndedInv' /\ MonInv'
  BY <1>2, <1>4, <1>5, <1>6 DEF ListInv, EndedInv, MonInv
<1>8. RegInv'
  <2>1. \A x \in Kips : proc'[x].reg
    BY <1>4, <1>5 DEF ListInv, RegInv, Procs
  <2>2. \A x \in Procs : proc'[x].status = "sent" => proc'[x].reg \/ ~proc'[x].alive
    BY <1>2, <1>4, <1>5 DEF ListInv, RegInv
  <2>3. QED BY <2>1, <2>2 DEF RegInv
<1>9. ForgottenBut({})
  BY <1>4, <1>5 DEF ForgottenBut, Awaited
<1>10. AppsKept
  <2>1. Apps \subseteq Procs
    BY DEF Procs, Needy, Programs
  <2>2. QED BY <1>4, <1>5, <2>1 DEF AppsKept
<1>11. QED BY <1>5, <1>6, <1>7, <1>8, <1>9, <1>10 DEF ListKept, ListInv

\* cleanupProcess comes to its end.
LEMMA CleanKeeps ==
    ASSUME ProcOK, MonOK, ListInv, Clean
    PROVE  ListKept({})
<1>1. /\ mon.pc = "forget" /\ UNCHANGED proc
      /\ mon' = [mon EXCEPT !.pc = "scan", !.cur = NoProc, !.notify = FALSE]
  BY DEF Clean
<1>2. MonOK' /\ mon'.pc = "scan" /\ mon'.snap = mon.snap
  BY <1>1 DEF MonOK, Mon
<1>3. Listed' = Listed /\ ProcOK'
  BY <1>1 DEF Listed, ProcOK
<1>4. EndedInv' /\ MonInv' /\ RegInv'
  BY <1>1, <1>2, <1>3 DEF ListInv, EndedInv, MonInv, RegInv
<1>5. ForgottenBut({}) /\ AppsKept
  BY <1>1 DEF ForgottenBut, AppsKept, Awaited
<1>6. QED BY <1>2, <1>3, <1>4, <1>5 DEF ListKept, ListInv

\* An entry that is marked is freed, and the monitor no longer waits for it.
LEMMA UnregisterKeeps ==
    ASSUME ProcOK, MonOK, ListInv, NEW p \in Procs, UnregisterProcess(p)
    PROVE  ListKept({})
<1>1. proc[p].status \in {"absent", "terminated"} /\ proc[p] \in Process
  BY DEF UnregisterProcess, ProcOK
<1>2. CASE p \notin Listed
  <2>1. UNCHANGED <<listVars, mon>>
    BY <1>2 DEF UnregisterProcess
  <2>2. QED BY <1>1, <2>1, ListUnchanged, MildKeeps
<1>3. CASE p \in Listed
  <2> DEFINE r == Freed(proc[p])
             busy == mon.pc \in {"deps", "clean", "forget"}
  <2>1. mon' = IF busy THEN mon
               ELSE [mon EXCEPT !.snap = @ \ {p}, !.pc = IF mon.cur = p THEN "scan" ELSE @,
                                !.cur = IF @ = p THEN NoProc ELSE @]
    BY <1>3 DEF UnregisterProcess
  <2>2. proc' = [proc EXCEPT ![p] = r]
    BY <1>3 DEF UnregisterProcess, ProcOK
  <2>3. r \in Process /\ r.alive = proc[p].alive /\ r.reg = proc[p].reg /\ r.status = "absent"
    BY <1>1, FreedEntry
  <2> HIDE DEF r
  <2>4. ProcOK' /\ proc'[p] = r /\ \A x \in Procs \ {p} : proc'[x] = proc[x]
    BY <2>2, <2>3 DEF ProcOK
  <2>5. Listed' = Listed \ {p}
    BY <1>1, <2>3, <2>4 DEF Listed
  <2>6. MonOK' /\ mon'.snap = (IF busy THEN mon.snap ELSE mon.snap \ {p})
    <3>1. CASE busy
      BY <2>1, <3>1 DEF MonOK
    <3>2. CASE ~busy
      BY <2>1, <3>2 DEF MonOK, Mon
    <3>3. QED BY <3>1, <3>2
  <2>7. \/ mon' = mon /\ busy
        \/ mon'.pc = mon.pc /\ mon'.cur = mon.cur /\ mon.cur # p
        \/ mon'.pc = "scan" /\ mon'.cur = NoProc
    BY <2>1 DEF MonOK, Mon
  <2>8. p \notin mon'.snap /\ mon'.snap \subseteq mon.snap
    BY <2>6 DEF ListInv, MonInv
  <2>9. EndedInv'
    BY <1>1, <2>3, <2>4 DEF ListInv, EndedInv
  <2>10. MonInv'
    BY <2>3, <2>4, <2>5, <2>7, <2>8 DEF ListInv, MonInv
  <2>11. \A x \in Procs : proc'[x].reg = proc[x].reg /\ proc'[x].alive = proc[x].alive
                          /\ proc'[x].status = (IF x = p THEN "absent" ELSE proc[x].status)
    BY <2>3, <2>4
  <2>12. RegInv'
    BY <2>11 DEF ListInv, RegInv, Procs
  <2>13. ForgottenBut({}) /\ AppsKept
    <3>1. Apps \subseteq Procs
      BY DEF Procs, Needy, Programs
    <3>2. QED BY <1>1, <2>11, <3>1 DEF ForgottenBut, Awaited, AppsKept
  <2>14. QED BY <2>4, <2>6, <2>9, <2>10, <2>12, <2>13 DEF ListKept, ListInv
<1>4. QED BY <1>2, <1>3

-----------------------------------------------------------------------------
(* What a step does to the workers.                                        *)

\* Worker t goes to l with the job j.
Works(t, l, j) ==
    /\ pc' = [pc EXCEPT ![t] = l] /\ job' = [job EXCEPT ![t] = j]
    /\ l \in Places /\ j \in Job /\ JobGood(j) /\ Fits(t, l, j)

LEMMA WorksKeeps ==
    ASSUME JobsOK, Jobs, NEW t \in Workers, NEW l, NEW j, Works(t, l, j)
    PROVE  /\ pc' \in [Workers -> Places] /\ job' \in [Workers -> Job] /\ Jobs'
           /\ pc'[t] = l /\ job'[t] = j
           /\ \A u \in Workers \ {t} : pc'[u] = pc[u] /\ job'[u] = job[u]
<1>1. /\ pc' \in [Workers -> Places] /\ job' \in [Workers -> Job] /\ pc'[t] = l /\ job'[t] = j
      /\ \A u \in Workers \ {t} : pc'[u] = pc[u] /\ job'[u] = job[u]
  BY DEF JobsOK, Works
<1>2. ASSUME NEW u \in Workers
      PROVE  JobGood(job'[u]) /\ Fits(u, pc'[u], job'[u])
  <2>1. CASE u = t
    BY <1>1, <2>1 DEF Works
  <2>2. CASE u # t
    BY <1>1, <2>2 DEF Jobs
  <2>3. QED BY <2>1, <2>2
<1>3. Jobs'
  BY <1>2 DEF Jobs, JobGood, Fits
<1>4. QED BY <1>1, <1>3

\* The monitor is about to signal that none is left.
Signals == mon.pc = "decide" /\ ~mon.sent

\* The event is not signalled, nor is the monitor brought to signal it.
EventKept == (allNotified' => allNotified) /\ (Signals' => Signals)

\* The worker goes on as one that waits for processes that were told to end, and that
\* have ended if the event is signalled for it.
LEMMA WaitMoves ==
    ASSUME JobsOK, Jobs, WaitInv, NoneForgotten, EventKept,
           NEW t \in Workers, NEW l, NEW j, Works(t, l, j),
           l \in {"wait", "wait2"} => \A p \in j.held : Awaited(p)',
           Marked(t)' /\ j.look = "seen" => l \in {"wait", "wait2"},
           Signals' /\ l \in {"wait", "wait2"} /\ j.look = "seen" => \A p \in j.held : ~proc'[p].alive,
           allNotified' /\ Marked(t)' /\ j.look # "early"
             => j.look = "seen" /\ \A p \in j.held : ~proc'[p].alive
    PROVE  WaitInv'
<1>1. /\ pc'[t] = l /\ job'[t] = j
      /\ \A u \in Workers \ {t} : pc'[u] = pc[u] /\ job'[u] = job[u]
  BY WorksKeeps
<1>2. SUFFICES ASSUME NEW u \in Workers
               PROVE  /\ pc'[u] \in {"wait", "wait2"} => \A p \in job'[u].held : Awaited(p)'
                      /\ Marked(u)' /\ job'[u].look = "seen" => pc'[u] \in {"wait", "wait2"}
                      /\ Signals' /\ pc'[u] \in {"wait", "wait2"} /\ job'[u].look = "seen"
                           => \A p \in job'[u].held : ~proc'[p].alive
                      /\ allNotified' /\ Marked(u)' /\ job'[u].look # "early"
                           => job'[u].look = "seen" /\ \A p \in job'[u].held : ~proc'[p].alive
  BY <1>2 DEF WaitInv, Waits, AllEnded, Signals
<1>3. CASE u = t
  BY <1>1, <1>3
<1>4. CASE u # t
  <2>1. pc'[u] = pc[u] /\ job'[u] = job[u] /\ (Marked(u)' <=> Marked(u))
    BY <1>1, <1>4 DEF Marked
  <2>2. job[u].held \subseteq Procs
    BY DEF JobsOK, Job
  <2>3. pc[u] \in {"wait", "wait2"} => \A p \in job[u].held : Awaited(p)
    BY DEF WaitInv, Waits
  <2>4. pc'[u] \in {"wait", "wait2"} => \A p \in job'[u].held : Awaited(p)'
    BY <2>1, <2>2, <2>3 DEF NoneForgotten
  <2>5. ASSUME pc[u] \in {"wait", "wait2"}, AllEnded(job[u].held)
        PROVE  \A p \in job'[u].held : ~proc'[p].alive
    BY <2>1, <2>2, <2>3, <2>5 DEF NoneForgotten, AllEnded
  <2>6. Marked(u)' /\ job'[u].look = "seen" => pc'[u] \in {"wait", "wait2"}
    BY <2>1 DEF WaitInv, Waits
  <2>7. Signals' /\ pc'[u] \in {"wait", "wait2"} /\ job'[u].look = "seen"
          => \A p \in job'[u].held : ~proc'[p].alive
    BY <2>1, <2>5 DEF WaitInv, Waits, EventKept, Signals
  <2>8. allNotified' /\ Marked(u)' /\ job'[u].look # "early"
          => job'[u].look = "seen" /\ \A p \in job'[u].held : ~proc'[p].alive
    BY <2>1, <2>5 DEF WaitInv, Waits, EventKept
  <2>9. QED BY <2>4, <2>6, <2>7, <2>8
<1>5. QED BY <1>3, <1>4

\* The worker goes on as one that is not marked, or is newly so, or was and goes on
\* telling processes to end.
LEMMA UnmarkedMoves ==
    ASSUME JobsOK, Jobs, WaitInv, NoneForgotten, EventKept,
           NEW t \in Workers, NEW l, NEW j, Works(t, l, j),
           l \notin {"wait", "wait2"},
           \/ l \notin {"list", "ros", "kips", "commit"} /\ (l = "send" => ~j.commit)
           \/ ~allNotified' /\ j.look = "no"
           \/ Marked(t) /\ ~Waits(t) /\ j.look = job[t].look
    PROVE  WaitInv'
<1>1. pc'[t] = l /\ job'[t] = j
  BY WorksKeeps
<1>2. CASE l \notin {"list", "ros", "kips", "commit"} /\ (l = "send" => ~j.commit)
  <2>1. ~Marked(t)'
    BY <1>1, <1>2 DEF Marked
  <2>2. QED BY <2>1, WaitMoves
<1>3. CASE ~allNotified' /\ j.look = "no"
  BY <1>3, WaitMoves
<1>4. CASE Marked(t) /\ ~Waits(t) /\ j.look = job[t].look
  <2>1. j.look # "seen" /\ (allNotified' => j.look = "early")
    BY <1>4 DEF WaitInv, EventKept
  <2>2. QED BY <2>1, WaitMoves
<1>5. QED BY <1>2, <1>3, <1>4

WorkersKept == JobsOK' /\ Jobs' /\ TaskGood' /\ WaitInv'

\* No worker moves, and nothing is posted.
LEMMA StayKeeps ==
    ASSUME JobsOK, Jobs, TaskGood, WaitInv, NoneForgotten, EventKept, UNCHANGED <<workVars, task>>
    PROVE  WorkersKept
<1>1. Jobs' /\ TaskGood' /\ JobsOK'
  BY DEF Jobs, Fits, JobGood, TaskGood, JobsOK
<1>2. \A u \in Workers : (Marked(u)' <=> Marked(u)) /\ job[u].held \subseteq Procs
  BY DEF Marked, JobsOK, Job
<1>3. ASSUME NEW u \in Workers
      PROVE  /\ pc[u] \in {"wait", "wait2"} => \A p \in job[u].held : Awaited(p)'
             /\ Marked(u) /\ job[u].look = "seen" => pc[u] \in {"wait", "wait2"}
             /\ Signals' /\ pc[u] \in {"wait", "wait2"} /\ job[u].look = "seen"
                  => \A p \in job[u].held : ~proc'[p].alive
             /\ allNotified' /\ Marked(u) /\ job[u].look # "early"
                  => job[u].look = "seen" /\ \A p \in job[u].held : ~proc'[p].alive
  <2>1. pc[u] \in {"wait", "wait2"} => \A p \in job[u].held : Awaited(p)
    BY DEF WaitInv, Waits
  <2>2. ASSUME pc[u] \in {"wait", "wait2"}, AllEnded(job[u].held)
        PROVE  \A p \in job[u].held : ~proc'[p].alive
    BY <1>2, <2>1, <2>2 DEF NoneForgotten, AllEnded
  <2>3. pc[u] \in {"wait", "wait2"} => \A p \in job[u].held : Awaited(p)'
    BY <1>2, <2>1 DEF NoneForgotten
  <2>4. QED BY <2>2, <2>3 DEF WaitInv, Waits, EventKept, Signals
<1>4. WaitInv'
  BY <1>2, <1>3 DEF WaitInv, Waits, AllEnded, Signals
<1>5. QED BY <1>1, <1>4 DEF WorkersKept

-----------------------------------------------------------------------------
(* The workers, step by step.                                              *)

\* The jobs that steps make.
LEMMA NewJobs ==
    /\ NoJob \in Job /\ JobGood(NoJob) /\ ~NoJob.commit /\ NoJob.op = "none" /\ NoJob.look = "no"
    /\ \A op \in Ops, p \in Procs \cup {NoProc} :
         /\ DoOn(op, p) \in Job /\ DoOn(op, p).op = op /\ DoOn(op, p).p = p
         /\ DoOn(op, p).commit /\ ~DoOn(op, p).hear /\ DoOn(op, p).look = "no"
         /\ DoOn(op, p).merged = {} /\ DoOn(op, p).rest = {}
    /\ \A p \in Procs : \E j \in Job : /\ j = [NoJob EXCEPT !.op = "found", !.p = p]
                                       /\ JobGood(j) /\ j.op = "found"
    /\ IsFiniteSet({})
<1>1. NoJob = [op |-> "none", p |-> NoProc, commit |-> FALSE, hear |-> FALSE, fake |-> FALSE,
               merged |-> {}, missing |-> {}, rest |-> {}, dep |-> NoProc, held |-> {}, look |-> "no"]
  BY DEF NoJob
<1>2. /\ NoJob \in Job /\ ~NoJob.commit /\ ~NoJob.hear /\ NoJob.op = "none" /\ NoJob.look = "no"
      /\ NoJob.merged = {} /\ NoJob.rest = {}
  BY <1>1 DEF Job, Ops
<1>3. ASSUME NEW op \in Ops, NEW p \in Procs \cup {NoProc}
      PROVE  \E b : /\ b \in Job /\ b.op = op /\ b.p = p /\ ~b.hear /\ b.look = "no"
                    /\ b.merged = {} /\ b.rest = {} /\ b = [NoJob EXCEPT !.op = op, !.p = p]
  <2> DEFINE a == [NoJob EXCEPT !.op = op]
             b == [a EXCEPT !.p = p]
  <2>1. a \in Job /\ a.op = op /\ ~a.hear /\ a.look = "no" /\ a.merged = {} /\ a.rest = {}
    BY <1>2 DEF Job
  <2>2. b = [NoJob EXCEPT !.op = op, !.p = p]
    OBVIOUS
  <2> HIDE DEF a
  <2>3. b \in Job /\ b.op = op /\ b.p = p /\ ~b.hear /\ b.look = "no" /\ b.merged = {} /\ b.rest = {}
    BY <2>1 DEF Job
  <2> HIDE DEF b
  <2>4. QED BY <2>2, <2>3
<1>4. ASSUME NEW op \in Ops, NEW p \in Procs \cup {NoProc}
      PROVE  /\ DoOn(op, p) \in Job /\ DoOn(op, p).op = op /\ DoOn(op, p).p = p
             /\ DoOn(op, p).commit /\ ~DoOn(op, p).hear /\ DoOn(op, p).look = "no"
             /\ DoOn(op, p).merged = {} /\ DoOn(op, p).rest = {}
  <2>1. PICK b : /\ b \in Job /\ b.op = op /\ b.p = p /\ ~b.hear /\ b.look = "no"
                 /\ b.merged = {} /\ b.rest = {} /\ b = [NoJob EXCEPT !.op = op, !.p = p]
    BY <1>3
  <2>2. DoOn(op, p) = [b EXCEPT !.commit = TRUE]
    BY <2>1 DEF DoOn
  <2>3. QED BY <2>1, <2>2 DEF Job
<1>5. IsFiniteSet({})
  BY FS_EmptySet
<1>6. ASSUME NEW p \in Procs
      PROVE  \E j \in Job : j = [NoJob EXCEPT !.op = "found", !.p = p] /\ JobGood(j) /\ j.op = "found"
  <2> DEFINE op == "found"
  <2>0. op \in Ops /\ p \in Procs \cup {NoProc}
    BY DEF Ops
  <2> HIDE DEF op
  <2>1. PICK b : /\ b \in Job /\ b.op = op /\ b.p = p /\ ~b.hear /\ b.look = "no"
                 /\ b.merged = {} /\ b.rest = {} /\ b = [NoJob EXCEPT !.op = op, !.p = p]
    BY <1>3, <2>0
  <2>2. JobGood(b)
    BY <1>5, <2>1 DEF JobGood, op
  <2>3. QED BY <2>1, <2>2 DEF op
<1>7. JobGood(NoJob)
  BY <1>2, <1>5 DEF JobGood
<1>8. QED BY <1>2, <1>4, <1>5, <1>6, <1>7

\* A worker that keeps its job.
LEMMA SameJob ==
    ASSUME JobsOK, Jobs, NEW t \in Workers, NEW l \in Places, Goto(t, l), UNCHANGED job,
           Fits(t, l, job[t])
    PROVE  Works(t, l, job[t])
  BY DEF JobsOK, Jobs, Goto, Works

\* A worker that is done.
LEMMA Finished ==
    ASSUME NEW t \in Workers, Finish(t)
    PROVE  Works(t, "idle", NoJob) /\ task' = task
  BY NewJobs DEF Finish, Goto, Works, Fits, Places, LaunchPlaces, Loading

\* Jobs whose lists change stay what they are.
LEMMA SameKind ==
    ASSUME NEW i \in Job, NEW j \in Job, JobGood(i),
           j.op = i.op, j.p = i.p, j.hear = i.hear, j.commit = i.commit,
           j.merged = i.merged, j.rest \subseteq i.rest
    PROVE  JobGood(j)
  BY DEF JobGood

\* Worker t goes on as UnmarkedMoves says, and nothing is posted.
LEMMA UnmarkedKeeps ==
    ASSUME JobsOK, Jobs, TaskGood, WaitInv, NoneForgotten, EventKept,
           NEW t \in Workers, NEW l, NEW j, Works(t, l, j), task' = task,
           l \notin {"wait", "wait2"},
           \/ l \notin {"list", "ros", "kips", "commit"} /\ (l = "send" => ~j.commit)
           \/ ~allNotified' /\ j.look = "no"
           \/ Marked(t) /\ ~Waits(t) /\ j.look = job[t].look
    PROVE  WorkersKept
<1>1. WaitInv'
  BY UnmarkedMoves
<1>2. pc' \in [Workers -> Places] /\ job' \in [Workers -> Job] /\ Jobs'
  BY WorksKeeps
<1>3. QED BY <1>1, <1>2 DEF WorkersKept, JobsOK, TaskGood

\* The dependencies of x come to those of the job.
LEMMA MergeWorks ==
    ASSUME JobsOK, Jobs, NEW t \in Workers, NEW x \in Needy, Merge(t, x),
           NEW l \in {"own", "dep"}, Goto(t, l), pc[t] \in LaunchPlaces
    PROVE  \E j : Works(t, l, j)
<1> DEFINE known == UNION {Needs[y] : y \in job[t].merged}
           new == Needs[x] \ (known \cup Listed)
           rest == IF job[t].fake THEN {} ELSE job[t].rest \cup new
           a == [job[t] EXCEPT !.merged = @ \cup {x}]
           b == [a EXCEPT !.dep = NoProc]
           c == [b EXCEPT !.missing = @ \cup new]
           j == [c EXCEPT !.rest = rest]
<1>1. /\ job[t] \in Job /\ JobGood(job[t]) /\ Fits(t, pc[t], job[t]) /\ job \in [Workers -> Job]
      /\ Needs[x] \in SUBSET Deps
  BY NeedsAssumption DEF JobsOK, Jobs
<1>2. job' = [job EXCEPT ![t] = j]
  <2>1. job' = [job EXCEPT ![t].merged = @ \cup {x}, ![t].dep = NoProc, ![t].missing = @ \cup new,
                           ![t].rest = IF job[t].fake THEN {} ELSE @ \cup new]
    BY DEF Merge
  <2> HIDE DEF new
  <2>2. job' = [job EXCEPT ![t] = [job[t] EXCEPT !.merged = @ \cup {x}, !.dep = NoProc,
                                     !.missing = @ \cup new,
                                     !.rest = IF job[t].fake THEN {} ELSE @ \cup new]]
    BY <1>1, <2>1
  <2>3. j = [job[t] EXCEPT !.merged = @ \cup {x}, !.dep = NoProc, !.missing = @ \cup new,
                           !.rest = IF job[t].fake THEN {} ELSE @ \cup new]
    BY <1>1 DEF Job
  <2> HIDE DEF j
  <2>4. QED BY <2>2, <2>3
<1>3. /\ new \in SUBSET Deps /\ rest \in SUBSET Deps /\ job[t].merged \cup {x} \in SUBSET Needy
      /\ rest \subseteq job[t].rest \cup Needs[x]
  BY <1>1 DEF Job
<1> HIDE DEF new, rest
<1>4. /\ a \in Job /\ a.op = job[t].op /\ a.p = job[t].p /\ a.hear = job[t].hear
      /\ a.commit = job[t].commit /\ a.merged = job[t].merged \cup {x}
  BY <1>1, <1>3 DEF Job
<1> HIDE DEF a
<1>5. /\ b \in Job /\ b.op = job[t].op /\ b.p = job[t].p /\ b.hear = job[t].hear
      /\ b.commit = job[t].commit /\ b.merged = job[t].merged \cup {x}
  BY <1>4 DEF Job
<1> HIDE DEF b
<1>6. /\ c \in Job /\ c.op = job[t].op /\ c.p = job[t].p /\ c.hear = job[t].hear
      /\ c.commit = job[t].commit /\ c.merged = job[t].merged \cup {x}
  <2>1. b.missing \cup new \in SUBSET Deps
    BY <1>3, <1>5 DEF Job
  <2>2. QED BY <1>5, <2>1 DEF Job
<1> HIDE DEF c
<1>7. /\ j \in Job /\ j.op = job[t].op /\ j.p = job[t].p /\ j.hear = job[t].hear
      /\ j.commit = job[t].commit /\ j.merged = job[t].merged \cup {x} /\ j.rest = rest
  BY <1>3, <1>6 DEF Job
<1> HIDE DEF j
<1>8. IsFiniteSet(j.merged)
  BY <1>1, <1>7, FS_AddElement DEF JobGood
<1>9. \A d \in j.rest : \E y \in j.merged : d \in Needs[y]
  BY <1>1, <1>3, <1>7 DEF JobGood
<1>10. JobGood(j)
  BY <1>1, <1>7, <1>8, <1>9 DEF JobGood
<1>11. Fits(t, l, j)
  BY <1>1, <1>7 DEF Fits, LaunchPlaces, Loading
<1>12. Works(t, l, j)
  BY <1>2, <1>7, <1>10, <1>11 DEF Works, Goto, Places, Loading
<1>13. QED BY <1>12

\* The steps of a launch.
LEMMA LaunchWorks ==
    ASSUME JobsOK, Jobs, TaskGood, WaitInv, NoneForgotten, NEW t \in Workers, Launching(t)
    PROVE  WorkersKept
<1>1. /\ job[t] \in Job /\ JobGood(job[t]) /\ Fits(t, pc[t], job[t]) /\ pc[t] \in Places
      /\ job \in [Workers -> Job]
      /\ (pc[t] \in LaunchPlaces => job[t].op = "launch" /\ job[t].p \in Programs)
  BY DEF JobsOK, Jobs, JobGood, Fits
<1>2. /\ LaunchPlaces \subseteq Places
      /\ LaunchPlaces \cap {"again", "post", "list", "ros", "kips", "commit", "wait", "wait2", "send",
                            "done", "halt"} = {}
  BY DEF LaunchPlaces, Places, Loading
<1>3. ASSUME NEW l \in LaunchPlaces \cup {"idle"}, NEW j, Works(t, l, j), EventKept, task' = task
      PROVE  WorkersKept
  <2>1. l \notin {"list", "ros", "kips", "commit", "wait", "wait2", "send"}
    BY <1>2
  <2>2. QED BY <1>3, <2>1, UnmarkedKeeps
<1>4. ASSUME NEW l \in LaunchPlaces, Goto(t, l), UNCHANGED <<job, task>>, EventKept,
             Fits(t, l, job[t])
      PROVE  WorkersKept
  BY <1>2, <1>3, <1>4, SameJob
<1>5. ASSUME Finish(t), EventKept
      PROVE  WorkersKept
  BY <1>3, <1>5, Finished
<1>6. ASSUME NEW l \in LaunchPlaces, NEW j \in Job, pc' = [pc EXCEPT ![t] = l],
             job' = [job EXCEPT ![t] = j], task' = task, EventKept, Fits(t, l, j),
             j.op = job[t].op, j.p = job[t].p, j.hear = job[t].hear, j.commit = job[t].commit,
             j.merged = job[t].merged, j.rest \subseteq job[t].rest
      PROVE  WorkersKept
  <2>1. Works(t, l, j)
    BY <1>1, <1>2, <1>6, SameKind DEF Works
  <2>2. QED BY <1>3, <1>6, <2>1
<1> USE DEF LaunchPlaces, Loading
<1>7. CASE Check(t)
  <2>1. EventKept /\ Fits(t, "load", job[t])
    BY <1>1, <1>7 DEF Check, EventKept, Signals, Fits
  <2>2. Finish(t) \/ (Goto(t, "load") /\ UNCHANGED <<job, task>>)
    BY <1>7 DEF Check
  <2>3. QED BY <1>4, <1>5, <2>1, <2>2
<1>8. CASE LoadRefused(t) \/ Run(t) \/ Fail(t)
  <2>1. EventKept /\ Finish(t)
    BY <1>8 DEF LoadRefused, Run, Fail, EventKept, Signals
  <2>2. QED BY <1>5, <2>1
<1>9. CASE Load(t) \/ Register(t) \/ OwnDeps(t) \/ DepsDone(t)
  <2>1. PICK l \in {"reg", "deps", "dep", "run"} :
          EventKept /\ Goto(t, l) /\ UNCHANGED <<job, task>> /\ pc[t] \in LaunchPlaces
    BY <1>9 DEF Load, Register, OwnDeps, DepsDone, EventKept, Signals
  <2>2. Fits(t, l, job[t])
    BY <1>1, <2>1 DEF Fits
  <2>3. QED BY <1>4, <2>1, <2>2
<1>10. CASE RegisterDep(t) \/ RunDep(t) \/ FlagDep(t) \/ IncrefDep(t) \/ DepFails(t)
  <2>1. PICK l \in {"drun", "flag", "fail", "incref", "merge"} :
          /\ EventKept /\ Goto(t, l) /\ UNCHANGED <<job, task>>
          /\ pc[t] \in {"dreg", "drun", "flag", "incref"}
    BY <1>10 DEF RegisterDep, RunDep, FlagDep, IncrefDep, DepFails, EventKept, Signals
  <2>2. Fits(t, l, job[t])
    BY <1>1, <2>1 DEF Fits
  <2>3. QED BY <1>4, <2>1, <2>2
<1>11. CASE CountDeps(t)
  <2>1. EventKept /\ task' = task /\ Merge(t, job[t].p) /\ Goto(t, "own") /\ pc[t] = "deps"
    BY <1>11 DEF CountDeps, Merge, EventKept, Signals
  <2>2. job[t].p \in Needy
    BY <1>1, <2>1 DEF Needy
  <2>3. \E j : Works(t, "own", j)
    BY <2>1, <2>2, MergeWorks
  <2>4. QED BY <1>3, <2>1, <2>3
<1>12. CASE MergeDep(t)
  <2>1. EventKept /\ task' = task /\ Merge(t, job[t].dep) /\ Goto(t, "dep") /\ pc[t] = "merge"
    BY <1>12 DEF MergeDep, Merge, EventKept, Signals
  <2>2. job[t].dep \in Needy
    BY <1>1, <2>1 DEF Needy, Fits
  <2>3. \E j : Works(t, "dep", j)
    BY <2>1, <2>2, MergeWorks
  <2>4. QED BY <1>3, <2>1, <2>3
<1>13. ASSUME NEW d \in Deps, LoadDep(t, d) PROVE WorkersKept
  <2> DEFINE a == [job[t] EXCEPT !.rest = @ \ {d}]
             b == [a EXCEPT !.missing = @ \ {d}]
             j == [b EXCEPT !.dep = d]
  <2>1. /\ EventKept /\ task' = task /\ pc[t] = "dep" /\ d \in job[t].rest
        /\ pc' = [pc EXCEPT ![t] = "dreg"]
        /\ job' = [job EXCEPT ![t].rest = @ \ {d}, ![t].missing = @ \ {d}, ![t].dep = d]
    BY <1>13 DEF LoadDep, EventKept, Signals, Goto
  <2>2. job' = [job EXCEPT ![t] = j]
    BY <1>1, <2>1 DEF Job
  <2>3. /\ a \in Job /\ a.op = job[t].op /\ a.p = job[t].p /\ a.hear = job[t].hear
        /\ a.commit = job[t].commit /\ a.merged = job[t].merged /\ a.rest = job[t].rest \ {d}
    BY <1>1 DEF Job
  <2> HIDE DEF a
  <2>4. /\ b \in Job /\ b.op = job[t].op /\ b.p = job[t].p /\ b.hear = job[t].hear
        /\ b.commit = job[t].commit /\ b.merged = job[t].merged /\ b.rest = job[t].rest \ {d}
    <3>1. a.missing \ {d} \in SUBSET Deps
      BY <2>3 DEF Job
    <3>2. QED BY <2>3, <3>1 DEF Job
  <2> HIDE DEF b
  <2>5. /\ j \in Job /\ j.op = job[t].op /\ j.p = job[t].p /\ j.hear = job[t].hear
        /\ j.commit = job[t].commit /\ j.merged = job[t].merged /\ j.rest = job[t].rest \ {d}
        /\ j.dep = d
    BY <2>4 DEF Job
  <2> HIDE DEF j
  <2>6. Fits(t, "dreg", j)
    BY <1>1, <2>1, <2>5 DEF Fits, JobGood
  <2>7. QED BY <1>6, <2>1, <2>2, <2>5, <2>6
<1>14. ASSUME NEW d \in Deps, DepRaced(t, d) \/ DepRefused(t, d) PROVE WorkersKept
  <2> DEFINE j == [job[t] EXCEPT !.rest = @ \ {d}]
  <2>1. /\ EventKept /\ task' = task /\ pc[t] = "dep"
        /\ job' = [job EXCEPT ![t] = j]
    BY <1>1, <1>14 DEF DepRaced, DepRefused, EventKept, Signals
  <2>2. PICK l \in {"dep", "fail"} : pc' = [pc EXCEPT ![t] = l]
    BY <1>14 DEF DepRaced, DepRefused, Goto, JobsOK
  <2>3. /\ j \in Job /\ j.op = job[t].op /\ j.p = job[t].p /\ j.hear = job[t].hear
        /\ j.commit = job[t].commit /\ j.merged = job[t].merged /\ j.rest = job[t].rest \ {d}
    BY <1>1 DEF Job
  <2> HIDE DEF j
  <2>4. Fits(t, l, j)
    BY <1>1, <2>1, <2>3 DEF Fits
  <2>5. QED BY <1>6, <2>1, <2>2, <2>3, <2>4
<1>15. QED
  BY <1>7, <1>8, <1>9, <1>10, <1>11, <1>12, <1>13, <1>14 DEF Launching

\* Done, case by case of what follows.
LEMMA DoneWorks ==
    ASSUME JobsOK, Jobs, TaskGood, WaitInv, NoneForgotten, NEW t \in Workers, Done(t)
    PROVE  WorkersKept
<1>1. /\ job[t] \in Job /\ JobGood(job[t]) /\ Fits(t, pc[t], job[t]) /\ pc[t] = "done"
      /\ UNCHANGED mon /\ job \in [Workers -> Job]
  BY DEF JobsOK, Jobs, Done
<1>2. t = "main" => job[t].op = "app"
  BY <1>1 DEF Fits
<1> DEFINE Emptied == [job[t] EXCEPT !.held = {}]
<1>3. /\ Emptied \in Job /\ Emptied.op = job[t].op /\ Emptied.p = job[t].p
      /\ Emptied.hear = job[t].hear /\ Emptied.commit = job[t].commit
      /\ Emptied.merged = job[t].merged /\ Emptied.rest = job[t].rest
  BY <1>1 DEF Job
<1> HIDE DEF Emptied
<1>4. JobGood(Emptied)
  BY <1>1, <1>3, SameKind
<1> USE DEF Places, LaunchPlaces, Loading
<1>5. CASE job[t].op = "reboot"
  <2> DEFINE k == [Emptied EXCEPT !.op = "kips"]
             j == [k EXCEPT !.look = "no"]
  <2>1. /\ allNotified' = FALSE /\ Goto(t, "kips") /\ task' = task
        /\ job' = [job EXCEPT ![t].op = "kips", ![t].held = {}, ![t].look = "no"]
    BY <1>1, <1>5 DEF Done
  <2>2. job' = [job EXCEPT ![t] = j]
    BY <1>1, <2>1 DEF Job, Emptied
  <2>3. /\ k \in Job /\ k.op = "kips" /\ k.p = job[t].p /\ k.hear = job[t].hear
        /\ k.commit = job[t].commit /\ k.merged = job[t].merged /\ k.rest = job[t].rest
    BY <1>3 DEF Job, Ops
  <2> HIDE DEF k
  <2>4. /\ j \in Job /\ j.op = "kips" /\ j.p = job[t].p /\ j.hear = job[t].hear
        /\ j.commit = job[t].commit /\ j.merged = job[t].merged /\ j.rest = job[t].rest
        /\ j.look = "no"
    BY <2>3 DEF Job
  <2> HIDE DEF j
  <2>5. JobGood(j)
    BY <1>1, <1>5, <2>4 DEF JobGood
  <2>6. Works(t, "kips", j)
    BY <1>2, <1>5, <2>1, <2>2, <2>4, <2>5 DEF Works, Fits, Goto
  <2>7. EventKept
    BY <1>1, <2>1 DEF EventKept, Signals
  <2>8. QED BY <2>1, <2>4, <2>6, <2>7, UnmarkedKeeps
<1>6. CASE job[t].op = "chain" /\ job[t].p # NoProc
  <2>1. /\ allNotified' = allNotified /\ job' = [job EXCEPT ![t] = Emptied]
        /\ Goto(t, "again") /\ task' = task
    BY <1>1, <1>6 DEF Done, Emptied
  <2>2. Works(t, "again", Emptied)
    BY <1>1, <1>2, <1>3, <1>4, <1>6, <2>1 DEF Works, Fits, Goto, JobGood
  <2>3. EventKept
    BY <1>1, <2>1 DEF EventKept, Signals
  <2>4. QED BY <2>1, <2>2, <2>3, UnmarkedKeeps
<1>7. CASE job[t].op = "kips" /\ job[t].p = NoProc
  <2>1. allNotified' = allNotified /\ UNCHANGED <<job, task>> /\ Goto(t, "halt")
    BY <1>1, <1>7 DEF Done
  <2>2. Fits(t, "halt", job[t])
    BY <1>2, <1>7 DEF Fits
  <2>3. Works(t, "halt", job[t])
    BY <2>1, <2>2, SameJob
  <2>4. EventKept
    BY <1>1, <2>1 DEF EventKept, Signals
  <2>5. QED BY <2>1, <2>3, <2>4, UnmarkedKeeps
<1>8. CASE /\ ~(job[t].op = "reboot") /\ ~(job[t].op = "chain" /\ job[t].p # NoProc)
           /\ ~(job[t].op = "kips" /\ job[t].p = NoProc)
  <2>1. allNotified' = allNotified /\ Finish(t)
    BY <1>1, <1>8 DEF Done
  <2>2. Works(t, "idle", NoJob) /\ task' = task
    BY <2>1, Finished
  <2>3. EventKept
    BY <1>1, <2>1 DEF EventKept, Signals
  <2>4. QED BY <2>2, <2>3, UnmarkedKeeps
<1>9. QED BY <1>5, <1>6, <1>7, <1>8

\* The steps of a termination.
LEMMA TerminationWorks ==
    ASSUME ProcOK, JobsOK, Jobs, TaskGood, runningApp \in Apps \cup {NoProc}, WaitInv,
           NoneForgotten, NEW t \in Workers, Terminating(t)
    PROVE  WorkersKept
<1>1. /\ job[t] \in Job /\ JobGood(job[t]) /\ Fits(t, pc[t], job[t]) /\ pc[t] \in Places
      /\ job \in [Workers -> Job]
  BY DEF JobsOK, Jobs
<1> USE DEF Places, LaunchPlaces, Loading
<1>2. CASE AskRosalina(t) \/ SendAll(t) \/ SendKips(t)
  <2>1. PICK l \in {"ros", "commit", "halt"} :
          pc[t] \in {"list", "ros", "kips"} /\ Goto(t, l) /\ UNCHANGED <<job, task>> /\ EventKept
    BY <1>2 DEF AskRosalina, SendAll, SendKips, EventKept, Signals
  <2>2. Fits(t, l, job[t])
    BY <1>1, <2>1 DEF Fits
  <2>3. Works(t, l, job[t])
    BY <2>1, <2>2, SameJob
  <2>4. Marked(t) /\ ~Waits(t)
    BY <2>1 DEF Marked, Waits
  <2>5. QED BY <2>1, <2>3, <2>4, UnmarkedKeeps
<1>3. CASE Send(t)
  <2> DEFINE op == job[t].op
             p == IF op = "title" THEN job[t].p ELSE runningApp
             k == [job[t] EXCEPT !.p = p]
             j == [k EXCEPT !.hear = Hears(t, p)]
             l == IF job[t].commit THEN "commit" ELSE "done"
  <2>1. /\ pc[t] = "send" /\ Goto(t, l) /\ task' = task /\ EventKept
        /\ UNCHANGED job \/ (p # NoProc /\ job' = [job EXCEPT ![t].p = p, ![t].hear = Hears(t, p)])
    BY <1>3 DEF Send, EventKept, Signals
  <2>2. l \in {"commit", "done"} /\ (l = "commit" => job[t].commit)
    OBVIOUS
  <2>3. [job EXCEPT ![t].p = p, ![t].hear = Hears(t, p)] = [job EXCEPT ![t] = j]
    <3> HIDE DEF p
    <3>1. QED BY <1>1 DEF Job
  <2>4. p # NoProc => /\ j \in Job /\ JobGood(j) /\ j.commit = job[t].commit /\ j.op = op
                      /\ j.look = job[t].look
    <3>1. SUFFICES ASSUME p # NoProc
                   PROVE  /\ j \in Job /\ JobGood(j) /\ j.commit = job[t].commit /\ j.op = op
                          /\ j.look = job[t].look
      OBVIOUS
    <3>2. p \in Procs
      BY <1>1, <3>1 DEF Job, Procs, Needy, Programs
    <3>3. op # "title" => p \in Programs
      BY <3>1 DEF Programs
    <3>4. Hears(t, p) \in BOOLEAN /\ (Hears(t, p) => op = "title")
      BY DEF Hears
    <3> HIDE DEF p
    <3>5. /\ k \in Job /\ k.p = p /\ k.op = op /\ k.commit = job[t].commit
          /\ k.merged = job[t].merged /\ k.rest = job[t].rest /\ k.look = job[t].look
      BY <1>1, <3>2 DEF Job
    <3> HIDE DEF k
    <3>6. /\ j \in Job /\ j.p = p /\ j.op = op /\ j.commit = job[t].commit
          /\ j.merged = job[t].merged /\ j.rest = job[t].rest /\ j.look = job[t].look
          /\ (j.hear <=> Hears(t, p))
      <4> DEFINE h == Hears(t, p)
      <4>1. h \in BOOLEAN
        BY <3>4
      <4> HIDE DEF h
      <4>2. /\ [k EXCEPT !.hear = h] \in Job /\ [k EXCEPT !.hear = h].p = p
            /\ [k EXCEPT !.hear = h].op = op
            /\ [k EXCEPT !.hear = h].commit = job[t].commit /\ [k EXCEPT !.hear = h].look = job[t].look
            /\ [k EXCEPT !.hear = h].merged = job[t].merged /\ [k EXCEPT !.hear = h].rest = job[t].rest
            /\ [k EXCEPT !.hear = h].hear = h
        BY <3>5, <4>1 DEF Job
      <4>3. QED BY <4>2 DEF h
    <3>7. JobGood(j)
      <4> HIDE DEF j
      <4>1. QED BY <1>1, <3>2, <3>3, <3>6 DEF JobGood
    <3>8. QED BY <3>6, <3>7
  <2> HIDE DEF j
  <2>5. PICK i \in {job[t], j} : /\ job' = [job EXCEPT ![t] = i] /\ i \in Job /\ JobGood(i)
                                 /\ i.commit = job[t].commit /\ i.op = op /\ i.look = job[t].look
    <3>1. CASE UNCHANGED job
      BY <1>1, <3>1
    <3>2. CASE p # NoProc /\ job' = [job EXCEPT ![t] = j]
      <4> HIDE DEF p
      <4>1. QED BY <2>4, <3>2
    <3>3. QED BY <2>1, <2>3, <3>1, <3>2
  <2> HIDE DEF l, p
  <2>6. Works(t, l, i)
    BY <1>1, <2>1, <2>2, <2>5 DEF Works, Fits, Goto
  <2>7. CASE l = "done"
    BY <2>1, <2>6, <2>7, UnmarkedKeeps
  <2>8. CASE l = "commit"
    <3>1. Marked(t) /\ ~Waits(t)
      BY <2>1, <2>2, <2>8 DEF Marked, Waits
    <3>2. QED BY <2>1, <2>5, <2>6, <2>8, <3>1, UnmarkedKeeps
  <2>9. QED BY <2>2, <2>7, <2>8
<1>4. ASSUME NEW l, NEW j, Works(t, l, j), WaitInv', task' = task
      PROVE  WorkersKept
  <2>1. pc' \in [Workers -> Places] /\ job' \in [Workers -> Job] /\ Jobs'
    BY <1>4, WorksKeeps
  <2>2. QED BY <1>4, <2>1 DEF WorkersKept, JobsOK, TaskGood
<1>5. CASE Commit(t)
  <2> DEFINE j == [job[t] EXCEPT !.held = Sent]
             l == IF Sent # {} THEN "wait" ELSE "done"
  <2>1. pc[t] = "commit" /\ Goto(t, l) /\ task' = task /\ EventKept /\ job' = [job EXCEPT ![t] = j]
    BY <1>5 DEF Commit, EventKept, Signals
  <2>2. Sent \in SUBSET Procs
    BY DEF Sent
  <2>3. /\ j \in Job /\ j.op = job[t].op /\ j.p = job[t].p /\ j.hear = job[t].hear
        /\ j.commit = job[t].commit /\ j.held = Sent /\ j.look = job[t].look
        /\ j.merged = job[t].merged /\ j.rest = job[t].rest
    BY <1>1, <2>2 DEF Job
  <2> HIDE DEF j
  <2>4. JobGood(j)
    BY <1>1, <2>3, SameKind
  <2>5. l \in {"wait", "done"}
    OBVIOUS
  <2> HIDE DEF l
  <2>6. Works(t, l, j)
    BY <1>1, <2>1, <2>3, <2>4, <2>5 DEF Works, Fits, Goto
  <2>7. Marked(t) /\ ~Waits(t)
    BY <2>1 DEF Marked, Waits
  <2>8. j.look # "seen" /\ (allNotified' => j.look = "early")
    BY <2>1, <2>3, <2>7 DEF WaitInv, EventKept
  <2>9. \A p \in j.held : Awaited(p)'
    BY <2>2, <2>3 DEF NoneForgotten, Awaited, Sent
  <2>10. WaitInv'
    BY <2>1, <2>6, <2>8, <2>9, WaitMoves
  <2>11. QED BY <1>4, <2>1, <2>6, <2>10
<1>6. CASE TimesOut(t)
  <2>1. pc[t] = "wait" /\ ~allNotified' /\ Goto(t, "wait2") /\ UNCHANGED <<job, task>> /\ EventKept
    BY <1>6 DEF TimesOut, EventKept, Signals
  <2>2. Fits(t, "wait2", job[t])
    BY <1>1, <2>1 DEF Fits
  <2>3. Works(t, "wait2", job[t])
    BY <2>1, <2>2, SameJob
  <2>4. \A p \in job[t].held : p \in Procs /\ Awaited(p)
    BY <1>1, <2>1 DEF WaitInv, Waits, Job
  <2>5. \A p \in job[t].held : Awaited(p)' /\ (~proc[p].alive => ~proc'[p].alive)
    BY <2>4 DEF NoneForgotten
  <2>6. Signals' /\ job[t].look = "seen" => \A p \in job[t].held : ~proc'[p].alive
    BY <2>1, <2>5 DEF WaitInv, Waits, EventKept, Signals, AllEnded
  <2>7. WaitInv'
    BY <2>1, <2>3, <2>5, <2>6, WaitMoves
  <2>8. QED BY <1>4, <2>1, <2>3, <2>7
<1>7. CASE Woken(t)
  <2>1. Waits(t) /\ Goto(t, "done") /\ UNCHANGED <<job, task>> /\ EventKept
    BY <1>7 DEF Woken, EventKept, Signals, Waits
  <2>2. Fits(t, "done", job[t])
    BY <1>1, <2>1 DEF Fits, Waits
  <2>3. QED BY <2>1, <2>2, SameJob, UnmarkedKeeps
<1>8. CASE Done(t)
  BY <1>8, DoneWorks
<1>9. CASE Again(t)
  <2> DEFINE d == DoOn("launch", job[t].p)
             j == [d EXCEPT !.fake = TRUE]
  <2>1. pc[t] = "again" /\ EventKept /\ job[t].p \in Programs /\ t # "main"
    BY <1>1, <1>9 DEF Again, EventKept, Signals, Fits
  <2>2. /\ d \in Job /\ d.op = "launch" /\ d.p = job[t].p /\ ~d.hear /\ d.merged = {} /\ d.rest = {}
    <3>1. "launch" \in Ops /\ job[t].p \in Procs \cup {NoProc}
      BY <2>1 DEF Ops, Procs, Needy
    <3>2. QED BY <3>1, NewJobs
  <2> HIDE DEF d
  <2>3. j \in Job /\ j.op = "launch" /\ j.p = job[t].p /\ ~j.hear /\ j.merged = {} /\ j.rest = {}
    BY <2>2 DEF Job
  <2>4. CASE Finish(t)
    BY <2>1, <2>4, Finished, UnmarkedKeeps
  <2>5. CASE job' = [job EXCEPT ![t] = j] /\ Goto(t, "check") /\ task' = task
    <3> HIDE DEF j
    <3>1. Works(t, "check", j)
      BY <2>1, <2>3, <2>5, NewJobs DEF Works, Fits, JobGood, Goto
    <3>2. QED BY <2>1, <2>5, <3>1, UnmarkedKeeps
  <2>6. QED BY <1>9, <2>4, <2>5 DEF Again, d
<1>10. QED
  BY <1>2, <1>3, <1>5, <1>6, <1>7, <1>8, <1>9 DEF Terminating


\* TaskRunner_RunTask.
LEMMA PostKeeps ==
    ASSUME JobsOK, Jobs, TaskGood, WaitInv, NoneForgotten, EventKept,
           NEW j \in Job, JobGood(j), j.look = "no", Post(j)
    PROVE  WorkersKept
<1>1. Works("main", "post", j) /\ task' = task /\ "main" \in Workers
  BY DEF Post, Goto, Works, Fits, Places, LaunchPlaces, Loading, Workers
<1>2. QED BY <1>1, UnmarkedKeeps

\* The task runner takes its task, main is handed it; a worker clears the event before
\* it tells processes to end.
LEMMA HandOverWorks ==
    ASSUME JobsOK, Jobs, TaskGood, WaitInv, NoneForgotten, UNCHANGED mon,
           TerminateApplication \/ Posted \/ Take
    PROVE  WorkersKept
<1> USE DEF Places, LaunchPlaces, Loading
<1>1. "main" \in Workers /\ "runner" \in Workers /\ job \in [Workers -> Job]
  BY DEF Workers, JobsOK
<1>2. ASSUME NEW t \in Workers, NEW l, NEW j, Works(t, l, j), WaitInv', task' \in Job, TaskGood'
      PROVE  WorkersKept
  <2>1. pc' \in [Workers -> Places] /\ job' \in [Workers -> Job] /\ Jobs'
    BY <1>2, WorksKeeps
  <2>2. QED BY <1>2, <2>1 DEF WorkersKept, JobsOK
<1>3. CASE TerminateApplication
  <2> DEFINE j == DoOn("app", NoProc)
  <2>1. /\ ~allNotified' /\ Goto("main", "send") /\ job' = [job EXCEPT !["main"] = j]
        /\ task' = task
    BY <1>3 DEF TerminateApplication, Mark
  <2>2. /\ j \in Job /\ j.op = "app" /\ j.p = NoProc /\ ~j.hear /\ j.look = "no"
        /\ j.merged = {} /\ j.rest = {}
    <3>1. "app" \in Ops
      BY DEF Ops
    <3>2. QED BY <3>1, NewJobs
  <2> HIDE DEF j
  <2>3. JobGood(j)
    BY <2>2, NewJobs DEF JobGood
  <2>4. Works("main", "send", j)
    BY <2>1, <2>2, <2>3 DEF Works, Fits, Goto
  <2>5. EventKept
    BY <2>1 DEF EventKept, Signals
  <2>6. QED BY <1>1, <2>1, <2>2, <2>4, <2>5, UnmarkedKeeps
<1>4. CASE Posted
  <2>1. /\ pc["main"] = "post" /\ Goto("main", "idle") /\ job' = [job EXCEPT !["main"] = NoJob]
        /\ task' = job["main"] /\ EventKept
    BY <1>4 DEF Posted, EventKept, Signals
  <2>2. Works("main", "idle", NoJob)
    BY <2>1, NewJobs DEF Works, Fits, Goto
  <2>3. WaitInv'
    BY <1>1, <2>1, <2>2, UnmarkedMoves
  <2>4. task' \in Job /\ TaskGood'
    BY <1>1, <2>1 DEF TaskGood, Jobs, JobGood, Fits
  <2>5. QED BY <1>1, <1>2, <2>2, <2>3, <2>4
<1>5. CASE Take
  <2> DEFINE l == CASE task.op = "launch" -> "check"
                    [] task.op = "reboot" -> "list"
                    [] OTHER -> "send"
  <2>1. /\ Goto("runner", l) /\ job' = [job EXCEPT !["runner"] = task]
        /\ IF task.op # "launch" /\ task.commit THEN Mark("runner") ELSE UNCHANGED eventVars
        /\ task' = NoJob /\ task \in Job /\ JobGood(task) /\ task.look = "no"
    BY <1>5 DEF Take, JobsOK, TaskGood
  <2>2. /\ l \in {"check", "list", "send"}
        /\ l = "check" <=> task.op = "launch"
        /\ l = "list" <=> task.op = "reboot"
    OBVIOUS
  <2> HIDE DEF l
  <2>3. Works("runner", l, task)
    BY <2>1, <2>2 DEF Works, Fits, Goto
  <2>4. task' \in Job /\ TaskGood'
    BY <2>1, NewJobs DEF TaskGood, JobGood
  <2>5. EventKept /\ (task.op # "launch" /\ task.commit => ~allNotified')
    BY <2>1 DEF EventKept, Signals, Mark
  <2>6. \/ l \notin {"list", "ros", "kips", "commit"} /\ (l = "send" => ~task.commit)
        \/ ~allNotified' /\ task.look = "no"
    BY <2>1, <2>2, <2>5 DEF JobGood
  <2>7. WaitInv'
    BY <1>1, <2>2, <2>3, <2>5, <2>6, UnmarkedMoves
  <2>8. QED BY <1>1, <1>2, <2>3, <2>4, <2>7
<1>6. QED BY <1>3, <1>4, <1>5

\* The other commands, and the end of a process.
LEMMA CommandWorks ==
    ASSUME JobsOK, MonOK, Jobs, TaskGood, WaitInv, NoneForgotten,
           Command \/ ClearAuto \/ (\E p \in Procs : Ends(p))
    PROVE  WorkersKept
<1>1. Programs \subseteq Procs /\ "main" \in Workers
  BY DEF Procs, Needy, Workers
<1> DEFINE New(j, op, p) ==
      /\ j \in Job /\ j.op = op /\ j.p = p /\ j.commit /\ ~j.hear /\ j.look = "no"
      /\ j.merged = {} /\ j.rest = {}
<1>2. \A op \in Ops, p \in Procs \cup {NoProc} : New(DoOn(op, p), op, p)
  BY NewJobs
<1> HIDE DEF New
<1>3. \A j, op, p : New(j, op, p) =>
         /\ j \in Job /\ j.look = "no"
         /\ (op = "launch" => p \in Programs) /\ (op = "chain" => p = NoProc) => JobGood(j)
  BY NewJobs DEF New, JobGood
<1>4. {"launch", "title", "reboot", "chain"} \subseteq Ops
  BY DEF Ops
<1>5. CASE TerminateApplication
  <2>1. UNCHANGED mon
    BY <1>5 DEF TerminateApplication
  <2>2. QED BY <1>5, <2>1, HandOverWorks
<1>6. CASE ChainloadHomebrewDirty
  <2>1. EventKept /\ Post(DoOn("chain", NoProc))
    BY <1>6 DEF ChainloadHomebrewDirty, EventKept, Signals
  <2>2. DoOn("chain", NoProc) \in Job /\ JobGood(DoOn("chain", NoProc)) /\ DoOn("chain", NoProc).look = "no"
    BY <1>2, <1>3, <1>4
  <2>3. QED BY <2>1, <2>2, PostKeeps
<1>7. CASE LaunchFirm
  <2>1. EventKept /\ Post(DoOn("reboot", NoProc))
    BY <1>7 DEF LaunchFirm, EventKept, Signals
  <2>2. DoOn("reboot", NoProc) \in Job /\ JobGood(DoOn("reboot", NoProc)) /\ DoOn("reboot", NoProc).look = "no"
    BY <1>2, <1>3, <1>4
  <2>3. QED BY <2>1, <2>2, PostKeeps
<1>8. ASSUME NEW c \in Programs, PrepareForReboot(c) PROVE WorkersKept
  <2>1. EventKept /\ Post(DoOn("reboot", c))
    BY <1>8 DEF PrepareForReboot, EventKept, Signals
  <2>2. DoOn("reboot", c) \in Job /\ JobGood(DoOn("reboot", c)) /\ DoOn("reboot", c).look = "no"
    BY <1>1, <1>2, <1>3, <1>4
  <2>3. QED BY <2>1, <2>2, PostKeeps
<1>9. ASSUME NEW p \in Programs, TerminateProcessOrTitle(p) PROVE WorkersKept
  <2>1. EventKept
    BY <1>9 DEF TerminateProcessOrTitle, EventKept, Signals
  <2>2. CASE UNCHANGED <<workVars, task>>
    BY <2>1, <2>2, StayKeeps
  <2>3. ASSUME NEW wait \in BOOLEAN, Post([DoOn("title", p) EXCEPT !.commit = wait])
        PROVE  WorkersKept
    <3> DEFINE d == DoOn("title", p)
               j == [d EXCEPT !.commit = wait]
    <3>1. New(d, "title", p)
      BY <1>1, <1>2, <1>4
    <3>2. Post(j)
      BY <2>3
    <3> HIDE DEF d
    <3>3. /\ j \in Job /\ j.op = "title" /\ ~j.hear /\ j.look = "no"
          /\ j.merged = {} /\ j.rest = {}
      BY <3>1 DEF Job, New
    <3> HIDE DEF j
    <3>4. JobGood(j)
      BY <3>3, NewJobs DEF JobGood
    <3>5. QED BY <2>1, <3>2, <3>3, <3>4, PostKeeps
  <2>4. QED BY <1>9, <2>2, <2>3 DEF TerminateProcessOrTitle
<1>10. ASSUME NEW p \in Procs, LaunchTitle(p) PROVE WorkersKept
  <2> DEFINE d == DoOn("launch", p)
             f == [NoJob EXCEPT !.op = "found", !.p = p]
  <2>1. EventKept
    BY <1>10 DEF LaunchTitle, EventKept, Signals
  <2>2. New(d, "launch", p)
    BY <1>2, <1>4
  <2>3. f \in Job /\ JobGood(f) /\ f.op = "found"
    BY NewJobs
  <2>4. \/ Goto("main", "clear") /\ job' = [job EXCEPT !["main"] = f] /\ task' = task
        \/ p \in Programs /\ Post(d)
        \/ /\ p \in Applets /\ Goto("main", "check")
           /\ job' = [job EXCEPT !["main"] = d] /\ task' = task
    BY <1>10 DEF LaunchTitle, Programs
  <2> HIDE DEF d, f
  <2>5. CASE Goto("main", "clear") /\ job' = [job EXCEPT !["main"] = f] /\ task' = task
    <3>1. Works("main", "clear", f)
      BY <2>3, <2>5 DEF Works, Fits, Goto, Places, LaunchPlaces, Loading
    <3>2. QED BY <1>1, <2>1, <2>5, <3>1, UnmarkedKeeps
  <2>6. CASE p \in Programs /\ Post(d)
    <3>1. d \in Job /\ JobGood(d) /\ d.look = "no"
      BY <1>3, <2>2, <2>6
    <3>2. QED BY <2>1, <2>6, <3>1, PostKeeps
  <2>7. CASE /\ p \in Applets /\ Goto("main", "check")
             /\ job' = [job EXCEPT !["main"] = d] /\ task' = task
    <3>1. d \in Job /\ JobGood(d) /\ d.op = "launch" /\ d.p = p
      BY <1>3, <2>2, <2>7 DEF New, Programs
    <3>2. Works("main", "check", d)
      BY <2>7, <3>1 DEF Works, Fits, Goto, Places, LaunchPlaces, Loading
    <3>3. QED BY <1>1, <2>1, <2>7, <3>2, UnmarkedKeeps
  <2>8. QED BY <2>4, <2>5, <2>6, <2>7
<1>11. CASE ClearAuto
  <2>1. EventKept /\ Finish("main")
    BY <1>11 DEF ClearAuto, EventKept, Signals
  <2>2. QED BY <1>1, <2>1, Finished, UnmarkedKeeps
<1>12. ASSUME NEW p \in Procs, UnregisterProcess(p) PROVE WorkersKept
  <2>1. UNCHANGED <<workVars, task, allNotified>>
    BY <1>12 DEF UnregisterProcess
  <2>2. mon' = mon \/ mon'.pc = "scan" \/ (mon'.pc = mon.pc /\ mon'.sent = mon.sent)
    BY <1>12 DEF UnregisterProcess, MonOK, Mon
  <2>3. EventKept
    BY <2>1, <2>2 DEF EventKept, Signals
  <2>4. QED BY <2>1, <2>3, StayKeeps
<1>13. ASSUME NEW p \in Procs, Ends(p) PROVE WorkersKept
  <2>1. EventKept /\ UNCHANGED <<workVars, task>>
    BY <1>13 DEF Ends, EventKept, Signals
  <2>2. QED BY <2>1, StayKeeps
<1>14. QED
  BY <1>5, <1>6, <1>7, <1>8, <1>9, <1>10, <1>11, <1>12, <1>13 DEF Command

\* The monitor notes for the workers what it has read, or that it signals.
LEMMA LookWorks ==
    ASSUME JobsOK, Jobs, TaskGood, UNCHANGED <<pc, task>>, NEW S, NEW look \in {"seen", "early"},
           \A t \in S : pc[t] # "post",
           job' = [t \in Workers |-> IF t \in S THEN [job[t] EXCEPT !.look = look] ELSE job[t]]
    PROVE  /\ JobsOK' /\ Jobs' /\ TaskGood'
           /\ \A t \in Workers : /\ job'[t].held = job[t].held /\ job'[t].commit = job[t].commit
                                 /\ job'[t].look = (IF t \in S THEN look ELSE job[t].look)
                                 /\ (Marked(t)' <=> Marked(t))
<1>1. ASSUME NEW t \in Workers
      PROVE  /\ job'[t] \in Job /\ job'[t].op = job[t].op /\ job'[t].p = job[t].p
             /\ job'[t].hear = job[t].hear /\ job'[t].commit = job[t].commit
             /\ job'[t].held = job[t].held /\ job'[t].merged = job[t].merged
             /\ job'[t].rest = job[t].rest /\ job'[t].dep = job[t].dep
             /\ job'[t].look = (IF t \in S THEN look ELSE job[t].look)
  <2> DEFINE j == [job[t] EXCEPT !.look = look]
  <2>1. job[t] \in Job
    BY DEF JobsOK
  <2>2. /\ j \in Job /\ j.op = job[t].op /\ j.p = job[t].p /\ j.hear = job[t].hear
        /\ j.commit = job[t].commit /\ j.held = job[t].held /\ j.merged = job[t].merged
        /\ j.rest = job[t].rest /\ j.dep = job[t].dep /\ j.look = look
    BY <2>1 DEF Job
  <2>3. job'[t] = IF t \in S THEN j ELSE job[t]
    OBVIOUS
  <2> HIDE DEF j
  <2>4. QED BY <2>1, <2>2, <2>3
<1>2. job' \in [Workers -> Job]
  BY <1>1
<1>3. ASSUME NEW t \in Workers
      PROVE  JobGood(job'[t]) /\ Fits(t, pc[t], job'[t])
  <2>1. JobGood(job[t]) /\ Fits(t, pc[t], job[t])
    BY DEF Jobs
  <2>2. JobGood(job'[t])
    BY <1>1, <2>1 DEF JobGood
  <2>3. Fits(t, pc[t], job'[t])
    BY <1>1, <2>1 DEF Fits
  <2>4. QED BY <2>2, <2>3
<1>4. Jobs'
  BY <1>3 DEF Jobs, JobGood, Fits
<1>5. TaskGood' /\ JobsOK'
  BY <1>2 DEF TaskGood, JobGood, JobsOK
<1>6. \A t \in Workers : Marked(t)' <=> Marked(t)
  BY <1>1 DEF Marked
<1>7. QED BY <1>1, <1>4, <1>5, <1>6

\* The monitor reads the list: it will signal only if none is left that was told to end.
LEMMA ScanWorks ==
    ASSUME MonOK, JobsOK, Jobs, TaskGood, WaitInv, NoneForgotten, Scan
    PROVE  WorkersKept
<1> DEFINE S == {t \in Workers : Waits(t) /\ job[t].look = "no"}
<1>1. /\ UNCHANGED <<proc, pc, task>> /\ allNotified' = allNotified
      /\ job' = [t \in Workers |-> IF t \in S THEN [job[t] EXCEPT !.look = "seen"] ELSE job[t]]
      /\ mon'.sent = (Sent # {})
  <2>1. /\ UNCHANGED <<proc, pc, task>> /\ allNotified' = allNotified /\ job' = Seen
    BY DEF Scan
  <2>2. mon'.sent = (Sent # {})
    <3>1. mon' = [mon EXCEPT !.pc = "decide", !.sent = (Sent # {}),
                             !.snap = {p \in Listed : proc[p].status # "terminated"}]
      BY DEF Scan
    <3>2. QED BY <3>1 DEF MonOK, Mon
  <2>3. Seen = [t \in Workers |-> IF t \in S THEN [job[t] EXCEPT !.look = "seen"] ELSE job[t]]
    BY DEF Seen, Waits
  <2>4. QED BY <2>1, <2>2, <2>3
<1>2. \A t \in S : pc[t] # "post"
  BY DEF Waits
<1>3. /\ JobsOK' /\ Jobs' /\ TaskGood'
      /\ \A t \in Workers : /\ job'[t].held = job[t].held
                            /\ job'[t].look = (IF t \in S THEN "seen" ELSE job[t].look)
                            /\ (Marked(t)' <=> Marked(t))
  <2> HIDE DEF S
  <2>1. QED BY <1>1, <1>2, LookWorks
<1>4. ASSUME NEW u \in Workers
      PROVE  /\ Waits(u) => \A p \in job[u].held : Awaited(p)
             /\ Marked(u) /\ job'[u].look = "seen" => Waits(u)
             /\ Sent = {} /\ Waits(u) => AllEnded(job[u].held)
             /\ allNotified /\ Marked(u) /\ job'[u].look # "early"
                  => job'[u].look = "seen" /\ AllEnded(job[u].held)
  <2>1. Waits(u) => \A p \in job[u].held : Awaited(p)
    BY DEF WaitInv
  <2>2. job[u].held \subseteq Procs
    BY DEF JobsOK, Job
  <2>3. Sent = {} /\ Waits(u) => AllEnded(job[u].held)
    BY <2>1, <2>2 DEF Awaited, AllEnded, Sent
  <2>4. Waits(u) => Marked(u)
    BY DEF Waits, Marked
  <2>5. Marked(u) /\ job'[u].look = "seen" => Waits(u)
    BY <1>3 DEF WaitInv
  <2>6. allNotified /\ Marked(u) /\ job'[u].look # "early"
                  => job'[u].look = "seen" /\ AllEnded(job[u].held)
    BY <1>3, <2>4 DEF WaitInv
  <2>7. QED BY <2>1, <2>3, <2>5, <2>6
<1>5. \A u \in Workers : (Waits(u)' <=> Waits(u)) /\ (\A p \in Procs : Awaited(p)' <=> Awaited(p))
  BY <1>1 DEF Waits, Awaited
<1>6. \A u \in Workers : job[u].held \subseteq Procs
  BY DEF JobsOK, Job
<1>7. WaitInv'
  <2> HIDE DEF S
  <2>1. \A u \in Workers : Waits(u)' => \A p \in job'[u].held : Awaited(p)'
    BY <1>3, <1>4, <1>5, <1>6
  <2>2. \A u \in Workers : Marked(u)' /\ job'[u].look = "seen" => Waits(u)'
    BY <1>3, <1>4, <1>5
  <2>3. \A u \in Workers : mon'.pc = "decide" /\ ~mon'.sent /\ Waits(u)' /\ job'[u].look = "seen"
                              => \A p \in job'[u].held : ~proc'[p].alive
    BY <1>1, <1>3, <1>4, <1>5 DEF AllEnded
  <2>4. \A u \in Workers : allNotified' /\ Marked(u)' /\ job'[u].look # "early"
                              => job'[u].look = "seen" /\ \A p \in job'[u].held : ~proc'[p].alive
    BY <1>1, <1>3, <1>4 DEF AllEnded
  <2>5. QED BY <2>1, <2>2, <2>3, <2>4 DEF WaitInv, AllEnded
<1>8. QED BY <1>3, <1>7 DEF WorkersKept

\* The monitor signals the event, too early for the workers for which it has not read the
\* list since they began to wait.
LEMMA DecideWorks ==
    ASSUME MonOK, JobsOK, Jobs, TaskGood, WaitInv, NoneForgotten, Decide
    PROVE  WorkersKept
<1> DEFINE signals == waiting /\ ~mon.sent
           S == {t \in Workers : signals /\ Marked(t) /\ job[t].look = "no"}
<1>1. /\ UNCHANGED <<proc, pc, task>> /\ mon.pc = "decide"
      /\ allNotified' => allNotified \/ signals
      /\ job' = [t \in Workers |-> IF t \in S THEN [job[t] EXCEPT !.look = "early"] ELSE job[t]]
  BY DEF Decide
<1>2. mon'.pc = "wait"
  BY DEF Decide, MonOK, Mon
<1>3. \A t \in S : pc[t] # "post"
  BY DEF Marked
<1>4. /\ JobsOK' /\ Jobs' /\ TaskGood'
      /\ \A t \in Workers : /\ job'[t].held = job[t].held
                            /\ job'[t].look = (IF t \in S THEN "early" ELSE job[t].look)
                            /\ (Marked(t)' <=> Marked(t))
  <2> HIDE DEF S
  <2>1. QED BY <1>1, <1>3, LookWorks
<1>5. \A u \in Workers : (Waits(u)' <=> Waits(u)) /\ (\A p \in Procs : Awaited(p)' <=> Awaited(p))
  BY <1>1 DEF Waits, Awaited
<1>6. \A u \in Workers : job[u].held \subseteq Procs
  BY DEF JobsOK, Job
<1>7. ASSUME NEW u \in Workers, allNotified', Marked(u), job'[u].look # "early"
      PROVE  job[u].look = "seen" /\ AllEnded(job[u].held)
  <2>1. job[u].look # "early" /\ u \notin S
    BY <1>4, <1>7
  <2>2. CASE allNotified
    BY <1>7, <2>1, <2>2 DEF WaitInv
  <2>3. CASE signals
    <3>1. job[u].look \in {"no", "seen", "early"}
      BY DEF JobsOK, Job
    <3>2. job[u].look = "seen"
      BY <1>7, <2>1, <2>3, <3>1
    <3>3. QED BY <1>1, <1>7, <2>3, <3>2 DEF WaitInv
  <2>4. QED BY <1>1, <1>7, <2>2, <2>3
<1>8. WaitInv'
  <2>1. \A u \in Workers : Waits(u)' => \A p \in job'[u].held : Awaited(p)'
    BY <1>4, <1>5, <1>6 DEF WaitInv
  <2>2. \A u \in Workers : Marked(u)' /\ job'[u].look = "seen" => Waits(u)'
    BY <1>4, <1>5 DEF WaitInv
  <2>3. \A u \in Workers : allNotified' /\ Marked(u)' /\ job'[u].look # "early"
                              => job'[u].look = "seen" /\ \A p \in job'[u].held : ~proc'[p].alive
    <3> HIDE DEF S
    <3>1. QED BY <1>1, <1>4, <1>7 DEF AllEnded
  <2>4. QED BY <1>2, <2>1, <2>2, <2>3 DEF WaitInv, AllEnded
<1>9. QED BY <1>4, <1>8 DEF WorkersKept

\* Nobody waits any more for the process that is marked.
LEMMA MarkTerminatedWorks ==
    ASSUME MonOK, JobsOK, Jobs, TaskGood, WaitInv, MarkTerminated, ForgottenBut({mon.cur})
    PROVE  WorkersKept
<1>1. /\ UNCHANGED <<waiting, allNotified, pc, task>>
      /\ job' = [t \in Workers |-> [job[t] EXCEPT !.held = @ \ {mon.cur}]]
  BY DEF MarkTerminated
<1>2. ASSUME NEW t \in Workers
      PROVE  /\ job'[t] \in Job /\ job'[t].op = job[t].op /\ job'[t].p = job[t].p
             /\ job'[t].hear = job[t].hear /\ job'[t].commit = job[t].commit
             /\ job'[t].merged = job[t].merged /\ job'[t].rest = job[t].rest
             /\ job'[t].dep = job[t].dep /\ job'[t].look = job[t].look
             /\ job'[t].held = job[t].held \ {mon.cur} /\ job[t].held \subseteq Procs
  <2> DEFINE j == [job[t] EXCEPT !.held = @ \ {mon.cur}]
  <2>1. job[t] \in Job
    BY DEF JobsOK
  <2>2. job[t].held \ {mon.cur} \in SUBSET Procs
    BY <2>1 DEF Job
  <2>3. /\ j \in Job /\ j.op = job[t].op /\ j.p = job[t].p /\ j.hear = job[t].hear
        /\ j.commit = job[t].commit /\ j.merged = job[t].merged /\ j.rest = job[t].rest
        /\ j.dep = job[t].dep /\ j.look = job[t].look /\ j.held = job[t].held \ {mon.cur}
    BY <2>1, <2>2 DEF Job
  <2>4. job'[t] = j
    BY <1>1
  <2> HIDE DEF j
  <2>5. job[t].held \subseteq Procs
    BY <2>1 DEF Job
  <2>6. QED BY <2>3, <2>4, <2>5
<1>3. job' \in [Workers -> Job]
  BY <1>1, <1>2
<1>4. ASSUME NEW t \in Workers
      PROVE  JobGood(job'[t]) /\ Fits(t, pc[t], job'[t])
  <2>1. JobGood(job[t]) /\ Fits(t, pc[t], job[t])
    BY DEF Jobs
  <2>2. JobGood(job'[t])
    BY <1>2, <2>1 DEF JobGood
  <2>3. Fits(t, pc[t], job'[t])
    BY <1>2, <2>1 DEF Fits
  <2>4. QED BY <2>2, <2>3
<1>5. Jobs' /\ TaskGood'
  BY <1>1, <1>4 DEF Jobs, JobGood, Fits, TaskGood
<1>6. \A u \in Workers : (Marked(u)' <=> Marked(u)) /\ (Waits(u)' <=> Waits(u))
  BY <1>1, <1>2 DEF Marked, Waits
<1>7. \A u \in Workers : Waits(u)' => \A p \in job'[u].held : Awaited(p)'
  BY <1>2, <1>6 DEF WaitInv, ForgottenBut
<1>8. ASSUME NEW u \in Workers, AllEnded(job[u].held), Waits(u)
      PROVE  \A p \in job'[u].held : ~proc'[p].alive
  BY <1>2, <1>8 DEF WaitInv, ForgottenBut, AllEnded
<1>9. mon'.pc # "decide"
  BY DEF MarkTerminated, MonOK, Mon
<1>10. \A u \in Workers : Marked(u)' /\ job'[u].look = "seen" => Waits(u)'
  BY <1>2, <1>6 DEF WaitInv
<1>11. \A u \in Workers : allNotified' /\ Marked(u)' /\ job'[u].look # "early"
                            => job'[u].look = "seen" /\ \A p \in job'[u].held : ~proc'[p].alive
  BY <1>1, <1>2, <1>6, <1>8 DEF WaitInv
<1>12. WaitInv'
  BY <1>7, <1>9, <1>10, <1>11 DEF WaitInv, AllEnded
<1>13. QED BY <1>1, <1>3, <1>5, <1>12 DEF WorkersKept, JobsOK

\* The monitor.
LEMMA MonitoringWorks ==
    ASSUME MonOK, JobsOK, Jobs, TaskGood, WaitInv, Monitoring,
           ForgottenBut(IF MarkTerminated THEN {mon.cur} ELSE {})
    PROVE  WorkersKept
<1>1. CASE MarkTerminated
  BY <1>1, MarkTerminatedWorks
<1>2. CASE ~MarkTerminated
  <2>1. NoneForgotten
    BY <1>2 DEF NoneForgotten, ForgottenBut
  <2>2. CASE Decide
    BY <2>1, <2>2, DecideWorks
  <2>3. CASE Scan
    BY <2>1, <2>3, ScanWorks
  <2>4. CASE WaitNew \/ CleanDeps \/ CleanRegs \/ Clean \/ (\E p \in Procs : WaitEnded(p))
    <3>1. UNCHANGED <<workVars, task, allNotified>> /\ mon'.pc # "decide"
      <4>1. CASE WaitNew
        BY <4>1 DEF WaitNew, MonOK, Mon
      <4>2. CASE CleanDeps
        BY <4>2 DEF CleanDeps, MonOK, Mon
      <4>3. CASE CleanRegs
        BY <4>3 DEF CleanRegs, MonOK, Mon
      <4>4. CASE Clean
        BY <4>4 DEF Clean, MonOK, Mon
      <4>5. ASSUME NEW p \in Procs, WaitEnded(p)
            PROVE  UNCHANGED <<workVars, task, allNotified>> /\ mon'.pc # "decide"
        BY <4>5 DEF WaitEnded, MonOK, Mon
      <4>6. QED BY <2>4, <4>1, <4>2, <4>3, <4>4, <4>5
    <3>2. EventKept
      BY <3>1 DEF EventKept, Signals
    <3>3. QED BY <2>1, <3>1, <3>2, StayKeeps
  <2>5. QED BY <1>2, <2>2, <2>3, <2>4 DEF Monitoring
<1>3. QED BY <1>1, <1>2

-----------------------------------------------------------------------------
(* The lock, the flags, the bounds and the history.                        *)

\* Who may hold the lock, and the sets that grow by processes and oddities; a bound is
\* respected.
OneMore(n, m, bound) == m = n \/ (n < bound /\ m = n + 1)
SetsMove ==
    /\ owner' \in {owner} \cup Workers \cup {Monitor, Nobody}
    /\ OneMore(debt, debt', MaxDebt) /\ OneMore(launches, launches', MaxLaunches)
    /\ clients' = clients
    /\ told' \subseteq told \cup Procs
    /\ odd' \subseteq odd \cup Oddities
FlagsOK == {waiting, allNotified, newProcess, reboot, ready} \subseteq BOOLEAN

\* RestOK follows from them.
LEMMA RestKeeps ==
    ASSUME RestOK, SetsMove, FlagsOK', runningApp' \in Apps \cup {NoProc}
    PROVE  RestOK'
<1>1. Apps \subseteq Procs
  BY DEF Procs, Needy, Programs
<1>2. owner' \in Workers \cup {Monitor, Nobody} /\ clients' \in Commands
  BY DEF RestOK, SetsMove
<1>3. told' \subseteq Procs /\ odd' \subseteq Oddities
  BY DEF RestOK, SetsMove
<1>4. debt' \in 0..MaxDebt /\ launches' \in 0..MaxLaunches
  BY BoundsAssumption DEF RestOK, SetsMove, OneMore
<1>5. QED BY <1>1, <1>2, <1>3, <1>4 DEF RestOK, FlagsOK

\* The steps of a launch.
LEMMA LaunchRest ==
    ASSUME RestOK, NEW t \in Workers, Launching(t)
    PROVE  SetsMove /\ FlagsOK'
<1> USE DEF OneMore, Oddities, Workers
<1>0. {waiting, allNotified, newProcess, reboot, ready} \subseteq BOOLEAN
  BY DEF RestOK
<1>1. CASE Check(t)
  <2>1. SetsMove
    BY <1>1 DEF Check, Section, Finish, SetsMove
  <2>2. FlagsOK'
    BY <1>0, <1>1 DEF Check, Section, Finish, FlagsOK
  <2>3. QED BY <2>1, <2>2
<1>2. CASE LoadRefused(t)
  <2>1. SetsMove
    BY <1>2 DEF LoadRefused, Finish, SetsMove
  <2>2. FlagsOK'
    BY <1>0, <1>2 DEF LoadRefused, Finish, FlagsOK
  <2>3. QED BY <2>1, <2>2
<1>3. CASE Load(t)
  <2>1. SetsMove
    BY <1>3 DEF Load, Section, SetsMove
  <2>2. FlagsOK'
    BY <1>0, <1>3 DEF Load, Section, FlagsOK
  <2>3. QED BY <2>1, <2>2
<1>4. CASE Register(t)
  <2>1. SetsMove
    BY <1>4 DEF Register, SetsMove
  <2>2. FlagsOK'
    BY <1>0, <1>4 DEF Register, FlagsOK
  <2>3. QED BY <2>1, <2>2
<1>5. CASE CountDeps(t)
  <2>1. SetsMove
    BY <1>5 DEF CountDeps, Merge, Section, SetsMove
  <2>2. FlagsOK'
    BY <1>0, <1>5 DEF CountDeps, Merge, Section, FlagsOK
  <2>3. QED BY <2>1, <2>2
<1>6. CASE OwnDeps(t)
  <2>1. SetsMove
    BY <1>6 DEF OwnDeps, SetsMove
  <2>2. FlagsOK'
    BY <1>0, <1>6 DEF OwnDeps, FlagsOK
  <2>3. QED BY <2>1, <2>2
<1>7. CASE RegisterDep(t)
  <2>1. SetsMove
    BY <1>7 DEF RegisterDep, SetsMove
  <2>2. FlagsOK'
    BY <1>0, <1>7 DEF RegisterDep, FlagsOK
  <2>3. QED BY <2>1, <2>2
<1>8. CASE RunDep(t)
  <2>1. SetsMove
    BY <1>8 DEF RunDep, Section, SetsMove
  <2>2. FlagsOK'
    BY <1>0, <1>8 DEF RunDep, Section, FlagsOK
  <2>3. QED BY <2>1, <2>2
<1>9. CASE FlagDep(t)
  <2>1. SetsMove
    BY <1>9 DEF FlagDep, SetsMove
  <2>2. FlagsOK'
    BY <1>0, <1>9 DEF FlagDep, FlagsOK
  <2>3. QED BY <2>1, <2>2
<1>10. CASE IncrefDep(t)
  <2>1. SetsMove
    BY <1>10 DEF IncrefDep, SetsMove
  <2>2. FlagsOK'
    BY <1>0, <1>10 DEF IncrefDep, FlagsOK
  <2>3. QED BY <2>1, <2>2
<1>11. CASE MergeDep(t)
  <2>1. SetsMove
    BY <1>11 DEF MergeDep, Merge, Section, SetsMove
  <2>2. FlagsOK'
    BY <1>0, <1>11 DEF MergeDep, Merge, Section, FlagsOK
  <2>3. QED BY <2>1, <2>2
<1>12. CASE DepsDone(t)
  <2>1. SetsMove
    BY <1>12 DEF DepsDone, SetsMove
  <2>2. FlagsOK'
    BY <1>0, <1>12 DEF DepsDone, FlagsOK
  <2>3. QED BY <2>1, <2>2
<1>13. CASE Run(t)
  <2>1. SetsMove
    BY <1>13 DEF Run, Section, Finish, SetsMove
  <2>2. FlagsOK'
    BY <1>0, <1>13 DEF Run, Section, Finish, FlagsOK
  <2>3. QED BY <2>1, <2>2
<1>14. CASE Fail(t)
  <2>1. SetsMove
    BY <1>14 DEF Fail, Finish, SetsMove
  <2>2. FlagsOK'
    BY <1>0, <1>14 DEF Fail, Finish, FlagsOK
  <2>3. QED BY <2>1, <2>2
<1>15. CASE DepFails(t)
  <2>1. SetsMove
    BY <1>15 DEF DepFails, SetsMove
  <2>2. FlagsOK'
    BY <1>0, <1>15 DEF DepFails, FlagsOK
  <2>3. QED BY <2>1, <2>2
<1>16. ASSUME NEW d \in Deps, LoadDep(t, d) PROVE SetsMove /\ FlagsOK'
  <2>1. SetsMove
    BY <1>16 DEF LoadDep, Section, SetsMove
  <2>2. FlagsOK'
    BY <1>0, <1>16 DEF LoadDep, Section, FlagsOK
  <2>3. QED BY <2>1, <2>2
<1>17. ASSUME NEW d \in Deps, DepRaced(t, d) PROVE SetsMove /\ FlagsOK'
  <2>1. SetsMove
    BY <1>17 DEF DepRaced, SetsMove
  <2>2. FlagsOK'
    BY <1>0, <1>17 DEF DepRaced, FlagsOK
  <2>3. QED BY <2>1, <2>2
<1>18. ASSUME NEW d \in Deps, DepRefused(t, d) PROVE SetsMove /\ FlagsOK'
  <2>1. SetsMove
    BY <1>18 DEF DepRefused, SetsMove
  <2>2. FlagsOK'
    BY <1>0, <1>18 DEF DepRefused, FlagsOK
  <2>3. QED BY <2>1, <2>2
<1>19. QED
  BY <1>1, <1>2, <1>3, <1>4, <1>5, <1>6, <1>7, <1>8, <1>9, <1>10, <1>11, <1>12, <1>13, <1>14, <1>15, <1>16, <1>17, <1>18
     DEF Launching

\* The steps of a termination.
LEMMA TerminationRest ==
    ASSUME RestOK, Jobs, NEW t \in Workers, Terminating(t)
    PROVE  SetsMove /\ FlagsOK'
<1> USE DEF OneMore, Oddities, Workers
<1>0. {waiting, allNotified, newProcess, reboot, ready} \subseteq BOOLEAN
  BY DEF RestOK
<1>1. CASE Send(t)
  <2>1. SetsMove
    BY <1>1 DEF Send, Section, SetsMove
  <2>2. FlagsOK'
    BY <1>0, <1>1 DEF Send, Section, FlagsOK
  <2>3. QED BY <2>1, <2>2
<1>2. CASE AskRosalina(t)
  <2>1. SetsMove
    BY <1>2 DEF AskRosalina, SetsMove
  <2>2. FlagsOK'
    BY <1>0, <1>2 DEF AskRosalina, FlagsOK
  <2>3. QED BY <2>1, <2>2
<1>3. CASE SendAll(t)
  <2>1. SetsMove
    BY <1>3 DEF SendAll, SetsMove
  <2>2. FlagsOK'
    BY <1>0, <1>3 DEF SendAll, FlagsOK
  <2>3. QED BY <2>1, <2>2
<1>4. CASE SendKips(t)
  <2>1. SetsMove
    BY <1>4 DEF SendKips, Section, SetsMove
  <2>2. FlagsOK'
    BY <1>0, <1>4 DEF SendKips, Section, FlagsOK
  <2>3. QED BY <2>1, <2>2
<1>5. CASE Commit(t)
  <2>1. SetsMove
    BY <1>5 DEF Commit, Section, SetsMove
  <2>2. FlagsOK'
    BY <1>0, <1>5 DEF Commit, Section, FlagsOK
  <2>3. QED BY <2>1, <2>2
<1>6. CASE Woken(t)
  <2>1. SetsMove
    BY <1>6 DEF Woken, SetsMove
  <2>2. FlagsOK'
    BY <1>0, <1>6 DEF Woken, FlagsOK
  <2>3. QED BY <2>1, <2>2
<1>7. CASE TimesOut(t)
  <2>1. SetsMove
    BY <1>7 DEF TimesOut, Section, SetsMove
  <2>2. FlagsOK'
    BY <1>0, <1>7 DEF TimesOut, Section, FlagsOK
  <2>3. QED BY <2>1, <2>2
<1>8. CASE Done(t)
  <2>1. SetsMove
    BY <1>8 DEF Done, Finish, Jobs, JobGood, SetsMove
  <2>2. FlagsOK'
    BY <1>0, <1>8 DEF Done, Finish, Jobs, JobGood, FlagsOK
  <2>3. QED BY <2>1, <2>2
<1>9. CASE Again(t)
  <2>1. SetsMove
    BY <1>9 DEF Again, Section, Finish, SetsMove
  <2>2. FlagsOK'
    BY <1>0, <1>9 DEF Again, Section, Finish, FlagsOK
  <2>3. QED BY <2>1, <2>2
<1>10. QED
  BY <1>1, <1>2, <1>3, <1>4, <1>5, <1>6, <1>7, <1>8, <1>9
     DEF Terminating

\* The steps of the monitor.
LEMMA MonitorRest ==
    ASSUME RestOK, MonInv, Monitoring
    PROVE  SetsMove /\ FlagsOK'
<1> USE DEF OneMore, Oddities, Workers
<1>0. {waiting, allNotified, newProcess, reboot, ready} \subseteq BOOLEAN
  BY DEF RestOK
<1>1. CASE Scan
  <2>1. SetsMove
    BY <1>1 DEF Scan, Section, SetsMove
  <2>2. FlagsOK'
    BY <1>0, <1>1 DEF Scan, Section, FlagsOK
  <2>3. QED BY <2>1, <2>2
<1>2. CASE Decide
  <2>1. SetsMove
    BY <1>2 DEF Decide, SetsMove
  <2>2. FlagsOK'
    BY <1>0, <1>2 DEF Decide, FlagsOK
  <2>3. QED BY <2>1, <2>2
<1>3. CASE WaitNew
  <2>1. SetsMove
    BY <1>3 DEF WaitNew, SetsMove
  <2>2. FlagsOK'
    BY <1>0, <1>3 DEF WaitNew, FlagsOK
  <2>3. QED BY <2>1, <2>2
<1>4. CASE MarkTerminated
  <2>1. SetsMove
    BY <1>4 DEF MarkTerminated, Section, SetsMove
  <2>2. FlagsOK'
    BY <1>0, <1>4 DEF MarkTerminated, Section, FlagsOK
  <2>3. QED BY <2>1, <2>2
<1>5. CASE CleanDeps
  <2>1. SetsMove
    BY <1>5 DEF CleanDeps, Section, SetsMove
  <2>2. FlagsOK'
    BY <1>0, <1>5 DEF CleanDeps, Section, FlagsOK
  <2>3. QED BY <2>1, <2>2
<1>6. CASE CleanRegs
  <2>1. SetsMove
    BY <1>6 DEF CleanRegs, SetsMove
  <2>2. FlagsOK'
    BY <1>0, <1>6 DEF CleanRegs, FlagsOK
  <2>3. QED BY <2>1, <2>2
<1>7. CASE Clean
  <2>1. SetsMove
    BY <1>7 DEF Clean, Section, MonInv, SetsMove
  <2>2. FlagsOK'
    BY <1>0, <1>7 DEF Clean, Section, MonInv, FlagsOK
  <2>3. QED BY <2>1, <2>2
<1>8. ASSUME NEW p \in Procs, WaitEnded(p) PROVE SetsMove /\ FlagsOK'
  <2>1. SetsMove
    BY <1>8 DEF WaitEnded, SetsMove
  <2>2. FlagsOK'
    BY <1>0, <1>8 DEF WaitEnded, FlagsOK
  <2>3. QED BY <2>1, <2>2
<1>9. QED
  BY <1>1, <1>2, <1>3, <1>4, <1>5, <1>6, <1>7, <1>8
     DEF Monitoring

\* The commands, the hand-over to the task runner, and the end of a process.
LEMMA CommandRest ==
    ASSUME RestOK, Command \/ ClearAuto \/ Posted \/ Take \/ (\E p \in Procs : Ends(p))
    PROVE  SetsMove /\ FlagsOK'
<1> USE DEF OneMore, Oddities, Workers
<1>0. {waiting, allNotified, newProcess, reboot, ready} \subseteq BOOLEAN
  BY DEF RestOK
<1>1. CASE TerminateApplication
  <2>1. SetsMove
    BY <1>1 DEF TerminateApplication, Mark, SetsMove
  <2>2. FlagsOK'
    BY <1>0, <1>1 DEF TerminateApplication, Mark, FlagsOK
  <2>3. QED BY <2>1, <2>2
<1>2. CASE ChainloadHomebrewDirty
  <2>1. SetsMove
    BY <1>2 DEF ChainloadHomebrewDirty, Section, Post, SetsMove
  <2>2. FlagsOK'
    BY <1>0, <1>2 DEF ChainloadHomebrewDirty, Section, Post, FlagsOK
  <2>3. QED BY <2>1, <2>2
<1>3. CASE LaunchFirm
  <2>1. SetsMove
    BY <1>3 DEF LaunchFirm, Post, SetsMove
  <2>2. FlagsOK'
    BY <1>0, <1>3 DEF LaunchFirm, Post, FlagsOK
  <2>3. QED BY <2>1, <2>2
<1>4. CASE ClearAuto
  <2>1. SetsMove
    BY <1>4 DEF ClearAuto, Finish, SetsMove
  <2>2. FlagsOK'
    BY <1>0, <1>4 DEF ClearAuto, Finish, FlagsOK
  <2>3. QED BY <2>1, <2>2
<1>5. CASE Posted
  <2>1. SetsMove
    BY <1>5 DEF Posted, SetsMove
  <2>2. FlagsOK'
    BY <1>0, <1>5 DEF Posted, FlagsOK
  <2>3. QED BY <2>1, <2>2
<1>6. CASE Take
  <2>1. SetsMove
    BY <1>6 DEF Take, Mark, SetsMove
  <2>2. FlagsOK'
    BY <1>0, <1>6 DEF Take, Mark, FlagsOK
  <2>3. QED BY <2>1, <2>2
<1>7. ASSUME NEW p \in Procs, LaunchTitle(p) PROVE SetsMove /\ FlagsOK'
  <2>1. SetsMove
    BY <1>7 DEF LaunchTitle, Section, Post, SetsMove
  <2>2. FlagsOK'
    BY <1>0, <1>7 DEF LaunchTitle, Section, Post, FlagsOK
  <2>3. QED BY <2>1, <2>2
<1>8. ASSUME NEW p \in Procs, UnregisterProcess(p) PROVE SetsMove /\ FlagsOK'
  <2>1. SetsMove
    BY <1>8 DEF UnregisterProcess, Section, SetsMove
  <2>2. FlagsOK'
    BY <1>0, <1>8 DEF UnregisterProcess, Section, FlagsOK
  <2>3. QED BY <2>1, <2>2
<1>9. ASSUME NEW p \in Programs, TerminateProcessOrTitle(p) PROVE SetsMove /\ FlagsOK'
  <2>1. SetsMove
    BY <1>9 DEF TerminateProcessOrTitle, Section, Post, SetsMove
  <2>2. FlagsOK'
    BY <1>0, <1>9 DEF TerminateProcessOrTitle, Section, Post, FlagsOK
  <2>3. QED BY <2>1, <2>2
<1>10. ASSUME NEW c \in Programs, PrepareForReboot(c) PROVE SetsMove /\ FlagsOK'
  <2>1. SetsMove
    BY <1>10 DEF PrepareForReboot, Post, SetsMove
  <2>2. FlagsOK'
    BY <1>0, <1>10 DEF PrepareForReboot, Post, FlagsOK
  <2>3. QED BY <2>1, <2>2
<1>11. ASSUME NEW p \in Procs, Ends(p) PROVE SetsMove /\ FlagsOK'
  <2>1. SetsMove
    BY <1>11 DEF Ends, SetsMove
  <2>2. FlagsOK'
    BY <1>0, <1>11 DEF Ends, FlagsOK
  <2>3. QED BY <2>1, <2>2
<1>12. QED
  BY <1>1, <1>2, <1>3, <1>4, <1>5, <1>6, <1>7, <1>8, <1>9, <1>10, <1>11
     DEF Command

-----------------------------------------------------------------------------
(* The running application.                                                *)

\* An application that has not ended was there before, or is now being launched.
LEMMA NoOtherApp ==
    ASSUME JobsOK, Jobs, AppsKept
    PROVE  \A p \in Apps : proc'[p].alive => proc[p].alive \/ InLaunch(p)'
<1> SUFFICES ASSUME NEW p \in Apps, proc'[p].alive, ~proc[p].alive PROVE InLaunch(p)'
  OBVIOUS
<1>1. PICK t \in Workers : Load(t) /\ p = job[t].p
  BY DEF AppsKept
<1>2. t # "main"
  BY <1>1, NeedsAssumption DEF Load, Jobs, Fits, LaunchPlaces
<1>3. t = "runner" /\ pc'["runner"] = "reg" /\ job' = job
  BY <1>1, <1>2 DEF Workers, Load, Goto, JobsOK
<1>4. QED BY <1>1, <1>3 DEF InLaunch, LaunchPlaces, Loading

\* What a step may do to the running application and to the launch of one.
LEMMA AppMoves ==
    ASSUME JobsOK, Jobs, AppsKept, AppInv,
           \/ runningApp' = runningApp
           \/ runningApp' = NoProc /\ (runningApp \in Apps => ~proc[runningApp].alive),
           \A p \in Apps : InLaunch(p) /\ proc'[p].alive => InLaunch(p)',
           /\ pc'["runner"] \in LaunchPlaces \ {"check"} /\ job'["runner"].p \in Apps
              => runningApp = NoProc
    PROVE  AppInv'
<1>1. \A p \in Apps : proc'[p].alive => runningApp' = p \/ InLaunch(p)'
  BY NoOtherApp DEF AppInv
<1>2. QED BY <1>1 DEF AppInv

\* The task runner stays where it is.
LEMMA RunnerStays ==
    ASSUME JobsOK, Jobs, AppsKept, AppInv,
           \/ runningApp' = runningApp
           \/ runningApp' = NoProc /\ (runningApp \in Apps => ~proc[runningApp].alive),
           pc'["runner"] = pc["runner"], job'["runner"].p = job["runner"].p
    PROVE  AppInv'
<1>1. \A p \in Apps : InLaunch(p) => InLaunch(p)'
  BY DEF InLaunch
<1>2. QED BY <1>1, AppMoves DEF AppInv

\* In a launch, the other worker stays where it is, and the steps between the listing of a
\* program and its end leave the running application alone.
LEMMA LaunchMoves ==
    ASSUME JobsOK, NEW t \in Workers, Launching(t)
    PROVE  /\ pc[t] \in LaunchPlaces
           /\ \A u \in Workers \ {t} : pc'[u] = pc[u] /\ job'[u] = job[u]
           /\ \/ /\ UNCHANGED runningApp /\ job'[t].p = job[t].p
                 /\ {pc[t], pc'[t]} \subseteq LaunchPlaces \ {"check", "load"}
              \/ Check(t) \/ LoadRefused(t) \/ Load(t) \/ Run(t) \/ Fail(t)
<1> USE DEF LaunchPlaces, Loading
<1>1. pc \in [Workers -> Places] /\ job \in [Workers -> Job] /\ job[t] \in Job
  BY DEF JobsOK
<1>2. CASE Check(t)
  BY <1>1, <1>2 DEF Check, Finish, Goto
<1>3. CASE LoadRefused(t) \/ Run(t) \/ Fail(t)
  BY <1>1, <1>3 DEF LoadRefused, Run, Fail, Finish, Goto
<1>4. CASE Load(t)
  BY <1>1, <1>4 DEF Load, Goto
<1>5. CASE Register(t) \/ OwnDeps(t) \/ RegisterDep(t) \/ FlagDep(t) \/ IncrefDep(t) \/ DepsDone(t)
  BY <1>1, <1>5 DEF Register, OwnDeps, RegisterDep, FlagDep, IncrefDep, DepsDone, Goto
<1>6. CASE RunDep(t) \/ DepFails(t)
  BY <1>1, <1>6 DEF RunDep, DepFails, Goto
<1>7. ASSUME NEW x, Merge(t, x), NEW l \in {"own", "dep"}, Goto(t, l), pc[t] \in {"deps", "merge"}
      PROVE  /\ UNCHANGED runningApp /\ job'[t].p = job[t].p
             /\ {pc[t], pc'[t]} \subseteq LaunchPlaces \ {"check", "load"}
             /\ \A u \in Workers \ {t} : pc'[u] = pc[u] /\ job'[u] = job[u]
  <2> DEFINE known == UNION {Needs[y] : y \in job[t].merged}
             new == Needs[x] \ (known \cup Listed)
  <2>1. /\ UNCHANGED runningApp
        /\ job' = [job EXCEPT ![t].merged = @ \cup {x}, ![t].dep = NoProc, ![t].missing = @ \cup new,
                              ![t].rest = IF job[t].fake THEN {} ELSE @ \cup new]
    BY <1>7 DEF Merge
  <2> HIDE DEF new
  <2>2. job'[t].p = job[t].p /\ \A u \in Workers \ {t} : job'[u] = job[u]
    BY <1>1, <2>1 DEF Job
  <2>3. QED BY <1>1, <1>7, <2>1, <2>2 DEF Goto
<1>8. CASE CountDeps(t)
  BY <1>7, <1>8 DEF CountDeps
<1>9. CASE MergeDep(t)
  BY <1>7, <1>9 DEF MergeDep
<1>10. ASSUME NEW d \in Deps, LoadDep(t, d) \/ DepRaced(t, d) \/ DepRefused(t, d)
       PROVE  /\ UNCHANGED runningApp /\ job'[t].p = job[t].p
              /\ {pc[t], pc'[t]} \subseteq LaunchPlaces \ {"check", "load"}
              /\ \A u \in Workers \ {t} : pc'[u] = pc[u] /\ job'[u] = job[u]
  BY <1>1, <1>10 DEF LoadDep, DepRaced, DepRefused, Goto, Job
<1>11. QED
  BY <1>2, <1>3, <1>4, <1>5, <1>6, <1>8, <1>9, <1>10 DEF Launching

\* A launch begins only when no application runs, and its program is the running one when
\* it ends.
LEMMA LaunchApp ==
    ASSUME ProcOK, JobsOK, Jobs, runningApp \in Apps \cup {NoProc}, AppsKept, AppInv,
           NEW t \in Workers, Launching(t)
    PROVE  AppInv' /\ runningApp' \in Apps \cup {NoProc}
<1>1. pc \in [Workers -> Places] /\ pc[t] \in LaunchPlaces /\ job[t] \in Job /\ job \in [Workers -> Job]
  BY LaunchMoves DEF JobsOK
<1>2. CASE t = "main"
  <2>1. job[t].p \notin Apps
    BY <1>1, <1>2, NeedsAssumption DEF Jobs, Fits
  <2>2. pc'["runner"] = pc["runner"] /\ job'["runner"] = job["runner"]
    BY <1>2, LaunchMoves DEF Workers
  <2>3. runningApp' = runningApp
    BY <2>1, LaunchMoves DEF Check, LoadRefused, Load, Run, Fail
  <2>4. QED BY <2>2, <2>3, RunnerStays
<1>3. CASE t = "runner"
  <2>1. CASE Check(t)
    <3>1. /\ runningApp' = runningApp /\ pc[t] = "check"
          /\ \/ pc'[t] = "idle"
             \/ job' = job /\ ~(job[t].p \in Apps /\ runningApp # NoProc)
      BY <1>1, <2>1 DEF Check, Finish, Goto
    <3>2. \A p \in Apps : ~InLaunch(p)
      BY <1>3, <3>1 DEF InLaunch
    <3>3. pc'["runner"] \in LaunchPlaces \ {"check"} /\ job'["runner"].p \in Apps => runningApp = NoProc
      BY <1>3, <3>1 DEF LaunchPlaces, Loading
    <3>4. QED BY <3>1, <3>2, <3>3, AppMoves
  <2>2. CASE LoadRefused(t)
    <3>1. runningApp' = runningApp /\ pc[t] = "load" /\ pc'[t] = "idle"
      BY <1>1, <2>2 DEF LoadRefused, Finish, Goto
    <3>2. \A p \in Apps : ~InLaunch(p)
      BY <1>3, <3>1 DEF InLaunch
    <3>3. QED BY <1>3, <3>1, <3>2, AppMoves DEF LaunchPlaces, Loading
  <2>3. CASE Load(t)
    <3>1. runningApp' = runningApp /\ pc[t] = "load" /\ job' = job
      BY <2>3 DEF Load
    <3>2. \A p \in Apps : ~InLaunch(p)
      BY <1>3, <3>1 DEF InLaunch
    <3>3. job["runner"].p \in Apps => runningApp = NoProc
      BY <1>1, <1>3, <3>1 DEF AppInv
    <3>4. QED BY <1>3, <3>1, <3>2, <3>3, AppMoves
  <2>4. CASE Run(t)
    <3> DEFINE p == job[t].p
    <3>1. /\ pc[t] = "run" /\ pc'[t] = "idle"
          /\ runningApp' = (IF proc[p].alive /\ p \in Apps THEN p ELSE runningApp)
      BY <1>1, <2>4 DEF Run, Finish, Goto
    <3>2. p \in Apps => runningApp = NoProc
      BY <1>1, <1>3, <3>1 DEF AppInv
    <3>3. ASSUME NEW q \in Apps, proc'[q].alive PROVE runningApp' = q
      <4>1. ~InLaunch(q)'
        BY <1>3, <3>1 DEF InLaunch, LaunchPlaces, Loading
      <4>2. proc[q].alive
        BY <3>3, <4>1, NoOtherApp
      <4>3. runningApp = q \/ p = q
        BY <1>3, <4>2 DEF AppInv, InLaunch
      <4>4. NoProc \notin Apps
        BY NeedsAssumption DEF Procs, Needy, Programs
      <4>5. QED BY <3>1, <3>2, <3>3, <4>2, <4>3, <4>4
    <3>4. AppInv'
      BY <1>3, <3>1, <3>3 DEF AppInv, LaunchPlaces, Loading
    <3>5. QED BY <3>1, <3>4
  <2>5. CASE Fail(t)
    <3>1. /\ runningApp' = runningApp /\ pc'[t] = "idle" /\ proc' = [proc EXCEPT ![job[t].p].alive = FALSE]
      BY <1>1, <2>5 DEF Fail, Finish, Goto
    <3>2. ASSUME NEW p \in Apps, InLaunch(p) PROVE ~proc'[p].alive
      <4>1. p \in Procs /\ p = job[t].p
        BY <1>3, <3>2 DEF InLaunch, Procs, Needy, Programs
      <4>2. QED BY <3>1, <4>1 DEF ProcOK, Process
    <3>3. QED BY <1>3, <3>1, <3>2, AppMoves DEF LaunchPlaces, Loading
  <2>6. CASE /\ UNCHANGED runningApp /\ job'[t].p = job[t].p
             /\ {pc[t], pc'[t]} \subseteq LaunchPlaces \ {"check", "load"}
    <3>1. \A p \in Apps : InLaunch(p) => InLaunch(p)'
      BY <1>3, <2>6 DEF InLaunch
    <3>2. job'["runner"].p \in Apps => runningApp = NoProc
      BY <1>3, <2>6 DEF AppInv
    <3>3. QED BY <2>6, <3>1, <3>2, AppMoves
  <2>7. QED BY <2>1, <2>2, <2>3, <2>4, <2>5, <2>6, LaunchMoves
<1>4. QED BY <1>2, <1>3 DEF Workers

\* In a termination no launch begins, nor goes on; the same for the other worker.
LEMMA TerminationApp ==
    ASSUME JobsOK, Jobs, runningApp \in Apps \cup {NoProc}, AppsKept, AppInv,
           NEW t \in Workers, Terminating(t)
    PROVE  AppInv' /\ runningApp' \in Apps \cup {NoProc}
<1>1. pc \in [Workers -> Places] /\ job \in [Workers -> Job] /\ job[t] \in Job
  BY DEF JobsOK
<1>2. /\ pc[t] \in {"send", "list", "ros", "kips", "commit", "wait", "wait2", "done", "again"}
      /\ runningApp' = runningApp
  BY DEF Terminating, Send, AskRosalina, SendAll, SendKips, Commit, Woken, TimesOut, Done, Again
<1>3. /\ pc'[t] \notin LaunchPlaces \ {"check"}
      /\ \A u \in Workers \ {t} : pc'[u] = pc[u] /\ job'[u] = job[u]
  <2> USE DEF LaunchPlaces, Loading, Goto
  <2>1. CASE Send(t)
    BY <1>1, <2>1 DEF Send
  <2>2. CASE AskRosalina(t) \/ SendAll(t) \/ Woken(t) \/ TimesOut(t)
    BY <1>1, <2>2 DEF AskRosalina, SendAll, Woken, TimesOut
  <2>3. CASE SendKips(t) \/ Commit(t)
    BY <1>1, <2>3 DEF SendKips, Commit
  <2>4. CASE Done(t)
    BY <1>1, <2>4 DEF Done, Finish
  <2>5. CASE Again(t)
    BY <1>1, <2>5 DEF Again, Finish
  <2>6. QED BY <2>1, <2>2, <2>3, <2>4, <2>5 DEF Terminating
<1>4. CASE t = "main"
  <2>1. pc'["runner"] = pc["runner"] /\ job'["runner"] = job["runner"]
    BY <1>3, <1>4 DEF Workers
  <2>2. QED BY <1>2, <2>1, RunnerStays
<1>5. CASE t = "runner"
  <2>1. \A p \in Apps : ~InLaunch(p)
    BY <1>2, <1>5 DEF InLaunch, LaunchPlaces, Loading
  <2>2. QED BY <1>2, <1>3, <1>5, <2>1, AppMoves
<1>6. QED BY <1>4, <1>5 DEF Workers

\* The monitor and UnregisterProcess reset it only when the application has ended.
LEMMA OtherApp ==
    ASSUME MonOK, JobsOK, Jobs, runningApp \in Apps \cup {NoProc}, EndedInv, MonInv, AppsKept, AppInv,
           Monitoring \/ Command \/ ClearAuto \/ Posted \/ Take \/ (\E p \in Procs : Ends(p))
    PROVE  AppInv' /\ runningApp' \in Apps \cup {NoProc}
<1>1. /\ pc \in [Workers -> Places] /\ job \in [Workers -> Job] /\ job["runner"] \in Job
      /\ {"main", "runner"} = Workers
  BY DEF JobsOK, Workers
<1>2. ASSUME \/ runningApp' = runningApp
             \/ runningApp' = NoProc /\ (runningApp \in Apps => ~proc[runningApp].alive),
             pc'["runner"] = pc["runner"], job'["runner"].p = job["runner"].p
      PROVE  AppInv' /\ runningApp' \in Apps \cup {NoProc}
  BY <1>2, RunnerStays
<1>3. CASE Monitoring
  <2>1. pc' = pc
    BY <1>3 DEF Monitoring, Scan, Decide, WaitNew, WaitEnded, MarkTerminated, CleanDeps, CleanRegs, Clean
  <2>2. CASE Scan \/ Decide
    <3>1. runningApp' = runningApp /\ (job'["runner"] = job["runner"]
            \/ \E look : job'["runner"] = [job["runner"] EXCEPT !.look = look])
      BY <1>1, <2>2 DEF Scan, Decide, Seen
    <3>2. job'["runner"].p = job["runner"].p
      BY <1>1, <3>1 DEF Job
    <3>3. QED BY <1>2, <2>1, <3>1, <3>2
  <2>3. CASE MarkTerminated
    <3>1. runningApp' = runningApp /\ job'["runner"] = [job["runner"] EXCEPT !.held = @ \ {mon.cur}]
      BY <1>1, <2>3 DEF MarkTerminated
    <3>2. job'["runner"].p = job["runner"].p
      BY <1>1, <3>1 DEF Job
    <3>3. QED BY <1>2, <2>1, <3>1, <3>2
  <2>4. CASE WaitNew \/ CleanDeps \/ CleanRegs \/ \E p \in Procs : WaitEnded(p)
    <3>1. UNCHANGED <<runningApp, job>>
      BY <2>4 DEF WaitNew, CleanDeps, CleanRegs, WaitEnded
    <3>2. QED BY <1>2, <2>1, <3>1
  <2>5. CASE Clean
    <3>1. /\ UNCHANGED job /\ mon.pc = "forget"
          /\ runningApp' = IF runningApp = mon.cur THEN NoProc ELSE runningApp
      BY <2>5 DEF Clean
    <3>2. ~proc[mon.cur].alive
      BY <3>1 DEF MonInv
    <3>3. QED BY <1>2, <2>1, <3>1, <3>2
  <2>6. QED BY <1>3, <2>2, <2>3, <2>4, <2>5 DEF Monitoring
<1>4. ASSUME NEW p \in Procs, UnregisterProcess(p)
      PROVE  AppInv' /\ runningApp' \in Apps \cup {NoProc}
  <2>1. /\ UNCHANGED workVars /\ proc[p].status \in {"absent", "terminated"}
        /\ \/ runningApp' = runningApp
           \/ runningApp = p /\ runningApp' = NoProc
    BY <1>4 DEF UnregisterProcess
  <2>2. ~proc[p].alive
    BY <2>1 DEF EndedInv
  <2>3. QED BY <1>2, <2>1, <2>2
<1>5. CASE Take
  <2>1. /\ runningApp' = runningApp /\ pc["runner"] = "idle"
        /\ pc'["runner"] \in {"check", "list", "send"}
    BY <1>1, <1>5 DEF Take, Goto
  <2>2. \A p \in Apps : ~InLaunch(p)
    BY <2>1 DEF InLaunch, LaunchPlaces, Loading
  <2>3. QED BY <2>1, <2>2, AppMoves DEF LaunchPlaces, Loading
<1>6. CASE Posted \/ ClearAuto \/ TerminateApplication \/ ChainloadHomebrewDirty \/ LaunchFirm
  <2>1. /\ runningApp' = runningApp /\ pc'["runner"] = pc["runner"]
        /\ job'["runner"] = job["runner"]
    BY <1>1, <1>6 DEF Posted, ClearAuto, TerminateApplication, ChainloadHomebrewDirty, LaunchFirm,
                      Post, Finish, Goto
  <2>2. QED BY <1>2, <2>1
<1>7. ASSUME NEW p \in Procs, LaunchTitle(p) \/ (p \in Programs /\ TerminateProcessOrTitle(p))
                              \/ (p \in Programs /\ PrepareForReboot(p)) \/ Ends(p)
      PROVE  AppInv' /\ runningApp' \in Apps \cup {NoProc}
  <2>1. /\ runningApp' = runningApp /\ pc'["runner"] = pc["runner"]
        /\ job'["runner"] = job["runner"]
    <3>1. CASE LaunchTitle(p)
      BY <1>1, <3>1 DEF LaunchTitle, Post, Goto
    <3>2. CASE TerminateProcessOrTitle(p)
      BY <1>1, <3>2 DEF TerminateProcessOrTitle, Post, Goto
    <3>3. CASE PrepareForReboot(p) \/ Ends(p)
      BY <1>1, <3>3 DEF PrepareForReboot, Ends, Post, Goto
    <3>4. QED BY <1>7, <3>1, <3>2, <3>3
  <2>2. QED BY <1>2, <2>1
<1>8. Programs \subseteq Procs
  BY DEF Procs, Needy
<1>9. QED BY <1>3, <1>4, <1>5, <1>6, <1>7, <1>8 DEF Command

-----------------------------------------------------------------------------
(* The invariant is inductive.                                             *)

\* What a step keeps of the list.
LEMMA ListSteps ==
    ASSUME ProcOK, MonOK, JobsOK, RestOK, Jobs, ListInv, Next
    PROVE  ListKept(IF MarkTerminated THEN {mon.cur} ELSE {})
<1>1. CASE MarkTerminated
  BY <1>1, MarkTerminatedKeeps
<1>2. CASE ~MarkTerminated
  <2>1. SUFFICES ListKept({})
    BY <1>2
  <2>2. CASE Monitoring
    <3>1. Scan \/ Decide \/ WaitNew \/ CleanDeps \/ CleanRegs \/ Clean \/ \E p \in Procs : WaitEnded(p)
      BY <1>2, <2>2 DEF Monitoring
    <3>2. QED BY <3>1, MonitorLooks, CleanDepsKeeps, CleanRegsKeeps, CleanKeeps
  <2>3. ASSUME NEW p \in Procs, UnregisterProcess(p) PROVE ListKept({})
    BY <2>3, UnregisterKeeps
  <2>4. CASE /\ Command \/ ClearAuto \/ Posted \/ Take \/ \E p \in Procs : Ends(p)
             /\ \A p \in Procs : ~UnregisterProcess(p)
    BY <2>4, CommandMild, MildKeeps
  <2>5. ASSUME NEW t \in Workers, Launching(t) \/ Terminating(t) PROVE ListKept({})
    BY <2>5, LaunchMild, TerminationMild, MildKeeps
  <2>6. QED BY <2>2, <2>3, <2>4, <2>5 DEF Next
<1>3. QED BY <1>1, <1>2

\* TypeOK is made of its parts.
LEMMA TypeParts == TypeOK <=> ProcOK /\ MonOK /\ JobsOK /\ RestOK
  BY DEF TypeOK, ProcOK, MonOK, JobsOK, RestOK

\* At first there are only the built-in processes, and nobody does anything.
LEMMA InvInit == Init => Inv
<1> SUFFICES ASSUME Init PROVE Inv
  OBVIOUS
<1> USE DEF Init
<1>1. Loaded \in Process /\ Absent \in Process /\ Absent.status = "absent" /\ ~Absent.alive
      /\ Loaded.status = "running"
  BY LoadedEntry
<1>2. Kip \in Process /\ Kip.status = "running" /\ Kip.reg
  <2> DEFINE k == [Loaded EXCEPT !.reg = TRUE]
  <2>1. k \in Process /\ k.status = "running" /\ k.reg
    BY <1>1 DEF Process
  <2>2. Kip = [k EXCEPT !.ran = TRUE]
    BY DEF Kip
  <2> HIDE DEF k
  <2>3. QED BY <2>1, <2>2 DEF Process
<1>3. /\ Kips \subseteq Procs /\ Apps \cap Kips = {} /\ Apps \subseteq Procs
      /\ \A p \in Procs : proc[p] = IF p \in Kips THEN Kip ELSE Absent
  BY NeedsAssumption DEF Procs, Needy, Programs
<1>4. ProcOK
  BY <1>1, <1>2 DEF ProcOK
<1>5. MonOK
  BY DEF MonOK, Mon
<1>6. JobsOK /\ Jobs /\ TaskGood
  BY NewJobs DEF JobsOK, Places, Jobs, Fits, LaunchPlaces, Loading, TaskGood
<1>7. RestOK
  <2>1. 0 \in 0..MaxDebt /\ 0 \in 0..MaxLaunches
    BY BoundsAssumption
  <2>2. debt \in 0..MaxDebt /\ launches \in 0..MaxLaunches
    BY <2>1
  <2>3. /\ waiting \in BOOLEAN /\ allNotified \in BOOLEAN /\ newProcess \in BOOLEAN
        /\ reboot \in BOOLEAN /\ ready \in BOOLEAN
    OBVIOUS
  <2>4. /\ runningApp \in Procs \cup {NoProc} /\ owner \in Workers \cup {Monitor, Nobody}
        /\ clients \in Commands /\ told \subseteq Procs /\ odd \subseteq Oddities
    OBVIOUS
  <2>5. QED BY <2>2, <2>3, <2>4 DEF RestOK
<1>8. JobInv
  BY <1>6 DEF JobInv
<1>9. EndedInv /\ MonInv
  BY <1>1, <1>2, <1>3 DEF EndedInv, MonInv
<1>10. RegInv
  BY <1>1, <1>2, <1>3 DEF RegInv
<1>11. WaitInv
  <2>1. \A t \in Workers : ~Marked(t) /\ pc[t] = "idle"
    BY DEF Marked
  <2>2. QED BY <2>1 DEF WaitInv, Waits
<1>12. AppInv
  <2>1. pc["runner"] = "idle"
    BY DEF Workers
  <2>2. QED BY <1>1, <1>3, <2>1 DEF AppInv, LaunchPlaces, Loading
<1>13. QED
  BY <1>4, <1>5, <1>7, <1>6, <1>8, <1>9, <1>10, <1>11, <1>12, TypeParts DEF Inv, ListInv

\* Every step keeps the invariant.
LEMMA InvStep == Inv /\ [Next]_vars => Inv'
<1>1. ASSUME Inv, Next PROVE Inv'
  <2>1. /\ ProcOK /\ MonOK /\ JobsOK /\ RestOK /\ ListInv /\ WaitInv /\ AppInv
        /\ Jobs /\ TaskGood /\ runningApp \in Apps \cup {NoProc} /\ MonInv /\ EndedInv
    BY <1>1, TypeParts DEF Inv, ListInv, JobInv
  <2>2. ListKept(IF MarkTerminated THEN {mon.cur} ELSE {})
    BY <1>1, <2>1, ListSteps
  <2>3. ProcOK' /\ MonOK' /\ ListInv' /\ AppsKept
    BY <2>2 DEF ListKept
  <2>4. ForgottenBut(IF MarkTerminated THEN {mon.cur} ELSE {})
    BY <2>2 DEF ListKept
  <2>5. ASSUME ~Monitoring PROVE NoneForgotten
    BY <2>4, <2>5 DEF NoneForgotten, ForgottenBut, Monitoring
  <2>6. WorkersKept /\ SetsMove /\ FlagsOK' /\ AppInv' /\ runningApp' \in Apps \cup {NoProc}
    <3>1. CASE Monitoring
      BY <2>1, <2>3, <2>4, <3>1, MonitoringWorks, MonitorRest, OtherApp
    <3>2. CASE ~Monitoring
      <4>1. ASSUME Command \/ ClearAuto \/ Posted \/ Take \/ \E p \in Procs : Ends(p)
            PROVE  WorkersKept
        <5>1. CASE Posted \/ Take
          <6>1. UNCHANGED mon
            BY <5>1 DEF Posted, Take
          <6>2. QED BY <2>1, <2>5, <3>2, <5>1, <6>1, HandOverWorks
        <5>2. CASE Command \/ ClearAuto \/ \E p \in Procs : Ends(p)
          BY <2>1, <2>5, <3>2, <5>2, CommandWorks
        <5>3. QED BY <4>1, <5>1, <5>2
      <4>2. CASE Command \/ ClearAuto \/ Posted \/ Take \/ \E p \in Procs : Ends(p)
        BY <2>1, <2>3, <4>1, <4>2, CommandRest, OtherApp
      <4>3. ASSUME NEW t \in Workers, Launching(t)
            PROVE  WorkersKept /\ SetsMove /\ FlagsOK' /\ AppInv' /\ runningApp' \in Apps \cup {NoProc}
        BY <2>1, <2>3, <2>5, <3>2, <4>3, LaunchWorks, LaunchRest, LaunchApp
      <4>4. ASSUME NEW t \in Workers, Terminating(t)
            PROVE  WorkersKept /\ SetsMove /\ FlagsOK' /\ AppInv' /\ runningApp' \in Apps \cup {NoProc}
        BY <2>1, <2>3, <2>5, <3>2, <4>4, TerminationWorks, TerminationRest, TerminationApp
      <4>5. QED BY <1>1, <3>2, <4>2, <4>3, <4>4 DEF Next
    <3>3. QED BY <3>1, <3>2
  <2>7. RestOK'
    BY <2>1, <2>6, RestKeeps
  <2>8. TypeOK'
    BY <2>3, <2>6, <2>7 DEF TypeOK, ProcOK, MonOK, JobsOK, RestOK, WorkersKept
  <2>9. JobInv' /\ WaitInv'
    BY <2>6 DEF JobInv, WorkersKept, Jobs, TaskGood, JobGood, Fits
  <2>10. QED BY <2>3, <2>6, <2>8, <2>9 DEF Inv
<1>2. ASSUME Inv, UNCHANGED vars PROVE Inv'
  <2>1. Listed' = Listed /\ \A t \in Workers : (Marked(t)' <=> Marked(t)) /\ (Waits(t)' <=> Waits(t))
    BY <1>2 DEF Listed, Marked, Waits
  <2>2. TypeOK'
    BY <1>2 DEF Inv, TypeOK
  <2>3. ListInv'
    BY <1>2, <2>1 DEF Inv, ListInv, EndedInv, MonInv, RegInv
  <2>4. JobInv'
    BY <1>2 DEF Inv, JobInv, Jobs, TaskGood, JobGood, Fits
  <2>5. WaitInv'
    BY <1>2, <2>1 DEF Inv, WaitInv, Awaited, AllEnded
  <2>6. AppInv'
    BY <1>2 DEF Inv, AppInv, InLaunch
  <2>7. QED BY <2>2, <2>3, <2>4, <2>5, <2>6 DEF Inv
<1>3. QED BY <1>1, <1>2

-----------------------------------------------------------------------------
(* The theorems.                                                           *)

\* In every reachable state the list, the monitor and the workers fit together: an entry
\* that is freed or marked has ended, the monitor works on listed processes, a worker waits
\* for processes that were told to end, and is woken early or when they have ended, and an
\* application is the running one or is being launched while none is.
THEOREM InvHolds == Spec => []Inv
  BY InvInit, InvStep, PTL DEF Spec

\* Every entry, job and count stays in its type; no reference count wraps.
THEOREM TypeCorrect == Spec => []TypeOK
<1>1. Inv => TypeOK
  BY DEF Inv
<1>2. QED BY <1>1, InvHolds, PTL

\* For any set of programs and dependencies, any commands and any failures: an application
\* is launched only when every other has ended, though launchTitleImpl sets
\* runningApplicationData at the end and cleanupProcess resets it in another thread.
THEOREM OneApplicationAtATime == Spec => []OneApplication
<1>1. Inv => OneApplication
  <2> SUFFICES ASSUME Inv, NEW p \in Apps, NEW q \in Apps, proc[p].alive, proc[q].alive
               PROVE  p = q
    BY DEF OneApplication
  <2>1. runningApp = p \/ InLaunch(p)
    BY DEF Inv, AppInv
  <2>2. runningApp = q \/ InLaunch(q)
    BY DEF Inv, AppInv
  <2>3. ASSUME NEW r \in Apps, InLaunch(r) PROVE runningApp \notin Apps
    <3>1. runningApp = NoProc
      BY <2>3 DEF Inv, AppInv, InLaunch
    <3>2. QED BY <3>1, NeedsAssumption DEF Procs, Needy, Programs
  <2>4. QED BY <2>1, <2>2, <2>3 DEF InLaunch
<1>2. QED BY <1>1, InvHolds, PTL

\* When the monitor had read the list since the worker began to wait, before it signalled,
\* commitPendingTerminations returns only after all processes it waits for have ended,
\* whatever the other worker does.
THEOREM CommitReturnsAfterEnd == Spec => CommitWaitsUnlessEarly
<1> DEFINE Ended == \A t \in Workers :
               pc[t] \in {"wait", "wait2"} /\ pc'[t] = "done" /\ job[t].look # "early"
                 => \A p \in job[t].held : ~proc[p].alive
<1>1. ASSUME Inv, Next PROVE Ended
  <2> SUFFICES ASSUME NEW t \in Workers, pc[t] \in {"wait", "wait2"}, pc'[t] = "done",
                      job[t].look # "early"
               PROVE  \A p \in job[t].held : ~proc[p].alive
    OBVIOUS
  <2>1. pc \in [Workers -> Places] /\ JobsOK
    BY <1>1 DEF Inv, TypeOK, JobsOK
  <2>2. Woken(t)
    <3>1. pc'[t] # pc[t]
      OBVIOUS
    <3>2. ASSUME NEW u \in Workers, Launching(u) PROVE FALSE
      <4>1. pc[u] \in LaunchPlaces /\ (u # t => pc'[t] = pc[t])
        BY <2>1, <3>2, LaunchMoves
      <4>2. QED BY <3>1, <4>1 DEF LaunchPlaces, Loading
    <3>3. ~Monitoring /\ ~ClearAuto /\ \A p \in Procs : ~Ends(p)
      <4>1. ~Monitoring /\ \A p \in Procs : ~Ends(p)
        BY <3>1 DEF Monitoring, Scan, Decide, WaitNew, WaitEnded, MarkTerminated, CleanDeps, CleanRegs,
                    Clean, Ends
      <4>2. ~ClearAuto
        BY <2>1 DEF ClearAuto, Finish, Goto
      <4>3. QED BY <4>1, <4>2
    <3>4. ~Posted /\ ~Take
      BY <2>1 DEF Posted, Take, Goto
    <3>5. ~Command
      BY <2>1, <3>1 DEF Command, TerminateApplication, ChainloadHomebrewDirty, LaunchFirm, LaunchTitle,
         UnregisterProcess, TerminateProcessOrTitle, PrepareForReboot, MainIdle, Post, Goto
    <3>6. ASSUME NEW u \in Workers, Terminating(u), ~Woken(u) PROVE FALSE
      <4>1. \/ pc[u] \notin {"wait", "wait2"} /\ \E l \in Places : pc' = [pc EXCEPT ![u] = l]
            \/ pc' = [pc EXCEPT ![u] = "wait2"]
        BY <3>6 DEF Terminating, Send, AskRosalina, SendAll, SendKips, Commit, TimesOut, Done, Again,
                    Finish, Goto, Places
      <4>2. QED BY <2>1, <4>1
    <3>7. ASSUME NEW u \in Workers, Woken(u) PROVE u = t
      BY <2>1, <3>1, <3>7 DEF Woken, Goto
    <3>8. QED BY <1>1, <3>2, <3>3, <3>4, <3>5, <3>6, <3>7 DEF Next
  <2>3. allNotified /\ Marked(t)
    BY <2>2 DEF Woken, Marked
  <2>4. QED BY <1>1, <2>3 DEF Inv, WaitInv, AllEnded
<1>2. ASSUME UNCHANGED vars PROVE Ended
  BY <1>2
<1>3. Inv /\ [Next]_vars => [Ended]_vars
  BY <1>1, <1>2
<1>4. QED BY <1>3, InvHolds, PTL DEF Spec, CommitWaitsUnlessEarly

=============================================================================
