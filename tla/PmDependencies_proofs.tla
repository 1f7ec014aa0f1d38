------------------------ MODULE PmDependencies_proofs -------------------------
(***************************************************************************)
(* For any programs, dependencies, commands and bounds: the count of an    *)
(* autoloaded dependency is the number of programs and dependencies that   *)
(* will release it.  Builds on the invariant of PmProcesses_proofs.        *)
(***************************************************************************)
EXTENDS PmProcesses_proofs

USE DEF listVars, eventVars, lockVars, workVars, taskVars, restVars, vars

-----------------------------------------------------------------------------
(* The invariant.                                                          *)

\* Who launches what: the task runner the applications (main what is not one); only
\* programs are terminated by name; a launch begins with nothing merged.
AppJob(j) == j.op \in {"launch", "chain"} => j.p \in Apps \cup {NoProc}
NamedJob(j) == j.op = "title" => j.p \in Programs
RunnerJob(j) == AppJob(j) /\ NamedJob(j)
Role(t, l, j) ==
    /\ t = "runner" \/ l = "post" => RunnerJob(j) /\ (l = "again" => j.op = "chain")
    /\ l \in {"check", "load", "post"} => j.merged = {}
RolesInv == RunnerJob(task) /\ task.merged = {} /\ \A t \in Workers : Role(t, pc[t], job[t])

\* The task runner has one task at a time, and once a reboot is prepared no launch
\* is left by the time main serves a command again.
HandOverInv ==
    /\ ready \/ pc["runner"] # "idle" => task = NoJob
    /\ ready => pc["runner"] = "idle"
    /\ reboot => /\ pc["main"] \in {"idle", "post"}
                 /\ pc["main"] = "post" => job["main"].op = "reboot"
                 /\ pc["main"] = "idle" => /\ task.op # "launch"
                                           /\ pc["runner"] \notin LaunchPlaces

Up(q) == q.status = "running" /\ q.alive
WithDep == {"dreg", "drun", "flag", "incref", "merge"}
Users(d) == {x \in Holders : d \in Needs[x]}

\* A program that is being launched runs no code yet, and nobody has told it to end; nor
\* those whose needs were merged, which hold what they need and are needed in their turn.
Built(t) ==
    LET p == job[t].p
        M == job[t].merged
    IN  pc[t] \in Loading =>
          /\ Up(proc[p]) /\ ~proc[p].ran
          /\ pc[t] \in {"reg", "deps"} => ~proc[p].deps /\ M = {}
          /\ pc[t] = "own" => M = {p}
          /\ \A x \in M : /\ Up(proc[x]) /\ (pc[t] = "own" \/ Needs[x] = {} \/ proc[x].deps)
                          /\ x = p \/ (x \in Deps /\ \E z \in M : x \in Needs[z])

\* A dependency that is being launched is used by those it is launched for, and by
\* nobody else until its count is right.
Fresh(t) ==
    LET d == job[t].dep
        M == job[t].merged
    IN  pc[t] \in WithDep =>
          /\ Up(proc[d]) /\ d \notin M /\ \E x \in M : d \in Needs[x]
          /\ proc[d].deps <=> pc[t] \in {"incref", "merge"}
          /\ pc[t] \in {"dreg", "drun", "flag"} => ~proc[d].auto
          /\ pc[t] # "merge" => proc[d].ref = 1 /\ Users(d) \subseteq M

\* What a worker launches, or has merged: no other worker launches it.
Reach(t) ==
    IF pc[t] \notin Loading THEN {}
    ELSE job[t].merged \cup (IF pc[t] \in WithDep THEN {job[t].dep} ELSE {})
Apart(t, u) == t # u /\ pc[t] \in WithDep => job[t].dep \notin Reach(u)

\* Nothing has happened that DependencyCount exempts altogether.
Plain == odd \cap {"ended", "miscounted"} = {}

DepsInv ==
    /\ \A t \in Workers : Built(t) /\ Fresh(t)
    /\ \A t, u \in Workers : Apart(t, u)
    /\ IsFiniteSet(Holders)
    /\ DependencyCount

\* The process that the monitor is about to mark has not been marked; what the one it
\* cleans up needed is released once.
MarkInv ==
    /\ \A p \in mon.snap : proc[p].status # "terminated"
    /\ mon.pc = "mark" => proc[mon.cur].status # "terminated"
EndingInv ==
    mon.pc = "deps" /\ mon.cur \in Needy => proc[mon.cur].status \in {"absent", "terminated"}

CountInv == RolesInv /\ HandOverInv /\ MarkInv /\ (Plain => DepsInv /\ EndingInv)

-----------------------------------------------------------------------------
(* Who does what.                                                          *)

\* Worker t, which is neither idle nor posting, goes to l with the job j.
LEMMA RoleMoves ==
    ASSUME JobsOK, RolesInv, HandOverInv, NEW t \in Workers, NEW l, NEW j,
           pc' = [pc EXCEPT ![t] = l], job' = [job EXCEPT ![t] = j], Role(t, l, j),
           UNCHANGED <<task, reboot>>, pc[t] \notin {"idle", "post"}, l # "post",
           ready' => ready \/ (l = "idle" /\ t = "runner"),
           reboot /\ l \in LaunchPlaces => pc[t] \in LaunchPlaces
    PROVE  RolesInv' /\ HandOverInv'
<1>1. /\ pc'[t] = l /\ job'[t] = j
      /\ \A u \in Workers \ {t} : pc'[u] = pc[u] /\ job'[u] = job[u]
  BY DEF JobsOK
<1>2. ASSUME NEW u \in Workers PROVE Role(u, pc'[u], job'[u])
  <2>1. CASE u = t
    BY <1>1, <2>1
  <2>2. CASE u # t
    BY <1>1, <2>2 DEF RolesInv
  <2>3. QED BY <2>1, <2>2
<1>3. RolesInv'
  BY <1>2 DEF RolesInv, Role, RunnerJob, AppJob, NamedJob
<1>4. reboot => t = "runner"
  BY DEF HandOverInv, Workers
<1>5. t # "runner" => pc'["runner"] = pc["runner"]
  BY <1>1 DEF Workers
<1>6. t # "main" => pc'["main"] = pc["main"] /\ job'["main"] = job["main"]
  BY <1>1 DEF Workers
<1>7. t = "runner" => ~ready /\ task = NoJob
  BY DEF HandOverInv
<1>8. HandOverInv'
  <2>1. ready' \/ pc'["runner"] # "idle" => task' = NoJob
    BY <1>1, <1>5, <1>7 DEF HandOverInv
  <2>2. ready' => pc'["runner"] = "idle"
    BY <1>1, <1>5, <1>7 DEF HandOverInv
  <2>3. ASSUME reboot'
        PROVE  /\ pc'["main"] \in {"idle", "post"}
               /\ pc'["main"] = "post" => job'["main"].op = "reboot"
               /\ pc'["main"] = "idle" => /\ task'.op # "launch"
                                         /\ pc'["runner"] \notin LaunchPlaces
    BY <2>3, <1>1, <1>4, <1>6 DEF HandOverInv
  <2>4. QED BY <2>1, <2>2, <2>3 DEF HandOverInv
<1>9. QED BY <1>3, <1>8

\* A worker that goes on with a job of the same kind, or is done.
LEMMA SameRole ==
    ASSUME JobsOK, RolesInv, HandOverInv, NEW t \in Workers, NEW l, NEW j,
           pc' = [pc EXCEPT ![t] = l], job' = [job EXCEPT ![t] = j],
           j.op = job[t].op, j.p = job[t].p,
           UNCHANGED <<task, ready, reboot>>, pc[t] \notin {"idle", "post"},
           l \notin {"post", "again", "check"}, l \in LaunchPlaces => pc[t] \in LaunchPlaces,
           l = "load" => j.merged = {}
    PROVE  RolesInv' /\ HandOverInv'
<1>1. Role(t, l, j)
  BY DEF RolesInv, Role, RunnerJob, AppJob, NamedJob
<1>2. QED BY <1>1, RoleMoves

\* A worker that is done.
LEMMA DoneRole ==
    ASSUME JobsOK, RolesInv, HandOverInv, NEW t \in Workers, Finish(t),
           UNCHANGED reboot, pc[t] \notin {"idle", "post"}
    PROVE  RolesInv' /\ HandOverInv'
<1>1. Role(t, "idle", NoJob)
  BY NewJobs DEF Role, RunnerJob, AppJob, NamedJob
<1>2. pc' = [pc EXCEPT ![t] = "idle"] /\ job' = [job EXCEPT ![t] = NoJob]
  BY DEF Finish, Goto
<1>3. task' = task /\ (ready' => ready \/ t = "runner")
  BY DEF Finish
<1>4. "idle" \notin LaunchPlaces
  BY DEF LaunchPlaces, Loading
<1>5. QED BY <1>1, <1>2, <1>3, <1>4, RoleMoves

\* What the roles say depends on these variables only.
LEMMA SameRoles ==
    ASSUME RolesInv, HandOverInv, UNCHANGED <<pc, task, ready, reboot>>,
           \A t \in Workers : /\ job'[t].op = job[t].op /\ job'[t].p = job[t].p
                               /\ job'[t].merged \subseteq job[t].merged
    PROVE  RolesInv' /\ HandOverInv'
<1>1. \A t \in Workers : Role(t, pc'[t], job'[t])
  BY DEF RolesInv, Role, RunnerJob, AppJob, NamedJob
<1>2. RolesInv'
  BY <1>1 DEF RolesInv, Role, RunnerJob, AppJob, NamedJob
<1>3. HandOverInv'
  BY DEF HandOverInv, Workers
<1>4. QED BY <1>2, <1>3

\* Merging changes none of the rest of a job.
LEMMA MergeJob ==
    ASSUME JobsOK, NEW t \in Workers, NEW x, Merge(t, x)
    PROVE  \E j : /\ job' = [job EXCEPT ![t] = j]
                  /\ j.op = job[t].op /\ j.p = job[t].p /\ j.merged = job[t].merged \cup {x}
<1> DEFINE known == UNION {Needs[y] : y \in job[t].merged}
           new == Needs[x] \ (known \cup Listed)
           rest == IF job[t].fake THEN {} ELSE job[t].rest \cup new
           a == [job[t] EXCEPT !.merged = @ \cup {x}]
           b == [a EXCEPT !.dep = NoProc]
           c == [b EXCEPT !.missing = @ \cup new]
           j == [c EXCEPT !.rest = rest]
<1>1. job[t] \in Job /\ job \in [Workers -> Job]
  BY DEF JobsOK
<1>2. job' = [job EXCEPT ![t] = j]
  <2>1. job' = [job EXCEPT ![t].merged = @ \cup {x}, ![t].dep = NoProc, ![t].missing = @ \cup new,
                           ![t].rest = IF job[t].fake THEN {} ELSE @ \cup new]
    BY DEF Merge
  <2> HIDE DEF new
  <2>2. job' = [job EXCEPT ![t] = [job[t] EXCEPT !.merged = @ \cup {x}, !.dep = NoProc,
                                     !.missing = @ \cup new,
                                     !.rest = IF job[t].fake THEN {} ELSE @ \cup new]]
    BY <1>1, <2>1
  <2>3. j = [job[t] EXCEPT !.merged = @ \cup {x}, !.dep = NoProc, !.missing = @ \cup new,
                           !.rest = IF job[t].fake THEN {} ELSE @ \cup new]
    BY <1>1 DEF Job
  <2> HIDE DEF j
  <2>4. QED BY <2>2, <2>3
<1> HIDE DEF new, rest
<1>3. /\ a.op = job[t].op /\ a.p = job[t].p /\ a.merged = job[t].merged \cup {x}
      /\ DOMAIN a = DOMAIN job[t]
  BY <1>1 DEF Job
<1> HIDE DEF a
<1>4. b.op = a.op /\ b.p = a.p /\ b.merged = a.merged /\ DOMAIN b = DOMAIN job[t]
  BY <1>3
<1> HIDE DEF b
<1>5. c.op = b.op /\ c.p = b.p /\ c.merged = b.merged /\ DOMAIN c = DOMAIN job[t]
  BY <1>4
<1> HIDE DEF c
<1>6. j.op = c.op /\ j.p = c.p /\ j.merged = c.merged
  BY <1>5
<1> HIDE DEF j
<1>7. QED BY <1>2, <1>3, <1>4, <1>5, <1>6

\* A dependency that is taken up, or passed over, leaves the rest of the job.
LEMMA RestJob ==
    ASSUME NEW j \in Job, NEW d
    PROVE  /\ LET i == [j EXCEPT !.rest = @ \ {d}]
              IN  i.op = j.op /\ i.p = j.p /\ i.merged = j.merged /\ i.dep = j.dep
           /\ LET i == [j EXCEPT !.rest = @ \ {d}, !.missing = @ \ {d}, !.dep = d]
              IN  i.op = j.op /\ i.p = j.p /\ i.merged = j.merged /\ i.dep = d
<1> DEFINE a == [j EXCEPT !.rest = @ \ {d}]
           b == [a EXCEPT !.missing = @ \ {d}]
           c == [b EXCEPT !.dep = d]
<1>1. a \in Job /\ a.op = j.op /\ a.p = j.p /\ a.merged = j.merged /\ a.dep = j.dep
  BY DEF Job
<1>2. c = [j EXCEPT !.rest = @ \ {d}, !.missing = @ \ {d}, !.dep = d]
  BY DEF Job
<1> HIDE DEF a
<1>3. b \in Job /\ b.op = j.op /\ b.p = j.p /\ b.merged = j.merged
  BY <1>1 DEF Job
<1> HIDE DEF b
<1>4. c.op = j.op /\ c.p = j.p /\ c.merged = j.merged /\ c.dep = d
  BY <1>3 DEF Job
<1> HIDE DEF c
<1>5. QED BY <1>1, <1>2, <1>4 DEF a

\* A launch goes on with the job it began with.
LEMMA LaunchRoles ==
    ASSUME Inv, RolesInv, HandOverInv, NEW t \in Workers, Launching(t)
    PROVE  RolesInv' /\ HandOverInv'
<1>0. JobsOK /\ job[t] \in Job /\ job = [job EXCEPT ![t] = job[t]]
  BY DEF Inv, TypeOK, JobsOK
<1>1. CASE Check(t)
  <2>1. CASE Finish(t)
    BY <1>0, <1>1, <2>1, DoneRole DEF Check
  <2>2. CASE Goto(t, "load") /\ UNCHANGED <<job, taskVars>>
    <3>1. job' = [job EXCEPT ![t] = job[t]] /\ job[t].merged = {}
      BY <1>0, <1>1, <2>2 DEF Check, RolesInv, Role
    <3>2. pc[t] = "check" /\ UNCHANGED reboot
      BY <1>1 DEF Check
    <3>3. QED BY <1>0, <2>2, <3>1, <3>2, SameRole DEF Goto, LaunchPlaces
  <2>3. QED BY <1>1, <2>1, <2>2 DEF Check
<1>2. CASE LoadRefused(t) \/ Run(t)
  BY <1>0, <1>2, DoneRole DEF LoadRefused, Run
<1>3. CASE Fail(t)
  BY <1>0, <1>3, DoneRole DEF Fail
<1>4. CASE \/ Load(t) \/ Register(t) \/ OwnDeps(t) \/ RegisterDep(t) \/ RunDep(t) \/ FlagDep(t)
           \/ IncrefDep(t) \/ DepsDone(t) \/ DepFails(t)
  <2>1. /\ UNCHANGED <<job, task, ready, reboot>> /\ pc[t] \notin {"idle", "post"}
        /\ pc[t] \in LaunchPlaces
    BY <1>4 DEF Load, Register, OwnDeps, RegisterDep, RunDep, FlagDep, IncrefDep, DepsDone, DepFails,
                LaunchPlaces, Loading
  <2>2. \E l \in LaunchPlaces \ {"check", "load"} : pc' = [pc EXCEPT ![t] = l]
    BY <1>4 DEF Load, Register, OwnDeps, RegisterDep, RunDep, FlagDep, IncrefDep, DepsDone, DepFails,
                LaunchPlaces, Loading, Goto
  <2>3. PICK l \in LaunchPlaces \ {"check", "load"} : pc' = [pc EXCEPT ![t] = l]
    BY <2>2
  <2>4. l \notin {"post", "again", "check", "load"}
    BY DEF LaunchPlaces, Loading
  <2>5. job' = [job EXCEPT ![t] = job[t]]
    BY <1>0, <2>1
  <2>6. QED BY <1>0, <2>1, <2>3, <2>4, <2>5, SameRole
<1>5. CASE CountDeps(t) \/ MergeDep(t)
  <2>1. \E x : Merge(t, x)
    BY <1>5 DEF CountDeps, MergeDep
  <2>2. PICK j : job' = [job EXCEPT ![t] = j] /\ j.op = job[t].op /\ j.p = job[t].p
    BY <1>0, <2>1, MergeJob
  <2>3. PICK l \in {"own", "dep"} : pc' = [pc EXCEPT ![t] = l]
    BY <1>5 DEF CountDeps, MergeDep, Goto
  <2>4. pc[t] \in LaunchPlaces /\ pc[t] \notin {"idle", "post"} /\ UNCHANGED <<task, ready, reboot>>
    BY <1>5 DEF CountDeps, MergeDep, Merge, LaunchPlaces, Loading
  <2>5. QED BY <1>0, <2>2, <2>3, <2>4, SameRole
<1>6. ASSUME NEW d \in Deps, LoadDep(t, d) PROVE RolesInv' /\ HandOverInv'
  <2> DEFINE j == [job[t] EXCEPT !.rest = @ \ {d}, !.missing = @ \ {d}, !.dep = d]
  <2>1. job' = [job EXCEPT ![t].rest = @ \ {d}, ![t].missing = @ \ {d}, ![t].dep = d]
    BY <1>6 DEF LoadDep
  <2>2. job' = [job EXCEPT ![t] = j]
    BY <1>0, <2>1
  <2>3. j.op = job[t].op /\ j.p = job[t].p
    BY <1>0, RestJob
  <2> HIDE DEF j
  <2>4. pc' = [pc EXCEPT ![t] = "dreg"] /\ pc[t] = "dep" /\ UNCHANGED <<task, ready, reboot>>
    BY <1>6 DEF LoadDep, Goto
  <2>5. QED BY <1>0, <2>2, <2>3, <2>4, SameRole DEF LaunchPlaces, Loading
<1>7. ASSUME NEW d \in Deps, DepRaced(t, d) \/ DepRefused(t, d) PROVE RolesInv' /\ HandOverInv'
  <2> DEFINE j == [job[t] EXCEPT !.rest = @ \ {d}]
  <2>1. job' = [job EXCEPT ![t] = j] /\ pc[t] = "dep" /\ UNCHANGED <<task, ready, reboot>>
    BY <1>7 DEF DepRaced, DepRefused
  <2>2. j.op = job[t].op /\ j.p = job[t].p
    BY <1>0, RestJob
  <2> HIDE DEF j
  <2>3. pc = [pc EXCEPT ![t] = "dep"]
    BY <1>0, <2>1 DEF JobsOK
  <2>4. PICK l \in {"dep", "fail"} : pc' = [pc EXCEPT ![t] = l]
    BY <1>7, <2>3 DEF DepRaced, DepRefused, Goto
  <2>5. QED BY <1>0, <2>1, <2>2, <2>4, SameRole DEF LaunchPlaces, Loading
<1>8. QED BY <1>1, <1>2, <1>3, <1>4, <1>5, <1>6, <1>7 DEF Launching

\* A termination becomes one of the application, and a restart in place a launch of it.
LEMMA TerminationRoles ==
    ASSUME Inv, RolesInv, HandOverInv, NEW t \in Workers, Terminating(t)
    PROVE  RolesInv' /\ HandOverInv'
<1>0. JobsOK /\ job[t] \in Job /\ job = [u \in Workers |-> job[u]]
  BY DEF Inv, TypeOK, JobsOK
<1>1. CASE Send(t)
  <2> DEFINE l == IF job[t].commit THEN "commit" ELSE "done"
             p == IF job[t].op = "title" THEN job[t].p ELSE runningApp
  <2>1. UNCHANGED <<task, ready, reboot>> /\ pc[t] = "send" /\ pc' = [pc EXCEPT ![t] = l]
    BY <1>1 DEF Send, Goto
  <2>0. l \in {"commit", "done"}
    OBVIOUS
  <2> HIDE DEF l
  <2>2. CASE UNCHANGED job
    <3>1. job' = [job EXCEPT ![t] = job[t]]
      BY <1>0, <2>2
    <3>2. QED BY <1>0, <2>0, <2>1, <3>1, SameRole DEF LaunchPlaces, Loading
  <2>3. CASE \E h : job' = [job EXCEPT ![t].p = p, ![t].hear = h]
    <3>1. PICK h : job' = [job EXCEPT ![t].p = p, ![t].hear = h]
      BY <2>3
    <3> DEFINE i == [job[t] EXCEPT !.p = p]
               j == [i EXCEPT !.hear = h]
    <3> HIDE DEF p
    <3>2. job' = [job EXCEPT ![t] = j]
      BY <3>1
    <3>3. i.op = job[t].op /\ i.p = p /\ DOMAIN i = DOMAIN job[t]
      BY <1>0 DEF Job
    <3>4. j.op = job[t].op /\ j.p = p
      BY <3>3
    <3>5. IF job[t].op = "title" THEN p = job[t].p ELSE p \in Apps \cup {NoProc}
      BY DEF p, Inv, JobInv
    <3> HIDE DEF j
    <3>6. Role(t, l, j)
      <4>1. Role(t, "send", job[t])
        BY <2>1 DEF RolesInv
      <4>2. CASE t = "runner"
        <5>1. AppJob(job[t]) /\ NamedJob(job[t])
          BY <4>1, <4>2 DEF Role, RunnerJob
        <5>2. AppJob(j)
          BY <3>4, <3>5, <5>1 DEF AppJob
        <5>3. NamedJob(j)
          BY <3>4, <3>5, <5>1 DEF NamedJob
        <5>4. QED BY <2>0, <4>2, <5>2, <5>3 DEF Role, RunnerJob
      <4>3. CASE t # "runner"
        BY <2>0, <4>3 DEF Role
      <4>4. QED BY <4>2, <4>3
    <3>7. QED BY <1>0, <2>0, <2>1, <3>2, <3>6, RoleMoves DEF LaunchPlaces, Loading
  <2>4. (UNCHANGED job) \/ (\E h : job' = [job EXCEPT ![t].p = p, ![t].hear = h])
    BY <1>1 DEF Send
  <2>5. QED BY <2>2, <2>3, <2>4
<1>2. CASE AskRosalina(t) \/ SendAll(t) \/ SendKips(t) \/ Woken(t) \/ TimesOut(t)
  <2>1. job' = [job EXCEPT ![t] = job[t]]
    BY <1>0, <1>2 DEF AskRosalina, SendAll, SendKips, Woken, TimesOut
  <2>2. \E l \in {"ros", "commit", "halt", "done", "wait2"} : pc' = [pc EXCEPT ![t] = l]
    BY <1>2 DEF AskRosalina, SendAll, SendKips, Woken, TimesOut, Goto
  <2>3. UNCHANGED <<task, ready, reboot>> /\ pc[t] \notin {"idle", "post"}
    BY <1>2 DEF AskRosalina, SendAll, SendKips, Woken, TimesOut
  <2>4. QED BY <1>0, <2>1, <2>2, <2>3, SameRole DEF LaunchPlaces, Loading
<1>3. CASE Commit(t)
  <2> DEFINE j == [job[t] EXCEPT !.held = Sent]
  <2>1. job' = [job EXCEPT ![t] = j]
    BY <1>3 DEF Commit
  <2>2. j.op = job[t].op /\ j.p = job[t].p
    BY <1>0 DEF Job
  <2>3. \E l \in {"wait", "done"} : pc' = [pc EXCEPT ![t] = l]
    BY <1>3 DEF Commit, Goto
  <2>4. UNCHANGED <<task, ready, reboot>> /\ pc[t] \notin {"idle", "post"}
    BY <1>3 DEF Commit
  <2> HIDE DEF j
  <2>5. QED BY <1>0, <2>1, <2>2, <2>3, <2>4, SameRole DEF LaunchPlaces, Loading
<1>4. CASE Done(t)
  <2>0. pc[t] = "done" /\ UNCHANGED reboot
    BY <1>4 DEF Done
  <2>1. CASE Finish(t)
    BY <1>0, <2>0, <2>1, DoneRole
  <2>9. job[t].op \in {"reboot", "chain"} => t = "runner"
    BY <2>0 DEF Inv, JobInv, Jobs, Fits, Workers
  <2>2. CASE /\ job[t].op = "reboot"
             /\ job' = [job EXCEPT ![t].op = "kips", ![t].held = {}, ![t].look = "no"]
             /\ Goto(t, "kips") /\ UNCHANGED taskVars
    <3> DEFINE i == [job[t] EXCEPT !.op = "kips"]
               h == [i EXCEPT !.held = {}]
               j == [h EXCEPT !.look = "no"]
    <3>1. job' = [job EXCEPT ![t] = j]
      BY <2>2
    <3>2. i.op = "kips" /\ DOMAIN i = DOMAIN job[t]
      BY <1>0 DEF Job
    <3>5. h.op = "kips" /\ DOMAIN h = DOMAIN job[t]
      BY <3>2
    <3>3. j.op = "kips"
      BY <3>5
    <3> HIDE DEF j
    <3>4. t = "runner"
      BY <2>2, <2>9
    <3>6. Role(t, "kips", j)
      BY <3>3, <3>4 DEF Role, RunnerJob, AppJob, NamedJob
    <3>7. QED BY <1>0, <2>0, <2>2, <3>1, <3>6, RoleMoves DEF Goto, LaunchPlaces, Loading
  <2>3. CASE /\ job[t].op = "chain"
             /\ job' = [job EXCEPT ![t].held = {}]
             /\ Goto(t, "again") /\ UNCHANGED taskVars
    <3> DEFINE j == [job[t] EXCEPT !.held = {}]
    <3>1. job' = [job EXCEPT ![t] = j]
      BY <2>3
    <3>2. j.op = "chain" /\ j.p = job[t].p
      BY <1>0, <2>3 DEF Job
    <3> HIDE DEF j
    <3>3. t = "runner"
      BY <2>3, <2>9
    <3>4. Role(t, "again", j)
      BY <3>2, <3>3, <2>3 DEF Role, RolesInv, RunnerJob, AppJob, NamedJob
    <3>5. QED BY <1>0, <2>0, <2>3, <3>1, <3>4, RoleMoves DEF Goto, LaunchPlaces, Loading
  <2>4. CASE Goto(t, "halt") /\ UNCHANGED <<job, taskVars>>
    <3>1. job' = [job EXCEPT ![t] = job[t]]
      BY <1>0, <2>4
    <3>2. QED BY <1>0, <2>0, <2>4, <3>1, SameRole DEF Goto, LaunchPlaces, Loading
  <2>5. QED BY <1>4, <2>1, <2>2, <2>3, <2>4 DEF Done
<1>5. CASE Again(t)
  <2>0. pc[t] = "again" /\ UNCHANGED reboot
    BY <1>5 DEF Again
  <2>1. CASE Finish(t)
    BY <1>0, <2>0, <2>1, DoneRole
  <2>2. CASE /\ ~reboot
             /\ job' = [job EXCEPT ![t] = [DoOn("launch", job[t].p) EXCEPT !.fake = TRUE]]
             /\ Goto(t, "check") /\ UNCHANGED taskVars
    <3> DEFINE i == DoOn("launch", job[t].p)
               j == [i EXCEPT !.fake = TRUE]
    <3>9. t = "runner"
      BY <2>0 DEF Inv, JobInv, Jobs, Fits, Workers
    <3>1. job[t].op = "chain" /\ AppJob(job[t]) /\ job[t].p \in Procs \cup {NoProc}
      BY <1>0, <2>0, <3>9 DEF RolesInv, Role, RunnerJob, Job
    <3>8. "launch" \in Ops
      BY DEF Ops
    <3>2. i \in Job /\ i.op = "launch" /\ i.p = job[t].p /\ i.merged = {}
      BY <3>1, <3>8, NewJobs
    <3> HIDE DEF i
    <3>3. j.op = "launch" /\ j.p = job[t].p /\ j.merged = {}
      BY <3>2 DEF Job
    <3>4. job' = [job EXCEPT ![t] = j]
      BY <2>2 DEF i
    <3> HIDE DEF j
    <3>5. Role(t, "check", j)
      BY <3>1, <3>3 DEF Role, RunnerJob, AppJob, NamedJob
    <3>6. QED BY <1>0, <2>0, <2>2, <3>4, <3>5, RoleMoves DEF Goto
  <2>3. QED BY <1>5, <2>1, <2>2 DEF Again
<1>6. QED BY <1>1, <1>2, <1>3, <1>4, <1>5 DEF Terminating


\* Main serves a command: it hands a job to the task runner, or does it itself.
LEMMA MainStarts ==
    ASSUME JobsOK, RolesInv, HandOverInv, MainIdle, ~reboot,
           NEW l \in {"post", "check", "send", "clear"}, NEW j, Role("main", l, j),
           pc' = [pc EXCEPT !["main"] = l], job' = [job EXCEPT !["main"] = j],
           UNCHANGED taskVars, reboot' => l = "post" /\ j.op = "reboot"
    PROVE  RolesInv' /\ HandOverInv'
<1>1. /\ pc'["main"] = l /\ job'["main"] = j
      /\ pc'["runner"] = pc["runner"] /\ job'["runner"] = job["runner"]
  BY DEF JobsOK, Workers
<1>2. ASSUME NEW u \in Workers PROVE Role(u, pc'[u], job'[u])
  <2>1. CASE u = "main"
    BY <1>1, <2>1
  <2>2. CASE u = "runner"
    BY <1>1, <2>2 DEF RolesInv, Workers
  <2>3. QED BY <2>1, <2>2 DEF Workers
<1>3. RolesInv'
  BY <1>2 DEF RolesInv, Role, RunnerJob, AppJob, NamedJob
<1>4. HandOverInv'
  BY <1>1 DEF HandOverInv
<1>5. QED BY <1>3, <1>4

\* A new job.
LEMMA JobMade ==
    ASSUME NEW op \in Ops, NEW p \in Procs \cup {NoProc}
    PROVE  DoOn(op, p).op = op /\ DoOn(op, p).p = p /\ DoOn(op, p).merged = {}
  BY NewJobs

\* The same, with somebody who waits or not.
LEMMA JobNamed ==
    ASSUME NEW op \in Ops, NEW p \in Procs \cup {NoProc}, NEW w \in BOOLEAN
    PROVE  /\ DoOn(op, p).op = op /\ DoOn(op, p).p = p
           /\ [DoOn(op, p) EXCEPT !.commit = w].op = op
           /\ [DoOn(op, p) EXCEPT !.commit = w].p = p
           /\ DoOn(op, p).merged = {} /\ [DoOn(op, p) EXCEPT !.commit = w].merged = {}
<1>1. /\ DoOn(op, p) \in Job /\ DoOn(op, p).op = op /\ DoOn(op, p).p = p
      /\ DoOn(op, p).merged = {}
  BY NewJobs
<1>2. QED BY <1>1 DEF Job

\* What main hands over or does itself is what its role allows.
LEMMA CommandRoles ==
    ASSUME Inv, RolesInv, HandOverInv, Command
    PROVE  RolesInv' /\ HandOverInv'
<1>0. /\ JobsOK /\ job = [u \in Workers |-> job[u]] /\ runningApp \in Apps \cup {NoProc}
      /\ Programs \subseteq Procs /\ Apps \subseteq Programs
      /\ "app" \in Ops /\ "reboot" \in Ops /\ "chain" \in Ops /\ "title" \in Ops /\ "launch" \in Ops
      /\ TRUE \in BOOLEAN /\ NoProc \in Procs \cup {NoProc}
  BY DEF Inv, TypeOK, JobsOK, JobInv, Procs, Needy, Programs, Ops
<1>1. ASSUME NEW j, Post(j), MainIdle, ~reboot, AppJob(j), NamedJob(j), j.merged = {},
             reboot' => j.op = "reboot"
      PROVE  RolesInv' /\ HandOverInv'
  <2>1. Role("main", "post", j)
    BY <1>1 DEF Role, RunnerJob
  <2>2. QED BY <1>0, <1>1, <2>1, MainStarts DEF Post, Goto
<1>2. CASE TerminateApplication
  <2> DEFINE j == DoOn("app", NoProc)
  <2>1. j.op = "app"
    BY <1>0, JobMade
  <2> HIDE DEF j
  <2>2. Role("main", "send", j)
    BY <2>1 DEF Role
  <2>3. job' = [job EXCEPT !["main"] = j] /\ pc' = [pc EXCEPT !["main"] = "send"]
    BY <1>2 DEF TerminateApplication, Goto, j
  <2>4. QED BY <1>0, <1>2, <2>2, <2>3, MainStarts DEF TerminateApplication
<1>3. CASE ChainloadHomebrewDirty
  <2> DEFINE j == DoOn("chain", NoProc)
  <2>1. j.op = "chain" /\ j.p = NoProc /\ j.merged = {}
    BY <1>0, JobMade
  <2> HIDE DEF j
  <2>2. QED BY <1>1, <1>3, <2>1 DEF ChainloadHomebrewDirty, AppJob, NamedJob, j
<1>4. CASE LaunchFirm
  <2> DEFINE j == DoOn("reboot", NoProc)
  <2>1. j.op = "reboot" /\ j.merged = {}
    BY <1>0, JobMade
  <2> HIDE DEF j
  <2>2. QED BY <1>1, <1>4, <2>1 DEF LaunchFirm, AppJob, NamedJob, j
<1>5. ASSUME NEW p \in Programs, PrepareForReboot(p) PROVE RolesInv' /\ HandOverInv'
  <2> DEFINE j == DoOn("reboot", p)
  <2>1. j.op = "reboot" /\ j.merged = {}
    BY <1>0, JobMade
  <2> HIDE DEF j
  <2>2. QED BY <1>1, <1>5, <2>1 DEF PrepareForReboot, AppJob, NamedJob, j
<1>6. ASSUME NEW p \in Programs, TerminateProcessOrTitle(p) PROVE RolesInv' /\ HandOverInv'
  <2>1. CASE UNCHANGED <<workVars, taskVars>>
    BY <1>6, <2>1, SameRoles DEF TerminateProcessOrTitle
  <2>2. ASSUME NEW w \in BOOLEAN, Post([DoOn("title", p) EXCEPT !.commit = w]), ~reboot
        PROVE  RolesInv' /\ HandOverInv'
    <3> DEFINE j == [DoOn("title", p) EXCEPT !.commit = w]
    <3>1. j.op = "title" /\ j.p = p /\ j.merged = {}
      BY <1>0, JobNamed
    <3> HIDE DEF j
    <3>2. QED BY <1>1, <1>6, <2>2, <3>1 DEF TerminateProcessOrTitle, AppJob, NamedJob, j
  <2>3. QED BY <1>6, <2>1, <2>2 DEF TerminateProcessOrTitle
<1>7. ASSUME NEW p \in Procs, UnregisterProcess(p) PROVE RolesInv' /\ HandOverInv'
  BY <1>7, SameRoles DEF UnregisterProcess
<1>8. ASSUME NEW p \in Procs, LaunchTitle(p) PROVE RolesInv' /\ HandOverInv'
  <2>1. CASE p \in Listed
    <3> DEFINE j == [NoJob EXCEPT !.op = "found", !.p = p]
    <3>1. Role("main", "clear", j)
      BY DEF Role
    <3> HIDE DEF j
    <3>2. /\ MainIdle /\ ~reboot /\ UNCHANGED <<taskVars, reboot>>
          /\ pc' = [pc EXCEPT !["main"] = "clear"] /\ job' = [job EXCEPT !["main"] = j]
      BY <1>8, <2>1 DEF LaunchTitle, Goto, j
    <3>3. QED BY <1>0, <3>1, <3>2, MainStarts
  <2>2. CASE p \notin Listed
    <3> DEFINE j == DoOn("launch", p)
    <3>1. j.op = "launch" /\ j.p = p /\ j.merged = {}
      BY <1>0, JobMade
    <3> HIDE DEF j
    <3>2. MainIdle /\ ~reboot /\ UNCHANGED reboot /\ p \in Programs
      BY <1>8, <2>2 DEF LaunchTitle
    <3>3. CASE p \in Apps /\ Post(j)
      BY <1>1, <3>1, <3>2, <3>3 DEF AppJob, NamedJob
    <3>4. CASE /\ p \notin Apps /\ pc' = [pc EXCEPT !["main"] = "check"]
               /\ job' = [job EXCEPT !["main"] = j] /\ UNCHANGED taskVars
      <4>1. Role("main", "check", j)
        BY <3>1 DEF Role
      <4>2. QED BY <1>0, <3>2, <3>4, <4>1, MainStarts
    <3>5. QED BY <1>8, <2>2, <3>3, <3>4 DEF LaunchTitle, Goto, j
  <2>3. QED BY <2>1, <2>2
<1>9. QED BY <1>2, <1>3, <1>4, <1>5, <1>6, <1>7, <1>8 DEF Command

\* The task runner takes over what main has posted.
LEMMA HandOverRoles ==
    ASSUME Inv, RolesInv, HandOverInv, Posted \/ Take
    PROVE  RolesInv' /\ HandOverInv'
<1>0. JobsOK /\ NoJob.op = "none" /\ NoJob.merged = {}
  BY NewJobs DEF NoJob, Inv, TypeOK, JobsOK
<1>1. CASE Posted
  <2>1. /\ pc'["main"] = "idle" /\ job'["main"] = NoJob
        /\ pc'["runner"] = pc["runner"] /\ job'["runner"] = job["runner"]
        /\ task' = job["main"] /\ ready' = FALSE /\ ready /\ UNCHANGED reboot
        /\ pc["main"] = "post"
    BY <1>0, <1>1 DEF Posted, Goto, JobsOK, Workers
  <2>2. /\ Role("main", "idle", NoJob) /\ Role("main", "post", job["main"])
        /\ Role("runner", pc["runner"], job["runner"])
    BY <1>0, <2>1 DEF Role, RunnerJob, RolesInv, Workers
  <2>3. \A u \in Workers : Role(u, pc'[u], job'[u])
    BY <2>1, <2>2 DEF Workers
  <2>4. RolesInv'
    BY <2>1, <2>2, <2>3 DEF RolesInv, Role, RunnerJob, AppJob, NamedJob
  <2>5. HandOverInv'
    BY <2>1 DEF HandOverInv, LaunchPlaces, Loading
  <2>6. QED BY <2>4, <2>5
<1>2. CASE Take
  <2> DEFINE l == CASE task.op = "launch" -> "check" [] task.op = "reboot" -> "list"
                    [] OTHER -> "send"
  <2>1. /\ pc'["main"] = pc["main"] /\ job'["main"] = job["main"]
        /\ pc'["runner"] = l /\ job'["runner"] = task
        /\ task' = NoJob /\ task # NoJob /\ UNCHANGED <<ready, reboot>>
        /\ pc["runner"] = "idle"
    BY <1>0, <1>2 DEF Take, Goto, JobsOK, Workers
  <2>2. l \in {"check", "list", "send"} /\ (l = "check" <=> task.op = "launch")
    OBVIOUS
  <2> HIDE DEF l
  <2>3. Role("main", pc["main"], job["main"]) /\ Role("runner", l, task)
    BY <2>2 DEF Role, RolesInv, Workers
  <2>4. \A u \in Workers : Role(u, pc'[u], job'[u])
    BY <2>1, <2>3 DEF Workers
  <2>5. RolesInv'
    BY <1>0, <2>1, <2>4 DEF RolesInv, Role, RunnerJob, AppJob, NamedJob
  <2>6. ~ready
    BY <2>1 DEF HandOverInv
  <2>7. HandOverInv'
    BY <1>0, <2>1, <2>2, <2>6 DEF HandOverInv, LaunchPlaces, Loading
  <2>8. QED BY <2>5, <2>7
<1>3. QED BY <1>1, <1>2

\* What the monitor notes of the workers' waits is no part of what they do.
LEMMA MonitorJobs ==
    ASSUME JobsOK, Monitoring
    PROVE  /\ pc' = pc
           /\ \A t \in Workers : /\ job'[t].op = job[t].op /\ job'[t].p = job[t].p
                                 /\ job'[t].merged = job[t].merged /\ job'[t].dep = job[t].dep
<1>1. pc' = pc
  BY DEF Monitoring, Scan, Decide, WaitNew, WaitEnded, MarkTerminated, CleanDeps, CleanRegs, Clean
<1>2. ASSUME NEW t \in Workers
      PROVE  \/ job'[t] = job[t] \/ \E l : job'[t] = [job[t] EXCEPT !.look = l]
             \/ \E h : job'[t] = [job[t] EXCEPT !.held = h]
  <2>1. CASE Scan
    BY <2>1 DEF Scan, Seen
  <2>2. CASE Decide
    BY <2>2 DEF Decide
  <2>3. CASE MarkTerminated
    BY <2>3 DEF MarkTerminated
  <2>4. CASE WaitNew \/ CleanDeps \/ CleanRegs \/ Clean \/ \E p \in Procs : WaitEnded(p)
    BY <2>4 DEF WaitNew, WaitEnded, CleanDeps, CleanRegs, Clean
  <2>5. QED BY <2>1, <2>2, <2>3, <2>4 DEF Monitoring
<1>3. \A t \in Workers : job[t] \in Job
  BY DEF JobsOK
<1>4. ASSUME NEW j \in Job, NEW v
      PROVE  LET k == [j EXCEPT !.look = v]
             IN  k.op = j.op /\ k.p = j.p /\ k.merged = j.merged /\ k.dep = j.dep
  BY DEF Job
<1>5. ASSUME NEW j \in Job, NEW v
      PROVE  LET k == [j EXCEPT !.held = v]
             IN  k.op = j.op /\ k.p = j.p /\ k.merged = j.merged /\ k.dep = j.dep
  BY DEF Job
<1>6. ASSUME NEW t \in Workers
      PROVE  /\ job'[t].op = job[t].op /\ job'[t].p = job[t].p
             /\ job'[t].merged = job[t].merged /\ job'[t].dep = job[t].dep
  <2>1. CASE job'[t] = job[t]
    BY <2>1
  <2>2. ASSUME NEW l, job'[t] = [job[t] EXCEPT !.look = l]
        PROVE  /\ job'[t].op = job[t].op /\ job'[t].p = job[t].p
               /\ job'[t].merged = job[t].merged /\ job'[t].dep = job[t].dep
    BY <1>3, <1>4, <2>2
  <2>3. ASSUME NEW h, job'[t] = [job[t] EXCEPT !.held = h]
        PROVE  /\ job'[t].op = job[t].op /\ job'[t].p = job[t].p
               /\ job'[t].merged = job[t].merged /\ job'[t].dep = job[t].dep
    BY <1>3, <1>5, <2>3
  <2>4. QED BY <1>2, <2>1, <2>2, <2>3
<1>7. QED BY <1>1, <1>6

\* Every step keeps the roles.
LEMMA RolesStep ==
    ASSUME Inv, RolesInv, HandOverInv, [Next]_vars
    PROVE  RolesInv' /\ HandOverInv'
<1>1. CASE Command
  BY <1>1, CommandRoles
<1>2. CASE Posted \/ Take
  BY <1>2, HandOverRoles
<1>3. ASSUME NEW t \in Workers, Launching(t) \/ Terminating(t) PROVE RolesInv' /\ HandOverInv'
  BY <1>3, LaunchRoles, TerminationRoles
<1>4. CASE Monitoring
  <2>1. UNCHANGED <<pc, task, ready, reboot>>
    BY <1>4 DEF Monitoring, Scan, Decide, WaitNew, WaitEnded, MarkTerminated, CleanDeps, CleanRegs, Clean
  <2>2. QED BY <1>4, <2>1, MonitorJobs, SameRoles DEF Inv, TypeOK, JobsOK
<1>5. CASE \E p \in Procs : Ends(p)
  BY <1>5, SameRoles DEF Ends
<1>6. CASE UNCHANGED vars
  BY <1>6, SameRoles
<1>7. CASE ClearAuto
  <2>1. JobsOK /\ pc["main"] = "clear"
    BY <1>7 DEF ClearAuto, Inv, TypeOK, JobsOK
  <2>2. QED BY <1>7, <2>1, DoneRole DEF ClearAuto, Workers
<1>8. QED BY <1>1, <1>2, <1>3, <1>4, <1>5, <1>6, <1>7 DEF Next

-----------------------------------------------------------------------------
(* What a step that keeps the counts has to show.                          *)

Holding(q) == q.deps /\ q.status \notin {"absent", "terminated"}
MonHolds(x) == mon.pc = "deps" /\ mon.cur = x /\ mon.deps

\* Holders, before and after a step.
LEMMA HoldersAre ==
    /\ Holders = {x \in Needy :
                    \/ Holding(proc[x]) /\ ~Counting("incref", x) /\ ~Counting("merge", x)
                    \/ Counting("own", x) \/ MonHolds(x)}
    /\ Holders' = {x \in Needy :
                    \/ Holding(proc'[x]) /\ ~Counting("incref", x)' /\ ~Counting("merge", x)'
                    \/ Counting("own", x)' \/ MonHolds(x)'}
  BY DEF Holders, Holding, MonHolds

\* A worker that stays where it is, or goes elsewhere than to launch.
Stationary(u) ==
    /\ pc'[u] = pc[u] /\ job'[u].p = job[u].p
    /\ job'[u].dep = job[u].dep /\ job'[u].merged = job[u].merged
Leaves(u) == pc[u] \notin {"own", "incref", "merge"} /\ pc'[u] \notin Loading

\* A worker that neither was nor is one that counts.
Elsewhere(u) == {pc[u], pc'[u]} \cap {"own", "incref", "merge"} = {}

\* Who is counted for is then the same.
LEMMA SameCounting ==
    ASSUME \A u \in Workers : Stationary(u) \/ Elsewhere(u),
           NEW l \in {"own", "incref", "merge"}, NEW x
    PROVE  Counting(l, x)' <=> Counting(l, x)
<1>1. Counting(l, x)' <=> \E u \in Workers : pc'[u] = l /\ x = IF l = "own" THEN job'[u].p ELSE job'[u].dep
  BY DEF Counting
<1>2. \A u \in Workers : pc'[u] = l \/ pc[u] = l => Stationary(u)
  BY DEF Elsewhere
<1>3. QED BY <1>1, <1>2 DEF Counting, Stationary

\* So are those who count.
LEMMA SameHolders ==
    ASSUME \A u \in Workers : Stationary(u) \/ Elsewhere(u),
           \A x \in Needy : /\ Holding(proc'[x]) <=> Holding(proc[x])
                            /\ MonHolds(x)' <=> MonHolds(x)
    PROVE  Holders' = Holders
<1>1. \A x : /\ Counting("own", x)' <=> Counting("own", x)
             /\ Counting("incref", x)' <=> Counting("incref", x)
             /\ Counting("merge", x)' <=> Counting("merge", x)
  BY SameCounting
<1>2. QED BY <1>1, HoldersAre

\* An entry as it matters to those who launch it, have merged it or launch it for others.
Firm(q, r) ==
    /\ r.status = q.status /\ (r.alive <=> q.alive) /\ (r.ran <=> q.ran) /\ (r.deps <=> q.deps)
Steady(q, r) == Firm(q, r) /\ (r.auto => q.auto) /\ r.ref = q.ref
Early == {"dreg", "drun", "flag", "incref"}
Concern(u) == IF pc[u] \in Loading THEN Reach(u) \cup {job[u].p} ELSE {}

\* What a step leaves to worker u.
Stays(u) ==
    pc'[u] \in Loading =>
        /\ Stationary(u)
        /\ \A x \in Concern(u) : Firm(proc[x], proc'[x])
        /\ pc[u] \in Early => /\ Steady(proc[job[u].dep], proc'[job[u].dep])
                              /\ Users(job[u].dep)' \subseteq Users(job[u].dep)

\* Such a worker keeps its part of the invariant.
LEMMA StaysKeeps ==
    ASSUME NEW u \in Workers, Built(u), Fresh(u), Stays(u)
    PROVE  Built(u)' /\ Fresh(u)'
<1>1. CASE pc'[u] \notin Loading
  BY <1>1 DEF Built, Fresh, WithDep, Loading
<1>2. CASE pc'[u] \in Loading
  <2> DEFINE M == job[u].merged
             p == job[u].p
             d == job[u].dep
  <2>1. /\ pc'[u] = pc[u] /\ job'[u].p = p /\ job'[u].dep = d /\ job'[u].merged = M
        /\ pc[u] \in Loading
    BY <1>2 DEF Stays, Stationary
  <2>2. \A x \in M \cup {p} : Firm(proc[x], proc'[x])
    BY <1>2, <2>1 DEF Stays, Concern, Reach
  <2>3. pc[u] \in WithDep => Firm(proc[d], proc'[d])
    BY <1>2, <2>1 DEF Stays, Concern, Reach
  <2>4. pc[u] \in Early => Steady(proc[d], proc'[d]) /\ Users(d)' \subseteq Users(d)
    BY <1>2 DEF Stays
  <2>5. Built(u)'
    BY <2>1, <2>2 DEF Built, Firm, Up
  <2>6. ASSUME pc[u] \in WithDep
        PROVE  /\ Up(proc'[d]) /\ d \notin M /\ \E x \in M : d \in Needs[x]
               /\ proc'[d].deps <=> pc[u] \in {"incref", "merge"}
    BY <2>3, <2>6 DEF Fresh, Firm, Up
  <2>7. pc[u] \in {"dreg", "drun", "flag"} => ~proc'[d].auto
    BY <2>4 DEF Fresh, Steady, WithDep, Early
  <2>8. ASSUME pc[u] \in WithDep \ {"merge"}
        PROVE  proc'[d].ref = 1 /\ Users(d)' \subseteq M
    BY <2>4, <2>8 DEF Fresh, Steady, WithDep, Early
  <2>9. Fresh(u)' <=>
         (pc[u] \in WithDep =>
           /\ Up(proc'[d]) /\ d \notin M /\ \E x \in M : d \in Needs[x]
           /\ proc'[d].deps <=> pc[u] \in {"incref", "merge"}
           /\ pc[u] \in {"dreg", "drun", "flag"} => ~proc'[d].auto
           /\ pc[u] # "merge" => proc'[d].ref = 1 /\ {x \in Holders' : d \in Needs[x]} \subseteq M)
    BY <2>1 DEF Fresh, Users
  <2>10. Users(d)' = {x \in Holders' : d \in Needs[x]}
    BY <2>1 DEF Users
  <2>11. QED BY <2>5, <2>6, <2>7, <2>8, <2>9, <2>10
<1>3. QED BY <1>1, <1>2

\* Nobody begins to launch a dependency, and what is reached does not grow.
Narrows(u) ==
    /\ Reach(u)' \subseteq Reach(u)
    /\ pc'[u] \in WithDep => pc[u] \in WithDep /\ job'[u].dep = job[u].dep

\* What is launched then remains apart.
LEMMA NarrowApart ==
    ASSUME \A t, u \in Workers : Apart(t, u), \A u \in Workers : Narrows(u)
    PROVE  \A t, u \in Workers : Apart(t, u)'
<1> SUFFICES ASSUME NEW t \in Workers, NEW u \in Workers, t # u, pc'[t] \in WithDep
             PROVE  job'[t].dep \notin Reach(u)'
  BY DEF Apart
<1>1. pc[t] \in WithDep /\ job'[t].dep = job[t].dep /\ Reach(u)' \subseteq Reach(u)
  BY DEF Narrows
<1>2. QED BY <1>1 DEF Apart

\* It does with workers that stay or go elsewhere than to launch.
LEMMA StationaryNarrows ==
    ASSUME NEW u \in Workers, Stationary(u) \/ Leaves(u)
    PROVE  Narrows(u)
<1>1. CASE Stationary(u)
  <2>1. Reach(u)' = Reach(u)
    BY <1>1 DEF Stationary, Reach
  <2>2. QED BY <1>1, <2>1 DEF Stationary, Narrows
<1>2. CASE Leaves(u)
  <2>1. Reach(u)' = {} /\ pc'[u] \notin WithDep
    BY <1>2 DEF Leaves, Reach, WithDep, Loading
  <2>2. QED BY <2>1 DEF Narrows
<1>3. QED BY <1>1, <1>2

\* The counts are no longer exact.
Loose == odd \cap {"chained", "unlisted"} # {}

\* DependencyCount, for one dependency.
CountAt(d) ==
    proc[d].status = "running" /\ proc[d].auto /\ ~Counting("incref", d) =>
        IF Loose THEN proc[d].ref >= Cardinality(Users(d))
                 ELSE proc[d].ref = Cardinality(Users(d))

\* DependencyCount is that, for each of them.
LEMMA CountParts ==
    /\ Plain => (DependencyCount <=> \A d \in Deps : CountAt(d))
    /\ Plain' => (DependencyCount' <=> \A d \in Deps : CountAt(d)')
<1>1. Plain => (DependencyCount <=> \A d \in Deps : CountAt(d))
  BY DEF Plain, DependencyCount, CountAt, Users, Loose
<1>2. Plain' => (DependencyCount' <=> \A d \in Deps : CountAt(d)')
  BY DEF Plain, DependencyCount, CountAt, Users, Loose
<1>3. QED BY <1>1, <1>2

\* A dependency that counts after the step did before, with the same count.
SameCount(d) ==
    proc'[d].status = "running" /\ proc'[d].auto /\ ~Counting("incref", d)' =>
        /\ proc[d].status = "running" /\ proc[d].auto /\ ~Counting("incref", d)
        /\ proc'[d].ref = proc[d].ref

Counted == Inv /\ RolesInv /\ HandOverInv /\ Plain /\ DepsInv

\* What follows from the invariant for each worker.
LEMMA CountedFacts ==
    ASSUME Counted
    PROVE  /\ ProcOK /\ JobsOK /\ mon \in Mon /\ odd \cap {"ended", "miscounted"} = {}
           /\ Programs \subseteq Needy /\ Deps \subseteq Needy /\ Needy \subseteq Procs
           /\ Programs \cap Deps = {} /\ Needy \cap Kips = {} /\ NoProc \notin Procs
           /\ \A x \in Needy : Needs[x] \subseteq Deps
           /\ IsFiniteSet(Holders)
           /\ \A d \in Deps : CountAt(d)
           /\ \A t, u \in Workers : Apart(t, u)
           /\ \A t \in Workers :
                /\ job[t] \in Job /\ JobGood(job[t]) /\ Fits(t, pc[t], job[t])
                /\ Role(t, pc[t], job[t]) /\ Built(t) /\ Fresh(t)
<1>1. ProcOK /\ JobsOK /\ mon \in Mon /\ odd \cap {"ended", "miscounted"} = {}
  BY DEF Counted, Inv, TypeOK, ProcOK, JobsOK, Plain
<1>2. /\ Programs \subseteq Needy /\ Deps \subseteq Needy /\ Needy \subseteq Procs
      /\ Programs \cap Deps = {} /\ Needy \cap Kips = {} /\ NoProc \notin Procs
  BY NeedsAssumption DEF Procs, Needy
<1>3. \A x \in Needy : Needs[x] \subseteq Deps
  BY NeedsAssumption
<1>4. IsFiniteSet(Holders) /\ \A d \in Deps : CountAt(d)
  BY CountParts DEF Counted, DepsInv
<1>5. \A t, u \in Workers : Apart(t, u)
  BY DEF Counted, DepsInv
<1>6. ASSUME NEW t \in Workers
      PROVE  /\ job[t] \in Job /\ JobGood(job[t]) /\ Fits(t, pc[t], job[t])
             /\ Role(t, pc[t], job[t]) /\ Built(t) /\ Fresh(t)
  <2>1. job[t] \in Job /\ JobGood(job[t]) /\ Fits(t, pc[t], job[t])
    BY <1>1 DEF JobsOK, Counted, Inv, JobInv, Jobs
  <2>2. Role(t, pc[t], job[t])
    BY DEF Counted, RolesInv
  <2>3. Built(t) /\ Fresh(t)
    BY DEF Counted, DepsInv
  <2>4. QED BY <2>1, <2>2, <2>3
<1>7. QED BY <1>1, <1>2, <1>3, <1>4, <1>5, <1>6

\* Two workers do not launch the same program.
LEMMA LaunchesDiffer ==
    ASSUME Counted, NEW t \in Workers, NEW u \in Workers, t # u,
           pc[t] \in LaunchPlaces, pc[u] \in LaunchPlaces
    PROVE  job[t].p \in Programs /\ job[u].p \in Programs /\ job[t].p # job[u].p
<1>1. \A v \in {t, u} : job[v].op = "launch" /\ job[v].p \in Programs
  BY CountedFacts DEF Fits, JobGood
<1>2. {t, u} = {"main", "runner"}
  BY DEF Workers
<1>3. job["main"].p \in Applets
  BY <1>2, CountedFacts DEF Fits
<1>4. job["runner"].p \in Apps
  <2>1. RunnerJob(job["runner"])
    BY <1>2, CountedFacts DEF Role
  <2>2. job["runner"].p \in Apps \cup {NoProc} /\ job["runner"].p \in Programs
    BY <1>1, <1>2, <2>1 DEF RunnerJob, AppJob
  <2>3. NoProc \notin Programs
    BY NeedsAssumption DEF Procs, Needy
  <2>4. QED BY <2>2, <2>3
<1>5. job["main"].p # job["runner"].p
  BY <1>3, <1>4, NeedsAssumption
<1>6. QED BY <1>1, <1>2, <1>5

\* What concerns a worker that launches is there, and its program runs no code yet.
LEMMA ConcernUp ==
    ASSUME Counted, NEW u \in Workers, NEW x \in Concern(u)
    PROVE  /\ pc[u] \in Loading /\ pc[u] \in LaunchPlaces /\ x \in Needy /\ x \in Procs
           /\ Up(proc[x]) /\ (x \in Programs => x = job[u].p /\ ~proc[x].ran)
           /\ x # job[u].p => x \in Deps
<1>1. pc[u] \in Loading /\ pc[u] \in LaunchPlaces
  BY DEF Concern, LaunchPlaces
<1>2. job[u].p \in Programs /\ Up(proc[job[u].p]) /\ ~proc[job[u].p].ran
  BY <1>1, CountedFacts DEF Fits, JobGood, Built
<1>3. ASSUME x \in job[u].merged PROVE Up(proc[x]) /\ (x = job[u].p \/ x \in Deps)
  BY <1>1, <1>3, CountedFacts DEF Built
<1>4. ASSUME pc[u] \in WithDep, x = job[u].dep PROVE Up(proc[x]) /\ x \in Deps
  BY <1>4, CountedFacts DEF Fresh, WithDep, Fits
<1>5. Up(proc[x]) /\ (x = job[u].p \/ x \in Deps)
  BY <1>1, <1>2, <1>3, <1>4 DEF Concern, Reach
<1>6. QED BY <1>1, <1>2, <1>5, CountedFacts


-----------------------------------------------------------------------------
(* Steps that count for nobody new.                                        *)

\* What the invariant keeps when nobody comes to hold anything.
LEMMA CalmKeeps ==
    ASSUME Counted, Inv', Plain', Loose => Loose',
           Holders' \subseteq Holders, \A x \in Holders \ Holders' : Needs[x] = {},
           \A d \in Deps : SameCount(d) \/ CountAt(d)',
           \A t \in Workers : Stays(t) \/ (Built(t)' /\ Fresh(t)'),
           \A t, u \in Workers : Apart(t, u)'
    PROVE  DepsInv'
<1>1. IsFiniteSet(Holders')
  BY CountedFacts, FS_Subset
<1>2. \A d : Users(d)' = Users(d)
  BY DEF Users
<1>3. ASSUME NEW d \in Deps, SameCount(d) PROVE CountAt(d)'
  <2>1. CountAt(d) /\ proc[d].ref \in Nat /\ d \in Procs
    BY CountedFacts DEF ProcOK, Process, RefMod
  <2>2. SUFFICES ASSUME proc'[d].status = "running", proc'[d].auto, ~Counting("incref", d)'
                 PROVE  IF Loose' THEN proc'[d].ref >= Cardinality(Users(d)')
                                  ELSE proc'[d].ref = Cardinality(Users(d)')
    BY DEF CountAt
  <2>3. /\ proc'[d].ref = proc[d].ref
        /\ proc[d].status = "running" /\ proc[d].auto /\ ~Counting("incref", d)
    BY <1>3, <2>2 DEF SameCount
  <2>4. IF Loose THEN proc[d].ref >= Cardinality(Users(d))
                 ELSE proc[d].ref = Cardinality(Users(d))
    BY <2>1, <2>3 DEF CountAt
  <2>5. QED BY <1>2, <2>1, <2>3, <2>4
<1>4. DependencyCount'
  BY <1>3, CountParts
<1>5. \A t \in Workers : Built(t)' /\ Fresh(t)'
  BY CountedFacts, StaysKeeps
<1>6. QED BY <1>1, <1>4, <1>5 DEF DepsInv

\* One worker moves; the other stays.
LEMMA OneMoves ==
    ASSUME JobsOK, NEW t \in Workers, NEW l, NEW j,
           pc' = [pc EXCEPT ![t] = l], job' = [job EXCEPT ![t] = j]
    PROVE  /\ pc'[t] = l /\ job'[t] = j
           /\ \A u \in Workers \ {t} : pc'[u] = pc[u] /\ job'[u] = job[u] /\ Stationary(u)
  BY DEF JobsOK, Stationary

\* A dependency that is counted was, with the same count.
Counts(q, r) ==
    r.status = "running" /\ r.auto => q.status = "running" /\ q.auto /\ r.ref = q.ref

\* A step that launches nothing, and that leaves what is launched as it is.
LEMMA QuietKeeps ==
    ASSUME Counted, Inv', Plain', Loose => Loose',
           \A u \in Workers : Stationary(u) \/ Leaves(u),
           \A x \in Needy : /\ Holding(proc'[x]) <=> Holding(proc[x])
                            /\ MonHolds(x)' <=> MonHolds(x),
           \A u \in Workers : \A x \in Concern(u) :
                pc'[u] \in Loading => Steady(proc[x], proc'[x]),
           \A d \in Deps : Counts(proc[d], proc'[d])
    PROVE  DepsInv'
<1>1. \A u \in Workers : Stationary(u) \/ Elsewhere(u)
  BY DEF Leaves, Elsewhere, Loading
<1>2. Holders' = Holders
  BY <1>1, SameHolders
<1>3. \A d \in Deps : SameCount(d)
  BY <1>1, SameCounting DEF SameCount, Counts
<1>4. ASSUME NEW u \in Workers PROVE Stays(u)
  <2>1. SUFFICES ASSUME pc'[u] \in Loading PROVE Stays(u)
    BY DEF Stays
  <2>2. Stationary(u) /\ pc[u] \in Loading
    BY <2>1 DEF Leaves, Stationary
  <2>3. \A x \in Concern(u) : Steady(proc[x], proc'[x])
    BY <2>1
  <2>4. pc[u] \in Early => job[u].dep \in Concern(u)
    BY <2>2 DEF Concern, Reach, Early, WithDep
  <2>5. pc[u] \in Early => Users(job[u].dep)' \subseteq Users(job[u].dep)
    BY <1>2, <2>2 DEF Users, Stationary
  <2>6. QED BY <2>2, <2>3, <2>4, <2>5 DEF Stays, Steady
<1>5. \A t, u \in Workers : Apart(t, u)'
  BY StationaryNarrows, NarrowApart, CountedFacts
<1>6. QED BY <1>2, <1>3, <1>4, <1>5, CalmKeeps

\* The same, when the entries of processes that are up and run no code of a program are
\* left as they are.
LEMMA PassiveKeeps ==
    ASSUME Counted, Inv', Plain', Loose => Loose',
           \A u \in Workers : Stationary(u) \/ Leaves(u),
           \A x \in Needy : /\ Holding(proc'[x]) <=> Holding(proc[x])
                            /\ MonHolds(x)' <=> MonHolds(x),
           \A x \in Needy : Up(proc[x]) /\ (x \in Programs => ~proc[x].ran)
                              => Steady(proc[x], proc'[x]),
           \A d \in Deps : Counts(proc[d], proc'[d])
    PROVE  DepsInv'
<1>1. \A u \in Workers : \A x \in Concern(u) : Steady(proc[x], proc'[x])
  BY ConcernUp
<1>2. QED BY <1>1, QuietKeeps

\* What one worker launches, another does not.
LEMMA MineAlone ==
    ASSUME Counted, NEW t \in Workers, NEW u \in Workers, t # u, NEW x,
           \/ pc[t] \in LaunchPlaces /\ x = job[t].p
           \/ pc[t] \in WithDep /\ x = job[t].dep
    PROVE  x \notin Concern(u)
<1> SUFFICES ASSUME x \in Concern(u) PROVE FALSE
  OBVIOUS
<1>1. CASE pc[t] \in LaunchPlaces /\ x = job[t].p
  <2>1. pc[u] \in LaunchPlaces
    BY ConcernUp
  <2>2. x \in Programs /\ job[u].p # x
    BY <1>1, <2>1, LaunchesDiffer
  <2>3. QED BY <2>2, ConcernUp
<1>2. CASE pc[t] \in WithDep /\ x = job[t].dep
  <2>1. x \in Deps
    BY <1>2, CountedFacts DEF Fits, WithDep
  <2>2. x \notin Reach(u)
    BY <1>2, CountedFacts DEF Apart
  <2>3. x = job[u].p /\ pc[u] \in Loading
    BY <2>2 DEF Concern
  <2>4. x \in Programs
    BY <2>3, CountedFacts, ConcernUp DEF Fits, JobGood
  <2>5. QED BY <2>1, <2>4, CountedFacts
<1>3. QED BY <1>1, <1>2

\* One worker changes the entry of what it launches, and nothing else of what counts.
LEMMA OwnKeeps ==
    ASSUME Counted, Inv', Plain', Loose => Loose', NEW t \in Workers, NEW x \in Procs,
           \A u \in Workers \ {t} : Stationary(u) /\ x \notin Concern(u),
           \A y \in Procs \ {x} : proc'[y] = proc[y],
           Built(t)', Fresh(t)',
           \A u \in Workers \ {t} : Apart(t, u)' /\ Apart(u, t)',
           Holders' \subseteq Holders, \A y \in Holders \ Holders' : Needs[y] = {},
           \A d \in Deps : Counting("incref", d) /\ d # x => Counting("incref", d)',
           x \in Deps => SameCount(x) \/ CountAt(x)'
    PROVE  DepsInv'
<1>1. ASSUME NEW d \in Deps, d # x PROVE SameCount(d)
  <2>1. proc'[d] = proc[d]
    BY <1>1, CountedFacts
  <2>2. QED BY <1>1, <2>1 DEF SameCount
<1>2. ASSUME NEW u \in Workers, u # t PROVE Stays(u)
  <2>1. \A y \in Concern(u) : proc'[y] = proc[y]
    BY <1>2, ConcernUp
  <2>2. Users(job[u].dep)' \subseteq Users(job[u].dep)
    BY <1>2 DEF Users, Stationary
  <2>3. pc[u] \in Early => job[u].dep \in Concern(u)
    BY DEF Concern, Reach, Early, WithDep, Loading
  <2>4. QED BY <1>2, <2>1, <2>2, <2>3 DEF Stays, Firm, Steady
<1>3. \A u, v \in Workers : Apart(u, v)'
  <2>1. ASSUME NEW u \in Workers, NEW v \in Workers PROVE Apart(u, v)'
    <3>1. CASE u = v
      BY <3>1 DEF Apart
    <3>2. CASE u # v /\ (u = t \/ v = t)
      BY <3>2
    <3>3. CASE u # v /\ u # t /\ v # t
      BY <3>3 DEF Workers
    <3>4. QED BY <3>1, <3>2, <3>3
  <2>2. QED BY <2>1
<1>4. QED BY <1>1, <1>2, <1>3, CalmKeeps

-----------------------------------------------------------------------------
(* Steps of a launch that are easy to follow.                              *)

\* What odd has, it keeps.
LEMMA OddGrows ==
    ASSUME [Next]_vars
    PROVE  odd \subseteq odd' /\ (Loose => Loose') /\ (Plain' => Plain)
<1>1. ASSUME Command \/ ClearAuto \/ Posted PROVE odd \subseteq odd'
  BY <1>1 DEF Command, ClearAuto, Posted, TerminateApplication, ChainloadHomebrewDirty, LaunchFirm,
       LaunchTitle, UnregisterProcess, TerminateProcessOrTitle, PrepareForReboot, Mark
<1>2. ASSUME Take PROVE odd \subseteq odd'
  BY <1>2 DEF Take, Mark
<1>3. ASSUME Monitoring PROVE odd \subseteq odd'
  BY <1>3 DEF Monitoring, Scan, Decide, WaitNew, WaitEnded, MarkTerminated, CleanDeps, CleanRegs, Clean
<1>4. ASSUME NEW t \in Workers, Launching(t) PROVE odd \subseteq odd'
  BY <1>4 DEF Launching, Check, LoadRefused, Load, Register, CountDeps, OwnDeps, RegisterDep, RunDep,
       FlagDep, IncrefDep, MergeDep, DepsDone, Run, Fail, DepFails, LoadDep, DepRaced, DepRefused, Merge
<1>5. ASSUME NEW t \in Workers, Terminating(t) PROVE odd \subseteq odd'
  <2>1. CASE Send(t)
    BY <2>1 DEF Send
  <2>2. CASE SendAll(t)
    BY <2>2 DEF SendAll
  <2>3. QED BY <1>5, <2>1, <2>2 DEF Terminating, AskRosalina, SendKips, Commit, Woken, TimesOut, Done, Again
<1>6. odd \subseteq odd'
  <2>1. ASSUME NEW p \in Procs, Ends(p) PROVE odd \subseteq odd'
    BY <2>1 DEF Ends
  <2>2. ASSUME UNCHANGED vars PROVE odd \subseteq odd'
    BY <2>2
  <2>3. QED BY <1>1, <1>2, <1>3, <1>4, <1>5, <2>1, <2>2 DEF Next
<1>7. QED BY <1>6 DEF Loose, Plain

-----------------------------------------------------------------------------
(* Launches.                                                               *)

Carries == Counted /\ Inv' /\ Plain' /\ (Loose => Loose')

\* A worker that goes elsewhere than to launch.
LEMMA OneLeaves ==
    ASSUME JobsOK, NEW t \in Workers, NEW l, NEW j, l \notin Loading,
           pc[t] \notin {"own", "incref", "merge"},
           pc' = [pc EXCEPT ![t] = l], job' = [job EXCEPT ![t] = j]
    PROVE  \A u \in Workers : Stationary(u) \/ Leaves(u)
<1>1. pc'[t] = l /\ \A u \in Workers \ {t} : Stationary(u)
  BY OneMoves
<1>2. QED BY <1>1 DEF Leaves

\* A step that leaves the entries as they are.
LEMMA StillKeeps ==
    ASSUME Carries, proc' = proc, mon' = mon,
           \A u \in Workers : Stationary(u) \/ Leaves(u)
    PROVE  DepsInv'
<1>1. \A x \in Needy : /\ Holding(proc'[x]) <=> Holding(proc[x])
                       /\ MonHolds(x)' <=> MonHolds(x)
  BY DEF MonHolds
<1>2. \A d \in Deps : Counts(proc[d], proc'[d])
  BY DEF Counts
<1>3. \A u \in Workers : \A x \in Concern(u) : pc'[u] \in Loading => Steady(proc[x], proc'[x])
  BY DEF Steady, Firm
<1>4. QED BY <1>1, <1>2, <1>3, QuietKeeps DEF Carries

\* The steps of a launch that leave the entries alone, a dependency that was passed over
\* included.
LEMMA StillLaunches ==
    ASSUME Carries, NEW t \in Workers,
           \/ Check(t) \/ LoadRefused(t) \/ DepsDone(t)
           \/ \E d \in Deps : DepRaced(t, d) \/ DepRefused(t, d)
    PROVE  DepsInv'
<1>0. JobsOK /\ job = [job EXCEPT ![t] = job[t]]
  BY CountedFacts DEF Carries, JobsOK
<1>1. \A l : l \in {"idle", "load", "run", "fail"} => l \notin Loading
  BY DEF Loading
<1>2. CASE Check(t) \/ LoadRefused(t) \/ DepsDone(t)
  <2>1. /\ proc' = proc /\ mon' = mon
        /\ pc[t] \notin {"own", "incref", "merge"}
    BY <1>2 DEF Check, LoadRefused, DepsDone
  <2>2. \E l \in {"idle", "load", "run"} : \E j : /\ pc' = [pc EXCEPT ![t] = l]
                                              /\ job' = [job EXCEPT ![t] = j]
    BY <1>0, <1>2 DEF Check, LoadRefused, DepsDone, Goto, Finish
  <2>3. \A u \in Workers : Stationary(u) \/ Leaves(u)
    BY <1>0, <1>1, <2>1, <2>2, OneLeaves
  <2>4. QED BY <2>1, <2>3, StillKeeps
<1>3. ASSUME NEW d \in Deps, DepRaced(t, d) PROVE FALSE
  BY <1>3 DEF DepRaced, Carries, Plain
<1>4. ASSUME NEW d \in Deps, DepRefused(t, d) PROVE DepsInv'
  <2> DEFINE j == [job[t] EXCEPT !.rest = @ \ {d}]
             l == IF job[t].rest = {d} THEN "fail" ELSE "dep"
  <2>1. proc' = proc /\ mon' = mon /\ pc[t] = "dep"
    BY <1>4 DEF DepRefused
  <2>2. pc' = [pc EXCEPT ![t] = l] /\ job' = [job EXCEPT ![t] = j]
    BY <1>4 DEF DepRefused, Goto
  <2>3. j.p = job[t].p /\ j.dep = job[t].dep /\ j.merged = job[t].merged
    BY CountedFacts, RestJob DEF Carries
  <2>4. l \in {"fail", "dep"}
    OBVIOUS
  <2> HIDE DEF l, j
  <2>5. /\ pc'[t] = l /\ job'[t] = j
        /\ \A u \in Workers \ {t} : pc'[u] = pc[u] /\ job'[u] = job[u] /\ Stationary(u)
    BY <1>0, <2>2, OneMoves, Zenon
  <2>6. Stationary(t) \/ Leaves(t)
    BY <1>1, <2>1, <2>3, <2>4, <2>5 DEF Stationary, Leaves
  <2>7. QED BY <2>1, <2>5, <2>6, StillKeeps
<1>5. QED BY <1>2, <1>3, <1>4

\* The end of a launch.
LEMMA EndOfLaunch ==
    ASSUME Carries, NEW t \in Workers, Run(t) \/ Fail(t) \/ DepFails(t)
    PROVE  DepsInv'
<1>0. JobsOK /\ ProcOK /\ job = [job EXCEPT ![t] = job[t]] /\ job[t].p \in Programs
  <2>1. pc[t] \in LaunchPlaces
    BY DEF Run, Fail, DepFails, LaunchPlaces, Loading
  <2>2. QED BY <2>1, CountedFacts DEF Carries, JobsOK, Fits, JobGood
<1> DEFINE x == IF DepFails(t) THEN job[t].dep ELSE job[t].p
<1>1. /\ pc[t] \in LaunchPlaces \ {"own", "incref", "merge"}
      /\ DepFails(t) => pc[t] \in WithDep
      /\ mon' = mon
  BY DEF Run, Fail, DepFails, LaunchPlaces, Loading, WithDep
<1>2. \E l \in {"idle", "fail"} : \E j : pc' = [pc EXCEPT ![t] = l] /\ job' = [job EXCEPT ![t] = j]
  BY <1>0 DEF Run, Fail, DepFails, Goto, Finish
<1>3. (\A u \in Workers : Stationary(u) \/ Leaves(u)) /\ pc'[t] \notin Loading
  <2>1. \A l : l \in {"idle", "fail"} => l \notin Loading
    BY DEF Loading
  <2>2. PICK l \in {"idle", "fail"} : \E j : pc' = [pc EXCEPT ![t] = l] /\ job' = [job EXCEPT ![t] = j]
    BY <1>2
  <2>3. PICK j : job' = [job EXCEPT ![t] = j]
    BY <2>2
  <2>4. l \notin Loading /\ pc[t] \notin {"own", "incref", "merge"} /\ pc' = [pc EXCEPT ![t] = l]
    BY <1>1, <2>1, <2>2
  <2>5. QED BY <1>0, <2>3, <2>4, OneLeaves, OneMoves
<1>4. \A u \in Workers \ {t} : x \notin Concern(u)
  BY <1>1, MineAlone DEF Carries
<1>5. \A y \in Procs : /\ y # x => proc'[y] = proc[y]
                       /\ proc'[y].status = proc[y].status /\ (proc'[y].deps <=> proc[y].deps)
                       /\ (proc'[y].auto <=> proc[y].auto) /\ proc'[y].ref = proc[y].ref
  <2>1. CASE DepFails(t)
    BY <1>0, <2>1 DEF DepFails, ProcOK, Process
  <2>2. CASE ~DepFails(t) /\ Fail(t)
    BY <1>0, <2>2 DEF Fail, ProcOK, Process
  <2>3. CASE ~DepFails(t) /\ Run(t)
    <3>1. CASE proc[job[t].p].alive
      <4> DEFINE q == [proc[job[t].p] EXCEPT !.ran = TRUE]
                 r == [q EXCEPT !.notify = @ \/ job[t].p \in Apps]
      <4>0. job[t].p \in Procs /\ proc[job[t].p] \in Process
        BY <1>0, CountedFacts DEF Carries, ProcOK
      <4>1. proc' = [proc EXCEPT ![job[t].p] = r]
        BY <2>3, <3>1, <4>0 DEF Run, Process
      <4>2. ASSUME job[t].p \in Procs
            PROVE  /\ r.status = proc[job[t].p].status /\ (r.deps <=> proc[job[t].p].deps)
                   /\ (r.auto <=> proc[job[t].p].auto) /\ r.ref = proc[job[t].p].ref
        BY <1>0, <4>2 DEF ProcOK, Process
      <4> HIDE DEF q, r
      <4>3. QED BY <1>0, <2>3, <4>1, <4>2 DEF ProcOK
    <3>2. CASE ~proc[job[t].p].alive
      BY <2>3, <3>2 DEF Run
    <3>3. QED BY <3>1, <3>2
  <2>4. QED BY <2>1, <2>2, <2>3
<1>6. \A y \in Needy : /\ Holding(proc'[y]) <=> Holding(proc[y])
                       /\ MonHolds(y)' <=> MonHolds(y)
  BY <1>1, <1>5, CountedFacts DEF Carries, Holding, MonHolds
<1>7. \A d \in Deps : Counts(proc[d], proc'[d])
  BY <1>5, CountedFacts DEF Carries, Counts
<1>8. \A u \in Workers : \A y \in Concern(u) : pc'[u] \in Loading => Steady(proc[y], proc'[y])
  BY <1>3, <1>4, <1>5, ConcernUp DEF Carries, Steady, Firm
<1>9. QED BY <1>3, <1>6, <1>7, <1>8, QuietKeeps DEF Carries

\* A step of a launch after which the same programs and dependencies count, as before.
LEMMA EasyLaunch ==
    ASSUME Carries, NEW t \in Workers, NEW x \in Procs, NEW l \in Loading,
           pc' = [pc EXCEPT ![t] = l], job' = job, mon' = mon,
           pc[t] \notin {"own", "incref", "merge"}, l \notin {"own", "incref", "merge"},
           pc[t] \in Loading \/ job[t].merged = {}, l \in WithDep => pc[t] \in WithDep,
           \A u \in Workers \ {t} : x \notin Concern(u),
           \A y \in Procs \ {x} : proc'[y] = proc[y],
           Holding(proc'[x]) <=> Holding(proc[x]),
           x \in Deps => Counts(proc[x], proc'[x]),
           Built(t)', Holders' = Holders => Fresh(t)'
    PROVE  DepsInv'
<1>1. JobsOK /\ WithDep \subseteq Loading
  BY CountedFacts DEF Carries, WithDep, Loading
<1>2. pc'[t] = l /\ \A u \in Workers \ {t} : Stationary(u)
  BY <1>1 DEF JobsOK, Stationary
<1>3. \A u \in Workers : Stationary(u) \/ Elsewhere(u)
  BY <1>2 DEF Elsewhere
<1>4. \A y \in Needy : /\ Holding(proc'[y]) <=> Holding(proc[y])
                       /\ MonHolds(y)' <=> MonHolds(y)
  BY CountedFacts DEF Carries, MonHolds
<1>5. Holders' = Holders
  BY <1>3, <1>4, SameHolders
<1>6. \A u \in Workers : Narrows(u)
  <2>1. Narrows(t)
    <3>1. Reach(t)' \subseteq Reach(t)
      BY <1>1, <1>2 DEF Reach
    <3>2. QED BY <1>2, <3>1 DEF Narrows
  <2>2. QED BY <1>2, <2>1, StationaryNarrows
<1>7. \A u, v \in Workers : Apart(u, v)'
  BY <1>6, NarrowApart, CountedFacts DEF Carries
<1>8. \A d : Counting("incref", d)' <=> Counting("incref", d)
  BY <1>3, SameCounting
<1>9. x \in Deps => SameCount(x)
  BY <1>8 DEF SameCount, Counts
<1>10. QED BY <1>2, <1>5, <1>7, <1>8, <1>9, OwnKeeps DEF Carries

\* The program is listed, and registered.
LEMMA LoadKeeps ==
    ASSUME Carries, NEW t \in Workers, Load(t)
    PROVE  DepsInv'
<1> DEFINE p == job[t].p
<1>1. /\ pc[t] = "load" /\ p \in Programs /\ p \in Procs /\ p \notin Deps
      /\ job[t].merged = {} /\ ProcOK
  BY CountedFacts DEF Carries, Load, Fits, JobGood, LaunchPlaces, Role
<1>2. /\ pc' = [pc EXCEPT ![t] = "reg"] /\ job' = job /\ mon' = mon
      /\ proc' = [proc EXCEPT ![p] = Loaded] /\ proc[p].status = "absent"
  BY <1>1 DEF Load, Goto, Free, Listed
<1>3. /\ proc'[p] = Loaded /\ \A y \in Procs \ {p} : proc'[y] = proc[y]
      /\ pc'[t] = "reg"
  BY <1>1, <1>2, CountedFacts DEF Carries, ProcOK, JobsOK
<1>4. Up(Loaded) /\ ~Loaded.ran /\ ~Loaded.deps
  BY DEF Loaded, Absent, Up
<1>5. \A u \in Workers : p \notin Concern(u)
  BY <1>2, ConcernUp DEF Carries, Up
<1>6. Holding(proc'[p]) <=> Holding(proc[p])
  BY <1>2, <1>3, <1>4 DEF Holding
<1>7. Built(t)' /\ Fresh(t)'
  BY <1>1, <1>2, <1>3, <1>4 DEF Built, Fresh, WithDep
<1>8. /\ "reg" \in Loading /\ "reg" \notin {"own", "incref", "merge"}
      /\ "reg" \notin WithDep
  BY DEF Loading, WithDep
<1>9. QED BY <1>1, <1>2, <1>3, <1>5, <1>6, <1>7, <1>8, EasyLaunch

\* A field changes that the counts do not depend on.
LEMMA OtherFields ==
    ASSUME NEW q \in Process
    PROVE  /\ Steady(q, [q EXCEPT !.reg = TRUE]) /\ Counts(q, [q EXCEPT !.reg = TRUE])
           /\ LET r == [q EXCEPT !.ran = TRUE]
              IN  /\ r.status = q.status /\ (r.alive <=> q.alive) /\ (r.deps <=> q.deps)
                  /\ (r.auto <=> q.auto) /\ r.ref = q.ref /\ Counts(q, r)
  BY DEF Process, Steady, Firm, Counts

\* A process is registered.
LEMMA RegisterKeeps ==
    ASSUME Carries, NEW t \in Workers, Register(t)
    PROVE  DepsInv'
<1> DEFINE p == job[t].p
<1>1. /\ pc[t] = "reg" /\ p \in Programs /\ p \in Procs /\ p \notin Deps
      /\ ProcOK /\ Built(t)
  BY CountedFacts DEF Carries, Register, Fits, JobGood, LaunchPlaces, Loading
<1>2. /\ pc' = [pc EXCEPT ![t] = "deps"] /\ job' = job /\ mon' = mon
      /\ proc' = [proc EXCEPT ![p] = [proc[p] EXCEPT !.reg = TRUE]]
  BY <1>1 DEF Register, Goto
<1>3. /\ Steady(proc[p], proc'[p]) /\ \A y \in Procs \ {p} : proc'[y] = proc[y]
      /\ pc'[t] = "deps"
  BY <1>1, <1>2, CountedFacts, OtherFields DEF Carries, ProcOK, JobsOK
<1>4. /\ "reg" \in Loading /\ "reg" \in LaunchPlaces /\ "deps" \in Loading
      /\ "deps" \notin {"own", "incref", "merge"} /\ "deps" \notin WithDep
  BY DEF Loading, WithDep, LaunchPlaces
<1>5. \A u \in Workers \ {t} : p \notin Concern(u)
  BY <1>1, <1>4, MineAlone DEF Carries
<1>6. Holding(proc'[p]) <=> Holding(proc[p])
  BY <1>3 DEF Holding, Steady, Firm
<1>7. Built(t)' /\ Fresh(t)'
  BY <1>1, <1>2, <1>3, <1>4 DEF Built, Fresh, WithDep, Steady, Firm, Up
<1>8. QED BY <1>1, <1>2, <1>3, <1>4, <1>5, <1>6, <1>7, EasyLaunch

\* A dependency is registered, and run.
LEMMA StartDepKeeps ==
    ASSUME Carries, NEW t \in Workers, RegisterDep(t) \/ RunDep(t)
    PROVE  DepsInv'
<1> DEFINE d == job[t].dep
           M == job[t].merged
           l == IF RegisterDep(t) THEN "drun" ELSE "flag"
<1>1. /\ pc[t] \in {"dreg", "drun"} /\ pc[t] \in Loading /\ pc[t] \in WithDep
      /\ d \in Deps /\ d \in Procs /\ ProcOK /\ Built(t) /\ Fresh(t)
  BY CountedFacts DEF Carries, RegisterDep, RunDep, Fits, Loading, WithDep
<1>2. Up(proc[d])
  BY <1>1 DEF Fresh
<1>3. /\ pc' = [pc EXCEPT ![t] = l] /\ job' = job /\ mon' = mon
      /\ proc' = [proc EXCEPT ![d] = IF RegisterDep(t) THEN [proc[d] EXCEPT !.reg = TRUE]
                                     ELSE [proc[d] EXCEPT !.ran = TRUE]]
  BY <1>2 DEF RegisterDep, RunDep, Goto, Up
<1>4. /\ l \in {"drun", "flag"} /\ l \in Loading /\ l \in WithDep
      /\ l \notin {"own", "incref", "merge"}
  BY DEF Loading, WithDep
<1> HIDE DEF l
<1>5. /\ proc'[d].status = proc[d].status /\ (proc'[d].alive <=> proc[d].alive)
      /\ (proc'[d].deps <=> proc[d].deps) /\ (proc'[d].auto <=> proc[d].auto)
      /\ proc'[d].ref = proc[d].ref /\ Counts(proc[d], proc'[d])
  <2>1. proc'[d] \in {[proc[d] EXCEPT !.reg = TRUE], [proc[d] EXCEPT !.ran = TRUE]}
    BY <1>1, <1>3 DEF ProcOK
  <2>2. proc[d] \in Process
    BY <1>1 DEF ProcOK
  <2>3. QED BY <2>1, <2>2 DEF Process, Counts
<1>6. (\A y \in Procs \ {d} : proc'[y] = proc[y]) /\ pc'[t] = l
  BY <1>1, <1>3, CountedFacts DEF Carries, ProcOK, JobsOK
<1>7. \A u \in Workers \ {t} : d \notin Concern(u)
  BY <1>1, MineAlone DEF Carries
<1>8. Holding(proc'[d]) <=> Holding(proc[d])
  BY <1>5 DEF Holding
<1>9. Built(t)'
  <2>1. job[t].p \in Procs \ {d} /\ M \subseteq Procs \ {d}
    <3>1. job[t].p \in Programs
      BY <1>1, CountedFacts DEF Carries, Fits, JobGood, LaunchPlaces
    <3>2. d \notin M /\ M \subseteq Procs
      BY <1>1, CountedFacts DEF Carries, Fresh, Job
    <3>3. QED BY <1>1, <3>1, <3>2, CountedFacts DEF Carries
  <2>2. QED BY <1>1, <1>3, <1>4, <1>6, <2>1 DEF Built
<1>10. ASSUME Holders' = Holders PROVE Fresh(t)'
  <2>1. Users(d)' = Users(d)
    BY <1>3, <1>10 DEF Users
  <2>2. QED BY <1>1, <1>3, <1>4, <1>5, <1>6, <2>1 DEF Fresh, Up
<1>11. QED BY <1>1, <1>3, <1>4, <1>5, <1>6, <1>7, <1>8, <1>9, <1>10, EasyLaunch

\* What is up is not one that the monitor is done with.
LEMMA UpNotEnding ==
    ASSUME Counted, NEW x \in Procs, Up(proc[x])
    PROVE  ~MonHolds(x)
<1>1. mon.pc = "deps" => ~proc[mon.cur].alive
  BY DEF Counted, Inv, ListInv, MonInv
<1>2. QED BY <1>1 DEF MonHolds, Up

\* Who counts just before it is marked is a program, and just after a dependency, which
\* a worker launches alone.
LEMMA WhoCounts ==
    ASSUME Counted, NEW x
    PROVE  /\ Counting("own", x) => x \in Programs
           /\ Counting("incref", x) \/ Counting("merge", x) => x \in Deps
           /\ \A u \in Workers : x \in job[u].merged /\ pc[u] \in Loading =>
                ~Counting("incref", x) /\ ~Counting("merge", x)
<1>1. Counting("own", x) => x \in Programs
  BY CountedFacts DEF Counting, Fits, JobGood, LaunchPlaces, Loading
<1>2. Counting("incref", x) \/ Counting("merge", x) => x \in Deps
  BY CountedFacts DEF Counting, Fits
<1>3. ASSUME NEW u \in Workers, x \in job[u].merged, pc[u] \in Loading,
             NEW v \in Workers, pc[v] \in {"incref", "merge"}, x = job[v].dep
      PROVE  FALSE
  <2>1. pc[v] \in WithDep
    BY <1>3 DEF WithDep
  <2>2. CASE u = v
    BY <1>3, <2>1, <2>2, CountedFacts DEF Fresh
  <2>3. CASE u # v
    <3>1. x \notin Reach(u)
      BY <1>3, <2>1, <2>3, CountedFacts DEF Apart
    <3>2. QED BY <1>3, <3>1 DEF Reach
  <2>4. QED BY <2>2, <2>3
<1>4. QED BY <1>1, <1>2, <1>3 DEF Counting

\* The program is marked as one whose dependencies are counted.
LEMMA OwnDepsKeeps ==
    ASSUME Carries, NEW t \in Workers, OwnDeps(t)
    PROVE  DepsInv'
<1> DEFINE p == job[t].p
           b == proc[p].deps \/ Needs[p] # {}
<1>1. /\ pc[t] = "own" /\ p \in Programs /\ p \in Procs /\ p \notin Deps /\ p \in Needy
      /\ ProcOK /\ Built(t) /\ proc[p] \in Process /\ Up(proc[p])
      /\ "own" \in Loading /\ "own" \in LaunchPlaces
      /\ job[t].merged = {p}
  <2>1. pc[t] = "own" /\ "own" \in Loading /\ "own" \in LaunchPlaces
    BY DEF OwnDeps, Loading, LaunchPlaces
  <2>2. p \in Programs
    BY <2>1, CountedFacts DEF Carries, Fits, JobGood
  <2>3. QED BY <2>1, <2>2, CountedFacts DEF Carries, ProcOK, Built
<1>2. /\ pc' = [pc EXCEPT ![t] = "dep"] /\ job' = job /\ mon' = mon
      /\ proc' = [proc EXCEPT ![p] = [proc[p] EXCEPT !.deps = b]]
  BY DEF OwnDeps, Goto
<1>3. LET r == [proc[p] EXCEPT !.deps = b]
      IN  /\ Up(r) /\ (r.ran <=> proc[p].ran) /\ (r.deps <=> b)
  BY <1>1 DEF Process, Up
<1>4. /\ Up(proc'[p]) /\ (proc'[p].ran <=> proc[p].ran) /\ (proc'[p].deps <=> b)
      /\ \A y \in Procs \ {p} : proc'[y] = proc[y]
      /\ pc'[t] = "dep" /\ \A u \in Workers \ {t} : pc'[u] = pc[u]
  BY <1>1, <1>2, <1>3, CountedFacts DEF Carries, ProcOK, JobsOK
<1> HIDE DEF b
<1>5. \A u \in Workers \ {t} : Stationary(u) /\ p \notin Concern(u)
  <2>1. \A u \in Workers \ {t} : p \notin Concern(u)
    BY <1>1, MineAlone DEF Carries
  <2>2. QED BY <1>2, <1>4, <2>1 DEF Stationary
<1>6. Built(t)'
  BY <1>1, <1>2, <1>4, CountedFacts DEF Carries, Built, b
<1>7. Fresh(t)' /\ Narrows(t)
  <2>1. /\ "dep" \in Loading /\ "dep" \notin WithDep /\ "own" \notin WithDep
    BY DEF Loading, WithDep
  <2>2. Fresh(t)'
    BY <1>4, <2>1 DEF Fresh
  <2>3. Reach(t)' \subseteq Reach(t)
    BY <1>1, <1>2, <1>4, <2>1 DEF Reach
  <2>4. QED BY <1>4, <2>1, <2>2, <2>3 DEF Narrows
<1>8. \A u, v \in Workers : Apart(u, v)'
  BY <1>5, <1>7, StationaryNarrows, NarrowApart, CountedFacts DEF Carries
<1>9. \A x : /\ Counting("own", x)' => Counting("own", x)
             /\ x # p /\ Counting("own", x) => Counting("own", x)'
             /\ Counting("incref", x)' <=> Counting("incref", x)
             /\ Counting("merge", x)' <=> Counting("merge", x)
  BY <1>1, <1>2, <1>4 DEF Counting
<1>10. Counting("own", p) /\ p \in Holders
  BY <1>1, HoldersAre DEF Counting
<1>11. ASSUME NEW x \in Needy, x # p PROVE x \in Holders' <=> x \in Holders
  <2>1. proc'[x] = proc[x] /\ (MonHolds(x)' <=> MonHolds(x))
    BY <1>2, <1>4, <1>11, CountedFacts DEF Carries, MonHolds
  <2>2. Counting("own", x)' <=> Counting("own", x)
    BY <1>9, <1>11
  <2>3. QED BY <1>9, <1>11, <2>1, <2>2, HoldersAre
<1>12. ASSUME NEW x, x = p, Needs[x] # {} PROVE x \in Holders'
  <2>1. ~Counting("incref", x)' /\ ~Counting("merge", x)'
    BY <1>1, <1>9, <1>12, WhoCounts DEF Carries
  <2>2. Holding(proc'[x])
    BY <1>4, <1>12 DEF Holding, Up, b
  <2>3. QED BY <1>1, <1>12, <2>1, <2>2, HoldersAre
<1>13. Holders' \subseteq Holders /\ \A y \in Holders \ Holders' : Needs[y] = {}
  <2>1. Holders \subseteq Needy /\ Holders' \subseteq Needy
    BY HoldersAre
  <2>2. QED BY <1>10, <1>11, <1>12, <2>1
<1>14. QED
  BY <1>1, <1>4, <1>5, <1>6, <1>7, <1>8, <1>9, <1>13, OwnKeeps DEF Carries

\* A dependency is listed.
LEMMA LoadDepKeeps ==
    ASSUME Carries, NEW t \in Workers, NEW d \in Deps, LoadDep(t, d)
    PROVE  DepsInv'
<1> DEFINE M == job[t].merged
           j == [job[t] EXCEPT !.rest = @ \ {d}, !.missing = @ \ {d}, !.dep = d]
<1>1. /\ pc[t] = "dep" /\ d \in Procs /\ d \in Needy /\ ProcOK /\ JobsOK /\ Built(t)
      /\ "dep" \in Loading /\ M \subseteq Procs
      /\ proc[d].status = "absent" /\ \E x \in M : d \in Needs[x]
  <2>1. pc[t] = "dep" /\ "dep" \in Loading /\ proc[d].status = "absent" /\ d \in job[t].rest
    BY CountedFacts DEF Carries, LoadDep, Loading, Free, Listed
  <2>2. \E x \in M : d \in Needs[x]
    BY <2>1, CountedFacts DEF Carries, JobGood
  <2>3. QED BY <2>1, <2>2, CountedFacts DEF Carries, Job
<1>2. /\ pc' = [pc EXCEPT ![t] = "dreg"] /\ mon' = mon
      /\ proc' = [proc EXCEPT ![d] = Loaded]
      /\ job' = [job EXCEPT ![t] = j]
  BY DEF LoadDep, Goto
<1>3. j.p = job[t].p /\ j.dep = d /\ j.merged = M
  BY <1>1, CountedFacts, RestJob DEF Carries, JobsOK
<1> HIDE DEF j
<1>4. /\ pc'[t] = "dreg" /\ job'[t] = j
      /\ \A u \in Workers \ {t} : Stationary(u) /\ pc'[u] = pc[u] /\ job'[u] = job[u]
  BY <1>1, <1>2, OneMoves
<1>5. proc'[d] = Loaded /\ \A y \in Procs \ {d} : proc'[y] = proc[y]
  BY <1>1, <1>2 DEF ProcOK
<1>6. Up(Loaded) /\ ~Loaded.ran /\ ~Loaded.deps /\ ~Loaded.auto /\ Loaded.ref = 1
  BY DEF Loaded, Absent, Up
<1>7. \A u \in Workers : d \notin Concern(u)
  BY <1>1, ConcernUp DEF Carries, Up
<1>8. Holders' = Holders
  <2>1. \A u \in Workers : Stationary(u) \/ Elsewhere(u)
    BY <1>1, <1>4 DEF Elsewhere
  <2>2. \A x \in Needy : /\ Holding(proc'[x]) <=> Holding(proc[x])
                         /\ MonHolds(x)' <=> MonHolds(x)
    BY <1>1, <1>2, <1>5, <1>6, CountedFacts DEF Carries, MonHolds, Holding
  <2>3. QED BY <2>1, <2>2, SameHolders
<1>9. Users(d) \subseteq M
  <2>1. ~ \E x \in Holders \ M : d \in Needs[x]
    BY DEF LoadDep, Carries, Plain
  <2>2. QED BY <2>1 DEF Users
<1>10. d \notin M /\ job[t].p # d
  BY <1>1, <1>7 DEF Concern, Reach
<1>11. "dreg" \in Loading /\ "dreg" \in WithDep /\ "dep" \notin WithDep
  BY DEF Loading, WithDep
<1>12. job[t].p \in Procs \ {d} /\ M \subseteq Procs \ {d}
  BY <1>1, <1>10, CountedFacts DEF Carries, Fits, JobGood, LaunchPlaces
<1>13. Built(t)'
  BY <1>1, <1>3, <1>4, <1>5, <1>11, <1>12 DEF Built
<1>14. Fresh(t)'
  <2>1. Users(d)' = Users(d)
    BY <1>8 DEF Users
  <2>2. \A x : x = d => Users(x)' \subseteq M
    BY <1>8, <1>9 DEF Users
  <2>3. Users(job[t].dep)' \subseteq M
    BY <1>3, <1>4, <1>8, <1>9 DEF Users
  <2>4. QED BY <1>1, <1>3, <1>4, <1>5, <1>6, <1>10, <2>3 DEF Fresh
<1>15. ASSUME NEW u \in Workers, u # t PROVE Apart(t, u)' /\ Apart(u, t)'
  <2>1. Reach(u)' = Reach(u) /\ d \notin Reach(u)
    BY <1>4, <1>7, <1>15 DEF Reach, Concern, Stationary
  <2>2. Apart(t, u)'
    BY <1>3, <1>4, <2>1 DEF Apart
  <2>3. Reach(t) = M /\ Reach(t)' = M \cup {d}
    BY <1>1, <1>3, <1>4, <1>11 DEF Reach
  <2>4. pc[u] \in WithDep => job[u].dep # d
    BY <1>7 DEF Concern, Reach, WithDep, Loading
  <2>5. pc[u] \in WithDep => job[u].dep \notin Reach(t)
    BY <1>15, CountedFacts DEF Carries, Apart
  <2>6. Apart(u, t)'
    BY <1>4, <1>15, <2>3, <2>4, <2>5 DEF Apart
  <2>7. QED BY <2>2, <2>6
<1>16. \A x : Counting("incref", x) => Counting("incref", x)'
  BY <1>1, <1>4 DEF Counting
<1>17. SameCount(d)
  BY <1>5, <1>6 DEF SameCount
<1>18. QED
  BY <1>1, <1>4, <1>5, <1>7, <1>8, <1>13, <1>14, <1>15, <1>16, <1>17, OwnKeeps DEF Carries

\* Its flags are set.
LEMMA FlagDepKeeps ==
    ASSUME Carries, NEW t \in Workers, FlagDep(t)
    PROVE  DepsInv'
<1> DEFINE M == job[t].merged
<1>1. PICK d : d = job[t].dep
  OBVIOUS
<1>2. /\ pc[t] = "flag" /\ d \in Deps /\ d \in Procs /\ d \in Needy /\ ProcOK /\ JobsOK
      /\ Built(t) /\ Fresh(t) /\ "flag" \in Loading /\ "flag" \in WithDep
      /\ M \subseteq Procs /\ d \notin Programs /\ job[t].p \in Programs /\ job[t].p \in Procs
  <2>1. pc[t] = "flag" /\ "flag" \in Loading /\ "flag" \in LaunchPlaces /\ "flag" \in WithDep
    BY DEF FlagDep, Loading, LaunchPlaces, WithDep
  <2>2. d \in Deps /\ job[t].p \in Programs /\ M \subseteq Procs
    BY <1>1, <2>1, CountedFacts DEF Carries, Fits, JobGood, Job
  <2>3. QED BY <2>1, <2>2, CountedFacts DEF Carries
<1>3. /\ Up(proc[d]) /\ d \notin M /\ ~proc[d].deps /\ proc[d].ref = 1
      /\ Users(d) \subseteq M /\ \E x \in M : d \in Needs[x]
  BY <1>1, <1>2 DEF Fresh
<1> DEFINE m == [proc[d] EXCEPT !.auto = TRUE]
           r == [m EXCEPT !.deps = TRUE]
<1>4. /\ pc' = [pc EXCEPT ![t] = "incref"] /\ job' = job /\ mon' = mon
      /\ proc' = [proc EXCEPT ![d].auto = TRUE, ![d].deps = TRUE]
  BY <1>1, <1>2, <1>3 DEF FlagDep, Goto, Listed, Up
<1>5. proc' = [proc EXCEPT ![d] = r]
  <2>1. [proc EXCEPT ![d].auto = TRUE, ![d].deps = TRUE]
           = [[proc EXCEPT ![d] = m] EXCEPT ![d] = [[proc EXCEPT ![d] = m][d] EXCEPT !.deps = TRUE]]
    OBVIOUS
  <2>2. QED BY <1>2, <1>4, <2>1 DEF ProcOK
<1>6. Up(r) /\ r.deps /\ r.ref = 1
  <2>1. proc[d] \in Process
    BY <1>2 DEF ProcOK
  <2>2. m \in Process /\ Up(m) /\ m.ref = 1
    BY <1>3, <2>1 DEF Process, Up
  <2> HIDE DEF m
  <2>3. QED BY <2>2 DEF Process, Up
<1> HIDE DEF m, r
<1>7. /\ Up(proc'[d]) /\ proc'[d].deps /\ proc'[d].ref = 1
      /\ \A y \in Procs \ {d} : proc'[y] = proc[y]
      /\ pc'[t] = "incref" /\ \A u \in Workers \ {t} : pc'[u] = pc[u]
  BY <1>2, <1>4, <1>5, <1>6 DEF ProcOK, JobsOK
<1>8. \A u \in Workers \ {t} : Stationary(u) /\ d \notin Concern(u)
  <2>1. \A u \in Workers \ {t} : d \notin Concern(u)
    BY <1>1, <1>2, MineAlone DEF Carries
  <2>2. QED BY <1>4, <1>7, <2>1 DEF Stationary
<1>9. /\ "incref" \in Loading /\ "incref" \in WithDep
  BY DEF Loading, WithDep
<1>10. \A x : /\ Counting("own", x)' <=> Counting("own", x)
              /\ x # d => (Counting("incref", x)' <=> Counting("incref", x))
              /\ Counting("merge", x)' <=> Counting("merge", x)
  BY <1>1, <1>2, <1>4, <1>7 DEF Counting
<1>11. Counting("incref", d)'
  BY <1>1, <1>4, <1>7 DEF Counting
<1>12. Holders' = Holders
  <2>1. d \notin Holders /\ d \notin Holders'
    <3>1. ~Counting("own", d) /\ ~MonHolds(d) /\ ~Holding(proc[d])
      BY <1>2, <1>3, WhoCounts, UpNotEnding DEF Carries, Holding
    <3>2. ~Counting("own", d)' /\ ~MonHolds(d)'
      BY <1>4, <1>10, <3>1 DEF MonHolds
    <3>3. QED BY <1>11, <3>1, <3>2, HoldersAre
  <2>2. ASSUME NEW x \in Needy, x # d PROVE x \in Holders' <=> x \in Holders
    <3>1. proc'[x] = proc[x] /\ (MonHolds(x)' <=> MonHolds(x))
      BY <1>4, <1>7, <2>2, CountedFacts DEF Carries, MonHolds
    <3>2. QED BY <1>10, <2>2, <3>1, HoldersAre
  <2>3. Holders \subseteq Needy /\ Holders' \subseteq Needy
    BY HoldersAre
  <2>4. QED BY <2>1, <2>2, <2>3
<1>13. Built(t)'
  <2>1. job[t].p \in Procs \ {d} /\ M \subseteq Procs \ {d}
    BY <1>2, <1>3
  <2>2. QED BY <1>2, <1>4, <1>7, <2>1 DEF Built
<1>14. Fresh(t)'
  <2>1. Users(job[t].dep)' \subseteq M
    BY <1>1, <1>3, <1>4, <1>12 DEF Users
  <2>2. QED BY <1>1, <1>3, <1>4, <1>7, <2>1 DEF Fresh
<1>15. \A u, v \in Workers : Apart(u, v)'
  <2>1. Reach(t)' = Reach(t)
    BY <1>2, <1>4, <1>7, <1>9 DEF Reach
  <2>2. Narrows(t)
    BY <1>2, <1>4, <2>1 DEF Narrows
  <2>3. QED BY <1>8, <2>2, StationaryNarrows, NarrowApart, CountedFacts DEF Carries
<1>16. CountAt(d)'
  BY <1>11 DEF CountAt
<1>17. QED
  BY <1>2, <1>7, <1>8, <1>10, <1>12, <1>13, <1>14, <1>15, <1>16, OwnKeeps DEF Carries

\* Those that are merged and need a dependency use it.
LEMMA MergedUse ==
    ASSUME Counted, NEW t \in Workers, pc[t] \in Loading \ {"own"},
           NEW x \in job[t].merged, Needs[x] # {}
    PROVE  x \in Holders
<1>1. Up(proc[x]) /\ proc[x].deps
  BY CountedFacts DEF Built
<1>2. ~Counting("incref", x) /\ ~Counting("merge", x)
  BY WhoCounts
<1>3. x \in Needy
  BY CountedFacts DEF Job
<1>4. QED BY <1>1, <1>2, <1>3, HoldersAre DEF Holding, Up

\* remrefcounts[] is added to its count.
LEMMA IncrefDepKeeps ==
    ASSUME Carries, NEW t \in Workers, IncrefDep(t)
    PROVE  DepsInv'
<1> DEFINE M == job[t].merged
<1>1. PICK d : d = job[t].dep
  OBVIOUS
<1>2. /\ pc[t] = "incref" /\ d \in Deps /\ d \in Procs /\ d \in Needy /\ ProcOK /\ JobsOK
      /\ Built(t) /\ Fresh(t) /\ "incref" \in Loading /\ "incref" \in WithDep
      /\ M \subseteq Procs /\ job[t].p \in Programs /\ job[t].p \in Procs /\ d \notin Programs
  <2>1. pc[t] = "incref" /\ "incref" \in Loading /\ "incref" \in LaunchPlaces /\ "incref" \in WithDep
    BY DEF IncrefDep, Loading, LaunchPlaces, WithDep
  <2>2. d \in Deps /\ job[t].p \in Programs /\ M \subseteq Procs
    BY <1>1, <2>1, CountedFacts DEF Carries, Fits, JobGood, Job
  <2>3. QED BY <2>1, <2>2, CountedFacts DEF Carries
<1>3. /\ Up(proc[d]) /\ d \notin M /\ proc[d].deps /\ proc[d].ref = 1
      /\ Users(d) \subseteq M /\ \E x \in M : d \in Needs[x]
  BY <1>1, <1>2 DEF Fresh
<1>4. Users(d) = {x \in M : d \in Needs[x]}
  <2>1. \A x \in M : d \in Needs[x] => x \in Holders
    BY <1>2, MergedUse DEF Carries
  <2>2. QED BY <1>3, <2>1 DEF Users
<1> DEFINE rem == Cardinality({x \in M : d \in Needs[x]})
<1>5. /\ pc' = [pc EXCEPT ![t] = "merge"] /\ job' = job /\ mon' = mon
      /\ proc[d].auto =>
           \E read \in {1} : proc' = [proc EXCEPT ![d].ref = read + rem - 1]
      /\ ~proc[d].auto => proc' = proc
  BY <1>1, <1>3 DEF IncrefDep, Goto
<1>6. rem \in Nat /\ rem = Cardinality(Users(d))
  <2>1. IsFiniteSet(Users(d))
    <3>1. Users(d) \subseteq Holders
      BY DEF Users
    <3>2. QED BY <3>1, CountedFacts, FS_Subset DEF Carries
  <2>2. QED BY <1>4, <2>1, FS_CardinalityType
<1> HIDE DEF rem
<1>7. /\ Up(proc'[d]) /\ proc'[d].deps /\ (proc'[d].auto <=> proc[d].auto)
      /\ proc[d].auto => proc'[d].ref = rem
      /\ \A y \in Procs \ {d} : proc'[y] = proc[y]
  <2>1. CASE proc[d].auto
    <3>1. proc' = [proc EXCEPT ![d].ref = rem]
      BY <1>5, <1>6, <2>1
    <3>2. proc[d] \in Process /\ proc' = [proc EXCEPT ![d] = [proc[d] EXCEPT !.ref = rem]]
      BY <1>2, <3>1 DEF ProcOK
    <3>3. LET q == [proc[d] EXCEPT !.ref = rem]
          IN  Up(q) /\ q.deps /\ q.auto /\ q.ref = rem
      BY <1>3, <2>1, <3>2 DEF Up, Process
    <3>4. QED BY <1>2, <2>1, <3>2, <3>3 DEF ProcOK
  <2>2. CASE ~proc[d].auto
    BY <1>3, <1>5, <2>2
  <2>3. QED BY <2>1, <2>2
<1>8. pc'[t] = "merge" /\ \A u \in Workers \ {t} : pc'[u] = pc[u]
  BY <1>2, <1>5 DEF JobsOK
<1>9. \A u \in Workers \ {t} : Stationary(u) /\ d \notin Concern(u)
  <2>1. \A u \in Workers \ {t} : d \notin Concern(u)
    BY <1>1, <1>2, MineAlone DEF Carries
  <2>2. QED BY <1>5, <1>8, <2>1 DEF Stationary
<1>10. \A x : /\ Counting("own", x)' <=> Counting("own", x)
              /\ x # d => (Counting("incref", x)' <=> Counting("incref", x))
              /\ x # d => (Counting("merge", x)' <=> Counting("merge", x))
  BY <1>1, <1>2, <1>5, <1>8 DEF Counting
<1>11. Counting("incref", d) /\ Counting("merge", d)'
  BY <1>1, <1>2, <1>5, <1>8 DEF Counting
<1>12. Holders' = Holders
  <2>1. d \notin Holders /\ d \notin Holders'
    <3>1. ~Counting("own", d) /\ ~MonHolds(d)
      BY <1>2, <1>3, WhoCounts, UpNotEnding DEF Carries
    <3>2. ~Counting("own", d)' /\ ~MonHolds(d)'
      BY <1>5, <1>10, <3>1 DEF MonHolds
    <3>3. QED BY <1>11, <3>1, <3>2, HoldersAre
  <2>2. ASSUME NEW x \in Needy, x # d PROVE x \in Holders' <=> x \in Holders
    <3>1. proc'[x] = proc[x] /\ (MonHolds(x)' <=> MonHolds(x))
      BY <1>5, <1>7, <2>2, CountedFacts DEF Carries, MonHolds
    <3>2. QED BY <1>10, <2>2, <3>1, HoldersAre
  <2>3. Holders \subseteq Needy /\ Holders' \subseteq Needy
    BY HoldersAre
  <2>4. QED BY <2>1, <2>2, <2>3
<1>13. "merge" \in Loading /\ "merge" \in WithDep
  BY DEF Loading, WithDep
<1>14. Built(t)'
  <2>1. job[t].p \in Procs \ {d} /\ M \subseteq Procs \ {d}
    BY <1>2, <1>3
  <2>2. QED BY <1>2, <1>5, <1>7, <1>8, <2>1 DEF Built
<1>15. Fresh(t)'
  BY <1>1, <1>3, <1>5, <1>7, <1>8 DEF Fresh
<1>16. \A u, v \in Workers : Apart(u, v)'
  <2>1. Reach(t)' = Reach(t)
    BY <1>2, <1>5, <1>8, <1>13 DEF Reach
  <2>2. Narrows(t)
    BY <1>2, <1>5, <2>1 DEF Narrows
  <2>3. QED BY <1>9, <2>2, StationaryNarrows, NarrowApart, CountedFacts DEF Carries
<1>17. CountAt(d)'
  <2>1. Users(d)' = Users(d)
    BY <1>12 DEF Users
  <2>2. SUFFICES ASSUME proc'[d].auto
                 PROVE  IF Loose' THEN proc'[d].ref >= Cardinality(Users(d)')
                                  ELSE proc'[d].ref = Cardinality(Users(d)')
    BY DEF CountAt
  <2>3. proc'[d].ref = Cardinality(Users(d)) /\ Cardinality(Users(d)) \in Nat
    BY <1>6, <1>7, <2>2
  <2>4. QED BY <2>1, <2>3
<1>18. QED
  BY <1>2, <1>7, <1>9, <1>10, <1>12, <1>14, <1>15, <1>16, <1>17, OwnKeeps DEF Carries

\* The needs of one more are merged: it comes to use them.
LEMMA MergeKeeps ==
    ASSUME Carries, NEW t \in Workers, NEW x, NEW l, Merge(t, x), mon' = mon,
           pc' = [pc EXCEPT ![t] = l],
           \/ pc[t] = "deps" /\ x = job[t].p /\ l = "own"
           \/ pc[t] = "merge" /\ x = job[t].dep /\ l = "dep"
    PROVE  DepsInv'
<1> DEFINE M == job[t].merged
           found == {d \in Needs[x] : proc[d].status = "running"}
<1>1. /\ ProcOK /\ JobsOK /\ Built(t) /\ Fresh(t) /\ M \subseteq Procs
      /\ pc[t] \in Loading /\ l \in Loading /\ l \notin WithDep
      /\ job[t].p \in Programs
      /\ pc[t] = "merge" => pc[t] \in WithDep /\ x \in Deps
      /\ x \in Needy /\ x \in Procs /\ x \in Concern(t)
      /\ Needs[x] \subseteq Deps
  <2>1. /\ pc[t] \in Loading /\ l \in Loading /\ l \notin WithDep /\ pc[t] \in LaunchPlaces
        /\ pc[t] = "merge" => pc[t] \in WithDep
    BY DEF Loading, LaunchPlaces, WithDep
  <2>2. job[t].p \in Programs /\ (pc[t] = "merge" => x \in Deps) /\ M \subseteq Procs
    BY <2>1, CountedFacts DEF Carries, Fits, JobGood, Job
  <2>3. x \in Concern(t) /\ x \in Needy
    BY <2>1, <2>2, CountedFacts DEF Carries, Concern, Reach
  <2>4. QED BY <2>1, <2>2, <2>3, CountedFacts DEF Carries
<1>2. PICK j : job' = [job EXCEPT ![t] = j] /\ j.p = job[t].p /\ j.merged = M \cup {x}
  BY <1>1, MergeJob
<1>3. /\ pc'[t] = l /\ job'[t].p = job[t].p /\ job'[t].merged = M \cup {x}
      /\ \A u \in Workers \ {t} : Stationary(u) /\ pc'[u] = pc[u] /\ job'[u] = job[u]
  <2>1. /\ pc'[t] = l /\ job'[t] = j
        /\ \A u \in Workers \ {t} : Stationary(u) /\ pc'[u] = pc[u] /\ job'[u] = job[u]
    BY <1>1, <1>2, OneMoves
  <2>2. QED BY <1>2, <2>1
<1>4. \A d \in Needs[x] \cap Listed :
         /\ d \notin job[t].missing /\ proc[d].status = "running"
         /\ \A u \in Workers : pc[u] \in Early => job[u].dep # d
  BY DEF Merge, Carries, Plain, Early
<1>5. proc' = [d \in Procs |-> IF d \in found /\ proc[d].auto THEN [proc[d] EXCEPT !.ref = @ + 1]
                                                              ELSE proc[d]]
  <2>1. found = (Needs[x] \cap Listed) \ job[t].missing
    BY <1>1, <1>4, CountedFacts DEF Carries, Listed
  <2> HIDE DEF found
  <2>2. QED BY <2>1 DEF Merge
<1>6. \A d \in Procs :
         /\ proc'[d].status = proc[d].status /\ (proc'[d].alive <=> proc[d].alive)
         /\ (proc'[d].ran <=> proc[d].ran) /\ (proc'[d].deps <=> proc[d].deps)
         /\ (proc'[d].auto <=> proc[d].auto)
         /\ proc'[d].ref = IF d \in found /\ proc[d].auto THEN proc[d].ref + 1 ELSE proc[d].ref
  <2> HIDE DEF found
  <2>1. \A d \in Procs : proc[d] \in Process
    BY <1>1 DEF ProcOK
  <2>2. QED BY <1>5, <2>1 DEF Process
<1>7. \A d \in Procs : Firm(proc[d], proc'[d])
  BY <1>6 DEF Firm
<1>8. Up(proc[x])
  BY <1>1, ConcernUp DEF Carries
<1>9. x \notin Holders
  <2>1. ~MonHolds(x)
    BY <1>1, <1>8, UpNotEnding DEF Carries
  <2>2. CASE pc[t] = "deps" /\ x = job[t].p
    <3>1. ~proc[x].deps
      BY <1>1, <2>2 DEF Built
    <3>2. ASSUME NEW u \in Workers, pc[u] = "own", x = job[u].p PROVE FALSE
      <4>1. pc[u] \in LaunchPlaces /\ pc[t] \in LaunchPlaces
        BY <2>2, <3>2 DEF LaunchPlaces, Loading
      <4>2. QED BY <2>2, <3>2, <4>1, LaunchesDiffer DEF Carries
    <3>3. ~Counting("own", x)
      BY <3>2 DEF Counting
    <3>4. QED BY <2>1, <3>1, <3>3, HoldersAre DEF Holding
  <2>3. CASE pc[t] = "merge" /\ x = job[t].dep
    <3>1. Counting("merge", x)
      BY <2>3 DEF Counting
    <3>2. ~Counting("own", x)
      BY <1>1, <2>3, WhoCounts, CountedFacts DEF Carries
    <3>3. QED BY <2>1, <3>1, <3>2, HoldersAre
  <2>4. QED BY <2>2, <2>3
<1>10. \A d : /\ Counting("incref", d)' <=> Counting("incref", d)
              /\ d # x => (Counting("own", d)' <=> Counting("own", d))
              /\ d # x => (Counting("merge", d)' <=> Counting("merge", d))
  BY <1>3 DEF Counting
<1>11. x \in Holders'
  <2>1. CASE pc[t] = "deps" /\ l = "own" /\ x = job[t].p
    <3>1. Counting("own", x)'
      BY <1>3, <2>1 DEF Counting
    <3>2. QED BY <1>1, <3>1, HoldersAre
  <2>2. CASE pc[t] = "merge" /\ l = "dep" /\ x = job[t].dep
    <3>1. ASSUME NEW u \in Workers, pc'[u] \in {"incref", "merge"}, x = job'[u].dep PROVE FALSE
      <4>1. u # t /\ pc[u] \in {"incref", "merge"} /\ x = job[u].dep
        BY <1>3, <2>2, <3>1
      <4>2. x \notin Reach(u)
        BY <1>1, <2>2, <4>1, CountedFacts DEF Carries, Apart
      <4>3. QED BY <4>1, <4>2 DEF Reach, WithDep, Loading
    <3>2. ~Counting("incref", x)' /\ ~Counting("merge", x)'
      BY <3>1 DEF Counting
    <3>3. Holding(proc'[x])
      BY <1>1, <1>6, <1>8, <2>2 DEF Fresh, Holding, Up
    <3>4. QED BY <1>1, <3>2, <3>3, HoldersAre
  <2>3. QED BY <2>1, <2>2
<1>12. Holders' = Holders \cup {x}
  <2>1. ASSUME NEW y \in Needy, y # x PROVE y \in Holders' <=> y \in Holders
    <3>1. (Holding(proc'[y]) <=> Holding(proc[y])) /\ (MonHolds(y)' <=> MonHolds(y))
      BY <1>6, CountedFacts DEF Carries, Holding, MonHolds
    <3>2. QED BY <1>10, <2>1, <3>1, HoldersAre
  <2>2. Holders \subseteq Needy /\ Holders' \subseteq Needy
    BY HoldersAre
  <2>3. QED BY <1>11, <2>1, <2>2
<1>13. IsFiniteSet(Holders) /\ IsFiniteSet(Holders')
  BY <1>12, CountedFacts, FS_AddElement DEF Carries
<1>14. \A d : Users(d)' = IF d \in Needs[x] THEN Users(d) \cup {x} ELSE Users(d)
  BY <1>12 DEF Users
<1> HIDE DEF found
<1>15. ASSUME NEW d \in Deps PROVE CountAt(d)'
  <2>1. /\ d \in Procs /\ proc[d].ref \in Nat /\ CountAt(d)
        /\ IsFiniteSet(Users(d)) /\ x \notin Users(d)
    <3>1. Users(d) \subseteq Holders
      BY DEF Users
    <3>2. QED BY <1>1, <1>9, <1>13, <3>1, CountedFacts, FS_Subset DEF Carries, ProcOK, Process, RefMod
  <2>2. SUFFICES ASSUME proc'[d].status = "running", proc'[d].auto, ~Counting("incref", d)'
                 PROVE  IF Loose' THEN proc'[d].ref >= Cardinality(Users(d)')
                                  ELSE proc'[d].ref = Cardinality(Users(d)')
    BY DEF CountAt
  <2>3. proc[d].status = "running" /\ proc[d].auto /\ ~Counting("incref", d)
    BY <1>6, <1>10, <2>1, <2>2
  <2>4. IF Loose THEN proc[d].ref >= Cardinality(Users(d))
                 ELSE proc[d].ref = Cardinality(Users(d))
    BY <2>1, <2>3 DEF CountAt
  <2>5. /\ Cardinality(Users(d)) \in Nat
        /\ Cardinality(Users(d) \cup {x}) = Cardinality(Users(d)) + 1
    BY <2>1, FS_AddElement, FS_CardinalityType
  <2>6. CASE d \in Needs[x]
    <3>1. proc'[d].ref = proc[d].ref + 1 /\ Users(d)' = Users(d) \cup {x}
      BY <1>6, <1>14, <2>1, <2>3, <2>6 DEF found
    <3>2. QED BY <2>1, <2>4, <2>5, <3>1 DEF Carries
  <2>7. CASE d \notin Needs[x]
    <3>1. proc'[d].ref = proc[d].ref /\ Users(d)' = Users(d)
      BY <1>6, <1>14, <2>1, <2>7 DEF found
    <3>2. QED BY <2>1, <2>4, <2>5, <3>1 DEF Carries
  <2>8. QED BY <2>6, <2>7
<1>16. ASSUME NEW u \in Workers, u # t PROVE Stays(u)
  <2>1. \A y \in Concern(u) : Firm(proc[y], proc'[y])
    BY <1>7, ConcernUp DEF Carries
  <2>2. ASSUME pc[u] \in Early
        PROVE  /\ Steady(proc[job[u].dep], proc'[job[u].dep])
               /\ Users(job[u].dep)' \subseteq Users(job[u].dep)
    <3>1. PICK e : e = job[u].dep
      OBVIOUS
    <3>2. pc[u] \in WithDep
      BY <2>2 DEF Early, WithDep
    <3>3. Fresh(u) /\ Fits(u, pc[u], job[u])
      BY CountedFacts DEF Carries
    <3>4. Up(proc[e]) /\ e \in Deps
      BY <3>1, <3>2, <3>3 DEF Fresh, Fits, WithDep
    <3>5. e \in Procs /\ e \notin Needs[x]
      BY <1>4, <2>2, <3>1, <3>4, CountedFacts DEF Carries, Up, Listed
    <3>6. Steady(proc[e], proc'[e])
      BY <1>6, <1>7, <3>5 DEF Steady, found
    <3>7. Users(e)' = Users(e) /\ Users(job[u].dep)' = Users(e)'
      BY <1>3, <1>14, <1>16, <3>1, <3>5 DEF Users
    <3>8. QED BY <3>1, <3>6, <3>7
  <2>3. QED BY <1>3, <1>16, <2>1, <2>2 DEF Stays
<1>17. Built(t)' /\ Fresh(t)'
  <2>1. \A y \in M \cup {x, job[t].p} : y \in Procs
    BY <1>1, CountedFacts DEF Carries
  <2>2. \A y \in M \cup {x, job[t].p} : Up(proc'[y])
    BY <1>1, <1>6, <1>8, <2>1 DEF Built, Up
  <2>3. ~proc'[job[t].p].ran
    BY <1>1, <1>6, <2>1 DEF Built
  <2>4. CASE pc[t] = "deps" /\ x = job[t].p /\ l = "own"
    BY <1>1, <1>3, <2>2, <2>3, <2>4 DEF Built, Fresh, WithDep
  <2>5. CASE pc[t] = "merge" /\ x = job[t].dep /\ l = "dep"
    <3>1. proc'[x].deps /\ \E z \in M : x \in Needs[z]
      BY <1>1, <1>6, <2>5 DEF Fresh
    <3>2. \A y \in M : (Needs[y] = {} \/ proc'[y].deps) /\ (y = job[t].p \/ (y \in Deps /\ \E z \in M : y \in Needs[z]))
      BY <1>1, <1>6, <2>1, <2>5 DEF Built
    <3>3. QED BY <1>1, <1>3, <2>2, <2>3, <2>5, <3>1, <3>2 DEF Built, Fresh, WithDep
  <2>6. QED BY <2>4, <2>5
<1>18. ASSUME NEW u \in Workers, NEW v \in Workers PROVE Apart(u, v)'
  <2>1. SUFFICES ASSUME u # v, pc'[u] \in WithDep PROVE job'[u].dep \notin Reach(v)'
    BY DEF Apart
  <2>2. u # t /\ pc[u] \in WithDep /\ job'[u].dep = job[u].dep
    BY <1>1, <1>3, <2>1
  <2>3. job[u].dep \notin Reach(v)
    BY <2>1, <2>2, CountedFacts DEF Carries, Apart
  <2>4. CASE v = t
    <3>1. Reach(v)' = M \cup {x}
      BY <1>1, <1>3, <2>4 DEF Reach
    <3>2. M \subseteq Reach(v) /\ (pc[t] = "merge" => x \in Reach(v))
      BY <1>1, <2>4 DEF Reach
    <3>3. pc[t] = "deps" => x # job[u].dep
      BY <1>1, <2>2, CountedFacts DEF Carries, Fits, WithDep
    <3>4. QED BY <2>2, <2>3, <3>1, <3>2, <3>3
  <2>5. CASE v # t
    BY <1>3, <2>2, <2>3, <2>5 DEF Reach
  <2>6. QED BY <2>4, <2>5
<1>19. \A u \in Workers : Built(u)' /\ Fresh(u)'
  BY <1>16, <1>17, CountedFacts, StaysKeeps DEF Carries
<1>20. DependencyCount'
  BY <1>15, CountParts DEF Carries
<1>21. QED BY <1>13, <1>18, <1>19, <1>20 DEF DepsInv

\* A launch keeps the counts.
LEMMA LaunchKeeps ==
    ASSUME Carries, NEW t \in Workers, Launching(t)
    PROVE  DepsInv'
<1>1. CASE CountDeps(t)
  BY <1>1, MergeKeeps DEF CountDeps, Merge, Goto
<1>2. CASE MergeDep(t)
  BY <1>2, MergeKeeps DEF MergeDep, Merge, Goto
<1>3. QED
  BY <1>1, <1>2, StillLaunches, EndOfLaunch, LoadKeeps, RegisterKeeps, OwnDepsKeeps, LoadDepKeeps,
     StartDepKeeps, FlagDepKeeps, IncrefDepKeeps DEF Launching

-----------------------------------------------------------------------------
(* Releases.                                                               *)

\* What p needed is released, or its counts are no longer exact.
Releases(p, d) ==
    \/ proc'[d] = Unused(d, Needs[p])
    \/ proc'[d] = proc[d] /\ Loose'

\* What releasing does to an entry.
LEMMA ReleasedEntry ==
    ASSUME ProcOK, NEW d \in Procs, NEW P, proc[d].ref > 0
    PROVE  LET r == Unused(d, P)
           IN  \/ r = proc[d] /\ ~(d \in P /\ proc[d].status = "running" /\ proc[d].auto)
               \/ /\ d \in P /\ proc[d].status = "running" /\ proc[d].auto
                  /\ r.status = "running" =>
                       /\ Firm(proc[d], r) /\ r.ref = proc[d].ref - 1
                  /\ proc[d].ref > 1 => r.status = "running"
                  /\ (r.deps <=> proc[d].deps) /\ r.status \in {"running", "sent", "failed"}
<1> DEFINE q == [proc[d] EXCEPT !.ref = (@ + RefMod - 1) % RefMod]
<1>1. proc[d] \in Process /\ proc[d].ref \in 1..255
  BY DEF ProcOK, Process, RefMod
<1>2. CASE d \in P /\ proc[d].status = "running" /\ proc[d].auto
  <2>1. /\ q \in Process /\ q.ref = (proc[d].ref + RefMod - 1) % RefMod
        /\ q.status = "running" /\ (q.alive <=> proc[d].alive) /\ (q.ran <=> proc[d].ran)
        /\ (q.deps <=> proc[d].deps)
    BY <1>1, <1>2 DEF Process, RefMod
  <2>2. (proc[d].ref + RefMod - 1) % RefMod = proc[d].ref - 1
    BY <1>1 DEF RefMod
  <2>3. Unused(d, P) = IF q.ref > 0 THEN q ELSE Notified(q)
    BY <1>2 DEF Unused
  <2> HIDE DEF q
  <2>4. Notified(q).status \in {"sent", "failed"} /\ (Notified(q).deps <=> q.deps)
    BY <2>1 DEF Notified, Process
  <2>5. proc[d].ref > 1 => q.ref > 0
    BY <1>1, <2>1, <2>2
  <2>6. Firm(proc[d], q) /\ q.ref = proc[d].ref - 1
    BY <1>2, <2>1, <2>2 DEF Firm
  <2>7. CASE q.ref > 0
    <3>1. Unused(d, P) = q
      BY <2>3, <2>7
    <3>2. QED BY <1>2, <2>1, <2>6, <3>1
  <2>8. CASE ~(q.ref > 0)
    <3>1. Unused(d, P) = Notified(q) /\ ~(proc[d].ref > 1)
      BY <2>3, <2>5, <2>8
    <3>2. QED BY <1>2, <2>1, <2>4, <3>1
  <2>9. QED BY <2>7, <2>8
<1>3. CASE ~(d \in P /\ proc[d].status = "running" /\ proc[d].auto)
  BY <1>3 DEF Unused
<1>4. QED BY <1>2, <1>3

\* Nobody that uses a dependency is launched by another worker before its count is right.
LEMMA UsersOfEarly ==
    ASSUME Counted, NEW p \in Holders, \A u \in Workers : p \notin Concern(u),
           NEW u \in Workers, pc[u] \in Early
    PROVE  job[u].dep \notin Needs[p]
<1>1. pc[u] \in WithDep /\ pc[u] # "merge" /\ pc[u] \in Loading
  BY DEF Early, WithDep, Loading
<1>2. Users(job[u].dep) \subseteq job[u].merged
  BY <1>1, CountedFacts DEF Fresh
<1>3. p \notin job[u].merged
  BY <1>1 DEF Concern, Reach
<1>4. QED BY <1>2, <1>3 DEF Users

\* What a worker launches for others has one user at least among those.
LEMMA ConcernUsed ==
    ASSUME Counted, NEW u \in Workers, NEW x \in Concern(u), x \in Deps
    PROVE  \E y \in Concern(u) : y \in Holders /\ x \in Needs[y]
<1>1. /\ pc[u] \in Loading /\ job[u].p \in Programs /\ x # job[u].p
      /\ job[u].merged \subseteq Concern(u)
  <2>1. pc[u] \in Loading /\ pc[u] \in LaunchPlaces
    BY ConcernUp
  <2>2. job[u].p \in Programs
    BY <2>1, CountedFacts DEF Fits, JobGood
  <2>3. QED BY <2>1, <2>2, CountedFacts DEF Concern, Reach
<1>2. \E y \in job[u].merged : x \in Needs[y]
  <2>1. CASE x \in job[u].merged
    BY <1>1, <2>1, CountedFacts DEF Built
  <2>2. CASE pc[u] \in WithDep /\ x = job[u].dep
    BY <2>2, CountedFacts DEF Fresh
  <2>3. QED BY <1>1, <2>1, <2>2 DEF Concern, Reach
<1>3. pc[u] # "own"
  <2>1. SUFFICES ASSUME pc[u] = "own" PROVE FALSE
    OBVIOUS
  <2>2. job[u].merged = {job[u].p}
    BY <1>1, <2>1, CountedFacts DEF Built
  <2>3. x \in job[u].merged \/ pc[u] \in WithDep
    BY <1>1 DEF Concern, Reach
  <2>4. QED BY <1>1, <2>1, <2>2, <2>3 DEF WithDep
<1>4. QED BY <1>1, <1>2, <1>3, MergedUse

\* The count of a dependency that its user p releases, or that p leaves too high.
LEMMA CountReleased ==
    ASSUME Carries, NEW p \in Holders, Holders' = Holders \ {p},
           \A u \in Workers : p \notin Concern(u),
           \A u \in Workers : Stationary(u) \/ Leaves(u),
           NEW d \in Deps, Releases(p, d)
    PROVE  CountAt(d)'
<1> DEFINE n == Cardinality(Users(d))
           m == Cardinality(Users(d)')
<1>1. Users(d)' = Users(d) \ {p} /\ (p \in Users(d) <=> d \in Needs[p])
  BY DEF Users
<1>2. n \in Nat /\ m = (IF p \in Users(d) THEN n - 1 ELSE n) /\ (p \in Users(d) => n > 0)
  <2>1. IsFiniteSet(Users(d))
    <3>1. Users(d) \subseteq Holders
      BY DEF Users
    <3>2. QED BY <3>1, CountedFacts, FS_Subset DEF Carries
  <2>2. n \in Nat
    BY <2>1, FS_CardinalityType
  <2>3. p \in Users(d) => n > 0
    BY <2>1, <2>2, FS_EmptySet
  <2>4. QED BY <1>1, <2>1, <2>2, <2>3, FS_RemoveElement
<1>3. d \in Procs /\ ProcOK /\ proc[d].ref \in 0..255 /\ CountAt(d)
  BY CountedFacts DEF Carries, ProcOK, Process, RefMod
<1>4. Counting("incref", d)' <=> Counting("incref", d)
  <2>1. \A u \in Workers : Stationary(u) \/ Elsewhere(u)
    BY DEF Leaves, Elsewhere, Loading
  <2>2. QED BY <2>1, SameCounting
<1>5. SUFFICES ASSUME proc'[d].status = "running", proc'[d].auto, ~Counting("incref", d)
               PROVE  IF Loose' THEN proc'[d].ref >= m ELSE proc'[d].ref = m
  BY <1>4 DEF CountAt
<1>6. ASSUME proc[d].status = "running", proc[d].auto
      PROVE  IF Loose THEN proc[d].ref >= n ELSE proc[d].ref = n
  BY <1>3, <1>5, <1>6 DEF CountAt
<1> HIDE DEF n, m
<1>7. CASE proc'[d] = proc[d] /\ (Loose' \/ p \notin Users(d))
  <2>1. IF Loose THEN proc[d].ref >= n ELSE proc[d].ref = n
    BY <1>5, <1>6, <1>7
  <2>2. QED BY <1>2, <1>3, <1>7, <2>1 DEF Carries
<1>8. CASE proc'[d] = Unused(d, Needs[p])
  <2>1. CASE ~(d \in Needs[p] /\ proc[d].status = "running" /\ proc[d].auto)
    <3>1. proc'[d] = proc[d]
      BY <1>8, <2>1 DEF Unused
    <3>2. p \notin Users(d)
      BY <1>1, <1>5, <2>1, <3>1
    <3>3. QED BY <1>7, <3>1, <3>2
  <2>2. CASE d \in Needs[p] /\ proc[d].status = "running" /\ proc[d].auto
    <3>1. m = n - 1 /\ n > 0 /\ n \in Nat
      BY <1>1, <1>2, <2>2
    <3>2. IF Loose THEN proc[d].ref >= n ELSE proc[d].ref = n
      BY <1>6, <2>2
    <3>3. proc[d].ref > 0
      BY <1>3, <3>1, <3>2
    <3>4. proc'[d].ref = proc[d].ref - 1
      BY <1>3, <1>5, <1>8, <2>2, <3>3, ReleasedEntry
    <3>5. QED BY <1>3, <3>1, <3>2, <3>4 DEF Carries
  <2>3. QED BY <2>1, <2>2
<1>9. QED BY <1>7, <1>8 DEF Releases

\* A process that is not launched any more releases what it needed.
LEMMA ReleaseKeeps ==
    ASSUME Carries, NEW p \in Holders, Holders' = Holders \ {p},
           \A u \in Workers : p \notin Concern(u),
           \A u \in Workers : Stationary(u) \/ Leaves(u),
           \A d \in Deps : Releases(p, d),
           \A x \in Programs \ {p} : proc'[x] = proc[x]
    PROVE  DepsInv'
<1>1. \A d \in Deps : CountAt(d)'
  BY CountReleased
<1>2. DependencyCount'
  BY <1>1, CountParts DEF Carries
<1>3. IsFiniteSet(Holders')
  BY CountedFacts, FS_RemoveElement DEF Carries
<1>4. \A u, v \in Workers : Apart(u, v)'
  BY StationaryNarrows, NarrowApart, CountedFacts DEF Carries
<1>5. ASSUME NEW u \in Workers, NEW x \in Concern(u) PROVE Firm(proc[x], proc'[x])
  <2>1. x \in Needy /\ x \in Procs /\ Up(proc[x]) /\ x # p
    BY <1>5, ConcernUp DEF Carries
  <2>2. CASE x \in Programs
    BY <2>1, <2>2 DEF Firm
  <2>3. CASE x \in Deps /\ proc'[x] = proc[x]
    BY <2>3 DEF Firm
  <2>4. CASE x \in Deps /\ proc'[x] # proc[x]
    <3>1. /\ proc'[x] = Unused(x, Needs[p])
          /\ x \in Needs[p] /\ proc[x].status = "running" /\ proc[x].auto
      BY <2>4 DEF Releases, Unused
    <3>2. ~Counting("incref", x)
      <4>1. SUFFICES ASSUME NEW v \in Workers, pc[v] = "incref", x = job[v].dep PROVE FALSE
        BY DEF Counting
      <4>2. QED BY <3>1, <4>1, UsersOfEarly DEF Carries, Early
    <3>3. PICK y \in Concern(u) : y \in Holders /\ x \in Needs[y]
      BY <1>5, <2>4, ConcernUsed DEF Carries
    <3>4. {p, y} \subseteq Users(x) /\ p # y
      BY <3>1, <3>3 DEF Users
    <3>5. Cardinality(Users(x)) \in Nat /\ Cardinality(Users(x)) >= 2
      <4>1. IsFiniteSet(Users(x))
        <5>1. Users(x) \subseteq Holders
          BY DEF Users
        <5>2. QED BY <5>1, CountedFacts, FS_Subset DEF Carries
      <4>2. Cardinality({p}) = 1 /\ IsFiniteSet({p})
        BY FS_Singleton
      <4>3. Cardinality({p} \cup {y}) = 2 /\ {p} \cup {y} \subseteq Users(x)
        <5>1. Cardinality({p} \cup {y}) = Cardinality({p}) + 1
          BY <3>4, <4>2, FS_AddElement
        <5>2. {p} \cup {y} \subseteq Users(x)
          BY <3>4
        <5>3. QED BY <4>2, <5>1, <5>2
      <4>4. Cardinality({p} \cup {y}) <= Cardinality(Users(x)) /\ Cardinality(Users(x)) \in Nat
        BY <4>1, <4>3, FS_Subset, FS_CardinalityType
      <4>5. QED BY <4>3, <4>4
    <3>6. ProcOK /\ proc[x].ref \in Nat /\ CountAt(x)
      BY <2>1, <2>4, CountedFacts DEF Carries, ProcOK, Process, RefMod
    <3>7. proc[x].ref >= Cardinality(Users(x))
      BY <3>1, <3>2, <3>5, <3>6 DEF CountAt
    <3>8. proc[x].ref > 1 /\ proc[x].ref > 0
      BY <3>5, <3>6, <3>7
    <3>9. QED BY <2>1, <3>1, <3>6, <3>8, ReleasedEntry
  <2>5. QED BY <2>1, <2>2, <2>3, <2>4 DEF Needy
<1>6. ASSUME NEW u \in Workers PROVE Stays(u)
  <2>1. SUFFICES ASSUME pc'[u] \in Loading PROVE Stays(u)
    BY DEF Stays
  <2>2. Stationary(u) /\ pc[u] \in Loading
    BY <2>1 DEF Leaves, Stationary
  <2>3. ASSUME pc[u] \in Early
        PROVE  /\ Steady(proc[job[u].dep], proc'[job[u].dep])
               /\ Users(job[u].dep)' \subseteq Users(job[u].dep)
    <3>1. PICK e : e = job[u].dep
      OBVIOUS
    <3>2. e \notin Needs[p] /\ e \in Deps
      BY <2>3, <3>1, UsersOfEarly, CountedFacts DEF Carries, Fits, Early
    <3>3. proc'[e] = proc[e]
      BY <3>2 DEF Releases, Unused
    <3>4. Users(e)' \subseteq Users(e) /\ Users(job[u].dep)' = Users(e)'
      BY <2>2, <3>1 DEF Users, Stationary
    <3>5. QED BY <3>1, <3>3, <3>4 DEF Steady, Firm
  <2>4. QED BY <1>5, <2>2, <2>3 DEF Stays
<1>7. \A u \in Workers : Built(u)' /\ Fresh(u)'
  BY <1>6, CountedFacts, StaysKeeps DEF Carries
<1>8. QED BY <1>2, <1>3, <1>4, <1>7 DEF DepsInv

\* A dependency that is released goes on holding what it needs.
LEMMA ReleasedHolds ==
    ASSUME ProcOK, NEW x \in Procs, NEW P
    PROVE  Holding(Unused(x, P)) <=> Holding(proc[x])
<1> DEFINE q == [proc[x] EXCEPT !.ref = (@ + RefMod - 1) % RefMod]
<1>1. CASE x \in P /\ proc[x].status = "running" /\ proc[x].auto
  <2>1. /\ q \in Process /\ q.status = "running" /\ (q.deps <=> proc[x].deps)
    BY <1>1 DEF ProcOK, Process, RefMod
  <2>2. Unused(x, P) \in {q, Notified(q)}
    BY <1>1 DEF Unused
  <2> HIDE DEF q
  <2>3. /\ Notified(q).status \in {"sent", "failed"} /\ (Notified(q).deps <=> q.deps)
    BY <2>1 DEF Notified, Process
  <2>4. QED BY <1>1, <2>1, <2>2, <2>3 DEF Holding
<1>2. CASE ~(x \in P /\ proc[x].status = "running" /\ proc[x].auto)
  BY <1>2 DEF Unused
<1>3. QED BY <1>1, <1>2

\* cleanupProcess: the monitor releases what the process needed, if it can be listed.
LEMMA CleanDepsCounts ==
    ASSUME Carries, EndingInv, CleanDeps
    PROVE  DepsInv'
<1>1. PICK p : p = mon.cur
  OBVIOUS
<1>2. PICK ok \in BOOLEAN :
        /\ ok => mon.deps
        /\ proc' = [x \in Procs |-> IF ok /\ p \in Needy THEN Unused(x, Needs[p]) ELSE proc[x]]
        /\ odd' = odd \cup (IF mon.deps /\ ~ok THEN {"unlisted"} ELSE {})
  BY <1>1 DEF CleanDeps, Lists
<1>3. /\ mon.pc = "deps" /\ mon' = [mon EXCEPT !.pc = "clean", !.deps = FALSE]
      /\ mon \in Mon /\ pc' = pc /\ job' = job /\ ProcOK
  BY CountedFacts DEF CleanDeps, Carries
<1>4. mon'.pc = "clean"
  BY <1>3 DEF Mon
<1>5. \A x : ~MonHolds(x)'
  BY <1>4 DEF MonHolds
<1>6. \A u \in Workers : Stationary(u)
  BY <1>3 DEF Stationary
<1>7. \A x \in Procs : proc'[x] = IF ok /\ p \in Needy THEN Unused(x, Needs[p]) ELSE proc[x]
  BY <1>2
<1>8. CASE mon.deps /\ p \in Needy
  <2>1. proc[p].status \in {"absent", "terminated"} /\ p \in Procs
    BY <1>1, <1>3, <1>8, CountedFacts DEF EndingInv, Carries
  <2>2. p \in Holders
    BY <1>1, <1>3, <1>8, HoldersAre DEF MonHolds
  <2>3. proc'[p] = proc[p]
    BY <1>7, <2>1 DEF Unused
  <2>4. \A x \in Programs : proc'[x] = proc[x]
    BY <1>7, CountedFacts DEF Unused, Carries
  <2>5. ASSUME NEW u \in Workers PROVE p \notin Concern(u)
    BY <2>1, ConcernUp DEF Carries, Up
  <2>6. \A d \in Deps : Releases(p, d)
    <3>1. ~ok => Loose'
      BY <1>2, <1>8 DEF Loose
    <3>2. \A d \in Deps : ok => proc'[d] = Unused(d, Needs[p])
      BY <1>7, <1>8, CountedFacts DEF Carries
    <3>3. \A d \in Deps : ~ok => proc'[d] = proc[d]
      BY <1>7, CountedFacts DEF Carries
    <3>4. QED BY <3>1, <3>2, <3>3 DEF Releases
  <2>7. \A x \in Needy : Holding(proc'[x]) <=> Holding(proc[x])
    BY <1>3, <1>7, ReleasedHolds, CountedFacts DEF Carries
  <2>8. Holders' = Holders \ {p}
    <3>1. \A x : /\ Counting("own", x)' <=> Counting("own", x)
                 /\ Counting("incref", x)' <=> Counting("incref", x)
                 /\ Counting("merge", x)' <=> Counting("merge", x)
      BY <1>6, SameCounting
    <3>2. \A x \in Needy : MonHolds(x) <=> x = p
      BY <1>1, <1>3, <1>8 DEF MonHolds
    <3>3. ~Counting("own", p)
      <4>1. SUFFICES ASSUME NEW u \in Workers, pc[u] = "own", p = job[u].p PROVE FALSE
        BY DEF Counting
      <4>2. QED BY <2>5, <4>1 DEF Concern, Loading
    <3>4. p \notin Holders'
      BY <1>5, <2>1, <2>3, <3>1, <3>3, HoldersAre DEF Holding
    <3>5. ASSUME NEW x \in Needy, x # p PROVE x \in Holders' <=> x \in Holders
      BY <1>5, <2>7, <3>1, <3>2, <3>5, HoldersAre
    <3>6. Holders \subseteq Needy /\ Holders' \subseteq Needy
      BY HoldersAre
    <3>7. QED BY <3>4, <3>5, <3>6
  <2>9. QED BY <1>6, <2>2, <2>4, <2>5, <2>6, <2>8, ReleaseKeeps
<1>9. CASE ~(mon.deps /\ p \in Needy)
  <2>1. \A x \in Procs : proc'[x] = proc[x]
    BY <1>2, <1>7, <1>9
  <2>2. \A x \in Needy : /\ Holding(proc'[x]) <=> Holding(proc[x])
                         /\ MonHolds(x)' <=> MonHolds(x)
    BY <1>1, <1>5, <1>9, <2>1, CountedFacts DEF Carries, MonHolds
  <2>3. \A d \in Deps : Counts(proc[d], proc'[d])
    BY <2>1, CountedFacts DEF Carries, Counts
  <2>4. \A u \in Workers : \A x \in Concern(u) : pc'[u] \in Loading => Steady(proc[x], proc'[x])
    BY <2>1, ConcernUp DEF Carries, Steady, Firm
  <2>5. QED BY <1>6, <2>2, <2>3, <2>4, QuietKeeps DEF Carries
<1>10. QED BY <1>8, <1>9

\* What is to be released when a program is told to end.
LEMMA ToldDeps ==
    ASSUME NEW t, NEW p, proc[p] \in Process
    PROVE  Told(t, p).deps <=> job[t].op # "chain" /\ proc[p].deps
<1> DEFINE a == [proc[p] EXCEPT !.deps = FALSE]
           b == [a EXCEPT !.notify = FALSE]
           c == [proc[p] EXCEPT !.notify = FALSE]
           d == [c EXCEPT !.keep = TRUE]
<1>1. a \in Process /\ ~a.deps /\ c \in Process /\ (c.deps <=> proc[p].deps)
  BY DEF Process
<1>2. Told(t, p) = CASE job[t].op = "chain" -> b [] Hears(t, p) -> d [] OTHER -> proc[p]
  BY DEF Told
<1> HIDE DEF a, c
<1>3. ~b.deps /\ (d.deps <=> proc[p].deps)
  BY <1>1 DEF Process
<1>4. job[t].op = "chain" => ~Hears(t, p)
  BY DEF Hears
<1> HIDE DEF b, d
<1>5. QED BY <1>2, <1>3, <1>4

\* Nobody launches a program that a worker tells to end.
LEMMA SendCounts ==
    ASSUME Carries, EndingInv, NEW t \in Workers, Send(t)
    PROVE  DepsInv'
<1> DEFINE l == IF job[t].commit THEN "commit" ELSE "done"
<1>1. PICK p : p = IF job[t].op = "title" THEN job[t].p ELSE runningApp
  OBVIOUS
<1>2. /\ pc[t] = "send" /\ pc' = [pc EXCEPT ![t] = l] /\ mon' = mon
      /\ JobsOK /\ ProcOK
  BY CountedFacts DEF Send, Goto, Carries
<1>3. /\ l \in {"commit", "done"} /\ l \notin Loading
  BY DEF Loading
<1> HIDE DEF l
<1>4. pc'[t] = l /\ \A u \in Workers \ {t} : pc'[u] = pc[u]
  BY <1>2 DEF JobsOK
<1>5. CASE p = NoProc \/ (job[t].op = "title" /\ p \notin Listed)
  <2>1. proc' = proc /\ job' = job
    BY <1>1, <1>5 DEF Send
  <2>2. \A u \in Workers : Stationary(u) \/ Leaves(u)
    BY <1>2, <1>3, <1>4, <2>1 DEF Stationary, Leaves
  <2>3. QED BY <1>2, <2>1, <2>2, StillKeeps
<1>6. CASE ~(p = NoProc \/ (job[t].op = "title" /\ p \notin Listed))
  <2> DEFINE q == Told(t, p)
             h == Hears(t, p)
  <2>1. PICK ok \in BOOLEAN :
          /\ ~q.deps => ok
          /\ proc' = IF ok THEN Terminated(p, q) ELSE [proc EXCEPT ![p] = q]
          /\ odd' = odd \cup
               (IF ok /\ proc[p].status \in {"absent", "terminated"} THEN {"ended"} ELSE {})
               \cup (IF job[t].op = "chain" THEN {"chained"} ELSE {})
               \cup (IF \E u \in Workers : pc[u] \in Loading /\ job[u].p = p
                     THEN {"miscounted"} ELSE {})
    BY <1>1, <1>6 DEF Send, Lists
  <2>2. job' = [job EXCEPT ![t].p = p, ![t].hear = h]
    BY <1>1, <1>6 DEF Send
  <2>3. p \in Programs /\ p \in Procs /\ p \in Needy /\ p \notin Deps /\ proc[p] \in Process
    <3>1. Role(t, "send", job[t]) /\ Fits(t, "send", job[t])
      BY <1>2, CountedFacts DEF Carries
    <3>2. t = "main" => job[t].op # "title"
      BY <3>1 DEF Fits
    <3>3. job[t].op = "title" => job[t].p \in Programs
      BY <3>1, <3>2 DEF Role, RunnerJob, NamedJob, Workers
    <3>4. runningApp \in Apps \cup {NoProc}
      BY DEF Carries, Counted, Inv, JobInv
    <3>5. p \in Programs
      BY <1>1, <1>6, <3>3, <3>4 DEF Programs
    <3>6. QED BY <1>2, <3>5, CountedFacts DEF Carries, ProcOK
  <2>4. /\ q \in Process /\ q.status = proc[p].status
        /\ q.deps <=> job[t].op # "chain" /\ proc[p].deps
    BY <2>3, ToldFlags, ToldDeps
  <2>5. /\ ok => proc[p].status \notin {"absent", "terminated"}
        /\ \A u \in Workers : ~(pc[u] \in Loading /\ job[u].p = p)
        /\ job[t].op = "chain" => Loose'
    BY <2>1 DEF Carries, Plain, Loose
  <2> HIDE DEF q, h
  <2>6. \A u \in Workers : p \notin Concern(u)
    BY <2>3, <2>5, ConcernUp DEF Carries
  <2>7. \A u \in Workers : Stationary(u) \/ Leaves(u)
    <3>1. \A u \in Workers \ {t} : job'[u] = job[u]
      BY <1>2, <2>2 DEF JobsOK
    <3>2. Leaves(t)
      BY <1>2, <1>3, <1>4 DEF Leaves
    <3>3. QED BY <1>4, <3>1, <3>2 DEF Stationary
  <2>8. \A x : MonHolds(x)' <=> MonHolds(x)
    BY <1>2 DEF MonHolds
  <2>9. ~Counting("own", p) /\ ~Counting("incref", p) /\ ~Counting("merge", p)
    <3>1. ~Counting("own", p)
      BY <2>5 DEF Counting, Loading
    <3>2. QED BY <2>3, <3>1, WhoCounts DEF Carries
  <2>10. CASE ~ok \/ ~proc[p].deps
    <3>1. \A x \in Procs \ {p} : proc'[x] = proc[x]
      <4>1. CASE ok
        BY <2>1, <2>4, <2>10, <4>1 DEF Terminated
      <4>2. CASE ~ok
        BY <1>2, <2>1, <2>3, <4>2 DEF ProcOK
      <4>3. QED BY <4>1, <4>2
    <3>2. Holding(proc'[p]) <=> Holding(proc[p])
      <4>1. CASE ~ok
        <5>1. proc'[p] = q /\ (q.deps <=> proc[p].deps)
          BY <1>2, <2>1, <2>3, <2>4, <4>1 DEF ProcOK
        <5>2. QED BY <2>4, <5>1 DEF Holding
      <4>2. CASE ok
        <5> DEFINE r == Notified(q)
        <5>1. r \in Process
          BY <2>4, NotifiedEntry
        <5>2. proc'[p] = [r EXCEPT !.deps = FALSE]
          BY <2>1, <2>3, <4>2 DEF Terminated
        <5> HIDE DEF r
        <5>3. ~proc'[p].deps
          BY <5>1, <5>2 DEF Process
        <5>4. QED BY <2>10, <4>2, <5>3 DEF Holding
      <4>3. QED BY <4>1, <4>2
    <3>3. \A x \in Needy : /\ Holding(proc'[x]) <=> Holding(proc[x])
                           /\ MonHolds(x)' <=> MonHolds(x)
      BY <2>8, <3>1, <3>2, CountedFacts DEF Carries
    <3>4. \A d \in Deps : Counts(proc[d], proc'[d])
      BY <2>3, <3>1, CountedFacts DEF Carries, Counts
    <3>5. \A u \in Workers : \A x \in Concern(u) : pc'[u] \in Loading => Steady(proc[x], proc'[x])
      BY <2>6, <3>1, ConcernUp DEF Carries, Steady, Firm
    <3>6. QED BY <2>7, <3>3, <3>4, <3>5, QuietKeeps DEF Carries
  <2>11. CASE ok /\ proc[p].deps
    <3>1. p \in Holders
      BY <2>3, <2>5, <2>9, <2>11, HoldersAre DEF Holding
    <3>2. \A x \in Procs \ {p} : proc'[x] = IF q.deps THEN Unused(x, Needs[p]) ELSE proc[x]
      BY <2>1, <2>3, <2>11 DEF Terminated
    <3>3. ~proc'[p].deps
      <4> DEFINE r == Notified(q)
      <4>1. r \in Process
        BY <2>4, NotifiedEntry
      <4>2. proc'[p] = [r EXCEPT !.deps = FALSE]
        BY <2>1, <2>3, <2>11 DEF Terminated
      <4> HIDE DEF r
      <4>3. QED BY <4>1, <4>2 DEF Process
    <3>4. \A x : /\ Counting("own", x)' <=> Counting("own", x)
                 /\ Counting("incref", x)' <=> Counting("incref", x)
                 /\ Counting("merge", x)' <=> Counting("merge", x)
      <4>1. \A u \in Workers : Stationary(u) \/ Elsewhere(u)
        BY <2>7 DEF Leaves, Elsewhere, Loading
      <4>2. QED BY <4>1, SameCounting
    <3>5. ~MonHolds(p)
      BY <2>3, <2>5, <2>11 DEF EndingInv, MonHolds
    <3>6. p \notin Holders'
      BY <2>8, <2>9, <3>3, <3>4, <3>5, HoldersAre DEF Holding
    <3>7. ASSUME NEW x \in Needy, x # p PROVE x \in Holders' <=> x \in Holders
      <4>1. Holding(proc'[x]) <=> Holding(proc[x])
        BY <1>2, <3>2, <3>7, ReleasedHolds, CountedFacts DEF Carries
      <4>2. QED BY <2>8, <3>4, <3>7, <4>1, HoldersAre
    <3>8. Holders \subseteq Needy /\ Holders' \subseteq Needy
      BY HoldersAre
    <3>9. Holders' = Holders \ {p}
      BY <3>6, <3>7, <3>8
    <3>10. \A d \in Deps : Releases(p, d)
      BY <2>3, <2>4, <2>5, <2>11, <3>2, CountedFacts DEF Carries, Releases
    <3>11. \A x \in Programs \ {p} : proc'[x] = proc[x]
      BY <2>3, <3>2, CountedFacts DEF Carries, Unused
    <3>12. QED BY <2>6, <2>7, <3>1, <3>9, <3>10, <3>11, ReleaseKeeps
  <2>12. QED BY <2>10, <2>11
<1>7. QED BY <1>5, <1>6

-----------------------------------------------------------------------------
(* The steps that launch nothing and release nothing.                      *)

\* Processes are killed that are not being launched.
LEMMA KilledKeeps ==
    ASSUME Carries, NEW P, proc' = Killed(P), mon' = mon,
           \A u \in Workers : Stationary(u) \/ Leaves(u),
           \A u \in Workers : \A x \in Concern(u) : x \notin P
    PROVE  DepsInv'
<1>1. ASSUME NEW x \in Procs
      PROVE  /\ proc'[x].status = proc[x].status /\ (proc'[x].ran <=> proc[x].ran)
             /\ (proc'[x].deps <=> proc[x].deps) /\ (proc'[x].auto <=> proc[x].auto)
             /\ proc'[x].ref = proc[x].ref
             /\ x \notin P => (proc'[x].alive <=> proc[x].alive)
  <2>1. proc[x] \in Process
    BY CountedFacts DEF Carries, ProcOK
  <2>2. proc'[x] = [proc[x] EXCEPT !.alive = @ /\ x \notin P]
    BY DEF Killed
  <2>3. QED BY <2>1, <2>2 DEF Process
<1>2. \A x \in Needy : /\ Holding(proc'[x]) <=> Holding(proc[x])
                       /\ MonHolds(x)' <=> MonHolds(x)
  BY <1>1, CountedFacts DEF Carries, Holding, MonHolds
<1>3. \A d \in Deps : Counts(proc[d], proc'[d])
  BY <1>1, CountedFacts DEF Carries, Counts
<1>4. \A u \in Workers : \A x \in Concern(u) : pc'[u] \in Loading => Steady(proc[x], proc'[x])
  BY <1>1, ConcernUp DEF Carries, Steady, Firm
<1>5. QED BY <1>2, <1>3, <1>4, QuietKeeps DEF Carries

\* Terminations.
LEMMA TerminationCounts ==
    ASSUME Carries, EndingInv, NEW t \in Workers, Terminating(t)
    PROVE  DepsInv'
<1>0. JobsOK /\ ProcOK /\ job = [job EXCEPT ![t] = job[t]]
  BY CountedFacts DEF Carries, JobsOK
<1>1. CASE Send(t)
  BY <1>1, SendCounts
<1>2. CASE SendAll(t)
  BY <1>2 DEF SendAll, Carries, Plain
<1>3. ASSUME ~Send(t), ~SendAll(t) PROVE DepsInv'
  <2>1. /\ mon' = mon
        /\ pc[t] \in {"list", "kips", "commit", "wait", "wait2", "done", "again"}
    BY <1>3 DEF Terminating, AskRosalina, SendKips, Commit, Woken, TimesOut, Done, Again
  <2>2. \A l : l \in {"idle", "check", "ros", "kips", "commit", "wait", "wait2", "done", "again", "halt"}
                 => l \notin Loading
    BY DEF Loading
  <2>3. \E l \in {"idle", "check", "ros", "kips", "commit", "wait", "wait2", "done", "again", "halt"} :
          \E j : pc' = [pc EXCEPT ![t] = l] /\ job' = [job EXCEPT ![t] = j]
    <3>1. CASE Done(t)
      BY <1>0, <3>1 DEF Done, Goto, Finish
    <3>2. CASE Again(t)
      BY <1>0, <3>2 DEF Again, Goto, Finish
    <3>3. CASE AskRosalina(t) \/ SendKips(t) \/ Woken(t) \/ TimesOut(t)
      BY <1>0, <3>3 DEF AskRosalina, SendKips, Woken, TimesOut, Goto
    <3>4. CASE Commit(t)
      <4>1. job' = [job EXCEPT ![t] = [job[t] EXCEPT !.held = Sent]]
        BY <3>4 DEF Commit
      <4>2. QED BY <3>4, <4>1 DEF Commit, Goto
    <3>5. QED BY <1>3, <3>1, <3>2, <3>3, <3>4 DEF Terminating
  <2>4. PICK l \in {"idle", "check", "ros", "kips", "commit", "wait", "wait2", "done", "again", "halt"} :
          \E j : pc' = [pc EXCEPT ![t] = l] /\ job' = [job EXCEPT ![t] = j]
    BY <2>3
  <2>5. PICK j : job' = [job EXCEPT ![t] = j]
    BY <2>4
  <2>6. l \notin Loading /\ pc[t] \notin {"own", "incref", "merge"} /\ pc' = [pc EXCEPT ![t] = l]
    BY <2>1, <2>2, <2>4
  <2>7. \A u \in Workers : Stationary(u) \/ Leaves(u)
    BY <1>0, <2>5, <2>6, OneLeaves
  <2>8. CASE proc' = proc
    BY <2>1, <2>7, <2>8, StillKeeps
  <2>9. CASE SendKips(t) /\ proc' # proc
    <3>1. \A x \in Needy : proc'[x] = proc[x]
      BY <2>9, CountedFacts DEF Carries, SendKips
    <3>2. \A x \in Needy : MonHolds(x)' <=> MonHolds(x)
      BY <2>1 DEF MonHolds
    <3>3. \A d \in Deps : Counts(proc[d], proc'[d])
      BY <3>1, CountedFacts DEF Carries, Counts
    <3>4. \A u \in Workers : \A x \in Concern(u) : pc'[u] \in Loading => Steady(proc[x], proc'[x])
      BY <3>1, ConcernUp DEF Carries, Steady, Firm
    <3>5. QED BY <2>7, <3>1, <3>2, <3>3, <3>4, QuietKeeps DEF Carries
  <2>10. CASE Commit(t) \/ TimesOut(t)
    <3>1. PICK s \in {"failed", "sent"} : proc' = Killed({p \in Procs : proc[p].status = s})
      BY <2>10 DEF Commit, TimesOut, Sent
    <3>2. \A u \in Workers : \A x \in Concern(u) : x \notin {p \in Procs : proc[p].status = s}
      BY ConcernUp DEF Carries, Up
    <3>3. QED BY <2>1, <2>7, <3>1, <3>2, KilledKeeps
  <2>11. proc' = proc \/ SendKips(t) \/ Commit(t) \/ TimesOut(t)
    BY <1>3 DEF Terminating, AskRosalina, Woken, Done, Again
  <2>12. QED BY <2>8, <2>9, <2>10, <2>11
<1>4. QED BY <1>1, <1>2, <1>3

\* main takes up a command.
LEMMA StartKeeps ==
    ASSUME Carries, proc' = proc, mon' = mon, NEW t \in Workers, NEW j,
           NEW l \in {"idle", "post", "clear", "check", "send", "list"},
           pc[t] \in {"idle", "post"},
           pc' = [pc EXCEPT ![t] = l], job' = [job EXCEPT ![t] = j]
    PROVE  DepsInv'
<1>1. l \notin Loading /\ JobsOK
  BY CountedFacts DEF Carries, Loading
<1>2. QED BY <1>1, OneLeaves, StillKeeps

\* The hand-over.
LEMMA HandOverCounts ==
    ASSUME Carries, Posted \/ Take
    PROVE  DepsInv'
<1>1. CASE Posted
  <2>1. /\ proc' = proc /\ mon' = mon /\ pc["main"] \in {"idle", "post"}
        /\ pc' = [pc EXCEPT !["main"] = "idle"] /\ job' = [job EXCEPT !["main"] = NoJob]
    BY <1>1 DEF Posted, Goto
  <2>2. QED BY <2>1, StartKeeps DEF Workers
<1>2. CASE Take
  <2>1. PICK l \in {"check", "list", "send"} : pc' = [pc EXCEPT !["runner"] = l]
    BY <1>2 DEF Take, Goto
  <2>2. /\ proc' = proc /\ mon' = mon /\ pc["runner"] \in {"idle", "post"}
        /\ job' = [job EXCEPT !["runner"] = task]
    BY <1>2 DEF Take
  <2>3. QED BY <2>1, <2>2, StartKeeps DEF Workers
<1>3. QED BY <1>1, <1>2

\* An entry changes that nobody launches or cleans up.
LEMMA EntryKeeps ==
    ASSUME Carries, NEW p, NEW r, proc' = [proc EXCEPT ![p] = r],
           p \in Procs =>
               /\ Holding(r) <=> Holding(proc[p])
               /\ Counts(proc[p], r)
               /\ Up(proc[p]) => Steady(proc[p], r),
           \A x \in Needy : MonHolds(x)' <=> MonHolds(x),
           \A u \in Workers : Stationary(u) \/ Leaves(u)
    PROVE  DepsInv'
<1>1. \A x \in Procs : proc'[x] = IF x = p THEN r ELSE proc[x]
  BY CountedFacts DEF Carries, ProcOK
<1>2. \A x \in Needy : Holding(proc'[x]) <=> Holding(proc[x])
  BY <1>1, CountedFacts DEF Carries
<1>3. \A d \in Deps : Counts(proc[d], proc'[d])
  BY <1>1, CountedFacts DEF Carries, Counts
<1>4. \A u \in Workers : \A x \in Concern(u) : pc'[u] \in Loading => Steady(proc[x], proc'[x])
  BY <1>1, ConcernUp DEF Carries, Steady, Firm
<1>5. QED BY <1>2, <1>3, <1>4, QuietKeeps DEF Carries

\* The flag of a dependency that was found is cleared.
LEMMA ClearAutoCounts ==
    ASSUME Carries, ClearAuto
    PROVE  DepsInv'
<1> DEFINE p == job["main"].p
           r == [proc[p] EXCEPT !.auto = FALSE]
<1>1. proc' = [proc EXCEPT ![p] = r] /\ mon' = mon
  BY DEF ClearAuto
<1>2. p \in Procs => /\ Holding(r) <=> Holding(proc[p])
                     /\ Counts(proc[p], r) /\ Steady(proc[p], r)
  <2>1. p \in Procs => proc[p] \in Process
    BY CountedFacts DEF Carries, ProcOK
  <2>2. p \in Procs => /\ r.status = proc[p].status /\ (r.alive <=> proc[p].alive)
                       /\ (r.ran <=> proc[p].ran) /\ (r.deps <=> proc[p].deps)
                       /\ ~r.auto /\ r.ref = proc[p].ref
    BY <2>1 DEF Process
  <2> HIDE DEF r
  <2>3. QED BY <2>2 DEF Holding, Counts, Steady, Firm
<1>3. \A u \in Workers : Stationary(u) \/ Leaves(u)
  <2>1. /\ pc' = [pc EXCEPT !["main"] = "idle"] /\ job' = [job EXCEPT !["main"] = NoJob]
        /\ pc["main"] \notin {"own", "incref", "merge"}
    BY DEF ClearAuto, Finish, Goto
  <2>2. "idle" \notin Loading /\ JobsOK /\ "main" \in Workers
    BY CountedFacts DEF Carries, Loading, Workers
  <2>3. QED BY <2>1, <2>2, OneLeaves
<1>4. \A x : MonHolds(x)' <=> MonHolds(x)
  BY <1>1 DEF MonHolds
<1> HIDE DEF r, p
<1>5. QED BY <1>1, <1>2, <1>3, <1>4, EntryKeeps

\* A process ends.
LEMMA EndsCounts ==
    ASSUME Carries, NEW p \in Procs, Ends(p)
    PROVE  DepsInv'
<1>1. /\ proc' = Killed({p}) /\ mon' = mon /\ pc' = pc /\ job' = job
      /\ proc[p].ran /\ (p \in Programs \/ proc[p].status = "sent")
  BY DEF Ends
<1>2. \A u \in Workers : \A x \in Concern(u) : x \notin {p}
  BY <1>1, ConcernUp DEF Carries, Up
<1>3. \A u \in Workers : Stationary(u)
  BY <1>1 DEF Stationary
<1>4. QED BY <1>1, <1>2, <1>3, KilledKeeps

\* UnregisterProcess.
LEMMA UnregisterCounts ==
    ASSUME Carries, NEW p \in Procs, UnregisterProcess(p)
    PROVE  DepsInv'
<1>1. /\ pc' = pc /\ job' = job /\ proc[p].status \in {"absent", "terminated"}
      /\ mon \in Mon
  BY CountedFacts DEF UnregisterProcess, Carries
<1>2. \A u \in Workers : Stationary(u)
  BY <1>1 DEF Stationary
<1>3. CASE p \in Listed
  <2> DEFINE r == Freed(proc[p])
  <2>1. proc' = [proc EXCEPT ![p] = r]
    BY <1>3 DEF UnregisterProcess
  <2>2. r.status = "absent"
    <3>1. proc[p] \in Process
      BY CountedFacts DEF Carries, ProcOK
    <3>2. QED BY <3>1, FreedEntry
  <2> HIDE DEF r
  <2>3. /\ Holding(r) <=> Holding(proc[p])
        /\ Counts(proc[p], r)
        /\ Up(proc[p]) => Steady(proc[p], r)
    BY <1>1, <2>2 DEF Holding, Counts, Up
  <2>4. \A x : MonHolds(x)' <=> MonHolds(x)
    <3>1. CASE mon.pc \in {"deps", "clean", "forget"}
      BY <1>3, <3>1 DEF UnregisterProcess, MonHolds
    <3>2. CASE mon.pc \notin {"deps", "clean", "forget"}
      <4>1. mon' = [mon EXCEPT !.snap = @ \ {p}, !.pc = IF mon.cur = p THEN "scan" ELSE @,
                               !.cur = IF @ = p THEN NoProc ELSE @]
        BY <1>3, <3>2 DEF UnregisterProcess
      <4> DEFINE a == [mon EXCEPT !.snap = @ \ {p}]
                 b == [a EXCEPT !.pc = IF mon.cur = p THEN "scan" ELSE mon.pc]
                 c == [b EXCEPT !.cur = IF mon.cur = p THEN NoProc ELSE mon.cur]
      <4>2. a \in Mon /\ a.pc = mon.pc /\ a.cur = mon.cur
        BY <1>1 DEF Mon
      <4>3. mon' = c
        BY <4>1, <1>1 DEF Mon
      <4> HIDE DEF a
      <4>4. b \in Mon /\ b.pc \in {"scan", mon.pc}
        BY <1>1, <4>2 DEF Mon
      <4> HIDE DEF b
      <4>5. c.pc = b.pc
        BY <4>4 DEF Mon
      <4> HIDE DEF c
      <4>6. mon'.pc # "deps"
        BY <3>2, <4>3, <4>4, <4>5
      <4>7. QED BY <3>2, <4>6 DEF MonHolds
    <3>3. QED BY <3>1, <3>2
  <2>5. QED BY <1>2, <2>1, <2>3, <2>4, EntryKeeps
<1>4. CASE p \notin Listed
  <2>1. proc' = proc /\ mon' = mon
    BY <1>4 DEF UnregisterProcess
  <2>2. QED BY <1>2, <2>1, StillKeeps
<1>5. QED BY <1>3, <1>4

\* The commands.
LEMMA CommandCounts ==
    ASSUME Carries, Command
    PROVE  DepsInv'
<1>1. ASSUME NEW j, Post(j), MainIdle, proc' = proc, mon' = mon PROVE DepsInv'
  <2>1. pc["main"] \in {"idle", "post"} /\ "main" \in Workers
    BY <1>1 DEF MainIdle, Workers
  <2>2. pc' = [pc EXCEPT !["main"] = "post"] /\ job' = [job EXCEPT !["main"] = j]
    BY <1>1 DEF Post, Goto
  <2>3. QED BY <1>1, <2>1, <2>2, StartKeeps
<1>2. CASE TerminateApplication
  <2>1. /\ pc["main"] \in {"idle", "post"} /\ "main" \in Workers /\ proc' = proc /\ mon' = mon
        /\ pc' = [pc EXCEPT !["main"] = "send"]
        /\ job' = [job EXCEPT !["main"] = DoOn("app", NoProc)]
    BY <1>2 DEF TerminateApplication, MainIdle, Workers, Goto
  <2>2. QED BY <2>1, StartKeeps
<1>3. CASE ChainloadHomebrewDirty
  BY <1>1, <1>3 DEF ChainloadHomebrewDirty
<1>4. CASE LaunchFirm
  BY <1>1, <1>4 DEF LaunchFirm
<1>5. ASSUME NEW c \in Programs, PrepareForReboot(c) PROVE DepsInv'
  BY <1>1, <1>5 DEF PrepareForReboot
<1>6. ASSUME NEW p \in Procs, LaunchTitle(p) PROVE DepsInv'
  <2>1. /\ pc["main"] \in {"idle", "post"} /\ "main" \in Workers /\ proc' = proc /\ mon' = mon
        /\ MainIdle
    BY <1>6 DEF LaunchTitle, MainIdle, Workers
  <2>2. CASE p \in Listed
    <3>1. /\ pc' = [pc EXCEPT !["main"] = "clear"]
          /\ job' = [job EXCEPT !["main"] = [NoJob EXCEPT !.op = "found", !.p = p]]
      BY <1>6, <2>2 DEF LaunchTitle, Goto
    <3>2. QED BY <2>1, <3>1, StartKeeps
  <2>3. CASE p \notin Listed /\ p \in Apps
    <3>1. Post(DoOn("launch", p))
      BY <1>6, <2>3 DEF LaunchTitle
    <3>2. QED BY <1>1, <2>1, <3>1
  <2>4. CASE p \notin Listed /\ p \notin Apps
    <3>1. /\ pc' = [pc EXCEPT !["main"] = "check"]
          /\ job' = [job EXCEPT !["main"] = DoOn("launch", p)]
      BY <1>6, <2>4 DEF LaunchTitle, Goto
    <3>2. QED BY <2>1, <3>1, StartKeeps
  <2>5. QED BY <2>2, <2>3, <2>4
<1>7. ASSUME NEW p \in Programs, TerminateProcessOrTitle(p) PROVE DepsInv'
  <2>1. CASE reboot
    <3>1. /\ proc' = Killed({p}) /\ mon' = mon /\ pc' = pc /\ job' = job /\ pc["main"] = "idle"
      BY <1>7, <2>1 DEF TerminateProcessOrTitle, MainIdle
    <3>2. pc["runner"] \notin LaunchPlaces
      BY <2>1, <3>1 DEF Carries, Counted, HandOverInv
    <3>3. \A u \in Workers : Concern(u) = {}
      BY <3>1, <3>2 DEF Concern, Workers, LaunchPlaces, Loading
    <3>4. \A u \in Workers : Stationary(u)
      BY <3>1 DEF Stationary
    <3>5. QED BY <3>1, <3>3, <3>4, KilledKeeps
  <2>2. CASE ~reboot
    <3>1. MainIdle /\ proc' = proc /\ mon' = mon /\ \E j : Post(j)
      BY <1>7, <2>2 DEF TerminateProcessOrTitle
    <3>2. QED BY <1>1, <3>1
  <2>3. QED BY <2>1, <2>2
<1>8. QED
  BY <1>2, <1>3, <1>4, <1>5, <1>6, <1>7, UnregisterCounts DEF Command

-----------------------------------------------------------------------------
(* The monitor.                                                            *)

\* A process that has ended goes on holding what it needs until the monitor releases that.
LEMMA MarkTerminatedCounts ==
    ASSUME Carries, MarkInv, MarkTerminated
    PROVE  DepsInv'
<1>1. PICK p : p = mon.cur
  OBVIOUS
<1> DEFINE keep == proc[p].keep \/ proc[p].notify
           m == [proc[p] EXCEPT !.status = "terminated", !.keep = TRUE]
           r == IF keep THEN m ELSE Freed(proc[p])
           a == [mon EXCEPT !.pc = "deps"]
           b == [a EXCEPT !.deps = proc[p].deps]
           c == [b EXCEPT !.notify = proc[p].notify]
<1>2. /\ mon.pc = "mark" /\ pc' = pc
      /\ proc' = [proc EXCEPT ![p] = r]
      /\ mon' = [mon EXCEPT !.pc = "deps", !.deps = proc[p].deps, !.notify = proc[p].notify]
      /\ job' = [u \in Workers |-> [job[u] EXCEPT !.held = @ \ {p}]]
  BY <1>1 DEF MarkTerminated
<1>3. /\ p \in Procs /\ proc[p] \in Process /\ ~proc[p].alive /\ mon \in Mon
      /\ proc[p].status \notin {"absent", "terminated"}
  BY <1>1, <1>2, CountedFacts DEF Carries, Counted, Inv, ListInv, MonInv, MarkInv, Listed, ProcOK
<1>4. r.status \in {"absent", "terminated"}
  BY <1>3, FreedEntry
<1> HIDE DEF r
<1>5. proc'[p] = r /\ \A x \in Procs \ {p} : proc'[x] = proc[x]
  BY <1>2, <1>3, CountedFacts DEF Carries, ProcOK
<1>6. mon'.pc = "deps" /\ mon'.cur = p /\ (mon'.deps <=> proc[p].deps)
  <2>1. a.pc = "deps" /\ a.cur = p /\ a \in Mon
    BY <1>1, <1>3 DEF Mon
  <2>2. mon' = c
    BY <1>2
  <2> HIDE DEF a
  <2>3. b.pc = "deps" /\ b.cur = p /\ b \in Mon /\ (b.deps <=> proc[p].deps)
    BY <1>3, <2>1 DEF Mon, Process
  <2> HIDE DEF b
  <2>4. c.pc = "deps" /\ c.cur = p /\ (c.deps <=> proc[p].deps)
    BY <2>3 DEF Mon
  <2> HIDE DEF c
  <2>5. QED BY <2>2, <2>4
<1>7. \A u \in Workers : Stationary(u)
  <2>1. /\ MarkTerminated => Monitoring
        /\ JobsOK
    BY CountedFacts DEF Carries, Monitoring
  <2>2. QED BY <2>1, MonitorJobs DEF Stationary
<1>8. \A x \in Concern("main") \cup Concern("runner") : x # p
  <2>1. \A u \in Workers : p \notin Concern(u)
    BY <1>3, ConcernUp DEF Carries, Up
  <2>2. QED BY <2>1 DEF Workers
<1>9. \A x : /\ Counting("own", x)' <=> Counting("own", x)
             /\ Counting("incref", x)' <=> Counting("incref", x)
             /\ Counting("merge", x)' <=> Counting("merge", x)
  BY <1>7, SameCounting
<1>10. \A u \in Workers : p \notin Concern(u)
  BY <1>8 DEF Workers
<1>11. ~Counting("own", p) /\ ~Counting("incref", p) /\ ~Counting("merge", p)
  BY <1>10 DEF Counting, Concern, Reach, WithDep, Loading
<1>12. Holders' = Holders
  <2>1. \A x : ~MonHolds(x)
    BY <1>2 DEF MonHolds
  <2>2. p \in Needy => (p \in Holders' <=> p \in Holders)
    <3>1. MonHolds(p)' <=> proc[p].deps
      BY <1>6 DEF MonHolds
    <3>2. ~Holding(proc'[p]) /\ (Holding(proc[p]) <=> proc[p].deps)
      BY <1>3, <1>4, <1>5 DEF Holding
    <3>3. QED BY <1>9, <1>11, <2>1, <3>1, <3>2, HoldersAre
  <2>3. ASSUME NEW x \in Needy, x # p PROVE x \in Holders' <=> x \in Holders
    <3>1. ~MonHolds(x)' /\ proc'[x] = proc[x]
      BY <1>5, <1>6, <2>3, CountedFacts DEF Carries, MonHolds
    <3>2. QED BY <1>9, <2>1, <2>3, <3>1, HoldersAre
  <2>4. Holders \subseteq Needy /\ Holders' \subseteq Needy
    BY HoldersAre
  <2>5. QED BY <2>2, <2>3, <2>4
<1>13. ASSUME NEW d \in Deps PROVE SameCount(d)
  <2>1. CASE d = p
    BY <1>4, <1>5, <2>1 DEF SameCount
  <2>2. CASE d # p
    BY <1>5, <1>9, <2>2, CountedFacts DEF Carries, SameCount
  <2>3. QED BY <2>1, <2>2
<1>14. ASSUME NEW u \in Workers PROVE Stays(u)
  <2>1. \A x \in Concern(u) : proc'[x] = proc[x]
    BY <1>5, <1>10, ConcernUp DEF Carries
  <2>2. Users(job[u].dep)' \subseteq Users(job[u].dep)
    BY <1>7, <1>12 DEF Users, Stationary
  <2>3. pc[u] \in Early => job[u].dep \in Concern(u)
    BY DEF Concern, Reach, Early, WithDep, Loading
  <2>4. QED BY <1>7, <2>1, <2>2, <2>3 DEF Stays, Firm, Steady
<1>15. \A u, v \in Workers : Apart(u, v)'
  BY <1>7, StationaryNarrows, NarrowApart, CountedFacts DEF Carries
<1>16. QED BY <1>12, <1>13, <1>14, <1>15, CalmKeeps DEF Carries

\* The monitor's steps keep the counts.
LEMMA MonitorCounts ==
    ASSUME Carries, MarkInv, EndingInv, Monitoring
    PROVE  DepsInv'
<1>0. mon \in Mon /\ JobsOK
  BY CountedFacts DEF Carries
<1>1. \A u \in Workers : Stationary(u)
  BY <1>0, MonitorJobs DEF Stationary
<1>2. CASE Scan \/ Decide \/ WaitNew \/ Clean \/ \E p \in Procs : WaitEnded(p)
  <2>1. proc' = proc /\ mon.pc # "deps"
    BY <1>2 DEF Scan, Decide, WaitNew, WaitEnded, Clean
  <2>2. mon'.pc # "deps"
    <3>1. CASE Scan
      BY <1>0, <3>1 DEF Scan, Mon
    <3>2. CASE Decide
      BY <1>0, <3>2 DEF Decide, Mon
    <3>3. CASE WaitNew
      BY <1>0, <3>3 DEF WaitNew, Mon
    <3>4. CASE Clean
      BY <1>0, <3>4 DEF Clean, Mon
    <3>5. ASSUME NEW p \in Procs, WaitEnded(p) PROVE mon'.pc # "deps"
      BY <1>0, <3>5 DEF WaitEnded, Mon
    <3>6. QED BY <1>2, <3>1, <3>2, <3>3, <3>4, <3>5
  <2>3. \A x \in Needy : MonHolds(x)' <=> MonHolds(x)
    BY <2>1, <2>2 DEF MonHolds
  <2>4. \A d \in Deps : Counts(proc[d], proc'[d])
    BY <2>1 DEF Counts
  <2>5. \A u \in Workers : \A x \in Concern(u) : pc'[u] \in Loading => Steady(proc[x], proc'[x])
    BY <2>1 DEF Steady, Firm
  <2>6. \A x \in Needy : Holding(proc'[x]) <=> Holding(proc[x])
    BY <2>1
  <2>7. QED BY <1>1, <2>3, <2>4, <2>5, <2>6, QuietKeeps DEF Carries
<1>3. CASE CleanRegs
  <2>1. PICK p : p = mon.cur
    OBVIOUS
  <2> DEFINE v == proc[p].reg /\ p \in Kips
             r == [proc[p] EXCEPT !.reg = v]
  <2>2. proc' = [proc EXCEPT ![p] = r] /\ mon.pc = "clean"
    BY <1>3, <2>1 DEF CleanRegs
  <2>3. mon'.pc # "deps"
    BY <1>0, <1>3 DEF CleanRegs, Mon
  <2>4. p \in Procs => /\ Holding(r) <=> Holding(proc[p])
                       /\ Counts(proc[p], r) /\ Steady(proc[p], r)
    <3>1. p \in Procs => proc[p] \in Process
      BY CountedFacts DEF Carries, ProcOK
    <3>2. p \in Procs => /\ r.status = proc[p].status /\ (r.alive <=> proc[p].alive)
                         /\ (r.ran <=> proc[p].ran) /\ (r.deps <=> proc[p].deps)
                         /\ (r.auto <=> proc[p].auto) /\ r.ref = proc[p].ref
      BY <3>1 DEF Process
    <3> HIDE DEF r
    <3>3. QED BY <3>2 DEF Holding, Counts, Steady, Firm
  <2> HIDE DEF r
  <2>5. \A x \in Needy : MonHolds(x)' <=> MonHolds(x)
    BY <2>2, <2>3 DEF MonHolds
  <2>6. QED BY <1>1, <2>2, <2>4, <2>5, EntryKeeps
<1>4. QED
  BY <1>2, <1>3, MarkTerminatedCounts, CleanDepsCounts DEF Monitoring
-----------------------------------------------------------------------------
(* What the monitor marks and cleans up.                                   *)

\* A launch leaves the status of an entry, or makes it a running one.
LEMMA LaunchStatus ==
    ASSUME ProcOK, NEW t \in Workers, Launching(t), NEW x \in Procs
    PROVE  proc'[x].status \in {proc[x].status, "running"}
<1>1. proc[x] \in Process /\ DOMAIN proc = Procs
  BY DEF ProcOK
<1>2. Loaded.status = "running"
  BY DEF Loaded, Absent
<1>3. CASE Check(t) \/ LoadRefused(t) \/ DepsDone(t) \/ \E d \in Deps : DepRaced(t, d) \/ DepRefused(t, d)
  BY <1>3 DEF Check, LoadRefused, DepsDone, DepRaced, DepRefused
<1>4. CASE Load(t) \/ \E d \in Deps : LoadDep(t, d)
  BY <1>1, <1>2, <1>4 DEF Load, LoadDep
<1>5. CASE Register(t) \/ RegisterDep(t) \/ RunDep(t) \/ OwnDeps(t) \/ Fail(t) \/ DepFails(t)
  BY <1>1, <1>5 DEF Register, RegisterDep, RunDep, OwnDeps, Fail, DepFails, Process
<1>6. CASE FlagDep(t)
  <2> DEFINE d == job[t].dep
             m == [proc[d] EXCEPT !.auto = TRUE]
             r == [m EXCEPT !.deps = TRUE]
  <2>1. proc' = proc \/ proc' = [proc EXCEPT ![d] = r]
    BY <1>6 DEF FlagDep
  <2>2. d \in Procs => m \in Process /\ m.status = proc[d].status
    BY DEF ProcOK, Process
  <2> HIDE DEF m
  <2>3. d \in Procs => r.status = proc[d].status
    BY <2>2 DEF Process
  <2> HIDE DEF r
  <2>4. QED BY <1>1, <2>1, <2>3
<1>7. CASE IncrefDep(t)
  BY <1>1, <1>7 DEF IncrefDep, Process
<1>8. CASE Run(t)
  <2> DEFINE p == job[t].p
             m == [proc[p] EXCEPT !.ran = TRUE]
             r == [m EXCEPT !.notify = proc[p].notify \/ p \in Apps]
  <2>1. p \in Procs => m \in Process /\ m.status = proc[p].status /\ m.notify = proc[p].notify
    BY DEF ProcOK, Process
  <2>2. proc' = proc \/ proc' = [proc EXCEPT ![p] = r]
    BY <1>1, <1>8 DEF Run
  <2> HIDE DEF m
  <2>3. p \in Procs => r.status = proc[p].status
    BY <2>1 DEF Process
  <2> HIDE DEF r
  <2>4. QED BY <1>1, <2>2, <2>3
<1>9. ASSUME NEW y, Merge(t, y) PROVE proc'[x].status = proc[x].status
  BY <1>1, <1>9 DEF Merge, Process
<1>10. CASE CountDeps(t) \/ MergeDep(t)
  BY <1>9, <1>10 DEF CountDeps, MergeDep
<1>11. QED
  BY <1>3, <1>4, <1>5, <1>6, <1>7, <1>8, <1>10 DEF Launching

\* One that is marked as terminated is told to end only if odd says so; the built-in
\* processes apart.
LEMMA TerminationStatus ==
    ASSUME Inv, Plain', NEW t \in Workers, Terminating(t), NEW x \in Needy,
           proc[x].status = "terminated"
    PROVE  proc'[x].status = "terminated"
<1>1. ProcOK /\ JobsOK /\ RestOK /\ x \in Procs /\ x \notin Kips
  BY TypeParts, NeedsAssumption DEF Inv, Procs, Needy, Programs
<1>2. proc[x] \in Process
  BY <1>1 DEF ProcOK
<1>3. CASE AskRosalina(t) \/ Woken(t) \/ Done(t) \/ Again(t)
  BY <1>3 DEF AskRosalina, Woken, Done, Again
<1>4. CASE Commit(t) \/ TimesOut(t)
  BY <1>1, <1>2, <1>4 DEF Commit, TimesOut, Killed, Process
<1>5. CASE SendKips(t)
  BY <1>1, <1>5 DEF SendKips
<1>6. CASE SendAll(t)
  BY <1>6 DEF SendAll, Plain
<1>7. CASE Send(t)
  <2> DEFINE p == IF job[t].op = "title" THEN job[t].p ELSE runningApp
  <2>1. PICK r : r = p
    OBVIOUS
  <2>2. CASE proc' = proc
    BY <2>2
  <2>3. CASE proc' # proc
    <3>1. /\ r # NoProc
          /\ \E ok \in BOOLEAN :
               /\ proc' = IF ok THEN Terminated(r, Told(t, r)) ELSE [proc EXCEPT ![r] = Told(t, r)]
               /\ ok /\ proc[r].status \in {"absent", "terminated"} => "ended" \in odd'
      <4>1. QED BY <1>7, <2>1, <2>3 DEF Send, Lists
    <3>2. r \in Procs
      BY <1>1, <2>1, <3>1 DEF JobsOK, Job, RestOK
    <3>3. PICK q : q = Told(t, r)
      OBVIOUS
    <3>4. q.status = proc[r].status
      BY <1>1, <3>2, <3>3, ToldFlags DEF ProcOK
    <3>5. PICK ok \in BOOLEAN :
               /\ proc' = IF ok THEN Terminated(r, q) ELSE [proc EXCEPT ![r] = q]
               /\ ok /\ proc[r].status \in {"absent", "terminated"} => "ended" \in odd'
      BY <3>1, <3>3
    <3>6. CASE ~ok
      BY <1>1, <3>2, <3>4, <3>5, <3>6 DEF ProcOK
    <3>7. CASE ok
      <4>1. x # r
        BY <3>5, <3>7 DEF Plain
      <4>2. Unused(x, Needs[r]) = proc[x]
        BY DEF Unused
      <4>3. Terminated(r, q)[x] = proc[x]
        BY <1>1, <4>1, <4>2 DEF Terminated
      <4>4. QED BY <3>5, <3>7, <4>3
    <3>8. QED BY <3>6, <3>7
  <2>4. QED BY <2>2, <2>3
<1>8. QED BY <1>3, <1>4, <1>5, <1>6, <1>7 DEF Terminating

\* The steps of no launch, termination or monitor keep the status, or free the entry.
LEMMA OtherStatus ==
    ASSUME ProcOK, mon \in Mon,
           Command \/ ClearAuto \/ Posted \/ Take \/ (\E p \in Procs : Ends(p)), NEW x \in Procs
    PROVE  proc'[x].status \in {proc[x].status, "absent"}
<1>1. proc[x] \in Process /\ DOMAIN proc = Procs
  BY DEF ProcOK
<1>2. \A P : [proc[x] EXCEPT !.alive = @ /\ x \notin P].status = proc[x].status
  BY <1>1 DEF Process
<1>3. \A P : proc' = Killed(P) => proc'[x].status = proc[x].status
  BY <1>2 DEF Killed
<1>4. CASE TerminateApplication \/ ChainloadHomebrewDirty \/ LaunchFirm \/ Posted \/ Take
  BY <1>4 DEF TerminateApplication, ChainloadHomebrewDirty, LaunchFirm, Posted, Take
<1>5. ASSUME NEW c \in Programs, PrepareForReboot(c) PROVE proc' = proc
  BY <1>5 DEF PrepareForReboot
<1>6. ASSUME NEW p \in Programs, TerminateProcessOrTitle(p) PROVE proc' = proc \/ proc' = Killed({p})
  BY <1>6 DEF TerminateProcessOrTitle
<1>7. ASSUME NEW p \in Procs, Ends(p) PROVE proc' = Killed({p})
  BY <1>7 DEF Ends
<1>8. ASSUME NEW p \in Procs, LaunchTitle(p) PROVE proc' = proc
  BY <1>8 DEF LaunchTitle
<1>9. CASE ClearAuto
  BY <1>1, <1>9 DEF ClearAuto, Process
<1>10. ASSUME NEW p \in Procs, UnregisterProcess(p)
       PROVE  proc'[x].status \in {proc[x].status, "absent"}
  <2>1. \A q : Freed(q).status = "absent"
    BY DEF Freed, Absent
  <2>2. proc' = proc \/ proc' = [proc EXCEPT ![p] = Freed(proc[p])]
    BY <1>10 DEF UnregisterProcess
  <2>3. QED BY <1>1, <2>1, <2>2
<1>11. QED
  BY <1>3, <1>4, <1>5, <1>6, <1>7, <1>8, <1>9, <1>10 DEF Command

\* The monitor marks a listed process once: what it is about to mark, has not been.
LEMMA MarkStep ==
    ASSUME Inv, Inv', MarkInv, [Next]_vars
    PROVE  MarkInv'
<1>1. /\ ProcOK /\ JobsOK /\ RestOK /\ Jobs /\ MonInv /\ MonInv' /\ mon \in Mon
      /\ \A x \in Procs : proc[x] \in Process
  BY TypeParts DEF Inv, JobInv, ListInv, MonOK, ProcOK
<1>2. mon.snap \subseteq Procs /\ (mon.pc = "mark" => mon.cur \in Procs)
  BY <1>1 DEF MonInv, Listed
<1>3. ASSUME Mild PROVE MarkInv'
  <2>1. mon' = mon
    BY <1>3 DEF Mild
  <2>2. \A x \in Procs : proc'[x].status = "terminated" => proc[x].status = "terminated"
    BY <1>3 DEF Mild, Touches, Kept, ToldEntry
  <2>3. QED BY <1>2, <2>1, <2>2 DEF MarkInv
<1>4. ASSUME mon'.pc \in {"deps", "clean", "forget"} PROVE MarkInv'
  BY <1>1, <1>4 DEF MonInv, MarkInv
<1>5. CASE Scan
  BY <1>1, <1>5 DEF Scan, Mon, MarkInv
<1>6. CASE Decide
  BY <1>1, <1>6 DEF Decide, Mon, MarkInv
<1>7. CASE WaitNew
  BY <1>1, <1>7 DEF WaitNew, Mon, MarkInv
<1>8. ASSUME NEW p \in Procs, WaitEnded(p) PROVE MarkInv'
  BY <1>1, <1>8 DEF WaitEnded, Mon, MarkInv
<1>9. CASE MarkTerminated \/ CleanDeps \/ CleanRegs
  <2>1. mon'.pc \in {"deps", "clean", "forget"}
    BY <1>1, <1>9 DEF MarkTerminated, CleanDeps, CleanRegs, Mon
  <2>2. QED BY <1>4, <2>1
<1>10. CASE Clean
  <2>1. mon'.pc = "scan" /\ mon'.snap = mon.snap /\ proc' = proc
    BY <1>1, <1>10 DEF Clean, Mon
  <2>2. QED BY <2>1 DEF MarkInv
<1>11. ASSUME NEW p \in Procs, UnregisterProcess(p) PROVE MarkInv'
  <2>1. \A x \in Procs : proc'[x].status \in {proc[x].status, "absent"}
    BY <1>1, <1>11, OtherStatus DEF Command
  <2>2. /\ mon'.snap \subseteq mon.snap
        /\ mon'.pc = "mark" => mon.pc = "mark" /\ mon'.cur = mon.cur
    BY <1>1, <1>11 DEF UnregisterProcess, Mon
  <2>3. QED BY <1>2, <2>1, <2>2 DEF MarkInv
<1>12. CASE UNCHANGED vars
  BY <1>12 DEF MarkInv
<1>13. ASSUME NEW t \in Workers, Launching(t) \/ Terminating(t) PROVE MarkInv'
  BY <1>1, <1>3, <1>13, LaunchMild, TerminationMild
<1>14. CASE Command \/ ClearAuto \/ Posted \/ Take \/ \E p \in Procs : Ends(p)
  BY <1>1, <1>3, <1>11, <1>14, CommandMild
<1>15. QED
  BY <1>5, <1>6, <1>7, <1>8, <1>9, <1>10, <1>12, <1>13, <1>14 DEF Next, Monitoring

\* Nor is a process that is being cleaned up listed again, or told to end.
LEMMA EndingStep ==
    ASSUME Inv, Inv', Plain', EndingInv, [Next]_vars
    PROVE  EndingInv'
<1>1. /\ ProcOK /\ JobsOK /\ RestOK /\ Jobs /\ MonInv /\ MonInv' /\ mon \in Mon
      /\ EndedInv' /\ Needy \subseteq Procs
  BY TypeParts DEF Inv, JobInv, ListInv, MonOK, Procs
<1>2. CASE UNCHANGED vars
  BY <1>2 DEF EndingInv
<1>3. CASE Monitoring
  <2>1. CASE MarkTerminated
    <3> DEFINE p == mon.cur
               r == [proc[p] EXCEPT !.status = "terminated"]
               s == [r EXCEPT !.keep = TRUE]
    <3>1. p \in Procs /\ proc[p] \in Process
      BY <1>1, <2>1 DEF MarkTerminated, MonInv, ProcOK
    <3>2. r \in Process /\ r.status = "terminated"
      BY <3>1 DEF Process, Statuses
    <3>3. proc'[p] \in {s, Freed(proc[p])} /\ mon'.cur = p
      BY <1>1, <2>1, <3>1 DEF MarkTerminated, ProcOK, Mon
    <3> HIDE DEF r
    <3>4. s.status = "terminated"
      BY <3>2 DEF Process
    <3>5. Freed(proc[p]).status = "absent"
      BY DEF Freed, Absent
    <3> HIDE DEF s
    <3>6. QED BY <3>3, <3>4, <3>5 DEF EndingInv
  <2>2. CASE Scan \/ Decide \/ WaitNew \/ CleanDeps \/ CleanRegs \/ Clean \/ \E p \in Procs : WaitEnded(p)
    <3>1. mon'.pc # "deps"
      BY <1>1, <2>2 DEF Scan, Decide, WaitNew, CleanDeps, CleanRegs, Clean, WaitEnded, Mon
    <3>2. QED BY <3>1 DEF EndingInv
  <2>3. QED BY <1>3, <2>1, <2>2 DEF Monitoring
<1>4. CASE Command \/ ClearAuto \/ Posted \/ Take \/ \E p \in Procs : Ends(p)
  <2>1. \A x \in Procs : proc'[x].status \in {proc[x].status, "absent"}
    BY <1>1, <1>4, OtherStatus
  <2>2. mon'.pc = "deps" => mon.pc = "deps" /\ mon'.cur = mon.cur
    <3>1. ASSUME NEW p \in Procs, UnregisterProcess(p)
          PROVE  mon'.pc = "deps" => mon.pc = "deps" /\ mon'.cur = mon.cur
      BY <1>1, <3>1 DEF UnregisterProcess, Mon
    <3>2. ASSUME \A p \in Procs : ~UnregisterProcess(p) PROVE mon' = mon
      BY <1>1, <1>4, <3>2, CommandMild DEF Mild
    <3>3. QED BY <3>1, <3>2
  <2>3. QED BY <1>1, <2>1, <2>2 DEF EndingInv
<1>5. ASSUME NEW t \in Workers, Launching(t) PROVE EndingInv'
  <2>1. mon' = mon
    BY <1>1, <1>5, LaunchMild DEF Mild
  <2>2. ASSUME mon.pc = "deps", mon.cur \in Needy
        PROVE  proc'[mon.cur].status \in {"absent", "terminated"}
    <3>1. proc'[mon.cur].status \in {proc[mon.cur].status, "running"}
      BY <1>1, <1>5, <2>2, LaunchStatus
    <3>2. proc[mon.cur].status \in {"absent", "terminated"}
      BY <2>2 DEF EndingInv
    <3>3. ~Loads(mon.cur)
      BY <2>2 DEF Loads, Free, Cleaning
    <3>4. Mild
      BY <1>1, <1>5, LaunchMild
    <3>5. QED BY <1>1, <2>2, <3>1, <3>2, <3>3, <3>4 DEF Mild, Touches, Kept, ToldEntry
  <2>3. QED BY <2>1, <2>2 DEF EndingInv
<1>6. ASSUME NEW t \in Workers, Terminating(t) PROVE EndingInv'
  <2>1. Mild
    BY <1>1, <1>6, TerminationMild
  <2>2. ASSUME mon.pc = "deps", mon.cur \in Needy
        PROVE  proc'[mon.cur].status \in {"absent", "terminated"}
    <3>1. proc[mon.cur].status \in {"absent", "terminated"}
      BY <2>2 DEF EndingInv
    <3>2. CASE proc[mon.cur].status = "terminated"
      BY <1>6, <2>2, <3>2, TerminationStatus
    <3>3. CASE proc[mon.cur].status = "absent"
      <4>1. ~Loads(mon.cur)
        BY <2>2 DEF Loads, Free, Cleaning
      <4>2. QED BY <1>1, <2>1, <2>2, <3>3, <4>1 DEF Mild, Touches, Kept, ToldEntry
    <3>4. QED BY <3>1, <3>2, <3>3
  <2>3. QED BY <2>1, <2>2 DEF Mild, EndingInv
<1>7. QED BY <1>2, <1>3, <1>4, <1>5, <1>6 DEF Next

-----------------------------------------------------------------------------
(* The theorem.                                                            *)

\* Every step keeps the counts.
LEMMA DepsStep ==
    ASSUME Carries, MarkInv, EndingInv, [Next]_vars
    PROVE  DepsInv'
<1>1. CASE UNCHANGED vars
  <2>1. \A u \in Workers : Stationary(u)
    BY <1>1 DEF Stationary
  <2>2. QED BY <1>1, <2>1, StillKeeps
<1>2. QED
  BY <1>1, CommandCounts, ClearAutoCounts, HandOverCounts, MonitorCounts, LaunchKeeps,
     TerminationCounts, EndsCounts DEF Next

\* At first nothing is launched, and nobody holds a dependency.
LEMMA CountInit == Init => CountInv
<1> SUFFICES ASSUME Init PROVE CountInv
  OBVIOUS
<1>1. /\ pc = [t \in Workers |-> "idle"] /\ job = [t \in Workers |-> NoJob] /\ task = NoJob
      /\ ready /\ ~reboot /\ mon.pc = "scan" /\ mon.snap = {}
      /\ proc = [p \in Procs |-> IF p \in Kips THEN Kip ELSE Absent]
  BY DEF Init
<1>2. NoJob.op = "none" /\ NoJob.merged = {}
  BY DEF NoJob
<1>3. RolesInv
  BY <1>1, <1>2 DEF RolesInv, Role, RunnerJob, AppJob, NamedJob
<1>4. HandOverInv
  BY <1>1, <1>2 DEF HandOverInv, Workers, LaunchPlaces, Loading
<1>5. MarkInv /\ EndingInv
  BY <1>1 DEF MarkInv, EndingInv
<1>6. \A x \in Needy : proc[x] = Absent
  BY <1>1, NeedsAssumption DEF Procs, Needy, Programs
<1>7. Absent.status = "absent"
  BY DEF Absent
<1>8. \A t \in Workers : pc[t] = "idle"
  BY <1>1
<1>9. Holders = {}
  BY <1>1, <1>6, <1>7, <1>8 DEF Holders, Counting
<1>10. DependencyCount
  BY <1>6, <1>7 DEF DependencyCount, Needy
<1>11. \A t \in Workers : Built(t) /\ Fresh(t)
  BY <1>8 DEF Built, Fresh, Loading, WithDep
<1>12. \A t, u \in Workers : Apart(t, u)
  BY <1>8 DEF Apart, WithDep
<1>13. DepsInv
  BY <1>9, <1>10, <1>11, <1>12, FS_EmptySet DEF DepsInv
<1>14. QED BY <1>3, <1>4, <1>5, <1>13 DEF CountInv

\* Every step keeps CountInv.
LEMMA CountStep == Inv /\ CountInv /\ [Next]_vars => CountInv'
<1> SUFFICES ASSUME Inv, CountInv, [Next]_vars PROVE CountInv'
  OBVIOUS
<1>1. Inv' /\ RolesInv' /\ HandOverInv' /\ MarkInv' /\ (Loose => Loose') /\ (Plain' => Plain)
  BY InvStep, RolesStep, MarkStep, OddGrows DEF CountInv
<1>2. ASSUME Plain' PROVE DepsInv' /\ EndingInv'
  <2>1. DepsInv /\ EndingInv /\ MarkInv /\ Carries
    BY <1>1, <1>2 DEF CountInv, Carries, Counted
  <2>2. QED BY <1>1, <1>2, <2>1, DepsStep, EndingStep
<1>3. QED BY <1>1, <1>2 DEF CountInv

\* CountInv is inductive with Inv: main launches the applets and the task runner the
\* applications, no launch is left when main serves a command after PrepareForReboot, a
\* dependency is launched by one worker and used by nobody else until its count is right,
\* those whose needs listMergeUniqueDependencies has merged run on, and the counts are those
\* of the holders.
THEOREM CountInvariant == Spec => []CountInv
  BY InvHolds, CountInit, CountStep, PTL DEF Spec

\* The reference count of an autoloaded dependency is the number of programs and dependencies
\* that will release it (ProcessData_Incref, terminateUnusedDependencies): it is told to end
\* exactly when the last of them has ended, whatever launches and terminations interleave,
\* unless odd says that the code has lost count.
THEOREM DependenciesAreCounted == Spec => []DependencyCount
<1>1. CountInv => DependencyCount
  BY DEF CountInv, DepsInv, DependencyCount, Plain
<1>2. QED BY <1>1, CountInvariant, PTL

=============================================================================
