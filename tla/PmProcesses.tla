----------------------------- MODULE PmProcesses ------------------------------
(***************************************************************************)
(* The processes that pm launches and terminates (sysmodules/pm).  Three   *)
(* threads share the process list and one termination event:               *)
(*   main     the service thread; runs the short commands itself           *)
(*   runner   the task runner, to which the long commands are handed       *)
(*   monitor  waits for the processes and cleans up after those that end   *)
(* A section under the lock of the list is one step; every wait, and every *)
(* gap between two sections, is a step boundary.  A title is loaded again   *)
(* only once the monitor is done with its last process, so a process and    *)
(* its entry are named by the title, and a freed entry keeps what is in it; *)
(* that it is handed to another title while a pointer to it is left, is not *)
(* modelled.  Debugged launches and memory limits are left out.             *)
(***************************************************************************)
EXTENDS Naturals, FiniteSets

CONSTANTS Apps,          \* normal applications, launched with NOTIFY_TERMINATION
          Applets,       \* launched by themselves, with their dependencies
          Deps,          \* system modules launched for others
          Kips,          \* the built-in PXI and Rosalina
          Needs,         \* the dependencies in the extended header of a title
          Commands,      \* the sets of commands that clients may come to send
          MaxLaunches,   \* bound on the launches of Apps and Applets
          MaxDebt,       \* bound on the launches that fail late
          LoadFails      \* fs, sm, the kernel and the loader can refuse

Programs == Apps \cup Applets
Needy == Programs \cup Deps
Procs == Needy \cup Kips
NoProc == "noProc"
Workers == {"main", "runner"}
Monitor == "monitor"
Nobody == "nobody"
RefMod == 256

ASSUME NeedsAssumption ==
    /\ Needs \in [Needy -> SUBSET Deps]
    /\ NoProc \notin Procs
    /\ Programs \cap (Deps \cup Kips) = {} /\ Apps \cap Applets = {} /\ Deps \cap Kips = {}
ASSUME BoundsAssumption ==
    MaxLaunches \in Nat /\ MaxDebt \in Nat /\ LoadFails \in BOOLEAN

VARIABLES
    proc,          \* ProcessData, and what the kernel and sm know of the process
    runningApp,    \* runningApplicationData
    waiting,       \* waitingForTermination
    allNotified,   \* allNotifiedTerminationEvent, signalled
    newProcess,    \* newProcessEvent, signalled
    reboot,        \* preparingForReboot
    owner,         \* who holds the lock of the list between two steps
    debt,          \* how far below zero the count of that lock has gone
    mon,           \* the monitor
    pc, job,       \* the workers
    ready, task,   \* readyEvent and the task of the task runner
    clients,       \* the commands that clients send in this behaviour
    told,          \* processes whose end they have been notified of
    launches,      \* how many launches there have been
    odd            \* history: what has happened that pm does not cope with

listVars  == <<proc, runningApp>>
eventVars == <<waiting, allNotified, newProcess>>
lockVars  == <<owner, debt>>
workVars  == <<pc, job>>
taskVars  == <<ready, task>>
restVars  == <<reboot, clients, told, launches>>
vars == <<listVars, eventVars, lockVars, mon, workVars, taskVars, restVars, odd>>

Statuses == {"absent", "running", "sent", "failed", "terminated"}
Process == [status : Statuses,     \* terminationStatus, or not in the list
            alive : BOOLEAN,       \* the kernel process exists
            ran : BOOLEAN,         \* svcRun
            reg : BOOLEAN,         \* registered with sm and fs
            deps : BOOLEAN,        \* DEPENDENCIES_LOADED
            auto : BOOLEAN,        \* AUTOLOADED
            notify : BOOLEAN,      \* NOTIFY_TERMINATION
            keep : BOOLEAN,        \* NOTIFY_TERMINATION_TERMINATED
            ref : 0..(RefMod - 1)]
Absent == [status |-> "absent", alive |-> FALSE, ran |-> FALSE, reg |-> FALSE, deps |-> FALSE,
           auto |-> FALSE, notify |-> FALSE, keep |-> FALSE, ref |-> 0]
Loaded == [Absent EXCEPT !.status = "running", !.alive = TRUE, !.ref = 1]
Kip == [Loaded EXCEPT !.reg = TRUE, !.ran = TRUE]
\* ProcessList_Delete leaves the entry as it is; only its flag deps is read after that
Freed(q) == [Absent EXCEPT !.alive = q.alive, !.reg = q.reg, !.deps = q.deps]

\* while a program is loaded with its dependencies
Loading == {"reg", "deps", "own", "dep", "dreg", "drun", "flag", "incref", "merge"}
Places == Loading \cup
          {"idle", "post", "clear", "check", "load", "run", "fail",
           "send", "list", "ros", "kips", "commit", "wait", "wait2", "done", "again", "halt"}
Ops == {"none", "found", "launch", "app", "title", "reboot", "chain", "kips"}
\* commit: somebody waits for the result; hear: a client is to be notified;
\* fake: FAKE_DEPENDENCY_LOADING; merged: whose needs are in dependencies[];
\* missing: those with depProcs NULL; rest: those among them still to be launched;
\* held: those commitPendingTerminations still waits for.  look is a history: "seen" if
\* the monitor has read the list since this worker began to wait, "early" if it signalled
\* for this worker before it had
Job == [op : Ops, p : Procs \cup {NoProc}, commit : BOOLEAN, hear : BOOLEAN,
        fake : BOOLEAN, merged : SUBSET Needy, missing : SUBSET Deps, rest : SUBSET Deps,
        dep : Deps \cup {NoProc}, held : SUBSET Procs, look : {"no", "seen", "early"}]
NoJob == [op |-> "none", p |-> NoProc, commit |-> FALSE, hear |-> FALSE, fake |-> FALSE,
          merged |-> {}, missing |-> {}, rest |-> {}, dep |-> NoProc, held |-> {}, look |-> "no"]
DoOn(op, p) == [NoJob EXCEPT !.op = op, !.p = p, !.commit = TRUE]

Mon == [pc : {"scan", "decide", "wait", "mark", "deps", "clean", "forget"}, snap : SUBSET Procs,
        sent : BOOLEAN, cur : Procs \cup {NoProc}, deps : BOOLEAN, notify : BOOLEAN]

\* "overlap": a second worker terminates processes; "ended": a process that has ended is
\* told to; "miscounted": a program or dependency starts with a dependency that is ending,
\* or is not yet known as autoloaded, or does not come to count on one that is loaded
\* later, or is terminated while it is launched, or all are; "chained": one was restarted
\* in place; "unlisted": one ended and its dependencies could not be listed
Oddities == {"overlap", "ended", "miscounted", "chained", "unlisted"}

Listed == {p \in Procs : proc[p].status # "absent"}
Sent == {p \in Procs : proc[p].status = "sent"}
Cleaning(p) == mon.pc \in {"deps", "clean", "forget"} /\ mon.cur = p

TypeOK ==
    /\ proc \in [Procs -> Process]
    /\ runningApp \in Procs \cup {NoProc}
    /\ {waiting, allNotified, newProcess, reboot, ready} \subseteq BOOLEAN
    /\ owner \in Workers \cup {Monitor, Nobody}
    /\ debt \in 0..MaxDebt
    /\ mon \in Mon
    /\ pc \in [Workers -> Places]
    /\ job \in [Workers -> Job]
    /\ task \in Job
    /\ clients \in Commands
    /\ told \subseteq Procs
    /\ launches \in 0..MaxLaunches
    /\ odd \subseteq Oddities

Init ==
    /\ proc = [p \in Procs |-> IF p \in Kips THEN Kip ELSE Absent]
    /\ runningApp = NoProc
    /\ waiting = FALSE /\ allNotified = FALSE /\ newProcess = FALSE
    /\ reboot = FALSE
    /\ owner = Nobody /\ debt = 0
    /\ mon = [pc |-> "scan", snap |-> {}, sent |-> FALSE, cur |-> NoProc,
              deps |-> FALSE, notify |-> FALSE]
    /\ pc = [t \in Workers |-> "idle"]
    /\ job = [t \in Workers |-> NoJob]
    /\ ready = TRUE /\ task = NoJob
    /\ clients \in Commands
    /\ told = {} /\ launches = 0 /\ odd = {}

-----------------------------------------------------------------------------
(* The lock of the list, a RecursiveLock that releases when its count      *)
(* comes down to zero.                                                     *)

CanLock(t) == owner \in {Nobody, t}

\* a whole section, in which the lock is taken depth times over
Section(t, depth) ==
    /\ CanLock(t)
    /\ owner' = IF depth > debt THEN Nobody ELSE t
    /\ UNCHANGED debt

Goto(t, l) == pc' = [pc EXCEPT ![t] = l]

\* a worker is done; the task runner signals that it is ready
Finish(t) ==
    /\ Goto(t, "idle")
    /\ job' = [job EXCEPT ![t] = NoJob]
    /\ ready' = (ready \/ t = "runner")
    /\ UNCHANGED task

-----------------------------------------------------------------------------
(* Notifications and dependencies                                          *)

\* ProcessData_SendTerminationNotification: sm knows only registered processes.  The
\* status it leaves in a freed entry is never read.
Notified(q) ==
    [q EXCEPT !.status = IF @ = "absent" THEN "absent" ELSE IF q.reg THEN "sent" ELSE "failed"]

\* terminateUnusedDependencies, for one process d of the list P released
Unused(d, P) ==
    IF d \in P /\ proc[d].status = "running" /\ proc[d].auto
    THEN LET q == [proc[d] EXCEPT !.ref = (@ + RefMod - 1) % RefMod]
         IN  IF q.ref > 0 THEN q ELSE Notified(q)
    ELSE proc[d]

\* terminateProcessImpl, for a process whose flags are now those of q: it is told
\* to end, and what it needed is released
Terminated(p, q) ==
    [x \in Procs |->
        IF x = p THEN [Notified(q) EXCEPT !.deps = FALSE]
        ELSE IF p \in Needy /\ q.deps THEN Unused(x, Needs[p]) ELSE proc[x]]

\* the results of getAndListDependencies: the loader knows the programs of processes that
\* were not cleaned up yet, and may refuse those
Lists(p) == {ok \in BOOLEAN : IF ok THEN proc[p].reg ELSE LoadFails \/ ~proc[p].reg}

\* who will release its dependencies when it ends: those of a program are counted just
\* before it is marked so, those of a dependency just after
Counting(l, x) == \E t \in Workers : pc[t] = l /\ x = IF l = "own" THEN job[t].p ELSE job[t].dep
Holders == {x \in Needy :
              \/ /\ proc[x].deps /\ proc[x].status \notin {"absent", "terminated"}
                 /\ ~Counting("incref", x) /\ ~Counting("merge", x)
              \/ Counting("own", x)
              \/ mon.pc = "deps" /\ mon.cur = x /\ mon.deps}

-----------------------------------------------------------------------------
(* Launches                                                                *)

\* mutant: relies on the first check, made before the task runner was ready
Check_Once(t) ==
    /\ pc[t] = "check"
    /\ Section(t, 1)
    /\ Goto(t, "load")
    /\ UNCHANGED <<listVars, eventVars, mon, job, taskVars, restVars, odd>>

\* the second check of launchTitleImplWrapper
Check(t) ==
    /\ pc[t] = "check"
    /\ Section(t, 1)
    /\ IF job[t].p \in Apps /\ runningApp # NoProc
       THEN Finish(t)
       ELSE Goto(t, "load") /\ UNCHANGED <<job, taskVars>>
    /\ UNCHANGED <<listVars, eventVars, mon, restVars, odd>>

\* LOADER_LoadProcess refuses before anything is listed.  (With nothing listed the
\* code jumps to the same label as Fail does.)
LoadRefused(t) ==
    /\ pc[t] = "load" /\ LoadFails /\ debt < MaxDebt
    /\ debt' = debt + 1
    /\ Finish(t)
    /\ UNCHANGED <<listVars, eventVars, owner, mon, restVars, odd>>

Free(p) == p \notin Listed /\ ~Cleaning(p)

\* loadWithoutDependencies, up to the signal of newProcessEvent; what was left in the
\* entry is cleared
Load(t) ==
    /\ pc[t] = "load" /\ Free(job[t].p)
    /\ Section(t, 1)
    /\ proc' = [proc EXCEPT ![job[t].p] = Loaded]
    /\ newProcess' = TRUE
    /\ Goto(t, "reg")
    /\ UNCHANGED <<runningApp, waiting, allNotified, mon, job, taskVars, restVars, odd>>

\* ... and its end: fs and sm are told of the process, which may have been told to end,
\* and even cleaned up, meanwhile
Register(t) ==
    /\ pc[t] = "reg"
    /\ proc' = [proc EXCEPT ![job[t].p].reg = TRUE]
    /\ Goto(t, "deps")
    /\ UNCHANGED <<runningApp, eventVars, lockVars, mon, job, taskVars, restVars, odd>>

\* ProcessData_Incref panics rather than wrap: pm does not get past such a step
MayCount(q) == q.auto => q.ref + 1 < RefMod

\* mutant: a dependency that another one needs is not counted again
Merge_OnlyNew(t, x) ==
    LET known == UNION {Needs[y] : y \in job[t].merged}
        new == Needs[x] \ (known \cup Listed)
        found == (Needs[x] \cap Listed) \ known
    IN  /\ Section(t, 1)
        /\ proc' = [d \in Procs |->
             IF d \in found /\ proc[d].auto THEN [proc[d] EXCEPT !.ref = @ + 1] ELSE proc[d]]
        /\ job' = [job EXCEPT ![t].merged = @ \cup {x}, ![t].dep = NoProc, ![t].missing = @ \cup new,
                              ![t].rest = IF job[t].fake THEN {} ELSE @ \cup new]
        /\ UNCHANGED <<runningApp, eventVars, mon, taskVars, restVars, odd>>

\* listMergeUniqueDependencies, for the needs of x: those that are listed are counted,
\* whatever their state, if they are known as autoloaded by now; remrefcounts[] counts
\* the others, one for each of merged that needs them
Merge(t, x) ==
    LET known == UNION {Needs[y] : y \in job[t].merged}
        new == Needs[x] \ (known \cup Listed)
        found == (Needs[x] \cap Listed) \ job[t].missing
    IN  /\ \A d \in found : MayCount(proc[d])
        /\ Section(t, 1)
        /\ proc' = [d \in Procs |->
             IF d \in found /\ proc[d].auto THEN [proc[d] EXCEPT !.ref = @ + 1] ELSE proc[d]]
        /\ job' = [job EXCEPT ![t].merged = @ \cup {x}, ![t].dep = NoProc, ![t].missing = @ \cup new,
                              ![t].rest = IF job[t].fake THEN {} ELSE @ \cup new]
        /\ odd' = odd \cup (IF \E d \in Needs[x] \cap Listed :
                                  \/ d \in job[t].missing \/ proc[d].status # "running"
                                  \/ \E u \in Workers : pc[u] \in {"dreg", "drun", "flag", "incref"}
                                                        /\ job[u].dep = d
                            THEN {"miscounted"} ELSE {})
        /\ UNCHANGED <<runningApp, eventVars, mon, taskVars, restVars>>

\* loadWithDependencies: the dependencies of the program are counted under the lock ...
CountDeps(t) ==
    /\ pc[t] = "deps" /\ Merge(t, job[t].p)
    /\ Goto(t, "own")

\* ... and DEPENDENCIES_LOADED set without it
OwnDeps(t) ==
    LET p == job[t].p
    IN  /\ pc[t] = "own"
        /\ proc' = [proc EXCEPT ![p].deps = @ \/ Needs[p] # {}]
        /\ Goto(t, "dep")
        /\ UNCHANGED <<runningApp, eventVars, lockVars, mon, job, taskVars, restVars, odd>>

\* the next missing dependency is launched: listed ...
LoadDep(t, d) ==
    /\ pc[t] = "dep" /\ d \in job[t].rest /\ Free(d)
    /\ Section(t, 1)
    /\ proc' = [proc EXCEPT ![d] = Loaded]
    /\ newProcess' = TRUE
    /\ job' = [job EXCEPT ![t].rest = @ \ {d}, ![t].missing = @ \ {d}, ![t].dep = d]
    /\ Goto(t, "dreg")
    /\ odd' = odd \cup (IF \E x \in Holders \ job[t].merged : d \in Needs[x]
                        THEN {"miscounted"} ELSE {})
    /\ UNCHANGED <<runningApp, waiting, allNotified, mon, taskVars, restVars>>

\* ... unless another worker has loaded it meanwhile (the code loads it twice) ...
DepRaced(t, d) ==
    /\ pc[t] = "dep" /\ d \in job[t].rest /\ d \in Listed
    /\ job' = [job EXCEPT ![t].rest = @ \ {d}]
    /\ odd' = odd \cup {"miscounted"}
    /\ UNCHANGED <<listVars, eventVars, lockVars, mon, pc, taskVars, restVars>>

\* ... registered ...
RegisterDep(t) ==
    /\ pc[t] = "dreg"
    /\ proc' = [proc EXCEPT ![job[t].dep].reg = TRUE]
    /\ Goto(t, "drun")
    /\ UNCHANGED <<runningApp, eventVars, lockVars, mon, job, taskVars, restVars, odd>>

\* ... and run, under the lock again
RunDep(t) ==
    LET d == job[t].dep
    IN  /\ pc[t] = "drun"
        /\ Section(t, 1)
        /\ IF proc[d].alive
           THEN proc' = [proc EXCEPT ![d].ran = TRUE] /\ Goto(t, "flag")
           ELSE UNCHANGED proc /\ Goto(t, "fail")
        /\ UNCHANGED <<runningApp, eventVars, mon, job, taskVars, restVars, odd>>

\* then, without the lock, its flags are set ...
FlagDep(t) ==
    /\ pc[t] = "flag"
    /\ proc' = IF job[t].dep \in Listed
               THEN [proc EXCEPT ![job[t].dep].auto = TRUE, ![job[t].dep].deps = TRUE]
               ELSE proc
    /\ Goto(t, "incref")
    /\ UNCHANGED <<runningApp, eventVars, lockVars, mon, job, taskVars, restVars, odd>>

\* ... and remrefcounts[] added to its count, which is read before or after others, who
\* hold the lock, write it ...
IncrefDep(t) ==
    LET d == job[t].dep
        rem == Cardinality({x \in job[t].merged : d \in Needs[x]})
    IN  /\ pc[t] = "incref"
        /\ IF proc[d].auto
           THEN \E read \in {1, proc[d].ref} :
                  /\ read + rem - 1 < RefMod
                  /\ proc' = [proc EXCEPT ![d].ref = read + rem - 1]
           ELSE UNCHANGED proc
        /\ Goto(t, "merge")
        /\ UNCHANGED <<runningApp, eventVars, lockVars, mon, job, taskVars, restVars, odd>>

\* ... and its own dependencies come to those of the program
MergeDep(t) ==
    /\ pc[t] = "merge" /\ Merge(t, job[t].dep)
    /\ Goto(t, "dep")

\* a dependency fails to load, before it is listed: it is passed over
DepRefused(t, d) ==
    /\ pc[t] = "dep" /\ LoadFails /\ debt < MaxDebt /\ d \in job[t].rest
    /\ debt' = debt + 1
    /\ job' = [job EXCEPT ![t].rest = @ \ {d}]
    /\ Goto(t, IF job[t].rest = {d} THEN "fail" ELSE "dep")
    /\ UNCHANGED <<listVars, eventVars, owner, mon, taskVars, restVars, odd>>

\* a dependency fails after it is listed: it is terminated, and the program with it
DepFails(t) ==
    /\ pc[t] \in {"dreg", "drun"} /\ LoadFails /\ debt < MaxDebt
    /\ debt' = debt + 1
    /\ proc' = [proc EXCEPT ![job[t].dep].alive = FALSE]
    /\ Goto(t, "fail")
    /\ UNCHANGED <<runningApp, eventVars, owner, mon, job, taskVars, restVars, odd>>

DepsDone(t) ==
    /\ pc[t] = "dep" /\ job[t].rest = {}
    /\ Goto(t, "run")
    /\ UNCHANGED <<listVars, eventVars, lockVars, mon, job, taskVars, restVars, odd>>

\* the end of launchTitleImpl: svcRun, which fails for a process that was terminated
\* meanwhile, also if its entry was freed and its handle closed; nor is there anything
\* then for svcTerminateProcess to end
Run(t) ==
    LET p == job[t].p
    IN  /\ pc[t] = "run"
        /\ Section(t, 1)
        /\ IF proc[p].alive
           THEN /\ proc' = [proc EXCEPT ![p].ran = TRUE, ![p].notify = @ \/ p \in Apps]
                /\ runningApp' = IF p \in Apps THEN p ELSE runningApp
           ELSE UNCHANGED listVars
        /\ Finish(t)
        /\ UNCHANGED <<eventVars, mon, restVars, odd>>

\* the same label, reached when the program fails after it is listed (by fs or sm, or
\* with a dependency): it is terminated and the lock released, which nobody has taken
Fail(t) ==
    /\ pc[t] = "fail" \/ (pc[t] \in {"reg", "deps"} /\ LoadFails)
    /\ debt < MaxDebt /\ debt' = debt + 1
    /\ proc' = [proc EXCEPT ![job[t].p].alive = FALSE]
    /\ Finish(t)
    /\ UNCHANGED <<runningApp, eventVars, owner, mon, restVars, odd>>

-----------------------------------------------------------------------------
(* Terminations                                                            *)

\* the event is cleared and waitingForTermination set
Mark(t) ==
    /\ allNotified' = FALSE
    /\ waiting' = TRUE
    /\ odd' = odd \cup (IF waiting THEN {"overlap"} ELSE {})
    /\ UNCHANGED newProcess

\* the flags of the process before terminateProcessImpl, and whether a client is to hear
Hears(t, p) == job[t].op = "title" /\ proc[p].notify
Told(t, p) ==
    CASE job[t].op = "chain" -> [proc[p] EXCEPT !.deps = FALSE, !.notify = FALSE]
      [] Hears(t, p) -> [proc[p] EXCEPT !.notify = FALSE, !.keep = TRUE]
      [] OTHER -> proc[p]

\* TerminateApplication, TerminateProcessOrTitleAsync and ChainloadHomebrewDirtyAsync,
\* under the lock.  A title is looked up in the list, while runningApplicationData is used
\* though its entry was freed.  If its dependencies cannot be listed, it is not told.
Send(t) ==
    LET op == job[t].op
        p == IF op = "title" THEN job[t].p ELSE runningApp
    IN  /\ pc[t] = "send"
        /\ IF p = NoProc \/ (op = "title" /\ p \notin Listed)
           THEN Section(t, 1) /\ UNCHANGED <<proc, job, odd>>
           ELSE LET q == Told(t, p)
                IN  /\ \E ok \in IF q.deps THEN Lists(p) ELSE {TRUE} :
                         /\ Section(t, IF q.deps /\ ok THEN 2 ELSE 1)
                         /\ proc' = IF ok THEN Terminated(p, q) ELSE [proc EXCEPT ![p] = q]
                         /\ odd' = odd \cup
                              (IF ok /\ proc[p].status \in {"absent", "terminated"}
                               THEN {"ended"} ELSE {})
                              \cup (IF op = "chain" THEN {"chained"} ELSE {})
                              \cup (IF \E u \in Workers : pc[u] \in Loading /\ job[u].p = p
                                    THEN {"miscounted"} ELSE {})
                    /\ job' = [job EXCEPT ![t].p = p, ![t].hear = Hears(t, p)]
        /\ Goto(t, IF job[t].commit THEN "commit" ELSE "done")
        /\ UNCHANGED <<runningApp, eventVars, mon, taskVars, restVars>>

\* terminateAllProcesses asks Rosalina to leave the network, and waits for it with
\* the list locked
AskRosalina(t) ==
    /\ pc[t] = "list"
    /\ CanLock(t) /\ owner' = t
    /\ Goto(t, "ros")
    /\ UNCHANGED <<listVars, eventVars, debt, mon, job, taskVars, restVars, odd>>

\* Rosalina has answered, or 10 s have passed: all but the caller and what it needs
\* are told to end
SendAll(t) ==
    LET c == job[t].p
        Spared(p) == p = c \/ (c \in Programs /\ p \in Needs[c])
    IN  /\ pc[t] = "ros" /\ \A p \in Listed : Spared(p) /\ p # runningApp => MayCount(proc[p])
        /\ owner' = IF 1 > debt THEN Nobody ELSE t
        /\ proc' = [p \in Procs |->
             IF p = runningApp THEN Notified([proc[p] EXCEPT !.deps = FALSE])
             ELSE IF p \notin Listed \/ p \in Kips THEN proc[p]
             ELSE IF Spared(p) /\ proc[p].auto THEN [proc[p] EXCEPT !.ref = @ + 1]
             ELSE IF Spared(p) /\ p # c THEN proc[p]
             ELSE Notified(proc[p])]
        /\ odd' = odd \cup {"miscounted"} \cup (IF \E p \in Listed : proc[p].status = "terminated"
                                               THEN {"ended"} ELSE {})
        /\ Goto(t, "commit")
        /\ UNCHANGED <<runningApp, eventVars, debt, mon, job, taskVars, restVars>>

\* the end of terminateAllProcesses: Rosalina and PXI; pm panics if they are gone
SendKips(t) ==
    /\ pc[t] = "kips"
    /\ Section(t, 1)
    /\ IF Kips \subseteq Listed
       THEN /\ proc' = [p \in Procs |-> IF p \in Kips THEN Notified(proc[p]) ELSE proc[p]]
            /\ Goto(t, "commit")
       ELSE Goto(t, "halt") /\ UNCHANGED proc
    /\ UNCHANGED <<runningApp, eventVars, mon, job, taskVars, restVars, odd>>

Killed(P) == [p \in Procs |-> [proc[p] EXCEPT !.alive = @ /\ p \notin P]]

\* commitPendingTerminations, up to its wait
Commit(t) ==
    /\ pc[t] = "commit"
    /\ Section(t, 1)
    /\ proc' = Killed({p \in Procs : proc[p].status = "failed"})
    /\ job' = [job EXCEPT ![t].held = Sent]
    /\ Goto(t, IF Sent # {} THEN "wait" ELSE "done")
    /\ UNCHANGED <<runningApp, eventVars, mon, taskVars, restVars, odd>>

Woken(t) ==
    /\ pc[t] \in {"wait", "wait2"} /\ allNotified
    /\ allNotified' = FALSE
    /\ Goto(t, "done")
    /\ UNCHANGED <<listVars, waiting, newProcess, lockVars, mon, job, taskVars, restVars, odd>>

\* mutant: returns at the timeout
TimesOut_NoKill(t) ==
    /\ pc[t] = "wait" /\ ~allNotified
    /\ Section(t, 1)
    /\ proc' = proc
    /\ Goto(t, "wait2")
    /\ UNCHANGED <<runningApp, eventVars, mon, job, taskVars, restVars, odd>>

\* the timeout of the first wait: those told to end are terminated
TimesOut(t) ==
    /\ pc[t] = "wait" /\ ~allNotified
    /\ Section(t, 1)
    /\ proc' = Killed(Sent)
    /\ Goto(t, "wait2")
    /\ UNCHANGED <<runningApp, eventVars, mon, job, taskVars, restVars, odd>>

\* mutant: the clients are notified whatever the flags of the process
Done_AlwaysHear(t) ==
    /\ pc[t] = "done"
    /\ told' = told \cup (IF job[t].commit THEN {job[t].p} ELSE {})
    /\ waiting' = (waiting /\ ~job[t].commit)
    /\ Finish(t)
    /\ UNCHANGED <<listVars, allNotified, newProcess, lockVars, mon, reboot, clients, launches, odd>>

\* what follows commitPendingTerminations
Done(t) ==
    /\ pc[t] = "done"
    /\ told' = told \cup (IF job[t].hear /\ job[t].commit THEN {job[t].p} ELSE {})
    /\ CASE job[t].op = "reboot" ->
              /\ allNotified' = FALSE /\ waiting' = TRUE
              /\ job' = [job EXCEPT ![t].op = "kips", ![t].held = {}, ![t].look = "no"]
              /\ Goto(t, "kips")
              /\ UNCHANGED taskVars
         [] job[t].op = "chain" /\ job[t].p # NoProc ->
              /\ waiting' = FALSE
              /\ job' = [job EXCEPT ![t].held = {}]
              /\ Goto(t, "again")
              /\ UNCHANGED <<allNotified, taskVars>>
         [] job[t].op = "kips" /\ job[t].p = NoProc ->
              /\ waiting' = FALSE
              /\ Goto(t, "halt")
              /\ UNCHANGED <<allNotified, job, taskVars>>
         [] OTHER ->
              /\ waiting' = (waiting /\ ~job[t].commit)
              /\ Finish(t)
              /\ UNCHANGED allNotified
    /\ UNCHANGED <<listVars, newProcess, lockVars, mon, reboot, clients, launches, odd>>

\* ChainloadHomebrewDirtyAsync saw the application gone, and launches it again
Again(t) ==
    LET p == job[t].p
    IN  /\ pc[t] = "again" /\ runningApp = NoProc
        /\ Section(t, 1)
        /\ IF reboot \/ p \in Listed
           THEN Finish(t)
           ELSE /\ job' = [job EXCEPT ![t] = [DoOn("launch", p) EXCEPT !.fake = TRUE]]
                /\ Goto(t, "check")
                /\ UNCHANGED taskVars
        /\ UNCHANGED <<listVars, eventVars, mon, restVars, odd>>

-----------------------------------------------------------------------------
(* Commands, and the hand-over to the task runner                          *)

MainIdle == pc["main"] = "idle"

\* TaskRunner_RunTask: the service thread blocks until the runner is ready
Post(j) == Goto("main", "post") /\ job' = [job EXCEPT !["main"] = j] /\ UNCHANGED taskVars

Posted ==
    /\ pc["main"] = "post" /\ ready
    /\ ready' = FALSE
    /\ task' = job["main"]
    /\ Goto("main", "idle")
    /\ job' = [job EXCEPT !["main"] = NoJob]
    /\ UNCHANGED <<listVars, eventVars, lockVars, mon, restVars, odd>>

\* TaskRunner_HandleTasks takes the task
Take ==
    /\ pc["runner"] = "idle" /\ task # NoJob
    /\ task' = NoJob
    /\ job' = [job EXCEPT !["runner"] = task]
    /\ IF task.op # "launch" /\ task.commit THEN Mark("runner") ELSE UNCHANGED <<eventVars, odd>>
    /\ Goto("runner", CASE task.op = "launch" -> "check"
                         [] task.op = "reboot" -> "list"
                         [] OTHER -> "send")
    /\ UNCHANGED <<listVars, lockVars, mon, ready, restVars>>

\* LaunchTitle: applications are launched by the task runner
LaunchTitle(p) ==
    /\ MainIdle /\ ~reboot /\ Section("main", 1)
    /\ (IF p \in Apps THEN "application" ELSE IF p \in Applets THEN "applet" ELSE "module") \in clients
    /\ IF p \in Listed
       THEN /\ Goto("main", "clear")
            /\ job' = [job EXCEPT !["main"] = [NoJob EXCEPT !.op = "found", !.p = p]]
            /\ UNCHANGED <<taskVars, launches>>
       ELSE /\ p \in Programs /\ ~(p \in Apps /\ runningApp # NoProc)
            /\ launches < MaxLaunches /\ launches' = launches + 1
            /\ IF p \in Apps THEN Post(DoOn("launch", p))
               ELSE /\ Goto("main", "check")
                    /\ job' = [job EXCEPT !["main"] = DoOn("launch", p)]
                    /\ UNCHANGED taskVars
    /\ UNCHANGED <<listVars, eventVars, mon, reboot, clients, told, odd>>

\* a title that is there already is no longer autoloaded: its flag is cleared without the
\* lock, through a pointer found under it
ClearAuto ==
    /\ pc["main"] = "clear"
    /\ proc' = [proc EXCEPT ![job["main"].p].auto = FALSE]
    /\ Finish("main")
    /\ UNCHANGED <<runningApp, eventVars, lockVars, mon, restVars, odd>>

TerminateApplication ==
    /\ "terminate" \in clients /\ MainIdle /\ ~reboot
    /\ Mark("main")
    /\ Goto("main", "send")
    /\ job' = [job EXCEPT !["main"] = DoOn("app", NoProc)]
    /\ UNCHANGED <<listVars, lockVars, mon, taskVars, restVars>>

\* TerminateProcess and TerminateTitle, with or without somebody that waits; a
\* process that has ended is named only if the clients do so
TerminateProcessOrTitle(p) ==
    /\ "title" \in clients /\ MainIdle
    /\ p \in Listed /\ (proc[p].status = "terminated" => "ended" \in clients)
    /\ IF reboot
       THEN /\ Section("main", 1)
            /\ proc' = Killed({p})
            /\ UNCHANGED <<workVars, taskVars>>
       ELSE /\ \E wait \in BOOLEAN : Post([DoOn("title", p) EXCEPT !.commit = wait])
            /\ UNCHANGED <<proc, lockVars>>
    /\ UNCHANGED <<runningApp, eventVars, mon, restVars, odd>>

Rebooting == task.op = "reboot" \/ job["runner"].op \in {"reboot", "kips"}

\* PrepareForReboot, asked for by program c
PrepareForReboot(c) ==
    /\ "reboot" \in clients /\ MainIdle /\ ~reboot /\ ~Rebooting
    /\ reboot' = TRUE
    /\ Post(DoOn("reboot", c))
    /\ UNCHANGED <<listVars, eventVars, lockVars, mon, clients, told, launches, odd>>

\* LaunchFirm has no caller and sets no flag; clients send one of the two
LaunchFirm ==
    /\ "reboot" \in clients /\ MainIdle /\ ~reboot /\ ~Rebooting
    /\ Post(DoOn("reboot", NoProc))
    /\ UNCHANGED <<listVars, eventVars, lockVars, mon, restVars, odd>>

ChainloadHomebrewDirty ==
    /\ "chain" \in clients /\ MainIdle /\ ~reboot /\ "chained" \notin odd
    /\ Section("main", 1)
    /\ runningApp # NoProc
    /\ Post(DoOn("chain", NoProc))
    /\ UNCHANGED <<listVars, eventVars, mon, restVars, odd>>

\* UnregisterProcess, which clients send once for a process that has ended
UnregisterProcess(p) ==
    /\ MainIdle /\ p \in told /\ proc[p].status \in {"absent", "terminated"}
    /\ Section("main", 1)
    /\ told' = told \ {p}
    /\ IF p \in Listed
       THEN /\ proc' = [proc EXCEPT ![p] = Freed(@)]
            /\ runningApp' = IF runningApp = p THEN NoProc ELSE runningApp
            /\ mon' = IF mon.pc \in {"deps", "clean", "forget"} THEN mon
                      ELSE [mon EXCEPT !.snap = @ \ {p},
                                       !.pc = IF mon.cur = p THEN "scan" ELSE @,
                                       !.cur = IF @ = p THEN NoProc ELSE @]
       ELSE UNCHANGED <<listVars, mon>>
    /\ UNCHANGED <<eventVars, workVars, taskVars, reboot, clients, launches, odd>>

-----------------------------------------------------------------------------
(* The monitor                                                             *)

\* the monitor has read the list since these workers began to wait
Seen == [t \in Workers |->
          IF pc[t] \in {"wait", "wait2"} /\ job[t].look = "no"
          THEN [job[t] EXCEPT !.look = "seen"] ELSE job[t]]

\* mutant: waits only for the processes that were not told to end
Scan_OnlyRunning ==
    /\ mon.pc = "scan"
    /\ Section(Monitor, 1)
    /\ mon' = [mon EXCEPT !.pc = "decide", !.sent = Sent # {},
                          !.snap = {p \in Listed : proc[p].status = "running"}]
    /\ job' = Seen
    /\ UNCHANGED <<listVars, eventVars, pc, taskVars, restVars, odd>>

\* mutant: goes by the last process of the list
Scan_LastSent ==
    /\ mon.pc = "scan"
    /\ Section(Monitor, 1)
    /\ mon' = [mon EXCEPT !.pc = "decide", !.sent = Sent # {} /\ Sent = Listed,
                          !.snap = {p \in Listed : proc[p].status # "terminated"}]
    /\ job' = Seen
    /\ UNCHANGED <<listVars, eventVars, pc, taskVars, restVars, odd>>

\* the handles to wait for, and whether one of them was told to end
Scan ==
    /\ mon.pc = "scan"
    /\ Section(Monitor, 1)
    /\ mon' = [mon EXCEPT !.pc = "decide", !.sent = Sent # {},
                          !.snap = {p \in Listed : proc[p].status # "terminated"}]
    /\ job' = Seen
    /\ UNCHANGED <<listVars, eventVars, pc, taskVars, restVars, odd>>

\* a worker that has cleared the event, and has not yet been woken by it
Marked(t) ==
    \/ pc[t] \in {"list", "ros", "kips", "commit", "wait", "wait2"}
    \/ pc[t] = "send" /\ job[t].commit

\* the event is signalled on what was read before the lock was released
Decide ==
    /\ mon.pc = "decide"
    /\ LET signals == waiting /\ ~mon.sent
       IN  /\ allNotified' = (allNotified \/ signals)
           /\ job' = [t \in Workers |->
                       IF signals /\ Marked(t) /\ job[t].look = "no"
                       THEN [job[t] EXCEPT !.look = "early"] ELSE job[t]]
    /\ mon' = [mon EXCEPT !.pc = "wait", !.sent = FALSE]
    /\ UNCHANGED <<listVars, waiting, newProcess, lockVars, pc, taskVars, restVars, odd>>

\* svcWaitSynchronizationN: a new process, or one that has ended
WaitNew ==
    /\ mon.pc = "wait" /\ newProcess
    /\ newProcess' = FALSE
    /\ mon' = [mon EXCEPT !.pc = "scan", !.snap = {}]
    /\ UNCHANGED <<listVars, waiting, allNotified, lockVars, workVars, taskVars, restVars, odd>>

WaitEnded(p) ==
    /\ mon.pc = "wait" /\ p \in mon.snap /\ ~proc[p].alive
    /\ mon' = [mon EXCEPT !.pc = "mark", !.cur = p, !.snap = {}]
    /\ UNCHANGED <<listVars, eventVars, lockVars, workVars, taskVars, restVars, odd>>

\* the process is marked as terminated; it stays listed if a client must hear of it
MarkTerminated ==
    LET p == mon.cur
        keep == proc[p].keep \/ proc[p].notify
    IN  /\ mon.pc = "mark"
        /\ Section(Monitor, 1)
        /\ proc' = [proc EXCEPT ![p] = IF keep THEN [@ EXCEPT !.status = "terminated", !.keep = TRUE]
                                       ELSE Freed(@)]
        /\ mon' = [mon EXCEPT !.pc = "deps", !.deps = proc[p].deps, !.notify = proc[p].notify]
        /\ job' = [t \in Workers |-> [job[t] EXCEPT !.held = @ \ {p}]]
        /\ UNCHANGED <<runningApp, eventVars, pc, taskVars, restVars, odd>>

\* cleanupProcess, which has a copy of the entry: what the process needed is released ...
CleanDeps ==
    LET p == mon.cur
    IN  /\ mon.pc = "deps"
        /\ \E ok \in IF mon.deps THEN Lists(p) ELSE {FALSE} :
             /\ IF ok THEN Section(Monitor, 1) ELSE UNCHANGED lockVars
             /\ proc' = [x \in Procs |-> IF ok /\ p \in Needy THEN Unused(x, Needs[p]) ELSE proc[x]]
             /\ odd' = odd \cup (IF mon.deps /\ ~ok THEN {"unlisted"} ELSE {})
        /\ mon' = [mon EXCEPT !.pc = "clean", !.deps = FALSE]
        /\ UNCHANGED <<runningApp, eventVars, workVars, taskVars, restVars>>

\* ... sm, fs and the loader forget it ...
CleanRegs ==
    /\ mon.pc = "clean"
    /\ proc' = [proc EXCEPT ![mon.cur].reg = @ /\ mon.cur \in Kips]
    /\ mon' = [mon EXCEPT !.pc = "forget"]
    /\ UNCHANGED <<runningApp, eventVars, lockVars, workVars, taskVars, restVars, odd>>

\* ... it is no longer the running application, and the clients are notified
Clean ==
    LET p == mon.cur
    IN  /\ mon.pc = "forget"
        /\ Section(Monitor, 1)
        /\ runningApp' = IF runningApp = p THEN NoProc ELSE runningApp
        /\ told' = told \cup (IF mon.notify THEN {p} ELSE {})
        /\ mon' = [mon EXCEPT !.pc = "scan", !.cur = NoProc, !.notify = FALSE]
        /\ UNCHANGED <<proc, eventVars, workVars, taskVars, reboot, clients, launches, odd>>

-----------------------------------------------------------------------------

\* A process ends: by itself, or a dependency or built-in one because it was told to.
Ends(p) ==
    /\ proc[p].alive /\ proc[p].ran
    /\ p \in Programs \/ proc[p].status = "sent"
    /\ proc' = Killed({p})
    /\ UNCHANGED <<runningApp, eventVars, lockVars, mon, workVars, taskVars, restVars, odd>>

Launching(t) ==
    \/ Check(t) \/ LoadRefused(t) \/ Load(t) \/ Register(t) \/ CountDeps(t) \/ OwnDeps(t)
    \/ RegisterDep(t) \/ RunDep(t) \/ FlagDep(t) \/ IncrefDep(t) \/ MergeDep(t) \/ DepsDone(t)
    \/ Run(t) \/ Fail(t) \/ DepFails(t)
    \/ \E d \in Deps : LoadDep(t, d) \/ DepRaced(t, d) \/ DepRefused(t, d)

Terminating(t) ==
    \/ Send(t) \/ AskRosalina(t) \/ SendAll(t) \/ SendKips(t) \/ Commit(t) \/ Woken(t)
    \/ TimesOut(t) \/ Done(t) \/ Again(t)

Monitoring ==
    \/ Scan \/ Decide \/ WaitNew \/ MarkTerminated \/ CleanDeps \/ CleanRegs \/ Clean
    \/ \E p \in Procs : WaitEnded(p)

Command ==
    \/ TerminateApplication \/ ChainloadHomebrewDirty \/ LaunchFirm
    \/ \E p \in Procs : LaunchTitle(p) \/ UnregisterProcess(p)
    \/ \E p \in Programs : TerminateProcessOrTitle(p)
    \/ \E c \in Programs : PrepareForReboot(c)

Next ==
    \/ Command \/ ClearAuto \/ Posted \/ Take \/ Monitoring
    \/ \E t \in Workers : Launching(t) \/ Terminating(t)
    \/ \E p \in Procs : Ends(p)

Spec == Init /\ [][Next]_vars

\* the threads run whenever they can; nothing makes a client or a process act
FairSpec ==
    /\ Spec
    /\ WF_vars(Monitoring) /\ WF_vars(ClearAuto) /\ WF_vars(Posted) /\ WF_vars(Take)
    /\ \A t \in Workers : WF_vars(Launching(t)) /\ WF_vars(Terminating(t))

-----------------------------------------------------------------------------
(* Properties                                                              *)

\* Two applications are never there together, though whether one runs is looked up twice
\* and set only at the end of a launch, and forgotten by another thread (launchTitleImplWrapper
\* checks again "to avoid a race condition"; cleanupProcess).
OneApplication == \A p, q \in Apps : proc[p].alive /\ proc[q].alive => p = q

\* The count of an autoloaded dependency is the number of programs and dependencies that
\* will release it, so that it is told to end exactly when the last one has, as soon as
\* remrefcounts[] is added to it (listMergeUniqueDependencies, terminateUnusedDependencies);
\* restarting a program in place, or not being able to list what one needed, only adds to it.
DependencyCount ==
    \A d \in Deps :
        proc[d].status = "running" /\ proc[d].auto /\ ~Counting("incref", d)
          /\ odd \cap {"ended", "miscounted"} = {} =>
            LET users == Cardinality({x \in Holders : d \in Needs[x]})
            IN  IF odd \cap {"chained", "unlisted"} # {} THEN proc[d].ref >= users
                ELSE proc[d].ref = users

\* A worker that waits for the end of processes is woken, if one worker at a time
\* waits and the lock of the list is sound (processMonitor signals
\* allNotifiedTerminationEvent; commitPendingTerminations waits without timeout).
TerminatorReturns ==
    \A t \in Workers :
        pc[t] \in {"wait", "wait2"} ~> pc[t] \notin {"wait", "wait2"} \/ "overlap" \in odd \/ debt > 0

\* A listed process that has ended is found and cleaned up (processMonitor), unless
\* clients go on telling ended ones to end.
EndedIsCleaned ==
    \A p \in Procs :
        (p \in Listed /\ ~proc[p].alive) ~>
            (proc[p].status \in {"absent", "terminated"} \/ "ended" \in odd \/ debt > 0)

\* commitPendingTerminations waits for all of the processes that have received
\* notification 0x100 to terminate: when it is woken, those it found told to end have ended.
CommitWaits ==
    [][\A t \in Workers : pc[t] \in {"wait", "wait2"} /\ pc'[t] = "done"
         => \A p \in job[t].held : ~proc[p].alive]_vars

\* It does unless the monitor signalled on a list it had read before the worker began to
\* wait (waitingForTermination is set before anybody is told to end, and looked at after
\* the list is unlocked), whatever else the other worker terminates meanwhile.
CommitWaitsUnlessEarly ==
    [][\A t \in Workers : pc[t] \in {"wait", "wait2"} /\ pc'[t] = "done"
                          /\ job[t].look # "early"
         => \A p \in job[t].held : ~proc[p].alive]_vars

=============================================================================
