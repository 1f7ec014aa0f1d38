------------------------------- MODULE NdmYield -------------------------------
(***************************************************************************)
(* How Rosalina lends the radio to a game: the handshake between the hook  *)
(* of the kernel extension on ndm:u requests (SendSyncRequest.c,           *)
(* ndmu_yield.c) and ndm_yield.c, with the mini socket layer (minisoc.c),  *)
(* whose users make the kernel block those requests through bit 0x10 of    *)
(* rosalinaState.  svcKernelSetState(0x10000) toggles that bit.            *)
(*                                                                         *)
(* The game has one thread that talks to ndm:u.  ndm grants an exclusive   *)
(* state to whoever asks while nobody holds one.  A handler under s_lock   *)
(* is one step up to the next point where it waits for ndm or soc:U.       *)
(* "other" is a debugger or the input redirection, who refuse to lend.     *)
(***************************************************************************)
VARIABLES
    ask,                \* ndmuYieldState, NDMU_BIT_ASK
    ack,                \*   NDMU_BIT_ACK
    leave,              \*   NDMU_BIT_LEAVE
    block,              \* rosalinaState & 0x10, hasStartedRosalinaNetworkFuncs
    users,              \* who holds a reference of miniSoc
    locked,             \* exclusiveStateEntered: Rosalina holds a state of ndm
    gameHolds,          \* the game holds a state of ndm
    game,               \* what the game believes
    granted,            \* history: it was let in by an acknowledgement
    yielding,           \* s_yieldActive
    bitCleared,         \* s_bitCleared
    lock,               \* the holder of s_lock, between steps
    menu,               \* where ndmYieldProcess is
    snap,               \* the handshake state it has read
    rpc,                \* the RPC thread's use of the sockets
    wasOff,             \* bitWasOff of ndmYieldSafeSocExit
    late,               \* history: somebody started to use the sockets after
                        \* the last release, before its session ended
    joined              \* history: one of them was not the RPC thread, which
                        \* had not yet left the sockets it had been told to

kextVars  == <<ask, ack, leave>>
gameVars  == <<gameHolds, game, granted>>
yieldVars == <<yielding, bitCleared>>
menuVars  == <<menu, snap>>
rpcVars   == <<rpc, wasOff>>
vars == <<kextVars, block, users, locked, gameVars, yieldVars, lock, menuVars,
          rpcVars, late, joined>>

Enabled == users # {}        \* miniSocEnabled

TypeOK ==
    /\ {ask, ack, leave, block, locked, gameHolds, granted, yielding,
        bitCleared, wasOff, late, joined} \subseteq BOOLEAN
    /\ users \subseteq {"rpc", "other"}
    /\ game \in {"out", "asking", "in", "fake"}
    /\ lock \in {"none", "menu", "rpc"}
    /\ menu \in {"idle", "read", "relock", "reblock"}
    /\ snap \in [ask : BOOLEAN, ack : BOOLEAN]
    /\ rpc \in {"off", "checked", "on", "leaving"}
    /\ lock = "menu" <=> menu \in {"relock", "reblock"}
    /\ lock = "rpc" <=> rpc = "leaving"

Init ==
    /\ ask = FALSE /\ ack = FALSE /\ leave = FALSE
    /\ block = FALSE /\ users = {} /\ locked = FALSE
    /\ gameHolds = FALSE /\ game = "out" /\ granted = FALSE
    /\ yielding = FALSE /\ bitCleared = FALSE
    /\ lock = "none"
    /\ menu = "idle" /\ snap = [ask |-> FALSE, ack |-> FALSE]
    /\ rpc = "off" /\ wasOff = FALSE
    /\ late = FALSE /\ joined = FALSE

-----------------------------------------------------------------------------
(* The game, and the hook that sees its requests first.                    *)

\* a request for an exclusive state reaches ndm, which grants or refuses it
RealEnter ==
    /\ gameHolds' = ~locked
    /\ game' = IF locked THEN "out" ELSE "in"

\* EnterExclusiveState of a radio-exclusive mode: asks while it is blocked
GameEnters ==
    /\ game = "out"
    /\ IF block
       THEN /\ ack' = FALSE /\ ask' = TRUE
            /\ game' = "asking"
            /\ UNCHANGED gameHolds
       ELSE RealEnter /\ UNCHANGED <<ask, ack>>
    /\ granted' = FALSE
    /\ UNCHANGED <<leave, block, users, locked, yieldVars, lock, menuVars,
                   rpcVars, late, joined>>

\* ndmuWaitForAck saw the acknowledgement
GameAcked ==
    /\ game = "asking" /\ ack
    /\ RealEnter
    /\ granted' = TRUE
    /\ UNCHANGED <<kextVars, block, users, locked, yieldVars, lock,
                   menuVars, rpcVars, late, joined>>

\* ndmuWaitForAck saw the refusal, or a second passed: a fake success
GameFaked ==
    /\ game = "asking" /\ ~ack
    /\ ask' = FALSE
    /\ game' = "fake"
    /\ UNCHANGED <<ack, leave, block, users, locked, gameHolds, granted,
                   yieldVars, lock, menuVars, rpcVars, late, joined>>

\* LeaveExclusiveState: let through, with LEAVE noted, while acknowledged;
\* answered by the hook while blocked; otherwise let through
GameLeaves ==
    /\ game \in {"in", "fake"}
    /\ leave' = (leave \/ ack)
    /\ gameHolds' = (gameHolds /\ block /\ ~ack)
    /\ game' = "out"
    /\ UNCHANGED <<ask, ack, block, users, locked, granted, yieldVars, lock,
                   menuVars, rpcVars, late, joined>>

\* A process exits: the system takes its state.  Nobody tells Rosalina, whose
\* ndmYieldOnAppExit answers the notification 0x100 that pm sends to the
\* process that ends, here Rosalina itself.
GameExits ==
    /\ gameHolds' = FALSE
    /\ game' = "out"
    /\ granted' = FALSE
    /\ UNCHANGED <<kextVars, block, users, locked, yieldVars, lock, menuVars,
                   rpcVars, late, joined>>

-----------------------------------------------------------------------------
(* The mini socket layer.                                                  *)

\* miniSocInit: the first user takes the ndm state and toggles the block
SocInit(u) ==
    /\ users' = users \cup {u}
    /\ IF Enabled THEN UNCHANGED <<locked, block>>
       ELSE locked' = (locked \/ ~gameHolds) /\ block' = ~block

\* miniSocExit: the last user gives both back
SocExit(u) ==
    /\ users' = users \ {u}
    /\ IF users' # {} THEN UNCHANGED <<locked, block>>
       ELSE locked' = FALSE /\ block' = ~block

-----------------------------------------------------------------------------
(* The RPC thread, and the debugger or input redirection.                  *)

\* wait_network_ready looked at the yield state
RpcStarts ==
    /\ rpc = "off" /\ lock = "none" /\ ~yielding
    /\ rpc' = "checked"
    /\ UNCHANGED <<kextVars, block, users, locked, gameVars, yieldVars, lock,
                   menuVars, wasOff, late, joined>>

RpcInit ==
    /\ rpc = "checked"
    /\ SocInit("rpc")
    /\ rpc' = "on"
    /\ late' = (late \/ yielding)
    /\ UNCHANGED <<kextVars, gameVars, yieldVars, lock, menuVars, wasOff, joined>>

\* ndmYieldSafeSocExit up to miniSocExit: because of a stop, or of a release
RpcExits ==
    /\ rpc = "on" /\ lock = "none"
    /\ lock' = "rpc"
    /\ wasOff' = (yielding /\ ~block)
    /\ SocExit("rpc")
    /\ rpc' = "leaving"
    /\ UNCHANGED <<kextVars, gameVars, yieldVars, menuVars, late, joined>>

\* mutant: does not clear the bit that miniSocExit set
RpcLeft_NoReclear ==
    /\ rpc = "leaving"
    /\ lock' = "none"
    /\ block' = block
    /\ rpc' = "off" /\ wasOff' = FALSE
    /\ UNCHANGED <<kextVars, users, locked, gameVars, yieldVars, menuVars, late, joined>>

\* the rest of ndmYieldSafeSocExit
RpcLeft ==
    /\ rpc = "leaving"
    /\ lock' = "none"
    /\ block' = (block /\ ~wasOff)
    /\ rpc' = "off" /\ wasOff' = FALSE
    /\ UNCHANGED <<kextVars, users, locked, gameVars, yieldVars, menuVars, late, joined>>

OtherStarts ==
    /\ "other" \notin users
    /\ SocInit("other")
    /\ late' = (late \/ yielding)
    /\ joined' = (joined \/ (yielding /\ rpc \in {"on", "leaving"}))
    /\ UNCHANGED <<kextVars, gameVars, yieldVars, lock, menuVars, rpcVars>>

OtherStops ==
    /\ "other" \in users
    /\ SocExit("other")
    /\ UNCHANGED <<kextVars, gameVars, yieldVars, lock, menuVars, rpcVars, late, joined>>

-----------------------------------------------------------------------------
(* ndm_yield.c.                                                            *)

\* ndmYieldProcess reads the handshake before it takes the lock
Read ==
    /\ menu = "idle"
    /\ snap' = [ask |-> ask, ack |-> ack]
    /\ menu' = "read"
    /\ UNCHANGED <<kextVars, block, users, locked, gameVars, yieldVars, lock,
                   rpcVars, late, joined>>

Asked == snap.ask /\ ~snap.ack /\ ~yielding
Decides == menu = "read" /\ lock = "none"

\* gdb or input redirection own the wifi: withdraw the request
Refuse ==
    /\ Decides /\ Asked /\ "other" \in users
    /\ ask' = FALSE
    /\ menu' = "idle"
    /\ UNCHANGED <<ack, leave, block, users, locked, gameVars, yieldVars, lock,
                   snap, rpcVars, late, joined>>

\* mutant: keeps the ndm state of Rosalina
Release_NoUnlock ==
    /\ Decides /\ Asked /\ "other" \notin users
    /\ yielding' = TRUE
    /\ locked' = locked
    /\ block' = (block /\ bitCleared)
    /\ bitCleared' = (bitCleared \/ block)
    /\ ack' = TRUE
    /\ menu' = "idle"
    /\ late' = FALSE
    /\ UNCHANGED <<ask, leave, users, gameVars, lock, snap, rpcVars, joined>>

\* doRelease
Release ==
    /\ Decides /\ Asked /\ "other" \notin users
    /\ yielding' = TRUE
    /\ locked' = FALSE
    /\ block' = (block /\ bitCleared)
    /\ bitCleared' = (bitCleared \/ block)
    /\ ack' = TRUE
    /\ menu' = "idle"
    /\ late' = FALSE
    /\ UNCHANGED <<ask, leave, users, gameVars, lock, snap, rpcVars, joined>>

\* nothing to do, or it is not time to ask ndm, or ndm is not free
Nothing ==
    /\ Decides /\ ~Asked
    /\ menu' = "idle"
    /\ UNCHANGED <<kextVars, block, users, locked, gameVars, yieldVars, lock, snap,
                   rpcVars, late, joined>>

\* mutant: no watchdog: waits for the Leave
Probed_OnlyAfterLeave ==
    /\ Decides /\ yielding /\ leave
    /\ ~gameHolds /\ ~locked
    /\ ~(game = "asking" /\ ack)
    /\ yielding' = FALSE
    /\ lock' = "menu"
    /\ menu' = "relock"
    /\ UNCHANGED <<kextVars, block, users, locked, gameVars, bitCleared, snap,
                   rpcVars, late, joined>>

\* mutant: restores without asking ndm
Probed_OnLeaveAlone ==
    /\ Decides /\ yielding
    /\ yielding' = FALSE
    /\ lock' = "menu"
    /\ menu' = "relock"
    /\ UNCHANGED <<kextVars, block, users, locked, gameVars, bitCleared, snap,
                   rpcVars, late, joined>>

\* ndmProbeFree: three seconds after a Leave, or fifteen after the release;
\* a game that was acknowledged has long sent its request to ndm by then
Probed ==
    /\ Decides /\ yielding
    /\ ~gameHolds /\ ~locked
    /\ ~(game = "asking" /\ ack)
    /\ yielding' = FALSE
    /\ lock' = "menu"
    /\ menu' = "relock"
    /\ UNCHANGED <<kextVars, block, users, locked, gameVars, bitCleared, snap,
                   rpcVars, late, joined>>

\* doRestore(true): miniSocLockState, which ndm refuses while the game is in
Relock ==
    /\ menu = "relock"
    /\ locked' = (locked \/ ~gameHolds)
    /\ menu' = "reblock"
    /\ UNCHANGED <<kextVars, block, users, gameVars, yieldVars, lock, snap, rpcVars, late, joined>>

ResetHandshake == ask' = FALSE /\ ack' = FALSE /\ leave' = FALSE

\* mutant: an early return that keeps s_lock
Reblock_NoUnlock ==
    /\ menu = "reblock"
    /\ block' = (block \/ (bitCleared /\ Enabled))
    /\ bitCleared' = FALSE
    /\ ResetHandshake
    /\ lock' = lock
    /\ menu' = "idle"
    /\ UNCHANGED <<users, locked, gameVars, yielding, snap, rpcVars, late, joined>>

\* doRestore(true), its end
Reblock ==
    /\ menu = "reblock"
    /\ block' = (block \/ (bitCleared /\ Enabled))
    /\ bitCleared' = FALSE
    /\ ResetHandshake
    /\ lock' = "none"
    /\ menu' = "idle"
    /\ UNCHANGED <<users, locked, gameVars, yielding, snap, rpcVars, late, joined>>

MenuStep == Read \/ Refuse \/ Release \/ Nothing \/ Probed \/ Relock \/ Reblock
GameStep == GameEnters \/ GameAcked \/ GameFaked \/ GameLeaves \/ GameExits
RpcStep == RpcStarts \/ RpcInit \/ RpcExits \/ RpcLeft

Next == \/ GameStep \/ MenuStep \/ RpcStep
        \/ OtherStarts \/ OtherStops

Spec == Init /\ [][Next]_vars

\* The menu thread runs every 50 ms, the hook's wait and the last part of
\* ndmYieldSafeSocExit end.  Games, users and the network decide the rest.
Fairness == /\ SF_vars(Refuse \/ Release \/ Nothing) /\ SF_vars(Probed)
            /\ WF_vars(Read) /\ WF_vars(Relock) /\ WF_vars(Reblock)
            /\ WF_vars(RpcLeft) /\ WF_vars(GameAcked \/ GameFaked)

FairSpec == Spec /\ Fairness

-----------------------------------------------------------------------------
(* What must hold.                                                         *)

\* The toggles of miniSocInit, miniSocExit, doRelease, doRestore and
\* ndmYieldSafeSocExit add up: games are blocked when a user of the sockets is
\* there and the radio is not lent, and only then.  Not once the debugger has
\* shared, in a lent session, the sockets whose block was cleared: the toggle of
\* its miniSocExit then sets the bit and nothing clears it.
BlockMatchesSoc ==
    lock = "none" /\ ~joined =>
        /\ block => Enabled /\ (yielding => late)
        /\ Enabled /\ ~yielding => block

\* While its handshake says acknowledged, the radio is lent: the hook lets
\* every LeaveExclusiveState through on that bit alone.
AckMeansLent == ack /\ lock = "none" => yielding

\* A game that was acknowledged gets the state from ndm: Rosalina has dropped
\* its own before, and takes it back only after a session, or for somebody who
\* started to use the sockets in between.
AckedEnterSucceeds ==
    [][~granted /\ granted' /\ ~late => gameHolds']_vars

\* A lent session ends once ndm is free, though the Leave of the game was never
\* seen, or the game is gone and nobody said so.
LentEnds == yielding ~> (~yielding \/ gameHolds \/ locked)

\* ndmu_yield.h: "further Enters and the real LeaveExclusiveState pass through
\* untouched": a game let in by an acknowledgement gives its state back to ndm
\* when it leaves.
RealLeavePasses ==
    [][(game = "in" /\ granted /\ game' = "out") => ~gameHolds']_vars
=============================================================================
