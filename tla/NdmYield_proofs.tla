---------------------------- MODULE NdmYield_proofs ----------------------------
(***************************************************************************)
(* Proofs about NdmYield.  The block bit is toggled by whoever takes or    *)
(* gives back the sockets, so that it follows them is an accounting that   *)
(* needs to know who has toggled what in each phase of a lent session.     *)
(***************************************************************************)
EXTENDS NdmYield, TLAPS

InRestore == menu \in {"relock", "reblock"}
LentToGame == game = "in" /\ granted /\ gameHolds

\* The acknowledgement outlives neither the session nor the game that has
\* the state because of it, and Rosalina holds none meanwhile.
HandshakeInv ==
    /\ ack /\ ~InRestore => yielding
    /\ InRestore => ~yielding /\ ~LentToGame /\ ~(game = "asking" /\ ack)
    /\ LentToGame => ack
    /\ yielding /\ ~late => ~locked

\* Nobody has lent anything.
BlockIdle == (block <=> Enabled) /\ ~bitCleared /\ ~wasOff

\* The radio is lent: the presence still has the sockets whose block doRelease
\* cleared, or is about to take back the toggle of its exit, or a late user has
\* blocked the games again.
BlockLent ==
    /\ block => Enabled \/ (rpc = "leaving" /\ wasOff)
    /\ block /\ ~wasOff => late
    /\ users # {} /\ ~late => rpc = "on"
    /\ wasOff => users = {} /\ block
    /\ Enabled /\ ~block => bitCleared /\ rpc = "on" /\ users = {"rpc"}

\* The radio is taken back, and doRestore has not yet looked at the block.
BlockRestore ==
    /\ block => Enabled
    /\ Enabled /\ ~block => bitCleared /\ rpc = "on"
    /\ ~wasOff

BlockInv ==
    /\ "rpc" \in users <=> rpc = "on"
    /\ wasOff => rpc = "leaving"
    /\ ~joined =>
          /\ yielding => BlockLent
          /\ InRestore => BlockRestore
          /\ ~yielding /\ ~InRestore => BlockIdle

Inv == TypeOK /\ HandshakeInv /\ BlockInv

-----------------------------------------------------------------------------

\* Every step keeps the types, and s_lock with its holder.
LEMMA TypeStep ==
    ASSUME TypeOK, [Next]_vars PROVE TypeOK'
<1> USE DEF TypeOK, vars, kextVars, gameVars, yieldVars, menuVars, rpcVars
<1>1. CASE GameEnters
  <2>1. ask' \in BOOLEAN /\ ack' \in BOOLEAN /\ gameHolds' \in BOOLEAN /\ granted' \in BOOLEAN
      BY <1>1 DEF GameEnters, RealEnter
  <2>2. game' \in {"asking", "in", "out"}
      BY <1>1 DEF GameEnters, RealEnter
  <2>3. UNCHANGED <<leave, block, users, locked, yieldVars, lock, menuVars, rpcVars, late, joined>>
      BY <1>1 DEF GameEnters
  <2>4. QED
      BY <2>1, <2>2, <2>3
<1>2. CASE GameAcked
      BY <1>2 DEF GameAcked, RealEnter
<1>3. CASE GameFaked
      BY <1>3 DEF GameFaked
<1>4. CASE GameLeaves
  <2>1. leave' \in BOOLEAN /\ gameHolds' \in BOOLEAN /\ game' = "out"
      BY <1>4 DEF GameLeaves
  <2>2. UNCHANGED <<ask, ack, block, users, locked, granted, yieldVars, lock, menuVars, rpcVars, late, joined>>
      BY <1>4 DEF GameLeaves
  <2>3. QED
      BY <2>1, <2>2
<1>5. CASE GameExits
  <2>1. gameHolds' = FALSE /\ granted' = FALSE
      BY <1>5 DEF GameExits
  <2>2. UNCHANGED <<kextVars, block, users, locked, yieldVars, lock, menuVars, rpcVars, late>>
      BY <1>5 DEF GameExits
  <2>3. QED
      BY <1>5, <2>1, <2>2 DEF GameExits
<1>6. CASE Read
      BY <1>6 DEF Read
<1>7. CASE Refuse
      BY <1>7 DEF Refuse, Decides, Asked
<1>8. CASE Release
      BY <1>8 DEF Release, Decides, Asked
<1>9. CASE Nothing
      BY <1>9 DEF Nothing, Decides, Asked
<1>10. CASE Probed
      BY <1>10 DEF Probed, Decides
<1>11. CASE Relock
      BY <1>11 DEF Relock
<1>12. CASE Reblock
      BY <1>12 DEF Reblock, ResetHandshake, Enabled
<1>13. CASE RpcStarts
      BY <1>13 DEF RpcStarts
<1>14. CASE RpcInit
  <2>1. locked' \in BOOLEAN /\ block' \in BOOLEAN
      BY <1>14 DEF RpcInit, SocInit
  <2>2. late' \in BOOLEAN /\ rpc = "checked" /\ rpc' = "on"
      BY <1>14 DEF RpcInit
  <2>3. users' \subseteq {"rpc", "other"}
      BY <1>14 DEF RpcInit, SocInit
  <2>4. UNCHANGED <<kextVars, gameVars, yieldVars, lock, menuVars, wasOff, joined>>
      BY <1>14 DEF RpcInit
  <2>5. QED
      BY <2>1, <2>2, <2>3, <2>4
<1>15. CASE RpcExits
  <2>1. locked' \in BOOLEAN /\ block' \in BOOLEAN /\ wasOff' \in BOOLEAN
      BY <1>15 DEF RpcExits, SocExit
  <2>2. users' \subseteq {"rpc", "other"} /\ lock' = "rpc" /\ rpc' = "leaving"
      BY <1>15 DEF RpcExits, SocExit
  <2>3. UNCHANGED <<kextVars, gameVars, yieldVars, menuVars, late, joined>>
      BY <1>15 DEF RpcExits
  <2>4. menu \notin {"relock", "reblock"}
      BY <1>15 DEF RpcExits
  <2>5. QED
      BY <2>1, <2>2, <2>3, <2>4
<1>16. CASE RpcLeft
      BY <1>16 DEF RpcLeft
<1>17. CASE OtherStarts
  <2>1. locked' \in BOOLEAN /\ block' \in BOOLEAN /\ late' \in BOOLEAN /\ joined' \in BOOLEAN
      BY <1>17 DEF OtherStarts, SocInit
  <2>2. users' \subseteq {"rpc", "other"}
      BY <1>17 DEF OtherStarts, SocInit
  <2>3. UNCHANGED <<kextVars, gameVars, yieldVars, lock, menuVars, rpcVars>>
      BY <1>17 DEF OtherStarts
  <2>4. QED
      BY <2>1, <2>2, <2>3
<1>18. CASE OtherStops
  <2>1. locked' \in BOOLEAN /\ block' \in BOOLEAN
      BY <1>18 DEF OtherStops, SocExit
  <2>2. users' \subseteq {"rpc", "other"}
      BY <1>18 DEF OtherStops, SocExit
  <2>3. UNCHANGED <<kextVars, gameVars, yieldVars, lock, menuVars, rpcVars, late, joined>>
      BY <1>18 DEF OtherStops
  <2>4. QED
      BY <2>1, <2>2, <2>3
<1>20. CASE UNCHANGED vars
      BY <1>20
<1>21. QED
      BY <1>1, <1>2, <1>3, <1>4, <1>5, <1>6, <1>7, <1>8, <1>9, <1>10, <1>11, <1>12, <1>13, <1>14, <1>15, <1>16, <1>17, <1>18, <1>20 DEF Next, GameStep, MenuStep, RpcStep

\* Every step keeps the meaning of the handshake.
LEMMA HandshakeStep ==
    ASSUME TypeOK, HandshakeInv, [Next]_vars PROVE HandshakeInv'
<1> USE DEF HandshakeInv, InRestore, LentToGame, vars, kextVars, gameVars, yieldVars, menuVars, rpcVars
<1>1. CASE GameEnters
      BY <1>1 DEF GameEnters, RealEnter
<1>2. CASE GameAcked
      BY <1>2 DEF GameAcked, RealEnter
<1>3. CASE GameFaked
      BY <1>3 DEF GameFaked
<1>4. CASE GameLeaves
      BY <1>4 DEF GameLeaves
<1>5. CASE GameExits
      BY <1>5 DEF GameExits
<1>6. CASE Read
      BY <1>6 DEF Read
<1>7. CASE Refuse
      BY <1>7 DEF Refuse, Decides, Asked
<1>8. CASE Release
      BY <1>8 DEF Release, Decides, Asked
<1>9. CASE Nothing
      BY <1>9 DEF Nothing, Decides, Asked
<1>10. CASE Probed
      BY <1>10 DEF Probed, Decides
<1>11. CASE Relock
      BY <1>11 DEF Relock
<1>12. CASE Reblock
      BY <1>12 DEF Reblock, ResetHandshake, Enabled
<1>13. CASE RpcStarts
      BY <1>13 DEF RpcStarts
<1>14. CASE RpcInit
      BY <1>14 DEF RpcInit, SocInit, Enabled
<1>15. CASE RpcExits
      BY <1>15 DEF RpcExits, SocExit
<1>16. CASE RpcLeft
      BY <1>16 DEF RpcLeft
<1>17. CASE OtherStarts
      BY <1>17 DEF OtherStarts, SocInit, Enabled
<1>18. CASE OtherStops
      BY <1>18 DEF OtherStops, SocExit
<1>20. CASE UNCHANGED vars
      BY <1>20
<1>21. QED
      BY <1>1, <1>2, <1>3, <1>4, <1>5, <1>6, <1>7, <1>8, <1>9, <1>10, <1>11, <1>12, <1>13, <1>14, <1>15, <1>16, <1>17, <1>18, <1>20 DEF Next, GameStep, MenuStep, RpcStep

\* Every step keeps the account of the toggles.
LEMMA BlockStep ==
    ASSUME TypeOK, HandshakeInv, BlockInv, [Next]_vars PROVE BlockInv'
<1> USE DEF BlockInv, BlockIdle, BlockLent, BlockRestore, InRestore, Enabled, vars, kextVars, gameVars, yieldVars, menuVars, rpcVars
<1>1. CASE GameEnters
      BY <1>1 DEF GameEnters, RealEnter
<1>2. CASE GameAcked
      BY <1>2 DEF GameAcked, RealEnter
<1>3. CASE GameFaked
      BY <1>3 DEF GameFaked
<1>4. CASE GameLeaves
      BY <1>4 DEF GameLeaves
<1>5. CASE GameExits
      BY <1>5 DEF GameExits
<1>6. CASE Read
      BY <1>6 DEF Read
<1>7. CASE Refuse
      BY <1>7 DEF Refuse, Decides, Asked
<1>8. CASE Release
  <2>1. ~yielding /\ ~InRestore /\ ~InRestore' /\ yielding'
      BY <1>8 DEF Release, Decides, Asked
  <2>2. /\ UNCHANGED <<users, rpc, wasOff, joined>>
        /\ block' <=> (block /\ bitCleared)
        /\ bitCleared' <=> (bitCleared \/ block)
      BY <1>8 DEF Release, TypeOK
  <2>3. users # {} => users = {"rpc"}
    <3>1. users \subseteq {"rpc"}
        BY <1>8 DEF Release, TypeOK
    <3>2. QED
        BY <3>1
  <2>4. ~joined => ~block' /\ ~wasOff' /\ (users # {} => bitCleared' /\ rpc = "on")
      BY <2>1, <2>2, <2>3
  <2>5. QED
      BY <2>1, <2>2, <2>3, <2>4
<1>9. CASE Nothing
      BY <1>9 DEF Nothing, Decides, Asked
<1>10. CASE Probed
      BY <1>10 DEF Probed, Decides, TypeOK
<1>11. CASE Relock
      BY <1>11 DEF Relock
<1>12. CASE Reblock
  <2>1. InRestore /\ ~yielding /\ ~yielding' /\ ~InRestore'
      BY <1>12 DEF Reblock, HandshakeInv
  <2>2. /\ UNCHANGED <<users, rpc, wasOff, joined>>
        /\ ~bitCleared'
        /\ block' <=> (block \/ (bitCleared /\ users # {}))
      BY <1>12 DEF Reblock, Enabled
  <2>3. ~joined => (block' <=> users # {})
      BY <2>1, <2>2
  <2>4. QED
      BY <2>1, <2>2, <2>3
<1>13. CASE RpcStarts
      BY <1>13 DEF RpcStarts
<1>14. CASE RpcInit
      BY <1>14 DEF RpcInit, SocInit, Enabled, TypeOK
<1>15. CASE RpcExits
      BY <1>15 DEF RpcExits, SocExit, TypeOK
<1>16. CASE RpcLeft
      BY <1>16 DEF RpcLeft
<1>17. CASE OtherStarts
      BY <1>17 DEF OtherStarts, SocInit, Enabled
<1>18. CASE OtherStops
      BY <1>18 DEF OtherStops, SocExit, TypeOK
<1>20. CASE UNCHANGED vars
      BY <1>20
<1>21. QED
      BY <1>1, <1>2, <1>3, <1>4, <1>5, <1>6, <1>7, <1>8, <1>9, <1>10, <1>11, <1>12, <1>13, <1>14, <1>15, <1>16, <1>17, <1>18, <1>20 DEF Next, GameStep, MenuStep, RpcStep

-----------------------------------------------------------------------------
(* What follows for every behaviour.                                       *)

\* TypeOK, HandshakeInv and BlockInv together are inductive.
THEOREM YieldInvariant == Spec => []Inv
<1>1. Init => Inv
  <2> SUFFICES ASSUME Init PROVE Inv
      OBVIOUS
  <2>1. TypeOK
      BY DEF Init, TypeOK
  <2>2. HandshakeInv
      BY DEF Init, HandshakeInv, InRestore, LentToGame
  <2>3. BlockInv
      BY DEF Init, BlockInv, BlockIdle, InRestore, Enabled
  <2>4. QED
      BY <2>1, <2>2, <2>3 DEF Inv
<1>2. Inv /\ [Next]_vars => Inv'
      BY TypeStep, HandshakeStep, BlockStep DEF Inv
<1>3. QED
      BY <1>1, <1>2, PTL DEF Spec

\* The state of the handshake keeps its types, and s_lock is held by who says
\* so.
THEOREM TypeCorrect == Spec => []TypeOK
<1>1. Inv => TypeOK
      BY DEF Inv
<1>2. QED
      BY <1>1, YieldInvariant, PTL

\* The block bit, which is only ever toggled, follows the sockets and the
\* lent sessions, until a debugger shares the sockets the presence was told to
\* leave.
THEOREM BlockFollowsSockets == Spec => []BlockMatchesSoc
<1>1. Inv => BlockMatchesSoc
      BY DEF Inv, TypeOK, BlockInv, BlockIdle, BlockLent, BlockRestore, InRestore,
             Enabled, BlockMatchesSoc
<1>2. QED
      BY <1>1, YieldInvariant, PTL

\* The hook sees an acknowledgement only while the radio is lent.
THEOREM AcknowledgedWhileLent == Spec => []AckMeansLent
<1>1. Inv => AckMeansLent
      BY DEF Inv, TypeOK, HandshakeInv, InRestore, AckMeansLent
<1>2. QED
      BY <1>1, YieldInvariant, PTL

\* A game let in by an acknowledgement gives the state back to ndm when it
\* leaves or exits.
THEOREM LeaveReachesNdm == Spec => RealLeavePasses
<1>1. Inv /\ [Next]_vars =>
        [(game = "in" /\ granted /\ game' = "out") => ~gameHolds']_vars
  <2> SUFFICES ASSUME Inv, Next, game = "in", granted, game' = "out"
               PROVE  ~gameHolds'
      BY Zenon
  <2> USE DEF Inv, HandshakeInv, LentToGame, TypeOK, gameVars, kextVars, vars
  <2>1. CASE GameLeaves
      BY <2>1 DEF GameLeaves
  <2>2. CASE GameExits
      BY <2>2 DEF GameExits
  <2>3. CASE GameEnters \/ GameAcked \/ GameFaked
      BY <2>3 DEF GameEnters, GameAcked, GameFaked
  <2>4. CASE MenuStep
      BY <2>4 DEF MenuStep, Read, Refuse, Release, Nothing, Probed, Relock, Reblock
  <2>5. CASE RpcStep \/ OtherStarts \/ OtherStops
      BY <2>5 DEF RpcStep, RpcStarts, RpcInit, RpcExits, RpcLeft, OtherStarts,
                  OtherStops
  <2>6. QED
      BY <2>1, <2>2, <2>3, <2>4, <2>5 DEF Next, GameStep
<1>2. QED
      BY <1>1, YieldInvariant, PTL DEF Spec, RealLeavePasses

\* An acknowledged game gets the state from ndm, unless somebody has started to
\* use the sockets since the release.
THEOREM AcknowledgedGetsState == Spec => AckedEnterSucceeds
<1>1. Inv /\ [Next]_vars =>
        [~granted /\ granted' /\ ~late => gameHolds']_vars
  <2> SUFFICES ASSUME Inv, Next, ~granted, granted', ~late
               PROVE  gameHolds'
      BY Zenon
  <2> USE DEF Inv, HandshakeInv, InRestore, TypeOK, gameVars, kextVars, vars
  <2>1. CASE GameAcked
      BY <2>1 DEF GameAcked, RealEnter
  <2>2. CASE GameEnters \/ GameFaked \/ GameLeaves \/ GameExits
      BY <2>2 DEF GameEnters, GameFaked, GameLeaves, GameExits
  <2>3. CASE MenuStep
      BY <2>3 DEF MenuStep, Read, Refuse, Release, Nothing, Probed, Relock, Reblock
  <2>4. CASE RpcStep \/ OtherStarts \/ OtherStops
      BY <2>4 DEF RpcStep, RpcStarts, RpcInit, RpcExits, RpcLeft, OtherStarts,
                  OtherStops
  <2>5. QED
      BY <2>1, <2>2, <2>3, <2>4 DEF Next, GameStep
<1>2. QED
      BY <1>1, YieldInvariant, PTL DEF Spec, AckedEnterSucceeds
=============================================================================
