------------------------------ MODULE RaftelLog ------------------------------
(***************************************************************************)
(* Basic Raftel keeps one log: the refinement of module ReplicatedLog.     *)
(*                                                                         *)
(* The argument, on top of the inductive invariant of RaftelProofs:        *)
(*                                                                         *)
(*   - a step of a replica executes at most one block, the one recorded    *)
(*     for the view it is in, marks that view processed, and executes      *)
(*     nothing in a view it processed before.  This is shown handler by    *)
(*     handler, replays of handleEarlierMessagesComb included (Mute,       *)
(*     Quiet, Turns), and for every action (NextSteps);                    *)
(*   - so the views of the blocks a replica executes increase (InOrder);   *)
(*   - a named block has a parent that was named in an earlier view, so    *)
(*     views increase along a chain (ChainGrows), and the block of the     *)
(*     view after a final block is its child (NextIsChild).  This gives    *)
(*     GapsAreTimeouts;                                                    *)
(*   - the executed blocks lie on one chain (Agreement), so a longest one  *)
(*     is the log, a new block extends it or lies on it, and a replica     *)
(*     applies ever longer prefixes of it (AppliesApply).                  *)
(***************************************************************************)
EXTENDS RaftelProofs

USE DEF PH1_NEWVIEW, PH1_PREPARE, PH1_PRECOMMIT, PH1_COMMIT

-----------------------------------------------------------------------------
(* What a handler does to the blocks it executed *)

\* A context is a record of records.
Shaped(x) ==
    /\ DOMAIN x = {"id", "tc", "signed", "out", "h"}
    /\ DOMAIN x.h = {"view", "phase", "skipped", "processedNewViews", "processedCommit",
                     "blocks", "executed", "nvs", "ldrs", "votes", "qcs", "started",
                     "stopped", "catchup"}

\* From x to y nothing was executed and no view entered.
Idle(x, y) ==
    /\ Shaped(y) /\ y.h.view = x.h.view
    /\ y.h.executed = x.h.executed /\ y.h.processedCommit = x.h.processedCommit

\* Nor was a block recorded.
Mute(x, y) == Idle(x, y) /\ y.h.blocks = x.h.blocks

\* The blocks of views other than the current one are where they were.
OthersKept(x, y) ==
    \A v \in DOMAIN x.h.blocks \ {x.h.view} :
        v \in DOMAIN y.h.blocks /\ y.h.blocks[v] = x.h.blocks[v]

\* A block may have been recorded for the current view.
Quiet(x, y) == Idle(x, y) /\ OthersKept(x, y)

\* Storing a message in one of the logs executes nothing.
LEMMA StoresMute ==
    ASSUME NEW x, Shaped(x)
    PROVE  /\ \A m : Mute(x, StoreNewView(x, m)) /\ Mute(x, StoreLdrPrepare(x, m))
           /\ \A k, d, p : Mute(x, StoreVote(x, k, d, p))
           /\ \A k, m : Mute(x, StoreMsgVote(x, k, m)) /\ Mute(x, StoreFuture(x, k, m))
           /\ \A p : Mute(x, [x EXCEPT !.h.phase = p])
           /\ \A V : Mute(x, [x EXCEPT !.h.qcs = V])
           /\ \A b : Mute(x, [x EXCEPT !.h.catchup = b])
           /\ \A res : Mute(x, Signed(x, res))
           /\ \A p, m : Mute(x, SendTo(x, p, m)) /\ Mute(x, Broadcast(x, m))
<1>1. \A m : Mute(x, StoreNewView(x, m)) /\ Mute(x, StoreLdrPrepare(x, m))
  BY DEF Shaped, Mute, Idle, StoreNewView, StoreLdrPrepare
<1>2. \A k, d, p : Mute(x, StoreVote(x, k, d, p))
  BY DEF Shaped, Mute, Idle, StoreVote
<1>3. \A V : Mute(x, [x EXCEPT !.h.qcs = V])
  BY DEF Shaped, Mute, Idle
<1>4. \A p : Mute(x, [x EXCEPT !.h.phase = p])
  BY DEF Shaped, Mute, Idle
<1>5. \A p : Mute(x, [x EXCEPT !.h.catchup = p])
  BY DEF Shaped, Mute, Idle
<1>6. \A res : Mute(x, Signed(x, res))
  BY DEF Shaped, Mute, Idle, Signed
<1>7. \A p, m : Mute(x, SendTo(x, p, m))
  BY DEF Shaped, Mute, Idle, SendTo
<1>8. \A m : Mute(x, Broadcast(x, m))
  BY DEF Shaped, Mute, Idle, Broadcast
<1>9. \A k, m : Mute(x, StoreMsgVote(x, k, m)) 
  BY <1>2 DEF StoreMsgVote
<1>10. Mute(x, x)
  BY DEF Mute, Idle
<1>11. \A k, m : Mute(x, StoreFuture(x, k, m))
  BY <1>3, <1>9, <1>10 DEF StoreFuture
<1> QED BY <1>1, <1>2, <1>3, <1>4, <1>5, <1>6, <1>7, <1>8, <1>9, <1>11

\* Handlers that execute nothing compose,
LEMMA QuietTrans ==
    ASSUME NEW x, NEW y, NEW z, Quiet(x, y), Quiet(y, z)
    PROVE  Quiet(x, z)
BY DEF Quiet, Idle, OthersKept

\* also those that record no block,
LEMMA MuteTrans ==
    ASSUME NEW x, NEW y, NEW z, Mute(x, y), Mute(y, z)
    PROVE  Mute(x, z)
BY DEF Mute, Idle

\* which are among them.
LEMMA MuteQuiet ==
    ASSUME NEW x, NEW y, Mute(x, y)
    PROVE  Quiet(x, y) /\ Shaped(y)
BY DEF Mute, Quiet, Idle, OthersKept

\* Nor does an early return execute anything.
LEMMA NothingDone ==
    ASSUME NEW x, Shaped(x)
    PROVE  Mute(x, x) /\ Quiet(x, x)
BY DEF Mute, Quiet, Idle, OthersKept

\* Recording a block of the current view.
LEMMA SetBlockQuiet ==
    ASSUME NEW x, Shaped(x), NEW g
    PROVE  Quiet(x, SetBlock(x, g))
<1> DEFINE B == [v \in DOMAIN x.h.blocks \cup {x.h.view} |->
                    IF v = x.h.view THEN g ELSE x.h.blocks[v]]
<1>1. SetBlock(x, g) = [x EXCEPT !.h.blocks = B]
  BY DEF SetBlock
<1>2. \A v \in DOMAIN x.h.blocks \ {x.h.view} : v \in DOMAIN B /\ B[v] = x.h.blocks[v]
  OBVIOUS
<1> HIDE DEF B
<1> QED BY <1>1, <1>2 DEF Quiet, Idle, OthersKept, Shaped

\* processQC: a leader proposes.
LEMMA ProposeQuiet ==
    ASSUME NEW x, Shaped(x), NEW nvs
    PROVE  Quiet(x, processQC(x, nvs))
<1>1. ASSUME NEW acc, NEW block PROVE Quiet(x, Propose(x, nvs, acc, block))
  <2> DEFINE res == callTEEprepareComb(x.tc, block, acc)
             s == Signed(x, res)
             y == SetBlock(s, block.hash)
             z == [y EXCEPT !.h.processedNewViews = @ \cup {x.h.view}]
             o == Broadcast(z, MsgLdrPrepareComb(acc, block, nvs, res.data, x.id))
             u == StoreVote(o, PH1_PREPARE, res.data, x.id)
  <2>1. Propose(x, nvs, acc, block) \in {x, u}
    BY DEF Propose
  <2> HIDE DEF res
  <2>2. Quiet(x, s) /\ Shaped(s)
    BY StoresMute, MuteQuiet
  <2> HIDE DEF s
  <2>3. Quiet(s, y) /\ Shaped(y)
    BY <2>2, SetBlockQuiet DEF Quiet, Idle
  <2> HIDE DEF y
  <2>4. Mute(y, z)
    BY <2>3 DEF Mute, Idle, Shaped
  <2> HIDE DEF z
  <2>5. Mute(z, o) /\ Shaped(o)
    BY <2>4, StoresMute, MuteQuiet
  <2> HIDE DEF o
  <2>6. Mute(o, u)
    BY <2>5, StoresMute
  <2> HIDE DEF u
  <2>7. Quiet(x, u)
    BY <2>2, <2>3, <2>4, <2>5, <2>6, MuteQuiet, MuteTrans, QuietTrans
  <2> QED BY <2>1, <2>7, NothingDone
<1> QED BY <1>1, NothingDone DEF processQC

\* prepareComb proposes and stores, or returns.
LEMMA PrepareQuiet ==
    ASSUME NEW x, Shaped(x)
    PROVE  Quiet(x, prepareComb(x))
BY ProposeQuiet, NothingDone DEF prepareComb

\* handleNewviewComb.
LEMMA NewViewQuiet ==
    ASSUME NEW x, Shaped(x), NEW m
    PROVE  Quiet(x, handleNewviewComb(x, m))
<1> DEFINE y == StoreNewView(x, m)
           p == prepareComb(y)
           z == AfterPrepare(p)
<1>1. handleNewviewComb(x, m) \in {x, y, z}
  BY DEF handleNewviewComb
<1>2. Quiet(x, y) /\ Shaped(y)
  BY StoresMute, MuteQuiet
<1> HIDE DEF y
<1>3. Quiet(y, p) /\ Shaped(p)
  BY <1>2, PrepareQuiet DEF Quiet, Idle
<1> HIDE DEF p
<1>4. Quiet(p, z)
  BY <1>3, StoresMute, MuteQuiet, NothingDone DEF AfterPrepare
<1> HIDE DEF z
<1> QED BY <1>1, <1>2, <1>3, <1>4, QuietTrans, NothingDone

-----------------------------------------------------------------------------
(* Views and executions *)

(***************************************************************************)
(* Turns: from x to y at most one view was entered and at most one block   *)
(* executed, that of x's view, and not if that view was processed already. *)
(* The recorded block of x's view stays.                                   *)
(***************************************************************************)
Stays(x, y) ==
    y.h.executed = x.h.executed /\ y.h.processedCommit = x.h.processedCommit
Executes(x, y) ==
    /\ x.h.view \notin x.h.processedCommit
    /\ y.h.processedCommit = x.h.processedCommit \cup {x.h.view}
    /\ x.h.view \in DOMAIN x.h.blocks
    /\ y.h.executed = Append(x.h.executed, x.h.blocks[x.h.view])
BlockKept(x, y) ==
    x.h.view \in DOMAIN x.h.blocks =>
        x.h.view \in DOMAIN y.h.blocks /\ y.h.blocks[x.h.view] = x.h.blocks[x.h.view]
Turns(x, y) ==
    /\ Shaped(y) /\ y.h.view \in {x.h.view, x.h.view + 1}
    /\ BlockKept(x, y)
    /\ Stays(x, y) \/ Executes(x, y)

\* What executes and enters nothing is an empty turn,
LEMMA MuteTurns ==
    ASSUME NEW x, NEW y, Mute(x, y)
    PROVE  Turns(x, y)
BY DEF Mute, Idle, Turns, BlockKept, Stays

\* and may precede any turn,
LEMMA MuteThenTurns ==
    ASSUME NEW x, NEW y, NEW z, Mute(x, y), Turns(y, z)
    PROVE  Turns(x, z)
<1>1. /\ y.h.view = x.h.view /\ y.h.blocks = x.h.blocks /\ y.h.executed = x.h.executed
      /\ y.h.processedCommit = x.h.processedCommit
  BY DEF Mute, Idle
<1> QED BY <1>1 DEF Turns, BlockKept, Stays, Executes

\* as may a turn that stays in its view, once the block of the view is recorded.
LEMMA TurnsTrans ==
    ASSUME NEW x, NEW y, NEW z, Turns(x, y), Turns(y, z), y.h.view = x.h.view,
           x.h.view \in DOMAIN x.h.blocks
    PROVE  Turns(x, z)
<1>1. Shaped(z) /\ z.h.view \in {x.h.view, x.h.view + 1}
  BY DEF Turns
<1>2. BlockKept(x, z)
  BY DEF Turns, BlockKept
<1>3. CASE Stays(x, y) /\ Stays(y, z)
  BY <1>1, <1>2, <1>3 DEF Turns, Stays
<1>4. CASE Executes(x, y) /\ Stays(y, z)
  BY <1>1, <1>2, <1>4 DEF Turns, Stays, Executes
<1>5. CASE Executes(x, y) /\ Executes(y, z)
  BY <1>5 DEF Executes
<1>6. CASE Stays(x, y) /\ Executes(y, z)
  <2>1. y.h.blocks[y.h.view] = x.h.blocks[x.h.view]
    BY DEF Turns, BlockKept
  <2>2. Executes(x, z)
    BY <1>6, <2>1 DEF Stays, Executes
  <2> QED BY <1>1, <1>2, <2>2 DEF Turns
<1> QED BY <1>3, <1>4, <1>5, <1>6 DEF Turns

\* startNewViewComb.
LEMMA NewViewTurns ==
    ASSUME NEW x, Shaped(x), x.h.view \in Nat
    PROVE  Turns(x, startNewViewComb(x)) /\ Stays(x, startNewViewComb(x))
<1> DEFINE last == callTEEsignComb(LoopEnd(x))
           L == LoopStatements(x)
           y == [x EXCEPT !.tc = last.tc, !.signed = @ \cup L, !.h.view = @ + 1]
           m == MsgNewViewComb(last.data, x.id)
           e == IF EnoughNewViews(y, y.h.view) THEN prepareComb(y) ELSE y
           a == handleNewviewComb(e, m)
           t == SendTo(y, CurrentLeader(y), m)
           b == [t EXCEPT !.h.catchup = (LdrPrepares(y, y.h.view) # {})]
<1>1. startNewViewComb(x) \in {y, a, b}
  BY DEF startNewViewComb
<1> HIDE DEF last, L
<1>2. /\ Shaped(y) /\ y.h.view = x.h.view + 1 /\ y.h.blocks = x.h.blocks
      /\ Stays(x, y)
  BY DEF Shaped, Stays
<1> HIDE DEF y, m
<1>3. Quiet(y, e) /\ Shaped(e)
  BY <1>2, PrepareQuiet, NothingDone DEF Quiet, Idle
<1> HIDE DEF e
<1>4. Quiet(y, a)
  BY <1>3, NewViewQuiet, QuietTrans
<1> HIDE DEF a
<1>5. Mute(y, t) /\ Shaped(t)
  BY <1>2, StoresMute, MuteQuiet
<1> HIDE DEF t
<1>6. Quiet(y, b)
  BY <1>5, StoresMute, MuteQuiet, QuietTrans
<1> HIDE DEF b
<1>7. ASSUME NEW z, Quiet(y, z) PROVE Turns(x, z) /\ Stays(x, z)
  <2>1. Stays(x, z) /\ z.h.view = x.h.view + 1 /\ Shaped(z)
    BY <1>2, <1>7 DEF Quiet, Idle, Stays
  <2>2. x.h.view # y.h.view
    BY <1>2
  <2>3. BlockKept(x, z)
    BY <1>2, <1>7, <2>2 DEF Quiet, OthersKept, BlockKept
  <2> QED BY <2>1, <2>3 DEF Turns
<1> QED BY <1>1, <1>2, <1>4, <1>6, <1>7, NothingDone

\* executeComb.
LEMMA ExecuteTurns ==
    ASSUME NEW x, Shaped(x), x.h.view \in Nat, NEW data, data.propv = x.h.view
    PROVE  Turns(x, executeComb(x, data))
<1> DEFINE v == x.h.view
           u == [x EXCEPT !.h.processedCommit = @ \cup {data.propv}]
           y == replyHash(u, data.proph)
           z == [y EXCEPT !.h.stopped = TRUE]
           n == startNewViewComb(y)
<1>1. CASE executeComb(x, data) = x
  BY <1>1, NothingDone, MuteTurns
<1>2. CASE executeComb(x, data) # x
  <2>1. /\ v \notin x.h.processedCommit /\ v \in DOMAIN x.h.blocks
        /\ x.h.blocks[v] = data.proph /\ executeComb(x, data) \in {z, n}
    BY <1>2 DEF executeComb
  <2>2. /\ Shaped(u) /\ u.h.view = v /\ u.h.blocks = x.h.blocks /\ u.h.executed = x.h.executed
        /\ u.h.processedCommit = x.h.processedCommit \cup {v}
    BY DEF Shaped
  <2> HIDE DEF u
  <2>3. y = [u EXCEPT !.h.executed = Append(@, data.proph)]
    BY <2>1, <2>2 DEF replyHash
  <2> HIDE DEF y
  <2>4. /\ Shaped(y) /\ y.h.view = v /\ y.h.blocks = x.h.blocks
        /\ y.h.executed = Append(x.h.executed, x.h.blocks[v])
        /\ y.h.processedCommit = x.h.processedCommit \cup {v}
    BY <2>1, <2>2, <2>3 DEF Shaped
  <2>5. Turns(x, y)
    BY <2>1, <2>4 DEF Turns, BlockKept, Executes
  <2>6. Turns(y, z)
    <3>1. Mute(y, z)
      BY <2>4 DEF Mute, Idle, Shaped
    <3> QED BY <3>1, MuteTurns
  <2>7. Turns(y, n)
    BY <2>4, NewViewTurns
  <2> HIDE DEF z, n
  <2> QED BY <2>1, <2>4, <2>5, <2>6, <2>7, TurnsTrans
<1> QED BY <1>1, <1>2

\* decideComb.
LEMMA DecideTurns ==
    ASSUME NEW x, Shaped(x), x.h.view \in Nat, NEW data, data.propv = x.h.view, NEW qcType
    PROVE  Turns(x, decideComb(x, data, qcType))
<1>1. ASSUME NEW m PROVE Turns(x, executeComb(Broadcast(x, m), data))
  <2> DEFINE y == Broadcast(x, m)
  <2>1. Mute(x, y) /\ Shaped(y)
    BY StoresMute, MuteQuiet
  <2> HIDE DEF y
  <2>2. y.h.view = x.h.view
    BY <2>1 DEF Mute, Idle
  <2>3. Turns(y, executeComb(y, data))
    BY <2>1, <2>2, ExecuteTurns
  <2>4. Turns(x, executeComb(y, data))
    BY <2>1, <2>3, MuteThenTurns
  <2> QED BY <2>4 DEF y
<1>2. \/ decideComb(x, data, qcType) = x
      \/ \E m : decideComb(x, data, qcType) = executeComb(Broadcast(x, m), data)
  BY DEF decideComb
<1> QED BY <1>1, <1>2, NothingDone, MuteTurns

\* preCommitComb and commitComb.
LEMMA AdvanceMute ==
    ASSUME NEW x, Shaped(x), NEW data, NEW qcType, NEW kind, NEW next
    PROVE  Mute(x, Advance(x, data, qcType, kind, next))
<1>1. ASSUME NEW m, NEW res
      PROVE  /\ Mute(x, Broadcast(x, m))
             /\ Mute(x, StoreVote(Signed(Broadcast(x, m), res), next, res.data, x.id))
  <2> DEFINE y == Broadcast(x, m)
             s == Signed(y, res)
             u == StoreVote(s, next, res.data, x.id)
  <2>1. Mute(x, y) /\ Shaped(y)
    BY StoresMute, MuteQuiet
  <2> HIDE DEF y
  <2>2. Mute(y, s) /\ Shaped(s)
    BY <2>1, StoresMute, MuteQuiet
  <2> HIDE DEF s
  <2>3. Mute(s, u)
    BY <2>2, StoresMute
  <2> HIDE DEF u
  <2>4. Mute(x, y) /\ Mute(x, u)
    BY <2>1, <2>2, <2>3, MuteTrans
  <2> QED BY <2>4 DEF y, s, u
<1>2. \/ Advance(x, data, qcType, kind, next) = x
      \/ \E m : Advance(x, data, qcType, kind, next) = Broadcast(x, m)
      \/ \E m, res : Advance(x, data, qcType, kind, next)
                        = StoreVote(Signed(Broadcast(x, m), res), next, res.data, x.id)
  BY DEF Advance
<1> QED BY <1>1, <1>2, NothingDone

\* respondToPreCommitComb, and respondToPrepareComb for a leader without a TEE.
LEMMA StoreAndVoteMute ==
    ASSUME NEW x, Shaped(x), NEW m, NEW next
    PROVE  Mute(x, StoreAndVote(x, m, next))
<1>1. ASSUME NEW res, NEW p, NEW o PROVE Mute(x, SendTo(Signed(x, res), p, o))
  <2> DEFINE s == Signed(x, res)
  <2>1. Mute(x, s) /\ Shaped(s)
    BY StoresMute, MuteQuiet
  <2> HIDE DEF s
  <2>2. Mute(s, SendTo(s, p, o))
    BY <2>1, StoresMute
  <2>3. Mute(x, SendTo(s, p, o))
    BY <2>1, <2>2, MuteTrans
  <2> QED BY <2>3 DEF s
<1>2. \/ StoreAndVote(x, m, next) = x
      \/ \E res, p, o : StoreAndVote(x, m, next) = SendTo(Signed(x, res), p, o)
  BY DEF StoreAndVote
<1> QED BY <1>1, <1>2, NothingDone

\* Certificates of the current view.
LEMMA RespondTurns ==
    ASSUME NEW x, Shaped(x), x.h.view \in Nat, NEW m, m.data.propv = x.h.view
    PROVE  /\ Turns(x, respondToPrepareComb(x, m))
           /\ Turns(x, respondToPreCommitComb(x, m))
           /\ Turns(x, respondToCommitComb(x, m))
<1>1. Turns(x, x) /\ Turns(x, executeComb(x, m.data))
  BY NothingDone, MuteTurns, ExecuteTurns
<1>2. \A next : Turns(x, StoreAndVote(x, m, next))
  BY StoreAndVoteMute, MuteTurns
<1> QED BY <1>1, <1>2 DEF respondToPrepareComb, respondToPreCommitComb, respondToCommitComb

\* respondToLdrPrepareComb.
LEMMA RespondQuiet ==
    ASSUME NEW x, Shaped(x), NEW m
    PROVE  Quiet(x, respondToLdrPrepareComb(x, m))
<1> DEFINE res == callTEEprepareComb(x.tc, m.block, m.acc)
           s == Signed(x, res)
           y == SetBlock(s, m.block.hash)
           z == SendTo(y, CurrentLeader(y), MsgComb(PH1_PREPARE, res.data, {x.id}))
<1>1. respondToLdrPrepareComb(x, m) \in {x, z}
  BY DEF respondToLdrPrepareComb
<1> HIDE DEF res
<1>2. Quiet(x, s) /\ Shaped(s)
  BY StoresMute, MuteQuiet
<1> HIDE DEF s
<1>3. Quiet(s, y) /\ Shaped(y)
  BY <1>2, SetBlockQuiet DEF Quiet, Idle
<1> HIDE DEF y
<1>4. Quiet(y, z)
  BY <1>3, StoresMute, MuteQuiet
<1> HIDE DEF z
<1> QED BY <1>1, <1>2, <1>3, <1>4, QuietTrans, NothingDone

\* Votes for the leader of the current view.
LEMMA VoteTurns ==
    ASSUME NEW x, Shaped(x), x.h.view \in Nat, NEW m, m.data.propv = x.h.view
    PROVE  /\ Turns(x, PrepareVote(x, m))
           /\ Turns(x, PreCommitVote(x, m))
           /\ Turns(x, CommitVote(x, m))
<1>1. ASSUME NEW k
      PROVE  /\ Mute(x, StoreMsgVote(x, k, m)) /\ Shaped(StoreMsgVote(x, k, m))
             /\ StoreMsgVote(x, k, m).h.view = x.h.view
  BY StoresMute DEF Mute, Idle
<1>2. ASSUME NEW k, NEW p
      PROVE  LET y == StoreMsgVote(x, k, m)
                 z == [y EXCEPT !.h.phase = p]
             IN  Mute(x, z) /\ Shaped(z) /\ z.h.view = x.h.view
  <2> DEFINE y == StoreMsgVote(x, k, m)
             z == [y EXCEPT !.h.phase = p]
  <2>1. Mute(x, y) /\ Shaped(y)
    BY <1>1
  <2> HIDE DEF y
  <2>2. Mute(y, z)
    BY <2>1, StoresMute
  <2> HIDE DEF z
  <2>3. Mute(x, z)
    BY <2>1, <2>2, MuteTrans
  <2>4. Shaped(z) /\ z.h.view = x.h.view
    BY <2>3 DEF Mute, Idle
  <2> QED BY <2>3, <2>4 DEF y, z
<1>3. ASSUME NEW k, NEW p, NEW q
      PROVE  LET z == [StoreMsgVote(x, k, m) EXCEPT !.h.phase = p]
             IN  /\ Turns(x, decideComb(z, m.data, q))
                 /\ Turns(x, preCommitComb(z, m.data, q))
                 /\ Turns(x, commitComb(z, m.data, q))
  <2> DEFINE z == [StoreMsgVote(x, k, m) EXCEPT !.h.phase = p]
  <2>1. Mute(x, z) /\ Shaped(z) /\ z.h.view = x.h.view
    BY <1>2
  <2> HIDE DEF z
  <2>2. Turns(z, decideComb(z, m.data, q))
    BY <2>1, DecideTurns
  <2>3. Turns(z, preCommitComb(z, m.data, q)) /\ Turns(z, commitComb(z, m.data, q))
    BY <2>1, AdvanceMute, MuteTurns DEF preCommitComb, commitComb
  <2>4. /\ Turns(x, decideComb(z, m.data, q)) /\ Turns(x, preCommitComb(z, m.data, q))
        /\ Turns(x, commitComb(z, m.data, q))
    BY <2>1, <2>2, <2>3, MuteThenTurns
  <2> QED BY <2>4 DEF z
<1>4. \A k : Turns(x, StoreMsgVote(x, k, m))
  BY <1>1, MuteTurns
<1>5. Turns(x, PrepareVote(x, m))
  BY <1>3, <1>4 DEF PrepareVote
<1>6. Turns(x, PreCommitVote(x, m))
  BY <1>3, <1>4 DEF PreCommitVote
<1>7. Turns(x, CommitVote(x, m))
  BY <1>3, <1>4 DEF CommitVote
<1> QED BY <1>5, <1>6, <1>7

\* The handlers of votes and certificates.
LEMMA CombTurns ==
    ASSUME NEW x, Shaped(x), x.h.view \in Nat, NEW m, m.data.propv \in Nat
    PROVE  /\ Turns(x, handlePrepareComb(x, m))
           /\ Turns(x, handlePreCommitComb(x, m))
           /\ Turns(x, handleCommitComb(x, m))
<1>1. Turns(x, x) /\ \A k : Turns(x, StoreFuture(x, k, m))
  BY NothingDone, StoresMute, MuteTurns
<1>2. CASE m.data.propv # x.h.view
  <2>1. m.data.propv > x.h.view \/ m.data.propv < x.h.view
    BY <1>2
  <2> QED BY <1>1, <2>1 DEF handlePrepareComb, handlePreCommitComb, handleCommitComb
<1>3. CASE m.data.propv = x.h.view
  <2>1. ~(m.data.propv > x.h.view) /\ ~(m.data.propv < x.h.view)
    BY <1>3
  <2>2. /\ Turns(x, respondToPrepareComb(x, m)) /\ Turns(x, respondToPreCommitComb(x, m))
        /\ Turns(x, respondToCommitComb(x, m))
    BY <1>3, RespondTurns
  <2>3. /\ Turns(x, PrepareVote(x, m)) /\ Turns(x, PreCommitVote(x, m))
        /\ Turns(x, CommitVote(x, m))
    BY <1>3, VoteTurns
  <2> QED BY <1>1, <2>1, <2>2, <2>3
          DEF handlePrepareComb, handlePreCommitComb, handleCommitComb
<1> QED BY <1>2, <1>3

\* handleLdrPrepareComb.
LEMMA LdrPrepareQuiet ==
    ASSUME NEW x, Shaped(x), NEW m
    PROVE  Quiet(x, handleLdrPrepareComb(x, m))
<1>1. Quiet(x, x) /\ Quiet(x, respondToLdrPrepareComb(x, m))
  BY NothingDone, RespondQuiet
<1>2. Quiet(x, StoreLdrPrepare(x, m))
  BY StoresMute, MuteQuiet
<1> QED BY <1>1, <1>2 DEF handleLdrPrepareComb

\* getStarted.
LEMMA StartQuiet ==
    ASSUME NEW x, Shaped(x)
    PROVE  Quiet(x, getStarted(x))
<1> DEFINE res == callTEEsignComb(x.tc)
           s == [x EXCEPT !.h.started = TRUE]
           y == Signed(s, res)
           m == MsgNewViewComb(res.data, x.id)
<1>1. getStarted(x) \in {handleNewviewComb(y, m), SendTo(y, CurrentLeader(y), m)}
  BY DEF getStarted
<1> HIDE DEF res, m
<1>2. Mute(x, s) /\ Shaped(s)
  BY DEF Mute, Idle, Shaped
<1> HIDE DEF s
<1>3. Mute(s, y)
  BY <1>2, StoresMute
<1> HIDE DEF y
<1>4. Quiet(x, y) /\ Shaped(y)
  BY <1>2, <1>3, MuteTrans, MuteQuiet
<1>5. Quiet(y, handleNewviewComb(y, m))
  BY <1>4, NewViewQuiet
<1>6. Quiet(y, SendTo(y, CurrentLeader(y), m))
  BY <1>4, StoresMute, MuteQuiet
<1> QED BY <1>1, <1>4, <1>5, <1>6, QuietTrans

\* startNewViewOnTimeout.
LEMMA TimeoutTurns ==
    ASSUME NEW x, Shaped(x), x.h.view \in Nat
    PROVE  Turns(x, startNewViewOnTimeout(x))
<1> DEFINE y == [x EXCEPT !.h.skipped = Blame(@, x.h.view)]
<1>1. Mute(x, y) /\ Shaped(y) /\ y.h.view = x.h.view
  BY DEF Mute, Idle, Shaped
<1>2. startNewViewOnTimeout(x) = startNewViewComb(y)
  BY DEF startNewViewOnTimeout
<1> HIDE DEF y
<1> QED BY <1>1, <1>2, NewViewTurns, MuteThenTurns

\* One cached certificate replayed, after a block was recorded in y.
LEMMA ReplayTurns ==
    ASSUME NEW y, y.h.view \in Nat, NEW a, Turns(y, a.x),
           a.ok => y.h.view \in DOMAIN y.h.blocks
    PROVE  LET v == y.h.view
               d == Replay(a, v, PH1_PREPARE, respondToPrepareComb)
               e == Replay(a, v, PH1_PRECOMMIT, respondToPreCommitComb)
               f == Replay(a, v, PH1_COMMIT, respondToCommitComb)
           IN  /\ Turns(y, d.x) /\ (d.ok => v \in DOMAIN y.h.blocks)
               /\ Turns(y, e.x) /\ (e.ok => v \in DOMAIN y.h.blocks)
               /\ Turns(y, f.x) /\ (f.ok => v \in DOMAIN y.h.blocks)
<1> DEFINE v == y.h.view
           Cert(k) == CHOOSE m \in FutureQCs(a.x, k) : TRUE
           Rest(k) == [a.x EXCEPT !.h.qcs = @ \ FutureQCs(a.x, k)]
<1>1. Shaped(a.x)
  BY DEF Turns
<1>2. ASSUME NEW k, a.ok, a.x.h.view = v, FutureQCs(a.x, k) # {}
      PROVE  /\ Turns(y, respondToPrepareComb(Rest(k), Cert(k)))
             /\ Turns(y, respondToPreCommitComb(Rest(k), Cert(k)))
             /\ Turns(y, respondToCommitComb(Rest(k), Cert(k)))
  <2> DEFINE z == Rest(k)
             m == Cert(k)
  <2>1. m \in FutureQCs(a.x, k)
    BY <1>2
  <2>2. m.data.propv = v
    BY <1>2, <2>1 DEF FutureQCs
  <2> HIDE DEF m
  <2>3. Mute(a.x, z)
    BY <1>1, StoresMute
  <2> HIDE DEF z
  <2>4. Shaped(z) /\ z.h.view = v
    BY <1>2, <2>3 DEF Mute, Idle
  <2>5. /\ Turns(z, respondToPrepareComb(z, m)) /\ Turns(z, respondToPreCommitComb(z, m))
        /\ Turns(z, respondToCommitComb(z, m))
    BY <2>2, <2>4, RespondTurns
  <2>6. /\ Turns(a.x, respondToPrepareComb(z, m)) /\ Turns(a.x, respondToPreCommitComb(z, m))
        /\ Turns(a.x, respondToCommitComb(z, m))
    BY <2>3, <2>5, MuteThenTurns
  <2>7. /\ Turns(y, respondToPrepareComb(z, m)) /\ Turns(y, respondToPreCommitComb(z, m))
        /\ Turns(y, respondToCommitComb(z, m))
    BY <1>2, <2>6, TurnsTrans
  <2> QED BY <2>7 DEF z, m
<1>3. LET d == Replay(a, v, PH1_PREPARE, respondToPrepareComb)
      IN  \/ d.x = a.x /\ ~d.ok
          \/ /\ a.ok /\ a.x.h.view = v /\ FutureQCs(a.x, PH1_PREPARE) # {}
             /\ d.x = respondToPrepareComb(Rest(PH1_PREPARE), Cert(PH1_PREPARE))
  BY DEF Replay
<1>4. LET d == Replay(a, v, PH1_PRECOMMIT, respondToPreCommitComb)
      IN  \/ d.x = a.x /\ ~d.ok
          \/ /\ a.ok /\ a.x.h.view = v /\ FutureQCs(a.x, PH1_PRECOMMIT) # {}
             /\ d.x = respondToPreCommitComb(Rest(PH1_PRECOMMIT), Cert(PH1_PRECOMMIT))
  BY DEF Replay
<1>5. LET d == Replay(a, v, PH1_COMMIT, respondToCommitComb)
      IN  \/ d.x = a.x /\ ~d.ok
          \/ /\ a.ok /\ a.x.h.view = v /\ FutureQCs(a.x, PH1_COMMIT) # {}
             /\ d.x = respondToCommitComb(Rest(PH1_COMMIT), Cert(PH1_COMMIT))
  BY DEF Replay
<1> HIDE DEF Cert, Rest
<1> QED BY <1>2, <1>3, <1>4, <1>5

\* handleEarlierMessagesComb.
LEMMA EarlierTurns ==
    ASSUME NEW x, Shaped(x), x.h.view \in Nat
    PROVE  \E y : Quiet(x, y) /\ Turns(y, handleEarlierMessagesComb(x))
<1> DEFINE v == x.h.view
           u == [x EXCEPT !.h.catchup = FALSE]
           y == respondToLdrPrepareComb(u, firstLdrPrepareComb(x, v))
           o == [ok |-> v \in DOMAIN y.h.blocks, x |-> y]
           a == Replay(o, v, PH1_PREPARE, respondToPrepareComb)
           b == Replay(a, v, PH1_PRECOMMIT, respondToPreCommitComb)
           c == Replay(b, v, PH1_COMMIT, respondToCommitComb)
<1>1. handleEarlierMessagesComb(x) = c.x
  BY DEF handleEarlierMessagesComb
<1>2. Mute(x, u) /\ Shaped(u)
  BY StoresMute, MuteQuiet
<1> HIDE DEF u
<1>3. Quiet(x, y)
  BY <1>2, RespondQuiet, MuteQuiet, QuietTrans
<1> HIDE DEF y
<1>4. y.h.view = v /\ Shaped(y)
  BY <1>3 DEF Quiet, Idle
<1>5. Turns(y, o.x) /\ (o.ok => v \in DOMAIN y.h.blocks)
  BY <1>4, NothingDone, MuteTurns
<1> HIDE DEF o, v
<1>6. Turns(y, a.x) /\ (a.ok => v \in DOMAIN y.h.blocks)
  BY <1>4, <1>5, ReplayTurns DEF v
<1> HIDE DEF a
<1>7. Turns(y, b.x) /\ (b.ok => v \in DOMAIN y.h.blocks)
  BY <1>4, <1>6, ReplayTurns DEF v
<1> HIDE DEF b
<1>8. Turns(y, c.x)
  BY <1>4, <1>7, ReplayTurns DEF v
<1> HIDE DEF c
<1> QED BY <1>1, <1>3, <1>8

-----------------------------------------------------------------------------
(* Steps *)

(***************************************************************************)
(* What one step may do to the executed blocks of a replica that goes from *)
(* host state h to j: leave them, or append the block recorded for h's     *)
(* view, which had not been processed.                                     *)
(***************************************************************************)
Passes(h, j) == j.executed = h.executed /\ j.processedCommit = h.processedCommit
Applies(h, j) ==
    /\ h.view \notin h.processedCommit
    /\ j.processedCommit = h.processedCommit \cup {h.view}
    /\ h.view \in DOMAIN j.blocks
    /\ j.executed = Append(h.executed, j.blocks[h.view])
Steps(h, j) == h.view <= j.view /\ (Passes(h, j) \/ Applies(h, j))

\* A turn is a step of its host,
LEMMA TurnsSteps ==
    ASSUME NEW x, NEW y, x.h.view \in Nat, Turns(x, y)
    PROVE  Steps(x.h, y.h)
<1>1. x.h.view <= y.h.view
  BY DEF Turns
<1>2. CASE Stays(x, y)
  BY <1>1, <1>2 DEF Stays, Steps, Passes
<1>3. CASE Executes(x, y)
  BY <1>1, <1>3 DEF Turns, BlockKept, Executes, Steps, Applies
<1> QED BY <1>2, <1>3 DEF Turns

\* also after something that executes nothing,
LEMMA QuietTurnsSteps ==
    ASSUME NEW x, NEW y, NEW z, x.h.view \in Nat, Quiet(x, y), Turns(y, z)
    PROVE  Steps(x.h, z.h)
<1>1. /\ y.h.view = x.h.view /\ y.h.executed = x.h.executed
      /\ y.h.processedCommit = x.h.processedCommit
  BY DEF Quiet, Idle
<1>2. Steps(y.h, z.h)
  BY <1>1, TurnsSteps
<1> QED BY <1>1, <1>2 DEF Steps, Passes, Applies

\* which is a step by itself.
LEMMA QuietSteps ==
    ASSUME NEW x, NEW y, x.h.view \in Nat, Quiet(x, y)
    PROVE  Steps(x.h, y.h)
BY DEF Quiet, Idle, Steps, Passes

\* Every step is one of one replica.
LEMMA NextSteps ==
    ASSUME InductiveInvariant, Next
    PROVE  \E r \in Replica : /\ Steps(host[r], host'[r])
                              /\ \A p \in Replica \ {r} : host'[p] = host[p]
<1>1. /\ host \in [Replica -> HostState]
      /\ \A r, s \in Replica : net[s][r] \in Seq(Message)
  <2>1. TheWorld \in World
    BY DEF InductiveInvariant, Typed
  <2> QED BY <2>1 DEF World, TheWorld
<1>2. ASSUME NEW r \in Replica
      PROVE  /\ Shaped(Context(r)) /\ Context(r).h = host[r] /\ host[r].view \in Nat
  <2>1. host[r] \in HostState
    BY <1>1
  <2> QED BY <2>1 DEF Context, Shaped, HostState, View
<1>3. ASSUME NEW r \in Replica, NEW y, Become(r, y), Steps(host[r], y.h)
      PROVE  /\ Steps(host[r], host'[r]) /\ \A p \in Replica \ {r} : host'[p] = host[p]
  BY <1>1, <1>3 DEF Become
<1>4. ASSUME NEW r \in Replica, Start(r) \/ Timeout(r) \/ CatchUp(r)
      PROVE  \E y : Become(r, y) /\ Steps(host[r], y.h)
  <2> DEFINE x == Context(r)
  <2>1. Shaped(x) /\ x.h = host[r] /\ x.h.view \in Nat
    BY <1>2
  <2>2. CASE Start(r)
    <3>1. Become(r, getStarted(x))
      BY <2>2 DEF Start
    <3> HIDE DEF x
    <3>2. Steps(x.h, getStarted(x).h)
      BY <2>1, StartQuiet, QuietSteps
    <3> QED BY <2>1, <3>1, <3>2
  <2>3. CASE Timeout(r)
    <3>1. Become(r, startNewViewOnTimeout(x))
      BY <2>3 DEF Timeout
    <3> HIDE DEF x
    <3>2. Steps(x.h, startNewViewOnTimeout(x).h)
      BY <2>1, TimeoutTurns, TurnsSteps
    <3> QED BY <2>1, <3>1, <3>2
  <2>4. CASE CatchUp(r)
    <3>1. Become(r, handleEarlierMessagesComb(x))
      BY <2>4 DEF CatchUp
    <3> HIDE DEF x
    <3>2. PICK y : Quiet(x, y) /\ Turns(y, handleEarlierMessagesComb(x))
      BY <2>1, EarlierTurns
    <3>3. Steps(x.h, handleEarlierMessagesComb(x).h)
      BY <2>1, <3>2, QuietTurnsSteps
    <3> QED BY <2>1, <3>1, <3>3
  <2> QED BY <1>4, <2>2, <2>3, <2>4
<1>5. ASSUME NEW r \in Replica, NEW s \in Replica,
             \/ ReceiveNewView(r, s) \/ ReceiveLdrPrepare(r, s) \/ ReceivePrepare(r, s)
             \/ ReceivePreCommit(r, s) \/ ReceiveCommit(r, s)
      PROVE  \E y : Become(r, y) /\ Steps(host[r], y.h)
  <2> DEFINE x == Context(r)
             m == Head(net[s][r])
  <2>1. Shaped(x) /\ x.h = host[r] /\ x.h.view \in Nat
    BY <1>2
  <2>2. m \in Message
    <3>1. net[s][r] \in Seq(Message) /\ net[s][r] # <<>>
      BY <1>1, <1>5 DEF ReceiveNewView, ReceiveLdrPrepare, ReceivePrepare, ReceivePreCommit,
                        ReceiveCommit, Receive
    <3> QED BY <3>1
  <2>3. CASE ReceiveNewView(r, s)
    <3>1. Become(r, handleNewviewComb(x, m))
      BY <2>3 DEF ReceiveNewView, Receive
    <3> HIDE DEF x, m
    <3>2. Steps(x.h, handleNewviewComb(x, m).h)
      BY <2>1, NewViewQuiet, QuietSteps
    <3> QED BY <2>1, <3>1, <3>2
  <2>4. CASE ReceiveLdrPrepare(r, s)
    <3>1. Become(r, handleLdrPrepareComb(x, m))
      BY <2>4 DEF ReceiveLdrPrepare, Receive
    <3> HIDE DEF x, m
    <3>2. Steps(x.h, handleLdrPrepareComb(x, m).h)
      BY <2>1, LdrPrepareQuiet, QuietSteps
    <3> QED BY <2>1, <3>1, <3>2
  <2>5. ASSUME m.type \in {PH1_PREPARE, PH1_PRECOMMIT, PH1_COMMIT}
        PROVE  /\ Steps(x.h, handlePrepareComb(x, m).h)
               /\ Steps(x.h, handlePreCommitComb(x, m).h)
               /\ Steps(x.h, handleCommitComb(x, m).h)
    <3> HIDE DEF x, m
    <3>1. m \in CombMsg
      BY <2>2, <2>5, MessageKinds
    <3>2. m.data.propv \in Nat
      BY <3>1 DEF CombMsg, RData, View
    <3>3. /\ Turns(x, handlePrepareComb(x, m)) /\ Turns(x, handlePreCommitComb(x, m))
          /\ Turns(x, handleCommitComb(x, m))
      BY <2>1, <3>2, CombTurns
    <3> QED BY <2>1, <3>3, TurnsSteps
  <2>6. CASE ReceivePrepare(r, s)
    <3>1. Become(r, handlePrepareComb(x, m)) /\ m.type = PH1_PREPARE
      BY <2>6 DEF ReceivePrepare, Receive
    <3> HIDE DEF x, m
    <3> QED BY <2>1, <2>5, <3>1
  <2>7. CASE ReceivePreCommit(r, s)
    <3>1. Become(r, handlePreCommitComb(x, m)) /\ m.type = PH1_PRECOMMIT
      BY <2>7 DEF ReceivePreCommit, Receive
    <3> HIDE DEF x, m
    <3> QED BY <2>1, <2>5, <3>1
  <2>8. CASE ReceiveCommit(r, s)
    <3>1. Become(r, handleCommitComb(x, m)) /\ m.type = PH1_COMMIT
      BY <2>8 DEF ReceiveCommit, Receive
    <3> HIDE DEF x, m
    <3> QED BY <2>1, <2>5, <3>1
  <2> QED BY <1>5, <2>3, <2>4, <2>6, <2>7, <2>8
<1>6. PICK r \in Replica : \E y : Become(r, y) /\ Steps(host[r], y.h)
  BY <1>4, <1>5 DEF Next
<1>7. PICK y : Become(r, y) /\ Steps(host[r], y.h)
  BY <1>6
<1> QED BY <1>3, <1>7

-----------------------------------------------------------------------------
(* Chains of blocks *)

\* The block of d is a child of h, made by l, and h is genesis or was named earlier.
ChildOf(S, d, h, l) ==
    /\ d.proph = Append(h, <<l, d.propv>>)
    /\ \/ h = newHash
       \/ \E q \in Replica : \E g \in S[q] :
            Names(g) /\ g.proph = h /\ g.propv < d.propv

(***************************************************************************)
(* A named block is the child of the genesis block or of one that was      *)
(* named in an earlier view.                                               *)
(***************************************************************************)
LEMMA ParentNamed ==
    ASSUME NEW w \in World, Inv(w), NEW p \in Replica, NEW d \in w.signed[p], Names(d)
    PROVE  \E l \in Replica : \E h \in Hash : ChildOf(w.signed, d, h, l)
<1> DEFINE S == w.signed
           H == w.host
           n == d.propv
<1>1. d \in RData /\ n \in Nat
  BY WorldParts DEF RData, View
<1>2. Justified(H, d.proph, n)
  BY DEF Inv, NamesOK
<1>3. PICK l \in Replica : \E nvs \in SUBSET H[l].nvs :
        /\ \A m \in nvs : m.data.propv = n
        /\ IsQuorum(SignersOf(nvs))
        /\ d.proph = Append(HighestNewView(nvs).data.justh, <<l, n>>)
  BY <1>2 DEF Justified
<1>4. PICK nvs \in SUBSET H[l].nvs :
        /\ \A m \in nvs : m.data.propv = n
        /\ IsQuorum(SignersOf(nvs))
        /\ d.proph = Append(HighestNewView(nvs).data.justh, <<l, n>>)
  BY <1>3
<1>5. ASSUME NEW m \in nvs
      PROVE  /\ m \in NewView /\ m.signer \in Replica
             /\ m.data.justv \in Nat /\ m.data.justh \in Hash /\ m.data.justv < n
             /\ Backed(S[m.signer], m.data.justh, m.data.justv)
  <2>1. m \in H[l].nvs /\ m \in NewView
    BY <1>4, WorldParts
  <2>2. m.signer \in Replica /\ m.data.justv \in Nat /\ m.data.justh \in Hash
    BY <2>1 DEF NewView, RData, View
  <2>3. m.data \in S[m.signer] /\ IsReport(m.data)
    BY <2>1 DEF Inv, LogOK
  <2>4. Truthful(S[m.signer], m.data)
    BY <2>2, <2>3 DEF Inv, ComponentOK
  <2>5. m.data.justv < n
    BY <1>4, <2>4 DEF Truthful
  <2> QED BY <2>1, <2>2, <2>4, <2>5 DEF Truthful
<1>6. nvs # {}
  <2>1. SignersOf({}) = {}
    BY DEF SignersOf
  <2> QED BY <1>4, <2>1, QuorumFacts
<1> DEFINE t == HighestNewView(nvs)
<1>7. t \in nvs
  <2>1. nvs \subseteq NewView /\ nvs # {} /\ \A o \in nvs : o.data.justv <= n
    BY <1>1, <1>5, <1>6
  <2>2. PICK m \in nvs : TRUE
    BY <1>6
  <2> QED BY <1>1, <2>1, <2>2, HighestIsOne
<1> HIDE DEF t
<1>8. d.proph = Append(t.data.justh, <<l, n>>)
  BY <1>4 DEF t
<1>9. \/ t.data.justh = newHash
      \/ \E q \in Replica : \E g \in S[q] :
            Names(g) /\ g.proph = t.data.justh /\ g.propv < n
  BY <1>5, <1>7 DEF Backed, NamedBy
<1>10. ChildOf(S, d, t.data.justh, l)
  BY <1>8, <1>9 DEF ChildOf
<1> QED BY <1>5, <1>7, <1>10

\* The last identifier of a named block is that of the view it was named in.
LEMMA NamedView ==
    ASSUME NEW w \in World, Inv(w), NEW p \in Replica, NEW d \in w.signed[p], Names(d)
    PROVE  /\ d.proph \in Hash /\ d.propv \in Nat /\ Len(d.proph) \in Nat \ {0}
           /\ d.proph[Len(d.proph)][2] = d.propv /\ ViewOf(d.proph) = d.propv
<1>1. d \in RData /\ d.propv \in Nat /\ d.proph \in Hash
  BY WorldParts DEF RData, View
<1>2. PICK l \in Replica : \E h \in Hash : ChildOf(w.signed, d, h, l)
  BY ParentNamed
<1>3. PICK h \in Hash : d.proph = Append(h, <<l, d.propv>>)
  BY <1>2 DEF ChildOf
<1>4. <<l, d.propv>> \in BlockId
  BY <1>1 DEF BlockId, View
<1>5. /\ Len(d.proph) = Len(h) + 1 /\ Len(h) \in Nat
      /\ d.proph[Len(d.proph)] = <<l, d.propv>>
  BY <1>3, <1>4, AppendProperties, LenProperties DEF Hash
<1>6. d.proph # newHash
  BY <1>5 DEF newHash
<1> QED BY <1>1, <1>5, <1>6 DEF ViewOf

(***************************************************************************)
(* Along the chain of a named block, views only grow: by induction on the  *)
(* view the block was named in.                                            *)
(***************************************************************************)
LEMMA ChainGrows ==
    ASSUME NEW w \in World, Inv(w), NEW p \in Replica, NEW d \in w.signed[p], Names(d)
    PROVE  \A i \in 1 .. Len(d.proph) - 1 : d.proph[i][2] < d.propv
<1> DEFINE S == w.signed
           Grows(f) == \A i \in 1 .. Len(f.proph) - 1 : f.proph[i][2] < f.propv
           Bad == {n \in Nat : \E k \in Replica : \E f \in S[k] :
                                    Names(f) /\ ~Grows(f) /\ f.propv = n}
<1>1. \A k \in Replica : \A f \in S[k] : Names(f) =>
            /\ f.proph \in Hash /\ f.propv \in Nat /\ Len(f.proph) \in Nat \ {0}
            /\ f.proph[Len(f.proph)][2] = f.propv
  BY NamedView
<1> SUFFICES ASSUME Bad # {} PROVE FALSE
  BY <1>1
<1>2. PICK n \in Bad : \A k \in Bad : n <= k
  BY LeastNat
<1>3. PICK k \in Replica : \E f \in S[k] : Names(f) /\ ~Grows(f) /\ f.propv = n
  BY <1>2
<1>4. PICK f \in S[k] : Names(f) /\ ~Grows(f) /\ f.propv = n
  BY <1>3
<1>5. PICK l \in Replica : \E h \in Hash : ChildOf(S, f, h, l)
  <2> HIDE DEF Grows, Bad
  <2> QED BY <1>4, ParentNamed
<1>6. PICK h \in Hash :
        /\ f.proph = Append(h, <<l, n>>)
        /\ \/ h = newHash
           \/ \E q \in Replica : \E g \in S[q] :
                Names(g) /\ g.proph = h /\ g.propv < n
  BY <1>4, <1>5 DEF ChildOf
<1>7. /\ Len(h) \in Nat /\ Len(f.proph) = Len(h) + 1
      /\ \A i \in 1 .. Len(h) : f.proph[i] = h[i]
  <2>1. <<l, n>> \in BlockId
    BY <1>2 DEF BlockId, View
  <2> QED BY <1>6, <2>1, AppendProperties, LenProperties DEF Hash
<1>8. CASE h = newHash
  <2>1. Len(f.proph) - 1 = 0
    BY <1>7, <1>8 DEF newHash
  <2>2. 1 .. 0 = {}
    OBVIOUS
  <2> QED BY <1>4, <2>1, <2>2
<1>9. CASE h # newHash
  <2>1. PICK q \in Replica : \E g \in S[q] : Names(g) /\ g.proph = h /\ g.propv < n
    BY <1>6, <1>9
  <2>2. PICK g \in S[q] : Names(g) /\ g.proph = h /\ g.propv < n
    BY <2>1
  <2>3. g.propv \in Nat /\ h[Len(h)][2] = g.propv /\ Len(h) >= 1
    BY <1>1, <2>2
  <2>4. Grows(g)
    <3> SUFFICES ASSUME ~Grows(g) PROVE FALSE
      OBVIOUS
    <3>1. g.propv \in Bad
      BY <2>2, <2>3
    <3> QED BY <1>2, <2>2, <2>3, <3>1
  <2>5. ASSUME NEW i \in 1 .. Len(f.proph) - 1 PROVE f.proph[i][2] < n
    <3>1. i \in 1 .. Len(h) /\ f.proph[i] = h[i]
      BY <1>7
    <3>2. CASE i = Len(h)
      BY <2>2, <2>3, <3>1, <3>2
    <3>3. CASE i # Len(h)
      <4>1. i \in 1 .. Len(g.proph) - 1
        BY <1>7, <2>2, <3>1, <3>3
      <4>2. h[i][2] < g.propv
        BY <2>2, <2>4, <4>1
      <4>3. h[i][2] \in Nat
        <5>1. h[i] \in BlockId
          BY <3>1, ElementOfSeq DEF Hash
        <5> QED BY <5>1 DEF BlockId, View
      <4> QED BY <2>2, <2>3, <3>1, <4>2, <4>3
    <3> QED BY <3>2, <3>3
  <2> QED BY <1>4, <2>5
<1> QED BY <1>8, <1>9

\* Whatever is named after a final block extends it.
LEMMA NamedExtends ==
    ASSUME Typed, SafetyInvariant, NEW d \in AllSigned, IsFinal(d),
           NEW e \in AllSigned, Names(e), d.propv < e.propv
    PROVE  IsAncestor(d.proph, e.proph)
<1> DEFINE w == TheWorld
           A == SignedBy(d)
<1>1. w \in World /\ Inv(w) /\ w.signed = signed
  BY DEF Typed, SafetyInvariant, TheWorld
<1> HIDE DEF w
<1>2. \A p \in Replica : signed[p] \subseteq RData
  BY <1>1, WorldParts
<1>3. d \in RData
  BY <1>2 DEF AllSigned
<1>4. PICK q \in Replica : e \in signed[q]
  BY DEF AllSigned
<1>5. A \subseteq Replica /\ HoldsQuorum(A)
  BY DEF IsFinal, SignedBy
<1>6. \A p \in A : d \in w.signed[p] /\ Kept(w.signed[p], d)
  BY <1>1 DEF SignedBy, IsFinal, Kept, Names
<1> QED BY <1>1, <1>3, <1>4, <1>5, <1>6, KeptIsExtended

\* What is named right after a final block is its child.
LEMMA NextIsChild ==
    ASSUME Typed, SafetyInvariant, NEW d \in AllSigned, IsFinal(d),
           NEW e \in AllSigned, Names(e), e.propv = d.propv + 1
    PROVE  Len(e.proph) = Len(d.proph) + 1
<1> DEFINE w == TheWorld
           n == Len(d.proph)
           u == d.propv
<1>1. w \in World /\ Inv(w) /\ w.signed = signed
  BY DEF Typed, SafetyInvariant, TheWorld
<1> HIDE DEF w
<1>2. PICK p \in Replica : d \in w.signed[p]
  BY <1>1 DEF AllSigned
<1>3. PICK q \in Replica : e \in w.signed[q]
  BY <1>1 DEF AllSigned
<1>4. /\ d.proph \in Hash /\ u \in Nat /\ n \in Nat \ {0}
      /\ d.proph[n][2] = u
  BY <1>1, <1>2, NamedView DEF IsFinal, Names
<1>5. IsAncestor(d.proph, e.proph)
  BY <1>4, NamedExtends
<1>6. PICK l \in Replica : \E h \in Hash : ChildOf(w.signed, e, h, l)
  BY <1>1, <1>3, ParentNamed
<1>7. PICK h \in Hash :
        /\ e.proph = Append(h, <<l, u + 1>>)
        /\ \/ h = newHash
           \/ \E k \in Replica : \E g \in w.signed[k] :
                Names(g) /\ g.proph = h /\ g.propv < u + 1
  BY <1>6 DEF ChildOf
<1>8. /\ Len(h) \in Nat /\ Len(e.proph) = Len(h) + 1 /\ e.proph \in Hash
      /\ e.proph[Len(h) + 1] = <<l, u + 1>>
      /\ \A i \in 1 .. Len(h) : e.proph[i] = h[i]
  <2>1. <<l, u + 1>> \in BlockId
    BY <1>4 DEF BlockId, View
  <2> QED BY <1>7, <2>1, AppendProperties, LenProperties DEF Hash
<1>9. n <= Len(h) + 1 /\ \A i \in 1 .. n : d.proph[i] = e.proph[i]
  <2>1. n <= Len(e.proph) /\ d.proph = SubSeq(e.proph, 1, n)
    BY <1>5 DEF IsAncestor
  <2>2. ASSUME NEW i \in 1 .. n PROVE SubSeq(e.proph, 1, n)[i] = e.proph[i]
    BY <1>4, <1>8, <2>1 DEF Hash
  <2> QED BY <1>8, <2>1, <2>2
<1>10. n # Len(h) + 1
  <2> SUFFICES ASSUME n = Len(h) + 1 PROVE FALSE
    OBVIOUS
  <2>1. n \in 1 .. n
    BY <1>4
  <2>2. d.proph[n] = <<l, u + 1>>
    BY <1>8, <1>9, <2>1
  <2> QED BY <1>4, <2>2
<1>11. n \in 1 .. Len(h) /\ h[n][2] = u
  <2>1. n \in 1 .. Len(h) /\ n \in 1 .. n
    BY <1>4, <1>8, <1>9, <1>10
  <2>2. d.proph[n] = h[n]
    BY <1>8, <1>9, <2>1
  <2> QED BY <1>4, <2>1, <2>2
<1>12. h # newHash
  BY <1>11 DEF newHash
<1>13. PICK k \in Replica : \E g \in w.signed[k] : Names(g) /\ g.proph = h /\ g.propv < u + 1
  BY <1>7, <1>12
<1>14. PICK g \in w.signed[k] : Names(g) /\ g.proph = h /\ g.propv < u + 1
  BY <1>13
<1>15. g.propv \in Nat /\ \A i \in 1 .. Len(h) - 1 : h[i][2] < g.propv
  BY <1>1, <1>14, NamedView, ChainGrows
<1>16. ~(n < Len(h))
  <2> SUFFICES ASSUME n < Len(h) PROVE FALSE
    OBVIOUS
  <2>1. n \in 1 .. Len(h) - 1
    BY <1>8, <1>11
  <2>2. u < g.propv
    BY <1>11, <1>15, <2>1
  <2> QED BY <1>4, <1>14, <1>15, <2>2
<1> QED BY <1>8, <1>11, <1>16

-----------------------------------------------------------------------------
(* The order of execution *)

(***************************************************************************)
(* A replica executes the blocks of ever later views, and has processed    *)
(* the views of the blocks it executed.                                    *)
(***************************************************************************)
InOrder(h) ==
    /\ \A i \in DOMAIN h.executed :
        ViewOf(h.executed[i]) \in h.processedCommit /\ ViewOf(h.executed[i]) <= h.view
    /\ \A i, j \in DOMAIN h.executed :
        i < j => ViewOf(h.executed[i]) < ViewOf(h.executed[j])

\* The executed blocks, and the genesis block.
AllExecuted == {newHash} \cup UNION {Executed(r) : r \in Replica}

\* One of them is as long as any.
SomeLongest == \E h \in AllExecuted : \A g \in AllExecuted : Len(g) <= Len(h)

\* What the refinement needs of every state.
LogInvariant ==
    /\ InductiveInvariant
    /\ \A r \in Replica : InOrder(host[r])
    /\ SomeLongest

\* The types of the hosts, and what is recorded in them.
HostTypes ==
    /\ \A r \in Replica :
        /\ host[r].executed \in Seq(Hash) /\ host[r].view \in Nat
        /\ \A v \in DOMAIN host[r].blocks : ViewOf(host[r].blocks[v]) = v
    /\ AllExecuted \subseteq Hash

\* They follow from the inductive invariant.
LEMMA HostsTyped == InductiveInvariant => HostTypes
<1> SUFFICES ASSUME InductiveInvariant PROVE HostTypes
  OBVIOUS
<1> DEFINE w == TheWorld
<1>1. w \in World /\ Inv(w) /\ w.signed = signed /\ w.host = host
  BY DEF InductiveInvariant, Typed, SafetyInvariant, TheWorld
<1> HIDE DEF w
<1>2. \A r \in Replica : host[r] \in HostState
  BY <1>1, WorldParts
<1>3. ASSUME NEW r \in Replica, NEW v \in DOMAIN host[r].blocks
      PROVE  ViewOf(host[r].blocks[v]) = v
  <2>1. NamedBy(w.signed[r], w.host[r].blocks[v], v)
    BY <1>1 DEF Inv, BlocksOK
  <2>2. PICK d \in w.signed[r] : Names(d) /\ d.proph = host[r].blocks[v] /\ d.propv = v
    BY <1>1, <2>1 DEF NamedBy
  <2> QED BY <1>1, <2>2, NamedView
<1>4. \A r \in Replica : host[r].executed \in Seq(Hash) /\ host[r].view \in Nat
  BY <1>2 DEF HostState, View
<1>5. AllExecuted \subseteq Hash
  <2>1. newHash \in Hash
    BY DEF newHash, Hash
  <2> QED BY <1>4, <2>1, ElementOfSeq DEF AllExecuted, Executed
<1> QED BY <1>3, <1>4, <1>5 DEF HostTypes

\* A block has a view and a length.
LEMMA HashView ==
    ASSUME NEW h \in Hash
    PROVE  ViewOf(h) \in Nat /\ Len(h) \in Nat
<1>1. CASE h = newHash
  BY <1>1 DEF ViewOf, newHash
<1>2. CASE h # newHash
  <2>1. Len(h) \in 1 .. Len(h) /\ Len(h) \in Nat
    BY <1>2 DEF Hash, newHash
  <2>2. h[Len(h)] \in BlockId
    BY <2>1, ElementOfSeq DEF Hash
  <2> QED BY <1>2, <2>1, <2>2 DEF ViewOf, BlockId, View
<1> QED BY <1>1, <1>2

\* A step keeps the order.
LEMMA OrderKept ==
    ASSUME InductiveInvariant, InductiveInvariant', NEW r \in Replica,
           InOrder(host[r]), Steps(host[r], host'[r])
    PROVE  InOrder(host'[r])
<1> DEFINE h == host[r]
           j == host'[r]
           E == h.executed
           F == j.executed
<1>1. /\ E \in Seq(Hash) /\ h.view \in Nat
  BY HostsTyped DEF HostTypes
<1>2. j.view \in Nat /\ \A v \in DOMAIN j.blocks : ViewOf(j.blocks[v]) = v
  <2>1. HostTypes'
    BY HostsTyped, PTL
  <2> QED BY <2>1 DEF HostTypes, ViewOf, AllExecuted, Executed
<1>3. h.view <= j.view /\ InOrder(h) /\ (Passes(h, j) \/ Applies(h, j))
  BY DEF Steps
<1> HIDE DEF h, j
<1>4. \A i \in DOMAIN E : ViewOf(E[i]) \in Nat
  <2>1. \A i \in DOMAIN E : E[i] \in Hash
    BY <1>1
  <2> QED BY <2>1, HashView
<1>5. \A i \in DOMAIN E : /\ ViewOf(E[i]) \in h.processedCommit
                          /\ ViewOf(E[i]) <= h.view /\ ViewOf(E[i]) <= j.view
  BY <1>1, <1>2, <1>3, <1>4 DEF InOrder
<1>6. \A i, k \in DOMAIN E : i < k => ViewOf(E[i]) < ViewOf(E[k])
  BY <1>3 DEF InOrder
<1>7. CASE Passes(h, j)
  <2>1. F = E /\ j.processedCommit = h.processedCommit
    BY <1>7 DEF Passes
  <2> HIDE DEF E
  <2>2. /\ \A i \in DOMAIN F : ViewOf(F[i]) \in j.processedCommit /\ ViewOf(F[i]) <= j.view
        /\ \A i, k \in DOMAIN F : i < k => ViewOf(F[i]) < ViewOf(F[k])
    BY <1>5, <1>6, <2>1
  <2> QED BY <2>2 DEF InOrder, j
<1>8. CASE Applies(h, j)
  <2> DEFINE g == j.blocks[h.view]
             n == Len(E)
  <2>1. /\ h.view \notin h.processedCommit /\ F = Append(E, g) /\ ViewOf(g) = h.view
        /\ j.processedCommit = h.processedCommit \cup {h.view}
    BY <1>2, <1>8 DEF Applies
  <2>2. /\ n \in Nat /\ DOMAIN E = 1 .. n /\ DOMAIN F = 1 .. n + 1
        /\ F[n + 1] = g /\ \A i \in 1 .. n : F[i] = E[i]
    BY <1>1, <2>1
  <2> HIDE DEF E, F, g
  <2>3. \A i \in 1 .. n : ViewOf(E[i]) < h.view
    BY <1>1, <1>4, <1>5, <2>1, <2>2
  <2>4. \A i \in DOMAIN F : ViewOf(F[i]) \in j.processedCommit /\ ViewOf(F[i]) <= j.view
    <3> SUFFICES ASSUME NEW i \in 1 .. n + 1
                 PROVE  ViewOf(F[i]) \in j.processedCommit /\ ViewOf(F[i]) <= j.view
      BY <2>2
    <3>1. CASE i \in 1 .. n
      BY <1>5, <2>1, <2>2, <3>1
    <3>2. CASE i = n + 1
      BY <1>3, <2>1, <2>2, <3>2
    <3> QED BY <2>2, <3>1, <3>2
  <2>5. ASSUME NEW i \in DOMAIN F, NEW k \in DOMAIN F, i < k
        PROVE  ViewOf(F[i]) < ViewOf(F[k])
    <3>1. i \in 1 .. n /\ (k \in 1 .. n \/ k = n + 1)
      BY <2>2, <2>5
    <3>2. CASE k \in 1 .. n
      BY <1>6, <2>2, <2>5, <3>1, <3>2
    <3>3. CASE k = n + 1
      BY <2>1, <2>2, <2>3, <3>1, <3>3
    <3> QED BY <3>1, <3>2, <3>3
  <2> QED BY <2>4, <2>5 DEF InOrder, F, j
<1> QED BY <1>3, <1>7, <1>8 DEF j

-----------------------------------------------------------------------------
(* The log that all replicas keep *)

\* A replica that executes a block adds it to the executed ones;
LEMMA ExecutedGrows ==
    ASSUME InductiveInvariant, InductiveInvariant', NEW r \in Replica,
           \A p \in Replica \ {r} : host'[p] = host[p], Applies(host[r], host'[r])
    PROVE  \E g \in Hash :
            /\ host'[r].executed = Append(host[r].executed, g)
            /\ AllExecuted' = AllExecuted \cup {g}
<1> DEFINE E == host[r].executed
           F == host'[r].executed
           g == host'[r].blocks[host[r].view]
<1>1. F = Append(E, g)
  BY DEF Applies
<1>2. E \in Seq(Hash) /\ F \in Seq(Hash)
  <2>1. HostTypes /\ HostTypes'
    BY HostsTyped, PTL
  <2> QED BY <2>1 DEF HostTypes
<1> HIDE DEF E, F, g
<1>3. /\ Len(E) \in Nat /\ DOMAIN E = 1 .. Len(E) /\ DOMAIN F = 1 .. Len(E) + 1
      /\ F[Len(E) + 1] = g /\ \A i \in 1 .. Len(E) : F[i] = E[i]
  BY <1>1, <1>2
<1>4. g \in Hash
  <2>1. Len(E) + 1 \in DOMAIN F
    BY <1>3
  <2>2. F[Len(E) + 1] \in Hash
    BY <1>2, <2>1
  <2> QED BY <1>3, <2>2
<1>5. {F[i] : i \in DOMAIN F} = {E[i] : i \in DOMAIN E} \cup {g}
  <2>1. DOMAIN F = DOMAIN E \cup {Len(E) + 1}
    BY <1>3
  <2> QED BY <1>3, <2>1
<1>6. Executed(r)' = Executed(r) \cup {g}
  BY <1>5 DEF Executed, E, F
<1>7. \A p \in Replica \ {r} : Executed(p)' = Executed(p)
  BY DEF Executed
<1>8. AllExecuted' = AllExecuted \cup {g}
  BY <1>6, <1>7 DEF AllExecuted
<1> QED BY <1>1, <1>4, <1>8 DEF E, F

\* one that executes none leaves them.
LEMMA ExecutedSame ==
    ASSUME NEW r \in Replica,
           \A p \in Replica \ {r} : host'[p] = host[p], Passes(host[r], host'[r])
    PROVE  /\ AllExecuted' = AllExecuted
           /\ \A p \in Replica : host'[p].executed = host[p].executed
<1>1. \A p \in Replica : host'[p].executed = host[p].executed
  BY DEF Passes
<1>2. \A p \in Replica : Executed(p)' = Executed(p)
  BY <1>1 DEF Executed
<1> QED BY <1>1, <1>2 DEF AllExecuted

\* The invariant holds initially,
LEMMA LogInit ==
    ASSUME ~Damysus, Init
    PROVE  LogInvariant /\ AllExecuted = {newHash}
<1>1. InductiveInvariant
  BY InitHolds
<1>2. \A r \in Replica : host[r].executed = <<>>
  BY DEF Init, HostInit
<1>3. \A r \in Replica : InOrder(host[r]) /\ Executed(r) = {}
  BY <1>2 DEF InOrder, Executed
<1>4. AllExecuted = {newHash}
  BY <1>3 DEF AllExecuted
<1>5. SomeLongest
  <2>1. Len(newHash) <= Len(newHash)
    BY DEF newHash
  <2> QED BY <1>4, <2>1 DEF SomeLongest
<1> QED BY <1>1, <1>3, <1>4, <1>5 DEF LogInvariant

\* one more block leaves a longest one,
LEMMA LongestKept ==
    ASSUME SomeLongest, AllExecuted \subseteq Hash, NEW g \in Hash,
           AllExecuted' = AllExecuted \cup {g}
    PROVE  SomeLongest'
<1>1. PICK h \in AllExecuted : \A f \in AllExecuted : Len(f) <= Len(h)
  BY DEF SomeLongest
<1>2. Len(g) \in Nat /\ Len(h) \in Nat /\ \A f \in AllExecuted : Len(f) \in Nat
  BY HashView
<1>3. CASE Len(g) <= Len(h)
  <2>1. \A f \in AllExecuted \cup {g} : Len(f) <= Len(h)
    BY <1>1, <1>3
  <2> QED BY <1>1, <2>1 DEF SomeLongest
<1>4. CASE Len(h) <= Len(g)
  <2>1. \A f \in AllExecuted \cup {g} : Len(f) <= Len(g)
    BY <1>1, <1>2, <1>4
  <2> QED BY <2>1 DEF SomeLongest
<1> QED BY <1>2, <1>3, <1>4

\* and the invariant is preserved by every step.
LEMMA LogNext ==
    ASSUME ~Damysus, LogInvariant, [Next]_vars
    PROVE  LogInvariant'
<1>1. InductiveInvariant /\ InductiveInvariant'
  BY NextHolds DEF LogInvariant
<1>2. CASE UNCHANGED vars
  <2>1. host' = host
    BY <1>2 DEF vars
  <2>2. AllExecuted' = AllExecuted
    BY <2>1 DEF AllExecuted, Executed
  <2>3. SomeLongest'
    BY <2>2 DEF LogInvariant, SomeLongest
  <2>4. \A r \in Replica : InOrder(host'[r])
    BY <2>1 DEF LogInvariant
  <2> QED BY <1>1, <2>3, <2>4 DEF LogInvariant
<1>3. CASE Next
  <2>1. PICK r \in Replica : /\ Steps(host[r], host'[r])
                             /\ \A p \in Replica \ {r} : host'[p] = host[p]
    BY <1>1, <1>3, NextSteps
  <2>2. \A p \in Replica : InOrder(host'[p])
    <3>1. InOrder(host'[r])
      BY <1>1, <2>1, OrderKept DEF LogInvariant
    <3> QED BY <2>1, <3>1 DEF LogInvariant
  <2>3. SomeLongest'
    <3>1. CASE Passes(host[r], host'[r])
      BY <2>1, <3>1, ExecutedSame DEF LogInvariant, SomeLongest
    <3>2. CASE Applies(host[r], host'[r])
      <4>1. PICK g \in Hash : AllExecuted' = AllExecuted \cup {g}
        BY <1>1, <2>1, <3>2, ExecutedGrows
      <4>2. AllExecuted \subseteq Hash
        BY <1>1, HostsTyped DEF HostTypes
      <4> QED BY <4>1, <4>2, LongestKept DEF LogInvariant
    <3> QED BY <2>1, <3>1, <3>2 DEF Steps
  <2> QED BY <1>1, <2>2, <2>3 DEF LogInvariant
<1> QED BY <1>2, <1>3

-----------------------------------------------------------------------------
(* What the invariant says of the executed blocks *)

\* An executed block is final, in the view it names.
LEMMA ExecutedParts ==
    ASSUME InductiveInvariant, Uniform, NEW r \in Replica, NEW i \in DOMAIN host[r].executed
    PROVE  /\ host[r].executed[i] \in Hash
           /\ \E d \in AllSigned : /\ d.proph = host[r].executed[i] /\ IsFinal(d) /\ Names(d)
                                   /\ d.propv = ViewOf(d.proph) /\ d.propv \in Nat
<1> DEFINE h == host[r].executed[i]
<1>1. h \in Executed(r)
  BY DEF Executed
<1>2. ExecutedIsFinal
  BY ExecutedFollows DEF InductiveInvariant
<1>3. PICK d \in AllSigned : d.proph = h /\ IsFinal(d)
  BY <1>1, <1>2 DEF ExecutedIsFinal
<1>4. PICK p \in Replica : d \in signed[p]
  BY DEF AllSigned
<1>5. TheWorld \in World /\ Inv(TheWorld) /\ TheWorld.signed = signed
  BY DEF InductiveInvariant, Typed, SafetyInvariant, TheWorld
<1>6. Names(d)
  BY <1>3 DEF IsFinal, Names
<1> HIDE DEF h
<1>7. d.proph \in Hash /\ ViewOf(d.proph) = d.propv /\ d.propv \in Nat
  BY <1>4, <1>5, <1>6, NamedView
<1> QED BY <1>3, <1>6, <1>7 DEF h

\* A block has no other ancestor of its own length.
LEMMA AncestorSame ==
    ASSUME NEW a \in Hash, NEW b \in Hash, IsAncestor(a, b), Len(b) <= Len(a)
    PROVE  a = b
<1>1. Len(a) \in Nat /\ Len(b) \in Nat /\ Len(a) = Len(b)
  BY HashView DEF IsAncestor
<1>2. a = SubSeq(b, 1, Len(b))
  BY <1>1 DEF IsAncestor
<1> QED BY <1>2, SubSeqFull DEF Hash

\* What a replica executes later extends what it executed before.
LEMMA ExecutedChain ==
    ASSUME LogInvariant, Uniform, NEW r \in Replica,
           NEW i \in DOMAIN host[r].executed, NEW j \in DOMAIN host[r].executed, i < j
    PROVE  LET a == host[r].executed[i]
               b == host[r].executed[j]
           IN  IsAncestor(a, b) /\ Len(a) < Len(b)
<1> DEFINE a == host[r].executed[i]
           b == host[r].executed[j]
<1>1. InductiveInvariant /\ Typed /\ SafetyInvariant /\ ViewOf(a) < ViewOf(b)
  BY DEF LogInvariant, InOrder, InductiveInvariant
<1>2. /\ a \in Hash
      /\ \E d \in AllSigned : /\ d.proph = a /\ IsFinal(d) /\ Names(d)
                              /\ d.propv = ViewOf(d.proph) /\ d.propv \in Nat
  BY <1>1, ExecutedParts
<1>3. /\ b \in Hash
      /\ \E d \in AllSigned : /\ d.proph = b /\ IsFinal(d) /\ Names(d)
                              /\ d.propv = ViewOf(d.proph) /\ d.propv \in Nat
  BY <1>1, ExecutedParts
<1> HIDE DEF a, b
<1>4. PICK d \in AllSigned : d.proph = a /\ IsFinal(d) /\ d.propv = ViewOf(a)
  BY <1>2
<1>5. PICK e \in AllSigned : e.proph = b /\ Names(e) /\ e.propv = ViewOf(b)
  BY <1>3
<1>6. IsAncestor(a, b)
  BY <1>1, <1>4, <1>5, NamedExtends
<1>7. ~(Len(b) <= Len(a))
  <2>1. a # b
    BY <1>1, <1>2, HashView
  <2> QED BY <1>2, <1>3, <1>6, <2>1, AncestorSame
<1>8. Len(a) \in Nat /\ Len(b) \in Nat
  BY <1>2, <1>3, HashView
<1> QED BY <1>6, <1>7, <1>8 DEF a, b

\* So the blocks a replica executes become longer and longer.
LongerAndLonger ==
    \A r \in Replica : \A i \in DOMAIN host[r].executed :
        i > 1 => Len(host[r].executed[i - 1]) < Len(host[r].executed[i])

\* The lengths follow from the chain.
LEMMA ExecutedLonger == (LogInvariant /\ Uniform) => LongerAndLonger
<1> SUFFICES ASSUME LogInvariant, Uniform, NEW r \in Replica,
                    NEW i \in DOMAIN host[r].executed, i > 1
             PROVE  Len(host[r].executed[i - 1]) < Len(host[r].executed[i])
  BY DEF LongerAndLonger
<1>1. host[r].executed \in Seq(Hash)
  BY HostsTyped DEF LogInvariant, HostTypes
<1>2. i - 1 \in DOMAIN host[r].executed /\ i - 1 < i
  BY <1>1
<1> QED BY <1>2, ExecutedChain

\* Only timeouts make gaps.
LEMMA GapsFollow ==
    ASSUME LogInvariant, Uniform
    PROVE  GapsAreTimeouts
<1> SUFFICES ASSUME NEW r \in Replica,
                    NEW i \in 2 .. Len(<<newHash>> \o host[r].executed),
                    LET run == <<newHash>> \o host[r].executed
                    IN  ViewOf(run[i]) = ViewOf(run[i - 1]) + 1
             PROVE  LET run == <<newHash>> \o host[r].executed
                    IN  Len(run[i]) = Len(run[i - 1]) + 1
  BY DEF GapsAreTimeouts
<1> DEFINE E == host[r].executed
           run == <<newHash>> \o E
           k == i - 1
<1>1. InductiveInvariant /\ Typed /\ SafetyInvariant /\ E \in Seq(Hash)
  BY HostsTyped DEF LogInvariant, InductiveInvariant, HostTypes
<1>2. /\ k \in DOMAIN E /\ run[i] = E[k] /\ i \in Nat
      /\ k = 1 => run[i - 1] = newHash
      /\ k # 1 => k - 1 \in DOMAIN E /\ run[i - 1] = E[k - 1]
  <2>1. newHash \in Hash
    BY DEF newHash, Hash
  <2>2. i \in 2 .. Len(run)
    OBVIOUS
  <2> HIDE DEF E
  <2>3. /\ Len(run) = Len(E) + 1 /\ Len(E) \in Nat /\ DOMAIN E = 1 .. Len(E)
        /\ run[1] = newHash /\ \A n \in 1 .. Len(E) : run[n + 1] = E[n]
    BY <1>1, <2>1
  <2> HIDE DEF run
  <2>4. i \in Nat /\ i >= 2 /\ i <= Len(E) + 1
    BY <2>2, <2>3
  <2>5. k \in DOMAIN E /\ run[i] = E[k]
    <3>1. k \in 1 .. Len(E) /\ k + 1 = i
      BY <2>3, <2>4
    <3> QED BY <2>3, <3>1
  <2>6. ASSUME k # 1 PROVE k - 1 \in DOMAIN E /\ run[i - 1] = E[k - 1]
    <3>1. k - 1 \in 1 .. Len(E) /\ (k - 1) + 1 = i - 1
      BY <2>3, <2>4, <2>6
    <3> QED BY <2>3, <3>1
  <2> QED BY <2>3, <2>4, <2>5, <2>6
<1>3. ViewOf(run[i]) = ViewOf(run[i - 1]) + 1
  OBVIOUS
<1> HIDE DEF run
<1>4. PICK e \in AllSigned : /\ e.proph = E[k] /\ Names(e)
                             /\ e.propv = ViewOf(e.proph) /\ e.propv \in Nat
  BY <1>1, <1>2, ExecutedParts
<1>5. ASSUME k = 1 PROVE Len(run[i]) = Len(run[i - 1]) + 1
  <2>1. e.propv = 1
    BY <1>2, <1>3, <1>4, <1>5 DEF ViewOf
  <2>2. TheWorld \in World /\ Inv(TheWorld) /\ TheWorld.signed = signed
    BY <1>1 DEF Typed, SafetyInvariant, TheWorld
  <2>3. PICK p \in Replica : e \in TheWorld.signed[p]
    BY <2>2 DEF AllSigned
  <2>4. PICK l \in Replica : \E h \in Hash : ChildOf(TheWorld.signed, e, h, l)
    BY <1>4, <2>2, <2>3, ParentNamed
  <2>5. PICK h \in Hash : ChildOf(TheWorld.signed, e, h, l)
    BY <2>4
  <2>6. h = newHash
    <3> SUFFICES ASSUME NEW q \in Replica, NEW g \in TheWorld.signed[q],
                        Names(g), g.propv < 1
                 PROVE  FALSE
      BY <2>1, <2>5 DEF ChildOf
    <3>1. g.propv >= 1
      BY <2>2 DEF Inv, ComponentOK
    <3>2. g.propv \in Nat
      BY <2>2, NamedView
    <3> QED BY <3>1, <3>2
  <2>7. Len(e.proph) = 1
    <3>1. <<l, 1>> \in BlockId
      BY DEF BlockId, View
    <3>2. e.proph = Append(newHash, <<l, 1>>)
      BY <2>1, <2>5, <2>6 DEF ChildOf
    <3> QED BY <3>1, <3>2, <2>6, AppendProperties DEF Hash, newHash
  <2>8. Len(newHash) = 0
    BY DEF newHash
  <2>9. run[i] = e.proph /\ run[i - 1] = newHash
    BY <1>2, <1>4, <1>5
  <2> QED BY <2>7, <2>8, <2>9
<1>6. ASSUME k # 1 PROVE Len(run[i]) = Len(run[i - 1]) + 1
  <2>1. PICK d \in AllSigned : /\ d.proph = E[k - 1] /\ IsFinal(d)
                               /\ d.propv = ViewOf(d.proph) /\ d.propv \in Nat
    BY <1>1, <1>2, <1>6, ExecutedParts
  <2>2. e.propv = d.propv + 1
    BY <1>2, <1>3, <1>4, <1>6, <2>1
  <2>3. Len(e.proph) = Len(d.proph) + 1
    BY <1>1, <1>4, <2>1, <2>2, NextIsChild
  <2>4. run[i] = e.proph /\ run[i - 1] = d.proph
    BY <1>2, <1>4, <1>6, <2>1
  <2> QED BY <2>3, <2>4
<1>7. Len(run[i]) = Len(run[i - 1]) + 1
  BY <1>5, <1>6
<1> QED BY <1>7 DEF run

-----------------------------------------------------------------------------
(* The refinement *)

\* The log of the refinement mapping is one of the longest executed blocks.
LEMMA LongestIs ==
    ASSUME SomeLongest
    PROVE  LongestExecuted \in AllExecuted /\ \A g \in AllExecuted : Len(g) <= Len(LongestExecuted)
BY DEF SomeLongest, LongestExecuted, AllExecuted

\* All executed blocks lie on the log.
LEMMA OnTheLog ==
    (LogInvariant /\ Uniform) => \A a \in AllExecuted : a \in Hash /\ IsAncestor(a, LongestExecuted)
<1> SUFFICES ASSUME LogInvariant, Uniform, NEW a \in AllExecuted
             PROVE  a \in Hash /\ IsAncestor(a, LongestExecuted)
  OBVIOUS
<1> DEFINE L == LongestExecuted
<1>1. AllExecuted \subseteq Hash
  BY HostsTyped DEF LogInvariant, HostTypes
<1>2. L \in AllExecuted /\ Len(a) <= Len(L)
  BY LongestIs DEF LogInvariant
<1> HIDE DEF L
<1>3. a \in Hash /\ L \in Hash
  BY <1>1, <1>2
<1>4. ASSUME NEW b \in Hash PROVE IsAncestor(newHash, b)
  BY DEF IsAncestor, newHash, Hash
<1>5. Agreement
  BY AgreementFollows DEF LogInvariant, InductiveInvariant
<1>6. IsAncestor(a, L) \/ IsAncestor(L, a)
  BY <1>2, <1>3, <1>4, <1>5 DEF AllExecuted, Agreement
<1>7. CASE IsAncestor(L, a)
  <2>1. L = a
    BY <1>2, <1>3, <1>7, AncestorSame
  <2> QED BY <1>3, <2>1, AncestorSelf DEF L
<1> QED BY <1>3, <1>6, <1>7 DEF L

\* A block is the sequence of its ancestors, so an ancestor is a prefix.
LEMMA AncestorIsPrefix ==
    ASSUME NEW a \in Hash, NEW b, IsAncestor(a, b)
    PROVE  Log!IsPrefix(a, b)
BY SubSeqFull DEF IsAncestor, Hash, Log!IsPrefix

\* A replica that executes a block applies an entry of the log.
LEMMA AppliesApply ==
    ASSUME Uniform, LogInvariant, LogInvariant', NEW r \in Replica,
           \A p \in Replica \ {r} : host'[p] = host[p], Applies(host[r], host'[r])
    PROVE  Log!Apply(r)
<1> DEFINE E == host[r].executed
           F == host'[r].executed
           L == LongestExecuted
           M == LongestExecuted'
<1>1. InductiveInvariant /\ InductiveInvariant'
  BY DEF LogInvariant
<1>2. PICK g \in Hash : F = Append(E, g) /\ AllExecuted' = AllExecuted \cup {g}
  BY <1>1, ExecutedGrows
<1>3. E \in Seq(Hash)
  BY <1>1, HostsTyped DEF HostTypes
<1>4. \A a \in AllExecuted' : a \in Hash /\ IsAncestor(a, M)
  <2>1. (LogInvariant /\ Uniform)' => (\A a \in AllExecuted : a \in Hash /\ IsAncestor(a, LongestExecuted))'
    BY OnTheLog, PTL
  <2> QED BY <2>1
<1>5. L \in AllExecuted
  BY LongestIs DEF LogInvariant
<1>6. Log!IsStrictPrefix(E, F)
  <2> HIDE DEF E, F
  <2>1. Len(E) \in Nat /\ Len(F) = Len(E) + 1 /\ F \in Seq(Hash)
    BY <1>2, <1>3
  <2>2. \A i \in 1 .. Len(E) : F[i] = E[i]
    BY <1>2, <1>3
  <2>3. SubSeq(E, 1, Len(E)) = SubSeq(F, 1, Len(E))
    BY <1>3, <2>1, <2>2
  <2> QED BY <2>1, <2>3 DEF Log!IsStrictPrefix, Log!IsPrefix
<1>7. Log!IsPrefix(L, M)
  <2> HIDE DEF L, M
  <2> QED BY <1>2, <1>4, <1>5, AncestorIsPrefix
<1>8. \A i \in DOMAIN F : Log!IsPrefix(F[i], M)
  <2>1. \A i \in DOMAIN F : F[i] \in AllExecuted'
    BY DEF AllExecuted, Executed
  <2> HIDE DEF F, M
  <2> QED BY <1>4, <2>1, AncestorIsPrefix
<1>9. ASSUME NEW i \in DOMAIN F, i > 1 PROVE Len(F[i - 1]) < Len(F[i])
  <2>1. (LogInvariant /\ Uniform)' => LongerAndLonger'
    BY ExecutedLonger, PTL
  <2>2. LongerAndLonger'
    BY <2>1
  <2> QED BY <1>9, <2>2 DEF LongerAndLonger
<1> QED BY <1>6, <1>7, <1>8, <1>9 DEF Log!Apply

\* Every step is a step of the log, or leaves it and what was applied.
LEMMA LogStep ==
    ASSUME Uniform, LogInvariant, LogInvariant', [Next]_vars
    PROVE  [Log!Next]_<<LongestExecuted, [r \in Replica |-> host[r].executed]>>
<1> DEFINE A == [r \in Replica |-> host[r].executed]
<1>1. CASE UNCHANGED vars
  <2>1. LongestExecuted' = LongestExecuted /\ A' = A
    BY <1>1 DEF vars, LongestExecuted, Executed
  <2> QED BY <2>1
<1>2. CASE Next
  <2>1. PICK r \in Replica : /\ Steps(host[r], host'[r])
                             /\ \A p \in Replica \ {r} : host'[p] = host[p]
    BY <1>2, NextSteps DEF LogInvariant
  <2>2. CASE Passes(host[r], host'[r])
    <3>1. /\ AllExecuted' = AllExecuted
          /\ \A p \in Replica : host'[p].executed = host[p].executed
      BY <2>1, <2>2, ExecutedSame
    <3>2. LongestExecuted' = LongestExecuted
      BY <3>1 DEF LongestExecuted, AllExecuted
    <3>3. A' = A
      BY <3>1
    <3> QED BY <3>2, <3>3
  <2>3. CASE Applies(host[r], host'[r])
    BY <2>1, <2>3, AppliesApply DEF Log!Next
  <2> QED BY <2>1, <2>2, <2>3 DEF Steps
<1> QED BY <1>1, <1>2

\* Initially the log is empty and nothing is applied.
LEMMA LogStart ==
    ASSUME ~Damysus, Init
    PROVE  Log!Init
<1>1. AllExecuted = {newHash}
  BY LogInit
<1>2. LongestExecuted = newHash
  <2>1. LongestExecuted \in AllExecuted
    BY LogInit, LongestIs DEF LogInvariant
  <2> QED BY <1>1, <2>1
<1>3. \A r \in Replica : host[r].executed = <<>>
  BY DEF Init, HostInit
<1>4. [r \in Replica |-> host[r].executed] = [r \in Replica |-> <<>>]
  BY <1>3
<1> QED BY <1>2, <1>4 DEF Log!Init, newHash

-----------------------------------------------------------------------------
(* The theorems *)

(***************************************************************************)
(* executeComb applies no missed ancestors, yet a replica that executes in *)
(* two consecutive views executes a block and its child: only a view left  *)
(* on a timeout makes a gap.  Where Uniform holds.                         *)
(***************************************************************************)
THEOREM RaftelGaps ==
    ASSUME ~Damysus, Uniform
    PROVE  Spec => []GapsAreTimeouts
<1>1. Init => LogInvariant
  BY LogInit
<1>2. LogInvariant /\ [Next]_vars => LogInvariant'
  BY LogNext
<1>3. LogInvariant => GapsAreTimeouts
  BY GapsFollow
<1> QED BY <1>1, <1>2, <1>3, PTL DEF Spec

(***************************************************************************)
(* Basic Raftel implements ReplicatedLog: what the replicas hand to their  *)
(* KV stores in executeComb are entries of one log that only grows, each   *)
(* replica applies them in the order of the log, and none twice, whatever  *)
(* is lost, delayed or answered by a timeout.  Where Uniform holds.        *)
(***************************************************************************)
THEOREM RaftelImplementsLog ==
    ASSUME ~Damysus, Uniform
    PROVE  Spec => ImplementsReplicatedLog
<1>1. Init => LogInvariant /\ Log!Init
  BY LogInit, LogStart
<1>2. LogInvariant /\ [Next]_vars => LogInvariant'
  BY LogNext
<1>3. LogInvariant /\ LogInvariant' /\ [Next]_vars
      => [Log!Next]_<<LongestExecuted, [r \in Replica |-> host[r].executed]>>
  BY LogStep
<1> QED BY <1>1, <1>2, <1>3, PTL DEF Spec, ImplementsReplicatedLog, Log!Spec

=============================================================================
