-------------------------------- MODULE Raftel --------------------------------
(***************************************************************************)
(* Basic Raftel: the replicas' hosts (App/Handler.cpp, the Comb handlers), *)
(* their message logs (App/Log.cpp), their trusted components (module      *)
(* EnclaveComb) and the channels between them.  The Basic-Damysus build    *)
(* runs the same handlers over the component of module EnclaveDamysus.     *)
(*                                                                         *)
(* A replica runs one handler at a time on its peer event loop, so each    *)
(* handler is one action.  A handler is written as the composition of the  *)
(* functions it calls, each an operator on the context x of replica x.id:  *)
(* its trusted component, the statements that component has signed, its    *)
(* outgoing channels and its host state.  Replicas follow the code; one    *)
(* that takes no more steps is a crashed replica (nothing is persisted,    *)
(* and no code brings a replica back).                                     *)
(***************************************************************************)
EXTENDS EnclaveComb, EnclaveDamysus

CONSTANTS
    Damysus,      \* built as BASIC_DAMYSUS (TRUE) or BASIC_HYBRID_TEE (FALSE)
    MaxViews,     \* numViews: stop after this many executed views, 0 for never
    MaxTimeouts,  \* bound: how many view timers may run out
    MaxView       \* bound: no timer runs out in this view or later

ASSUME BuildAssumption == Damysus \in BOOLEAN
ASSUME BoundsAssumption == MaxViews \in Nat /\ MaxTimeouts \in Nat /\ MaxView \in Nat

VARIABLES
    tc,        \* the state of each trusted component
    signed,    \* history: the statements each trusted component has signed
    net,       \* net[s][r]: the messages in flight from s to r, oldest first
    host,      \* the state of each Handler
    timeouts   \* how many view timers have run out

vars == <<tc, signed, net, host, timeouts>>

-----------------------------------------------------------------------------
(* Trusted calls *)

(***************************************************************************)
(* The calls into the trusted component.  In the Raftel build a replica    *)
(* with a TEE enters its enclave and one without runs the same component   *)
(* in its host.                                                            *)
(***************************************************************************)
TrustedInit == IF Damysus THEN DAMYSUS_init ELSE COMB_init

callTEEsignComb(c) == IF Damysus THEN DAMYSUS_TEEsign(c) ELSE COMB_TEEsign(c)

CanPrepare(c, block, acc, proof) ==
    IF Damysus THEN CanDAMYSUS_TEEprepare(c, acc) ELSE CanTEEprepare(c, block, acc, proof)
callTEEprepareComb(c, block, acc) ==
    IF Damysus THEN DAMYSUS_TEEprepare(c, block.hash, acc) ELSE COMB_TEEprepare(c, block, acc)

CanStore(c, just) == IF Damysus THEN CanDAMYSUS_TEEstore(c, just) ELSE CanTEEstore(c, just)
callTEEstoreComb(c, just) ==
    IF Damysus THEN DAMYSUS_TEEstore(c, just) ELSE COMB_TEEstore(c, just)

callTEEaccumComb(p, nvs) ==
    IF Damysus THEN DAMYSUS_TEEaccum(p, nvs) ELSE COMB_TEEaccum(p, nvs)
callTEEaccumCombSp(p, data, signers) ==
    IF Damysus THEN DAMYSUS_TEEaccumSp(p, data, signers) ELSE COMB_TEEaccumSp(p, data, signers)

-----------------------------------------------------------------------------
(* Messages *)

MsgNewViewComb(data, p) == [type |-> "newview", data |-> data, signer |-> p]

\* sdata is what the leader's component signed, sent as the signature alone.
\* MsgLdrPrepareDamysus has no proof.
MsgLdrPrepareComb(acc, block, proof, sdata, p) ==
    [type |-> "ldrprepare", acc |-> acc, block |-> block,
     proof |-> IF Damysus THEN {} ELSE proof, sdata |-> sdata, signer |-> p]

\* MsgPrepareComb, MsgPreCommitComb and MsgCommitComb: a vote or a certificate.
MsgComb(kind, data, signers) == [type |-> kind, data |-> data, signers |-> signers]

-----------------------------------------------------------------------------
(* Host state *)

\* The constructor sets the view to 1 in the Raftel build only.
FirstView == IF Damysus THEN 0 ELSE 1

HostInit ==
    [view |-> FirstView,
     phase |-> PH1_NEWVIEW,
     skipped |-> {},             \* skippedLeaders
     processedNewViews |-> {},
     processedCommit |-> {},
     blocks |-> <<>>,            \* blocks[v], a partial function of the view
     executed |-> <<>>,          \* the blocks applied to the KV store, in order
     nvs |-> {},                 \* newviewsComb and TEEnewviewsComb
     ldrs |-> {},                \* ldrpreparesComb
     votes |-> {},               \* (TEE)preparesComb, (TEE)precommitsComb, (TEE)commitsComb
     qcs |-> {},                 \* futurePrepareQCs, futurePreCommitQCs, futureCommitQCs
     started |-> FALSE,
     stopped |-> FALSE,
     catchup |-> FALSE]          \* the running handler has yet to replay stored messages

Init ==
    /\ tc = [r \in Replica |-> TrustedInit]
    /\ signed = [r \in Replica |-> {}]
    /\ net = [s \in Replica |-> [r \in Replica |-> <<>>]]
    /\ host = [r \in Replica |-> HostInit]
    /\ timeouts = 0

Context(r) == [id |-> r, tc |-> tc[r], signed |-> signed[r], out |-> net[r], h |-> host[r]]

Leader(x, v) == getLeaderOf(x.h.skipped, v)
CurrentLeader(x) == Leader(x, x.h.view)
amLeaderOf(x, v) == Leader(x, v) = x.id

SetBlock(x, h) ==
    [x EXCEPT !.h.blocks = [v \in DOMAIN @ \cup {x.h.view} |-> IF v = x.h.view THEN h ELSE @[v]]]

-----------------------------------------------------------------------------
(* The log *)

\* storeNvComb, storeTEENvComb: the first new-view of a signer for a view is kept.
StoreNewView(x, m) ==
    IF \E o \in x.h.nvs : o.signer = m.signer /\ o.data.propv = m.data.propv
    THEN x ELSE [x EXCEPT !.h.nvs = @ \cup {[data |-> m.data, signer |-> m.signer]}]

getTEENewViewComb(x, v) ==
    Lowest({m \in x.h.nvs : m.data.propv = v /\ isTEE(m.signer)}, tqsize)
getNewViewComb(x, v) ==
    Lowest({m \in x.h.nvs : m.data.propv = v /\ ~isTEE(m.signer)}, qsize)

\* Mutant: only a classical quorum of new-views starts a view.
EnoughNewViews_classic(x, v) ==
    Cardinality(getTEENewViewComb(x, v)) + Cardinality(getNewViewComb(x, v)) >= qsize

EnoughNewViews(x, v) ==
    LET tee == Cardinality(getTEENewViewComb(x, v))
        non == Cardinality(getNewViewComb(x, v))
    IN  (fastQC /\ tee >= tqsize) \/ tee + non >= qsize

StoreLdrPrepare(x, m) ==
    IF \E o \in x.h.ldrs : o.signer = m.signer /\ o.acc.view = m.acc.view
    THEN x ELSE [x EXCEPT !.h.ldrs = @ \cup {m}]

LdrPrepares(x, v) == {m \in x.h.ldrs : m.acc.view = v}
firstLdrPrepareComb(x, v) ==
    CHOOSE m \in LdrPrepares(x, v) : \A o \in LdrPrepares(x, v) : m.signer <= o.signer

HasVote(x, kind, v, p) ==
    \E o \in x.h.votes : o.kind = kind /\ o.data.propv = v /\ o.signer = p

\* storePrepComb, storePcComb, storeComComb and their TEE counterparts.
StoreVote(x, kind, data, p) ==
    IF HasVote(x, kind, data.propv, p)
    THEN x ELSE [x EXCEPT !.h.votes = @ \cup {[kind |-> kind, data |-> data, signer |-> p]}]

TEEVotes(x, kind, v) ==
    {o \in x.h.votes : o.kind = kind /\ o.data.propv = v /\ isTEE(o.signer)}
NonTEEVotes(x, kind, v) ==
    {o \in x.h.votes : o.kind = kind /\ o.data.propv = v /\ ~isTEE(o.signer)}

\* getPrepareCombMerged and its siblings: TEE votes first, then the others, up to qsize.
MergedVotes(x, kind, v) ==
    LET tee == Lowest(TEEVotes(x, kind, v), qsize)
    IN  tee \cup Lowest(NonTEEVotes(x, kind, v), qsize - Cardinality(tee))

-----------------------------------------------------------------------------
(* Proposing *)

newviews2accComb(p, nvs) ==
    LET first == FirstNewView(nvs)
    IN  IF \A m \in nvs : m.data = first.data
        THEN callTEEaccumCombSp(p, first.data, SignersOf(nvs))
        ELSE callTEEaccumComb(p, nvs)

createNewBlock(x, prev) == [prev |-> prev, hash |-> Append(prev, <<x.id, x.h.view>>)]

\* processQC, once the new-views are accumulated and the block is made.
Propose(x, nvs, acc, block) ==
    LET res == callTEEprepareComb(x.tc, block, acc)
        y   == SetBlock(Signed(x, res), block.hash)
        z   == [y EXCEPT !.h.processedNewViews = @ \cup {x.h.view}]
    IN  IF CanPrepare(x.tc, block, acc, nvs)
        THEN StoreVote(Broadcast(z, MsgLdrPrepareComb(acc, block, nvs, res.data, x.id)),
                       PH1_PREPARE, res.data, x.id)
        ELSE x

processQC(x, nvs) ==
    LET acc == newviews2accComb(x.id, nvs)
    IN  IF x.h.view \in x.h.processedNewViews THEN x
        ELSE Propose(x, nvs, acc, createNewBlock(x, acc.hash))

prepareComb(x) ==
    LET tee   == getTEENewViewComb(x, x.h.view)
        non   == getNewViewComb(x, x.h.view)
        mixed == tee \cup Lowest(non, qsize - Cardinality(tee))
    IN  IF fastQC /\ Cardinality(tee) >= tqsize THEN processQC(x, tee)
        ELSE IF Cardinality(mixed) = qsize THEN processQC(x, mixed)
        ELSE x

\* A leader that has proposed waits for votes.
AfterPrepare(x) ==
    IF x.h.view \in x.h.processedNewViews THEN [x EXCEPT !.h.phase = PH1_PREPARE] ELSE x

handleNewviewComb(x, m) ==
    LET v == m.data.propv
        y == StoreNewView(x, m)
    IN  IF ~(v >= x.h.view /\ amLeaderOf(x, v) /\ m.data.phase = PH1_NEWVIEW) THEN x
        ELSE IF ~(y.h.phase = PH1_NEWVIEW /\ EnoughNewViews(y, v)) THEN y
        ELSE AfterPrepare(prepareComb(y))

-----------------------------------------------------------------------------
(* Entering the next view *)

\* Mutant: the loop of startNewViewComb runs a view too far.
LoopEnd_over(x) == [x.tc EXCEPT !.view = x.h.view + 2, !.phase = PH1_NEWVIEW]

(***************************************************************************)
(* The component state whose TEEsign ends the loop of startNewViewComb:    *)
(* the first at or after the current one whose view is beyond the host's.  *)
(***************************************************************************)
LoopEnd(x) == IF x.tc.view > x.h.view THEN x.tc
              ELSE [x.tc EXCEPT !.view = x.h.view + 1, !.phase = PH1_NEWVIEW]

UsedPhases == IF Damysus THEN DamysusPhase ELSE Phase1

\* Everything the loop signs; all but the last statement is thrown away.
LoopStatements(x) ==
    {d \in {callTEEsignComb([x.tc EXCEPT !.view = v, !.phase = p]).data :
                v \in x.tc.view .. LoopEnd(x).view, p \in UsedPhases} :
        /\ Counter(x.tc.view, x.tc.phase) <= Counter(d.propv, d.phase)
        /\ Counter(d.propv, d.phase) <= Counter(LoopEnd(x).view, LoopEnd(x).phase)}

(***************************************************************************)
(* startNewViewComb.  The leader branch of handleEarlierMessagesComb is    *)
(* here.  The backup branch is the last thing the handler does and may     *)
(* come back to startNewViewComb: it is action CatchUp, which the replica  *)
(* takes before anything else.  It does nothing without a stored proposal  *)
(* because no block can be recorded for a view not yet entered.            *)
(***************************************************************************)
startNewViewComb(x) ==
    LET last    == callTEEsignComb(LoopEnd(x))
        y       == [x EXCEPT !.tc = last.tc, !.signed = @ \cup LoopStatements(x),
                             !.h.view = @ + 1]
        m       == MsgNewViewComb(last.data, x.id)
        earlier == IF EnoughNewViews(y, y.h.view) THEN prepareComb(y) ELSE y
        stored  == LdrPrepares(y, y.h.view) # {}
    IN  IF ~(last.data.propv = y.h.view /\ last.data.phase = PH1_NEWVIEW) THEN y
        ELSE IF amLeaderOf(y, y.h.view) THEN handleNewviewComb(earlier, m)
        ELSE [SendTo(y, CurrentLeader(y), m) EXCEPT !.h.catchup = stored]

-----------------------------------------------------------------------------
(* Executing *)

\* replyHash: applies the block of the current view to the KV store and replies.
replyHash(x, hash) ==
    IF x.h.view \in DOMAIN x.h.blocks /\ x.h.blocks[x.h.view] = hash
    THEN [x EXCEPT !.h.executed = Append(@, hash)] ELSE x

timeToStopComb(x) == MaxViews > 0 /\ Cardinality(x.h.processedCommit) >= MaxViews

executeComb(x, data) ==
    LET y == replyHash([x EXCEPT !.h.processedCommit = @ \cup {data.propv}], data.proph)
    IN  IF \/ data.propv \in x.h.processedCommit
           \/ data.propv \notin DOMAIN x.h.blocks
           \/ x.h.blocks[data.propv] # data.proph
        THEN x
        ELSE IF timeToStopComb(y) THEN [y EXCEPT !.h.stopped = TRUE]
        ELSE startNewViewComb(y)

-----------------------------------------------------------------------------
(* Certificates *)

verifyCombQC(data, signers, kind) == data.phase = kind /\ IsQuorum(signers)

verifyCombVote(data, signers, kind) == data.phase = kind /\ Cardinality(signers) = 1

\* The votes a leader turns into a certificate of the given kind.
QCVotes(x, kind, v, qcType) ==
    IF qcType = "TEE" THEN Lowest(TEEVotes(x, kind, v), tqsize) ELSE MergedVotes(x, kind, v)

\* verifyCombQC on votes from the log: every one must be a signature of data.
ValidQC(data, votes, kind) ==
    /\ \A o \in votes : o.data = data
    /\ verifyCombQC(data, {o.signer : o \in votes}, kind)

decideComb(x, data, qcType) ==
    LET kind  == IF isTEE(CurrentLeader(x)) THEN PH1_PREPARE ELSE PH1_COMMIT
        votes == QCVotes(x, kind, data.propv, qcType)
    IN  IF ValidQC(data, votes, kind)
        THEN executeComb(Broadcast(x, MsgComb(kind, data, {o.signer : o \in votes})), data)
        ELSE x

\* preCommitComb and commitComb: send the certificate of one phase, vote in the next.
Advance(x, data, qcType, kind, next) ==
    LET votes   == QCVotes(x, kind, data.propv, qcType)
        signers == {o.signer : o \in votes}
        just    == [data |-> data, signers |-> signers]
        y       == Broadcast(x, MsgComb(kind, data, signers))
        res     == callTEEstoreComb(x.tc, just)
    IN  IF ~ValidQC(data, votes, kind) THEN x
        ELSE IF ~CanStore(x.tc, just) THEN y
        ELSE StoreVote(Signed(y, res), next, res.data, x.id)

preCommitComb(x, data, qcType) == Advance(x, data, qcType, PH1_PREPARE, PH1_PRECOMMIT)
commitComb(x, data, qcType)    == Advance(x, data, qcType, PH1_PRECOMMIT, PH1_COMMIT)

-----------------------------------------------------------------------------
(* Backups *)

respondToLdrPrepareComb(x, m) ==
    LET res == callTEEprepareComb(x.tc, m.block, m.acc)
        y   == SetBlock(Signed(x, res), m.block.hash)
    IN  IF CanPrepare(x.tc, m.block, m.acc, m.proof)
        THEN SendTo(y, CurrentLeader(y), MsgComb(PH1_PREPARE, res.data, {x.id}))
        ELSE x

\* Store a certificate and send the vote of the next phase to the leader.
StoreAndVote(x, m, next) ==
    LET just == [data |-> m.data, signers |-> m.signers]
        res  == callTEEstoreComb(x.tc, just)
    IN  IF CanStore(x.tc, just)
        THEN SendTo(Signed(x, res), CurrentLeader(x), MsgComb(next, res.data, {x.id}))
        ELSE x

\* Mutant: a prepare certificate commits whoever the leader is.
respondToPrepareComb_fast(x, m) ==
    IF verifyCombQC(m.data, m.signers, PH1_PREPARE) THEN executeComb(x, m.data) ELSE x

respondToPrepareComb(x, m) ==
    IF ~verifyCombQC(m.data, m.signers, PH1_PREPARE) THEN x
    ELSE IF isTEE(CurrentLeader(x)) THEN executeComb(x, m.data)
    ELSE StoreAndVote(x, m, PH1_PRECOMMIT)

respondToPreCommitComb(x, m) == StoreAndVote(x, m, PH1_COMMIT)

respondToCommitComb(x, m) ==
    IF verifyCombQC(m.data, m.signers, PH1_COMMIT) THEN executeComb(x, m.data) ELSE x

verifyLdrPrepareComb(x, m) ==
    LET leader == Leader(x, m.acc.view)
    IN  /\ m.signer = leader
        /\ m.acc.signer = leader
        /\ m.sdata = [proph |-> m.block.hash, propv |-> m.acc.view, justh |-> m.acc.hash,
                      justv |-> m.acc.prepv, phase |-> PH1_PREPARE]

handleLdrPrepareComb(x, m) ==
    IF ~ /\ m.acc.view >= x.h.view
         /\ ~amLeaderOf(x, m.acc.view)
         /\ verifyLdrPrepareComb(x, m)
         /\ m.acc.size \in {qsize, tqsize}
         /\ m.block.prev = m.acc.hash
    THEN x
    ELSE IF m.acc.view = x.h.view THEN respondToLdrPrepareComb(x, m)
    ELSE StoreLdrPrepare(x, m)

-----------------------------------------------------------------------------
(* Votes and certificates of the three phases *)

(***************************************************************************)
(* The counts after vote m was stored in y: the class of the signer is     *)
(* counted in full, the other up to its quorum size, and a second vote of  *)
(* one signer counts for nothing.                                          *)
(***************************************************************************)
VoteCounts(x, y, kind, m) ==
    LET v   == m.data.propv
        p   == CHOOSE s \in m.signers : TRUE
        tee == TEEVotes(y, kind, v)
        non == NonTEEVotes(y, kind, v)
    IN  IF HasVote(x, kind, v, p) THEN [tee |-> 0, all |-> 0]
        ELSE IF isTEE(p)
        THEN [tee |-> Cardinality(tee),
              all |-> Cardinality(tee) + Cardinality(Lowest(non, qsize))]
        ELSE [tee |-> Cardinality(Lowest(tee, tqsize)),
              all |-> Cardinality(Lowest(tee, tqsize)) + Cardinality(non)]

StoreMsgVote(x, kind, m) == StoreVote(x, kind, m.data, CHOOSE s \in m.signers : TRUE)

\* A message for a later view: a certificate is cached, a vote logged.
StoreFuture(x, kind, m) ==
    IF verifyCombQC(m.data, m.signers, kind) THEN [x EXCEPT !.h.qcs = @ \cup {m}]
    ELSE IF verifyCombVote(m.data, m.signers, kind) THEN StoreMsgVote(x, kind, m)
    ELSE x

PrepareVote(x, m) ==
    LET y == StoreMsgVote(x, PH1_PREPARE, m)
        n == VoteCounts(x, y, PH1_PREPARE, m)
        qcType == IF fastQC /\ n.tee >= tqsize THEN "TEE" ELSE "Normal"
    IN  IF ~(y.h.phase = PH1_PREPARE /\ (qcType = "TEE" \/ n.all = qsize)) THEN y
        ELSE IF isTEE(CurrentLeader(y))
        THEN decideComb([y EXCEPT !.h.phase = PH1_NEWVIEW], m.data, qcType)
        ELSE preCommitComb([y EXCEPT !.h.phase = PH1_PRECOMMIT], m.data, qcType)

PreCommitVote(x, m) ==
    LET y == StoreMsgVote(x, PH1_PRECOMMIT, m)
        n == VoteCounts(x, y, PH1_PRECOMMIT, m)
        qcType == IF n.tee = tqsize THEN "TEE" ELSE "Normal"
    IN  IF y.h.phase = PH1_PRECOMMIT /\ (qcType = "TEE" \/ n.all = qsize)
        THEN commitComb([y EXCEPT !.h.phase = PH1_COMMIT], m.data, qcType)
        ELSE y

CommitVote(x, m) ==
    LET y == StoreMsgVote(x, PH1_COMMIT, m)
        n == VoteCounts(x, y, PH1_COMMIT, m)
        qcType == IF n.tee = tqsize THEN "TEE" ELSE "Normal"
    IN  IF y.h.phase = PH1_COMMIT /\ (qcType = "TEE" \/ n.all = qsize)
        THEN decideComb([y EXCEPT !.h.phase = PH1_NEWVIEW], m.data, qcType)
        ELSE y

handlePrepareComb(x, m) ==
    IF m.data.propv > x.h.view THEN StoreFuture(x, PH1_PREPARE, m)
    ELSE IF m.data.propv < x.h.view THEN x
    ELSE IF ~amLeaderOf(x, x.h.view) THEN respondToPrepareComb(x, m)
    ELSE IF verifyCombVote(m.data, m.signers, PH1_PREPARE) THEN PrepareVote(x, m)
    ELSE x

handlePreCommitComb(x, m) ==
    IF m.data.propv > x.h.view THEN StoreFuture(x, PH1_PRECOMMIT, m)
    ELSE IF m.data.propv < x.h.view THEN x
    ELSE IF amLeaderOf(x, x.h.view)
    THEN IF verifyCombVote(m.data, m.signers, PH1_PRECOMMIT) THEN PreCommitVote(x, m) ELSE x
    ELSE IF verifyCombQC(m.data, m.signers, PH1_PRECOMMIT) THEN respondToPreCommitComb(x, m)
    ELSE x

handleCommitComb(x, m) ==
    IF m.data.propv > x.h.view THEN StoreFuture(x, PH1_COMMIT, m)
    ELSE IF m.data.propv < x.h.view THEN x
    ELSE IF ~amLeaderOf(x, x.h.view) THEN respondToCommitComb(x, m)
    ELSE IF verifyCombVote(m.data, m.signers, PH1_COMMIT) THEN CommitVote(x, m)
    ELSE x

-----------------------------------------------------------------------------
(* Catching up with what was stored for the view just entered *)

FutureQCs(x, kind) == {m \in x.h.qcs : m.type = kind /\ m.data.propv = x.h.view}

(***************************************************************************)
(* Replay one cached certificate of the current view by respond(_, _).     *)
(* Nothing happens unless there is one, the view is still the one the      *)
(* catch-up began in and the recorded block is the certified one.  a is    *)
(* the outcome of the step before: the context, and ok if it was taken.    *)
(***************************************************************************)
Replay(a, v, kind, respond(_, _)) ==
    LET x  == a.x
        qc == CHOOSE m \in FutureQCs(x, kind) : TRUE
        y  == [x EXCEPT !.h.qcs = @ \ FutureQCs(x, kind)]
    IN  IF /\ a.ok
           /\ x.h.view = v
           /\ FutureQCs(x, kind) # {}
           /\ x.h.blocks[v] = qc.data.proph
        THEN [ok |-> TRUE, x |-> respond(y, qc)]
        ELSE [ok |-> FALSE, x |-> x]

\* handleEarlierMessagesComb, the branch of a backup.
handleEarlierMessagesComb(x) ==
    LET v == x.h.view
        y == respondToLdrPrepareComb([x EXCEPT !.h.catchup = FALSE], firstLdrPrepareComb(x, v))
        a == Replay([ok |-> v \in DOMAIN y.h.blocks, x |-> y],
                    v, PH1_PREPARE, respondToPrepareComb)
        b == Replay(a, v, PH1_PRECOMMIT, respondToPreCommitComb)
    IN  Replay(b, v, PH1_COMMIT, respondToCommitComb).x

getStarted(x) ==
    LET res == callTEEsignComb(x.tc)
        y   == Signed([x EXCEPT !.h.started = TRUE], res)
        m   == MsgNewViewComb(res.data, x.id)
    IN  IF amLeaderOf(y, y.h.view) THEN handleNewviewComb(y, m)
        ELSE SendTo(y, CurrentLeader(y), m)

startNewViewOnTimeout(x) ==
    startNewViewComb([x EXCEPT !.h.skipped = Blame(@, x.h.view)])

-----------------------------------------------------------------------------
(* Actions *)

Running(r) == ~host[r].stopped /\ ~host[r].catchup

\* The outcome y of a handler of replica r becomes the state.
Become(r, y) ==
    /\ tc' = [tc EXCEPT ![r] = y.tc]
    /\ signed' = [signed EXCEPT ![r] = y.signed]
    /\ host' = [host EXCEPT ![r] = y.h]

\* handle_start: the first MsgStart of a client.
Start(r) ==
    /\ Running(r) /\ ~host[r].started
    /\ LET y == getStarted(Context(r))
       IN  Become(r, y) /\ net' = [net EXCEPT ![r] = y.out]
    /\ UNCHANGED timeouts

\* The timer runs out.  It is first armed by startNewViewComb, so never in the first view.
Timeout(r) ==
    /\ Running(r) /\ host[r].view > FirstView
    /\ host[r].view < MaxView /\ timeouts < MaxTimeouts
    /\ LET y == startNewViewOnTimeout(Context(r))
       IN  Become(r, y) /\ net' = [net EXCEPT ![r] = y.out]
    /\ timeouts' = timeouts + 1

CatchUp(r) ==
    /\ ~host[r].stopped /\ host[r].catchup
    /\ LET y == handleEarlierMessagesComb(Context(r))
       IN  Become(r, y) /\ net' = [net EXCEPT ![r] = y.out]
    /\ UNCHANGED timeouts

\* Replica r takes the next message from s, of the given type, and handles it.
Receive(r, s, type, handle(_, _)) ==
    /\ Running(r) /\ net[s][r] # <<>> /\ Head(net[s][r]).type = type
    /\ LET y == handle(Context(r), Head(net[s][r]))
       IN  Become(r, y) /\ net' = [net EXCEPT ![r] = y.out, ![s][r] = Tail(@)]
    /\ UNCHANGED timeouts

ReceiveNewView(r, s)    == Receive(r, s, "newview", handleNewviewComb)
ReceiveLdrPrepare(r, s) == Receive(r, s, "ldrprepare", handleLdrPrepareComb)
ReceivePrepare(r, s)    == Receive(r, s, PH1_PREPARE, handlePrepareComb)
ReceivePreCommit(r, s)  == Receive(r, s, PH1_PRECOMMIT, handlePreCommitComb)
ReceiveCommit(r, s)     == Receive(r, s, PH1_COMMIT, handleCommitComb)

Next ==
    \E r \in Replica :
        \/ Start(r)
        \/ Timeout(r)
        \/ CatchUp(r)
        \/ \E s \in Replica \ {r} :
            \/ ReceiveNewView(r, s)
            \/ ReceiveLdrPrepare(r, s)
            \/ ReceivePrepare(r, s)
            \/ ReceivePreCommit(r, s)
            \/ ReceiveCommit(r, s)

Spec == Init /\ [][Next]_vars

-----------------------------------------------------------------------------
(* Properties *)

Vote == [kind : Phase1, data : RData, signer : Replica]

NewViewMsg == [type : {"newview"}, data : RData, signer : Replica]
LdrPrepareMsg == [type : {"ldrprepare"}, acc : Accum, block : Block, proof : SUBSET NewView,
                  sdata : RData, signer : Replica]
CombMsg == [type : Phase1 \ {PH1_NEWVIEW}, data : RData, signers : SUBSET Replica]
Message == NewViewMsg \cup LdrPrepareMsg \cup CombMsg

\* TypeOK: every variable holds what the C++ fields and containers can hold.
TypeOK ==
    /\ tc \in [Replica -> IF Damysus THEN DamysusState ELSE TrustedState]
    /\ \A r \in Replica : \A d \in signed[r] : d \in RData
    /\ \A r, s \in Replica : \A i \in DOMAIN net[s][r] : net[s][r][i] \in Message
    /\ \A r \in Replica :
        /\ host[r].view \in View /\ host[r].phase \in Phase1
        /\ host[r].skipped \subseteq Replica
        /\ host[r].processedNewViews \cup host[r].processedCommit \subseteq View
        /\ \A v \in DOMAIN host[r].blocks : v \in View /\ host[r].blocks[v] \in Hash
        /\ host[r].executed \in Seq(Hash)
        /\ \A m \in host[r].nvs : m \in NewView
        /\ \A m \in host[r].ldrs \cup host[r].qcs : m \in Message
        /\ \A o \in host[r].votes : o \in Vote
        /\ {host[r].started, host[r].stopped, host[r].catchup} \subseteq BOOLEAN
    /\ timeouts \in 0 .. MaxTimeouts

Executed(r) == {host[r].executed[i] : i \in DOMAIN host[r].executed}

(***************************************************************************)
(* Agreement: any two blocks that any two replicas apply to their KV       *)
(* stores (executeComb, replyHash) lie on one chain.                       *)
(***************************************************************************)
Agreement ==
    \A r, s \in Replica : \A a \in Executed(r), b \in Executed(s) :
        IsAncestor(a, b) \/ IsAncestor(b, a)

AllSigned == UNION {signed[r] : r \in Replica}
SignedBy(d) == {r \in Replica : d \in signed[r]}
HoldsQuorum(S) ==
    Cardinality(S \cap TEEReplica) >= tqsize \/ Cardinality(S) >= qsize
Proposals == {d \in AllSigned : d.phase = PH1_PREPARE /\ d.proph # noHash}

\* The statement whose certificate commits block h: fast path or classical path.
Creator(h) == h[Len(h)][1]
IsFinal(d) ==
    /\ d.proph # noHash
    /\ d.phase = IF isTEE(Creator(d.proph)) THEN PH1_PREPARE ELSE PH1_COMMIT
    /\ HoldsQuorum(SignedBy(d))

(***************************************************************************)
(* OneProposalPerView: all prepare votes that trusted components sign in   *)
(* one view are for one block, even while replicas that blamed different   *)
(* leaders (skippedLeaders) disagree on who leads the view.                *)
(***************************************************************************)
OneProposalPerView ==
    \A d, e \in Proposals : d.propv = e.propv => d.proph = e.proph

(***************************************************************************)
(* FinalIsExtended: once the statements that commit a block exist in a     *)
(* quorum of components, whether or not anybody knows, every proposal of a *)
(* later view (processQC, COMB_TEEprepare) extends that block.             *)
(***************************************************************************)
FinalIsExtended ==
    \A d \in AllSigned : IsFinal(d) =>
        \A e \in Proposals : e.propv > d.propv => IsAncestor(d.proph, e.proph)

(***************************************************************************)
(* ExecutedIsFinal: executeComb applies only blocks that are committed:    *)
(* by a prepare certificate if a TEE replica proposed the block, by a      *)
(* commit certificate if not.                                              *)
(***************************************************************************)
ExecutedIsFinal ==
    \A r \in Replica : \A h \in Executed(r) :
        \E d \in AllSigned : d.proph = h /\ IsFinal(d)

(***************************************************************************)
(* NewViewReportsPrepared: a component that voted for a TEE leader's       *)
(* block, or stored a certificate, in view u reports a prepared view of at *)
(* least u in its new-view statement of every later view (COMB_TEEsign     *)
(* after COMB_TEEprepare and COMB_TEEstore).                               *)
(***************************************************************************)
StartedInTurn(r) ==
    \E d \in signed[r] : d.propv = 1 /\ d.phase = PH1_NEWVIEW /\ d.proph = noHash

NewViewReportsPrepared ==
    \A r \in {q \in Replica : StartedInTurn(q)} : \A d, e \in signed[r] :
        (/\ d.proph # noHash /\ d.propv < e.propv
         /\ d.phase = PH1_PREPARE => isTEE(Creator(d.proph))
         /\ d.phase # PH1_NEWVIEW /\ e.phase = PH1_NEWVIEW)
        => e.justv >= d.propv

(***************************************************************************)
(* LockNeverBlocks: whichever quorum of new-views the leader of r's view   *)
(* accumulates, the lock that r's component took on the classical path     *)
(* (COMB_TEEstore) accepts the block proposed from it (COMB_TEEprepare).   *)
(***************************************************************************)
NewViewsOf(Q, v) ==
    UNION {{[data |-> d, signer |-> p] :
                d \in {e \in signed[p] : /\ e.propv = v
                                         /\ e.phase = PH1_NEWVIEW /\ e.proph = noHash}} : p \in Q}
LockNeverBlocks ==
    \A r \in Replica : \A Q \in {S \in SUBSET Replica : IsQuorum(S)} :
        LET v   == tc[r].view
            nvs == NewViewsOf(Q, v)
            h   == HighestNewView(nvs).data.justh
        IN  SignersOf(nvs) = Q =>
                SafeParent(tc[r], [prev |-> h, hash |-> h], COMB_TEEaccum(r, nvs))

(***************************************************************************)
(* TrustedInStep: a component whose first statement was the new-view of    *)
(* getStarted is in its host's view, or has used up all four phases and    *)
(* waits at the start of the next.  So the last branch of                  *)
(* startNewViewComb, "Something wrong happened", is never taken there.     *)
(***************************************************************************)
TrustedInStep ==
    \A r \in Replica : StartedInTurn(r) =>
        \/ tc[r].view = host[r].view
        \/ tc[r].view = host[r].view + 1 /\ tc[r].phase = PH1_NEWVIEW

(***************************************************************************)
(* GapsAreTimeouts: a replica that executes blocks in two consecutive      *)
(* views executes a block and its child, and one that executes in its      *)
(* first view starts at the genesis block.  So only views it left on a     *)
(* timeout make it apply a block without the parent (executeComb applies   *)
(* no missed ancestors).                                                   *)
(***************************************************************************)
ViewOf(h) == IF h = newHash THEN 0 ELSE h[Len(h)][2]
GapsAreTimeouts ==
    \A r \in Replica :
        LET run == <<newHash>> \o host[r].executed
        IN  \A i \in 2 .. Len(run) :
                ViewOf(run[i]) = ViewOf(run[i - 1]) + 1 => Len(run[i]) = Len(run[i - 1]) + 1

\* The longest branch that anybody has executed.
LongestExecuted ==
    LET all == {newHash} \cup UNION {Executed(r) : r \in Replica}
    IN  CHOOSE h \in all : \A g \in all : Len(g) <= Len(h)

Log == INSTANCE ReplicatedLog WITH
    log <- LongestExecuted, applied <- [r \in Replica |-> host[r].executed]

(***************************************************************************)
(* ImplementsReplicatedLog: the replicas together keep one log that only   *)
(* grows, and each applies entries of it in order, none twice.             *)
(***************************************************************************)
ImplementsReplicatedLog == Log!Spec
=============================================================================
