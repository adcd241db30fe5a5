----------------------------- MODULE ChainedRaftel -----------------------------
(***************************************************************************)
(* Chained Raftel and Chained Achilles: the ChComb handlers of             *)
(* App/Handler.cpp with their log, trusted component and channels.  The    *)
(* two protocols differ in their population (ConstFactor) and in opcodes.  *)
(*                                                                         *)
(* Conventions as in module Raftel: a handler is an action and an operator *)
(* on the context x of replica x.id.  voteChComb may end in another call   *)
(* of itself, for the block the replica proposes or replays next.  Those   *)
(* are tail calls: the block is put in pending and the replica takes       *)
(* action Vote before anything else.                                       *)
(***************************************************************************)
EXTENDS EnclaveChComb

CONSTANTS
    MaxViews,     \* numViews: stop when the view reaches this, 0 for never
    MaxTimeouts,  \* bound: how many view timers may run out
    MaxView       \* bound: no timer runs out in this view or later

ASSUME BoundsAssumption == MaxViews \in Nat /\ MaxTimeouts \in Nat /\ MaxView \in Nat

VARIABLES
    tc,        \* the state of each trusted component
    signed,    \* history: the statements each trusted component has signed
    net,       \* net[s][r]: the messages in flight from s to r, oldest first
    host,      \* the state of each Handler
    timeouts   \* how many view timers have run out

vars == <<tc, signed, net, host, timeouts>>

MsgNewViewChComb(data, p) == [type |-> "newview", data |-> data, signer |-> p]
MsgPrepareChComb(data, p) == [type |-> "prepare", data |-> data, signer |-> p]

\* sdata is what the leader's component signed, sent as the signature alone.
MsgLdrPrepareChComb(block, sdata, p) ==
    [type |-> "ldrprepare", block |-> block, sdata |-> sdata, signer |-> p]

-----------------------------------------------------------------------------
(* Host state and log *)

\* view and cblocks are set by getStarted.
HostInit ==
    [view |-> 0,
     skipped |-> {},          \* skippedLeaders
     cblocks |-> <<>>,        \* cblocks[v], a partial function of the view
     marked |-> {},           \* the views whose block in cblocks isExecuted()
     executed |-> <<>>,       \* history: the blocks executed, in order
     caprep |-> NoCA,
     nvs |-> {},              \* newviewsChComb
     votes |-> {},            \* preparesChComb
     ldrs |-> {},             \* ldrpreparesChComb
     armed |-> FALSE,         \* the timer has been set
     started |-> FALSE,
     stopped |-> FALSE,
     pending |-> <<>>]        \* the block the running handler votes for next

Init ==
    /\ tc = [r \in Replica |-> CHCOMBinit]
    /\ signed = [r \in Replica |-> {}]
    /\ net = [s \in Replica |-> [r \in Replica |-> <<>>]]
    /\ host = [r \in Replica |-> HostInit]
    /\ timeouts = 0

Context(r) == [id |-> r, tc |-> tc[r], signed |-> signed[r], out |-> net[r], h |-> host[r]]

Leader(x, v) == getLeaderOf(x.h.skipped, v)
amLeaderOf(x, v) == Leader(x, v) = x.id

SetCBlock(x, v, block) ==
    [x EXCEPT !.h.cblocks = [u \in DOMAIN @ \cup {v} |-> IF u = v THEN block ELSE @[u]],
              !.h.marked = @ \ {v}]

Entries(S, v) == {m \in S : m.data.propv = v}
From(S, v, p) == {m \in Entries(S, v) : m.signer = p}
Entry(m) == [data |-> m.data, signer |-> m.signer]

\* The first new-view, and the first vote, of a signer for a view is kept.
storeNvChComb(x, m) ==
    IF From(x.h.nvs, m.data.propv, m.signer) # {} THEN x
    ELSE [x EXCEPT !.h.nvs = @ \cup {Entry(m)}]
storePrepChComb(x, m) ==
    IF From(x.h.votes, m.data.propv, m.signer) # {} THEN x
    ELSE [x EXCEPT !.h.votes = @ \cup {Entry(m)}]
storeLdrPrepChComb(x, m) ==
    IF \E o \in x.h.ldrs : o.block.view = m.block.view /\ o.signer = m.signer THEN x
    ELSE [x EXCEPT !.h.ldrs = @ \cup {m}]

LdrPrepares(x, v) == {m \in x.h.ldrs : m.block.view = v}
firstLdrPrepareChComb(x, v) ==
    CHOOSE m \in LdrPrepares(x, v) : \A o \in LdrPrepares(x, v) : m.signer <= o.signer

\* What the store functions return: the size of the entry, 0 for a repeated signer.
StoredCount(before, after, v) ==
    IF before = after THEN 0 ELSE Cardinality(Entries(after, v))

getNewViewChComb(x, v) == Lowest(Entries(x.h.nvs, v), qsize)
getPrepareChComb(x, v) == Lowest(Entries(x.h.votes, v), qsize)

-----------------------------------------------------------------------------
(* Executing *)

(***************************************************************************)
(* The walk of tryExecuteChComb from the block of view v back to the last  *)
(* executed one: the blocks it collects, oldest first, and whether none    *)
(* was missing.  The hash of a block is not compared with the certificate  *)
(* that led to it.                                                         *)
(***************************************************************************)
Collected(x, view0) ==
    LET cb == x.h.cblocks
        walk[v \in View] ==
            IF v \notin DOMAIN cb THEN [ok |-> FALSE, blocks |-> <<>>]
            ELSE IF v \in x.h.marked THEN [ok |-> TRUE, blocks |-> <<>>]
            ELSE IF v = 0 THEN [ok |-> TRUE, blocks |-> <<cb[0]>>]
            ELSE LET older == walk[cb[v].cert.view]
                 IN  [older EXCEPT !.blocks = Append(@, cb[v])]
    IN  walk[view0]

timeToStop(x) == MaxViews > 0 /\ MaxViews <= x.h.view + 1

\* Mutants: the parent itself is executed; the executed blocks are not marked.
tryExecuteChComb_eager(x, block0) ==
    LET c == Collected(x, block0.view)
    IN  IF block0.view = 0 \/ ~c.ok THEN x
        ELSE [x EXCEPT !.h.executed = @ \o [i \in DOMAIN c.blocks |-> c.blocks[i].hash],
                       !.h.marked = @ \cup {c.blocks[i].view : i \in DOMAIN c.blocks}]
tryExecuteChComb_unmarked(x, block0) ==
    LET c == Collected(x, block0.cert.view)
    IN  IF block0.view = 0 \/ ~c.ok THEN x
        ELSE [x EXCEPT !.h.executed = @ \o [i \in DOMAIN c.blocks |-> c.blocks[i].hash]]

tryExecuteChComb(x, block0) ==
    LET c == Collected(x, block0.cert.view)
        y == [x EXCEPT !.h.executed = @ \o [i \in DOMAIN c.blocks |-> c.blocks[i].hash],
                       !.h.marked = @ \cup {c.blocks[i].view : i \in DOMAIN c.blocks}]
        z == IF c.ok THEN y ELSE x
    IN  IF block0.view = 0 THEN x
        ELSE [z EXCEPT !.h.stopped = @ \/ timeToStop(z)]

-----------------------------------------------------------------------------
(* Proposing and voting *)

createNewBlockChComb(x) ==
    [view |-> x.h.view, cert |-> x.h.caprep,
     hash |-> Append(x.h.caprep.hash, <<x.id, x.h.view>>)]

\* Calls of the component: the context after the call and what it returned.
callTEEsignChComb(x) ==
    LET res == CH_COMB_TEEsign(x.tc) IN [x |-> Signed(x, res), data |-> res.data]
callTEEprepareChComb(x, block, hash) ==
    LET res == CH_COMB_TEEprepare(x.tc, block, hash)
    IN  [x |-> Signed(x, res), data |-> res.data]

newviews2accChComb(nvs) == CH_COMB_TEEaccum(nvs)

prepareChComb(x) ==
    LET nvs   == getNewViewChComb(x, x.h.view - 1)
        stale == ~x.h.caprep.set \/ x.h.caprep.cview < x.h.view - 1
        y     == IF stale /\ Cardinality(nvs) = qsize
                 THEN [x EXCEPT !.h.caprep = newviews2accChComb(nvs)]
                 ELSE x
    IN  [y EXCEPT !.h.pending = <<createNewBlockChComb(y)>>]

\* The votes counted are not compared with data, only the component does that.
checkNewJustChComb(x, data) ==
    LET votes == getPrepareChComb(x, data.propv)
    IN  IF Cardinality(votes) = qsize
        THEN prepareChComb([x EXCEPT !.h.caprep = ChCert(data.proph, data.propv, votes),
                                     !.h.view = @ + 1])
        ELSE x

\* The stored proposal of the first signer is replayed by a backup.
handleEarlierMessagesChComb(x) ==
    LET v == x.h.view
    IN  IF amLeaderOf(x, v) \/ LdrPrepares(x, v) = {} \/ v \in DOMAIN x.h.cblocks THEN x
        ELSE [x EXCEPT !.h.pending = <<firstLdrPrepareChComb(x, v).block>>]

\* Give message m to the leader of the next view, by store(_, _) if that is x.id.
ToNextLeader(x, m, store(_, _)) ==
    IF amLeaderOf(x, x.h.view + 1) THEN store(x, m) ELSE SendTo(x, Leader(x, x.h.view + 1), m)

\* After the vote was given: the new-view, the timer, execution, the next view.
AfterVote(x, block0, prep, nv) ==
    LET y == ToNextLeader(x, MsgNewViewChComb(nv, x.id), storeNvChComb)
        z == tryExecuteChComb([y EXCEPT !.h.armed = TRUE], block0)
    IN  IF amLeaderOf(z, z.h.view + 1) THEN checkNewJustChComb(z, prep)
        ELSE handleEarlierMessagesChComb([z EXCEPT !.h.view = @ + 1])

(***************************************************************************)
(* voteChComb.  The component signs a new-view after TEEprepare even if    *)
(* TEEprepare refused.  A leader sends its vote inside its proposal and    *)
(* does not keep it, even if it also leads the next view.                  *)
(***************************************************************************)
voteChComb(x, block) ==
    LET y      == SetCBlock(x, x.h.view, block)
        block0 == y.h.cblocks[block.cert.view]
        prep   == callTEEprepareChComb(y, block, block0.hash)
        vote   == MsgPrepareChComb(prep.data, x.id)
        nv     == callTEEsignChComb(prep.x)
        c      == IF amLeaderOf(nv.x, nv.x.h.view)
                  THEN Broadcast(nv.x, MsgLdrPrepareChComb(block, prep.data, x.id))
                  ELSE ToNextLeader(nv.x, vote, storePrepChComb)
    IN  IF block.cert.view \notin DOMAIN y.h.cblocks THEN y
        ELSE IF CanChTEEprepare(y.tc, block) THEN AfterVote(c, block0, prep.data, nv.data)
        ELSE callTEEsignChComb(y).x

-----------------------------------------------------------------------------
(* Handlers *)

handleNewviewChComb(x, m) ==
    LET v == m.data.propv
        y == storeNvChComb(x, m)
    IN  IF ~ /\ m.data.proph = noHash /\ m.data.phase = PH1_NEWVIEW
             /\ v + 1 >= x.h.view /\ amLeaderOf(x, v + 1)
        THEN x
        ELSE IF /\ v + 1 = x.h.view
                /\ StoredCount(x.h.nvs, y.h.nvs, v) >= qsize
                /\ x.h.view \notin DOMAIN x.h.cblocks
        THEN prepareChComb(y)
        ELSE y

\* Mutant: proposals for a view not yet entered are dropped.
handleLdrPrepareChComb_current(x, m) ==
    LET y == IF amLeaderOf(x, m.block.view + 1)
             THEN storePrepChComb(x, MsgPrepareChComb(m.sdata, m.signer)) ELSE x
    IN  IF m.block.view = x.h.view /\ ~amLeaderOf(x, m.block.view)
        THEN [y EXCEPT !.h.pending = <<m.block>>] ELSE x

\* ldrPrepareChComb2just: what the leader's signature should be over.
ldrPrepareChComb2just(m) == ChVoteData(m.block.hash, m.block.view, newHash)

\* Whether the signer leads the view is not checked, only the signature.
handleLdrPrepareChComb(x, m) ==
    LET v == m.block.view
        y == IF amLeaderOf(x, v + 1)
             THEN storePrepChComb(x, MsgPrepareChComb(m.sdata, m.signer))
             ELSE x
    IN  IF ~(v >= x.h.view /\ ~amLeaderOf(x, v) /\ m.sdata = ldrPrepareChComb2just(m)) THEN x
        ELSE IF v = x.h.view THEN [y EXCEPT !.h.pending = <<m.block>>]
        ELSE storeLdrPrepChComb(y, m)

handlePrepareChComb(x, m) ==
    LET v == m.data.propv
        y == storePrepChComb(x, m)
    IN  IF v > x.h.view THEN y
        ELSE IF v < x.h.view \/ ~amLeaderOf(x, v + 1) THEN x
        ELSE IF StoredCount(x.h.votes, y.h.votes, v) = qsize /\ v \in DOMAIN x.h.cblocks
        THEN checkNewJustChComb(y, m.data)
        ELSE y

getStarted(x) ==
    LET res == callTEEsignChComb(x)
        m   == MsgNewViewChComb(res.data, x.id)
        y   == SetCBlock([res.x EXCEPT !.h.started = TRUE, !.h.view = 1], 0, GENblock)
    IN  IF amLeaderOf(y, 1) THEN handleNewviewChComb(y, m)
        ELSE handleEarlierMessagesChComb(SendTo(y, Leader(x, x.h.view + 1), m))

(***************************************************************************)
(* The loop of startNewViewChComb signs until the statement is a new-view  *)
(* for the host's view or a later one.  Of the statements it signs, only   *)
(* the last is used.                                                       *)
(***************************************************************************)
LoopEnd(x) ==
    [x.tc EXCEPT !.view = IF @ > x.h.view THEN @ ELSE x.h.view, !.phase = PH1_NEWVIEW]

LoopStatements(x) ==
    {CH_COMB_TEEsign([x.tc EXCEPT !.view = v, !.phase = p]).data :
        <<v, p>> \in {<<w, q>> \in (x.tc.view .. LoopEnd(x).view) \X {PH1_PREPARE, PH1_NEWVIEW} :
            w = x.tc.view => (x.tc.phase = PH1_NEWVIEW => q = PH1_NEWVIEW)}}

startNewViewChComb(x) ==
    LET last == CH_COMB_TEEsign(LoopEnd(x))
        y    == [x EXCEPT !.tc = last.tc, !.signed = @ \cup LoopStatements(x)]
        z    == ToNextLeader(y, MsgNewViewChComb(last.data, x.id), storeNvChComb)
    IN  handleEarlierMessagesChComb([z EXCEPT !.h.view = @ + 1, !.h.armed = TRUE])

startNewViewOnTimeout(x) ==
    startNewViewChComb([x EXCEPT !.h.skipped = Blame(@, x.h.view)])

-----------------------------------------------------------------------------
(* Actions *)

Running(r) == ~host[r].stopped /\ host[r].pending = <<>>

\* The outcome y of a handler of replica r becomes the state.
Become(r, y) ==
    /\ tc' = [tc EXCEPT ![r] = y.tc]
    /\ signed' = [signed EXCEPT ![r] = y.signed]
    /\ host' = [host EXCEPT ![r] = y.h]

\* handle_start: the first MsgStart of a client.
Start(r) ==
    /\ Running(r) /\ ~host[r].started
    /\ LET y == getStarted(Context(r))
       IN  Become(r, y) /\ net' = [net EXCEPT ![r] = y.out]
    /\ UNCHANGED timeouts

Timeout(r) ==
    /\ Running(r) /\ host[r].armed
    /\ host[r].view < MaxView /\ timeouts < MaxTimeouts
    /\ LET y == startNewViewOnTimeout(Context(r))
       IN  Become(r, y) /\ net' = [net EXCEPT ![r] = y.out]
    /\ timeouts' = timeouts + 1

(***************************************************************************)
(* The running handler goes on with voteChComb.  recordStats, called when  *)
(* it is time to stop, stops the event loop but lets the handler end; a    *)
(* second call joins a joined thread, which throws and ends the handler.   *)
(***************************************************************************)
Vote(r) ==
    /\ host[r].pending # <<>>
    /\ LET x == Context(r)
           y == voteChComb([x EXCEPT !.h.pending = <<>>], Head(x.h.pending))
           z == IF x.h.stopped THEN [y EXCEPT !.h.pending = <<>>] ELSE y
       IN  Become(r, z) /\ net' = [net EXCEPT ![r] = z.out]
    /\ UNCHANGED timeouts

\* Replica r takes the next message from s, of the given type, and handles it.
Receive(r, s, type, handle(_, _)) ==
    /\ Running(r) /\ net[s][r] # <<>> /\ Head(net[s][r]).type = type
    /\ LET y == handle(Context(r), Head(net[s][r]))
       IN  Become(r, y) /\ net' = [net EXCEPT ![r] = y.out, ![s][r] = Tail(@)]
    /\ UNCHANGED timeouts

ReceiveNewView(r, s)    == Receive(r, s, "newview", handleNewviewChComb)
ReceiveLdrPrepare(r, s) == Receive(r, s, "ldrprepare", handleLdrPrepareChComb)
ReceivePrepare(r, s)    == Receive(r, s, "prepare", handlePrepareChComb)

Next ==
    \E r \in Replica :
        \/ Start(r)
        \/ Timeout(r)
        \/ Vote(r)
        \/ \E s \in Replica \ {r} :
            \/ ReceiveNewView(r, s)
            \/ ReceiveLdrPrepare(r, s)
            \/ ReceivePrepare(r, s)

Spec == Init /\ [][Next]_vars

-----------------------------------------------------------------------------
(* Properties *)

Message ==
    [type : {"newview", "prepare"}, data : RData, signer : Replica]
    \cup [type : {"ldrprepare"}, block : CBlock, sdata : RData, signer : Replica]

\* TypeOK: every variable holds what the C++ fields and containers can hold.
TypeOK ==
    /\ tc \in [Replica -> ChTrustedState]
    /\ \A r \in Replica : \A d \in signed[r] : d \in RData
    /\ \A r, s \in Replica : \A i \in DOMAIN net[s][r] : net[s][r][i] \in Message
    /\ \A r \in Replica :
        /\ host[r].view \in View /\ host[r].skipped \subseteq Replica
        /\ \A v \in DOMAIN host[r].cblocks : v \in View /\ host[r].cblocks[v] \in CBlock
        /\ host[r].marked \subseteq DOMAIN host[r].cblocks
        /\ host[r].executed \in Seq(Hash)
        /\ host[r].caprep \in CA
        /\ \A m \in host[r].nvs \cup host[r].votes : m \in NewView
        /\ \A m \in host[r].ldrs : m \in Message
        /\ {host[r].armed, host[r].started, host[r].stopped} \subseteq BOOLEAN
        /\ host[r].pending \in Seq(CBlock) /\ Len(host[r].pending) <= 1
    /\ timeouts \in 0 .. MaxTimeouts

(***************************************************************************)
(* SameLog: any two replicas execute the same block at every position of   *)
(* their logs (tryExecuteChComb), whichever views they skipped.            *)
(***************************************************************************)
SameLog ==
    \A r, s \in Replica :
        \A i \in DOMAIN host[r].executed \cap DOMAIN host[s].executed :
            host[r].executed[i] = host[s].executed[i]

(***************************************************************************)
(* NoGaps: a replica executes a whole branch from the genesis block on,    *)
(* each block right after its parent and none twice, although the walk of  *)
(* tryExecuteChComb goes by views and compares no hashes.                  *)
(***************************************************************************)
NoGaps ==
    \A r \in Replica : \A i \in DOMAIN host[r].executed :
        /\ Len(host[r].executed[i]) = i
        /\ i > 1 => IsAncestor(host[r].executed[i - 1], host[r].executed[i])

Votes == {<<d, r>> \in UNION {signed[q] \X {q} : q \in Replica} :
              d.phase = PH1_PREPARE /\ d.proph # noHash}
VotersOf(hash) == {vote[2] : vote \in {w \in Votes : w[1].proph = hash}}
Parent(hash) == SubSeq(hash, 1, Len(hash) - 1)

(***************************************************************************)
(* CertifiedParentIsExtended: once a quorum of components voted for a      *)
(* block, whether or not anybody collected the votes, its parent is what   *)
(* voteChComb may execute: every block voted for in a later view extends   *)
(* that parent.                                                            *)
(***************************************************************************)
CertifiedParentIsExtended ==
    \A <<d, r>> \in Votes : Cardinality(VotersOf(d.proph)) >= qsize =>
        \A <<e, s>> \in Votes :
            e.propv > d.propv => IsAncestor(Parent(d.proph), e.proph)

(***************************************************************************)
(* ExecutedIsCertified: what a replica executes has a child that a quorum  *)
(* of components voted for.                                                *)
(***************************************************************************)
ExecutedIsCertified ==
    \A r \in Replica : \A i \in DOMAIN host[r].executed :
        \E <<d, s>> \in Votes :
            /\ Parent(d.proph) = host[r].executed[i]
            /\ Cardinality(VotersOf(d.proph)) >= qsize

(***************************************************************************)
(* NeverStalls: as long as no timer has run out, replicas that have all    *)
(* been started and have nothing left to handle have stopped after         *)
(* executing all but the last two views, however late each was started     *)
(* (handleEarlierMessagesChComb replays what arrived early).  It needs a   *)
(* component that accepts the certificates of votes its peers signed,      *)
(* which the one in the host does (~SGX).                                  *)
(***************************************************************************)
NeverStalls ==
    (/\ timeouts = 0
     /\ \A r \in Replica : host[r].started /\ host[r].pending = <<>>
     /\ \A r, s \in Replica : net[s][r] = <<>> \/ host[r].stopped)
    => \A r \in Replica : host[r].stopped /\ Len(host[r].executed) >= MaxViews - 2

Log == INSTANCE ReplicatedLog WITH
    log <- LET longest == CHOOSE r \in Replica :
                   \A s \in Replica : Len(host[s].executed) <= Len(host[r].executed)
           IN  IF host[longest].executed = <<>> THEN <<>>
               ELSE host[longest].executed[Len(host[longest].executed)],
    applied <- [r \in Replica |-> host[r].executed]

(***************************************************************************)
(* ImplementsReplicatedLog: the replicas together keep one log that only   *)
(* grows, and each applies entries of it in order, none twice.             *)
(***************************************************************************)
ImplementsReplicatedLog == Log!Spec
=============================================================================
