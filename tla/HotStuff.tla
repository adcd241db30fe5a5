------------------------------- MODULE HotStuff -------------------------------
(***************************************************************************)
(* The HotStuff baseline: the BASIC_HOTSTUFF handlers of App/Handler.cpp   *)
(* with their log, trusted component and channels.                         *)
(*                                                                         *)
(* Conventions as in module Raftel: a handler is an action and an operator *)
(* on the context x of replica x.id.  A call that ends a handler (of an    *)
(* initiate function, of startNewView, of handleEarlierMessages) is put in *)
(* todo, and the replica takes the action of that call before anything     *)
(* else.                                                                   *)
(***************************************************************************)
EXTENDS TrustedFun, SequencesExt

CONSTANTS
    MaxViews,     \* numViews: stop when the view reaches this, 0 for never
    MaxTimeouts,  \* bound: how many view timers may run out
    MaxView       \* bound: no timer runs out in this view or later

ASSUME BoundsAssumption == MaxViews \in Nat /\ MaxTimeouts \in Nat /\ MaxView \in Nat

VARIABLES
    tc,        \* the state of each trusted component
    signed,    \* history: the statements each trusted component has signed
    net,       \* net[s][r]: the messages in flight from s to r, oldest first
    host,      \* the state of each Handler
    timeouts   \* how many view timers have run out

vars == <<tc, signed, net, host, timeouts>>

\* The justification a component returns, and the one of a refused call.
JustOf(p, data) == [data |-> data, signs |-> <<[signer |-> p, data |-> data]>>]
NoJust == [data |-> [proph |-> newHash, propv |-> 0, justh |-> newHash, justv |-> 0,
                     phase |-> PH1_NEWVIEW],
           signs |-> <<>>]

MsgNewView(just)   == [type |-> "newview", data |-> just.data, signs |-> just.signs]
MsgPrepare(just)   == [type |-> "prepare", data |-> just.data, signs |-> just.signs]
MsgPreCommit(just) == [type |-> "precommit", data |-> just.data, signs |-> just.signs]
MsgCommit(just)    == [type |-> "commit", data |-> just.data, signs |-> just.signs]

\* The proposal carries the new-view (data, nvsigns) that its block extends.
MsgLdrPrepare(just, block, signs) ==
    [type |-> "ldrprepare", data |-> just.data, nvsigns |-> just.signs,
     block |-> block, signs |-> signs]

-----------------------------------------------------------------------------
(* Host state and log *)

HostInit ==
    [view |-> 0,
     skipped |-> {},          \* skippedLeaders
     blocks |-> <<>>,         \* blocks[v], a partial function: the hash stands for the block
     decided |-> {},          \* history: the hashes executeRData was called with
     executed |-> <<>>,       \* history: the blocks executed, in order
     nvs |-> {}, props |-> {}, preps |-> {}, pcs |-> {}, coms |-> {},  \* the Log
     started |-> FALSE,
     stopped |-> FALSE,
     todo |-> <<>>]           \* the call the running handler ends with

Init ==
    /\ tc = [r \in Replica |-> TFinit]
    /\ signed = [r \in Replica |-> {}]
    /\ net = [s \in Replica |-> [r \in Replica |-> <<>>]]
    /\ host = [r \in Replica |-> HostInit]
    /\ timeouts = 0

Context(r) == [id |-> r, tc |-> tc[r], signed |-> signed[r], out |-> net[r], h |-> host[r]]

Leader(x, v) == getLeaderOf(x.h.skipped, v)
amLeaderOf(x, v) == Leader(x, v) = x.id
amCurrentLeader(x) == amLeaderOf(x, x.h.view)
ToLeader(x, m) == SendTo(x, Leader(x, x.h.view), m)

Entries(S, v) == {m \in S : m.data.propv = v}
Signers(m) == {m.signs[i].signer : i \in DOMAIN m.signs}

\* A message is kept unless messages kept for its view cover all its signers.
Store(S, m) ==
    LET old == Entries(S, m.data.propv)
    IN  IF old # {} /\ Signers(m) \subseteq UNION {Signers(o) : o \in old}
        THEN S ELSE S \cup {m}

storeNv(x, m)   == [x EXCEPT !.h.nvs = Store(@, m)]
storePrep(x, m) == [x EXCEPT !.h.preps = Store(@, m)]
storePc(x, m)   == [x EXCEPT !.h.pcs = Store(@, m)]
storeCom(x, m)  == [x EXCEPT !.h.coms = Store(@, m)]
storeProp(x, m) == [x EXCEPT !.h.props = Store(@, m)]

\* What the store functions return: the size of the entry, 0 if nothing changed.
Stored(before, after, v) ==
    IF before = after THEN 0 ELSE Cardinality(Entries(after, v))

\* Signs::operator<: by length, then by the signers in order.
Before(a, b) ==
    \/ Len(a.signs) < Len(b.signs)
    \/ /\ Len(a.signs) = Len(b.signs)
       /\ \E i \in DOMAIN a.signs :
            /\ a.signs[i].signer < b.signs[i].signer
            /\ \A j \in 1 .. (i - 1) : a.signs[j].signer = b.signs[j].signer

InOrder(S, v) == SetToSortSeq(Entries(S, v), Before)

\* The first n signatures logged for view v, whatever statements they are over.
Collect(S, v, n) ==
    LET all == FlattenSeq([i \in DOMAIN InOrder(S, v) |-> InOrder(S, v)[i].signs])
    IN  SubSeq(all, 1, IF Len(all) < n THEN Len(all) ELSE n)

getNewView(x, v)   == Collect(x.h.nvs, v, qsize)
getPrepare(x, v)   == Collect(x.h.preps, v, qsize)
getPrecommit(x, v) == Collect(x.h.pcs, v, qsize)
getCommit(x, v)    == Collect(x.h.coms, v, qsize)

ToJust(m) == [data |-> m.data, signs |-> m.signs]
firstPrepare(x, v)   == ToJust(Head(InOrder(x.h.preps, v)))
firstPrecommit(x, v) == ToJust(Head(InOrder(x.h.pcs, v)))
firstCommit(x, v)    == ToJust(Head(InOrder(x.h.coms, v)))
firstProposal(x, v)  == Head(InOrder(x.h.props, v))

\* Of the new-views with the highest prepared view, the last in the log.
findHighestNv(x, v) ==
    LET nvs == Entries(x.h.nvs, v)
    IN  ToJust(CHOOSE m \in nvs : \A o \in nvs \ {m} :
                   \/ o.data.justv < m.data.justv
                   \/ o.data.justv = m.data.justv /\ Before(o, m))

-----------------------------------------------------------------------------
(* Calls of the trusted component *)

callTEEsign(x) ==
    LET res == TEEsign(x.tc) IN [x |-> Signed(x, res), just |-> JustOf(x.id, res.data)]

callTEEprepare(x, hash, just) ==
    LET res == TEEprepare(x.tc, hash, just)
    IN  IF CanTEEprepare(x.tc, just)
        THEN [x |-> Signed(x, res), just |-> JustOf(x.id, res.data)]
        ELSE [x |-> x, just |-> NoJust]

callTEEstore(x, just) ==
    LET res == TEEstore(x.tc, just)
    IN  IF CanTEEstore(x.tc, just)
        THEN [x |-> Signed(x, res), just |-> JustOf(x.id, res.data)]
        ELSE [x |-> x, just |-> NoJust]

-----------------------------------------------------------------------------
(* Leader: one certificate per phase *)

SetBlock(x, block) ==
    [x EXCEPT !.h.blocks =
        [v \in DOMAIN @ \cup {x.h.view} |-> IF v = x.h.view THEN block ELSE @[v]]]

timeToStop(x) == MaxViews > 0 /\ MaxViews <= x.h.view + 1

\* replyHash executes the transactions of the block recorded for the view.
replyHash(x, hash) ==
    IF x.h.view \in DOMAIN x.h.blocks /\ x.h.blocks[x.h.view] = hash
    THEN [x EXCEPT !.h.executed = Append(@, hash)]
    ELSE x

Call(x, f, rdata) == [x EXCEPT !.h.todo = <<[call |-> f, data |-> rdata]>>]

executeRData(x, rdata) ==
    LET y == replyHash([x EXCEPT !.h.decided = @ \cup {rdata.proph}], rdata.proph)
    IN  IF timeToStop(x) THEN [y EXCEPT !.h.stopped = TRUE] ELSE Call(y, "startNewView", rdata)

CertOf(rdata, signs) == [data |-> rdata, signs |-> signs]

initiateCommit(x, rdata) ==
    LET signs == getCommit(x, rdata.propv)
    IN  IF Len(signs) # qsize THEN x
        ELSE executeRData(Broadcast(x, MsgCommit(CertOf(rdata, signs))), rdata)

\* The leader's own vote is stored and may complete the next certificate.
OwnCommit(x, just) ==
    LET y == storeCom(x, MsgCommit(just))
    IN  IF Stored(x.h.coms, y.h.coms, just.data.propv) >= qsize
        THEN Call(y, "initiateCommit", just.data) ELSE y

OwnPreCommit(x, just) ==
    LET y == storePc(x, MsgPreCommit(just))
    IN  IF Stored(x.h.pcs, y.h.pcs, just.data.propv) >= qsize
        THEN Call(y, "initiatePrecommit", just.data) ELSE y

\* Mutant: the leader does not count its own vote.
OwnPrepare_uncounted(x, just) == x

OwnPrepare(x, just) ==
    LET y == storePrep(x, MsgPrepare(just))
    IN  IF Stored(x.h.preps, y.h.preps, just.data.propv) >= qsize
        THEN Call(y, "initiatePrepare", just.data) ELSE y

initiatePrecommit(x, rdata) ==
    LET signs == getPrecommit(x, rdata.propv)
        cert  == CertOf(rdata, signs)
        own   == callTEEstore(Broadcast(x, MsgPreCommit(cert)), cert)
    IN  IF Len(signs) # qsize THEN x ELSE OwnCommit(own.x, own.just)

initiatePrepare(x, rdata) ==
    LET signs == getPrepare(x, rdata.propv)
        cert  == CertOf(rdata, signs)
        own   == callTEEstore(Broadcast(x, MsgPrepare(cert)), cert)
    IN  IF Len(signs) # qsize THEN x ELSE OwnPreCommit(own.x, own.just)

createNewBlock(x, parent) == Append(parent, <<x.id, x.h.view>>)

Propose(x, nv, block, own) ==
    IF own.just = NoJust THEN x
    ELSE OwnPrepare(Broadcast(SetBlock(own.x, block), MsgLdrPrepare(nv, block, own.just.signs)),
                    own.just)

prepare(x) ==
    LET nv    == findHighestNv(x, x.h.view)
        block == createNewBlock(x, nv.data.justh)
    IN  Propose(x, nv, block, callTEEprepare(x, block, nv))

-----------------------------------------------------------------------------
(* Backups: one vote per phase *)

respondToProposal(x, just, block) ==
    LET own == callTEEprepare(x, block, just)
    IN  IF own.just = NoJust THEN x
        ELSE ToLeader(SetBlock(own.x, block), MsgPrepare(own.just))

\* A refused justification is sent all the same.
respondToPrepareJust(x, just) ==
    LET own == callTEEstore(x, just) IN ToLeader(own.x, MsgPreCommit(own.just))
respondToPreCommitJust(x, just) ==
    LET own == callTEEstore(x, just) IN ToLeader(own.x, MsgCommit(own.just))

(***************************************************************************)
(* A late replica goes straight to the latest certificate it has stored,   *)
(* and has its component skip the phases before that.                      *)
(***************************************************************************)
CatchUpLocked(x) ==
    LET v == x.h.view
        y == respondToPreCommitJust(callTEEsign(callTEEsign(x).x).x, firstPrecommit(x, v))
    IN  IF Len(getCommit(x, v)) = qsize THEN executeRData(y, firstCommit(x, v).data) ELSE y

handleEarlierMessages(x) ==
    LET v    == x.h.view
        prop == firstProposal(x, v)
    IN  IF amCurrentLeader(x)
        THEN IF Len(getNewView(x, v)) = qsize THEN prepare(x) ELSE x
        ELSE IF Len(getPrecommit(x, v)) = qsize THEN CatchUpLocked(x)
        ELSE IF Len(getPrepare(x, v)) = qsize
        THEN respondToPrepareJust(callTEEsign(x).x, firstPrepare(x, v))
        ELSE IF Entries(x.h.props, v) # {}
        THEN respondToProposal(x, CertOf(prop.data, prop.nvsigns), prop.block)
        ELSE x

-----------------------------------------------------------------------------
(* Handlers *)

handleNewview(x, m) ==
    LET v == m.data.propv
        y == storeNv(x, m)
    IN  IF ~ /\ m.data.proph = noHash /\ m.data.phase = PH1_NEWVIEW
             /\ v >= x.h.view /\ amLeaderOf(x, v)
        THEN x
        ELSE IF Stored(x.h.nvs, y.h.nvs, v) = qsize /\ v = x.h.view THEN prepare(y)
        ELSE y

\* Neither the signer's nor the receiver's role is checked.
handleLdrPrepare(x, m) ==
    LET nv == [data |-> m.data, signs |-> m.nvsigns]
        ldr == [proph |-> m.block, propv |-> m.data.propv, justh |-> m.data.justh,
                justv |-> m.data.justv, phase |-> PH1_PREPARE]
    IN  IF ~ /\ m.data.propv >= x.h.view
             /\ TEEverify([data |-> ldr, signs |-> m.signs])
             /\ m.data.justh = SubSeq(m.block, 1, Len(m.block) - 1)
        THEN x
        ELSE IF m.data.propv = x.h.view THEN respondToProposal(x, nv, m.block)
        ELSE storeProp(x, m)

handlePrepare(x, m) ==
    LET v == m.data.propv
        y == storePrep(x, m)
    IN  IF v < x.h.view THEN x
        ELSE IF v > x.h.view THEN y
        ELSE IF amCurrentLeader(x)
        THEN IF Stored(x.h.preps, y.h.preps, v) = qsize
             THEN Call(y, "initiatePrepare", m.data) ELSE y
        ELSE IF Len(m.signs) = qsize THEN respondToPrepareJust(x, ToJust(m)) ELSE x

handlePrecommit(x, m) ==
    LET v == m.data.propv
        y == storePc(x, m)
    IN  IF v > x.h.view THEN y
        ELSE IF v < x.h.view \/ m.data.phase # PH1_PRECOMMIT THEN x
        ELSE IF amCurrentLeader(x)
        THEN IF Stored(x.h.pcs, y.h.pcs, v) = qsize
             THEN Call(y, "initiatePrecommit", m.data) ELSE y
        ELSE IF Len(m.signs) = qsize THEN respondToPreCommitJust(x, ToJust(m)) ELSE x

handleCommit(x, m) ==
    LET v == m.data.propv
        y == storeCom(x, m)
    IN  IF v > x.h.view THEN (IF amLeaderOf(x, v) \/ TEEverify(ToJust(m)) THEN y ELSE x)
        ELSE IF v < x.h.view \/ m.data.phase # PH1_COMMIT THEN x
        ELSE IF amCurrentLeader(x)
        THEN IF Stored(x.h.coms, y.h.coms, v) = qsize
             THEN Call(y, "initiateCommit", m.data) ELSE y
        ELSE IF Len(m.signs) = qsize /\ TEEverify(ToJust(m)) THEN executeRData(x, m.data) ELSE x

getStarted(x) ==
    LET own == callTEEsign(x)
        y   == [own.x EXCEPT !.h.started = TRUE]
    IN  IF amCurrentLeader(y) THEN handleNewview(y, MsgNewView(own.just))
        ELSE ToLeader(y, MsgNewView(own.just))

\* Mutant: the bound of the loop is one view too far.
LoopEnd_over(x) == [x.tc EXCEPT !.view = x.h.view + 2, !.phase = PH1_NEWVIEW]

\* Where the loop of startNewView signs its last statement, the only one used.
LoopEnd(x) ==
    IF x.tc.view > x.h.view THEN x.tc
    ELSE [x.tc EXCEPT !.view = x.h.view + 1, !.phase = PH1_NEWVIEW]

EnterView(x, nv) ==
    IF ~(nv.data.propv = x.h.view /\ nv.data.phase = PH1_NEWVIEW) THEN x
    ELSE IF amCurrentLeader(x) THEN handleNewview(handleEarlierMessages(x), nv)
    ELSE Call(ToLeader(x, nv), "handleEarlierMessages", nv.data)

startNewView(x) ==
    LET own == callTEEsign([x EXCEPT !.tc = LoopEnd(x)])
    IN  EnterView([own.x EXCEPT !.h.view = @ + 1], MsgNewView(own.just))

startNewViewOnTimeout(x) == startNewView([x EXCEPT !.h.skipped = Blame(@, x.h.view)])

-----------------------------------------------------------------------------
(* Actions *)

Running(r) == ~host[r].stopped /\ host[r].todo = <<>>

Become(r, y) ==
    /\ tc' = [tc EXCEPT ![r] = y.tc]
    /\ signed' = [signed EXCEPT ![r] = y.signed]
    /\ host' = [host EXCEPT ![r] = y.h]

\* handle_start: the first MsgStart of a client.
Start(r) ==
    /\ Running(r) /\ ~host[r].started
    /\ LET y == getStarted(Context(r))
       IN  Become(r, y) /\ net' = [net EXCEPT ![r] = y.out]
    /\ UNCHANGED timeouts

\* The timer is first set when the replica leaves view 0.
Timeout(r) ==
    /\ Running(r) /\ host[r].view > 0
    /\ host[r].view < MaxView /\ timeouts < MaxTimeouts
    /\ LET y == startNewViewOnTimeout(Context(r))
       IN  Become(r, y) /\ net' = [net EXCEPT ![r] = y.out]
    /\ timeouts' = timeouts + 1

\* The running handler goes on with the call in todo.
Continue(r, f, handle(_, _)) ==
    /\ host[r].todo # <<>> /\ host[r].todo[1].call = f
    /\ LET y == handle([Context(r) EXCEPT !.h.todo = <<>>], host[r].todo[1].data)
       IN  Become(r, y) /\ net' = [net EXCEPT ![r] = y.out]
    /\ UNCHANGED timeouts

StartNewView(r)      == Continue(r, "startNewView", LAMBDA x, d : startNewView(x))
EarlierMessages(r)   == Continue(r, "handleEarlierMessages", LAMBDA x, d : handleEarlierMessages(x))
InitiatePrepare(r)   == Continue(r, "initiatePrepare", initiatePrepare)
InitiatePrecommit(r) == Continue(r, "initiatePrecommit", initiatePrecommit)
InitiateCommit(r)    == Continue(r, "initiateCommit", initiateCommit)

\* Replica r takes the next message from s, of the given type, and handles it.
Receive(r, s, type, handle(_, _)) ==
    /\ Running(r) /\ net[s][r] # <<>> /\ Head(net[s][r]).type = type
    /\ LET y == handle(Context(r), Head(net[s][r]))
       IN  Become(r, y) /\ net' = [net EXCEPT ![r] = y.out, ![s][r] = Tail(@)]
    /\ UNCHANGED timeouts

ReceiveNewView(r, s)    == Receive(r, s, "newview", handleNewview)
ReceiveLdrPrepare(r, s) == Receive(r, s, "ldrprepare", handleLdrPrepare)
ReceivePrepare(r, s)    == Receive(r, s, "prepare", handlePrepare)
ReceivePreCommit(r, s)  == Receive(r, s, "precommit", handlePrecommit)
ReceiveCommit(r, s)     == Receive(r, s, "commit", handleCommit)

Next ==
    \E r \in Replica :
        \/ Start(r)
        \/ Timeout(r)
        \/ StartNewView(r)
        \/ EarlierMessages(r)
        \/ InitiatePrepare(r)
        \/ InitiatePrecommit(r)
        \/ InitiateCommit(r)
        \/ \E s \in Replica \ {r} :
            \/ ReceiveNewView(r, s)
            \/ ReceiveLdrPrepare(r, s)
            \/ ReceivePrepare(r, s)
            \/ ReceivePreCommit(r, s)
            \/ ReceiveCommit(r, s)

Spec == Init /\ [][Next]_vars

-----------------------------------------------------------------------------
(* Properties *)

\* TypeOK: every variable holds what the C++ fields and containers can hold.
TypeOK ==
    /\ tc \in [Replica -> FunState]
    /\ \A r \in Replica : \A d \in signed[r] : d \in RData
    /\ \A r \in Replica :
        LET h == host[r]
        IN  /\ h.view \in View /\ h.skipped \subseteq Replica
            /\ \A v \in DOMAIN h.blocks : v \in View /\ h.blocks[v] \in Hash
            /\ h.executed \in Seq(Hash) /\ ToSet(h.executed) \subseteq h.decided
            /\ \A m \in h.nvs \cup h.preps \cup h.pcs \cup h.coms : ToJust(m) \in Just
            /\ \A m \in h.props : m.data \in RData /\ m.block \in Hash
            /\ {h.started, h.stopped} \subseteq BOOLEAN
            /\ Len(h.todo) <= 1
    /\ timeouts \in 0 .. MaxTimeouts

(***************************************************************************)
(* Agreement: of any two blocks that replicas decide (executeRData), in    *)
(* whichever views, one extends the other.                                 *)
(***************************************************************************)
Agreement ==
    LET decided == UNION {host[r].decided : r \in Replica}
    IN  \A a, b \in decided : IsAncestor(a, b) \/ IsAncestor(b, a)

\* The components that signed hash in a phase and view.
Voters(hash, v, phase) ==
    {r \in Replica : \E d \in signed[r] :
        d.proph = hash /\ d.propv = v /\ d.phase = phase}
Voted(phase) == {d \in UNION {signed[r] : r \in Replica} : d.phase = phase /\ d.proph # noHash}

(***************************************************************************)
(* LockedIsExtended: once a quorum of components signed a pre-commit for a *)
(* block (each locked on it in TEEstore), every prepare vote of a later    *)
(* view is for a block that extends it.                                    *)
(***************************************************************************)
LockedIsExtended ==
    \A d \in Voted(PH1_PRECOMMIT) :
        Cardinality(Voters(d.proph, d.propv, PH1_PRECOMMIT)) >= qsize =>
            \A e \in Voted(PH1_PREPARE) :
                e.propv > d.propv => IsAncestor(d.proph, e.proph)

(***************************************************************************)
(* TrustedInStep: between handlers a component is in its host's view, or   *)
(* at the start of the next.  The branch "Something wrong happened" of     *)
(* startNewView is never taken, although handlers, timeouts and the        *)
(* catching up of handleEarlierMessages all advance the component.         *)
(***************************************************************************)
TrustedInStep ==
    \A r \in Replica : Running(r) =>
        \/ tc[r].view = host[r].view
        \/ tc[r].view = host[r].view + 1 /\ tc[r].phase = PH1_NEWVIEW

\* The longest branch that anybody has executed.
LongestExecuted ==
    LET all == {newHash} \cup UNION {ToSet(host[r].executed) : r \in Replica}
    IN  CHOOSE h \in all : \A g \in all : Len(g) <= Len(h)

Log == INSTANCE ReplicatedLog WITH
    log <- LongestExecuted, applied <- [r \in Replica |-> host[r].executed]

(***************************************************************************)
(* ImplementsReplicatedLog: the replicas together keep one log that only   *)
(* grows, and each applies entries of it in order, none twice.             *)
(***************************************************************************)
ImplementsReplicatedLog == Log!Spec
=============================================================================
