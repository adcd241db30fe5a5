----------------------------- MODULE RaftelProofs -----------------------------
(***************************************************************************)
(* The handlers of Basic Raftel and the theorems. Every action of Next     *)
(* runs one handler on a context of one replica; the lemmas of             *)
(* RaftelHandlers follow it from call to call, and the induction puts them *)
(* together.                                                               *)
(***************************************************************************)
EXTENDS RaftelHandlers

USE DEF PH1_NEWVIEW, PH1_PREPARE, PH1_PRECOMMIT, PH1_COMMIT

-----------------------------------------------------------------------------
(* Certificates *)

\* What a replica's log holds.
LEMMA LogParts ==
    ASSUME NEW w, NEW x, Good(w, x)
    PROVE  /\ LogOK(Put(w, x).signed, x.h)
           /\ x.h \in HostState /\ x.id \in Replica /\ x.h.view \in View
           /\ x.h.votes \subseteq Vote /\ x.h.qcs \subseteq CombMsg
           /\ x.h.ldrs \subseteq LdrPrepareMsg
<1>1. x \in ContextType /\ w \in World /\ x.id \in Replica /\ x.h \in HostState
  BY ContextParts DEF Good
<1>2. LogOK(Put(w, x).signed, Put(w, x).host[x.id])
  BY <1>1 DEF Good, Inv
<1>3. Put(w, x).host[x.id] = x.h
  BY <1>1, PutParts
<1> QED BY <1>1, <1>2, <1>3 DEF HostState

\* The votes of a certificate are votes of its kind from the log.
LEMMA QCVotesAreVotes ==
    ASSUME NEW x, NEW kind, NEW v, NEW qcType
    PROVE  \A o \in QCVotes(x, kind, v, qcType) : o \in x.h.votes /\ o.kind = kind
BY DEF QCVotes, MergedVotes, TEEVotes, NonTEEVotes, Lowest

\* What the votes of a certificate stand for.
LEMMA VotesCertify ==
    ASSUME NEW w, NEW x, Good(w, x), NEW kind, NEW votes,
           \A o \in votes : o \in x.h.votes /\ o.kind = kind,
           NEW data, ValidQC(data, votes, kind)
    PROVE  LET signers == {o.signer : o \in votes}
           IN  /\ IsQuorum(signers) /\ signers \in SUBSET Replica /\ data.phase = kind
               /\ CombOK(Put(w, x).signed, data, signers, kind)
<1> DEFINE signers == {o.signer : o \in votes}
           S == Put(w, x).signed
<1>1. /\ \A o \in votes : o.data = data
      /\ IsQuorum(signers) /\ data.phase = kind
  BY DEF ValidQC, verifyCombQC
<1>2. signers \subseteq Replica /\ signers # {}
  BY <1>1, QuorumFacts
<1>3. \A o \in votes : CombOK(S, o.data, {o.signer}, o.kind)
  BY LogParts DEF LogOK
<1> HIDE DEF S
<1>4. \A o \in votes : /\ Names(data) /\ data \in S[o.signer]
                       /\ kind # PH1_PREPARE => QuorumPrepared(S, data.propv)
  BY <1>1, <1>3 DEF CombOK
<1> QED BY <1>1, <1>2, <1>4 DEF CombOK, S

\* A commit certificate decides.
LEMMA CommitDecides ==
    ASSUME NEW a \in World, Inv(a), NEW data, data.phase = PH1_COMMIT,
           NEW Q, IsQuorum(Q), CombOK(a.signed, data, Q, PH1_COMMIT)
    PROVE  Decided(a.signed, data.proph)
<1>1. Q \subseteq Replica /\ Q # {}
  BY QuorumFacts
<1>2. Names(data) /\ (\A p \in Q : data \in a.signed[p]) /\ QuorumPrepared(a.signed, data.propv)
  BY DEF CombOK
<1>3. PICK q \in Q : q \in Replica /\ data \in a.signed[q]
  BY <1>1, <1>2
<1>4. CASE isTEE(Creator(data.proph))
  <2>1. PICK p \in Replica, e \in UNION {a.signed[k] : k \in Replica} :
            /\ e \in a.signed[p] /\ Names(e) /\ e.propv = data.propv
            /\ e.phase = PH1_PREPARE /\ SignedByQuorum(a.signed, e)
    BY <1>2 DEF QuorumPrepared
  <2>2. e.proph = data.proph
    BY <1>2, <1>3, <2>1 DEF Inv, OneBlock
  <2>3. Decides(a.signed, e)
    BY <1>4, <2>1, <2>2 DEF Decides
  <2> QED BY <2>1, <2>2, <2>3 DEF Decided
<1>5. CASE ~isTEE(Creator(data.proph))
  <2>1. SignedByQuorum(a.signed, data)
    BY <1>1, <1>2 DEF SignedByQuorum
  <2>2. Decides(a.signed, data)
    BY <1>2, <1>5, <2>1 DEF Decides
  <2> QED BY <1>3, <2>2 DEF Decided
<1> QED BY <1>4, <1>5

(***************************************************************************)
(* A prepare certificate decides under a leader with a TEE, if the type of *)
(* that leader tells the type of the proposer.                             *)
(***************************************************************************)
LEMMA PrepareDecides ==
    ASSUME NEW a \in World, Inv(a), NEW data \in RData, data.phase = PH1_PREPARE,
           NEW Q, IsQuorum(Q), CombOK(a.signed, data, Q, PH1_PREPARE),
           NEW skip \in SkipSet, NEW v \in View, isTEE(getLeaderOf(skip, v))
    PROVE  Decided(a.signed, data.proph)
<1> SUFFICES ASSUME Uniform PROVE Decided(a.signed, data.proph)
  BY DEF Decided
<1>1. Q \subseteq Replica /\ Q # {}
  BY QuorumFacts
<1>2. Names(data) /\ \A p \in Q : data \in a.signed[p]
  BY DEF CombOK
<1>3. PICK q \in Q : q \in Replica /\ data \in a.signed[q]
  BY <1>1, <1>2
<1>4. Justified(a.host, data.proph, data.propv)
  BY <1>2, <1>3 DEF Inv, NamesOK
<1>5. PICK l \in Replica :
        /\ FixedLeaderMode => l = FixedLeader
        /\ \E nvs \in SUBSET a.host[l].nvs :
            /\ IsQuorum(SignersOf(nvs))
            /\ \A m \in nvs : m.data.propv = data.propv
            /\ data.proph = Append(HighestNewView(nvs).data.justh, <<l, data.propv>>)
  BY <1>4 DEF Justified
<1>6. Creator(data.proph) = l
  <2>1. PICK nvs \in SUBSET a.host[l].nvs :
            /\ IsQuorum(SignersOf(nvs))
            /\ \A m \in nvs : m.data.propv = data.propv
            /\ data.proph = Append(HighestNewView(nvs).data.justh, <<l, data.propv>>)
    BY <1>5
  <2>2. HighestNewView(nvs).data.justh \in Hash
    <3>1. nvs \subseteq NewView /\ nvs \subseteq a.host[l].nvs
      BY WorldParts
    <3>2. HighestNewView(nvs) \in nvs
      <4>1. nvs # {}
        BY <2>1, QuorumFacts DEF SignersOf
      <4>2. data.propv \in Nat
        BY DEF RData, View
      <4>3. \A m \in nvs : m.data.justv <= data.propv
        <5> SUFFICES ASSUME NEW m \in nvs PROVE m.data.justv <= data.propv
          OBVIOUS
        <5>1. m.data \in a.signed[m.signer] /\ IsReport(m.data) /\ m.signer \in Replica
          BY <3>1 DEF Inv, LogOK, NewView
        <5>2. ComponentOK(a.tc[m.signer], a.signed[m.signer])
          BY <5>1 DEF Inv
        <5>3. m.data.justv < m.data.propv
          BY <5>1, <5>2 DEF ComponentOK, Truthful
        <5>4. m.data.justv \in Nat /\ m.data.propv = data.propv
          BY <2>1, <3>1 DEF NewView, RData, View
        <5> QED BY <4>2, <5>3, <5>4
      <4> QED BY <3>1, <4>1, <4>2, <4>3, HighestIsOne
    <3> QED BY <3>1, <3>2 DEF NewView, RData
  <2>3. data.propv \in View
    BY DEF RData
  <2> QED BY <2>1, <2>2, <2>3, CreatorOf
<1>7. isTEE(l)
  <2>1. CASE FixedLeaderMode
    BY <1>5, <2>1 DEF getLeaderOf
  <2>2. CASE TotalTEE = total
    BY <2>2, ReplicaNat DEF isTEE
  <2>3. CASE TotalTEE = 0
    <3>1. getLeaderOf(skip, v) \in Replica
      BY LeaderIsReplica DEF SkipSet
    <3>2. getLeaderOf(skip, v) \in Nat
      BY <3>1, ReplicaNat
    <3>3. ~(getLeaderOf(skip, v) < 0)
      BY <3>2
    <3> QED BY <2>3, <3>3 DEF isTEE
  <2> QED BY <2>1, <2>2, <2>3 DEF Uniform
<1>8. SignedByQuorum(a.signed, data)
  BY <1>1, <1>2 DEF SignedByQuorum
<1>9. Decides(a.signed, data)
  BY <1>2, <1>6, <1>7, <1>8 DEF Decides
<1> QED BY <1>3, <1>9 DEF Decided

-----------------------------------------------------------------------------
(* Leaders with a quorum of votes *)

\* decideComb.
LEMMA DecideStep ==
    ASSUME ~Damysus, NEW w, NEW x, Good(w, x), ~x.h.catchup, NEW qcType,
           NEW data \in RData, data.propv = x.h.view
    PROVE  Ends(w, x, decideComb(x, data, qcType))
<1> DEFINE kind    == IF isTEE(CurrentLeader(x)) THEN PH1_PREPARE ELSE PH1_COMMIT
           votes   == QCVotes(x, kind, data.propv, qcType)
           signers == {o.signer : o \in votes}
           m       == MsgComb(kind, data, signers)
           y       == Broadcast(x, m)
<1>1. CASE ~ValidQC(data, votes, kind)
  <2>1. decideComb(x, data, qcType) = x
    BY <1>1 DEF decideComb
  <2> QED BY <2>1 DEF Ends, Goes
<1>2. CASE ValidQC(data, votes, kind)
  <2>1. decideComb(x, data, qcType) = executeComb(y, data)
    BY <1>2 DEF decideComb
  <2>2. \A o \in votes : o \in x.h.votes /\ o.kind = kind
    BY QCVotesAreVotes
  <2>3. kind \in {PH1_PREPARE, PH1_COMMIT} /\ (kind = PH1_PREPARE => isTEE(CurrentLeader(x)))
    OBVIOUS
  <2> HIDE DEF kind, votes
  <2>4. /\ IsQuorum(signers) /\ signers \in SUBSET Replica /\ data.phase = kind
        /\ CombOK(Put(w, x).signed, data, signers, kind)
    BY <1>2, <2>2, VotesCertify
  <2> HIDE DEF signers
  <2>5. /\ m \in CombMsg /\ m.type = kind /\ m.data = data /\ m.signers = signers
    BY <2>3, <2>4 DEF MsgComb, CombMsg, Phase1
  <2> HIDE DEF m
  <2>6. CertOK(Put(w, x).signed, m)
    BY <2>4, <2>5 DEF CertOK
  <2>7. Goes(w, x, y) /\ y.h = x.h
    BY <2>5, <2>6, BroadcastCombStep
  <2> HIDE DEF y
  <2>8. CombOK(Put(w, y).signed, data, signers, kind)
    BY <2>4, <2>7, GoodGrows
  <2>9. Put(w, y) \in World /\ Inv(Put(w, y))
    BY <2>7, PutParts DEF Goes, Good
  <2>10. Decided(Put(w, y).signed, data.proph)
    <3>1. CASE kind = PH1_COMMIT
      BY <2>4, <2>8, <2>9, <3>1, CommitDecides
    <3>2. CASE kind = PH1_PREPARE
      <4>1. isTEE(getLeaderOf(x.h.skipped, x.h.view))
        BY <2>3, <3>2 DEF CurrentLeader, Leader
      <4>2. x.h.skipped \in SkipSet /\ x.h.view \in View
        BY LogParts DEF HostState
      <4>3. data.phase = PH1_PREPARE /\ CombOK(Put(w, y).signed, data, signers, PH1_PREPARE)
        BY <2>4, <2>8, <3>2
      <4> QED BY <2>4, <2>9, <4>1, <4>2, <4>3, PrepareDecides
    <3> QED BY <2>3, <3>1, <3>2
  <2>11. Ends(w, y, executeComb(y, data))
    <3>1. Good(w, y) /\ ~y.h.catchup /\ data.propv = y.h.view
      BY <2>7 DEF Goes
    <3> QED BY <2>10, <3>1, ExecuteStep
  <2> QED BY <2>1, <2>7, <2>11 DEF Ends, Goes
<1> QED BY <1>1, <1>2

\* A quorum voted to prepare, if there is a certificate that can be stored.
LEMMA CertifiedIsPrepared ==
    ASSUME NEW a, NEW data, NEW Q, IsQuorum(Q), NEW kind, CombOK(a.signed, data, Q, kind),
           kind = PH1_PREPARE => data.phase = PH1_PREPARE
    PROVE  /\ Names(data) /\ (\A p \in Q : data \in a.signed[p])
           /\ QuorumPrepared(a.signed, data.propv)
<1>1. Q \subseteq Replica /\ Q # {}
  BY QuorumFacts
<1>2. Names(data) /\ \A p \in Q : data \in a.signed[p]
  BY DEF CombOK
<1>3. CASE kind # PH1_PREPARE
  BY <1>2, <1>3 DEF CombOK
<1>4. CASE kind = PH1_PREPARE
  <2>1. SignedByQuorum(a.signed, data)
    BY <1>1, <1>2 DEF SignedByQuorum
  <2> QED BY <1>1, <1>2, <1>4, <2>1 DEF QuorumPrepared
<1> QED BY <1>2, <1>3, <1>4

\* The context after a component stored a certificate.
StoredBy(x, just) == Signed(x, callTEEstoreComb(x.tc, just))

\* A component stores a certificate that is backed.
LEMMA StoreContext ==
    ASSUME ~Damysus, NEW w, NEW x, Good(w, x), ~x.h.catchup,
           NEW data \in RData, data.propv = x.h.view, NEW Q, NEW kind,
           CombOK(Put(w, x).signed, data, Q, kind),
           kind = PH1_PREPARE => data.phase = PH1_PREPARE,
           CanStore(x.tc, [data |-> data, signers |-> Q])
    PROVE  LET just == [data |-> data, signers |-> Q]
               d    == callTEEstoreComb(x.tc, just).data
               y    == StoredBy(x, just)
           IN  /\ Goes(w, x, y) /\ y.h = x.h /\ y.out = x.out /\ d \in RData
               /\ \A next : CombOK(Put(w, y).signed, d, {x.id}, next)
<1> DEFINE just == [data |-> data, signers |-> Q]
           y    == Signed(x, callTEEstoreComb(x.tc, just))
<1>1. just.data = data /\ just.signers = Q /\ CanStore(x.tc, just)
  OBVIOUS
<1> HIDE DEF just
<1>2. IsQuorum(Q)
  BY <1>1 DEF CanStore, CanTEEstore
<1>3. /\ Names(data) /\ (\A p \in Q : data \in Put(w, x).signed[p])
      /\ QuorumPrepared(Put(w, x).signed, data.propv)
  BY <1>2, CertifiedIsPrepared
<1>4. /\ just.data \in RData /\ Names(just.data) /\ just.data.propv = x.h.view
      /\ \A p \in just.signers : just.data \in Put(w, x).signed[p]
      /\ QuorumPrepared(Put(w, x).signed, x.h.view)
  BY <1>1, <1>3
<1>5. /\ Good(w, y) /\ y.id = x.id /\ y.h = x.h /\ y.out = x.out
      /\ x.signed \subseteq y.signed /\ callTEEstoreComb(x.tc, just).data \in RData
      /\ \A next : CombOK(Put(w, y).signed, callTEEstoreComb(x.tc, just).data, {x.id}, next)
  BY <1>1, <1>4, StoreSign
<1> HIDE DEF y
<1>6. Goes(w, x, y)
  BY <1>5 DEF Goes
<1> QED BY <1>5, <1>6 DEF StoredBy, y, just

\* preCommitComb and commitComb.
LEMMA AdvanceStep ==
    ASSUME ~Damysus, NEW w, NEW x, Good(w, x), ~x.h.catchup, NEW qcType,
           NEW data \in RData, data.propv = x.h.view,
           NEW kind \in {PH1_PREPARE, PH1_PRECOMMIT}, NEW next \in Phase1
    PROVE  Goes(w, x, Advance(x, data, qcType, kind, next))
<1> DEFINE votes   == QCVotes(x, kind, data.propv, qcType)
           signers == {o.signer : o \in votes}
           just    == [data |-> data, signers |-> signers]
           m       == MsgComb(kind, data, signers)
           y       == Broadcast(x, m)
           z       == StoredBy(y, just)
           d       == callTEEstoreComb(y.tc, just).data
           u       == StoreVote(z, next, d, x.id)
<1>1. CASE ~ValidQC(data, votes, kind)
  <2>1. Advance(x, data, qcType, kind, next) = x
    BY <1>1 DEF Advance
  <2> QED BY <2>1 DEF Goes
<1>2. CASE ValidQC(data, votes, kind)
  <2>1. x \in ContextType /\ x.id \in Replica
    BY ContextParts DEF Good
  <2>2. y.tc = x.tc
    BY <2>1 DEF Broadcast, ContextType
  <2>3. Advance(x, data, qcType, kind, next) = IF CanStore(y.tc, just) THEN u ELSE y
    BY <1>2, <2>2 DEF Advance, StoredBy
  <2>4. \A o \in votes : o \in x.h.votes /\ o.kind = kind
    BY QCVotesAreVotes
  <2> HIDE DEF votes
  <2>5. /\ IsQuorum(signers) /\ signers \in SUBSET Replica /\ data.phase = kind
        /\ CombOK(Put(w, x).signed, data, signers, kind)
    BY <1>2, <2>4, VotesCertify
  <2> HIDE DEF signers
  <2>6. /\ m \in CombMsg /\ m.type = kind /\ m.data = data /\ m.signers = signers
    BY <2>5 DEF MsgComb, CombMsg, Phase1
  <2> HIDE DEF m
  <2>7. CertOK(Put(w, x).signed, m)
    BY <2>5, <2>6 DEF CertOK
  <2>8. Goes(w, x, y) /\ y.h = x.h
    BY <2>6, <2>7, BroadcastCombStep
  <2> HIDE DEF y
  <2>9. CombOK(Put(w, y).signed, data, signers, kind)
    BY <2>5, <2>8, GoodGrows
  <2>10. Good(w, y) /\ ~y.h.catchup /\ data.propv = y.h.view /\ y.id = x.id
    BY <2>8 DEF Goes
  <2>11. ASSUME CanStore(y.tc, just)
         PROVE  Goes(w, y, u)
    <3>1. /\ Goes(w, y, z) /\ z.h = y.h /\ z.out = y.out /\ d \in RData
          /\ \A n : CombOK(Put(w, z).signed, d, {y.id}, n)
      BY <2>5, <2>9, <2>10, <2>11, StoreContext
    <3> HIDE DEF z, d
    <3>2. CombOK(Put(w, z).signed, d, {x.id}, next)
      BY <2>10, <3>1
    <3>3. Good(w, z) /\ ~z.h.catchup /\ d \in RData
      BY <3>1 DEF Goes
    <3>4. Goes(w, z, u)
      BY <2>1, <3>2, <3>3, StoreVoteStep
    <3> HIDE DEF u
    <3> QED BY <3>1, <3>4 DEF Goes
  <2> HIDE DEF u
  <2> QED BY <2>3, <2>8, <2>11 DEF Goes
<1> QED BY <1>1, <1>2

-----------------------------------------------------------------------------
(* Backups *)

\* respondToLdrPrepareComb, for the one proposal of the view.
LEMMA BackupStep ==
    ASSUME ~Damysus, NEW w, NEW x, Good(w, x), ~x.h.catchup,
           NEW m \in LdrPrepareMsg, LdrOK(Put(w, x).signed, m), m.acc.view = x.h.view,
           x.h.view \notin DOMAIN x.h.blocks,
           \A o \in Incoming(Put(w, x).net, x.id) :
                o.type = "ldrprepare" => o.acc.view # x.h.view
    PROVE  Goes(w, x, respondToLdrPrepareComb(x, m))
<1> DEFINE y == VotedFor(x, m)
           d == callTEEprepareComb(x.tc, m.block, m.acc).data
           o == MsgComb(PH1_PREPARE, d, {x.id})
           z == SendTo(y, CurrentLeader(y), o)
<1>1. CASE ~CanPrepare(x.tc, m.block, m.acc, m.proof)
  <2>1. respondToLdrPrepareComb(x, m) = x
    BY <1>1 DEF respondToLdrPrepareComb
  <2> QED BY <2>1 DEF Goes
<1>2. CASE CanPrepare(x.tc, m.block, m.acc, m.proof)
  <2>1. respondToLdrPrepareComb(x, m) = z
    BY <1>2 DEF respondToLdrPrepareComb, VotedFor
  <2>2. /\ Goes(w, x, y) /\ d \in RData /\ CombOK(Put(w, y).signed, d, {x.id}, PH1_PREPARE)
    BY <1>2, BackupSign
  <2> HIDE DEF y, d
  <2>3. x.id \in Replica
    BY LogParts
  <2>4. o \in CombMsg /\ o.type = PH1_PREPARE /\ o.data = d /\ o.signers = {x.id}
    BY <2>2, <2>3 DEF MsgComb, CombMsg, Phase1
  <2>5. CertOK(Put(w, y).signed, o)
    BY <2>2, <2>4 DEF CertOK
  <2> HIDE DEF o
  <2>6. Goes(w, y, z)
    <3>1. Good(w, y) /\ ~y.h.catchup
      BY <2>2 DEF Goes
    <3> QED BY <2>4, <2>5, <3>1, SendCombStep
  <2> HIDE DEF z
  <2> QED BY <2>1, <2>2, <2>6 DEF Goes
<1> QED BY <1>1, <1>2

\* A backup stores a certificate and votes in the next phase.
LEMMA StoreAndVoteStep ==
    ASSUME ~Damysus, NEW w, NEW x, Good(w, x), ~x.h.catchup,
           NEW m \in CombMsg, CertOK(Put(w, x).signed, m), m.data.propv = x.h.view,
           m.type = PH1_PREPARE => m.data.phase = PH1_PREPARE,
           NEW next \in Phase1 \ {PH1_NEWVIEW}
    PROVE  Goes(w, x, StoreAndVote(x, m, next))
<1> DEFINE just == [data |-> m.data, signers |-> m.signers]
           y    == StoredBy(x, just)
           d    == callTEEstoreComb(x.tc, just).data
           o    == MsgComb(next, d, {x.id})
           z    == SendTo(y, CurrentLeader(x), o)
<1>1. CASE ~CanStore(x.tc, just)
  <2>1. StoreAndVote(x, m, next) = x
    BY <1>1 DEF StoreAndVote
  <2> QED BY <2>1 DEF Goes
<1>2. CASE CanStore(x.tc, just)
  <2>1. StoreAndVote(x, m, next) = z
    BY <1>2 DEF StoreAndVote, StoredBy
  <2>2. m.data \in RData /\ CombOK(Put(w, x).signed, m.data, m.signers, m.type)
    BY DEF CombMsg, CertOK
  <2>3. /\ Goes(w, x, y) /\ d \in RData
        /\ \A n : CombOK(Put(w, y).signed, d, {x.id}, n)
    BY <1>2, <2>2, StoreContext
  <2> HIDE DEF y, d
  <2>4. x.id \in Replica
    BY LogParts
  <2>5. o \in CombMsg /\ o.type = next /\ o.data = d /\ o.signers = {x.id}
    BY <2>3, <2>4 DEF MsgComb, CombMsg
  <2>6. CertOK(Put(w, y).signed, o)
    BY <2>3, <2>5 DEF CertOK
  <2> HIDE DEF o
  <2>7. Goes(w, y, z)
    <3>1. Good(w, y) /\ ~y.h.catchup
      BY <2>3 DEF Goes
    <3> QED BY <2>5, <2>6, <3>1, SendCombStep
  <2> HIDE DEF z
  <2> QED BY <2>1, <2>3, <2>7 DEF Goes
<1> QED BY <1>1, <1>2

\* respondToPrepareComb.
LEMMA PrepareCertStep ==
    ASSUME ~Damysus, NEW w, NEW x, Good(w, x), ~x.h.catchup,
           NEW m \in CombMsg, m.type = PH1_PREPARE, CertOK(Put(w, x).signed, m),
           m.data.propv = x.h.view
    PROVE  Ends(w, x, respondToPrepareComb(x, m))
<1>1. CASE ~verifyCombQC(m.data, m.signers, PH1_PREPARE)
  <2>1. respondToPrepareComb(x, m) = x
    BY <1>1 DEF respondToPrepareComb
  <2> QED BY <2>1 DEF Ends, Goes
<1>2. CASE verifyCombQC(m.data, m.signers, PH1_PREPARE)
  <2>1. m.data.phase = PH1_PREPARE /\ IsQuorum(m.signers) /\ m.data \in RData
    BY <1>2 DEF verifyCombQC, CombMsg
  <2>2. respondToPrepareComb(x, m) = IF isTEE(CurrentLeader(x)) THEN executeComb(x, m.data)
                                     ELSE StoreAndVote(x, m, PH1_PRECOMMIT)
    BY <1>2 DEF respondToPrepareComb
  <2>3. CASE isTEE(CurrentLeader(x))
    <3>1. Put(w, x) \in World /\ Inv(Put(w, x))
      BY PutParts DEF Good
    <3>2. isTEE(getLeaderOf(x.h.skipped, x.h.view))
      BY <2>3 DEF CurrentLeader, Leader
    <3>3. x.h.skipped \in SkipSet /\ x.h.view \in View
      BY LogParts DEF HostState
    <3>4. CombOK(Put(w, x).signed, m.data, m.signers, PH1_PREPARE)
      BY DEF CertOK
    <3>5. Decided(Put(w, x).signed, m.data.proph)
      BY <2>1, <3>1, <3>2, <3>3, <3>4, PrepareDecides
    <3>6. Ends(w, x, executeComb(x, m.data))
      BY <2>1, <3>5, ExecuteStep
    <3> QED BY <2>2, <2>3, <3>6
  <2>4. CASE ~isTEE(CurrentLeader(x))
    <3>1. Goes(w, x, StoreAndVote(x, m, PH1_PRECOMMIT))
      BY <2>1, StoreAndVoteStep DEF Phase1
    <3> QED BY <2>2, <2>4, <3>1 DEF Ends
  <2> QED BY <2>3, <2>4
<1> QED BY <1>1, <1>2

\* respondToPreCommitComb.
LEMMA PreCommitCertStep ==
    ASSUME ~Damysus, NEW w, NEW x, Good(w, x), ~x.h.catchup,
           NEW m \in CombMsg, m.type = PH1_PRECOMMIT, CertOK(Put(w, x).signed, m),
           m.data.propv = x.h.view
    PROVE  Ends(w, x, respondToPreCommitComb(x, m))
<1>1. Goes(w, x, StoreAndVote(x, m, PH1_COMMIT))
  BY StoreAndVoteStep DEF Phase1
<1> QED BY <1>1 DEF Ends, respondToPreCommitComb

\* respondToCommitComb.
LEMMA CommitCertStep ==
    ASSUME ~Damysus, NEW w, NEW x, Good(w, x), ~x.h.catchup,
           NEW m \in CombMsg, m.type = PH1_COMMIT, CertOK(Put(w, x).signed, m),
           m.data.propv = x.h.view
    PROVE  Ends(w, x, respondToCommitComb(x, m))
<1>1. CASE ~verifyCombQC(m.data, m.signers, PH1_COMMIT)
  <2>1. respondToCommitComb(x, m) = x
    BY <1>1 DEF respondToCommitComb
  <2> QED BY <2>1 DEF Ends, Goes
<1>2. CASE verifyCombQC(m.data, m.signers, PH1_COMMIT)
  <2>1. m.data.phase = PH1_COMMIT /\ IsQuorum(m.signers) /\ m.data \in RData
    BY <1>2 DEF verifyCombQC, CombMsg
  <2>2. Put(w, x) \in World /\ Inv(Put(w, x))
    BY PutParts DEF Good
  <2>3. CombOK(Put(w, x).signed, m.data, m.signers, PH1_COMMIT)
    BY DEF CertOK
  <2>4. Decided(Put(w, x).signed, m.data.proph)
    BY <2>1, <2>2, <2>3, CommitDecides
  <2>5. Ends(w, x, executeComb(x, m.data))
    BY <2>1, <2>4, ExecuteStep
  <2> QED BY <1>2, <2>5 DEF respondToCommitComb
<1> QED BY <1>1, <1>2

\* storeLdrPrepareComb of the one proposal of its view.
LEMMA StoreLdrPrepareStep ==
    ASSUME NEW w, NEW x, Good(w, x), ~x.h.catchup,
           NEW m \in LdrPrepareMsg, LdrOK(Put(w, x).signed, m),
           \A o \in Incoming(Put(w, x).net, x.id) :
                o.type = "ldrprepare" => o.acc.view # m.acc.view
    PROVE  Goes(w, x, StoreLdrPrepare(x, m))
<1> DEFINE y == StoreLdrPrepare(x, m)
           V == x.h.ldrs \cup {m}
           a == Put(w, x)
           b == Put(w, y)
           r == x.id
<1>1. x \in ContextType /\ w \in World /\ r \in Replica /\ Inv(a)
  BY ContextParts DEF Good
<1>2. CASE \E o \in x.h.ldrs : o.signer = m.signer /\ o.acc.view = m.acc.view
  <2>1. y = x
    BY <1>2 DEF StoreLdrPrepare
  <2> QED BY <2>1 DEF Goes
<1>3. CASE ~\E o \in x.h.ldrs : o.signer = m.signer /\ o.acc.view = m.acc.view
  <2>1. V \in SUBSET LdrPrepareMsg
    BY LogParts
  <2>2. y = [x EXCEPT !.h.ldrs = V]
    BY <1>1, <1>3 DEF StoreLdrPrepare, ContextType, HostState
  <2> HIDE DEF V, y
  <2>3. /\ y \in ContextType /\ y.id = x.id /\ y.tc = x.tc /\ y.signed = x.signed
        /\ y.out = x.out /\ y.h = [x.h EXCEPT !.ldrs = V]
    BY <1>1, <2>1, <2>2 DEF ContextType, HostState
  <2>4. y.h.view = x.h.view /\ y.h.catchup = x.h.catchup /\ y.h.skipped = x.h.skipped
    BY <1>1, <2>3 DEF ContextType, HostState
  <2>5. Near(a, b, r) /\ b.net = a.net
    BY <1>1, <2>3, PutNear
  <2>6. /\ a.tc[r] = x.tc /\ a.signed[r] = x.signed /\ a.host[r] = x.h
        /\ b.tc[r] = y.tc /\ b.signed[r] = y.signed /\ b.host[r] = y.h
    <3>1. a.tc[r] = x.tc /\ a.signed[r] = x.signed /\ a.host[r] = x.h
      BY <1>1, PutParts
    <3>2. b.tc[y.id] = y.tc /\ b.signed[y.id] = y.signed /\ b.host[y.id] = y.h
      BY <1>1, <2>3, PutParts
    <3> QED BY <2>3, <3>1, <3>2
  <2>7. /\ LdrOK(a.signed, m)
        /\ \A o \in Incoming(a.net, r) : o.type = "ldrprepare" => o.acc.view # m.acc.view
    OBVIOUS
  <2> HIDE DEF a, b, r
  <2>8. b.host[r] = [a.host[r] EXCEPT !.ldrs = @ \cup {m}]
    BY <2>3, <2>6 DEF V
  <2>9. b.tc[r] = a.tc[r] /\ b.signed[r] = a.signed[r]
    BY <2>3, <2>6
  <2>10. Inv(b)
    BY <1>1, <2>5, <2>7, <2>8, <2>9, LogProposalStep
  <2> QED BY <1>1, <2>3, <2>4, <2>10 DEF Goes, Good, b, y
<1> QED BY <1>2, <1>3

\* handleLdrPrepareComb.
LEMMA LdrPrepareHandled ==
    ASSUME ~Damysus, NEW w, NEW x, Good(w, x), ~x.h.catchup,
           NEW m \in LdrPrepareMsg, LdrOK(Put(w, x).signed, m),
           m.acc.view \notin DOMAIN x.h.blocks,
           \A o \in Incoming(Put(w, x).net, x.id) :
                o.type = "ldrprepare" => o.acc.view # m.acc.view
    PROVE  Goes(w, x, handleLdrPrepareComb(x, m))
<1>1. handleLdrPrepareComb(x, m) \in
        {x, StoreLdrPrepare(x, m)} \cup
        (IF m.acc.view = x.h.view THEN {respondToLdrPrepareComb(x, m)} ELSE {})
  BY DEF handleLdrPrepareComb
<1>2. Goes(w, x, x)
  BY DEF Goes
<1>3. Goes(w, x, StoreLdrPrepare(x, m))
  BY StoreLdrPrepareStep
<1>4. m.acc.view = x.h.view => Goes(w, x, respondToLdrPrepareComb(x, m))
  BY BackupStep
<1> QED BY <1>1, <1>2, <1>3, <1>4

-----------------------------------------------------------------------------
(* Votes and certificates of the three phases *)

\* A vote that one replica signed is logged under that replica's name.
LEMMA StoreMsgVoteStep ==
    ASSUME NEW w, NEW x, Good(w, x), ~x.h.catchup, NEW kind \in Phase1,
           NEW m \in CombMsg, m.type = kind, CertOK(Put(w, x).signed, m),
           verifyCombVote(m.data, m.signers, kind)
    PROVE  Goes(w, x, StoreMsgVote(x, kind, m))
<1> DEFINE p == CHOOSE s \in m.signers : TRUE
<1>1. m.signers \subseteq Replica /\ m.data \in RData
  BY DEF CombMsg
<1>2. m.signers # {}
  BY FS_EmptySet DEF verifyCombVote
<1>3. p \in m.signers
  BY <1>2
<1>4. StoreMsgVote(x, kind, m) = StoreVote(x, kind, m.data, p)
  BY DEF StoreMsgVote
<1> HIDE DEF p
<1>5. CombOK(Put(w, x).signed, m.data, {p}, kind)
  BY <1>3 DEF CertOK, CombOK
<1>6. p \in Replica
  BY <1>1, <1>3
<1> QED BY <1>1, <1>4, <1>5, <1>6, StoreVoteStep

\* A certificate of a later view is cached, a vote logged.
LEMMA StoreFutureStep ==
    ASSUME NEW w, NEW x, Good(w, x), ~x.h.catchup, NEW kind \in Phase1,
           NEW m \in CombMsg, m.type = kind, CertOK(Put(w, x).signed, m)
    PROVE  Goes(w, x, StoreFuture(x, kind, m))
<1> DEFINE V == x.h.qcs \cup {m}
           y == [x EXCEPT !.h.qcs = V]
<1>1. x \in ContextType /\ w \in World /\ x.id \in Replica
  BY ContextParts DEF Good
<1>2. Goes(w, x, y)
  <2>1. V \in SUBSET CombMsg
    BY LogParts
  <2>2. \A e \in V : e \in x.h.qcs \/ CertOK(Put(w, x).signed, e)
    OBVIOUS
  <2> HIDE DEF V
  <2>3. /\ y \in ContextType /\ y.id = x.id /\ y.tc = x.tc /\ y.signed = x.signed
        /\ y.out = x.out /\ y.h = [x.h EXCEPT !.qcs = V]
    BY <1>1, <2>1 DEF ContextType, HostState
  <2> HIDE DEF y
  <2>4. /\ y.h.view = x.h.view /\ y.h.started = x.h.started /\ y.h.blocks = x.h.blocks
        /\ y.h.nvs = x.h.nvs /\ y.h.processedNewViews = x.h.processedNewViews
        /\ y.h.ldrs = x.h.ldrs /\ y.h.catchup = x.h.catchup /\ y.h.votes = x.h.votes
        /\ y.h.qcs = V /\ y.h.executed = x.h.executed /\ y.h.skipped = x.h.skipped
    BY <1>1, <2>3 DEF ContextType, HostState
  <2>5. ExecutedOK(Put(w, x).signed, y.h)
    BY <2>4, ExecutedKept
  <2>6. /\ \A e \in y.h.qcs : e \in x.h.qcs \/ CertOK(Put(w, x).signed, e)
        /\ \A o \in y.h.votes : o \in x.h.votes
        /\ \A l \in Replica : y.out[l] = x.out[l]
    BY <2>2, <2>3, <2>4
  <2>7. y \in ContextType /\ y.id = x.id /\ y.tc = x.tc /\ y.signed = x.signed
    BY <2>3
  <2>8. Good(w, y)
    BY <2>4, <2>5, <2>6, <2>7, QuietContext
  <2> QED BY <2>4, <2>7, <2>8 DEF Goes
<1>3. \/ StoreFuture(x, kind, m) \in {x, y}
      \/ /\ StoreFuture(x, kind, m) = StoreMsgVote(x, kind, m)
         /\ verifyCombVote(m.data, m.signers, kind)
  BY <1>1 DEF StoreFuture, ContextType, HostState
<1> HIDE DEF y
<1>4. Goes(w, x, x)
  BY DEF Goes
<1>5. verifyCombVote(m.data, m.signers, kind) => Goes(w, x, StoreMsgVote(x, kind, m))
  BY StoreMsgVoteStep
<1> QED BY <1>2, <1>3, <1>4, <1>5

\* The leader goes to its next phase and then decides or advances.
LEMMA NextPhase ==
    ASSUME ~Damysus, NEW w, NEW x, Good(w, x), ~x.h.catchup, NEW q \in Phase1,
           NEW data \in RData, data.propv = x.h.view, NEW qcType
    PROVE  LET y == [x EXCEPT !.h.phase = q]
           IN  /\ Ends(w, x, decideComb(y, data, qcType))
               /\ Ends(w, x, preCommitComb(y, data, qcType))
               /\ Ends(w, x, commitComb(y, data, qcType))
<1> DEFINE y == [x EXCEPT !.h.phase = q]
<1>1. Goes(w, x, y)
  BY PhaseStep
<1> HIDE DEF y
<1>2. Good(w, y) /\ ~y.h.catchup /\ data.propv = y.h.view
  BY <1>1 DEF Goes
<1>3. Ends(w, y, decideComb(y, data, qcType))
  BY <1>2, DecideStep
<1>4. Goes(w, y, preCommitComb(y, data, qcType))
  BY <1>2, AdvanceStep DEF preCommitComb, Phase1
<1>5. Goes(w, y, commitComb(y, data, qcType))
  BY <1>2, AdvanceStep DEF commitComb, Phase1
<1>6. \A z : Ends(w, y, z) => Ends(w, x, z)
  BY <1>1 DEF Ends, Goes
<1>7. Ends(w, y, preCommitComb(y, data, qcType)) /\ Ends(w, y, commitComb(y, data, qcType))
  BY <1>4, <1>5 DEF Ends
<1>8. /\ Ends(w, x, decideComb(y, data, qcType))
      /\ Ends(w, x, preCommitComb(y, data, qcType))
      /\ Ends(w, x, commitComb(y, data, qcType))
  BY <1>3, <1>6, <1>7
<1> QED BY <1>8 DEF y

\* The leader's handling of one vote in each of the three phases.
LEMMA VoteStep ==
    ASSUME ~Damysus, NEW w, NEW x, Good(w, x), ~x.h.catchup, NEW m \in CombMsg,
           CertOK(Put(w, x).signed, m), m.data.propv = x.h.view,
           verifyCombVote(m.data, m.signers, m.type)
    PROVE  /\ m.type = PH1_PREPARE => Ends(w, x, PrepareVote(x, m))
           /\ m.type = PH1_PRECOMMIT => Ends(w, x, PreCommitVote(x, m))
           /\ m.type = PH1_COMMIT => Ends(w, x, CommitVote(x, m))
<1> DEFINE y == StoreMsgVote(x, m.type, m)
<1>1. m.type \in Phase1 /\ m.data \in RData
  BY DEF CombMsg
<1>2. Goes(w, x, y)
  BY <1>1, StoreMsgVoteStep
<1>3. Good(w, y) /\ ~y.h.catchup /\ m.data.propv = y.h.view
  BY <1>2 DEF Goes
<1>4. \A z : Ends(w, y, z) => Ends(w, x, z)
  BY <1>2 DEF Ends, Goes
<1>5. Ends(w, x, y)
  BY <1>2 DEF Ends
<1>6. \A q \in Phase1 : \A qcType :
        /\ Ends(w, x, decideComb([y EXCEPT !.h.phase = q], m.data, qcType))
        /\ Ends(w, x, preCommitComb([y EXCEPT !.h.phase = q], m.data, qcType))
        /\ Ends(w, x, commitComb([y EXCEPT !.h.phase = q], m.data, qcType))
  <2> SUFFICES ASSUME NEW q \in Phase1, NEW qcType
               PROVE  /\ Ends(w, x, decideComb([y EXCEPT !.h.phase = q], m.data, qcType))
                      /\ Ends(w, x, preCommitComb([y EXCEPT !.h.phase = q], m.data, qcType))
                      /\ Ends(w, x, commitComb([y EXCEPT !.h.phase = q], m.data, qcType))
    OBVIOUS
  <2> HIDE DEF y
  <2>1. /\ Ends(w, y, decideComb([y EXCEPT !.h.phase = q], m.data, qcType))
        /\ Ends(w, y, preCommitComb([y EXCEPT !.h.phase = q], m.data, qcType))
        /\ Ends(w, y, commitComb([y EXCEPT !.h.phase = q], m.data, qcType))
    BY <1>1, <1>3, NextPhase
  <2> QED BY <1>4, <2>1
<1>7. /\ PH1_NEWVIEW \in Phase1 /\ PH1_PRECOMMIT \in Phase1 /\ PH1_COMMIT \in Phase1
  BY DEF Phase1
<1>8. m.type = PH1_PREPARE =>
        \E qcType : PrepareVote(x, m) \in
            {y, decideComb([y EXCEPT !.h.phase = PH1_NEWVIEW], m.data, qcType),
             preCommitComb([y EXCEPT !.h.phase = PH1_PRECOMMIT], m.data, qcType)}
  BY DEF PrepareVote
<1>9. m.type = PH1_PRECOMMIT =>
        \E qcType : PreCommitVote(x, m) \in
            {y, commitComb([y EXCEPT !.h.phase = PH1_COMMIT], m.data, qcType)}
  BY DEF PreCommitVote
<1>10. m.type = PH1_COMMIT =>
        \E qcType : CommitVote(x, m) \in
            {y, decideComb([y EXCEPT !.h.phase = PH1_NEWVIEW], m.data, qcType)}
  BY DEF CommitVote
<1> HIDE DEF y
<1> QED BY <1>5, <1>6, <1>7, <1>8, <1>9, <1>10

\* handlePrepareComb, handlePreCommitComb and handleCommitComb.
LEMMA CombHandled ==
    ASSUME ~Damysus, NEW w, NEW x, Good(w, x), ~x.h.catchup, NEW m \in CombMsg,
           CertOK(Put(w, x).signed, m)
    PROVE  /\ m.type = PH1_PREPARE => Ends(w, x, handlePrepareComb(x, m))
           /\ m.type = PH1_PRECOMMIT => Ends(w, x, handlePreCommitComb(x, m))
           /\ m.type = PH1_COMMIT => Ends(w, x, handleCommitComb(x, m))
<1>1. m.type \in Phase1
  BY DEF CombMsg
<1>2. Ends(w, x, x) /\ Ends(w, x, StoreFuture(x, m.type, m))
  BY <1>1, StoreFutureStep DEF Ends, Goes
<1>3. m.data.propv \in View /\ x.h.view \in View
  BY LogParts DEF CombMsg, RData
<1>4. ASSUME m.data.propv = x.h.view
      PROVE  /\ m.type = PH1_PREPARE => Ends(w, x, respondToPrepareComb(x, m))
             /\ m.type = PH1_PRECOMMIT => Ends(w, x, respondToPreCommitComb(x, m))
             /\ m.type = PH1_COMMIT => Ends(w, x, respondToCommitComb(x, m))
  BY <1>4, PrepareCertStep, PreCommitCertStep, CommitCertStep
<1>5. ASSUME m.data.propv = x.h.view, verifyCombVote(m.data, m.signers, m.type)
      PROVE  /\ m.type = PH1_PREPARE => Ends(w, x, PrepareVote(x, m))
             /\ m.type = PH1_PRECOMMIT => Ends(w, x, PreCommitVote(x, m))
             /\ m.type = PH1_COMMIT => Ends(w, x, CommitVote(x, m))
  BY <1>5, VoteStep
<1>6. ~(m.data.propv > x.h.view) /\ ~(m.data.propv < x.h.view) => m.data.propv = x.h.view
  BY <1>3 DEF View
<1>7. m.type = PH1_PREPARE => Ends(w, x, handlePrepareComb(x, m))
  BY <1>2, <1>4, <1>5, <1>6 DEF handlePrepareComb
<1>8. m.type = PH1_PRECOMMIT => Ends(w, x, handlePreCommitComb(x, m))
  BY <1>2, <1>4, <1>5, <1>6 DEF handlePreCommitComb
<1>9. m.type = PH1_COMMIT => Ends(w, x, handleCommitComb(x, m))
  BY <1>2, <1>4, <1>5, <1>6 DEF handleCommitComb
<1> QED BY <1>7, <1>8, <1>9

-----------------------------------------------------------------------------
(* Catching up *)

\* A cached certificate is taken out of the log.
LEMMA TakeQCStep ==
    ASSUME NEW w, NEW x, Good(w, x), ~x.h.catchup, NEW V, V \subseteq x.h.qcs
    PROVE  Goes(w, x, [x EXCEPT !.h.qcs = V])
<1> DEFINE y == [x EXCEPT !.h.qcs = V]
<1>1. x \in ContextType /\ x.h.qcs \subseteq CombMsg
  BY LogParts DEF Good
<1>2. V \in SUBSET CombMsg
  BY <1>1
<1>3. /\ y \in ContextType /\ y.id = x.id /\ y.tc = x.tc /\ y.signed = x.signed
      /\ y.out = x.out /\ y.h = [x.h EXCEPT !.qcs = V]
  BY <1>1, <1>2 DEF ContextType, HostState
<1> HIDE DEF y
<1>4. /\ y.h.view = x.h.view /\ y.h.started = x.h.started /\ y.h.blocks = x.h.blocks
      /\ y.h.nvs = x.h.nvs /\ y.h.processedNewViews = x.h.processedNewViews
      /\ y.h.ldrs = x.h.ldrs /\ y.h.catchup = x.h.catchup /\ y.h.votes = x.h.votes
      /\ y.h.qcs = V /\ y.h.executed = x.h.executed /\ y.h.skipped = x.h.skipped
  <2>1. x.h \in HostState
    BY <1>1 DEF ContextType
  <2> QED BY <1>3, <2>1 DEF HostState
<1>5. ExecutedOK(Put(w, x).signed, y.h)
  BY <1>4, ExecutedKept
<1>6. Good(w, y)
  <2>1. /\ y \in ContextType /\ y.id = x.id /\ y.tc = x.tc /\ y.signed = x.signed
        /\ y.out = x.out
    BY <1>3
  <2>2. y.h.qcs \subseteq x.h.qcs
    BY <1>4
  <2>3. /\ y.h.view = x.h.view /\ y.h.started = x.h.started /\ y.h.blocks = x.h.blocks
        /\ y.h.nvs = x.h.nvs /\ y.h.processedNewViews = x.h.processedNewViews
        /\ y.h.ldrs = x.h.ldrs /\ y.h.catchup = x.h.catchup /\ y.h.votes = x.h.votes
    BY <1>4
  <2> QED BY <1>5, <2>1, <2>2, <2>3, HostContext
<1> QED BY <1>3, <1>4, <1>6 DEF Goes, y

\* The certificate that Replay takes, and the context it is replayed in.
ReplayedQC(x, kind) == CHOOSE m \in FutureQCs(x, kind) : TRUE
ReplayedIn(x, kind) == [x EXCEPT !.h.qcs = x.h.qcs \ FutureQCs(x, kind)]

\* A certificate that Replay takes is as good as one just received.
LEMMA ReplayReady ==
    ASSUME NEW w, NEW x, Good(w, x), ~x.h.catchup, NEW kind, FutureQCs(x, kind) # {}
    PROVE  LET m == ReplayedQC(x, kind)
               y == ReplayedIn(x, kind)
           IN  /\ Goes(w, x, y)
               /\ m \in CombMsg /\ m.type = kind /\ m.data.propv = y.h.view
               /\ CertOK(Put(w, y).signed, m)
<1> DEFINE m == ReplayedQC(x, kind)
           y == ReplayedIn(x, kind)
<1>1. m \in FutureQCs(x, kind)
  BY DEF ReplayedQC
<1>2. m \in x.h.qcs /\ m.type = kind /\ m.data.propv = x.h.view
  BY <1>1 DEF FutureQCs
<1>3. Goes(w, x, y)
  BY TakeQCStep DEF ReplayedIn
<1> HIDE DEF m, y
<1>4. m \in CombMsg /\ CombOK(Put(w, x).signed, m.data, m.signers, m.type)
  BY <1>2, LogParts DEF LogOK
<1>5. m.signers \in SUBSET Replica
  BY <1>4 DEF CombMsg
<1>6. CertOK(Put(w, y).signed, m)
  BY <1>3, <1>4, <1>5, GoodGrows DEF CertOK
<1>7. m.data.propv = y.h.view
  BY <1>2, <1>3 DEF Goes
<1> QED BY <1>2, <1>3, <1>4, <1>6, <1>7 DEF m, y

\* The three certificates of one view, replayed.
LEMMA ReplayStep ==
    ASSUME ~Damysus, NEW w, NEW x, Good(w, x), NEW y, Ends(w, x, y), y.h.view = x.h.view
    PROVE  /\ FutureQCs(y, PH1_PREPARE) # {} => Ends(w, x,
                respondToPrepareComb(ReplayedIn(y, PH1_PREPARE), ReplayedQC(y, PH1_PREPARE)))
           /\ FutureQCs(y, PH1_PRECOMMIT) # {} => Ends(w, x,
                respondToPreCommitComb(ReplayedIn(y, PH1_PRECOMMIT), ReplayedQC(y, PH1_PRECOMMIT)))
           /\ FutureQCs(y, PH1_COMMIT) # {} => Ends(w, x,
                respondToCommitComb(ReplayedIn(y, PH1_COMMIT), ReplayedQC(y, PH1_COMMIT)))
<1>1. x.h.view \in Nat
  BY LogParts DEF View
<1>2. Goes(w, x, y)
  BY <1>1 DEF Ends
<1>3. Good(w, y) /\ ~y.h.catchup
  BY <1>2 DEF Goes
<1>4. ASSUME NEW kind, FutureQCs(y, kind) # {}
      PROVE  LET z == ReplayedIn(y, kind)
                 m == ReplayedQC(y, kind)
             IN  /\ Goes(w, x, z) /\ Good(w, z) /\ ~z.h.catchup
                 /\ m \in CombMsg /\ m.type = kind /\ m.data.propv = z.h.view
                 /\ CertOK(Put(w, z).signed, m)
                 /\ \A u : Ends(w, z, u) => Ends(w, x, u)
  <2> DEFINE z == ReplayedIn(y, kind)
             m == ReplayedQC(y, kind)
  <2>1. /\ Goes(w, y, z) /\ m \in CombMsg /\ m.type = kind /\ m.data.propv = z.h.view
        /\ CertOK(Put(w, z).signed, m)
    BY <1>3, <1>4, ReplayReady
  <2> HIDE DEF z, m
  <2>2. Goes(w, x, z)
    BY <1>2, <2>1 DEF Goes
  <2>3. \A u : Ends(w, z, u) => Ends(w, x, u)
    BY <2>2 DEF Ends, Goes
  <2> QED BY <2>1, <2>2, <2>3 DEF Goes, z, m
<1>5. ASSUME FutureQCs(y, PH1_PREPARE) # {}
      PROVE  Ends(w, x, respondToPrepareComb(ReplayedIn(y, PH1_PREPARE),
                                             ReplayedQC(y, PH1_PREPARE)))
  <2> DEFINE z == ReplayedIn(y, PH1_PREPARE)
             m == ReplayedQC(y, PH1_PREPARE)
  <2>1. /\ Good(w, z) /\ ~z.h.catchup /\ m \in CombMsg /\ m.type = PH1_PREPARE
        /\ m.data.propv = z.h.view /\ CertOK(Put(w, z).signed, m)
        /\ \A u : Ends(w, z, u) => Ends(w, x, u)
    BY <1>4, <1>5
  <2> HIDE DEF z, m
  <2>2. Ends(w, z, respondToPrepareComb(z, m))
    BY <2>1, PrepareCertStep
  <2>3. Ends(w, x, respondToPrepareComb(z, m))
    BY <2>1, <2>2
  <2> QED BY <2>3 DEF z, m
<1>6. ASSUME FutureQCs(y, PH1_PRECOMMIT) # {}
      PROVE  Ends(w, x, respondToPreCommitComb(ReplayedIn(y, PH1_PRECOMMIT),
                                               ReplayedQC(y, PH1_PRECOMMIT)))
  <2> DEFINE z == ReplayedIn(y, PH1_PRECOMMIT)
             m == ReplayedQC(y, PH1_PRECOMMIT)
  <2>1. /\ Good(w, z) /\ ~z.h.catchup /\ m \in CombMsg /\ m.type = PH1_PRECOMMIT
        /\ m.data.propv = z.h.view /\ CertOK(Put(w, z).signed, m)
        /\ \A u : Ends(w, z, u) => Ends(w, x, u)
    BY <1>4, <1>6
  <2> HIDE DEF z, m
  <2>2. Ends(w, z, respondToPreCommitComb(z, m))
    BY <2>1, PreCommitCertStep
  <2>3. Ends(w, x, respondToPreCommitComb(z, m))
    BY <2>1, <2>2
  <2> QED BY <2>3 DEF z, m
<1>7. ASSUME FutureQCs(y, PH1_COMMIT) # {}
      PROVE  Ends(w, x, respondToCommitComb(ReplayedIn(y, PH1_COMMIT),
                                            ReplayedQC(y, PH1_COMMIT)))
  <2> DEFINE z == ReplayedIn(y, PH1_COMMIT)
             m == ReplayedQC(y, PH1_COMMIT)
  <2>1. /\ Good(w, z) /\ ~z.h.catchup /\ m \in CombMsg /\ m.type = PH1_COMMIT
        /\ m.data.propv = z.h.view /\ CertOK(Put(w, z).signed, m)
        /\ \A u : Ends(w, z, u) => Ends(w, x, u)
    BY <1>4, <1>7
  <2> HIDE DEF z, m
  <2>2. Ends(w, z, respondToCommitComb(z, m))
    BY <2>1, CommitCertStep
  <2>3. Ends(w, x, respondToCommitComb(z, m))
    BY <2>1, <2>2
  <2> QED BY <2>3 DEF z, m
<1> QED BY <1>5, <1>6, <1>7

\* handleEarlierMessagesComb, the branch of a backup.
LEMMA EarlierHandled ==
    ASSUME ~Damysus, NEW w, NEW x, Good(w, x), x.h.catchup
    PROVE  Good(w, handleEarlierMessagesComb(x)) /\ handleEarlierMessagesComb(x).id = x.id
<1> DEFINE v == x.h.view
           m == firstLdrPrepareComb(x, v)
           u == [x EXCEPT !.h.catchup = FALSE]
           y == respondToLdrPrepareComb(u, m)
           a0 == [ok |-> v \in DOMAIN y.h.blocks, x |-> y]
           a == Replay(a0, v, PH1_PREPARE, respondToPrepareComb)
           b == Replay(a, v, PH1_PRECOMMIT, respondToPreCommitComb)
           c == Replay(b, v, PH1_COMMIT, respondToCommitComb)
<1>1. x \in ContextType /\ w \in World /\ x.id \in Replica /\ x.h \in HostState
  BY ContextParts DEF Good
<1>2. handleEarlierMessagesComb(x) = c.x
  BY DEF handleEarlierMessagesComb
<1>3. /\ Good(w, u) /\ u.id = x.id /\ u.signed = x.signed /\ u.out = x.out
      /\ u.tc = x.tc /\ u.h = [x.h EXCEPT !.catchup = FALSE]
  BY CatchupContext
<1> HIDE DEF u
<1>4. ~u.h.catchup /\ u.h.view = v /\ u.h.blocks = x.h.blocks /\ u.h.ldrs = x.h.ldrs
  BY <1>1, <1>3 DEF HostState
<1>5. Fresh(Put(w, x).net, Put(w, x).host, x.id) /\ Put(w, x).host[x.id] = x.h
  BY <1>1, PutParts DEF Good, Inv
<1>6. /\ v \notin DOMAIN x.h.blocks
      /\ \E o \in x.h.ldrs : o.acc.view = v
      /\ \A o \in Incoming(Put(w, x).net, x.id) : o.type = "ldrprepare" =>
            \A e \in x.h.ldrs : e.acc.view # o.acc.view
  BY <1>5 DEF Fresh
<1>7. m \in x.h.ldrs /\ m.acc.view = v
  <2> DEFINE M == LdrPrepares(x, v)
  <2>1. M # {} /\ \A e \in M : e.signer \in Replica
    BY <1>6, LogParts DEF LdrPrepares, LdrPrepareMsg
  <2>2. \E e \in M : \A o \in M : e.signer <= o.signer
    BY <2>1, FirstIsOne
  <2>3. m \in M
    BY <2>2 DEF firstLdrPrepareComb
  <2> QED BY <2>3 DEF LdrPrepares
<1>8. m \in LdrPrepareMsg /\ LdrOK(Put(w, x).signed, m)
  BY <1>7, LogParts DEF LogOK
<1> HIDE DEF m
<1>9. Put(w, u).net = Put(w, x).net /\ Put(w, u).signed = Put(w, x).signed
  BY <1>3 DEF Put
<1>10. Goes(w, u, y)
  <2>1. /\ LdrOK(Put(w, u).signed, m) /\ m.acc.view = u.h.view
        /\ u.h.view \notin DOMAIN u.h.blocks
        /\ \A o \in Incoming(Put(w, u).net, u.id) :
                o.type = "ldrprepare" => o.acc.view # u.h.view
    BY <1>3, <1>4, <1>6, <1>7, <1>8, <1>9
  <2>2. Good(w, u) /\ ~u.h.catchup
    BY <1>3, <1>4
  <2> QED BY <1>8, <2>1, <2>2, BackupStep
<1> HIDE DEF y
<1>11. Good(w, u) /\ Ends(w, u, y) /\ u.h.view = v
  BY <1>3, <1>4, <1>10 DEF Ends
<1>12. a0.x = y
  OBVIOUS
<1>13. Ends(w, u, a.x)
  <2>1. \/ a.x = y
        \/ /\ y.h.view = v /\ FutureQCs(y, PH1_PREPARE) # {}
           /\ a.x = respondToPrepareComb(ReplayedIn(y, PH1_PREPARE), ReplayedQC(y, PH1_PREPARE))
    BY <1>12 DEF Replay, ReplayedIn, ReplayedQC
  <2> HIDE DEF a
  <2> QED BY <1>11, <2>1, ReplayStep
<1> HIDE DEF a, a0
<1>14. Ends(w, u, b.x)
  <2>1. \/ b.x = a.x
        \/ /\ a.x.h.view = v /\ FutureQCs(a.x, PH1_PRECOMMIT) # {}
           /\ b.x = respondToPreCommitComb(ReplayedIn(a.x, PH1_PRECOMMIT),
                                           ReplayedQC(a.x, PH1_PRECOMMIT))
    BY DEF Replay, ReplayedIn, ReplayedQC
  <2> HIDE DEF b
  <2> QED BY <1>11, <1>13, <2>1, ReplayStep
<1> HIDE DEF b
<1>15. Ends(w, u, c.x)
  <2>1. \/ c.x = b.x
        \/ /\ b.x.h.view = v /\ FutureQCs(b.x, PH1_COMMIT) # {}
           /\ c.x = respondToCommitComb(ReplayedIn(b.x, PH1_COMMIT),
                                        ReplayedQC(b.x, PH1_COMMIT))
    BY DEF Replay, ReplayedIn, ReplayedQC
  <2> HIDE DEF c
  <2> QED BY <1>11, <1>14, <2>1, ReplayStep
<1> HIDE DEF c
<1> QED BY <1>2, <1>3, <1>15 DEF Ends, Goes

-----------------------------------------------------------------------------
(* The induction *)

\* The state between two handlers.
InductiveInvariant == Typed /\ SafetyInvariant /\ timeouts \in 0 .. MaxTimeouts

\* The host of a replica that has done nothing.
LEMMA HostInitType ==
    ASSUME ~Damysus
    PROVE  HostInit \in HostState /\ HostInit.view = 1 /\ DOMAIN HostInit.blocks = {}
<1>1. <<>> \in BlockMap /\ <<>> \in Seq(Hash) /\ DOMAIN <<>> = {}
  <2>1. <<>> \in [{} -> Hash] /\ {} \in SUBSET View
    OBVIOUS
  <2> QED BY <2>1 DEF BlockMap
<1>2. {} \in SkipSet
  <2>1. 0 \in Replica
    BY ReplicaNat DEF Replica
  <2> QED BY <2>1 DEF SkipSet
<1> QED BY <1>1, <1>2 DEF HostInit, HostState, FirstView, View, Phase1

\* The invariant holds initially.
LEMMA InitHolds ==
    ASSUME ~Damysus, Init
    PROVE  InductiveInvariant
<1> DEFINE w == TheWorld
<1>1. COMB_init \in TrustedState
  BY DEF COMB_init, TrustedState, View, Hash, newHash, Phase1
<1>2. HostInit \in HostState /\ HostInit.view = 1 /\ DOMAIN HostInit.blocks = {}
  BY HostInitType
<1>3. /\ tc = [p \in Replica |-> COMB_init] /\ signed = [p \in Replica |-> {}]
      /\ net = [s \in Replica |-> [l \in Replica |-> <<>>]]
      /\ host = [p \in Replica |-> HostInit]
  BY DEF Init, TrustedInit
<1>4. w \in World
  BY <1>1, <1>2, <1>3 DEF World, TheWorld
<1>5. \A p \in Replica : /\ w.tc[p] = COMB_init /\ w.signed[p] = {} /\ w.host[p] = HostInit
                         /\ \A q \in Replica : w.net[p][q] = <<>>
  BY <1>3 DEF TheWorld
<1> HIDE DEF w
<1>6. \A l \in Replica : Incoming(w.net, l) = {}
  BY <1>5 DEF Incoming
<1>7. HostInit.nvs = {} /\ HostInit.ldrs = {} /\ HostInit.votes = {} /\ HostInit.qcs = {}
      /\ HostInit.executed = <<>> /\ ~HostInit.started /\ ~HostInit.catchup
  BY DEF HostInit
<1>8. ASSUME NEW p \in Replica
      PROVE  /\ ComponentOK(w.tc[p], w.signed[p])
             /\ LockOK(w.signed, w.tc[p])
             /\ StepOK(w.tc[p], w.signed[p], w.host[p])
             /\ BlocksOK(w.signed[p], w.host[p])
             /\ LogOK(w.signed, w.host[p])
             /\ ExecutedOK(w.signed, w.host[p])
             /\ Fresh(w.net, w.host, p)
  <2>1. ComponentOK(w.tc[p], w.signed[p])
    BY <1>5 DEF ComponentOK, COMB_init, Backed
  <2>2. StepOK(w.tc[p], w.signed[p], w.host[p])
    BY <1>2, <1>5, <1>7 DEF StepOK, COMB_init, InTurn, PhaseIndex, Late, HasBlock
  <2>3. BlocksOK(w.signed[p], w.host[p])
    BY <1>2, <1>5 DEF BlocksOK
  <2>4. LogOK(w.signed, w.host[p])
    BY <1>5, <1>7 DEF LogOK
  <2>5. ExecutedOK(w.signed, w.host[p])
    BY <1>5, <1>7 DEF ExecutedOK
  <2>6. Fresh(w.net, w.host, p)
    <3>1. \A s \in Replica : DOMAIN w.net[s][p] = {}
      BY <1>5
    <3>2. SentOnce(w.net, p)
      BY <3>1 DEF SentOnce
    <3>3. ~w.host[p].catchup
      BY <1>5, <1>7
    <3> QED BY <1>6, <3>2, <3>3 DEF Fresh
  <2>7. LockOK(w.signed, w.tc[p])
    BY <1>5 DEF LockOK, COMB_init
  <2> QED BY <2>1, <2>2, <2>3, <2>4, <2>5, <2>6, <2>7
<1>9. NamesOK(w.signed, w.host) /\ OneBlock(w.signed)
  BY <1>5 DEF NamesOK, OneBlock
<1>10. ChannelsOK(w.signed, w.net) /\ Routed(w.net, w.host)
  BY <1>5, <1>6, <1>7 DEF ChannelsOK, Routed, Reports
<1>11. Inv(w)
  BY <1>8, <1>9, <1>10 DEF Inv
<1>12. timeouts \in 0 .. MaxTimeouts
  BY BoundsAssumption DEF Init
<1> QED BY <1>4, <1>11, <1>12 DEF InductiveInvariant, Typed, SafetyInvariant, w

\* A handler of r starts from its part of the state.
LEMMA ContextGood ==
    ASSUME NEW r \in Replica, NEW w \in World, Inv(w),
           w.tc[r] = tc[r], w.signed[r] = signed[r], w.net[r] = net[r], w.host[r] = host[r]
    PROVE  /\ Good(w, Context(r)) /\ Put(w, Context(r)) = w
           /\ Context(r).id = r /\ Context(r).h = host[r]
<1> DEFINE x == Context(r)
<1>1. x.id = r /\ x.tc = w.tc[r] /\ x.signed = w.signed[r] /\ x.out = w.net[r] /\ x.h = w.host[r]
  BY DEF Context
<1>2. x \in ContextType
  BY DEF Context, ContextType, World
<1> HIDE DEF x
<1>3. Put(w, x) = w
  BY <1>1 DEF Put, World
<1> QED BY <1>1, <1>2, <1>3 DEF Good, x

\* The outcome of a handler becomes the state.
LEMMA OutcomeHolds ==
    ASSUME NEW r \in Replica, NEW w \in World, NEW y, Good(w, y), y.id = r,
           TheWorld' = Put(w, y), timeouts' \in 0 .. MaxTimeouts
    PROVE  InductiveInvariant'
<1>1. Put(w, y) \in World /\ Inv(Put(w, y))
  BY PutParts DEF Good
<1> QED BY <1>1 DEF InductiveInvariant, Typed, SafetyInvariant

\* The same for the actions that take no message.
LEMMA LocalOutcome ==
    ASSUME Typed, NEW r \in Replica, NEW y, Good(TheWorld, y), y.id = r,
           Become(r, y), net' = [net EXCEPT ![r] = y.out], timeouts' \in 0 .. MaxTimeouts
    PROVE  InductiveInvariant'
<1>1. TheWorld' = Put(TheWorld, y)
  BY DEF TheWorld, Put, Become
<1> QED BY <1>1, OutcomeHolds DEF Typed

\* The same for a handler of the next message from s.
LEMMA ReceiveOutcome ==
    ASSUME Typed, NEW r \in Replica, NEW s \in Replica \ {r}, NEW y,
           Take(TheWorld, r, s) \in World, Good(Take(TheWorld, r, s), y), y.id = r,
           Become(r, y), net' = [net EXCEPT ![r] = y.out, ![s][r] = Tail(@)],
           timeouts' \in 0 .. MaxTimeouts
    PROVE  InductiveInvariant'
<1> DEFINE w == Take(TheWorld, r, s)
<1>1. net \in [Replica -> [Replica -> Seq(Message)]]
  BY DEF Typed, TheWorld, World
<1>2. /\ w.tc = tc /\ w.signed = signed /\ w.host = host
      /\ w.net = [net EXCEPT ![s][r] = Tail(net[s][r])]
  BY DEF Take, TheWorld
<1>3. net' = [w.net EXCEPT ![r] = y.out]
  <2> DEFINE f == [net EXCEPT ![r] = y.out, ![s][r] = Tail(@)]
             g == [[net EXCEPT ![s][r] = Tail(net[s][r])] EXCEPT ![r] = y.out]
  <2>1. DOMAIN f = Replica /\ DOMAIN g = Replica
    BY <1>1
  <2>2. \A p \in Replica : f[p] = g[p]
    BY <1>1
  <2>3. f = [p \in Replica |-> f[p]] /\ g = [p \in Replica |-> g[p]]
    BY <1>1
  <2>4. f = g
    BY <2>1, <2>2, <2>3
  <2> QED BY <1>2, <2>4
<1>4. TheWorld' = Put(w, y)
  BY <1>2, <1>3 DEF TheWorld, Put, Become
<1> HIDE DEF w
<1> QED BY <1>4, OutcomeHolds DEF w

\* The message that r takes from s, in the world without it.
LEMMA ReceiveReady ==
    ASSUME ~Damysus, InductiveInvariant, NEW r \in Replica, NEW s \in Replica \ {r},
           Running(r), net[s][r] # <<>>
    PROVE  LET w == Take(TheWorld, r, s)
               m == Head(net[s][r])
               x == Context(r)
           IN  /\ w \in World /\ Good(w, x) /\ x.id = r /\ ~x.h.catchup
               /\ m \in Message /\ MessageOK(Put(w, x).signed, m)
               /\ m.type = "ldrprepare" =>
                    /\ m.acc.view \notin DOMAIN x.h.blocks
                    /\ \A o \in Incoming(Put(w, x).net, x.id) :
                            o.type = "ldrprepare" => o.acc.view # m.acc.view
               /\ m.type = "newview" /\ IsReport(m.data) =>
                    InHand(Put(w, x), x.id, m.signer, m.data.propv)
<1> DEFINE v == TheWorld
           w == Take(v, r, s)
           m == Head(net[s][r])
           x == Context(r)
<1>1. v \in World /\ Inv(v) /\ v.net = net /\ v.tc = tc /\ v.signed = signed /\ v.host = host
  BY DEF InductiveInvariant, Typed, SafetyInvariant, TheWorld
<1>2. w.tc[r] = tc[r] /\ w.signed[r] = signed[r] /\ w.net[r] = net[r] /\ w.host[r] = host[r]
  BY <1>1 DEF Take, World
<1> HIDE DEF v
<1>3. v.net[s][r] # <<>> /\ m = Head(v.net[s][r])
  BY <1>1
<1>4. /\ w \in World /\ Inv(w) /\ w.signed = v.signed
      /\ m \in Message /\ MessageOK(w.signed, m)
      /\ m.type = "ldrprepare" =>
            /\ m.acc.view \notin DOMAIN w.host[r].blocks
            /\ \A o \in Incoming(w.net, r) : o.type = "ldrprepare" => o.acc.view # m.acc.view
      /\ m.type = "newview" /\ IsReport(m.data) =>
            \A l \in Replica : \A o \in Reports(w.net, w.host, l) :
                o.signer = m.signer /\ o.data.propv = m.data.propv => l = r
  <2> DEFINE n == Head(v.net[s][r])
  <2>1. /\ w \in World /\ Inv(w) /\ w.signed = v.signed
        /\ n \in Message /\ MessageOK(w.signed, n)
        /\ n.type = "ldrprepare" =>
              /\ n.acc.view \notin DOMAIN w.host[r].blocks
              /\ \A o \in Incoming(w.net, r) : o.type = "ldrprepare" => o.acc.view # n.acc.view
        /\ n.type = "newview" /\ IsReport(n.data) =>
              \A l \in Replica : \A o \in Reports(w.net, w.host, l) :
                  o.signer = n.signer /\ o.data.propv = n.data.propv => l = r
    <3>1. v \in World /\ Inv(v) /\ v.net[s][r] # <<>>
      BY <1>1, <1>3
    <3> HIDE DEF m, x
    <3> QED BY <3>1, TakeStep
  <2> HIDE DEF m, n, w
  <2>2. m = n
    BY <1>3 DEF n
  <2> QED BY <2>1, <2>2
<1> HIDE DEF w, m
<1>5. Good(w, x) /\ Put(w, x) = w /\ x.id = r /\ x.h = host[r]
  BY <1>2, <1>4, ContextGood
<1> HIDE DEF x
<1>6. ~x.h.catchup
  BY <1>5 DEF Running
<1>7. m.type = "ldrprepare" =>
        /\ m.acc.view \notin DOMAIN x.h.blocks
        /\ \A o \in Incoming(Put(w, x).net, x.id) :
                o.type = "ldrprepare" => o.acc.view # m.acc.view
  BY <1>2, <1>4, <1>5
<1>8. m.type = "newview" /\ IsReport(m.data) =>
        InHand(Put(w, x), x.id, m.signer, m.data.propv)
  BY <1>4, <1>5 DEF InHand
<1>9. MessageOK(Put(w, x).signed, m)
  BY <1>4, <1>5
<1> QED BY <1>4, <1>5, <1>6, <1>7, <1>8, <1>9 DEF v, w, m, x

\* Every message is handled so that the invariant holds again.
LEMMA ReceiveHolds ==
    ASSUME ~Damysus, InductiveInvariant, NEW r \in Replica, NEW s \in Replica \ {r},
           \/ ReceiveNewView(r, s) \/ ReceiveLdrPrepare(r, s) \/ ReceivePrepare(r, s)
           \/ ReceivePreCommit(r, s) \/ ReceiveCommit(r, s)
    PROVE  InductiveInvariant'
<1> DEFINE w == Take(TheWorld, r, s)
           m == Head(net[s][r])
           x == Context(r)
<1>1. Running(r) /\ net[s][r] # <<>> /\ timeouts' = timeouts
  BY DEF ReceiveNewView, ReceiveLdrPrepare, ReceivePrepare, ReceivePreCommit, ReceiveCommit,
         Receive
<1>2. /\ w \in World /\ Good(w, x) /\ x.id = r /\ ~x.h.catchup
      /\ m \in Message /\ MessageOK(Put(w, x).signed, m)
      /\ m.type = "ldrprepare" =>
            /\ m.acc.view \notin DOMAIN x.h.blocks
            /\ \A o \in Incoming(Put(w, x).net, x.id) :
                    o.type = "ldrprepare" => o.acc.view # m.acc.view
      /\ m.type = "newview" /\ IsReport(m.data) =>
            InHand(Put(w, x), x.id, m.signer, m.data.propv)
  BY <1>1, ReceiveReady
<1>3. Typed /\ timeouts' \in 0 .. MaxTimeouts
  BY <1>1 DEF InductiveInvariant
<1>4. ASSUME NEW y, Good(w, y), y.id = r, Become(r, y),
             net' = [net EXCEPT ![r] = y.out, ![s][r] = Tail(@)]
      PROVE  InductiveInvariant'
  BY <1>2, <1>3, <1>4, ReceiveOutcome
<1>5. \A y : Ends(w, x, y) => Good(w, y) /\ y.id = r
  BY <1>2 DEF Ends, Goes
<1>6. CASE ReceiveNewView(r, s)
  <2> DEFINE y == handleNewviewComb(x, m)
  <2>1. /\ m.type = "newview" /\ Become(r, y)
        /\ net' = [net EXCEPT ![r] = y.out, ![s][r] = Tail(@)]
    BY <1>6 DEF ReceiveNewView, Receive
  <2> HIDE DEF w, m, x
  <2>2. m \in NewViewMsg
    BY <1>2, <2>1, MessageKinds
  <2>3. m.data \in RData /\ m.signer \in Replica /\ NewViewOK(Put(w, x).signed, m)
    BY <1>2, <2>1, <2>2 DEF NewViewMsg, MessageOK
  <2>4. IsReport(m.data) => InHand(Put(w, x), x.id, m.signer, m.data.propv)
    BY <1>2, <2>1
  <2>5. Good(w, x) /\ ~x.h.catchup
    BY <1>2
  <2>6. Goes(w, x, y)
    BY <2>3, <2>4, <2>5, NewViewHandled
  <2> HIDE DEF y
  <2>7. Good(w, y) /\ y.id = r
    BY <1>5, <2>6 DEF Ends
  <2> QED BY <1>4, <2>1, <2>7
<1>7. CASE ReceiveLdrPrepare(r, s)
  <2> DEFINE y == handleLdrPrepareComb(x, m)
  <2>1. /\ m.type = "ldrprepare" /\ Become(r, y)
        /\ net' = [net EXCEPT ![r] = y.out, ![s][r] = Tail(@)]
    BY <1>7 DEF ReceiveLdrPrepare, Receive
  <2> HIDE DEF w, m, x
  <2>2. m \in LdrPrepareMsg
    BY <1>2, <2>1, MessageKinds
  <2>3. LdrOK(Put(w, x).signed, m)
    BY <1>2, <2>1 DEF MessageOK
  <2>4. /\ m.acc.view \notin DOMAIN x.h.blocks
        /\ \A o \in Incoming(Put(w, x).net, x.id) :
                o.type = "ldrprepare" => o.acc.view # m.acc.view
    BY <1>2, <2>1
  <2>5. Good(w, x) /\ ~x.h.catchup
    BY <1>2
  <2>6. Goes(w, x, y)
    BY <2>2, <2>3, <2>4, <2>5, LdrPrepareHandled
  <2> HIDE DEF y
  <2>7. Good(w, y) /\ y.id = r
    BY <1>5, <2>6 DEF Ends
  <2> QED BY <1>4, <2>1, <2>7
<1>8. ASSUME m.type \in {PH1_PREPARE, PH1_PRECOMMIT, PH1_COMMIT}
      PROVE  /\ m.type = PH1_PREPARE => Ends(w, x, handlePrepareComb(x, m))
             /\ m.type = PH1_PRECOMMIT => Ends(w, x, handlePreCommitComb(x, m))
             /\ m.type = PH1_COMMIT => Ends(w, x, handleCommitComb(x, m))
  <2> HIDE DEF w, m, x
  <2>1. m \in CombMsg
    BY <1>2, <1>8, MessageKinds
  <2>2. CertOK(Put(w, x).signed, m)
    BY <1>2, <1>8 DEF MessageOK, CertOK
  <2>3. Good(w, x) /\ ~x.h.catchup
    BY <1>2
  <2> QED BY <2>1, <2>2, <2>3, CombHandled
<1>9. CASE ReceivePrepare(r, s)
  <2> DEFINE y == handlePrepareComb(x, m)
  <2>1. /\ m.type = PH1_PREPARE /\ Become(r, y)
        /\ net' = [net EXCEPT ![r] = y.out, ![s][r] = Tail(@)]
    BY <1>9 DEF ReceivePrepare, Receive
  <2> HIDE DEF w, m, x
  <2>2. Ends(w, x, y)
    BY <1>8, <2>1
  <2> HIDE DEF y
  <2> QED BY <1>4, <1>5, <2>1, <2>2
<1>10. CASE ReceivePreCommit(r, s)
  <2> DEFINE y == handlePreCommitComb(x, m)
  <2>1. /\ m.type = PH1_PRECOMMIT /\ Become(r, y)
        /\ net' = [net EXCEPT ![r] = y.out, ![s][r] = Tail(@)]
    BY <1>10 DEF ReceivePreCommit, Receive
  <2> HIDE DEF w, m, x
  <2>2. Ends(w, x, y)
    BY <1>8, <2>1
  <2> HIDE DEF y
  <2> QED BY <1>4, <1>5, <2>1, <2>2
<1>11. CASE ReceiveCommit(r, s)
  <2> DEFINE y == handleCommitComb(x, m)
  <2>1. /\ m.type = PH1_COMMIT /\ Become(r, y)
        /\ net' = [net EXCEPT ![r] = y.out, ![s][r] = Tail(@)]
    BY <1>11 DEF ReceiveCommit, Receive
  <2> HIDE DEF w, m, x
  <2>2. Ends(w, x, y)
    BY <1>8, <2>1
  <2> HIDE DEF y
  <2> QED BY <1>4, <1>5, <2>1, <2>2
<1> QED BY <1>6, <1>7, <1>9, <1>10, <1>11

\* Every step keeps the invariant.
LEMMA NextHolds ==
    ASSUME ~Damysus, InductiveInvariant, [Next]_vars
    PROVE  InductiveInvariant'
<1>1. CASE UNCHANGED vars
  BY <1>1 DEF vars, InductiveInvariant, Typed, SafetyInvariant, TheWorld
<1>2. ASSUME NEW r \in Replica, Start(r) \/ Timeout(r) \/ CatchUp(r)
      PROVE  InductiveInvariant'
  <2> DEFINE x == Context(r)
             w == TheWorld
  <2>1. w \in World /\ Inv(w) /\ Typed
    BY DEF InductiveInvariant, Typed, SafetyInvariant
  <2>2. Good(w, x) /\ x.id = r /\ x.h = host[r]
    <3>1. w.tc[r] = tc[r] /\ w.signed[r] = signed[r] /\ w.net[r] = net[r] /\ w.host[r] = host[r]
      BY DEF TheWorld
    <3> HIDE DEF w
    <3> QED BY <2>1, <3>1, ContextGood
  <2>3. timeouts' \in 0 .. MaxTimeouts
    BY <1>2, BoundsAssumption DEF InductiveInvariant, Start, Timeout, CatchUp
  <2>4. CASE Start(r)
    <3> DEFINE y == getStarted(x)
    <3>1. Become(r, y) /\ net' = [net EXCEPT ![r] = y.out] /\ ~host[r].catchup /\ ~host[r].started
      BY <2>4 DEF Start, Running
    <3> HIDE DEF x, w
    <3>2. Good(w, y) /\ y.id = r
      BY <2>2, <3>1, StartedStep
    <3> HIDE DEF y
    <3> QED BY <2>1, <2>3, <3>1, <3>2, LocalOutcome DEF w
  <2>5. CASE Timeout(r)
    <3> DEFINE y == startNewViewOnTimeout(x)
    <3>1. Become(r, y) /\ net' = [net EXCEPT ![r] = y.out] /\ ~host[r].catchup /\ host[r].view > 1
      BY <2>5 DEF Timeout, Running, FirstView
    <3> HIDE DEF x, w
    <3>2. Good(w, y) /\ y.id = r
      BY <2>2, <3>1, TimeoutStep
    <3> HIDE DEF y
    <3> QED BY <2>1, <2>3, <3>1, <3>2, LocalOutcome DEF w
  <2>6. CASE CatchUp(r)
    <3> DEFINE y == handleEarlierMessagesComb(x)
    <3>1. Become(r, y) /\ net' = [net EXCEPT ![r] = y.out] /\ host[r].catchup
      BY <2>6 DEF CatchUp
    <3> HIDE DEF x, w
    <3>2. Good(w, y) /\ y.id = r
      BY <2>2, <3>1, EarlierHandled
    <3> HIDE DEF y
    <3> QED BY <2>1, <2>3, <3>1, <3>2, LocalOutcome DEF w
  <2> QED BY <1>2, <2>4, <2>5, <2>6
<1> QED BY <1>1, <1>2, ReceiveHolds DEF Next

\* What the variables hold.
LEMMA TypeFollows ==
    ASSUME ~Damysus, InductiveInvariant
    PROVE  TypeOK
<1> DEFINE w == TheWorld
<1>1. w \in World /\ w.tc = tc /\ w.signed = signed /\ w.net = net /\ w.host = host
  BY DEF InductiveInvariant, Typed, TheWorld
<1>2. /\ tc \in [Replica -> TrustedState]
      /\ \A r \in Replica : signed[r] \subseteq RData /\ host[r] \in HostState
      /\ \A r, s \in Replica : net[s][r] \in Seq(Message)
  BY <1>1 DEF World
<1>3. \A r, s \in Replica : \A i \in DOMAIN net[s][r] : net[s][r][i] \in Message
  BY <1>2
<1>4. ASSUME NEW r \in Replica
      PROVE  /\ host[r].view \in View /\ host[r].phase \in Phase1
             /\ host[r].skipped \subseteq Replica
             /\ host[r].processedNewViews \cup host[r].processedCommit \subseteq View
             /\ \A v \in DOMAIN host[r].blocks : v \in View /\ host[r].blocks[v] \in Hash
             /\ host[r].executed \in Seq(Hash)
             /\ \A m \in host[r].nvs : m \in NewView
             /\ \A m \in host[r].ldrs \cup host[r].qcs : m \in Message
             /\ \A o \in host[r].votes : o \in Vote
             /\ {host[r].started, host[r].stopped, host[r].catchup} \subseteq BOOLEAN
  <2>1. host[r] \in HostState
    BY <1>2
  <2>2. \A v \in DOMAIN host[r].blocks : v \in View /\ host[r].blocks[v] \in Hash
    <3>1. PICK D \in SUBSET View : host[r].blocks \in [D -> Hash]
      BY <2>1 DEF HostState, BlockMap
    <3> QED BY <3>1
  <2>3. \A m \in host[r].ldrs \cup host[r].qcs : m \in Message
    BY <2>1 DEF HostState, Message
  <2> QED BY <2>1, <2>2, <2>3 DEF HostState, SkipSet
<1>5. timeouts \in 0 .. MaxTimeouts
  BY DEF InductiveInvariant
<1> QED BY <1>2, <1>3, <1>4, <1>5 DEF TypeOK

-----------------------------------------------------------------------------
(* The theorems.  They are about the Raftel build; the leader mode, the     *)
(* number of faults, the number of TEEs and all bounds are arbitrary.       *)

(***************************************************************************)
(* The inductive invariant holds throughout: the state that the handlers   *)
(* of App/Handler.cpp, the logs and the trusted components keep between    *)
(* handlers, and what relates it to the messages in flight.                *)
(***************************************************************************)
THEOREM RaftelInvariance ==
    ASSUME ~Damysus
    PROVE  Spec => []SafetyInvariant
<1>1. Init => InductiveInvariant
  BY InitHolds
<1>2. InductiveInvariant /\ [Next]_vars => InductiveInvariant'
  BY NextHolds
<1>3. InductiveInvariant => SafetyInvariant
  BY DEF InductiveInvariant
<1> QED BY <1>1, <1>2, <1>3, PTL DEF Spec

\* Every variable always holds what its C++ counterpart can hold.
THEOREM RaftelType ==
    ASSUME ~Damysus
    PROVE  Spec => []TypeOK
<1>1. Init => InductiveInvariant
  BY InitHolds
<1>2. InductiveInvariant /\ [Next]_vars => InductiveInvariant'
  BY NextHolds
<1>3. InductiveInvariant => TypeOK
  BY TypeFollows
<1> QED BY <1>1, <1>2, <1>3, PTL DEF Spec

(***************************************************************************)
(* All prepare votes of one view are for one block (processQC,             *)
(* respondToLdrPrepareComb), whoever each replica takes for the leader.    *)
(***************************************************************************)
THEOREM RaftelOneProposal ==
    ASSUME ~Damysus
    PROVE  Spec => []OneProposalPerView
<1>1. Init => InductiveInvariant
  BY InitHolds
<1>2. InductiveInvariant /\ [Next]_vars => InductiveInvariant'
  BY NextHolds
<1>3. InductiveInvariant => OneProposalPerView
  BY OneProposalFollows DEF InductiveInvariant
<1> QED BY <1>1, <1>2, <1>3, PTL DEF Spec

(***************************************************************************)
(* Once a quorum of components signed what commits a block, every later    *)
(* proposal extends it, across view changes, blamed leaders and both kinds *)
(* of quorum.                                                              *)
(***************************************************************************)
THEOREM RaftelFinality ==
    ASSUME ~Damysus
    PROVE  Spec => []FinalIsExtended
<1>1. Init => InductiveInvariant
  BY InitHolds
<1>2. InductiveInvariant /\ [Next]_vars => InductiveInvariant'
  BY NextHolds
<1>3. InductiveInvariant => FinalIsExtended
  BY FinalFollows DEF InductiveInvariant
<1> QED BY <1>1, <1>2, <1>3, PTL DEF Spec

(***************************************************************************)
(* A component started by getStarted stays in step with its host, so       *)
(* startNewViewComb never reaches "Something wrong happened" there.        *)
(***************************************************************************)
THEOREM RaftelInStep ==
    ASSUME ~Damysus
    PROVE  Spec => []TrustedInStep
<1>1. Init => InductiveInvariant
  BY InitHolds
<1>2. InductiveInvariant /\ [Next]_vars => InductiveInvariant'
  BY NextHolds
<1>3. InductiveInvariant => TrustedInStep
  BY StepFollows DEF InductiveInvariant
<1> QED BY <1>1, <1>2, <1>3, PTL DEF Spec

(***************************************************************************)
(* A new-view reports at least the last block its component voted for      *)
(* under a TEE leader or stored a certificate of (COMB_TEEsign).           *)
(***************************************************************************)
THEOREM RaftelReports ==
    ASSUME ~Damysus
    PROVE  Spec => []NewViewReportsPrepared
<1>1. Init => InductiveInvariant
  BY InitHolds
<1>2. InductiveInvariant /\ [Next]_vars => InductiveInvariant'
  BY NextHolds
<1>3. InductiveInvariant => NewViewReportsPrepared
  BY ReportsFollow DEF InductiveInvariant
<1> QED BY <1>1, <1>2, <1>3, PTL DEF Spec

(***************************************************************************)
(* The lock that COMB_TEEstore takes on the classical path never keeps a   *)
(* component from voting for a proposal: whichever quorum of new-views the *)
(* leader accumulates, COMB_TEEprepare accepts the block on top of the     *)
(* highest.  It holds in every state in which all components that signed   *)
(* were started by getStarted and none is locked on its current view.      *)
(***************************************************************************)
THEOREM RaftelLock ==
    ASSUME ~Damysus
    PROVE  Spec => [](EveryoneInTurn /\ LocksBehind => LockNeverBlocks)
<1>1. Init => InductiveInvariant
  BY InitHolds
<1>2. InductiveInvariant /\ [Next]_vars => InductiveInvariant'
  BY NextHolds
<1>3. InductiveInvariant => (EveryoneInTurn /\ LocksBehind => LockNeverBlocks)
  BY LockFollows DEF InductiveInvariant
<1> QED BY <1>1, <1>2, <1>3, PTL DEF Spec

(***************************************************************************)
(* executeComb applies only committed blocks, where the type of the        *)
(* current leader tells the type of the proposer (Uniform).                *)
(***************************************************************************)
THEOREM RaftelExecution ==
    ASSUME ~Damysus, Uniform
    PROVE  Spec => []ExecutedIsFinal
<1>1. Init => InductiveInvariant
  BY InitHolds
<1>2. InductiveInvariant /\ [Next]_vars => InductiveInvariant'
  BY NextHolds
<1>3. InductiveInvariant => ExecutedIsFinal
  BY ExecutedFollows DEF InductiveInvariant
<1> QED BY <1>1, <1>2, <1>3, PTL DEF Spec

(***************************************************************************)
(* Any two blocks that any two replicas apply to their KV stores lie on    *)
(* one chain, where the type of the current leader tells the type of the   *)
(* proposer (Uniform).                                                     *)
(***************************************************************************)
THEOREM RaftelAgreement ==
    ASSUME ~Damysus, Uniform
    PROVE  Spec => []Agreement
<1>1. Init => InductiveInvariant
  BY InitHolds
<1>2. InductiveInvariant /\ [Next]_vars => InductiveInvariant'
  BY NextHolds
<1>3. InductiveInvariant => Agreement
  BY AgreementFollows DEF InductiveInvariant
<1> QED BY <1>1, <1>2, <1>3, PTL DEF Spec
=============================================================================
