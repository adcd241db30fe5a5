----------------------------- MODULE RaftelFacts -----------------------------
(***************************************************************************)
(* Facts the safety proof of Basic Raftel rests on: least and greatest     *)
(* numbers, the leader and the highest new-view as operators, quorums,     *)
(* chains of blocks, the core of the safety argument (KeptIsExtended), and *)
(* that the properties of module Raftel follow from the inductive          *)
(* invariant of RaftelInvariant.                                           *)
(*                                                                         *)
(* Then single steps between worlds, below the level of a handler: the     *)
(* component makes statements, a message is taken from a channel, logged   *)
(* or sent, the host moves. Each lemma says what such a step must respect  *)
(* for the invariant to survive it, and leaves out whether a handler       *)
(* respects it.                                                            *)
(***************************************************************************)
EXTENDS RaftelInvariant, QuorumProofs, WellFoundedInduction, SequenceTheorems

USE DEF PH1_NEWVIEW, PH1_PREPARE, PH1_PRECOMMIT, PH1_COMMIT

\* A nonempty set of naturals has a least element.
LEMMA LeastNat ==
    ASSUME NEW M, M \subseteq Nat, M # {}
    PROVE  \E n \in M : \A k \in M : n <= k
<1>1. PICK n \in M : \A k \in M : ~(<<k, n>> \in OpToRel(<, Nat))
  BY WFMin, NatLessThanWellFounded, Zenon
<1>2. \A k \in M : ~(k < n)
  BY <1>1 DEF OpToRel
<1> QED BY <1>2

\* What lies below a bound has a greatest element.
LEMMA GreatestNat ==
    ASSUME NEW M, M \subseteq Nat, M # {}, NEW b \in Nat, \A k \in M : k <= b
    PROVE  \E n \in M : \A k \in M : k <= n
<1> DEFINE Up == {b - k : k \in M}
<1>1. Up \subseteq Nat /\ Up # {}
  <2>1. \A k \in M : k \in Nat /\ k <= b /\ b - k \in Nat
    OBVIOUS
  <2> QED BY <2>1
<1>2. PICK u \in Up : \A t \in Up : u <= t
  BY <1>1, LeastNat
<1>3. PICK n \in M : u = b - n
  BY <1>2
<1>4. ASSUME NEW k \in M PROVE k <= n
  <2>1. u <= b - k
    BY <1>2
  <2> QED BY <1>3, <2>1
<1> QED BY <1>4

\* Replicas are numbered from 0, and there is at least one.
LEMMA ReplicaNat == Replica \subseteq Nat /\ total \in Nat \ {0} /\ \A p \in Replica : p < total
<1> USE NumFaultsAssumption, ConstFactorAssumption
<1>1. total \in Nat \ {0}
  <2>1. CASE ConstFactor = 2
    BY <2>1 DEF total
  <2>2. CASE ConstFactor = 3
    BY <2>2 DEF total
  <2> QED BY <2>1, <2>2
<1> QED BY <1>1 DEF Replica

\* The hash that is not set is a path,
LEMMA NoHashType == noHash \in Hash
<1>1. <<0, 0>> \in BlockId
  BY ReplicaNat DEF BlockId, Replica, View
<1> QED BY <1>1 DEF noHash, Hash

\* and no block that is created after view 0 has it.
LEMMA BlockIsSet ==
    ASSUME NEW g \in Hash, NEW p \in Replica, NEW v \in View, v >= 1
    PROVE  Append(g, <<p, v>>) # noHash
<1>1. <<p, v>> \in BlockId
  BY DEF BlockId
<1>2. /\ Len(Append(g, <<p, v>>)) = Len(g) + 1 /\ Len(g) \in Nat
      /\ Append(g, <<p, v>>)[Len(g) + 1] = <<p, v>>
  BY <1>1, AppendProperties, LenProperties DEF Hash
<1>3. Len(noHash) = 2 /\ noHash[2] = <<0, 0>>
  BY DEF noHash
<1>4. <<p, v>> # <<0, 0>>
  OBVIOUS
<1> QED BY <1>2, <1>3, <1>4

\* Division with remainder is unique.
LEMMA RemainderIs ==
    ASSUME NEW n \in Nat, NEW t \in Nat \ {0}, NEW q \in Nat, NEW p \in 0 .. (t - 1),
           n = q * t + p
    PROVE  n % t = p
<1> DEFINE d == n \div t
           a == n % t
<1>1. d \in Int /\ a \in 0 .. (t - 1) /\ n = d * t + a
  OBVIOUS
<1> HIDE DEF d, a
<1>2. d * t \in Int /\ q * t \in Int
  BY <1>1
<1>3. CASE d >= q + 1
  <2>1. d * t >= q * t + t
    BY <1>1, <1>3
  <2> QED BY <1>1, <1>2, <2>1
<1>4. CASE q >= d + 1
  <2>1. q * t >= d * t + t
    BY <1>1, <1>4
  <2> QED BY <1>1, <1>2, <2>1
<1>5. CASE d = q
  BY <1>1, <1>2, <1>5 DEF a
<1> QED BY <1>1, <1>3, <1>4, <1>5

\* The total candidates of getLeaderOf are all the replicas.
LEMMA LeaderCandidate ==
    ASSUME NEW v \in Nat, NEW t \in Nat \ {0}, NEW p \in 0 .. (t - 1)
    PROVE  \E i \in 0 .. (t - 1) : (v + i) % t = p
<1> DEFINE q == v \div t
           a == v % t
<1>1. q \in Nat /\ a \in 0 .. (t - 1) /\ v = q * t + a
  OBVIOUS
<1> HIDE DEF q, a
<1>2. q * t \in Nat /\ (q + 1) * t = q * t + t
  BY <1>1
<1>3. CASE p >= a
  <2>1. v + (p - a) = q * t + p /\ p - a \in 0 .. (t - 1)
    BY <1>1, <1>2, <1>3
  <2>2. (v + (p - a)) % t = p
    BY <1>1, <2>1, RemainderIs
  <2> QED BY <2>1, <2>2
<1>4. CASE p < a
  <2>1. v + (p - a + t) = (q + 1) * t + p /\ p - a + t \in 0 .. (t - 1)
    BY <1>1, <1>2, <1>4
  <2>2. (v + (p - a + t)) % t = p
    BY <1>1, <2>1, RemainderIs
  <2> QED BY <2>1, <2>2
<1> QED BY <1>1, <1>3, <1>4

\* While somebody is not blamed, getLeaderOf finds a leader.
LEMMA LeaderIsReplica ==
    ASSUME NEW skip, skip \subseteq Replica, skip # Replica, NEW v \in View
    PROVE  getLeaderOf(skip, v) \in Replica
<1> DEFINE cand(i) == (v + i) % total
           K == {i \in 0 .. (total - 1) : cand(i) \notin skip}
<1>1. total \in Nat \ {0}
  BY ReplicaNat
<1>2. PICK p \in Replica : p \notin skip
  OBVIOUS
<1> USE DEF Replica, View
<1> HIDE DEF total
<1>3. K # {} /\ K \subseteq Nat
  <2>1. PICK i \in 0 .. (total - 1) : cand(i) = p
    BY <1>1, <1>2, LeaderCandidate
  <2> HIDE DEF cand
  <2>2. i \in K
    BY <1>2, <2>1
  <2> QED BY <1>1, <2>2
<1>4. PICK k \in K : \A i \in K : k <= i
  BY <1>3, LeastNat
<1> HIDE DEF cand
<1>5. /\ k \in 0 .. (total - 1) /\ cand(k) \notin skip
      /\ \A j \in 0 .. (k - 1) : cand(j) \in skip
  <2>1. \A j \in 0 .. (k - 1) : j \in 0 .. (total - 1) /\ ~(k <= j)
    BY <1>1, <1>4
  <2> QED BY <1>4, <2>1
<1> DEFINE c == CHOOSE i \in 0 .. (total - 1) :
                    /\ cand(i) \notin skip
                    /\ \A j \in 0 .. (i - 1) : cand(j) \in skip
<1>6. c \in 0 .. (total - 1)
  BY <1>5
<1>7. getLeaderOf(skip, v) = IF FixedLeaderMode THEN FixedLeader ELSE cand(c)
  BY DEF getLeaderOf, cand
<1> HIDE DEF c
<1>8. cand(c) \in 0 .. (total - 1)
  BY <1>1, <1>6 DEF cand
<1>9. FixedLeader \in 0 .. (total - 1)
  BY LeaderModeAssumption, NumFaultsAssumption, ConstFactorAssumption DEF total
<1> QED BY <1>7, <1>8, <1>9

\* The log is scanned from its lowest signer: one is the first.
LEMMA FirstIsOne ==
    ASSUME NEW M, M # {}, \A m \in M : m.signer \in Replica
    PROVE  \E m \in M : \A o \in M : m.signer <= o.signer
<1> DEFINE A == {m.signer : m \in M}
<1>1. A \subseteq Nat /\ A # {}
  BY ReplicaNat
<1>2. PICK n \in A : \A k \in A : n <= k
  BY <1>1, LeastNat
<1> QED BY <1>2

\* The last of the highest new-views exists.
LEMMA HighestIsOne ==
    ASSUME NEW nvs, nvs \subseteq NewView, nvs # {}, NEW v \in Nat,
           \A m \in nvs : m.data.justv <= v
    PROVE  /\ HighestNewView(nvs) \in nvs
           /\ \A o \in nvs : o.data.justv <= HighestNewView(nvs).data.justv
<1>0. \A m \in nvs : m.data.justv \in Nat /\ m.signer \in Replica
  BY DEF NewView, RData, View
<1> DEFINE V == {m.data.justv : m \in nvs}
<1>1. V \subseteq Nat /\ V # {} /\ \A k \in V : k <= v
  BY <1>0
<1>2. PICK a \in V : \A k \in V : k <= a
  BY <1>1, GreatestNat
<1> DEFINE M == {m \in nvs : m.data.justv = a}
           P == {m.signer : m \in M}
<1>3. P \subseteq Nat /\ P # {} /\ \A k \in P : k <= total
  <2>1. PICK m \in nvs : m.data.justv = a
    BY <1>2
  <2>2. m \in M /\ m.signer \in P
    BY <2>1
  <2>3. \A k \in P : k \in Replica
    BY <1>0
  <2> HIDE DEF P
  <2>4. ASSUME NEW k \in P PROVE k \in Nat /\ k <= total
    <3>1. k \in Nat /\ k < total /\ total \in Nat
      BY <2>3, ReplicaNat
    <3> QED BY <3>1
  <2> QED BY <2>2, <2>4
<1>4. PICK p \in P : \A k \in P : k <= p
  BY <1>3, ReplicaNat, GreatestNat
<1>5. PICK m \in M : m.signer = p
  BY <1>4
<1>6. \A o \in nvs : \/ o.data.justv < m.data.justv
                     \/ o.data.justv = m.data.justv /\ o.signer <= m.signer
  <2> SUFFICES ASSUME NEW o \in nvs
               PROVE  \/ o.data.justv < m.data.justv
                      \/ o.data.justv = m.data.justv /\ o.signer <= m.signer
    OBVIOUS
  <2>1. m.data.justv = a /\ a \in Nat /\ o.data.justv \in Nat /\ o.data.justv <= a
    BY <1>0, <1>2, <1>5
  <2>2. o.data.justv = a => o.signer <= p
    BY <1>4
  <2> QED BY <1>5, <2>1, <2>2
<1>7. /\ HighestNewView(nvs) \in nvs
      /\ \A o \in nvs : \/ o.data.justv < HighestNewView(nvs).data.justv
                        \/ /\ o.data.justv = HighestNewView(nvs).data.justv
                           /\ o.signer <= HighestNewView(nvs).signer
  BY <1>5, <1>6 DEF HighestNewView
<1> QED BY <1>0, <1>7

\* FirstNewView (the first element getNewViewCombSet iterates over) is in the set.
LEMMA FirstNewViewIsOne ==
    ASSUME NEW nvs, nvs \subseteq NewView, nvs # {}
    PROVE  FirstNewView(nvs) \in nvs
BY FirstIsOne DEF NewView, FirstNewView

-----------------------------------------------------------------------------
(* Quorums *)

\* A quorum is a nonempty finite set of replicas.
LEMMA QuorumFacts ==
    ASSUME NEW Q, IsQuorum(Q)
    PROVE  Q \subseteq Replica /\ Q # {} /\ IsFiniteSet(Q)
<1>1. Q \subseteq Replica
  BY DEF IsQuorum, TEEReplica
<1>2. IsFiniteSet(Q)
  BY <1>1, PopulationSizes, FS_Subset
<1>3. Q \cap Q # {}
  BY QuorumIntersection
<1> QED BY <1>1, <1>2, <1>3

\* The signers of a certificate hold a quorum, with whoever else signed.
LEMMA QuorumIsHeld ==
    ASSUME NEW Q, IsQuorum(Q), NEW A, Q \subseteq A, A \subseteq Replica
    PROVE  HoldsQuorum(A)
<1>1. IsFiniteSet(A) /\ IsFiniteSet(A \cap TEEReplica)
  BY PopulationSizes, FS_Subset
<1>2. Cardinality(Q) <= Cardinality(A) /\ Cardinality(A) \in Nat
  BY <1>1, FS_Subset, FS_CardinalityType
<1>3. Q \subseteq TEEReplica => /\ Cardinality(Q) <= Cardinality(A \cap TEEReplica)
                                /\ Cardinality(A \cap TEEReplica) \in Nat
  <2> SUFFICES ASSUME Q \subseteq TEEReplica PROVE /\ Cardinality(Q) <= Cardinality(A \cap TEEReplica)
                                /\ Cardinality(A \cap TEEReplica) \in Nat
    OBVIOUS
  <2>1. Q \in SUBSET (A \cap TEEReplica)
    OBVIOUS
  <2> QED BY <1>1, <2>1, FS_Subset, FS_CardinalityType
<1> QED BY <1>2, <1>3, QuorumSizes DEF IsQuorum, HoldsQuorum

\* Whatever holds a quorum meets every quorum.
LEMMA HeldMeetsQuorum ==
    ASSUME NEW A, A \subseteq Replica, HoldsQuorum(A), NEW Q, IsQuorum(Q)
    PROVE  A \cap Q # {}
<1> USE PopulationSizes, QuorumSizes
<1>0. total \in Nat /\ TotalTEE \in Nat
  BY ReplicaNat, FS_CardinalityType
<1>1. TEEReplica \subseteq Replica
  BY DEF TEEReplica
<1>2. IsFiniteSet(A) /\ IsFiniteSet(A \cap TEEReplica) /\ Q \subseteq Replica
  BY FS_Subset, QuorumFacts
<1>3. Cardinality(A) \in Nat /\ Cardinality(A \cap TEEReplica) \in Nat
  BY <1>2, FS_CardinalityType
<1>4. CASE Cardinality(A) >= qsize /\ Cardinality(Q) = qsize
  <2>1. Cardinality(A) + Cardinality(Q) > Cardinality(Replica)
    BY <1>0, <1>3, <1>4
  <2> QED BY <1>2, <2>1, FS_MajoritiesIntersect
<1>5. CASE Cardinality(A) >= qsize /\ Cardinality(Q) = tqsize
  <2>1. Cardinality(A) + Cardinality(Q) > Cardinality(Replica)
    BY <1>0, <1>3, <1>5
  <2> QED BY <1>2, <2>1, FS_MajoritiesIntersect
<1>6. CASE Cardinality(A \cap TEEReplica) >= tqsize /\ Cardinality(Q) = qsize
  <2>1. Cardinality(A \cap TEEReplica) + Cardinality(Q) > Cardinality(Replica)
    BY <1>0, <1>3, <1>6
  <2>2. (A \cap TEEReplica) \cap Q # {}
    BY <1>1, <1>2, <2>1, FS_MajoritiesIntersect
  <2> QED BY <2>2
<1>7. CASE Cardinality(A \cap TEEReplica) >= tqsize /\ Q \subseteq TEEReplica /\ Cardinality(Q) = tqsize
  <2>1. Cardinality(A \cap TEEReplica) + Cardinality(Q) > Cardinality(TEEReplica)
    BY <1>0, <1>3, <1>7
  <2>2. (A \cap TEEReplica) \cap Q # {}
    BY <1>7, <2>1, FS_MajoritiesIntersect
  <2> QED BY <2>2
<1> QED BY <1>4, <1>5, <1>6, <1>7 DEF IsQuorum, HoldsQuorum

-----------------------------------------------------------------------------
(* Chains *)

\* A block is an ancestor of itself.
LEMMA AncestorSelf ==
    ASSUME NEW a \in Hash
    PROVE  IsAncestor(a, a)
<1>1. a = SubSeq(a, 1, Len(a)) /\ Len(a) \in Nat
  BY SubSeqFull, LenProperties DEF Hash
<1> QED BY <1>1 DEF IsAncestor

\* An ancestor of the parent is an ancestor of the child.
LEMMA AncestorOfChild ==
    ASSUME NEW a \in Hash, NEW b \in Hash, NEW e \in BlockId, IsAncestor(a, b)
    PROVE  IsAncestor(a, Append(b, e))
<1> DEFINE c == Append(b, e)
           n == Len(a)
<1>1. /\ n \in Nat /\ Len(b) \in Nat /\ n <= Len(b) /\ a = SubSeq(b, 1, n)
      /\ b \in Seq(BlockId) /\ c \in Seq(BlockId) /\ Len(c) = Len(b) + 1
      /\ \A i \in 1 .. Len(b) : c[i] = b[i] /\ b[i] \in BlockId
  BY AppendProperties, LenProperties, ElementOfSeq DEF Hash, IsAncestor
<1> HIDE DEF c, n
<1>2. \A i \in 1 .. n : c[i] \in BlockId /\ b[i] \in BlockId /\ c[i] = b[i]
  BY <1>1
<1>3. /\ SubSeq(b, 1, n) \in Seq(BlockId) /\ SubSeq(c, 1, n) \in Seq(BlockId)
      /\ Len(SubSeq(b, 1, n)) = n /\ Len(SubSeq(c, 1, n)) = n
      /\ \A i \in 1 .. n : SubSeq(b, 1, n)[i] = b[i] /\ SubSeq(c, 1, n)[i] = c[i]
  <2>1. 1 \in Int /\ n \in Int /\ (IF 1 <= n THEN n - 1 + 1 ELSE 0) = n
    BY <1>1
  <2>2. /\ SubSeq(b, 1, n) \in Seq(BlockId) /\ Len(SubSeq(b, 1, n)) = n
        /\ \A i \in 1 .. n - 1 + 1 : SubSeq(b, 1, n)[i] = b[1 + i - 1]
    BY <1>2, <2>1, SubSeqProperties
  <2>3. /\ SubSeq(c, 1, n) \in Seq(BlockId) /\ Len(SubSeq(c, 1, n)) = n
        /\ \A i \in 1 .. n - 1 + 1 : SubSeq(c, 1, n)[i] = c[1 + i - 1]
    BY <1>2, <2>1, SubSeqProperties
  <2>4. n - 1 + 1 = n /\ \A i \in 1 .. n : 1 + i - 1 = i
    BY <2>1
  <2> QED BY <2>2, <2>3, <2>4
<1>4. SubSeq(b, 1, n) = SubSeq(c, 1, n)
  BY <1>2, <1>3, SeqEqual
<1> QED BY <1>1, <1>4 DEF IsAncestor, c, n

-----------------------------------------------------------------------------
(* What the invariant says of blocks *)

\* The parts of a world that the arguments below use.
LEMMA WorldParts ==
    ASSUME NEW w \in World
    PROVE  /\ \A p \in Replica : /\ w.tc[p] \in TrustedState
                                 /\ w.signed[p] \subseteq RData
                                 /\ w.host[p] \in HostState
                                 /\ w.host[p].nvs \subseteq NewView
                                 /\ w.host[p].processedNewViews \subseteq View
           /\ \A p, q \in Replica : w.net[p][q] \in Seq(Message)
<1>1. /\ w.tc \in [Replica -> TrustedState] /\ w.signed \in [Replica -> SUBSET RData]
      /\ w.host \in [Replica -> HostState]
      /\ w.net \in [Replica -> [Replica -> Seq(Message)]]
  BY DEF World
<1>2. \A p \in Replica : w.host[p] \in HostState
  BY <1>1
<1> QED BY <1>1, <1>2 DEF HostState

(***************************************************************************)
(* The core of the safety argument.  Statement d was signed and recorded   *)
(* by a set A of components that holds a quorum.  Then whatever is named   *)
(* in a later view extends the block of d: by induction on that view, the  *)
(* quorum of reports the block was proposed on meets A, so the highest     *)
(* pair reported is that of d or one of a view in between.                 *)
(***************************************************************************)
LEMMA KeptIsExtended ==
    ASSUME NEW w \in World, Inv(w),
           NEW A, A \subseteq Replica, HoldsQuorum(A),
           NEW d \in RData, \A p \in A : d \in w.signed[p] /\ Kept(w.signed[p], d),
           NEW q \in Replica, NEW e \in w.signed[q], Names(e), d.propv < e.propv
    PROVE  IsAncestor(d.proph, e.proph)
<1> DEFINE S == w.signed
           H == w.host
           Astray(f) == Names(f) /\ d.propv < f.propv /\ ~IsAncestor(d.proph, f.proph)
           Bad == {n \in Nat : \E k \in Replica : \E f \in S[k] : Astray(f) /\ f.propv = n}
<1>1. \A p \in Replica : \A f \in S[p] : f \in RData /\ f.propv \in Nat /\ f.proph \in Hash
  BY WorldParts DEF RData, View
<1> SUFFICES ASSUME Bad # {} PROVE FALSE
  BY <1>1
<1>2. PICK n \in Bad : \A k \in Bad : n <= k
  BY LeastNat
<1>a. PICK k \in Replica : \E f \in S[k] : Astray(f) /\ f.propv = n
  BY <1>2
<1>3. PICK f \in S[k] : Astray(f) /\ f.propv = n
  BY <1>a
<1>4. Justified(H, f.proph, f.propv)
  BY <1>3 DEF Inv, NamesOK
<1>b. PICK l \in Replica : \E nvs \in SUBSET H[l].nvs :
        /\ \A m \in nvs : m.data.propv = n
        /\ IsQuorum(SignersOf(nvs))
        /\ f.proph = Append(HighestNewView(nvs).data.justh, <<l, n>>)
  BY <1>3, <1>4 DEF Justified
<1>5. PICK nvs \in SUBSET H[l].nvs :
        /\ \A m \in nvs : m.data.propv = n
        /\ IsQuorum(SignersOf(nvs))
        /\ f.proph = Append(HighestNewView(nvs).data.justh, <<l, n>>)
  BY <1>b
<1>6. \A m \in nvs : /\ m \in NewView /\ m.signer \in Replica /\ m.data.justv \in Nat
                     /\ m.data \in S[m.signer]
                     /\ Truthful(S[m.signer], m.data)
                     /\ m.data.justv < n /\ m.data.justh \in Hash
  <2> SUFFICES ASSUME NEW m \in nvs
               PROVE  /\ m \in NewView /\ m.signer \in Replica /\ m.data.justv \in Nat
                      /\ m.data \in S[m.signer]
                      /\ Truthful(S[m.signer], m.data)
                      /\ m.data.justv < n /\ m.data.justh \in Hash
    OBVIOUS
  <2>1. m \in H[l].nvs /\ m \in NewView
    BY <1>5, WorldParts
  <2>2. m.signer \in Replica /\ m.data.justv \in Nat /\ m.data.justh \in Hash
    BY <2>1 DEF NewView, RData, View
  <2>3. m.data \in S[m.signer] /\ IsReport(m.data)
    BY <2>1 DEF Inv, LogOK
  <2>4. Truthful(S[m.signer], m.data)
    BY <2>2, <2>3 DEF Inv, ComponentOK
  <2>5. m.data.justv < n
    BY <1>5, <2>4 DEF Truthful
  <2> QED BY <2>1, <2>2, <2>3, <2>4, <2>5
<1>7. PICK p \in A : p \in SignersOf(nvs)
  BY <1>5, HeldMeetsQuorum
<1>8. PICK m \in nvs : m.signer = p
  BY <1>7 DEF SignersOf
<1>9. d.propv <= m.data.justv
  <2>1. m.data.propv = n /\ d.propv < n
    BY <1>3, <1>5
  <2> QED BY <1>6, <1>8, <2>1 DEF Truthful
<1> DEFINE t == HighestNewView(nvs)
<1>10. t \in nvs /\ m.data.justv <= t.data.justv
  <2>1. nvs \subseteq NewView /\ nvs # {} /\ n \in Nat /\ \A o \in nvs : o.data.justv <= n
    BY <1>6, <1>8
  <2> QED BY <2>1, HighestIsOne
<1> HIDE DEF t
<1>11. /\ t.data.justv \in Nat /\ t.data.justv < n /\ d.propv <= t.data.justv
       /\ t.data.justh \in Hash /\ t.signer \in Replica
  BY <1>6, <1>9, <1>10 DEF RData, View
<1>12. \E g \in S[t.signer] : Names(g) /\ g.proph = t.data.justh /\ g.propv = t.data.justv
  <2>1. d.propv >= 1
    BY <1>7 DEF Inv, ComponentOK
  <2>2. Backed(S[t.signer], t.data.justh, t.data.justv)
    BY <1>6, <1>10 DEF Truthful
  <2> QED BY <1>11, <2>1, <2>2 DEF Backed, NamedBy, RData, View
<1>13. PICK g \in S[t.signer] : Names(g) /\ g.proph = t.data.justh /\ g.propv = t.data.justv
  BY <1>12
<1>14. IsAncestor(d.proph, g.proph)
  <2>1. CASE g.propv = d.propv
    <3>1. g.proph = d.proph
      BY <1>7, <1>11, <1>13, <2>1 DEF Inv, OneBlock, Kept
    <3> QED BY <3>1, AncestorSelf DEF RData
  <2>2. CASE g.propv # d.propv
    <3>1. d.propv < g.propv
      BY <1>11, <1>13, <2>2 DEF RData, View
    <3>2. SUFFICES ASSUME ~IsAncestor(d.proph, g.proph) PROVE FALSE
      OBVIOUS
    <3>3. g.propv \in Bad
      BY <1>11, <1>13, <3>1, <3>2
    <3> QED BY <1>2, <1>11, <1>13, <3>3
  <2> QED BY <2>1, <2>2
<1>15. <<l, n>> \in BlockId
  BY <1>2 DEF BlockId, View
<1>16. IsAncestor(d.proph, f.proph)
  BY <1>5, <1>11, <1>13, <1>14, <1>15, AncestorOfChild DEF t, RData
<1> QED BY <1>3, <1>16

-----------------------------------------------------------------------------
(* The properties of module Raftel follow from the invariant *)

\* The state has the shape the steps below are about.
Typed == TheWorld \in World

\* All prepare votes of a view name one block (processQC, respondToLdrPrepareComb).
LEMMA OneProposalFollows ==
    ASSUME Typed, SafetyInvariant
    PROVE  OneProposalPerView
<1>1. OneBlock(signed)
  BY DEF SafetyInvariant, TheWorld, Inv
<1> QED BY <1>1 DEF OneBlock, OneProposalPerView, Proposals, AllSigned, Names

\* What a quorum committed, later proposals extend.
LEMMA FinalFollows ==
    ASSUME Typed, SafetyInvariant
    PROVE  FinalIsExtended
<1> SUFFICES ASSUME NEW d \in AllSigned, IsFinal(d),
                    NEW e \in Proposals, e.propv > d.propv
             PROVE  IsAncestor(d.proph, e.proph)
  BY DEF FinalIsExtended
<1> DEFINE w == TheWorld
           A == SignedBy(d)
<1>1. w \in World /\ Inv(w) /\ w.signed = signed
  BY DEF Typed, SafetyInvariant, TheWorld
<1> HIDE DEF w
<1>2. \A p \in Replica : signed[p] \subseteq RData
  BY <1>1, WorldParts
<1>3. d \in RData /\ e \in RData
  BY <1>2 DEF AllSigned, Proposals
<1>4. PICK q \in Replica : e \in signed[q]
  BY DEF Proposals, AllSigned
<1>5. A \subseteq Replica /\ HoldsQuorum(A)
  BY DEF IsFinal, SignedBy
<1>6. \A p \in A : d \in w.signed[p] /\ Kept(w.signed[p], d)
  BY <1>1 DEF SignedBy, IsFinal, Kept, Names
<1>7. Names(e) /\ d.propv < e.propv
  BY <1>3 DEF Proposals, Names, RData, View
<1> QED BY <1>1, <1>3, <1>4, <1>5, <1>6, <1>7, KeptIsExtended

\* A component that getStarted started is in step with its host.
LEMMA StepFollows ==
    ASSUME Typed, SafetyInvariant
    PROVE  TrustedInStep
<1> SUFFICES ASSUME NEW r \in Replica, StartedInTurn(r)
             PROVE  \/ tc[r].view = host[r].view
                    \/ tc[r].view = host[r].view + 1 /\ tc[r].phase = PH1_NEWVIEW
  BY DEF TrustedInStep
<1>1. StepOK(tc[r], signed[r], host[r])
  BY DEF SafetyInvariant, TheWorld, Inv
<1>2. InTurn(signed[r])
  BY DEF StartedInTurn, InTurn, IsReport, Names
<1>3. tc[r].phase \in Phase1
  <2>1. TheWorld.tc[r] \in TrustedState
    BY WorldParts DEF Typed
  <2> QED BY <2>1 DEF TheWorld, TrustedState
<1>4. PhaseIndex(tc[r].phase) <= 0 => tc[r].phase = PH1_NEWVIEW
  BY <1>3 DEF PhaseIndex, Phase1
<1> QED BY <1>1, <1>2, <1>4 DEF StepOK, Late

\* New-views report what their component recorded (COMB_TEEsign).
LEMMA ReportsFollow ==
    ASSUME Typed, SafetyInvariant
    PROVE  NewViewReportsPrepared
<1> SUFFICES ASSUME NEW r \in Replica, StartedInTurn(r),
                    NEW d \in signed[r], NEW e \in signed[r],
                    d.proph # noHash, d.propv < e.propv,
                    d.phase = PH1_PREPARE => isTEE(Creator(d.proph)),
                    d.phase # PH1_NEWVIEW, e.phase = PH1_NEWVIEW
             PROVE  e.justv >= d.propv
  BY DEF NewViewReportsPrepared
<1>1. /\ StepOK(tc[r], signed[r], host[r])
      /\ ComponentOK(tc[r], signed[r])
  BY DEF SafetyInvariant, TheWorld, Inv
<1>2. InTurn(signed[r])
  BY DEF StartedInTurn, InTurn, IsReport, Names
<1>3. d \in RData /\ e \in RData
  <2>1. TheWorld.signed[r] \subseteq RData
    BY WorldParts DEF Typed
  <2> QED BY <2>1 DEF TheWorld
<1>4. IsReport(e)
  BY <1>1, <1>2 DEF StepOK, IsReport
<1>5. Kept(signed[r], d)
  BY <1>2, <1>3 DEF Kept, Names, RData, Phase1
<1>6. Truthful(signed[r], e)
  BY <1>1, <1>4 DEF ComponentOK
<1>7. d.propv <= e.justv
  BY <1>5, <1>6 DEF Truthful
<1> QED BY <1>3, <1>7 DEF RData, View

\* Whatever component signed anything was started by getStarted before.
EveryoneInTurn == \A r \in Replica : signed[r] # {} => StartedInTurn(r)

\* No component is locked on a block of the view it is in: it has its vote on that block behind it.
LocksBehind == \A r \in Replica : tc[r].lockv < tc[r].view

\* What a quorum reports is at least what a component is locked on, with the block it is locked on.
LEMMA ReportsReachLock ==
    ASSUME Typed, SafetyInvariant, EveryoneInTurn, LocksBehind,
           NEW r \in Replica, NEW Q \in SUBSET Replica, IsQuorum(Q),
           NEW nvs, nvs \subseteq NewView, SignersOf(nvs) = Q,
           \A m \in nvs : /\ m.data \in signed[m.signer] /\ IsReport(m.data)
                          /\ m.data.propv = tc[r].view
    PROVE  \/ HighestNewView(nvs).data.justh = tc[r].lockh
           \/ HighestNewView(nvs).data.justv > tc[r].lockv
<1> DEFINE w == TheWorld
           c == tc[r]
           t == HighestNewView(nvs)
<1>1. w \in World /\ Inv(w) /\ w.signed = signed /\ w.tc = tc
  BY DEF Typed, SafetyInvariant, TheWorld
<1>2. w.tc[r] \in TrustedState
  BY <1>1, WorldParts
<1>3. c.lockv \in Nat /\ c.view \in Nat /\ c.lockv < c.view
  BY <1>1, <1>2 DEF TrustedState, View, LocksBehind
<1>4. LockOK(signed, c) /\ OneBlock(signed) /\ \A p \in Replica : ComponentOK(tc[p], signed[p])
  BY <1>1 DEF Inv
<1>a. \A p \in Replica : signed[p] \subseteq RData
  BY <1>1, WorldParts
<1> HIDE DEF w
<1>5. \A m \in nvs : /\ m.signer \in Replica /\ m.data.justv \in Nat
                     /\ Truthful(signed[m.signer], m.data)
                     /\ m.data.justv < c.view
  <2> SUFFICES ASSUME NEW m \in nvs
               PROVE  /\ m.signer \in Replica /\ m.data.justv \in Nat
                      /\ Truthful(signed[m.signer], m.data)
                      /\ m.data.justv < c.view
    OBVIOUS
  <2>1. m.signer \in Replica /\ m.data.justv \in Nat
    BY DEF NewView, RData, View
  <2>2. Truthful(signed[m.signer], m.data)
    BY <1>4, <2>1 DEF ComponentOK
  <2> QED BY <2>1, <2>2 DEF Truthful
<1>6. nvs # {}
  <2>1. HoldsQuorum(Q)
    BY QuorumIsHeld
  <2>2. Q # {}
    BY <2>1, HeldMeetsQuorum
  <2> QED BY <2>2 DEF SignersOf
<1>7. t \in nvs /\ \A o \in nvs : o.data.justv <= t.data.justv
  <2>1. \A o \in nvs : o.data.justv <= c.view
    BY <1>3, <1>5
  <2> QED BY <1>3, <1>6, <2>1, HighestIsOne
<1> HIDE DEF t
<1>8. /\ t.signer \in Replica /\ t.data.justv \in Nat
      /\ Backed(signed[t.signer], t.data.justh, t.data.justv)
  BY <1>5, <1>7 DEF Truthful
<1>9. \A d \in signed[t.signer] : d.propv >= 1
  BY <1>4, <1>8 DEF ComponentOK
<1>10. CASE c.lockh = newHash /\ c.lockv = 0
  <2>1. CASE t.data.justv = 0
    <3>1. t.data.justh = newHash
      BY <1>8, <1>9, <2>1 DEF Backed, NamedBy
    <3> QED BY <1>10, <3>1 DEF t
  <2>2. CASE t.data.justv # 0
    BY <1>8, <1>10, <2>2 DEF t
  <2> QED BY <2>1, <2>2
<1>11. CASE ~(c.lockh = newHash /\ c.lockv = 0)
  <2>1. PICK p \in Replica : \E d \in signed[p] :
            /\ Names(d) /\ d.proph = c.lockh /\ d.propv = c.lockv
            /\ d.phase = PH1_PRECOMMIT /\ SignedByQuorum(signed, d)
    BY <1>4, <1>11 DEF LockOK
  <2>2. PICK d \in signed[p] :
            /\ Names(d) /\ d.proph = c.lockh /\ d.propv = c.lockv
            /\ d.phase = PH1_PRECOMMIT /\ SignedByQuorum(signed, d)
    BY <2>1
  <2>3. PICK A \in SUBSET Replica : IsQuorum(A) /\ \A q \in A : d \in signed[q]
    BY <2>2 DEF SignedByQuorum
  <2>4. HoldsQuorum(A)
    BY <2>3, QuorumIsHeld
  <2>5. A \cap Q # {}
    BY <2>4, HeldMeetsQuorum
  <2>6. PICK m \in nvs : m.signer \in A
    BY <2>5 DEF SignersOf
  <2>7. d \in signed[m.signer] /\ InTurn(signed[m.signer])
    <3>1. d \in signed[m.signer] /\ m.signer \in Replica
      BY <1>5, <2>3, <2>6
    <3>2. StartedInTurn(m.signer)
      BY <3>1 DEF EveryoneInTurn
    <3> QED BY <3>1, <3>2 DEF StartedInTurn, InTurn, IsReport, Names
  <2>8. c.lockv <= m.data.justv
    <3>1. Kept(signed[m.signer], d)
      BY <2>2, <2>7 DEF Kept
    <3>2. d.propv < m.data.propv
      BY <1>3, <2>2
    <3> QED BY <1>5, <2>2, <2>7, <3>1, <3>2 DEF Truthful
  <2>9. c.lockv <= t.data.justv
    BY <1>3, <1>5, <1>7, <1>8, <2>8
  <2>10. CASE c.lockv = t.data.justv
    <3>1. d.propv >= 1
      BY <1>4, <2>1, <2>2 DEF ComponentOK
    <3>2. PICK e \in signed[t.signer] :
              Names(e) /\ e.proph = t.data.justh /\ e.propv = t.data.justv
      BY <1>8, <2>2, <2>10, <3>1 DEF Backed, NamedBy
    <3>3. e.proph = d.proph
      BY <1>4, <1>8, <2>1, <2>2, <2>10, <3>2 DEF OneBlock
    <3> QED BY <2>2, <3>2, <3>3 DEF t
  <2>11. CASE c.lockv # t.data.justv
    BY <1>3, <1>8, <2>9, <2>11 DEF t
  <2> QED BY <2>10, <2>11
<1> QED BY <1>10, <1>11

\* The lock of the classical path accepts what the leader proposes (COMB_TEEprepare).
LEMMA LockFollows ==
    ASSUME Typed, SafetyInvariant, EveryoneInTurn, LocksBehind
    PROVE  LockNeverBlocks
<1> SUFFICES ASSUME NEW r \in Replica, NEW Q \in SUBSET Replica, IsQuorum(Q),
                    SignersOf(NewViewsOf(Q, tc[r].view)) = Q
             PROVE  LET nvs == NewViewsOf(Q, tc[r].view)
                        h   == HighestNewView(nvs).data.justh
                    IN  SafeParent(tc[r], [prev |-> h, hash |-> h], COMB_TEEaccum(r, nvs))
  BY DEF LockNeverBlocks
<1> DEFINE nvs == NewViewsOf(Q, tc[r].view)
           h   == HighestNewView(nvs).data.justh
<1>1. \A p \in Replica : signed[p] \subseteq RData
  <2>1. \A p \in Replica : TheWorld.signed[p] \subseteq RData
    BY WorldParts DEF Typed
  <2> QED BY <2>1 DEF TheWorld
<1>2. \A m \in nvs : /\ m \in NewView /\ m.data \in signed[m.signer]
                     /\ IsReport(m.data) /\ m.data.propv = tc[r].view
  <2> SUFFICES ASSUME NEW p \in Q, NEW d \in signed[p],
                      d.propv = tc[r].view, d.phase = PH1_NEWVIEW, d.proph = noHash
               PROVE  LET m == [data |-> d, signer |-> p]
                      IN  /\ m \in NewView /\ m.data \in signed[m.signer]
                          /\ IsReport(m.data) /\ m.data.propv = tc[r].view
    BY DEF NewViewsOf
  <2>1. d \in RData /\ p \in Replica
    BY <1>1
  <2> QED BY <2>1 DEF NewView, IsReport, Names
<1>3. SignersOf(nvs) = Q /\ nvs \subseteq NewView
  BY <1>2
<1> HIDE DEF nvs
<1>4. h = tc[r].lockh \/ HighestNewView(nvs).data.justv > tc[r].lockv
  BY <1>2, <1>3, ReportsReachLock
<1>5. SafeParent(tc[r], [prev |-> h, hash |-> h], COMB_TEEaccum(r, nvs))
  BY <1>4 DEF SafeParent, COMB_TEEaccum
<1> QED BY <1>5 DEF nvs

\* executeComb applies committed blocks only.
LEMMA ExecutedFollows ==
    ASSUME Typed, SafetyInvariant, Uniform
    PROVE  ExecutedIsFinal
<1> SUFFICES ASSUME NEW r \in Replica, NEW h \in Executed(r)
             PROVE  \E d \in AllSigned : d.proph = h /\ IsFinal(d)
  BY DEF ExecutedIsFinal
<1>1. ExecutedOK(signed, host[r])
  BY DEF SafetyInvariant, TheWorld, Inv
<1>2. PICK p \in Replica : \E d \in signed[p] : d.proph = h /\ Decides(signed, d)
  BY <1>1 DEF ExecutedOK, Executed
<1>3. PICK d \in signed[p] : d.proph = h /\ Decides(signed, d)
  BY <1>2
<1>4. PICK Q \in SUBSET Replica : IsQuorum(Q) /\ \A q \in Q : d \in signed[q]
  BY <1>3 DEF Decides, SignedByQuorum
<1>5. Q \subseteq SignedBy(d) /\ SignedBy(d) \subseteq Replica
  BY <1>4 DEF SignedBy
<1>6. HoldsQuorum(SignedBy(d))
  BY <1>4, <1>5, QuorumIsHeld
<1> QED BY <1>3, <1>6 DEF Decides, IsFinal, Names, AllSigned

\* Two blocks that are final, the one of a view before the other, are on one chain.
LEMMA AgreementFollows ==
    ASSUME Typed, SafetyInvariant, Uniform
    PROVE  Agreement
<1> DEFINE w == TheWorld
<1>1. w \in World /\ Inv(w) /\ w.signed = signed
  BY DEF Typed, SafetyInvariant, TheWorld
<1> HIDE DEF w
<1>2. \A p \in Replica : signed[p] \subseteq RData
  BY <1>1, WorldParts
<1>3. ASSUME NEW d \in AllSigned, IsFinal(d), NEW e \in AllSigned, IsFinal(e),
             d.propv <= e.propv
      PROVE  IsAncestor(d.proph, e.proph)
  <2>1. d \in RData /\ e \in RData /\ Names(d) /\ Names(e)
    BY <1>2, <1>3 DEF AllSigned, IsFinal, Names
  <2>2. PICK q \in Replica : e \in signed[q]
    BY DEF AllSigned
  <2>3. PICK p \in Replica : d \in signed[p]
    BY DEF AllSigned
  <2>4. CASE d.propv = e.propv
    <3>1. d.proph = e.proph
      BY <1>1, <2>1, <2>2, <2>3, <2>4 DEF Inv, OneBlock
    <3> QED BY <2>1, <3>1, AncestorSelf DEF RData
  <2>5. CASE d.propv < e.propv
    <3> DEFINE A == SignedBy(d)
    <3>1. A \subseteq Replica /\ HoldsQuorum(A)
      BY <1>3 DEF IsFinal, SignedBy
    <3>2. \A k \in A : d \in w.signed[k] /\ Kept(w.signed[k], d)
      BY <1>1, <1>3 DEF SignedBy, IsFinal, Kept, Names
    <3> QED BY <1>1, <2>1, <2>2, <2>5, <3>1, <3>2, KeptIsExtended
  <2> QED BY <1>3, <2>1, <2>4, <2>5 DEF RData, View
<1> SUFFICES ASSUME NEW r \in Replica, NEW s \in Replica,
                    NEW a \in Executed(r), NEW b \in Executed(s)
             PROVE  IsAncestor(a, b) \/ IsAncestor(b, a)
  BY DEF Agreement
<1>4. PICK d \in AllSigned : d.proph = a /\ IsFinal(d)
  BY ExecutedFollows DEF ExecutedIsFinal
<1>5. PICK e \in AllSigned : e.proph = b /\ IsFinal(e)
  BY ExecutedFollows DEF ExecutedIsFinal
<1>6. d.propv \in Nat /\ e.propv \in Nat
  BY <1>2 DEF AllSigned, RData, View
<1>7. d.propv <= e.propv \/ e.propv <= d.propv
  BY <1>6
<1> QED BY <1>3, <1>4, <1>5, <1>7

-----------------------------------------------------------------------------
(* Components *)

\* The order in which a component goes through its views and phases (increment).
LEMMA CounterOrder ==
    ASSUME NEW v \in View, NEW u \in View, NEW p \in Phase1, NEW q \in Phase1
    PROVE  /\ Counter(v, p) \in Nat /\ PhaseIndex(p) \in 0 .. 3
           /\ Counter(v, p) < Counter(u, q) => v <= u
           /\ Counter(v, p) < Counter(u, q) /\ v = u => PhaseIndex(p) < PhaseIndex(q)
           /\ Counter(v, p) < Counter(u, q) /\ q = PH1_NEWVIEW => v < u
           /\ v < u => Counter(v, p) < Counter(u, q)
           /\ Counter(v, p) <= Counter(u, q) => v <= u
           /\ Counter(v, p) <= Counter(u, q) /\ v = u => PhaseIndex(p) <= PhaseIndex(q)
           /\ PhaseIndex(p) = 0 <=> p = PH1_NEWVIEW
           /\ PhaseIndex(p) = 1 <=> p = PH1_PREPARE
           /\ PhaseIndex(p) = 2 <=> p = PH1_PRECOMMIT
           /\ PhaseIndex(p) = 3 <=> p = PH1_COMMIT
BY DEF Counter, PhaseIndex, Phase1, View

\* An increment moves the pair one on and touches nothing else.
LEMMA IncrementMoves ==
    ASSUME NEW c \in TrustedState
    PROVE  LET d == COMB_increment(c)
           IN  /\ d \in TrustedState
               /\ Counter(d.view, d.phase) = Counter(c.view, c.phase) + 1
               /\ \/ d.view = c.view /\ PhaseIndex(d.phase) = PhaseIndex(c.phase) + 1
                  \/ /\ d.view = c.view + 1 /\ d.phase = PH1_NEWVIEW
                     /\ c.phase = PH1_COMMIT
               /\ d.preph = c.preph /\ d.prepv = c.prepv
               /\ d.lockh = c.lockh /\ d.lockv = c.lockv
<1> DEFINE d == COMB_increment(c)
<1>1. c.view \in Nat /\ c.phase \in Phase1
  BY DEF TrustedState, View
<1>2. CASE c.phase = PH1_COMMIT
  <2>1. d = [c EXCEPT !.phase = PH1_NEWVIEW, !.view = c.view + 1]
    BY <1>2 DEF COMB_increment
  <2> DEFINE u == c.view + 1
  <2>2. u \in View /\ PH1_NEWVIEW \in Phase1
    BY <1>1 DEF View, Phase1
  <2> HIDE DEF u
  <2>3. [c EXCEPT !.phase = PH1_NEWVIEW, !.view = u] \in TrustedState
    BY <2>2 DEF TrustedState
  <2>4. d \in TrustedState /\ d.view = c.view + 1 /\ d.phase = PH1_NEWVIEW
    BY <2>1, <2>3 DEF TrustedState, u
  <2> QED BY <1>1, <1>2, <2>1, <2>4 DEF TrustedState, Counter, PhaseIndex
<1>3. CASE c.phase # PH1_COMMIT
  <2>1. PICK q \in Phase1 : /\ d = [c EXCEPT !.phase = q]
                            /\ PhaseIndex(q) = PhaseIndex(c.phase) + 1
    BY <1>1, <1>3 DEF COMB_increment, Phase1, PhaseIndex
  <2>2. PhaseIndex(c.phase) \in Nat
    BY <1>1 DEF Phase1, PhaseIndex
  <2> QED BY <1>1, <2>1, <2>2 DEF TrustedState, Counter
<1> QED BY <1>2, <1>3

(***************************************************************************)
(* A component that signs statements L naming no block, each with the pair *)
(* it has prepared, as COMB_TEEsign does, keeps ComponentOK.               *)
(***************************************************************************)
LEMMA ReportComponent ==
    ASSUME NEW c \in TrustedState, NEW Sp, Sp \subseteq RData, ComponentOK(c, Sp),
           NEW k \in TrustedState, k.preph = c.preph, k.prepv = c.prepv,
           Counter(c.view, c.phase) < Counter(k.view, k.phase),
           NEW L, L \subseteq RData,
           \A d \in L : /\ d.proph = noHash /\ d.justh = c.preph /\ d.justv = c.prepv
                        /\ Counter(c.view, c.phase) <= Counter(d.propv, d.phase)
                        /\ Counter(d.propv, d.phase) < Counter(k.view, k.phase)
    PROVE  ComponentOK(k, Sp \cup L)
<1> DEFINE S2 == Sp \cup L
<1>1. /\ c.view \in View /\ c.phase \in Phase1 /\ c.prepv \in View
      /\ k.view \in View /\ k.phase \in Phase1
  BY DEF TrustedState
<1>2. \A d \in S2 : d \in RData /\ d.propv \in View /\ d.phase \in Phase1
  BY DEF RData
<1>3. c.view <= k.view /\ c.view >= 1 /\ c.prepv <= c.view
  BY <1>1, CounterOrder DEF ComponentOK
<1>4. k.view >= 1 /\ k.prepv <= k.view
  BY <1>1, <1>3 DEF View
<1>5. k.phase = PH1_NEWVIEW => k.prepv < k.view
  BY <1>1, <1>3, CounterOrder DEF View
<1>6. \A d \in S2 : Names(d) => d \in Sp
  BY DEF Names
<1>7. \A d \in L : d.propv >= c.view /\ (d.phase = PH1_NEWVIEW => c.prepv < d.propv)
  <2> SUFFICES ASSUME NEW d \in L
               PROVE  d.propv >= c.view /\ (d.phase = PH1_NEWVIEW => c.prepv < d.propv)
    OBVIOUS
  <2>1. d.propv \in View /\ d.phase \in Phase1 /\ c.view <= d.propv
    BY <1>1, <1>2, CounterOrder
  <2>2. CASE d.phase = PH1_NEWVIEW /\ d.propv = c.view
    <3>1. PhaseIndex(c.phase) <= PhaseIndex(d.phase)
      BY <1>1, <2>1, <2>2, CounterOrder
    <3>2. PhaseIndex(d.phase) = 0 /\ PhaseIndex(c.phase) \in 0 .. 3
      BY <1>1, <2>1, <2>2, CounterOrder
    <3>3. c.phase = PH1_NEWVIEW
      BY <1>1, <3>1, <3>2, CounterOrder
    <3> QED BY <2>1, <2>2, <3>3 DEF ComponentOK, View
  <2> QED BY <1>1, <1>3, <2>1, <2>2 DEF View
<1>8. \A d \in S2 : d.propv >= 1 /\ Counter(d.propv, d.phase) < Counter(k.view, k.phase)
  <2> SUFFICES ASSUME NEW d \in S2
               PROVE  d.propv >= 1 /\ Counter(d.propv, d.phase) < Counter(k.view, k.phase)
    OBVIOUS
  <2>1. /\ Counter(d.propv, d.phase) \in Nat /\ Counter(k.view, k.phase) \in Nat
        /\ Counter(c.view, c.phase) \in Nat
    BY <1>1, <1>2, CounterOrder
  <2>2. CASE d \in Sp
    BY <2>1, <2>2 DEF ComponentOK
  <2>3. CASE d \in L
    BY <1>1, <1>2, <1>3, <1>7, <2>3 DEF View
  <2> QED BY <2>2, <2>3
<1>9. Backed(S2, k.preph, k.prepv)
  BY DEF ComponentOK, Backed, NamedBy
<1>10. \A d \in S2 : Kept(S2, d) => Kept(Sp, d)
  <2> SUFFICES ASSUME NEW d \in S2, Kept(S2, d), ~Kept(Sp, d) PROVE FALSE
    OBVIOUS
  <2>1. d \in Sp /\ Names(d) /\ InTurn(S2) /\ ~InTurn(Sp)
    BY <1>6 DEF Kept
  <2>2. PICK e \in L : e.propv = 1 /\ IsReport(e)
    BY <2>1 DEF InTurn
  <2>3. Counter(d.propv, d.phase) < Counter(e.propv, e.phase)
    <3>1. /\ Counter(d.propv, d.phase) \in Nat /\ Counter(e.propv, e.phase) \in Nat
          /\ Counter(c.view, c.phase) \in Nat
      BY <1>1, <1>2, <2>1, <2>2, CounterOrder
    <3> QED BY <2>1, <2>2, <3>1 DEF ComponentOK
  <2>4. d.propv < 1 /\ d.propv >= 1
    BY <1>2, <2>1, <2>2, <2>3, CounterOrder DEF ComponentOK, IsReport
  <2> QED BY <1>2, <2>4 DEF View
<1>11. \A d \in S2 : Kept(S2, d) => d.propv <= k.prepv
  BY <1>6, <1>10 DEF ComponentOK, Kept
<1>12. ASSUME NEW n \in S2, IsReport(n) PROVE Truthful(S2, n)
  <2>1. CASE n \in Sp
    <3>1. Truthful(Sp, n)
      BY <1>12, <2>1 DEF ComponentOK
    <3> QED BY <1>6, <1>10, <3>1 DEF Truthful, Backed, NamedBy, Kept
  <2>2. CASE n \in L
    <3>1. n.justh = k.preph /\ n.justv = k.prepv /\ n.justv < n.propv
      BY <1>7, <1>12, <2>2 DEF IsReport
    <3> QED BY <1>9, <1>11, <3>1 DEF Truthful
  <2> QED BY <2>1, <2>2
<1> QED BY <1>4, <1>5, <1>8, <1>9, <1>11, <1>12 DEF ComponentOK

(***************************************************************************)
(* A component that names block h in its current (view, phase), having     *)
(* recorded it unless the statement is one that need not be.               *)
(***************************************************************************)
LEMMA NamingComponent ==
    ASSUME NEW c \in TrustedState, NEW Sp, Sp \subseteq RData, ComponentOK(c, Sp),
           NEW k \in TrustedState,
           Counter(k.view, k.phase) = Counter(c.view, c.phase) + 1,
           NEW d \in RData, Names(d), d.propv = c.view, d.phase = c.phase,
           \/ k.preph = c.preph /\ k.prepv = c.prepv
           \/ k.preph = d.proph /\ k.prepv = c.view,
           Kept(Sp, d) => k.prepv = c.view
    PROVE  ComponentOK(k, Sp \cup {d})
<1> DEFINE S2 == Sp \cup {d}
<1>1. /\ c.view \in View /\ c.phase \in Phase1 /\ c.prepv \in View
      /\ k.view \in View /\ k.phase \in Phase1 /\ k.prepv \in View
      /\ Counter(c.view, c.phase) \in Nat /\ Counter(k.view, k.phase) \in Nat
  BY CounterOrder DEF TrustedState
<1>2. \A e \in S2 : /\ e \in RData /\ e.propv \in View /\ e.phase \in Phase1
                    /\ Counter(e.propv, e.phase) \in Nat
  BY CounterOrder DEF RData
<1>3. c.view <= k.view /\ c.view >= 1 /\ c.prepv <= c.view /\ c.prepv <= k.prepv
      /\ k.prepv <= c.view
  BY <1>1, CounterOrder DEF ComponentOK, View
<1>4. k.view >= 1 /\ k.prepv <= k.view
  BY <1>1, <1>3 DEF View
<1>5. k.phase = PH1_NEWVIEW => k.prepv < k.view
  <2>1. Counter(c.view, c.phase) < Counter(k.view, k.phase)
    BY <1>1
  <2> QED BY <1>1, <1>3, <2>1, CounterOrder DEF View
<1>6. \A e \in S2 : e.propv >= 1 /\ Counter(e.propv, e.phase) < Counter(k.view, k.phase)
  BY <1>1, <1>2, <1>3 DEF ComponentOK
<1>7. Backed(S2, k.preph, k.prepv)
  BY DEF ComponentOK, Backed, NamedBy
<1>8. \A e \in S2 : Kept(S2, e) => Kept(Sp, e)
  BY DEF Kept, InTurn, IsReport
<1>9. \A e \in S2 : Kept(S2, e) => e.propv <= k.prepv
  <2> SUFFICES ASSUME NEW e \in S2, Kept(S2, e) PROVE e.propv <= k.prepv
    OBVIOUS
  <2>1. CASE e \in Sp
    <3>1. e.propv <= c.prepv
      BY <1>8, <2>1 DEF ComponentOK
    <3> QED BY <1>1, <1>2, <1>3, <3>1 DEF View
  <2>2. CASE e = d
    BY <1>1, <1>8, <2>2 DEF View
  <2> QED BY <2>1, <2>2
<1>10. ASSUME NEW n \in S2, IsReport(n) PROVE Truthful(S2, n)
  <2>1. n \in Sp /\ Truthful(Sp, n)
    BY <1>10 DEF ComponentOK, IsReport
  <2>2. ~(d.propv < n.propv)
    <3>1. Counter(n.propv, n.phase) < Counter(c.view, c.phase)
      BY <2>1 DEF ComponentOK
    <3>2. n.propv \in View /\ n.phase \in Phase1
      BY <1>2
    <3>3. n.propv <= c.view
      BY <1>1, <3>1, <3>2, CounterOrder
    <3> QED BY <1>1, <3>2, <3>3 DEF View
  <2> QED BY <1>8, <2>1, <2>2 DEF Truthful, Backed, NamedBy
<1> QED BY <1>4, <1>5, <1>6, <1>7, <1>9, <1>10 DEF ComponentOK

-----------------------------------------------------------------------------
(* Statements and messages *)

\* The three kinds of message are told apart by their type.
LEMMA MessageKinds ==
    ASSUME NEW m \in Message
    PROVE  /\ m.type = "newview" => m \in NewViewMsg
           /\ m.type = "ldrprepare" => m \in LdrPrepareMsg
           /\ m.type # "newview" /\ m.type # "ldrprepare" => m \in CombMsg
           /\ m \in CombMsg => m.type # "newview" /\ m.type # "ldrprepare"
           /\ m \in NewViewMsg => m.type = "newview"
           /\ m \in LdrPrepareMsg => m.type = "ldrprepare"
BY DEF Message, NewViewMsg, LdrPrepareMsg, CombMsg, Phase1

\* Nothing that is backed by signed statements is lost when more are signed.
LEMMA StatementsGrow ==
    ASSUME NEW S, NEW Z, \A p \in Replica : S[p] \subseteq Z[p]
    PROVE  /\ \A d : SignedByQuorum(S, d) => SignedByQuorum(Z, d)
           /\ \A d, kind : \A signers \in SUBSET Replica :
                CombOK(S, d, signers, kind) => CombOK(Z, d, signers, kind)
           /\ \A m \in LdrPrepareMsg : LdrOK(S, m) => LdrOK(Z, m)
           /\ \A m \in Message : MessageOK(S, m) => MessageOK(Z, m)
           /\ \A h \in HostState : LogOK(S, h) => LogOK(Z, h)
           /\ \A h : ExecutedOK(S, h) => ExecutedOK(Z, h)
           /\ \A c : LockOK(S, c) => LockOK(Z, c)
<1>1. \A d : SignedByQuorum(S, d) => SignedByQuorum(Z, d)
  BY DEF SignedByQuorum
<1>2. \A v : QuorumPrepared(S, v) => QuorumPrepared(Z, v)
  BY <1>1 DEF QuorumPrepared
<1>3. \A d, kind : \A signers \in SUBSET Replica :
        CombOK(S, d, signers, kind) => CombOK(Z, d, signers, kind)
  BY <1>2 DEF CombOK
<1>4. \A m \in LdrPrepareMsg : LdrOK(S, m) => LdrOK(Z, m)
  BY DEF LdrOK, LdrPrepareMsg
<1>5. \A m \in NewViewMsg : NewViewOK(S, m) => NewViewOK(Z, m)
  BY DEF NewViewOK, NewViewMsg
<1>6. \A m \in Message : MessageOK(S, m) => MessageOK(Z, m)
  <2> SUFFICES ASSUME NEW m \in Message, MessageOK(S, m) PROVE MessageOK(Z, m)
    OBVIOUS
  <2>1. CASE m.type = "newview"
    BY <1>5, <2>1, MessageKinds DEF MessageOK
  <2>2. CASE m.type = "ldrprepare"
    BY <1>4, <2>2, MessageKinds DEF MessageOK
  <2>3. CASE m.type # "newview" /\ m.type # "ldrprepare"
    <3>1. m \in CombMsg
      BY <2>3, MessageKinds
    <3>2. m.signers \in SUBSET Replica
      BY <3>1 DEF CombMsg
    <3>3. CombOK(S, m.data, m.signers, m.type)
      BY <2>3 DEF MessageOK
    <3> QED BY <1>3, <2>3, <3>2, <3>3 DEF MessageOK
  <2> QED BY <2>1, <2>2, <2>3
<1>7. \A h \in HostState : LogOK(S, h) => LogOK(Z, h)
  <2> SUFFICES ASSUME NEW h \in HostState, LogOK(S, h) PROVE LogOK(Z, h)
    OBVIOUS
  <2>1. /\ h.nvs \subseteq NewView /\ h.ldrs \subseteq LdrPrepareMsg
        /\ h.votes \subseteq Vote /\ h.qcs \subseteq CombMsg
    BY DEF HostState
  <2>2. \A m \in h.nvs : m.data \in Z[m.signer] /\ IsReport(m.data)
    BY <2>1 DEF LogOK, NewView
  <2>3. \A m \in h.ldrs : LdrOK(Z, m)
    BY <1>4, <2>1 DEF LogOK
  <2>4. \A o \in h.votes : CombOK(Z, o.data, {o.signer}, o.kind)
    <3> SUFFICES ASSUME NEW o \in h.votes PROVE CombOK(Z, o.data, {o.signer}, o.kind)
      OBVIOUS
    <3>1. {o.signer} \in SUBSET Replica
      BY <2>1 DEF Vote
    <3> QED BY <1>3, <3>1 DEF LogOK
  <2>5. \A m \in h.qcs : CombOK(Z, m.data, m.signers, m.type)
    <3> SUFFICES ASSUME NEW m \in h.qcs PROVE CombOK(Z, m.data, m.signers, m.type)
      OBVIOUS
    <3>1. m.signers \in SUBSET Replica
      BY <2>1 DEF CombMsg
    <3> QED BY <1>3, <3>1 DEF LogOK
  <2> QED BY <2>2, <2>3, <2>4, <2>5 DEF LogOK
<1>8. \A h : ExecutedOK(S, h) => ExecutedOK(Z, h)
  BY <1>1 DEF ExecutedOK, Decides
<1>9. \A c : LockOK(S, c) => LockOK(Z, c)
  BY <1>1 DEF LockOK
<1> QED BY <1>1, <1>3, <1>4, <1>6, <1>7, <1>8, <1>9

\* What is in a channel is a message.
LEMMA IncomingType ==
    ASSUME NEW w \in World, NEW l \in Replica, NEW m \in Incoming(w.net, l)
    PROVE  m \in Message
<1>1. PICK s \in Replica : m \in {w.net[s][l][i] : i \in DOMAIN w.net[s][l]}
  BY DEF Incoming
<1>2. w.net[s][l] \in Seq(Message)
  BY WorldParts
<1> QED BY <1>1, <1>2, LenProperties, ElementOfSeq

-----------------------------------------------------------------------------
(* A step from world a to world b that touches replica r only *)

\* r alone moves, and takes no statement back.
Near(a, b, r) ==
    /\ a \in World /\ b \in World
    /\ \A p \in Replica \ {r} : /\ b.tc[p] = a.tc[p] /\ b.signed[p] = a.signed[p]
                                /\ b.host[p] = a.host[p] /\ b.net[p] = a.net[p]
    /\ a.signed[r] \subseteq b.signed[r]

\* The other replicas keep their part of the invariant.
LEMMA FrameStep ==
    ASSUME NEW r \in Replica, NEW a, NEW b, Near(a, b, r), Inv(a),
           ComponentOK(b.tc[r], b.signed[r]),
           \/ b.tc[r].lockh = a.tc[r].lockh /\ b.tc[r].lockv = a.tc[r].lockv
           \/ LockOK(b.signed, b.tc[r]),
           StepOK(b.tc[r], b.signed[r], b.host[r]),
           BlocksOK(b.signed[r], b.host[r]),
           LogOK(b.signed, b.host[r]),
           ExecutedOK(b.signed, b.host[r]),
           NamesOK(b.signed, b.host),
           OneBlock(b.signed),
           \A l \in Replica : \A m \in Incoming(b.net, l) :
                m \in Incoming(a.net, l) \/ MessageOK(b.signed, m),
           Routed(b.net, b.host),
           \A p \in Replica : Fresh(b.net, b.host, p)
    PROVE  Inv(b)
<1>1. \A p \in Replica : a.signed[p] \subseteq b.signed[p]
  BY DEF Near
<1>2. ASSUME NEW p \in Replica
      PROVE  /\ ComponentOK(b.tc[p], b.signed[p])
             /\ StepOK(b.tc[p], b.signed[p], b.host[p])
             /\ BlocksOK(b.signed[p], b.host[p])
             /\ LogOK(b.signed, b.host[p])
             /\ ExecutedOK(b.signed, b.host[p])
  <2>1. CASE p = r
    BY <2>1
  <2>2. CASE p # r
    <3>1. b.tc[p] = a.tc[p] /\ b.signed[p] = a.signed[p] /\ b.host[p] = a.host[p]
      BY <2>2 DEF Near
    <3>2. /\ ComponentOK(a.tc[p], a.signed[p])
          /\ StepOK(a.tc[p], a.signed[p], a.host[p])
          /\ BlocksOK(a.signed[p], a.host[p])
          /\ LogOK(a.signed, a.host[p])
          /\ ExecutedOK(a.signed, a.host[p])
      BY DEF Inv
    <3>3. a.host[p] \in HostState
      BY WorldParts DEF Near
    <3>4. LogOK(b.signed, a.host[p]) /\ ExecutedOK(b.signed, a.host[p])
      BY <1>1, <3>2, <3>3, StatementsGrow
    <3> QED BY <3>1, <3>2, <3>4
  <2> QED BY <2>1, <2>2
<1>a. ASSUME NEW p \in Replica PROVE LockOK(b.signed, b.tc[p])
  <2>1. LockOK(b.signed, a.tc[p])
    BY <1>1, StatementsGrow DEF Inv
  <2>2. CASE p = r
    <3>1. b.tc[r].lockh = a.tc[r].lockh /\ b.tc[r].lockv = a.tc[r].lockv
            => LockOK(b.signed, b.tc[r])
      BY <2>1, <2>2 DEF LockOK
    <3> QED BY <2>2, <3>1
  <2>3. CASE p # r
    BY <2>1, <2>3 DEF Near
  <2> QED BY <2>2, <2>3
<1>3. ChannelsOK(b.signed, b.net)
  <2> SUFFICES ASSUME NEW l \in Replica, NEW m \in Incoming(b.net, l)
               PROVE  MessageOK(b.signed, m)
    BY DEF ChannelsOK
  <2>1. CASE m \in Incoming(a.net, l)
    <3>1. m \in Message
      BY <2>1, IncomingType DEF Near
    <3>2. MessageOK(a.signed, m)
      BY <2>1 DEF Inv, ChannelsOK
    <3> QED BY <1>1, <3>1, <3>2, StatementsGrow
  <2> QED BY <2>1
<1> QED BY <1>2, <1>a, <1>3 DEF Inv

\* Statements that repeat what is named already need no new proposal.
LEMMA NamesStep ==
    ASSUME NEW r \in Replica, NEW a, NEW b, Near(a, b, r), Inv(a),
           a.host[r].processedNewViews \subseteq b.host[r].processedNewViews,
           a.host[r].nvs \subseteq b.host[r].nvs,
           \A d \in b.signed[r] : Names(d) =>
                \E q \in Replica : NamedBy(a.signed[q], d.proph, d.propv)
    PROVE  NamesOK(b.signed, b.host) /\ OneBlock(b.signed)
<1>1. \A p \in Replica : \A d \in b.signed[p] : Names(d) =>
        \E q \in Replica : NamedBy(a.signed[q], d.proph, d.propv)
  BY DEF Near, NamedBy
<1>2. \A h, v : Justified(a.host, h, v) => Justified(b.host, h, v)
  <2>1. \A l \in Replica : /\ a.host[l].processedNewViews \subseteq b.host[l].processedNewViews
                           /\ a.host[l].nvs \subseteq b.host[l].nvs
    BY DEF Near
  <2> QED BY <2>1 DEF Justified
<1>3. NamesOK(b.signed, b.host)
  BY <1>1, <1>2 DEF NamesOK, NamedBy, Inv
<1>4. OneBlock(b.signed)
  <2> SUFFICES ASSUME NEW p \in Replica, NEW q \in Replica,
                      NEW d \in b.signed[p], NEW e \in b.signed[q],
                      Names(d), Names(e), d.propv = e.propv
               PROVE  d.proph = e.proph
    BY DEF OneBlock
  <2>1. PICK k \in Replica : NamedBy(a.signed[k], d.proph, d.propv)
    BY <1>1
  <2>2. PICK l \in Replica : NamedBy(a.signed[l], e.proph, e.propv)
    BY <1>1
  <2> QED BY <2>1, <2>2 DEF NamedBy, Inv, OneBlock
<1> QED BY <1>3, <1>4

\* Fresh is about the host of p alone.
LEMMA FreshSame ==
    ASSUME NEW N, NEW H, NEW J, NEW p, Fresh(N, H, p), J[p] = H[p]
    PROVE  Fresh(N, J, p)
BY DEF Fresh

(***************************************************************************)
(* A step in which r signs and changes its view, its blocks or its         *)
(* processed views, but neither its log nor its channels.                  *)
(***************************************************************************)
LEMMA SignStep ==
    ASSUME NEW r \in Replica, NEW a, NEW b, Near(a, b, r), Inv(a),
           b.net = a.net,
           b.host[r].nvs = a.host[r].nvs, b.host[r].ldrs = a.host[r].ldrs,
           b.host[r].votes = a.host[r].votes, b.host[r].qcs = a.host[r].qcs,
           b.host[r].executed = a.host[r].executed,
           ComponentOK(b.tc[r], b.signed[r]),
           \/ b.tc[r].lockh = a.tc[r].lockh /\ b.tc[r].lockv = a.tc[r].lockv
           \/ LockOK(b.signed, b.tc[r]),
           StepOK(b.tc[r], b.signed[r], b.host[r]),
           BlocksOK(b.signed[r], b.host[r]),
           NamesOK(b.signed, b.host),
           OneBlock(b.signed),
           Fresh(b.net, b.host, r)
    PROVE  Inv(b)
<1>1. \A p \in Replica : a.signed[p] \subseteq b.signed[p]
  BY DEF Near
<1>2. LogOK(b.signed, b.host[r]) /\ ExecutedOK(b.signed, b.host[r])
  <2>1. a.host[r] \in HostState
    BY WorldParts DEF Near
  <2>2. LogOK(b.signed, a.host[r]) /\ ExecutedOK(b.signed, a.host[r])
    BY <1>1, <2>1, StatementsGrow DEF Inv
  <2> QED BY <2>2 DEF LogOK, ExecutedOK
<1>3. \A l \in Replica : Reports(b.net, b.host, l) = Reports(a.net, a.host, l)
  BY DEF Near, Reports
<1>4. Routed(b.net, b.host)
  BY <1>3 DEF Inv, Routed
<1>5. \A p \in Replica : Fresh(b.net, b.host, p)
  <2> SUFFICES ASSUME NEW p \in Replica, p # r PROVE Fresh(b.net, b.host, p)
    OBVIOUS
  <2>1. b.host[p] = a.host[p] /\ Fresh(a.net, a.host, p)
    BY DEF Near, Inv
  <2> QED BY <2>1, FreshSame
<1> QED BY <1>2, <1>4, <1>5, FrameStep

-----------------------------------------------------------------------------
(* Channels *)

\* A message goes to the end of a channel.
LEMMA AppendChannel ==
    ASSUME NEW q \in Seq(Message), NEW m \in Message
    PROVE  /\ Append(q, m) \in Seq(Message)
           /\ Len(q) + 1 \notin DOMAIN q
           /\ DOMAIN Append(q, m) = DOMAIN q \cup {Len(q) + 1}
           /\ \A i \in DOMAIN q : Append(q, m)[i] = q[i]
           /\ Append(q, m)[Len(q) + 1] = m
<1> DEFINE c == Append(q, m)
<1>1. /\ c \in Seq(Message) /\ Len(c) = Len(q) + 1
      /\ \A i \in 1 .. Len(q) : c[i] = q[i]
      /\ c[Len(q) + 1] = m
  BY AppendProperties
<1>2. Len(q) \in Nat /\ DOMAIN q = 1 .. Len(q) /\ DOMAIN c = 1 .. Len(c)
  BY <1>1, LenProperties
<1>3. 1 .. Len(q) + 1 = (1 .. Len(q)) \cup {Len(q) + 1}
  BY <1>2
<1> QED BY <1>1, <1>2, <1>3

\* Channels to which at most one message of M was added.
LEMMA NetGrows ==
    ASSUME NEW N \in [Replica -> [Replica -> Seq(Message)]], NEW Z,
           NEW M, M \subseteq Message,
           \A s, l \in Replica : \/ Z[s][l] = N[s][l]
                                 \/ \E m \in M : Z[s][l] = Append(N[s][l], m)
    PROVE  /\ \A l \in Replica : /\ Incoming(N, l) \subseteq Incoming(Z, l)
                                 /\ Incoming(Z, l) \subseteq Incoming(N, l) \cup M
           /\ \A s, l \in Replica : \A i \in DOMAIN Z[s][l] :
                \/ i \in DOMAIN N[s][l] /\ Z[s][l][i] = N[s][l][i]
                \/ i = Len(N[s][l]) + 1 /\ Z[s][l][i] \in M
<1>1. ASSUME NEW s \in Replica, NEW l \in Replica
      PROVE  /\ \A i \in DOMAIN N[s][l] : i \in DOMAIN Z[s][l] /\ Z[s][l][i] = N[s][l][i]
             /\ \A i \in DOMAIN Z[s][l] :
                    \/ i \in DOMAIN N[s][l] /\ Z[s][l][i] = N[s][l][i]
                    \/ i = Len(N[s][l]) + 1 /\ Z[s][l][i] \in M
  <2>1. CASE Z[s][l] = N[s][l]
    BY <2>1
  <2>2. CASE \E m \in M : Z[s][l] = Append(N[s][l], m)
    <3>1. PICK m \in M : Z[s][l] = Append(N[s][l], m)
      BY <2>2
    <3>2. N[s][l] \in Seq(Message) /\ m \in Message
      OBVIOUS
    <3> QED BY <3>1, <3>2, AppendChannel
  <2> QED BY <2>1, <2>2
<1>2. ASSUME NEW l \in Replica
      PROVE  /\ Incoming(N, l) \subseteq Incoming(Z, l)
             /\ Incoming(Z, l) \subseteq Incoming(N, l) \cup M
  <2>1. ASSUME NEW m \in Incoming(N, l) PROVE m \in Incoming(Z, l)
    <3>1. PICK s \in Replica : \E i \in DOMAIN N[s][l] : m = N[s][l][i]
      BY DEF Incoming
    <3>2. \E i \in DOMAIN Z[s][l] : m = Z[s][l][i]
      BY <1>1, <3>1
    <3> QED BY <3>2 DEF Incoming
  <2>2. ASSUME NEW m \in Incoming(Z, l) PROVE m \in Incoming(N, l) \cup M
    <3>1. PICK s \in Replica : \E i \in DOMAIN Z[s][l] : m = Z[s][l][i]
      BY DEF Incoming
    <3>2. m \in M \/ \E i \in DOMAIN N[s][l] : m = N[s][l][i]
      BY <1>1, <3>1
    <3> QED BY <3>2 DEF Incoming
  <2> QED BY <2>1, <2>2
<1> QED BY <1>1, <1>2

\* The proposals on their way to p in channels Z are where they are in channels N.
NoMoreProposals(N, Z, p) ==
    \A s \in Replica : \A i \in DOMAIN Z[s][p] : Z[s][p][i].type = "ldrprepare" =>
        i \in DOMAIN N[s][p] /\ Z[s][p][i] = N[s][p][i]

\* What SentOnce says of two proposals of one view.
LEMMA SentOnceUse ==
    ASSUME NEW N, NEW p \in Replica, SentOnce(N, p), NEW s \in Replica, NEW q \in Replica,
           NEW i \in DOMAIN N[s][p], NEW j \in DOMAIN N[q][p],
           N[s][p][i].type = "ldrprepare", N[q][p][j].type = "ldrprepare",
           N[s][p][i].acc.view = N[q][p][j].acc.view
    PROVE  s = q /\ i = j
BY DEF SentOnce

\* Where neither proposals nor r's log of them change, Fresh stays.
LEMMA FreshKept ==
    ASSUME NEW N, NEW Z, NEW H, NEW J, NEW p \in Replica, Fresh(N, H, p),
           NoMoreProposals(N, Z, p),
           J[p].blocks = H[p].blocks, J[p].ldrs = H[p].ldrs, J[p].view = H[p].view,
           J[p].catchup => H[p].catchup
    PROVE  Fresh(Z, J, p)
<1>1. \A m \in Incoming(Z, p) : m.type = "ldrprepare" => m \in Incoming(N, p)
  BY DEF Incoming, NoMoreProposals
<1>2. ASSUME NEW s \in Replica, NEW q \in Replica,
             NEW i \in DOMAIN Z[s][p], NEW j \in DOMAIN Z[q][p],
             Z[s][p][i].type = "ldrprepare", Z[q][p][j].type = "ldrprepare",
             Z[s][p][i].acc.view = Z[q][p][j].acc.view
      PROVE  s = q /\ i = j
  <2>1. i \in DOMAIN N[s][p] /\ N[s][p][i] = Z[s][p][i]
    BY <1>2 DEF NoMoreProposals
  <2>2. j \in DOMAIN N[q][p] /\ N[q][p][j] = Z[q][p][j]
    BY <1>2 DEF NoMoreProposals
  <2>3. SentOnce(N, p)
    BY DEF Fresh
  <2>4. /\ N[s][p][i].type = "ldrprepare" /\ N[q][p][j].type = "ldrprepare"
        /\ N[s][p][i].acc.view = N[q][p][j].acc.view
    BY <1>2, <2>1, <2>2
  <2>5. i \in DOMAIN N[s][p] /\ j \in DOMAIN N[q][p]
    BY <2>1, <2>2
  <2> QED BY <2>3, <2>4, <2>5, SentOnceUse
<1>3. \A m \in Incoming(Z, p) : m.type = "ldrprepare" =>
          /\ m.acc.view \notin DOMAIN J[p].blocks
          /\ \A o \in J[p].ldrs : o.acc.view # m.acc.view
  BY <1>1 DEF Fresh
<1>4. J[p].catchup => /\ J[p].view \notin DOMAIN J[p].blocks
                      /\ \E o \in J[p].ldrs : o.acc.view = J[p].view
  BY DEF Fresh
<1>5. SentOnce(Z, p)
  BY <1>2 DEF SentOnce
<1> QED BY <1>3, <1>4, <1>5 DEF Fresh

(***************************************************************************)
(* A step in which r's component does nothing, and r logs or sends votes   *)
(* and certificates, executes, or changes what the invariant is not about. *)
(***************************************************************************)
LEMMA QuietStep ==
    ASSUME NEW r \in Replica, NEW a, NEW b, Near(a, b, r), Inv(a),
           b.tc[r] = a.tc[r], b.signed[r] = a.signed[r],
           b.host[r].view = a.host[r].view, b.host[r].started = a.host[r].started,
           b.host[r].blocks = a.host[r].blocks, b.host[r].nvs = a.host[r].nvs,
           b.host[r].processedNewViews = a.host[r].processedNewViews,
           b.host[r].ldrs = a.host[r].ldrs,
           b.host[r].catchup => a.host[r].catchup,
           \A o \in b.host[r].votes :
                o \in a.host[r].votes \/ CombOK(a.signed, o.data, {o.signer}, o.kind),
           \A m \in b.host[r].qcs :
                m \in a.host[r].qcs \/ CombOK(a.signed, m.data, m.signers, m.type),
           ExecutedOK(a.signed, b.host[r]),
           \A l \in Replica :
                \/ b.net[r][l] = a.net[r][l]
                \/ \E m \in CombMsg : /\ b.net[r][l] = Append(a.net[r][l], m)
                                      /\ CombOK(a.signed, m.data, m.signers, m.type)
    PROVE  Inv(b)
<1> DEFINE M == {m \in CombMsg : CombOK(a.signed, m.data, m.signers, m.type)}
<1>1. /\ a.net \in [Replica -> [Replica -> Seq(Message)]]
      /\ a.signed \in [Replica -> SUBSET RData] /\ b.signed \in [Replica -> SUBSET RData]
  BY DEF Near, World
<1>2. b.signed = a.signed
  <2>1. \A p \in Replica : b.signed[p] = a.signed[p]
    BY DEF Near
  <2> QED BY <1>1, <2>1
<1>3. M \subseteq Message /\ \A m \in M : m.type # "newview" /\ m.type # "ldrprepare"
  <2>1. \A m \in M : m \in CombMsg /\ m \in Message
    BY DEF Message
  <2> QED BY <2>1, MessageKinds
<1>4. \A s, l \in Replica : \/ b.net[s][l] = a.net[s][l]
                            \/ \E m \in M : b.net[s][l] = Append(a.net[s][l], m)
  <2> SUFFICES ASSUME NEW s \in Replica, NEW l \in Replica
               PROVE  \/ b.net[s][l] = a.net[s][l]
                      \/ \E m \in M : b.net[s][l] = Append(a.net[s][l], m)
    OBVIOUS
  <2>1. CASE s # r
    <3>1. b.net[s] = a.net[s]
      BY <2>1 DEF Near
    <3> QED BY <3>1
  <2>2. CASE s = r
    BY <2>2
  <2> QED BY <2>1, <2>2
<1>5. /\ \A l \in Replica : Incoming(b.net, l) \subseteq Incoming(a.net, l) \cup M
      /\ \A s, l \in Replica : \A i \in DOMAIN b.net[s][l] :
                \/ i \in DOMAIN a.net[s][l] /\ b.net[s][l][i] = a.net[s][l][i]
                \/ b.net[s][l][i] \in M
  BY <1>1, <1>3, <1>4, NetGrows
<1>6. \A l \in Replica : \A m \in Incoming(b.net, l) :
        m \in Incoming(a.net, l) \/ MessageOK(b.signed, m)
  <2>1. \A m \in M : MessageOK(b.signed, m)
    BY <1>2, <1>3 DEF MessageOK
  <2> HIDE DEF M
  <2> SUFFICES ASSUME NEW l \in Replica, NEW m \in Incoming(b.net, l)
               PROVE  m \in Incoming(a.net, l) \/ MessageOK(b.signed, m)
    OBVIOUS
  <2>2. m \in Incoming(a.net, l) \/ m \in M
    BY <1>5
  <2> QED BY <2>1, <2>2
<1>7. Routed(b.net, b.host)
  <2>1. \A l \in Replica : Reports(b.net, b.host, l) \subseteq Reports(a.net, a.host, l)
    <3> SUFFICES ASSUME NEW l \in Replica, NEW m \in Reports(b.net, b.host, l)
                 PROVE  m \in Reports(a.net, a.host, l)
      OBVIOUS
    <3>1. b.host[l].nvs = a.host[l].nvs
      BY DEF Near
    <3>2. \A o \in M : o.type # "newview"
      BY <1>3
    <3> HIDE DEF M
    <3>3. CASE m \in b.host[l].nvs
      BY <3>1, <3>3 DEF Reports
    <3>4. CASE m \in Incoming(b.net, l) /\ m.type = "newview" /\ IsReport(m.data)
      <4>1. m \in Incoming(a.net, l)
        BY <1>5, <3>2, <3>4
      <4> QED BY <3>4, <4>1 DEF Reports
    <3> QED BY <3>3, <3>4 DEF Reports
  <2> QED BY <2>1 DEF Inv, Routed
<1>8. \A p \in Replica : Fresh(b.net, b.host, p)
  <2> SUFFICES ASSUME NEW p \in Replica PROVE Fresh(b.net, b.host, p)
    OBVIOUS
  <2>1. Fresh(a.net, a.host, p)
    BY DEF Inv
  <2>2. /\ b.host[p].blocks = a.host[p].blocks /\ b.host[p].ldrs = a.host[p].ldrs
        /\ b.host[p].view = a.host[p].view
        /\ b.host[p].catchup => a.host[p].catchup
    BY DEF Near
  <2> HIDE DEF M
  <2>3. NoMoreProposals(a.net, b.net, p)
    BY <1>3, <1>5 DEF NoMoreProposals
  <2> QED BY <2>1, <2>2, <2>3, FreshKept
<1>9. NamesOK(b.signed, b.host) /\ OneBlock(b.signed)
  <2>1. \A d \in b.signed[r] : Names(d) =>
            \E q \in Replica : NamedBy(a.signed[q], d.proph, d.propv)
    BY DEF NamedBy
  <2> QED BY <2>1, NamesStep
<1>10. /\ ComponentOK(b.tc[r], b.signed[r])
       /\ StepOK(b.tc[r], b.signed[r], b.host[r])
       /\ BlocksOK(b.signed[r], b.host[r])
  <2>1. /\ ComponentOK(a.tc[r], a.signed[r])
        /\ StepOK(a.tc[r], a.signed[r], a.host[r])
        /\ BlocksOK(a.signed[r], a.host[r])
    BY DEF Inv
  <2> QED BY <2>1 DEF StepOK, Late, HasBlock, BlocksOK
<1>11. LogOK(b.signed, b.host[r])
  <2>1. LogOK(a.signed, a.host[r])
    BY DEF Inv
  <2> QED BY <1>2, <2>1 DEF LogOK
<1> HIDE DEF M
<1> QED BY <1>2, <1>6, <1>7, <1>8, <1>9, <1>10, <1>11, FrameStep

-----------------------------------------------------------------------------
(* Logging and sending new-views and proposals *)

\* What a step keeps in which r's component does nothing and r stays in its view.
LEMMA IdleComponent ==
    ASSUME NEW r \in Replica, NEW a, NEW b, Near(a, b, r), Inv(a),
           b.tc[r] = a.tc[r], b.signed[r] = a.signed[r],
           b.host[r].view = a.host[r].view, b.host[r].started = a.host[r].started,
           b.host[r].blocks = a.host[r].blocks,
           b.host[r].executed = a.host[r].executed,
           b.host[r].processedNewViews = a.host[r].processedNewViews,
           a.host[r].nvs \subseteq b.host[r].nvs
    PROVE  /\ b.signed = a.signed
           /\ ComponentOK(b.tc[r], b.signed[r])
           /\ StepOK(b.tc[r], b.signed[r], b.host[r])
           /\ BlocksOK(b.signed[r], b.host[r])
           /\ ExecutedOK(b.signed, b.host[r])
           /\ NamesOK(b.signed, b.host) /\ OneBlock(b.signed)
<1>1. b.signed = a.signed
  <2>1. \A p \in Replica : b.signed[p] = a.signed[p]
    BY DEF Near
  <2>2. a.signed \in [Replica -> SUBSET RData] /\ b.signed \in [Replica -> SUBSET RData]
    BY DEF Near, World
  <2> QED BY <2>1, <2>2
<1>2. NamesOK(b.signed, b.host) /\ OneBlock(b.signed)
  <2>1. \A d \in b.signed[r] : Names(d) =>
            \E q \in Replica : NamedBy(a.signed[q], d.proph, d.propv)
    BY DEF NamedBy
  <2> QED BY <2>1, NamesStep
<1>3. /\ ComponentOK(a.tc[r], a.signed[r])
      /\ StepOK(a.tc[r], a.signed[r], a.host[r])
      /\ BlocksOK(a.signed[r], a.host[r])
      /\ ExecutedOK(a.signed, a.host[r])
  BY DEF Inv
<1>4. StepOK(b.tc[r], b.signed[r], b.host[r]) /\ BlocksOK(b.signed[r], b.host[r])
  BY <1>3 DEF StepOK, Late, HasBlock, BlocksOK
<1>5. ExecutedOK(b.signed, b.host[r])
  BY <1>1, <1>3 DEF ExecutedOK
<1> QED BY <1>1, <1>2, <1>3, <1>4, <1>5

\* r logs proposal m, the only one of its view that reaches r.
LEMMA LogProposalStep ==
    ASSUME NEW r \in Replica, NEW a, NEW b, Near(a, b, r), Inv(a),
           NEW m \in LdrPrepareMsg, LdrOK(a.signed, m),
           \A o \in Incoming(a.net, r) : o.type = "ldrprepare" => o.acc.view # m.acc.view,
           b.tc[r] = a.tc[r], b.signed[r] = a.signed[r], b.net = a.net,
           b.host[r] = [a.host[r] EXCEPT !.ldrs = @ \cup {m}]
    PROVE  Inv(b)
<1> DEFINE h == a.host[r]
           k == b.host[r]
<1>1. h \in HostState
  BY WorldParts DEF Near
<1>2. /\ k.view = h.view /\ k.started = h.started /\ k.blocks = h.blocks
      /\ k.executed = h.executed /\ k.processedNewViews = h.processedNewViews
      /\ k.nvs = h.nvs /\ k.votes = h.votes /\ k.qcs = h.qcs /\ k.catchup = h.catchup
      /\ k.ldrs = h.ldrs \cup {m}
  BY <1>1 DEF HostState
<1> HIDE DEF h, k
<1>3. /\ b.signed = a.signed
      /\ ComponentOK(b.tc[r], b.signed[r])
      /\ StepOK(b.tc[r], b.signed[r], b.host[r])
      /\ BlocksOK(b.signed[r], b.host[r])
      /\ ExecutedOK(b.signed, b.host[r])
      /\ NamesOK(b.signed, b.host) /\ OneBlock(b.signed)
  BY <1>2, IdleComponent DEF h, k
<1>4. LogOK(b.signed, b.host[r])
  <2>1. LogOK(a.signed, h)
    BY DEF Inv, h
  <2>2. LogOK(a.signed, k)
    BY <1>2, <2>1 DEF LogOK
  <2> QED BY <1>3, <2>2 DEF k
<1>5. \A l \in Replica : b.host[l].nvs = a.host[l].nvs
  BY <1>2 DEF Near, h, k
<1>6. Routed(b.net, b.host)
  <2>1. \A l \in Replica : Reports(b.net, b.host, l) = Reports(a.net, a.host, l)
    BY <1>5 DEF Reports
  <2> QED BY <2>1 DEF Inv, Routed
<1>7. \A p \in Replica : Fresh(b.net, b.host, p)
  <2> SUFFICES ASSUME NEW p \in Replica PROVE Fresh(b.net, b.host, p)
    OBVIOUS
  <2>1. Fresh(a.net, a.host, p)
    BY DEF Inv
  <2>2. CASE p # r
    <3>1. b.host[p] = a.host[p]
      BY <2>2 DEF Near
    <3> QED BY <2>1, <3>1, FreshSame
  <2>3. CASE p = r
    <3>1. /\ b.host[p].blocks = a.host[p].blocks
          /\ b.host[p].ldrs = a.host[p].ldrs \cup {m}
          /\ b.host[p].view = a.host[p].view /\ b.host[p].catchup = a.host[p].catchup
      BY <1>2, <2>3 DEF h, k
    <3>2. \A o \in Incoming(b.net, p) : o.type = "ldrprepare" =>
            /\ o.acc.view \notin DOMAIN b.host[p].blocks
            /\ \A x \in b.host[p].ldrs : x.acc.view # o.acc.view
      BY <2>1, <2>3, <3>1 DEF Fresh
    <3>3. b.host[p].catchup => /\ b.host[p].view \notin DOMAIN b.host[p].blocks
                               /\ \E o \in b.host[p].ldrs : o.acc.view = b.host[p].view
      BY <2>1, <3>1 DEF Fresh
    <3> QED BY <2>1, <3>2, <3>3 DEF Fresh
  <2> QED BY <2>2, <2>3
<1> QED BY <1>3, <1>4, <1>6, <1>7, FrameStep

\* r logs a report that no other replica has.
LEMMA LogReportStep ==
    ASSUME NEW r \in Replica, NEW a, NEW b, Near(a, b, r), Inv(a),
           NEW m \in NewView, m.data \in a.signed[m.signer], IsReport(m.data),
           \A l \in Replica : \A o \in Reports(a.net, a.host, l) :
                o.signer = m.signer /\ o.data.propv = m.data.propv => l = r,
           b.tc[r] = a.tc[r], b.signed[r] = a.signed[r], b.net = a.net,
           b.host[r] = [a.host[r] EXCEPT !.nvs = @ \cup {m}]
    PROVE  Inv(b)
<1> DEFINE h == a.host[r]
           k == b.host[r]
<1>1. h \in HostState
  BY WorldParts DEF Near
<1>2. /\ k.view = h.view /\ k.started = h.started /\ k.blocks = h.blocks
      /\ k.executed = h.executed /\ k.processedNewViews = h.processedNewViews
      /\ k.ldrs = h.ldrs /\ k.votes = h.votes /\ k.qcs = h.qcs /\ k.catchup = h.catchup
      /\ k.nvs = h.nvs \cup {m}
  BY <1>1 DEF HostState
<1> HIDE DEF h, k
<1>3. /\ b.signed = a.signed
      /\ ComponentOK(b.tc[r], b.signed[r])
      /\ StepOK(b.tc[r], b.signed[r], b.host[r])
      /\ BlocksOK(b.signed[r], b.host[r])
      /\ ExecutedOK(b.signed, b.host[r])
      /\ NamesOK(b.signed, b.host) /\ OneBlock(b.signed)
  BY <1>2, IdleComponent DEF h, k
<1>4. LogOK(b.signed, b.host[r])
  <2>1. LogOK(a.signed, h)
    BY DEF Inv, h
  <2>2. LogOK(a.signed, k)
    BY <1>2, <2>1 DEF LogOK
  <2> QED BY <1>3, <2>2 DEF k
<1>5. \A l \in Replica : \A o \in Reports(b.net, b.host, l) :
        o \in Reports(a.net, a.host, l) \/ (o = m /\ l = r)
  <2> SUFFICES ASSUME NEW l \in Replica, NEW o \in Reports(b.net, b.host, l)
               PROVE  o \in Reports(a.net, a.host, l) \/ (o = m /\ l = r)
    OBVIOUS
  <2>1. CASE l # r
    <3>1. b.host[l] = a.host[l]
      BY <2>1 DEF Near
    <3> QED BY <3>1 DEF Reports
  <2>2. CASE l = r
    BY <1>2, <2>2 DEF Reports, h, k
  <2> QED BY <2>1, <2>2
<1>6. Routed(b.net, b.host)
  <2>1. Routed(a.net, a.host)
    BY DEF Inv
  <2> SUFFICES ASSUME NEW p \in Replica, NEW l \in Replica,
                      NEW x \in Reports(b.net, b.host, p), NEW o \in Reports(b.net, b.host, l),
                      x.signer = o.signer, x.data.propv = o.data.propv
               PROVE  p = l
    BY DEF Routed
  <2> QED BY <1>5, <2>1 DEF Routed
<1>7. \A p \in Replica : Fresh(b.net, b.host, p)
  <2> SUFFICES ASSUME NEW p \in Replica PROVE Fresh(b.net, b.host, p)
    OBVIOUS
  <2>1. Fresh(a.net, a.host, p)
    BY DEF Inv
  <2>2. CASE p # r
    <3>1. b.host[p] = a.host[p]
      BY <2>2 DEF Near
    <3> QED BY <2>1, <3>1, FreshSame
  <2>3. CASE p = r
    <3>1. /\ b.host[p].blocks = a.host[p].blocks /\ b.host[p].ldrs = a.host[p].ldrs
          /\ b.host[p].view = a.host[p].view /\ b.host[p].catchup = a.host[p].catchup
      BY <1>2, <2>3 DEF h, k
    <3>2. NoMoreProposals(a.net, b.net, p)
      BY DEF NoMoreProposals
    <3> QED BY <2>1, <3>1, <3>2, FreshKept
  <2> QED BY <2>2, <2>3
<1> QED BY <1>3, <1>4, <1>6, <1>7, FrameStep

\* The only message that r sends between worlds a and b is m, to p.
Sends(a, b, r, p, m) ==
    \A l \in Replica : b.net[r][l] = IF l = p THEN Append(a.net[r][l], m) ELSE a.net[r][l]

\* r sends a new-view that nobody has yet to replica p.
LEMMA SendNewViewStep ==
    ASSUME NEW r \in Replica, NEW a, NEW b, Near(a, b, r), Inv(a),
           NEW m \in NewViewMsg, NewViewOK(a.signed, m),
           IsReport(m.data) => \A l \in Replica : \A o \in Reports(a.net, a.host, l) :
                ~(o.signer = m.signer /\ o.data.propv = m.data.propv),
           NEW p, Sends(a, b, r, p, m),
           b.tc[r] = a.tc[r], b.signed[r] = a.signed[r], b.host[r] = a.host[r]
    PROVE  Inv(b)
<1>0. \A l \in Replica : b.net[r][l] = IF l = p THEN Append(a.net[r][l], m)
                                       ELSE a.net[r][l]
  BY DEF Sends
<1>1. /\ b.signed = a.signed
      /\ ComponentOK(b.tc[r], b.signed[r])
      /\ StepOK(b.tc[r], b.signed[r], b.host[r])
      /\ BlocksOK(b.signed[r], b.host[r])
      /\ ExecutedOK(b.signed, b.host[r])
      /\ NamesOK(b.signed, b.host) /\ OneBlock(b.signed)
  BY IdleComponent
<1>2. LogOK(b.signed, b.host[r])
  BY <1>1 DEF Inv
<1>3. a.net \in [Replica -> [Replica -> Seq(Message)]]
  BY DEF Near, World
<1>4. {m} \subseteq Message /\ m.type = "newview"
  BY MessageKinds DEF Message, NewViewMsg
<1>5. \A s, l \in Replica : \/ b.net[s][l] = a.net[s][l]
                            \/ \E x \in {m} : b.net[s][l] = Append(a.net[s][l], x)
  <2> SUFFICES ASSUME NEW s \in Replica, NEW l \in Replica
               PROVE  \/ b.net[s][l] = a.net[s][l]
                      \/ b.net[s][l] = Append(a.net[s][l], m)
    OBVIOUS
  <2>1. CASE s # r
    <3>1. b.net[s] = a.net[s]
      BY <2>1 DEF Near
    <3> QED BY <3>1
  <2>2. CASE s = r
    BY <1>0, <2>2
  <2> QED BY <2>1, <2>2
<1>6. /\ \A l \in Replica : Incoming(b.net, l) \subseteq Incoming(a.net, l) \cup {m}
      /\ \A s, l \in Replica : \A i \in DOMAIN b.net[s][l] :
                \/ i \in DOMAIN a.net[s][l] /\ b.net[s][l][i] = a.net[s][l][i]
                \/ b.net[s][l][i] \in {m}
  <2> DEFINE M == {m}
             N == a.net
             Z == b.net
  <2>1. N \in [Replica -> [Replica -> Seq(Message)]] /\ M \subseteq Message
    BY <1>3, <1>4
  <2>2. \A s, l \in Replica : Z[s][l] = N[s][l] \/ \E x \in M : Z[s][l] = Append(N[s][l], x)
    BY <1>5
  <2> HIDE DEF M, N, Z
  <2>3. /\ \A l \in Replica : Incoming(Z, l) \subseteq Incoming(N, l) \cup M
        /\ \A s, l \in Replica : \A i \in DOMAIN Z[s][l] :
                \/ i \in DOMAIN N[s][l] /\ Z[s][l][i] = N[s][l][i]
                \/ Z[s][l][i] \in M
    BY <2>1, <2>2, NetGrows
  <2> QED BY <2>3 DEF M, N, Z
<1>7. \A l \in Replica \ {p} : Incoming(b.net, l) = Incoming(a.net, l)
  <2> SUFFICES ASSUME NEW l \in Replica, l # p
               PROVE  Incoming(b.net, l) = Incoming(a.net, l)
    OBVIOUS
  <2>1. \A s \in Replica : b.net[s][l] = a.net[s][l]
    <3> SUFFICES ASSUME NEW s \in Replica PROVE b.net[s][l] = a.net[s][l]
      OBVIOUS
    <3>1. CASE s # r
      <4>1. b.net[s] = a.net[s]
        BY <3>1 DEF Near
      <4> QED BY <4>1
    <3>2. CASE s = r
      BY <1>0, <3>2
    <3> QED BY <3>1, <3>2
  <2> QED BY <2>1 DEF Incoming
<1>8. \A l \in Replica : \A x \in Incoming(b.net, l) :
        x \in Incoming(a.net, l) \/ MessageOK(b.signed, x)
  <2>1. MessageOK(b.signed, m)
    BY <1>1, <1>4 DEF MessageOK
  <2> QED BY <1>6, <2>1
<1>9. \A l \in Replica : \A o \in Reports(b.net, b.host, l) :
        o \in Reports(a.net, a.host, l) \/ (o = m /\ l = p /\ IsReport(m.data))
  <2> SUFFICES ASSUME NEW l \in Replica, NEW o \in Reports(b.net, b.host, l)
               PROVE  o \in Reports(a.net, a.host, l) \/ (o = m /\ l = p /\ IsReport(m.data))
    OBVIOUS
  <2>1. b.host[l] = a.host[l]
    BY DEF Near
  <2> QED BY <1>6, <1>7, <2>1 DEF Reports
<1>10. Routed(b.net, b.host)
  <2>1. Routed(a.net, a.host)
    BY DEF Inv
  <2> SUFFICES ASSUME NEW k \in Replica, NEW l \in Replica,
                      NEW x \in Reports(b.net, b.host, k), NEW o \in Reports(b.net, b.host, l),
                      x.signer = o.signer, x.data.propv = o.data.propv
               PROVE  k = l
    BY DEF Routed
  <2> QED BY <1>9, <2>1 DEF Routed
<1>11. \A q \in Replica : Fresh(b.net, b.host, q)
  <2> SUFFICES ASSUME NEW q \in Replica PROVE Fresh(b.net, b.host, q)
    OBVIOUS
  <2>1. Fresh(a.net, a.host, q) /\ b.host[q] = a.host[q]
    BY DEF Inv, Near
  <2>2. \A s \in Replica : \A i \in DOMAIN b.net[s][q] :
            b.net[s][q][i].type = "ldrprepare" =>
                i \in DOMAIN a.net[s][q] /\ b.net[s][q][i] = a.net[s][q][i]
    BY <1>4, <1>6
  <2>3. NoMoreProposals(a.net, b.net, q)
    BY <2>2 DEF NoMoreProposals
  <2> QED BY <2>1, <2>3, FreshKept
<1> QED BY <1>1, <1>2, <1>8, <1>10, <1>11, FrameStep

\* r has, or has no longer, to replay the proposal it logged for its view.
LEMMA CatchupStep ==
    ASSUME NEW r \in Replica, NEW a, NEW b, Near(a, b, r), Inv(a),
           NEW s \in BOOLEAN,
           s => /\ a.host[r].view \notin DOMAIN a.host[r].blocks
                /\ \E o \in a.host[r].ldrs : o.acc.view = a.host[r].view,
           b.tc[r] = a.tc[r], b.signed[r] = a.signed[r], b.net = a.net,
           b.host[r] = [a.host[r] EXCEPT !.catchup = s]
    PROVE  Inv(b)
<1> DEFINE h == a.host[r]
           k == b.host[r]
<1>1. h \in HostState
  BY WorldParts DEF Near
<1>2. /\ k.view = h.view /\ k.started = h.started /\ k.blocks = h.blocks
      /\ k.executed = h.executed /\ k.processedNewViews = h.processedNewViews
      /\ k.ldrs = h.ldrs /\ k.votes = h.votes /\ k.qcs = h.qcs /\ k.catchup = s
      /\ k.nvs = h.nvs
  BY <1>1 DEF HostState
<1> HIDE DEF h, k
<1>3. /\ ComponentOK(b.tc[r], b.signed[r])
      /\ StepOK(b.tc[r], b.signed[r], b.host[r])
      /\ BlocksOK(b.signed[r], b.host[r])
      /\ NamesOK(b.signed, b.host) /\ OneBlock(b.signed)
  BY <1>2, IdleComponent DEF h, k
<1>4. Fresh(b.net, b.host, r)
  <2>1. Fresh(a.net, a.host, r)
    BY DEF Inv
  <2>2. \A o \in Incoming(b.net, r) : o.type = "ldrprepare" =>
          /\ o.acc.view \notin DOMAIN k.blocks
          /\ \A x \in k.ldrs : x.acc.view # o.acc.view
    BY <1>2, <2>1 DEF Fresh, h
  <2>3. k.catchup => k.view \notin DOMAIN k.blocks /\ \E o \in k.ldrs : o.acc.view = k.view
    BY <1>2 DEF h
  <2> QED BY <2>1, <2>2, <2>3 DEF Fresh, k
<1> QED BY <1>2, <1>3, <1>4, SignStep DEF h, k

\* r broadcasts proposal m, the first of its view.
LEMMA SendProposalStep ==
    ASSUME NEW r \in Replica, NEW a, NEW b, Near(a, b, r), Inv(a),
           NEW m \in LdrPrepareMsg, LdrOK(a.signed, m),
           \A l \in Replica :
                /\ \A o \in Incoming(a.net, l) : o.type = "ldrprepare" => o.acc.view # m.acc.view
                /\ \A o \in a.host[l].ldrs : o.acc.view # m.acc.view
                /\ l # r => m.acc.view \notin DOMAIN a.host[l].blocks,
           b.tc[r] = a.tc[r], b.signed[r] = a.signed[r], b.host[r] = a.host[r],
           \A l \in Replica : b.net[r][l] = IF l = r THEN a.net[r][l]
                                            ELSE Append(a.net[r][l], m)
    PROVE  /\ Inv(b)
           /\ \A l \in Replica : \A o \in Reports(b.net, b.host, l) :
                o \in Reports(a.net, a.host, l)
<1>1. /\ b.signed = a.signed
      /\ ComponentOK(b.tc[r], b.signed[r])
      /\ StepOK(b.tc[r], b.signed[r], b.host[r])
      /\ BlocksOK(b.signed[r], b.host[r])
      /\ ExecutedOK(b.signed, b.host[r])
      /\ NamesOK(b.signed, b.host) /\ OneBlock(b.signed)
  BY IdleComponent
<1>2. LogOK(b.signed, b.host[r])
  BY <1>1 DEF Inv
<1>3. a.net \in [Replica -> [Replica -> Seq(Message)]]
  BY DEF Near, World
<1>4. {m} \subseteq Message /\ m.type = "ldrprepare"
  BY MessageKinds DEF Message, LdrPrepareMsg
<1>5. \A s, l \in Replica :
        /\ s # r \/ l = r => b.net[s][l] = a.net[s][l]
        /\ s = r /\ l # r => b.net[s][l] = Append(a.net[s][l], m)
  <2> SUFFICES ASSUME NEW s \in Replica, NEW l \in Replica
               PROVE  /\ s # r \/ l = r => b.net[s][l] = a.net[s][l]
                      /\ s = r /\ l # r => b.net[s][l] = Append(a.net[s][l], m)
    OBVIOUS
  <2>1. CASE s # r
    <3>1. b.net[s] = a.net[s]
      BY <2>1 DEF Near
    <3> QED BY <2>1, <3>1
  <2>2. CASE s = r
    BY <2>2
  <2> QED BY <2>1, <2>2
<1>6. /\ \A l \in Replica : Incoming(b.net, l) \subseteq Incoming(a.net, l) \cup {m}
      /\ \A s, l \in Replica : \A i \in DOMAIN b.net[s][l] :
                \/ i \in DOMAIN a.net[s][l] /\ b.net[s][l][i] = a.net[s][l][i]
                \/ i = Len(a.net[s][l]) + 1 /\ b.net[s][l][i] \in {m}
  <2>1. \A s, l \in Replica : \/ b.net[s][l] = a.net[s][l]
                              \/ \E x \in {m} : b.net[s][l] = Append(a.net[s][l], x)
    BY <1>5
  <2> DEFINE M == {m}
  <2>2. M \subseteq Message /\ \A s, l \in Replica :
            \/ b.net[s][l] = a.net[s][l]
            \/ \E x \in M : b.net[s][l] = Append(a.net[s][l], x)
    BY <1>4, <2>1
  <2> HIDE DEF M
  <2> DEFINE N == a.net
             Z == b.net
  <2>3. /\ N \in [Replica -> [Replica -> Seq(Message)]]
        /\ \A s, l \in Replica : \/ Z[s][l] = N[s][l]
                                  \/ \E x \in M : Z[s][l] = Append(N[s][l], x)
    BY <1>3, <2>2
  <2> HIDE DEF N, Z
  <2>4. /\ \A l \in Replica : /\ Incoming(N, l) \subseteq Incoming(Z, l)
                               /\ Incoming(Z, l) \subseteq Incoming(N, l) \cup M
        /\ \A s, l \in Replica : \A i \in DOMAIN Z[s][l] :
                \/ i \in DOMAIN N[s][l] /\ Z[s][l][i] = N[s][l][i]
                \/ i = Len(N[s][l]) + 1 /\ Z[s][l][i] \in M
    BY <2>2, <2>3, NetGrows
  <2> QED BY <2>4 DEF M, N, Z
<1>7. Incoming(b.net, r) = Incoming(a.net, r)
  BY <1>5 DEF Incoming
<1>8. \A l \in Replica : \A x \in Incoming(b.net, l) :
        x \in Incoming(a.net, l) \/ MessageOK(b.signed, x)
  <2>1. MessageOK(b.signed, m)
    BY <1>1, <1>4 DEF MessageOK
  <2> QED BY <1>6, <2>1
<1>9. \A l \in Replica : \A o \in Reports(b.net, b.host, l) : o \in Reports(a.net, a.host, l)
  <2> SUFFICES ASSUME NEW l \in Replica, NEW o \in Reports(b.net, b.host, l)
               PROVE  o \in Reports(a.net, a.host, l)
    OBVIOUS
  <2>1. b.host[l] = a.host[l]
    BY DEF Near
  <2> QED BY <1>4, <1>6, <2>1 DEF Reports
<1>10. Routed(b.net, b.host)
  BY <1>9 DEF Inv, Routed
<1>11. \A q \in Replica : Fresh(b.net, b.host, q)
  <2> SUFFICES ASSUME NEW q \in Replica PROVE Fresh(b.net, b.host, q)
    OBVIOUS
  <2>1. Fresh(a.net, a.host, q) /\ b.host[q] = a.host[q]
    BY DEF Inv, Near
  <2>2. ASSUME NEW s \in Replica, NEW i \in DOMAIN b.net[s][q],
               b.net[s][q][i].type = "ldrprepare"
        PROVE  \/ /\ i \in DOMAIN a.net[s][q] /\ b.net[s][q][i] = a.net[s][q][i]
                  /\ b.net[s][q][i].acc.view # m.acc.view
               \/ /\ s = r /\ q # r /\ i = Len(a.net[s][q]) + 1
                  /\ b.net[s][q][i].acc.view = m.acc.view
    <3>1. CASE i \in DOMAIN a.net[s][q] /\ b.net[s][q][i] = a.net[s][q][i]
      <4>1. a.net[s][q][i] \in Incoming(a.net, q)
        BY <3>1 DEF Incoming
      <4> QED BY <2>2, <3>1, <4>1
    <3>2. CASE ~(i \in DOMAIN a.net[s][q] /\ b.net[s][q][i] = a.net[s][q][i])
      <4>1. ~(s # r \/ q = r)
        BY <1>5, <3>2
      <4>2. i = Len(a.net[s][q]) + 1 /\ b.net[s][q][i] = m
        BY <1>6, <3>2
      <4> QED BY <4>1, <4>2
    <3> QED BY <3>1, <3>2
  <2>3. ASSUME NEW s \in Replica, NEW t \in Replica,
               NEW i \in DOMAIN b.net[s][q], NEW j \in DOMAIN b.net[t][q],
               b.net[s][q][i].type = "ldrprepare", b.net[t][q][j].type = "ldrprepare",
               b.net[s][q][i].acc.view = b.net[t][q][j].acc.view
        PROVE  s = t /\ i = j
    <3>1. CASE b.net[s][q][i].acc.view = m.acc.view
      <4>1. s = r /\ i = Len(a.net[s][q]) + 1
        BY <2>2, <2>3, <3>1
      <4>2. b.net[t][q][j].acc.view = m.acc.view
        BY <2>3, <3>1
      <4>3. t = r /\ j = Len(a.net[t][q]) + 1
        BY <2>2, <2>3, <4>2
      <4> QED BY <4>1, <4>3
    <3>2. CASE b.net[s][q][i].acc.view # m.acc.view
      <4>1. /\ i \in DOMAIN a.net[s][q] /\ b.net[s][q][i] = a.net[s][q][i]
            /\ j \in DOMAIN a.net[t][q] /\ b.net[t][q][j] = a.net[t][q][j]
        BY <2>2, <2>3, <3>2
      <4>2. /\ a.net[s][q][i].type = "ldrprepare" /\ a.net[t][q][j].type = "ldrprepare"
            /\ a.net[s][q][i].acc.view = a.net[t][q][j].acc.view
        BY <2>3, <4>1
      <4>3. SentOnce(a.net, q)
        BY <2>1 DEF Fresh
      <4> QED BY <4>1, <4>2, <4>3 DEF SentOnce
    <3> QED BY <3>1, <3>2
  <2>4. \A o \in Incoming(b.net, q) : o.type = "ldrprepare" =>
          /\ o.acc.view \notin DOMAIN b.host[q].blocks
          /\ \A x \in b.host[q].ldrs : x.acc.view # o.acc.view
    <3> SUFFICES ASSUME NEW o \in Incoming(b.net, q), o.type = "ldrprepare"
                 PROVE  /\ o.acc.view \notin DOMAIN b.host[q].blocks
                        /\ \A x \in b.host[q].ldrs : x.acc.view # o.acc.view
      OBVIOUS
    <3>1. CASE o \in Incoming(a.net, q)
      BY <2>1, <3>1 DEF Fresh
    <3>2. CASE o = m /\ q # r
      BY <2>1, <3>2
    <3> QED BY <1>6, <1>7, <3>1, <3>2
  <2>5. b.host[q].catchup => /\ b.host[q].view \notin DOMAIN b.host[q].blocks
                             /\ \E o \in b.host[q].ldrs : o.acc.view = b.host[q].view
    BY <2>1 DEF Fresh
  <2>6. SentOnce(b.net, q)
    BY <2>3 DEF SentOnce
  <2> QED BY <2>4, <2>5, <2>6 DEF Fresh
<1>12. Inv(b)
  BY <1>1, <1>2, <1>8, <1>10, <1>11, FrameStep
<1> QED BY <1>9, <1>12

(***************************************************************************)
(* r takes the oldest message from s.  What it has in its hand is backed;  *)
(* a proposal of that view reaches r no more and is not voted for, and a   *)
(* report is in no other replica's hands.                                  *)
(***************************************************************************)
Take(w, r, s) == [w EXCEPT !.net[s][r] = Tail(@)]

\* Taking a message from a channel.
LEMMA TakeStep ==
    ASSUME NEW a \in World, Inv(a), NEW r \in Replica, NEW s \in Replica,
           a.net[s][r] # <<>>
    PROVE  LET b == Take(a, r, s)
               m == Head(a.net[s][r])
           IN  /\ b \in World /\ Inv(b)
               /\ b.signed = a.signed
               /\ m \in Message /\ MessageOK(b.signed, m)
               /\ m.type = "ldrprepare" =>
                    /\ m.acc.view \notin DOMAIN b.host[r].blocks
                    /\ \A o \in Incoming(b.net, r) :
                            o.type = "ldrprepare" => o.acc.view # m.acc.view
               /\ m.type = "newview" /\ IsReport(m.data) =>
                    \A l \in Replica : \A o \in Reports(b.net, b.host, l) :
                        o.signer = m.signer /\ o.data.propv = m.data.propv => l = r
<1> DEFINE b == Take(a, r, s)
           q == a.net[s][r]
           m == Head(q)
<1>1. a.net \in [Replica -> [Replica -> Seq(Message)]] /\ q \in Seq(Message)
  BY DEF World
<1>2. /\ m \in Message /\ Tail(q) \in Seq(Message) /\ Len(Tail(q)) = Len(q) - 1
      /\ \A i \in 1 .. Len(Tail(q)) : Tail(q)[i] = q[i + 1]
      /\ m = q[1] /\ Len(q) \in Nat \ {0}
  BY <1>1, HeadTailProperties, EmptySeq
<1>3. /\ DOMAIN q = 1 .. Len(q) /\ DOMAIN Tail(q) = 1 .. Len(Tail(q))
      /\ 1 \in DOMAIN q
      /\ \A i \in DOMAIN Tail(q) : i + 1 \in DOMAIN q /\ i + 1 # 1 /\ Tail(q)[i] = q[i + 1]
  BY <1>1, <1>2, LenProperties
<1> DEFINE Z == [a.net EXCEPT ![s][r] = Tail(@)]
<1>4. /\ Z \in [Replica -> [Replica -> Seq(Message)]]
      /\ \A t, l \in Replica : Z[t][l] = IF t = s /\ l = r THEN Tail(q) ELSE a.net[t][l]
  BY <1>1, <1>2
<1>5. b \in World /\ b.net = Z /\ b.tc = a.tc /\ b.signed = a.signed /\ b.host = a.host
  <2>1. b = [a EXCEPT !.net = Z]
    BY DEF Take, World
  <2> HIDE DEF Z, b
  <2>2. Z \in [Replica -> [Replica -> Seq(Message)]]
    BY <1>4
  <2> QED BY <2>1, <2>2 DEF World
<1> HIDE DEF b, q, m, Z
<1>6. \A t, l \in Replica : \A i \in DOMAIN Z[t][l] :
        \E j \in DOMAIN a.net[t][l] :
            /\ Z[t][l][i] = a.net[t][l][j]
            /\ j = IF t = s /\ l = r THEN i + 1 ELSE i
  <2> SUFFICES ASSUME NEW t \in Replica, NEW l \in Replica, NEW i \in DOMAIN Z[t][l]
               PROVE  \E j \in DOMAIN a.net[t][l] :
                        /\ Z[t][l][i] = a.net[t][l][j]
                        /\ j = IF t = s /\ l = r THEN i + 1 ELSE i
    OBVIOUS
  <2>1. CASE t = s /\ l = r
    <3>1. Z[t][l] = Tail(q) /\ a.net[t][l] = q
      BY <1>4, <2>1 DEF q
    <3>2. i + 1 \in DOMAIN q /\ Tail(q)[i] = q[i + 1]
      BY <1>3, <3>1
    <3> QED BY <2>1, <3>1, <3>2
  <2>2. CASE ~(t = s /\ l = r)
    <3>1. Z[t][l] = a.net[t][l]
      BY <1>4, <2>2
    <3> QED BY <2>2, <3>1
  <2> QED BY <2>1, <2>2
<1>7. \A l \in Replica : Incoming(Z, l) \subseteq Incoming(a.net, l)
  BY <1>6 DEF Incoming
<1>8. m \in Incoming(a.net, r)
  BY <1>2, <1>3 DEF Incoming, q
<1>9. MessageOK(a.signed, m)
  BY <1>8 DEF Inv, ChannelsOK
<1>10. ChannelsOK(a.signed, Z)
  BY <1>7 DEF Inv, ChannelsOK
<1>11. \A l \in Replica : Reports(Z, a.host, l) \subseteq Reports(a.net, a.host, l)
  BY <1>7 DEF Reports
<1>12. Routed(Z, a.host)
  BY <1>11 DEF Inv, Routed
<1>13. \A p \in Replica : Fresh(Z, a.host, p)
  <2> SUFFICES ASSUME NEW p \in Replica PROVE Fresh(Z, a.host, p)
    OBVIOUS
  <2>1. Fresh(a.net, a.host, p)
    BY DEF Inv
  <2>2. ASSUME NEW t \in Replica, NEW u \in Replica,
               NEW i \in DOMAIN Z[t][p], NEW j \in DOMAIN Z[u][p],
               Z[t][p][i].type = "ldrprepare", Z[u][p][j].type = "ldrprepare",
               Z[t][p][i].acc.view = Z[u][p][j].acc.view
        PROVE  t = u /\ i = j
    <3>1. PICK k \in DOMAIN a.net[t][p] : /\ Z[t][p][i] = a.net[t][p][k]
                                          /\ k = IF t = s /\ p = r THEN i + 1 ELSE i
      BY <1>6
    <3>2. PICK n \in DOMAIN a.net[u][p] : /\ Z[u][p][j] = a.net[u][p][n]
                                          /\ n = IF u = s /\ p = r THEN j + 1 ELSE j
      BY <1>6
    <3>3. t = u /\ k = n
      <4>1. SentOnce(a.net, p)
        BY <2>1 DEF Fresh
      <4>2. /\ a.net[t][p][k].type = "ldrprepare" /\ a.net[u][p][n].type = "ldrprepare"
            /\ a.net[t][p][k].acc.view = a.net[u][p][n].acc.view
        BY <2>2, <3>1, <3>2
      <4> QED BY <4>1, <4>2 DEF SentOnce
    <3>4. CASE t = s /\ p = r
      <4>1. i \in DOMAIN Tail(q) /\ j \in DOMAIN Tail(q)
        BY <1>4, <3>3, <3>4
      <4>2. i \in Int /\ j \in Int
        BY <1>2, <1>3, <4>1
      <4>3. i + 1 = j + 1
        BY <3>1, <3>2, <3>3, <3>4
      <4> QED BY <3>3, <4>2, <4>3
    <3> QED BY <3>1, <3>2, <3>3, <3>4
  <2>3. \A o \in Incoming(Z, p) : o.type = "ldrprepare" =>
          /\ o.acc.view \notin DOMAIN a.host[p].blocks
          /\ \A x \in a.host[p].ldrs : x.acc.view # o.acc.view
    <3>1. \A o \in Incoming(a.net, p) : o.type = "ldrprepare" =>
            /\ o.acc.view \notin DOMAIN a.host[p].blocks
            /\ \A x \in a.host[p].ldrs : x.acc.view # o.acc.view
      BY <2>1 DEF Fresh
    <3> QED BY <1>7, <3>1
  <2>4. a.host[p].catchup => /\ a.host[p].view \notin DOMAIN a.host[p].blocks
                             /\ \E o \in a.host[p].ldrs : o.acc.view = a.host[p].view
    BY <2>1 DEF Fresh
  <2>5. SentOnce(Z, p)
    BY <2>2 DEF SentOnce
  <2> QED BY <2>3, <2>4, <2>5 DEF Fresh
<1>14. Inv(b)
  BY <1>5, <1>10, <1>12, <1>13 DEF Inv
<1>15. m.type = "ldrprepare" =>
          /\ m.acc.view \notin DOMAIN a.host[r].blocks
          /\ \A o \in Incoming(Z, r) : o.type = "ldrprepare" => o.acc.view # m.acc.view
  <2>1. Fresh(a.net, a.host, r)
    BY DEF Inv
  <2>2. ASSUME m.type = "ldrprepare", NEW o \in Incoming(Z, r), o.type = "ldrprepare",
               o.acc.view = m.acc.view
        PROVE  FALSE
    <3>1. PICK t \in Replica : \E i \in DOMAIN Z[t][r] : o = Z[t][r][i]
      BY DEF Incoming
    <3>2. PICK i \in DOMAIN Z[t][r] : o = Z[t][r][i]
      BY <3>1
    <3>3. PICK j \in DOMAIN a.net[t][r] : o = a.net[t][r][j] /\ (t = s => j = i + 1)
      BY <1>6, <3>2
    <3>4. m = a.net[s][r][1] /\ 1 \in DOMAIN a.net[s][r]
      BY <1>2, <1>3 DEF q
    <3>5. t = s /\ j = 1
      BY <2>1, <2>2, <3>3, <3>4 DEF Fresh, SentOnce
    <3> QED BY <1>3, <1>4, <3>2, <3>3, <3>5
  <2> QED BY <1>8, <2>1, <2>2 DEF Fresh
<1>16. m.type = "newview" /\ IsReport(m.data) =>
          \A l \in Replica : \A o \in Reports(Z, a.host, l) :
              o.signer = m.signer /\ o.data.propv = m.data.propv => l = r
  <2>1. m.type = "newview" /\ IsReport(m.data) => m \in Reports(a.net, a.host, r)
    BY <1>8 DEF Reports
  <2> QED BY <1>11, <2>1 DEF Inv, Routed
<1> QED BY <1>2, <1>5, <1>9, <1>14, <1>15, <1>16 DEF b, m, q
=============================================================================
