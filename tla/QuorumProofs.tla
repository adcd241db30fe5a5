----------------------------- MODULE QuorumProofs -----------------------------
(***************************************************************************)
(* Any two quorums of Raftel, of either kind, share a replica: for every f *)
(* and every number of TEEs.                                               *)
(***************************************************************************)
EXTENDS RaftelQuorums, FiniteSetTheorems, TLAPS

\* The replicas and the TEE replicas are finite sets of the expected sizes.
LEMMA PopulationSizes ==
    /\ IsFiniteSet(Replica) /\ Cardinality(Replica) = total
    /\ IsFiniteSet(TEEReplica) /\ Cardinality(TEEReplica) = TotalTEE
<1> USE NumFaultsAssumption, ConstFactorAssumption, TotalTEEAssumption
<1>1. total \in Nat \ {0} /\ TotalTEE \in 0 .. total
  <2>1. CASE ConstFactor = 2
    BY <2>1 DEF total
  <2>2. CASE ConstFactor = 3
    BY <2>2 DEF total
  <2> QED BY <2>1, <2>2
<1>2. IsFiniteSet(Replica) /\ Cardinality(Replica) = total
  <2>1. IsFiniteSet(0 .. (total - 1))
        /\ Cardinality(0 .. (total - 1)) = IF 0 > total - 1 THEN 0 ELSE total - 1 - 0 + 1
    BY <1>1, FS_Interval
  <2> QED BY <1>1, <2>1 DEF Replica
<1>3. TEEReplica = 0 .. (TotalTEE - 1)
  BY <1>1 DEF TEEReplica, isTEE, Replica
<1>4. IsFiniteSet(0 .. (TotalTEE - 1))
      /\ Cardinality(0 .. (TotalTEE - 1)) = IF 0 > TotalTEE - 1 THEN 0 ELSE TotalTEE - 1 - 0 + 1
  BY <1>1, FS_Interval
<1> QED BY <1>1, <1>2, <1>3, <1>4

\* The arithmetic behind the two quorum sizes of the Handler constructor.
LEMMA QuorumSizes ==
    /\ qsize \in Nat /\ tqsize \in Nat
    /\ 2 * tqsize > TotalTEE
    /\ tqsize + qsize > total
    /\ 2 * qsize > total
<1> USE NumFaultsAssumption, ConstFactorAssumption, TotalTEEAssumption
<1>0. TotalTEE \in Nat
  <2>1. CASE ConstFactor = 2
    BY <2>1
  <2>2. CASE ConstFactor = 3
    BY <2>2
  <2> QED BY <2>1, <2>2
<1>1. TotalTEE \in Nat /\ TotalTEE < 2 * (TotalTEE \div 2) + 2 /\ TotalTEE \div 2 \in Nat
  BY <1>0
<1>2. tqsize >= (TotalTEE \div 2) + 1 /\ tqsize >= NumFaults + 1 /\ tqsize \in Nat
  BY <1>1 DEF tqsize
<1>3. total \in {2 * NumFaults + 1, 3 * NumFaults + 1} /\ qsize = total - NumFaults
  <2>1. CASE ConstFactor = 2
    BY <2>1 DEF total, qsize
  <2>2. CASE ConstFactor = 3
    BY <2>2 DEF total, qsize
  <2> QED BY <2>1, <2>2
<1> QED BY <1>1, <1>2, <1>3

(***************************************************************************)
(* QuorumIntersection: two certificates accepted by verifyCombQC or by the *)
(* trusted components always have a common signer, whichever mixture of    *)
(* TEE quorum and classical quorum they are.                               *)
(***************************************************************************)
THEOREM QuorumIntersection ==
    ASSUME NEW A, NEW B, IsQuorum(A), IsQuorum(B)
    PROVE  A \cap B # {}
<1> USE PopulationSizes, QuorumSizes
<1>1. total \in Nat /\ TotalTEE \in Nat
  <2> USE NumFaultsAssumption, ConstFactorAssumption, TotalTEEAssumption
  <2>1. CASE ConstFactor = 2
    BY <2>1 DEF total
  <2>2. CASE ConstFactor = 3
    BY <2>2 DEF total
  <2> QED BY <2>1, <2>2
<1>2. TEEReplica \subseteq Replica
  BY DEF TEEReplica
<1>3. CASE /\ A \subseteq TEEReplica /\ Cardinality(A) = tqsize
           /\ B \subseteq TEEReplica /\ Cardinality(B) = tqsize
  <2>1. Cardinality(A) + Cardinality(B) > Cardinality(TEEReplica)
    BY <1>1, <1>3
  <2> QED BY <1>3, <2>1, FS_MajoritiesIntersect
<1>4. CASE /\ A \subseteq TEEReplica /\ Cardinality(A) = tqsize
           /\ B \subseteq Replica /\ Cardinality(B) = qsize
  <2>1. Cardinality(A) + Cardinality(B) > Cardinality(Replica)
    BY <1>1, <1>4
  <2> QED BY <1>2, <1>4, <2>1, FS_MajoritiesIntersect
<1>5. CASE /\ A \subseteq Replica /\ Cardinality(A) = qsize
           /\ B \subseteq TEEReplica /\ Cardinality(B) = tqsize
  <2>1. Cardinality(A) + Cardinality(B) > Cardinality(Replica)
    BY <1>1, <1>5
  <2> QED BY <1>2, <1>5, <2>1, FS_MajoritiesIntersect
<1>6. CASE /\ A \subseteq Replica /\ Cardinality(A) = qsize
           /\ B \subseteq Replica /\ Cardinality(B) = qsize
  <2>1. Cardinality(A) + Cardinality(B) > Cardinality(Replica)
    BY <1>1, <1>6
  <2> QED BY <1>6, <2>1, FS_MajoritiesIntersect
<1> QED BY <1>3, <1>4, <1>5, <1>6 DEF IsQuorum
=============================================================================
