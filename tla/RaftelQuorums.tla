---------------------------- MODULE RaftelQuorums ----------------------------
(***************************************************************************)
(* The replica population of Raftel, its two kinds of quorum and the       *)
(* leader of a view (Handler constructor, Handler::getLeaderOf).           *)
(***************************************************************************)
EXTENDS Integers, FiniteSets

CONSTANTS
    NumFaults,        \* f, the faults the deployment is sized for
    ConstFactor,      \* 3 for Raftel, 2 for Achilles and Damysus
    TotalTEE,         \* m, how many replicas hold a TEE
    FixedLeaderMode,  \* leader mode "fixed" (TRUE) or "rotate" (FALSE)
    FixedLeader       \* the leader of every view in fixed mode

ASSUME NumFaultsAssumption == NumFaults \in Nat
ASSUME ConstFactorAssumption == ConstFactor \in {2, 3}
ASSUME TotalTEEAssumption == TotalTEE \in 0 .. (ConstFactor * NumFaults + 1)
ASSUME LeaderModeAssumption == /\ FixedLeaderMode \in BOOLEAN
                               /\ FixedLeader \in 0 .. (ConstFactor * NumFaults)

total   == ConstFactor * NumFaults + 1
Replica == 0 .. (total - 1)
View    == Nat

\* run.py gives the TEEs to the replicas 0 .. totaltee-1.
isTEE(p) == p < TotalTEE
TEEReplica == {p \in Replica : isTEE(p)}

qsize == total - NumFaults

\* Mutant: half of the TEEs, rounded down, make a TEE quorum.
tqsize_half == IF TotalTEE \div 2 >= NumFaults THEN TotalTEE \div 2 ELSE NumFaults

tqsize == IF (TotalTEE \div 2) + 1 >= NumFaults + 1
          THEN (TotalTEE \div 2) + 1
          ELSE NumFaults + 1
fastQC == TotalTEE >= tqsize

(***************************************************************************)
(* A set of distinct signers is a certificate when it is a TEE quorum of   *)
(* exactly tqsize TEE replicas or a classical quorum of exactly qsize      *)
(* replicas of any type (verifyCombQC, verifyQuorum).                      *)
(***************************************************************************)
IsQuorum(S) == \/ S \subseteq TEEReplica /\ Cardinality(S) = tqsize
               \/ S \subseteq Replica /\ Cardinality(S) = qsize

(***************************************************************************)
(* The leader of view v for a replica whose blamed leaders are skip.  A    *)
(* skip set that covers the whole pool never reaches this operator: the    *)
(* code empties it on the first call (see Blame).                          *)
(***************************************************************************)
getLeaderOf(skip, v) ==
    IF FixedLeaderMode
    THEN FixedLeader
    ELSE LET cand(k) == (v + k) % total
             k == CHOOSE i \in 0 .. (total - 1) :
                      /\ cand(i) \notin skip
                      /\ \A j \in 0 .. (i - 1) : cand(j) \in skip
         IN  cand(k)

(***************************************************************************)
(* The skip set after the view timer ran out in view v: the nominal leader *)
(* is blamed, and a set that now covers everybody is cleared.  In fixed    *)
(* mode nobody is blamed.                                                  *)
(***************************************************************************)
Blame(skip, v) ==
    LET blamed == skip \cup {v % total}
    IN  IF FixedLeaderMode THEN skip
        ELSE IF blamed = Replica THEN {} ELSE blamed
=============================================================================
