----------------------------- MODULE CheckerProofs -----------------------------
(***************************************************************************)
(* What a trusted component guarantees whatever its host does, for every   *)
(* population, every set of inputs and every number of calls.              *)
(***************************************************************************)
EXTENDS Checker, TLAPS

(***************************************************************************)
(* The inductive invariant.  Everything signed is behind the counter, so a *)
(* new signature cannot repeat a (view, phase) pair; and the prepared pair *)
(* is the newest of all the pairs ever recorded, so reporting it hides     *)
(* nothing.                                                                *)
(***************************************************************************)
SignedIsBehind ==
    \A d \in signed : Counter(d.propv, d.phase) < Counter(tc.view, tc.phase)

PreparedIsNewest ==
    /\ <<tc.preph, tc.prepv>> \in prepared
    /\ \A p \in prepared : p[2] <= tc.prepv

IInv ==
    /\ TypeOK
    /\ SignedIsBehind
    /\ PreparedIsNewest
    /\ LockIsPrepared
    /\ NonEquivocation
    /\ NewViewTruthful

-----------------------------------------------------------------------------
(* Lemmas about the operators of EnclaveComb *)

USE DEF PH1_NEWVIEW, PH1_PREPARE, PH1_PRECOMMIT, PH1_COMMIT

\* The counter numbers the (view, phase) pairs injectively, views first.
LEMMA CounterFacts ==
    ASSUME NEW v \in View, NEW w \in View, NEW p \in Phase1, NEW q \in Phase1
    PROVE  /\ Counter(v, p) \in Nat
           /\ Counter(v, p) = Counter(w, q) => v = w /\ p = q
           /\ Counter(v, p) <= Counter(w, q) => v <= w
           /\ Counter(v, PH1_NEWVIEW) < Counter(w, q) => v <= w
BY DEF Counter, PhaseIndex, Phase1, View

\* An increment moves the counter one pair on and touches nothing else.
LEMMA IncrementFacts ==
    ASSUME NEW c \in TrustedState
    PROVE  LET d == COMB_increment(c)
           IN  /\ d \in TrustedState
               /\ Counter(d.view, d.phase) = Counter(c.view, c.phase) + 1
               /\ d.view >= c.view
               /\ d.preph = c.preph /\ d.prepv = c.prepv
               /\ d.lockh = c.lockh /\ d.lockv = c.lockv
<1> DEFINE d == COMB_increment(c)
<1>1. c.view \in Nat /\ c.phase \in Phase1
  BY DEF TrustedState, View
<1>2. CASE c.phase = PH1_COMMIT
  <2>1. d = [c EXCEPT !.phase = PH1_NEWVIEW, !.view = c.view + 1]
    BY <1>2 DEF COMB_increment
  <2> DEFINE w == c.view + 1
  <2>2. w \in View /\ PH1_NEWVIEW \in Phase1
    BY <1>1 DEF View, Phase1
  <2> HIDE DEF w
  <2>3. [c EXCEPT !.phase = PH1_NEWVIEW, !.view = w] \in TrustedState
    BY <2>2 DEF TrustedState
  <2>4. d \in TrustedState /\ d.view = c.view + 1 /\ d.phase = PH1_NEWVIEW
    BY <2>1, <2>3 DEF TrustedState, w
  <2> QED BY <1>1, <1>2, <2>1, <2>4 DEF TrustedState, Counter, PhaseIndex
<1>3. CASE c.phase # PH1_COMMIT
  <2>1. PICK q \in Phase1 : /\ d = [c EXCEPT !.phase = q]
                            /\ PhaseIndex(q) = PhaseIndex(c.phase) + 1
    BY <1>1, <1>3 DEF COMB_increment, Phase1, PhaseIndex
  <2>2. PhaseIndex(c.phase) \in Nat
    BY <1>1 DEF Phase1, PhaseIndex
  <2> QED BY <1>1, <2>1, <2>2 DEF TrustedState, Counter
<1> QED BY <1>2, <1>3

\* newHash is the empty path, noHash one of two identifiers.
LEMMA NewHashType == newHash \in Hash /\ noHash \in Hash
<1>1. total \in Nat \ {0}
  BY NumFaultsAssumption, ConstFactorAssumption DEF total
<1>2. <<0, 0>> \in BlockId
  BY <1>1 DEF BlockId, Replica, View
<1> QED BY <1>2 DEF newHash, noHash, Hash

-----------------------------------------------------------------------------
(***************************************************************************)
(* One lemma for all three calls: a call first records (preph, prepv) and  *)
(* possibly a lock, giving c, and then signs with COMB_sign.               *)
(***************************************************************************)
LEMMA CallPreserves ==
    ASSUME IInv,
           NEW c \in TrustedState,
           c.view = tc.view, c.phase = tc.phase,
           \/ c.preph = tc.preph /\ c.prepv = tc.prepv
           \/ c.prepv = tc.view,
           c.lockv = tc.lockv \/ c.lockv = c.prepv,
           NEW h1 \in Hash, NEW h2 \in Hash, NEW v2 \in View,
           h1 = noHash => c = tc /\ h2 = tc.preph /\ v2 = tc.prepv,
           Return(COMB_sign(c, h1, h2, v2))
    PROVE  /\ IInv'
           /\ Counter(tc.view, tc.phase) < Counter(tc'.view, tc'.phase)
           /\ tc.prepv <= tc'.prepv
           /\ tc.lockv <= tc'.lockv
<1> DEFINE data == COMB_rdata(c, h1, h2, v2)
<1>1. /\ tc' = COMB_increment(c)
      /\ signed' = signed \cup {data}
      /\ prepared' = prepared \cup {<<COMB_increment(c).preph, COMB_increment(c).prepv>>}
  BY DEF Return, COMB_sign
<1>2. /\ tc' \in TrustedState
      /\ Counter(tc'.view, tc'.phase) = Counter(tc.view, tc.phase) + 1
      /\ tc'.view >= tc.view
      /\ tc'.preph = c.preph /\ tc'.prepv = c.prepv
      /\ tc'.lockh = c.lockh /\ tc'.lockv = c.lockv
  BY <1>1, IncrementFacts
<1>3. prepared' = prepared \cup {<<c.preph, c.prepv>>}
  BY <1>1, <1>2
<1>4. /\ tc.view \in View /\ tc.phase \in Phase1
      /\ tc.prepv \in View /\ tc.lockv \in View /\ c.preph \in Hash /\ c.prepv \in View
      /\ tc'.view \in View /\ tc'.phase \in Phase1
  BY <1>2 DEF IInv, TypeOK, TrustedState
<1>5. /\ data \in RData
      /\ data.propv = tc.view /\ data.phase = tc.phase /\ data.proph = h1
      /\ data.justh = h2 /\ data.justv = v2
  BY <1>4 DEF COMB_rdata, RData
<1>6. Counter(tc.view, tc.phase) \in Nat
  BY <1>4, CounterFacts
<1>7. tc.prepv <= c.prepv /\ c.prepv <= tc.view
  BY <1>4 DEF IInv, LockIsPrepared, View
<1>8. c.lockv <= c.prepv /\ tc.lockv <= c.lockv /\ c.lockv \in View
  <2>1. c.lockv \in View
    BY DEF TrustedState
  <2> QED BY <1>4, <1>7, <2>1 DEF IInv, LockIsPrepared, View
<1>9. TypeOK'
  <2>1. \A d \in signed' : d \in RData
    BY <1>1, <1>5 DEF IInv, TypeOK
  <2>2. \A p \in prepared' : p \in Hash \X View
    BY <1>3, <1>4 DEF IInv, TypeOK
  <2> QED BY <1>2, <2>1, <2>2 DEF TypeOK
<1>10. SignedIsBehind'
  <2> SUFFICES ASSUME NEW d \in signed'
               PROVE  Counter(d.propv, d.phase) < Counter(tc'.view, tc'.phase)
    BY DEF SignedIsBehind
  <2>1. CASE d \in signed
    <3>1. Counter(d.propv, d.phase) < Counter(tc.view, tc.phase)
      BY <2>1 DEF IInv, SignedIsBehind
    <3>2. Counter(d.propv, d.phase) \in Nat
      <4>1. d.propv \in View /\ d.phase \in Phase1
        BY <2>1 DEF IInv, TypeOK, RData
      <4> QED BY <4>1, CounterFacts
    <3> QED BY <1>2, <1>6, <3>1, <3>2
  <2>2. CASE d = data
    BY <1>2, <1>5, <1>6, <2>2
  <2> QED BY <1>1, <2>1, <2>2
<1>11. PreparedIsNewest'
  <2>1. <<tc'.preph, tc'.prepv>> \in prepared'
    BY <1>2, <1>3
  <2>2. ASSUME NEW p \in prepared' PROVE p[2] <= tc'.prepv
    <3>1. CASE p \in prepared
      <4>1. p[2] <= tc.prepv /\ p[2] \in View
        BY <3>1 DEF IInv, PreparedIsNewest, TypeOK
      <4> QED BY <1>2, <1>4, <1>7, <4>1 DEF View
    <3>2. CASE p = <<c.preph, c.prepv>>
      BY <1>2, <1>4, <3>2 DEF View
    <3> QED BY <1>3, <3>1, <3>2
  <2> QED BY <2>1, <2>2 DEF PreparedIsNewest
<1>12. LockIsPrepared'
  BY <1>2, <1>4, <1>7, <1>8 DEF LockIsPrepared, View
<1>13. NonEquivocation'
  <2>1. ASSUME NEW d \in signed
        PROVE  ~(d.propv = data.propv /\ d.phase = data.phase)
    <3>1. Counter(d.propv, d.phase) < Counter(tc.view, tc.phase)
      BY DEF IInv, SignedIsBehind
    <3> QED BY <1>5, <1>6, <3>1
  <2> QED BY <1>1, <2>1 DEF IInv, NonEquivocation
<1>14. NewViewTruthful'
  <2> SUFFICES ASSUME NEW d \in signed', d.phase = PH1_NEWVIEW, d.proph = noHash
               PROVE  /\ <<d.justh, d.justv>> \in prepared'
                      /\ \A p \in prepared' : p[2] < d.propv => p[2] <= d.justv
    BY DEF NewViewTruthful
  <2>1. CASE d \in signed
    <3>1. d.propv \in View /\ d.justv \in View
      BY <2>1 DEF IInv, TypeOK, RData
    <3>2. d.propv <= tc.view
      <4>1. Counter(d.propv, PH1_NEWVIEW) < Counter(tc.view, tc.phase)
        BY <2>1 DEF IInv, SignedIsBehind
      <4>2. PH1_NEWVIEW \in Phase1
        BY DEF Phase1
      <4> QED BY <1>4, <3>1, <4>1, <4>2, CounterFacts
    <3>3. /\ <<d.justh, d.justv>> \in prepared
          /\ \A p \in prepared : p[2] < d.propv => p[2] <= d.justv
      BY <2>1 DEF IInv, NewViewTruthful
    <3>4. c.prepv < d.propv => c.prepv <= d.justv
      <4>1. CASE c.preph = tc.preph /\ c.prepv = tc.prepv
        BY <3>3, <4>1 DEF IInv, PreparedIsNewest
      <4>2. CASE c.prepv = tc.view
        BY <1>4, <3>1, <3>2, <4>2 DEF View
      <4> QED BY <4>1, <4>2
    <3> QED BY <1>3, <3>3, <3>4
  <2>2. CASE d = data
    <3>1. c = tc /\ d.justh = tc.preph /\ d.justv = tc.prepv
      BY <1>5, <2>2
    <3>2. prepared' = prepared
      BY <1>3, <3>1 DEF IInv, PreparedIsNewest
    <3> QED BY <3>1, <3>2 DEF IInv, PreparedIsNewest
  <2> QED BY <1>1, <2>1, <2>2
<1>15. IInv'
  BY <1>9, <1>10, <1>11, <1>12, <1>13, <1>14 DEF IInv
<1> QED BY <1>2, <1>6, <1>7, <1>8, <1>15

-----------------------------------------------------------------------------
(* The three calls *)

\* TEEsign keeps the invariant,
LEMMA SignPreserves ==
    ASSUME IInv, TEEsign
    PROVE  /\ IInv'
           /\ Counter(tc.view, tc.phase) < Counter(tc'.view, tc'.phase)
           /\ tc.prepv <= tc'.prepv
           /\ tc.lockv <= tc'.lockv
<1>1. tc \in TrustedState /\ tc.preph \in Hash /\ tc.prepv \in View
  BY DEF IInv, TypeOK, TrustedState
<1>2. Return(COMB_sign(tc, noHash, tc.preph, tc.prepv))
  BY DEF TEEsign, COMB_TEEsign
<1> QED BY <1>1, <1>2, NewHashType, CallPreserves

\* TEEprepare keeps it,
LEMMA PreparePreserves ==
    ASSUME IInv, TEEprepare
    PROVE  /\ IInv'
           /\ Counter(tc.view, tc.phase) < Counter(tc'.view, tc'.phase)
           /\ tc.prepv <= tc'.prepv
           /\ tc.lockv <= tc'.lockv
<1>1. PICK block \in Blocks, acc \in Accums, nvs \in Proofs :
          Return(COMB_TEEprepare(tc, block, acc))
  BY DEF TEEprepare
<1>2. block.hash \in Hash /\ block.hash # noHash
  BY BlocksAssumption DEF Block
<1>3. acc.hash \in Hash /\ acc.prepv \in View
  BY AccumsAssumption DEF Accum
<1>4. tc \in TrustedState
  BY DEF IInv, TypeOK
<1>5. CASE isTEE(acc.signer)
  <2> DEFINE c == [tc EXCEPT !.preph = block.hash, !.prepv = tc.view]
  <2>1. /\ c \in TrustedState /\ c.view = tc.view /\ c.phase = tc.phase
        /\ c.prepv = tc.view /\ c.lockv = tc.lockv
    BY <1>2, <1>4 DEF TrustedState
  <2>2. Return(COMB_sign(c, block.hash, acc.hash, acc.prepv))
    BY <1>1, <1>5 DEF COMB_TEEprepare
  <2> HIDE DEF c
  <2> QED BY <1>2, <1>3, <2>1, <2>2, CallPreserves
<1>6. CASE ~isTEE(acc.signer)
  <2>1. Return(COMB_sign(tc, block.hash, acc.hash, acc.prepv))
    BY <1>1, <1>6 DEF COMB_TEEprepare
  <2> QED BY <1>2, <1>3, <1>4, <2>1, CallPreserves
<1> QED BY <1>5, <1>6

\* and so does TEEstore.
LEMMA StorePreserves ==
    ASSUME IInv, TEEstore
    PROVE  /\ IInv'
           /\ Counter(tc.view, tc.phase) < Counter(tc'.view, tc'.phase)
           /\ tc.prepv <= tc'.prepv
           /\ tc.lockv <= tc'.lockv
<1>1. PICK just \in Justs : CanTEEstore(tc, just) /\ Return(COMB_TEEstore(tc, just))
  BY DEF TEEstore
<1>2. just.data.proph \in Hash /\ just.data.propv \in View /\ just.data.propv = tc.view
  BY <1>1, JustsAssumption DEF Just, RData, CanTEEstore
<1>3. tc \in TrustedState
  BY DEF IInv, TypeOK
<1>4. just.data.proph # noHash
  BY JustsAssumption
<1> DEFINE prep == [tc EXCEPT !.preph = just.data.proph, !.prepv = just.data.propv]
           lock == [prep EXCEPT !.lockh = just.data.proph, !.lockv = just.data.propv]
<1>5. newHash \in Hash /\ 0 \in View
  BY NewHashType DEF View
<1>6. CASE just.data.phase = PH1_PRECOMMIT
  <2>1. /\ lock \in TrustedState /\ lock.view = tc.view /\ lock.phase = tc.phase
        /\ lock.prepv = tc.view /\ lock.lockv = lock.prepv
    BY <1>2, <1>3 DEF TrustedState
  <2>2. Return(COMB_sign(lock, just.data.proph, newHash, 0))
    BY <1>1, <1>6 DEF COMB_TEEstore
  <2> HIDE DEF lock
  <2> QED BY <1>2, <1>4, <1>5, <2>1, <2>2, CallPreserves
<1>7. CASE just.data.phase # PH1_PRECOMMIT
  <2>1. /\ prep \in TrustedState /\ prep.view = tc.view /\ prep.phase = tc.phase
        /\ prep.prepv = tc.view /\ prep.lockv = tc.lockv
    BY <1>2, <1>3 DEF TrustedState
  <2>2. Return(COMB_sign(prep, just.data.proph, newHash, 0))
    BY <1>1, <1>7 DEF COMB_TEEstore
  <2> HIDE DEF prep
  <2> QED BY <1>2, <1>4, <1>5, <2>1, <2>2, CallPreserves
<1> QED BY <1>6, <1>7

-----------------------------------------------------------------------------
(* Theorems *)

\* A step of the specification, or a stutter, keeps the invariant.
LEMMA NextPreserves == IInv /\ [Next]_vars => IInv'
<1> SUFFICES ASSUME IInv, [Next]_vars PROVE IInv'
  OBVIOUS
<1>1. CASE UNCHANGED vars
  BY <1>1 DEF vars, IInv, TypeOK, SignedIsBehind, PreparedIsNewest, LockIsPrepared,
              NonEquivocation, NewViewTruthful
<1>2. CASE TEEsign
  BY <1>2, SignPreserves
<1>3. CASE TEEprepare
  BY <1>3, PreparePreserves
<1>4. CASE TEEstore
  BY <1>4, StorePreserves
<1> QED BY <1>1, <1>2, <1>3, <1>4 DEF Next

\* It holds of a component that has just been set up.
LEMMA InitHolds == Init => IInv
<1> SUFFICES ASSUME Init PROVE IInv
  OBVIOUS
<1>1. COMB_init \in TrustedState
  BY NewHashType DEF COMB_init, TrustedState, View, Phase1
<1>2. TypeOK
  BY <1>1, NewHashType DEF Init, TypeOK, View
<1>3. SignedIsBehind /\ NonEquivocation /\ NewViewTruthful
  BY DEF Init, SignedIsBehind, NonEquivocation, NewViewTruthful
<1>4. PreparedIsNewest /\ LockIsPrepared
  BY DEF Init, PreparedIsNewest, LockIsPrepared, COMB_init
<1> QED BY <1>2, <1>3, <1>4 DEF IInv

\* The inductive invariant holds throughout every run of a component.
THEOREM Invariance == Spec => []IInv
BY InitHolds, NextPreserves, PTL DEF Spec

\* Every state, statement and record of a component is well formed.
THEOREM TypeCorrect == Spec => []TypeOK
<1>1. IInv => TypeOK
  BY DEF IInv
<1> QED BY <1>1, Invariance, PTL

(***************************************************************************)
(* A component never signs two statements for one view and phase, whatever *)
(* the order in which its host calls COMB_TEEsign, COMB_TEEprepare and     *)
(* COMB_TEEstore.                                                          *)
(***************************************************************************)
THEOREM NeverEquivocates == Spec => []NonEquivocation
<1>1. IInv => NonEquivocation
  BY DEF IInv
<1> QED BY <1>1, Invariance, PTL

(***************************************************************************)
(* What COMB_TEEsign reports in a new-view statement was recorded, and     *)
(* nothing that was recorded in an earlier view is newer.                  *)
(***************************************************************************)
THEOREM ReportsTruthfully == Spec => []NewViewTruthful
<1>1. IInv => NewViewTruthful
  BY DEF IInv
<1> QED BY <1>1, Invariance, PTL

\* The lock of COMB_TEEstore is never ahead of what the component reports.
THEOREM LockReported == Spec => []LockIsPrepared
<1>1. IInv => LockIsPrepared
  BY DEF IInv
<1> QED BY <1>1, Invariance, PTL

(***************************************************************************)
(* Every call moves the (view, phase) counter forward, and none moves the  *)
(* prepared or the locked view back.                                       *)
(***************************************************************************)
THEOREM OnlyForward == Spec => NeverBack
<1>1. ASSUME IInv, [Next]_vars
      PROVE  [/\ Counter(tc.view, tc.phase) <= Counter(tc'.view, tc'.phase)
              /\ signed' # signed =>
                    Counter(tc.view, tc.phase) < Counter(tc'.view, tc'.phase)
              /\ tc.prepv <= tc'.prepv
              /\ tc.lockv <= tc'.lockv]_vars
  <2>1. CASE UNCHANGED vars
    BY <2>1
  <2>2. CASE Next
    <3>1. /\ IInv'
          /\ Counter(tc.view, tc.phase) < Counter(tc'.view, tc'.phase)
          /\ tc.prepv <= tc'.prepv
          /\ tc.lockv <= tc'.lockv
      BY <1>1, <2>2, SignPreserves, PreparePreserves, StorePreserves DEF Next
    <3>2. /\ tc.view \in View /\ tc.phase \in Phase1
          /\ tc'.view \in View /\ tc'.phase \in Phase1
      BY <1>1, <3>1 DEF IInv, TypeOK, TrustedState
    <3>3. Counter(tc.view, tc.phase) \in Nat /\ Counter(tc'.view, tc'.phase) \in Nat
      BY <3>2, CounterFacts
    <3>4. Counter(tc.view, tc.phase) <= Counter(tc'.view, tc'.phase)
      BY <3>1, <3>3
    <3> QED BY <3>1, <3>4
  <2> QED BY <1>1, <2>1, <2>2
<1> QED BY <1>1, Invariance, PTL DEF Spec, NeverBack
=============================================================================
