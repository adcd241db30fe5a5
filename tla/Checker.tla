-------------------------------- MODULE Checker --------------------------------
(***************************************************************************)
(* One trusted component whose host may call it in any order, with any     *)
(* block, accumulator and new-view proof, and any certificate of a block.  *)
(* The host code around the component (module Raftel) uses only some of    *)
(* these orders; what is shown here holds for all of them.  It holds for   *)
(* both copies of the component, the enclave's and class TrustedComb,      *)
(* which take the same steps.                                              *)
(***************************************************************************)
EXTENDS EnclaveComb

CONSTANTS
    Blocks,    \* the blocks a host may present
    Accums,    \* the accumulators
    Proofs,    \* the new-view proofs, each a set of new-view statements
    Justs,     \* the certificates
    LastCount  \* bound: the component is not called beyond this (view, phase)

ASSUME BlocksAssumption == /\ Blocks \subseteq Block
                           /\ \A b \in Blocks : b.hash # noHash
ASSUME AccumsAssumption == Accums \subseteq Accum
ASSUME ProofsAssumption == \A nvs \in Proofs : nvs \subseteq NewView
\* No certificate over "no hash": the statements without a block that the loop of
\* startNewViewComb signs are never sent, so nobody can collect them.
ASSUME JustsAssumption  == /\ Justs \subseteq Just
                           /\ \A j \in Justs : j.data.proph # noHash
ASSUME LastCountAssumption == LastCount \in Nat

VARIABLES
    tc,        \* the component's state
    signed,    \* history: what it has signed
    prepared   \* history: the pairs <<hash, view>> it has recorded as prepared

vars == <<tc, signed, prepared>>

Init ==
    /\ tc = COMB_init
    /\ signed = {}
    /\ prepared = {<<newHash, 0>>}

\* A call returned res: the component moves on and its signature is out.
Return(res) ==
    /\ tc' = res.tc
    /\ signed' = signed \cup {res.data}
    /\ prepared' = prepared \cup {<<res.tc.preph, res.tc.prepv>>}

Callable == Counter(tc.view, tc.phase) <= LastCount

TEEsign == Callable /\ Return(COMB_TEEsign(tc))

TEEprepare ==
    \E block \in Blocks, acc \in Accums, nvs \in Proofs :
        /\ Callable
        /\ CanTEEprepare(tc, block, acc, nvs)
        /\ Return(COMB_TEEprepare(tc, block, acc))

TEEstore ==
    \E just \in Justs :
        /\ Callable
        /\ CanTEEstore(tc, just)
        /\ Return(COMB_TEEstore(tc, just))

Next == TEEsign \/ TEEprepare \/ TEEstore

Spec == Init /\ [][Next]_vars

-----------------------------------------------------------------------------
(* Properties *)

\* TypeOK: the component's state, its statements and its records are well formed.
TypeOK ==
    /\ tc \in TrustedState
    /\ \A d \in signed : d \in RData
    /\ \A p \in prepared : p \in Hash \X View

(***************************************************************************)
(* NonEquivocation: no two different statements are ever signed for one    *)
(* view and phase (COMB_sign moves the counter at every signature).        *)
(***************************************************************************)
NonEquivocation ==
    \A d, e \in signed : d.propv = e.propv /\ d.phase = e.phase => d = e

(***************************************************************************)
(* NewViewTruthful: a new-view statement of COMB_TEEsign names a pair that *)
(* was really recorded, and no pair recorded in an earlier view is newer.  *)
(* A component cannot hide what it voted for from the next leader.         *)
(***************************************************************************)
NewViewTruthful ==
    \A d \in signed : d.phase = PH1_NEWVIEW /\ d.proph = noHash =>
        /\ <<d.justh, d.justv>> \in prepared
        /\ \A p \in prepared : p[2] < d.propv => p[2] <= d.justv

(***************************************************************************)
(* LockIsPrepared: the locked view is never ahead of the prepared view,    *)
(* nor the prepared view ahead of the current one (COMB_TEEstore).         *)
(***************************************************************************)
LockIsPrepared == tc.lockv <= tc.prepv /\ tc.prepv <= tc.view

(***************************************************************************)
(* NeverBack: nothing moves the (view, phase) counter, the prepared view   *)
(* or the locked view back, and the counter advances with every signature. *)
(***************************************************************************)
NeverBack ==
    [][/\ Counter(tc.view, tc.phase) <= Counter(tc'.view, tc'.phase)
       /\ signed' # signed => Counter(tc.view, tc.phase) < Counter(tc'.view, tc'.phase)
       /\ tc.prepv <= tc'.prepv
       /\ tc.lockv <= tc'.lockv]_vars
=============================================================================
