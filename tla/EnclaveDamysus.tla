---------------------------- MODULE EnclaveDamysus ----------------------------
(***************************************************************************)
(* The trusted component of the Basic-Damysus build                        *)
(* (Enclave/EnclaveDamysus.cpp), as pure operators on a component state d. *)
(* Beside Checker+ (module EnclaveComb) it has three phases instead of     *)
(* four, starts in view 0, keeps no lock, checks no new-view proof and     *)
(* records a block only when it stores a prepare certificate.              *)
(***************************************************************************)
EXTENDS RaftelTypes

DamysusPhase == {PH1_NEWVIEW, PH1_PREPARE, PH1_PRECOMMIT}
DamysusState == [preph : Hash, prepv : View, view : View, phase : DamysusPhase]

DAMYSUS_init == [preph |-> newHash, prepv |-> 0, view |-> 0, phase |-> PH1_NEWVIEW]

DAMYSUS_increment(d) ==
    CASE d.phase = PH1_NEWVIEW   -> [d EXCEPT !.phase = PH1_PREPARE]
      [] d.phase = PH1_PREPARE   -> [d EXCEPT !.phase = PH1_PRECOMMIT]
      [] d.phase = PH1_PRECOMMIT -> [d EXCEPT !.phase = PH1_NEWVIEW, !.view = @ + 1]

DAMYSUS_sign(d, h1, h2, v2) ==
    [tc |-> DAMYSUS_increment(d),
     data |-> [proph |-> h1, propv |-> d.view, justh |-> h2, justv |-> v2, phase |-> d.phase]]

DAMYSUS_TEEsign(d) == DAMYSUS_sign(d, noHash, d.preph, d.prepv)

CanDAMYSUS_TEEprepare(d, acc) == acc.view = d.view /\ acc.size = qsize

\* The block is signed and not recorded.
DAMYSUS_TEEprepare(d, hash, acc) == DAMYSUS_sign(d, hash, acc.hash, acc.prepv)

CanDAMYSUS_TEEstore(d, just) ==
    /\ Cardinality(just.signers) = qsize
    /\ just.data.propv = d.view
    /\ just.data.phase = PH1_PREPARE

DAMYSUS_TEEstore(d, just) ==
    DAMYSUS_sign([d EXCEPT !.preph = just.data.proph, !.prepv = just.data.propv],
                 just.data.proph, newHash, 0)

\* Only new-view statements of the first one's view count.
DAMYSUS_TEEaccum(p, nvs) ==
    LET v    == FirstNewView(nvs).data.propv
        used == {m \in Lowest(nvs, qsize) : m.data.phase = PH1_NEWVIEW /\ m.data.propv = v}
    IN  [view |-> v, prepv |-> HighestNewView(used).data.justv,
         hash |-> HighestNewView(used).data.justh, size |-> Cardinality(used), signer |-> p]

DAMYSUS_TEEaccumSp(p, data, signers) ==
    [view |-> data.propv, prepv |-> data.justv, hash |-> data.justh,
     size |-> IF data.phase = PH1_NEWVIEW THEN Cardinality(signers) ELSE 0, signer |-> p]
=============================================================================
