------------------------------ MODULE TrustedFun ------------------------------
(***************************************************************************)
(* The trusted component of the HotStuff baseline (App/TrustedFun.cpp; the *)
(* same code as an enclave in Enclave/Enclave.cpp).  Pure operators on a   *)
(* component state c.                                                      *)
(***************************************************************************)
EXTENDS RaftelTypes

\* A signature is over a statement.  Signs is a list in the order of collection.
Sign == [signer : Replica, data : RData]
Just == [data : RData, signs : Seq(Sign)]

FunState == [lockh : Hash, lockv : View, preph : Hash, prepv : View,
             view : View, phase : Phase1]

\* Mutant: the prepared view starts below the first view.
TFinit_sentinel ==
    [lockh |-> newHash, lockv |-> 0, preph |-> newHash, prepv |-> -1,
     view |-> 0, phase |-> PH1_NEWVIEW]

TFinit ==
    [lockh |-> newHash, lockv |-> 0, preph |-> newHash, prepv |-> 0,
     view |-> 0, phase |-> PH1_NEWVIEW]

TFincrement(c) ==
    CASE c.phase = PH1_NEWVIEW   -> [c EXCEPT !.phase = PH1_PREPARE]
      [] c.phase = PH1_PREPARE   -> [c EXCEPT !.phase = PH1_PRECOMMIT]
      [] c.phase = PH1_PRECOMMIT -> [c EXCEPT !.phase = PH1_COMMIT]
      [] c.phase = PH1_COMMIT    -> [c EXCEPT !.phase = PH1_NEWVIEW, !.view = @ + 1]

TFsign(c, h1, h2, v2) ==
    [tc   |-> TFincrement(c),
     data |-> [proph |-> h1, propv |-> c.view, justh |-> h2, justv |-> v2,
               phase |-> c.phase]]

TEEsign(c) == TFsign(c, noHash, c.preph, c.prepv)

\* Every signature is over the statement it is presented with, however many.
TEEverify(just) == \A i \in DOMAIN just.signs : just.signs[i].data = just.data

CanTEEprepare(c, just) ==
    /\ TEEverify(just)
    /\ c.view = just.data.propv
    /\ just.data.phase = PH1_NEWVIEW
    /\ just.data.justh = c.lockh \/ just.data.justv > c.lockv

TEEprepare(c, hash, just) == TFsign(c, hash, just.data.justh, just.data.justv)

CanTEEstore(c, just) ==
    /\ Len(just.signs) = qsize /\ TEEverify(just)
    /\ c.view = just.data.propv
    /\ just.data.phase \in {PH1_PREPARE, PH1_PRECOMMIT}

\* Mutant: what was prepared is not recorded.
TEEstore_unrecorded(c, just) == TFsign(c, just.data.proph, newHash, 0)

\* The test "if (PH1_PRECOMMIT)" is on a constant, so both phases lock.
TEEstore(c, just) ==
    TFsign([c EXCEPT !.preph = just.data.proph, !.prepv = just.data.propv,
                     !.lockh = just.data.proph, !.lockv = just.data.propv],
           just.data.proph, newHash, 0)
=============================================================================
