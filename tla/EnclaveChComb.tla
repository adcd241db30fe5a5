---------------------------- MODULE EnclaveChComb ----------------------------
(***************************************************************************)
(* The trusted component of Chained Raftel and of Chained Achilles, which  *)
(* compiles the same file under other names (Enclave/EnclaveChComb.cpp,    *)
(* Enclave/EnclaveAchillesCh.cpp; App/TrustedChComb.cpp in the host).      *)
(* Pure operators on a component state c.                                  *)
(***************************************************************************)
EXTENDS RaftelTypes

CONSTANT SGX   \* the component is the enclave's, not TrustedChComb in the host

ASSUME BuildAssumption == SGX \in BOOLEAN

\* The genesis block has a hash of its own here, unlike in EnclaveComb.
GenesisId   == <<0, 0>>
GenesisHash == <<GenesisId>>

(***************************************************************************)
(* The certificate in a block: votes for a block (CERT) or an accumulator  *)
(* over new-views (ACCUM).  hash and view name the certified block, cview  *)
(* is the view whose votes or new-views were collected.  Statements never  *)
(* change, so the component's verdict on a certificate is fixed when that  *)
(* is made and is carried as valid.                                        *)
(***************************************************************************)
CA == [hash : Hash, view : View, cview : View, set : BOOLEAN, valid : BOOLEAN]

NoCA == [hash |-> noHash, view |-> 0, cview |-> 0, set |-> FALSE, valid |-> FALSE]

CBlock == [view : View, cert : CA, hash : Hash]

GENblock == [view |-> 0, cert |-> NoCA, hash |-> GenesisHash]

ChTrustedState == [preph : Hash, prepv : View, view : View, phase : Phase1]

CHCOMBinit ==
    [preph |-> GENblock.hash, prepv |-> 0, view |-> 0, phase |-> PH1_NEWVIEW]

CHCOMBincrement(c) ==
    IF c.phase = PH1_PREPARE THEN [c EXCEPT !.phase = PH1_NEWVIEW]
    ELSE [c EXCEPT !.phase = PH1_PREPARE, !.view = @ + 1]

CHCOMBsign(c, h1, h2, v2) ==
    [tc   |-> CHCOMBincrement(c),
     data |-> [proph |-> h1, propv |-> c.view, justh |-> h2, justv |-> v2,
               phase |-> c.phase]]

CH_COMB_TEEsign(c) == CHCOMBsign(c, noHash, c.preph, c.prepv)

CanChTEEprepare(c, block) == block.cert.valid /\ c.view = block.cert.cview + 1

\* Mutant: the certified block is not recorded.
CH_COMB_TEEprepare_unrecorded(c, block, hash) == CHCOMBsign(c, block.hash, newHash, 0)

\* hash is what the host says is the hash of the certified block.
CH_COMB_TEEprepare(c, block, hash) ==
    LET stored == IF block.cert.hash = hash
                  THEN [c EXCEPT !.preph = block.cert.hash, !.prepv = block.cert.view]
                  ELSE c
    IN  CHCOMBsign(stored, block.hash, newHash, 0)

\* Mutant: off by one in the view the accumulator is for.
CH_COMB_TEEaccum_before(nvs) ==
    [hash  |-> HighestNewView(nvs).data.justh,
     view  |-> HighestNewView(nvs).data.justv,
     cview |-> FirstNewView(nvs).data.propv - 1,
     set   |-> TRUE,
     valid |-> TRUE]

(***************************************************************************)
(* The accumulator of either entry point: TEEaccumSp is the case in which  *)
(* all the statements are equal.  The statements come from the log of one  *)
(* view, so none is skipped.                                               *)
(***************************************************************************)
CH_COMB_TEEaccum(nvs) ==
    [hash  |-> HighestNewView(nvs).data.justh,
     view  |-> HighestNewView(nvs).data.justv,
     cview |-> FirstNewView(nvs).data.propv,
     set   |-> TRUE,
     valid |-> TRUE]

(***************************************************************************)
(* The statement a vote is taken to have signed: the block, its view and a *)
(* hash of zeroes.  Whether that hash is set is part of the signed text    *)
(* (hash2string).  TEEprepare signs with newHash, which is set.            *)
(***************************************************************************)
ChVoteData(hash, v, zeroes) ==
    [proph |-> hash, propv |-> v, justh |-> zeroes, justv |-> 0, phase |-> PH1_PREPARE]

(***************************************************************************)
(* Checking a certificate: the component rebuilds the statement from it    *)
(* and wants every signature to be over that.  The enclave rebuilds it     *)
(* with noHash, which is not set, so it refuses every certificate of       *)
(* votes; the component in the host rebuilds what was signed.              *)
(***************************************************************************)
verifyCA(hash, v, votes) == votes # {} /\ \A o \in votes : o.data = ChVoteData(hash, v, noHash)

verify(hash, v, votes) == \A o \in votes : o.data = ChVoteData(hash, v, newHash)

ChCert(hash, v, votes) ==
    [hash |-> hash, view |-> v, cview |-> v, set |-> hash # noHash,
     valid |-> IF SGX THEN verifyCA(hash, v, votes) ELSE verify(hash, v, votes)]
=============================================================================
