----------------------------- MODULE EnclaveComb -----------------------------
(***************************************************************************)
(* The trusted component of a replica ("Checker+"): its state, the guards  *)
(* under which it signs and the state each signature leaves behind.        *)
(* Enclave/EnclaveComb.cpp runs it inside SGX; App/TrustedComb.cpp is the  *)
(* copy that a replica without a TEE runs in its host.  Everything here is *)
(* a pure operator on a component state c, used by the single component    *)
(* of module Checker and by the replicas of module Raftel.                 *)
(***************************************************************************)
EXTENDS RaftelTypes

Accum == [view : View, prepv : View, hash : Hash, size : Nat, signer : Replica]

\* A certificate: a statement and the set of its signers.
Just == [data : RData, signers : SUBSET Replica]

Block == [prev : Hash, hash : Hash]

TrustedState ==
    [preph : Hash, prepv : View, lockh : Hash, lockv : View, view : View, phase : Phase1]

\* Mutant: -1 stands for "nothing prepared yet".
COMB_init_sentinel ==
    [preph |-> newHash, prepv |-> -1, lockh |-> newHash, lockv |-> 0,
     view |-> 1, phase |-> PH1_NEWVIEW]

\* View 0 is reserved for the genesis block.
COMB_init ==
    [preph |-> newHash, prepv |-> 0, lockh |-> newHash, lockv |-> 0,
     view |-> 1, phase |-> PH1_NEWVIEW]

-----------------------------------------------------------------------------
(* Signing *)

COMB_increment(c) ==
    CASE c.phase = PH1_NEWVIEW   -> [c EXCEPT !.phase = PH1_PREPARE]
      [] c.phase = PH1_PREPARE   -> [c EXCEPT !.phase = PH1_PRECOMMIT]
      [] c.phase = PH1_PRECOMMIT -> [c EXCEPT !.phase = PH1_COMMIT]
      [] c.phase = PH1_COMMIT    -> [c EXCEPT !.phase = PH1_NEWVIEW, !.view = @ + 1]

\* The position of a (view, phase) pair in the order in which they are used.
PhaseIndex(p) == CASE p = PH1_NEWVIEW -> 0 [] p = PH1_PREPARE -> 1
                   [] p = PH1_PRECOMMIT -> 2 [] p = PH1_COMMIT -> 3
Counter(v, p) == 4 * v + PhaseIndex(p)

\* What COMB_sign signs: the arguments under the current view and phase.
COMB_rdata(c, h1, h2, v2) ==
    [proph |-> h1, propv |-> c.view, justh |-> h2, justv |-> v2, phase |-> c.phase]

\* A call that signs returns the new state and the statement.
COMB_sign(c, h1, h2, v2) ==
    [tc |-> COMB_increment(c), data |-> COMB_rdata(c, h1, h2, v2)]

\* Mutant: a new-view reports the locked pair instead of the prepared pair.
COMB_TEEsign_lock(c) == COMB_sign(c, noHash, c.lockh, c.lockv)

COMB_TEEsign(c) == COMB_sign(c, noHash, c.preph, c.prepv)

-----------------------------------------------------------------------------
(* Accumulating new-view statements *)

\* The accumulator leader p signs over the statements of one view.
COMB_TEEaccum(p, nvs) ==
    [view   |-> FirstNewView(nvs).data.propv,
     prepv  |-> HighestNewView(nvs).data.justv,
     hash   |-> HighestNewView(nvs).data.justh,
     size   |-> Cardinality(SignersOf(nvs)),
     signer |-> p]

\* The same from one statement that every signer signed.
COMB_TEEaccumSp(p, data, signers) ==
    [view |-> data.propv, prepv |-> data.justv, hash |-> data.justh,
     size |-> Cardinality(signers), signer |-> p]

COMB_validateNewViews(c, nvs, acc) ==
    /\ \A m \in nvs : m.data.phase = PH1_NEWVIEW /\ m.data.propv = c.view
    /\ Cardinality(SignersOf(nvs)) = Cardinality(nvs)
    /\ IsQuorum(SignersOf(nvs))
    /\ acc.view = c.view
    /\ acc.size = Cardinality(nvs)
    /\ acc.prepv = HighestNewView(nvs).data.justv
    /\ acc.hash = HighestNewView(nvs).data.justh

-----------------------------------------------------------------------------
(* Voting for a proposal and storing a certificate *)

SafeParent(c, block, acc) ==
    /\ block.prev = acc.hash
    /\ block.prev = c.lockh \/ acc.prepv > c.lockv

CanTEEprepare(c, block, acc, nvs) ==
    COMB_validateNewViews(c, nvs, acc) /\ SafeParent(c, block, acc)

\* Mutant: the proposal of a TEE leader is not recorded.
COMB_TEEprepare_unrecorded(c, block, acc) == COMB_sign(c, block.hash, acc.hash, acc.prepv)

\* Mutant: the block is recorded under the view of its parent.
COMB_TEEprepare_parentView(c, block, acc) ==
    COMB_sign([c EXCEPT !.preph = block.hash, !.prepv = acc.prepv],
              block.hash, acc.hash, acc.prepv)

\* The proposal of a TEE leader is recorded as prepared at once.
COMB_TEEprepare(c, block, acc) ==
    LET stored == IF isTEE(acc.signer)
                  THEN [c EXCEPT !.preph = block.hash, !.prepv = c.view]
                  ELSE c
    IN  COMB_sign(stored, block.hash, acc.hash, acc.prepv)

CanTEEstore(c, just) ==
    /\ IsQuorum(just.signers)
    /\ just.data.propv = c.view
    /\ just.data.phase \in {PH1_PREPARE, PH1_PRECOMMIT}

\* Mutant: a certificate is locked or recorded, never both.
COMB_TEEstore_lockOnly(c, just) ==
    COMB_sign(IF just.data.phase = PH1_PRECOMMIT
              THEN [c EXCEPT !.lockh = just.data.proph, !.lockv = just.data.propv]
              ELSE c,
              just.data.proph, newHash, 0)

\* Mutant: a certificate is voted on without being stored.
COMB_TEEstore_unrecorded(c, just) == COMB_sign(c, just.data.proph, newHash, 0)

\* Mutant: a prepare certificate locks already.
COMB_TEEstore_earlyLock(c, just) ==
    COMB_sign([c EXCEPT !.preph = just.data.proph, !.prepv = just.data.propv,
                        !.lockh = just.data.proph, !.lockv = just.data.propv],
              just.data.proph, newHash, 0)

COMB_TEEstore(c, just) ==
    LET h == just.data.proph
        v == just.data.propv
        prepared == [c EXCEPT !.preph = h, !.prepv = v]
        locked   == IF just.data.phase = PH1_PRECOMMIT
                    THEN [prepared EXCEPT !.lockh = h, !.lockv = v]
                    ELSE prepared
    IN  COMB_sign(locked, h, newHash, 0)
=============================================================================
