------------------------------ MODULE RaftelTypes ------------------------------
(***************************************************************************)
(* What all the protocols of App/Handler.cpp share: block hashes, the      *)
(* statements trusted components sign, and the way a handler sends.        *)
(*                                                                         *)
(* Signatures are ideal.  A statement that travels with a signer's name    *)
(* was signed by that signer's component, so checking the signature of an  *)
(* intact statement succeeds and is not written out.                       *)
(***************************************************************************)
EXTENDS RaftelQuorums, Sequences

(***************************************************************************)
(* A block hash is the path of block identifiers from the genesis block,   *)
(* an identifier being the creator and the view (createNewBlock), so equal *)
(* hashes mean equal blocks and ancestry is the prefix relation.           *)
(*                                                                         *)
(* newHash() and noHash() are all zeroes and differ in the flag set, which *)
(* isDummy reads and hash2string puts into the signed text.  newHash is    *)
(* the path of no blocks; noHash is a path that no block has, since none   *)
(* is created in view 0.  eqHashes looks at the bytes only, but nowhere is *)
(* a hash that is not set compared with one that is.                       *)
(***************************************************************************)
BlockId == Replica \X View
Hash    == Seq(BlockId)
newHash == <<>>
noHash  == <<<<0, 0>>, <<0, 0>>>>

PH1_NEWVIEW   == "newview"
PH1_PREPARE   == "prepare"
PH1_PRECOMMIT == "precommit"
PH1_COMMIT    == "commit"
Phase1 == {PH1_NEWVIEW, PH1_PREPARE, PH1_PRECOMMIT, PH1_COMMIT}

RData == [proph : Hash, propv : View, justh : Hash, justv : View, phase : Phase1]

\* One signed new-view statement, the entry of a NewViewProofComb.
NewView == [data : RData, signer : Replica]

-----------------------------------------------------------------------------
(* Choosing among new-view statements *)

SignersOf(nvs) == {m.signer : m \in nvs}

(***************************************************************************)
(* The statement whose prepared pair the accumulator takes.  Statements    *)
(* are scanned in signer order with >=, so the last of the highest wins.   *)
(***************************************************************************)
HighestNewView(nvs) ==
    CHOOSE m \in nvs : \A o \in nvs :
        \/ o.data.justv < m.data.justv
        \/ o.data.justv = m.data.justv /\ o.signer <= m.signer

FirstNewView(nvs) == CHOOSE m \in nvs : \A o \in nvs : m.signer <= o.signer

-----------------------------------------------------------------------------
(* Stored messages and channels *)

\* The n entries of S with the lowest signers: a std::set is ordered by signer.
Lowest(S, n) == {m \in S : Cardinality({o \in S : o.signer < m.signer}) < n}

\* A handler of replica x.id sends on its outgoing channels x.out.
SendTo(x, p, m) == [x EXCEPT !.out[p] = Append(@, m)]
Broadcast(x, m) ==
    [x EXCEPT !.out = [p \in Replica |-> IF p = x.id THEN @[p] ELSE Append(@[p], m)]]

\* The trusted component signed: res is its new state and the statement.
Signed(x, res) == [x EXCEPT !.tc = res.tc, !.signed = @ \cup {res.data}]

\* Hash a is an ancestor of b, or b itself.
IsAncestor(a, b) == Len(a) <= Len(b) /\ a = SubSeq(b, 1, Len(a))
=============================================================================
