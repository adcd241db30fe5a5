--------------------------- MODULE RaftelInvariant ---------------------------
(***************************************************************************)
(* The inductive invariant behind the safety of Basic Raftel: what relates *)
(* the trusted components, the messages in flight and the hosts' logs at   *)
(* the end of every handler.  It is stated on a world, the state of all    *)
(* replicas as one value, so that the proofs can also speak of the worlds  *)
(* a handler passes through.  It is about the Raftel build (~Damysus).     *)
(***************************************************************************)
EXTENDS Raftel

\* What a replica's map of blocks, its host and all replicas together may be.
BlockMap == UNION {[D -> Hash] : D \in SUBSET View}

\* Blame clears a skip set that covers everybody.
SkipSet == {S \in SUBSET Replica : S # Replica}

HostState ==
    [view : View, phase : Phase1, skipped : SkipSet,
     processedNewViews : SUBSET View, processedCommit : SUBSET View,
     blocks : BlockMap, executed : Seq(Hash), nvs : SUBSET NewView,
     ldrs : SUBSET LdrPrepareMsg, votes : SUBSET Vote, qcs : SUBSET CombMsg,
     started : BOOLEAN, stopped : BOOLEAN, catchup : BOOLEAN]

World ==
    [tc : [Replica -> TrustedState], signed : [Replica -> SUBSET RData],
     net : [Replica -> [Replica -> Seq(Message)]], host : [Replica -> HostState]]

TheWorld == [tc |-> tc, signed |-> signed, net |-> net, host |-> host]

-----------------------------------------------------------------------------
(* Statements *)

\* A statement names a block; one that names none and is a new-view is a report.
Names(d) == d.proph # noHash
IsReport(d) == d.phase = PH1_NEWVIEW /\ ~Names(d)

\* One of the statements of Sp names block h in view v.
NamedBy(Sp, h, v) == \E d \in Sp : Names(d) /\ d.proph = h /\ d.propv = v

\* The pair a component may report: what it named, or the genesis block.
Backed(Sp, h, v) == (h = newHash /\ v = 0) \/ NamedBy(Sp, h, v)

\* getStarted made the component's first statement.
InTurn(Sp) == \E d \in Sp : d.propv = 1 /\ IsReport(d)

(***************************************************************************)
(* The statements that a component records as prepared.  A prepare vote    *)
(* for a leader without a TEE is not among them, and a component that was  *)
(* called before getStarted may make it under the phase PH1_PRECOMMIT.     *)
(***************************************************************************)
Kept(Sp, d) ==
    /\ Names(d)
    /\ \/ isTEE(Creator(d.proph))
       \/ d.phase = PH1_COMMIT
       \/ d.phase = PH1_PRECOMMIT /\ InTurn(Sp)

\* Report n tells of everything recorded before.
Truthful(Sp, n) ==
    /\ Backed(Sp, n.justh, n.justv)
    /\ n.justv < n.propv
    /\ \A d \in Sp : Kept(Sp, d) /\ d.propv < n.propv => d.propv <= n.justv

-----------------------------------------------------------------------------
(* One replica: its component c, what that signed Sp, its host h *)

\* The component by itself: what it signed is behind it, what it recorded is the newest.
ComponentOK(c, Sp) ==
    /\ c.view >= 1
    /\ c.prepv <= c.view
    /\ c.phase = PH1_NEWVIEW => c.prepv < c.view
    /\ \A d \in Sp : d.propv >= 1 /\ Counter(d.propv, d.phase) < Counter(c.view, c.phase)
    /\ Backed(Sp, c.preph, c.prepv)
    /\ \A d \in Sp : Kept(Sp, d) => d.propv <= c.prepv
    /\ \A n \in Sp : IsReport(n) => Truthful(Sp, n)

\* A replica whose getStarted came after other calls is one phase late for ever.
Late(Sp, h) == IF h.started /\ ~InTurn(Sp) THEN 1 ELSE 0
HasBlock(h) == IF h.view \in DOMAIN h.blocks THEN 1 ELSE 0

(***************************************************************************)
(* Component and host in step: they are in one view or the component is at *)
(* the start of the next, and until it records something in a view the     *)
(* component has made no more than a report, the late one of getStarted    *)
(* and a prepare vote there.                                               *)
(***************************************************************************)
StepOK(c, Sp, h) ==
    /\ h.view >= 1
    /\ InTurn(Sp) => h.started
    /\ c.view = h.view \/ c.view = h.view + 1
    /\ c.view = h.view + 1 => PhaseIndex(c.phase) <= Late(Sp, h)
    /\ c.view = h.view /\ c.prepv < c.view =>
          PhaseIndex(c.phase) <= 1 + Late(Sp, h) + HasBlock(h)
    /\ InTurn(Sp) /\ c.view = h.view => c.phase # PH1_NEWVIEW
    /\ InTurn(Sp) => \A d \in Sp : Names(d) => d.phase # PH1_NEWVIEW

\* The blocks the host recorded are ones its component named, none for a later view.
BlocksOK(Sp, h) ==
    \A v \in DOMAIN h.blocks : v <= h.view /\ NamedBy(Sp, h.blocks[v], v)

-----------------------------------------------------------------------------
(* All replicas: S and H are the functions signed and host *)

(***************************************************************************)
(* Block h of view v was proposed on a quorum of reports that its leader   *)
(* holds, once, on top of the highest block reported.                      *)
(***************************************************************************)
Justified(H, h, v) ==
    \E l \in Replica :
        /\ v \in H[l].processedNewViews
        /\ FixedLeaderMode => l = FixedLeader
        /\ \E nvs \in SUBSET H[l].nvs :
            /\ \A m \in nvs : m.data.propv = v
            /\ IsQuorum(SignersOf(nvs))
            /\ h = Append(HighestNewView(nvs).data.justh, <<l, v>>)

\* Whatever is named was proposed.
NamesOK(S, H) ==
    \A p \in Replica : \A d \in S[p] : Names(d) => Justified(H, d.proph, d.propv)

\* All that is named in one view, in whatever phase, is one block.
OneBlock(S) ==
    \A p, q \in Replica : \A d \in S[p], e \in S[q] :
        Names(d) /\ Names(e) /\ d.propv = e.propv => d.proph = e.proph

\* A quorum of one kind made the statement.
SignedByQuorum(S, d) == \E Q \in SUBSET Replica : IsQuorum(Q) /\ \A p \in Q : d \in S[p]

\* A quorum voted to prepare in view v.
QuorumPrepared(S, v) ==
    \E p \in Replica : \E e \in S[p] :
        Names(e) /\ e.propv = v /\ e.phase = PH1_PREPARE /\ SignedByQuorum(S, e)

\* What component c is locked on: the genesis block, or one that a quorum voted to pre-commit.
LockOK(S, c) ==
    \/ c.lockh = newHash /\ c.lockv = 0
    \/ \E p \in Replica : \E d \in S[p] :
        /\ Names(d) /\ d.proph = c.lockh /\ d.propv = c.lockv
        /\ d.phase = PH1_PRECOMMIT /\ SignedByQuorum(S, d)

\* A vote, or certificate, of one kind: what the signers named.
CombOK(S, data, signers, kind) ==
    /\ Names(data)
    /\ \A p \in signers : data \in S[p]
    /\ kind # PH1_PREPARE => QuorumPrepared(S, data.propv)

\* A proposal: the block extends the one it says, and its leader voted for it.
LdrOK(S, m) ==
    /\ m.sdata \in S[m.signer]
    /\ m.sdata.proph = m.block.hash /\ m.sdata.propv = m.acc.view
    /\ m.block.hash = Append(m.block.prev, <<m.signer, m.acc.view>>)
    /\ m.acc.signer = m.signer

\* A new-view was signed by the component it names.
NewViewOK(S, m) == m.data \in S[m.signer] /\ ~Names(m.data)

MessageOK(S, m) ==
    CASE m.type = "newview"    -> NewViewOK(S, m)
      [] m.type = "ldrprepare" -> LdrOK(S, m)
      [] OTHER                 -> CombOK(S, m.data, m.signers, m.type)

\* The messages on their way to l.
Incoming(N, l) == UNION {{N[s][l][i] : i \in DOMAIN N[s][l]} : s \in Replica}

ChannelsOK(S, N) == \A l \in Replica : \A m \in Incoming(N, l) : MessageOK(S, m)

\* What the hosts' logs hold.
LogOK(S, h) ==
    /\ \A m \in h.nvs : m.data \in S[m.signer] /\ IsReport(m.data)
    /\ \A m \in h.ldrs : LdrOK(S, m)
    /\ \A o \in h.votes : CombOK(S, o.data, {o.signer}, o.kind)
    /\ \A m \in h.qcs : CombOK(S, m.data, m.signers, m.type)

\* The reports that are in l's log or on their way to l.
Reports(N, H, l) ==
    H[l].nvs \cup {m \in Incoming(N, l) : m.type = "newview" /\ IsReport(m.data)}

\* Every report goes to one replica.
Routed(N, H) ==
    \A k, l \in Replica : \A m \in Reports(N, H, k), o \in Reports(N, H, l) :
        m.signer = o.signer /\ m.data.propv = o.data.propv => k = l

\* The proposal of a view is in one place of one channel to r.
SentOnce(N, r) ==
    \A s, q \in Replica : \A i \in DOMAIN N[s][r], j \in DOMAIN N[q][r] :
        /\ N[s][r][i].type = "ldrprepare" /\ N[q][r][j].type = "ldrprepare"
        /\ N[s][r][i].acc.view = N[q][r][j].acc.view
        => s = q /\ i = j

(***************************************************************************)
(* The proposal of a view reaches replica r once: it is in one place of    *)
(* one channel, in r's log, or already voted for.                          *)
(***************************************************************************)
Fresh(N, H, r) ==
    /\ SentOnce(N, r)
    /\ \A m \in Incoming(N, r) : m.type = "ldrprepare" =>
          /\ m.acc.view \notin DOMAIN H[r].blocks
          /\ \A o \in H[r].ldrs : o.acc.view # m.acc.view
    /\ H[r].catchup => /\ H[r].view \notin DOMAIN H[r].blocks
                       /\ \E o \in H[r].ldrs : o.acc.view = H[r].view

(***************************************************************************)
(* Where a prepare certificate taken on the word of the current leader's   *)
(* type is always one of the proposer's: the leader is fixed, or all       *)
(* replicas are of one type.                                               *)
(***************************************************************************)
Uniform == FixedLeaderMode \/ TotalTEE = 0 \/ TotalTEE = total

\* What commits a block: prepare votes for a leader with a TEE, else commit votes.
Decides(S, d) ==
    /\ Names(d)
    /\ d.phase = IF isTEE(Creator(d.proph)) THEN PH1_PREPARE ELSE PH1_COMMIT
    /\ SignedByQuorum(S, d)

ExecutedOK(S, h) ==
    Uniform => \A i \in DOMAIN h.executed :
        \E p \in Replica : \E d \in S[p] : d.proph = h.executed[i] /\ Decides(S, d)

\* The inductive invariant.
Inv(w) ==
    /\ \A p \in Replica :
        /\ ComponentOK(w.tc[p], w.signed[p])
        /\ LockOK(w.signed, w.tc[p])
        /\ StepOK(w.tc[p], w.signed[p], w.host[p])
        /\ BlocksOK(w.signed[p], w.host[p])
        /\ LogOK(w.signed, w.host[p])
        /\ ExecutedOK(w.signed, w.host[p])
        /\ Fresh(w.net, w.host, p)
    /\ NamesOK(w.signed, w.host)
    /\ OneBlock(w.signed)
    /\ ChannelsOK(w.signed, w.net)
    /\ Routed(w.net, w.host)

\* SafetyInvariant: the inductive invariant holds between handlers.
SafetyInvariant == Inv(TheWorld)
=============================================================================
