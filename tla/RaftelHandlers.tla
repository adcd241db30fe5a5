---------------------------- MODULE RaftelHandlers ----------------------------
(***************************************************************************)
(* The functions that the handlers of App/Handler.cpp are made of, on      *)
(* contexts: a context x is a handler's view of its replica, and Put(w, x) *)
(* is the world w with x in it. Good(w, x) says that this world satisfies  *)
(* the invariant, so a handler is correct when each of its steps goes from *)
(* a good context to a good one.                                           *)
(*                                                                         *)
(* First the steps in which the trusted component signs, then sending,     *)
(* logging and executing, proposing on a quorum of new-views, entering the *)
(* next view, and deciding on a certificate.                               *)
(***************************************************************************)
EXTENDS RaftelFacts

USE DEF PH1_NEWVIEW, PH1_PREPARE, PH1_PRECOMMIT, PH1_COMMIT

-----------------------------------------------------------------------------
(* Contexts *)

\* What a handler of one replica works on.
ContextType ==
    [id : Replica, tc : TrustedState, signed : SUBSET RData,
     out : [Replica -> Seq(Message)], h : HostState]

\* World w with the part of replica x.id as context x has it.
Put(w, x) ==
    [tc |-> [w.tc EXCEPT ![x.id] = x.tc], signed |-> [w.signed EXCEPT ![x.id] = x.signed],
     net |-> [w.net EXCEPT ![x.id] = x.out], host |-> [w.host EXCEPT ![x.id] = x.h]]

\* A context that a handler may be in: the invariant holds with it in its place.
Good(w, x) == w \in World /\ x \in ContextType /\ Inv(Put(w, x))

\* From context x to a good context y of the same replica and view.
Goes(w, x, y) ==
    /\ Good(w, y) /\ y.id = x.id /\ x.signed \subseteq y.signed
    /\ y.h.view = x.h.view /\ y.h.skipped = x.h.skipped /\ ~y.h.catchup

\* The parts of a context.
LEMMA ContextParts ==
    ASSUME NEW x \in ContextType
    PROVE  /\ x.id \in Replica /\ x.tc \in TrustedState /\ x.signed \subseteq RData
           /\ x.out \in [Replica -> Seq(Message)] /\ x.h \in HostState
BY DEF ContextType

\* A world with a context in its place.
LEMMA PutParts ==
    ASSUME NEW w \in World, NEW x \in ContextType
    PROVE  LET b == Put(w, x)
           IN  /\ b \in World
               /\ b.tc[x.id] = x.tc /\ b.signed[x.id] = x.signed
               /\ b.net[x.id] = x.out /\ b.host[x.id] = x.h
               /\ \A p \in Replica \ {x.id} :
                    /\ b.tc[p] = w.tc[p] /\ b.signed[p] = w.signed[p]
                    /\ b.net[p] = w.net[p] /\ b.host[p] = w.host[p]
<1>1. /\ w.tc \in [Replica -> TrustedState] /\ w.signed \in [Replica -> SUBSET RData]
      /\ w.net \in [Replica -> [Replica -> Seq(Message)]]
      /\ w.host \in [Replica -> HostState]
  BY DEF World
<1>2. /\ x.id \in Replica /\ x.tc \in TrustedState /\ x.signed \in SUBSET RData
      /\ x.out \in [Replica -> Seq(Message)] /\ x.h \in HostState
  BY DEF ContextType
<1> DEFINE T == [w.tc EXCEPT ![x.id] = x.tc]
           S == [w.signed EXCEPT ![x.id] = x.signed]
           N == [w.net EXCEPT ![x.id] = x.out]
           H == [w.host EXCEPT ![x.id] = x.h]
<1>3. /\ T \in [Replica -> TrustedState] /\ S \in [Replica -> SUBSET RData]
      /\ N \in [Replica -> [Replica -> Seq(Message)]] /\ H \in [Replica -> HostState]
  BY <1>1, <1>2
<1>4. /\ T[x.id] = x.tc /\ S[x.id] = x.signed /\ N[x.id] = x.out /\ H[x.id] = x.h
      /\ \A p \in Replica \ {x.id} : /\ T[p] = w.tc[p] /\ S[p] = w.signed[p]
                                     /\ N[p] = w.net[p] /\ H[p] = w.host[p]
  BY <1>1, <1>2
<1>5. Put(w, x) = [tc |-> T, signed |-> S, net |-> N, host |-> H]
  BY DEF Put
<1> HIDE DEF T, S, N, H
<1> QED BY <1>3, <1>4, <1>5 DEF World

\* From one context to the next only the one replica changes.
LEMMA PutNear ==
    ASSUME NEW w \in World, NEW x \in ContextType, NEW y \in ContextType,
           y.id = x.id, x.signed \subseteq y.signed
    PROVE  /\ Near(Put(w, x), Put(w, y), x.id)
           /\ y.out = x.out => Put(w, y).net = Put(w, x).net
<1> DEFINE a == Put(w, x)
           b == Put(w, y)
<1>1. a \in World /\ b \in World
  BY PutParts
<1>2. \A p \in Replica \ {x.id} :
        /\ a.tc[p] = w.tc[p] /\ a.signed[p] = w.signed[p]
        /\ a.net[p] = w.net[p] /\ a.host[p] = w.host[p]
        /\ b.tc[p] = w.tc[p] /\ b.signed[p] = w.signed[p]
        /\ b.net[p] = w.net[p] /\ b.host[p] = w.host[p]
  BY PutParts
<1>3. a.signed[x.id] = x.signed /\ b.signed[x.id] = y.signed
  BY PutParts
<1>4. y.out = x.out => b.net = a.net
  BY DEF Put
<1> HIDE DEF a, b
<1>5. Near(a, b, x.id)
  BY <1>1, <1>2, <1>3 DEF Near
<1> QED BY <1>4, <1>5 DEF a, b


-----------------------------------------------------------------------------
(* Naming a block *)

(***************************************************************************)
(* r's component names a block in its host's view: a prepare vote, which   *)
(* records the block in the host, or the vote on a certificate.            *)
(***************************************************************************)
LEMMA NameSign ==
    ASSUME NEW r \in Replica, NEW a, NEW b, Near(a, b, r), Inv(a), b.net = a.net,
           NEW d \in RData, Names(d),
           d.propv = a.tc[r].view, d.phase = a.tc[r].phase,
           b.signed[r] = a.signed[r] \cup {d},
           a.tc[r].view = a.host[r].view,
           Counter(b.tc[r].view, b.tc[r].phase) = Counter(a.tc[r].view, a.tc[r].phase) + 1,
           \/ /\ b.tc[r].view = a.tc[r].view
              /\ PhaseIndex(b.tc[r].phase) = PhaseIndex(a.tc[r].phase) + 1
           \/ /\ b.tc[r].view = a.tc[r].view + 1 /\ b.tc[r].phase = PH1_NEWVIEW
              /\ a.tc[r].phase = PH1_COMMIT,
           \/ /\ b.tc[r].preph = a.tc[r].preph /\ b.tc[r].prepv = a.tc[r].prepv
              /\ ~isTEE(Creator(d.proph)) /\ a.host[r].view \notin DOMAIN a.host[r].blocks
           \/ b.tc[r].preph = d.proph /\ b.tc[r].prepv = a.tc[r].view,
           \/ b.tc[r].lockh = a.tc[r].lockh /\ b.tc[r].lockv = a.tc[r].lockv
           \/ LockOK(b.signed, b.tc[r]),
           b.host[r].view = a.host[r].view, b.host[r].started = a.host[r].started,
           b.host[r].nvs = a.host[r].nvs, b.host[r].ldrs = a.host[r].ldrs,
           b.host[r].votes = a.host[r].votes, b.host[r].qcs = a.host[r].qcs,
           b.host[r].executed = a.host[r].executed, ~b.host[r].catchup,
           \/ b.host[r].blocks = a.host[r].blocks /\ b.tc[r].prepv = a.tc[r].view
           \/ /\ DOMAIN b.host[r].blocks = DOMAIN a.host[r].blocks \cup {a.host[r].view}
              /\ \A v \in DOMAIN b.host[r].blocks :
                    b.host[r].blocks[v] = IF v = a.host[r].view THEN d.proph
                                          ELSE a.host[r].blocks[v]
              /\ \A o \in Incoming(a.net, r) :
                    o.type = "ldrprepare" => o.acc.view # a.host[r].view,
           NamesOK(b.signed, b.host), OneBlock(b.signed)
    PROVE  Inv(b)
<1> DEFINE c == a.tc[r]
           k == b.tc[r]
           h == a.host[r]
           j == b.host[r]
           Sp == a.signed[r]
           S2 == b.signed[r]
<1>1. /\ c \in TrustedState /\ k \in TrustedState /\ h \in HostState /\ j \in HostState
      /\ Sp \subseteq RData
  BY WorldParts DEF Near
<1>2. /\ c.view \in Nat /\ c.prepv \in Nat /\ k.view \in Nat /\ k.prepv \in Nat
      /\ c.phase \in Phase1 /\ k.phase \in Phase1 /\ h.view \in Nat
      /\ c.view \in View /\ k.view \in View
  BY <1>1 DEF TrustedState, HostState, View
<1>3. ComponentOK(c, Sp) /\ StepOK(c, Sp, h) /\ BlocksOK(Sp, h) /\ Fresh(a.net, a.host, r)
  BY DEF Inv
<1>4. /\ PhaseIndex(c.phase) \in 0 .. 3 /\ PhaseIndex(k.phase) \in 0 .. 3
      /\ PhaseIndex(c.phase) = 0 <=> c.phase = PH1_NEWVIEW
      /\ PhaseIndex(k.phase) = 0 <=> k.phase = PH1_NEWVIEW
      /\ PhaseIndex(c.phase) = 2 <=> c.phase = PH1_PRECOMMIT
      /\ PhaseIndex(c.phase) = 3 <=> c.phase = PH1_COMMIT
  BY <1>2, CounterOrder
<1>5. c.prepv <= c.view
  BY <1>3 DEF ComponentOK
<1>6. Late(Sp, h) \in {0, 1} /\ (InTurn(Sp) => Late(Sp, h) = 0)
  BY DEF Late
<1> HIDE DEF c, k, h, j, Sp, S2
<1>7. /\ S2 = Sp \cup {d} /\ InTurn(S2) = InTurn(Sp)
      /\ c.view = h.view /\ j.view = h.view /\ j.started = h.started
      /\ d.propv = c.view /\ d.phase = c.phase
  BY DEF InTurn, IsReport, c, h, j, Sp, S2
<1>8. ComponentOK(k, S2)
  <2>1. Kept(Sp, d) => k.prepv = c.view
    <3> SUFFICES ASSUME Kept(Sp, d), k.prepv # c.view PROVE FALSE
      OBVIOUS
    <3>1. /\ ~isTEE(Creator(d.proph)) /\ h.view \notin DOMAIN h.blocks
          /\ k.prepv = c.prepv
      BY DEF c, k, h
    <3>2. d.phase = PH1_COMMIT \/ (d.phase = PH1_PRECOMMIT /\ InTurn(Sp))
      BY <3>1 DEF Kept
    <3>3. c.prepv < c.view
      BY <1>2, <1>5, <3>1
    <3>4. PhaseIndex(c.phase) <= 1 + Late(Sp, h) + 0
      BY <1>3, <1>7, <3>1, <3>3 DEF StepOK, HasBlock
    <3> QED BY <1>4, <1>6, <1>7, <3>2, <3>4
  <2>2. \/ k.preph = c.preph /\ k.prepv = c.prepv
        \/ k.preph = d.proph /\ k.prepv = c.view
    BY DEF c, k
  <2>3. Counter(k.view, k.phase) = Counter(c.view, c.phase) + 1
    BY DEF c, k
  <2> QED BY <1>1, <1>3, <1>7, <2>1, <2>2, <2>3, NamingComponent
<1>9. \/ k.view = c.view /\ PhaseIndex(k.phase) = PhaseIndex(c.phase) + 1
      \/ k.view = c.view + 1 /\ k.phase = PH1_NEWVIEW
  BY DEF c, k
<1>10. StepOK(k, S2, j)
  <2>1. Late(S2, j) = Late(Sp, h)
    BY <1>7 DEF Late
  <2>2. k.view = j.view + 1 => PhaseIndex(k.phase) <= Late(S2, j)
    BY <1>2, <1>4, <1>6, <1>7, <1>9, <2>1
  <2>3. ASSUME k.view = j.view, k.prepv < k.view
        PROVE  PhaseIndex(k.phase) <= 1 + Late(S2, j) + HasBlock(j)
    <3>1. k.prepv # c.view /\ k.view = c.view
      BY <1>2, <1>7, <2>3
    <3>2. /\ k.prepv = c.prepv /\ h.view \notin DOMAIN h.blocks
          /\ h.view \in DOMAIN j.blocks
      BY <3>1 DEF c, k, h, j
    <3>3. PhaseIndex(c.phase) <= 1 + Late(Sp, h) + 0
      BY <1>3, <1>7, <2>3, <3>1, <3>2 DEF StepOK, HasBlock
    <3>4. HasBlock(j) = 1
      BY <1>7, <3>2 DEF HasBlock
    <3> QED BY <1>2, <1>4, <1>6, <1>9, <2>1, <3>1, <3>3, <3>4
  <2>4. InTurn(S2) /\ k.view = j.view => k.phase # PH1_NEWVIEW
    BY <1>2, <1>4, <1>7, <1>9
  <2>5. InTurn(S2) => \A e \in S2 : Names(e) => e.phase # PH1_NEWVIEW
    BY <1>3, <1>7 DEF StepOK
  <2>6. InTurn(S2) => j.started
    BY <1>3, <1>7 DEF StepOK
  <2>7. j.view >= 1 /\ (k.view = j.view \/ k.view = j.view + 1)
    BY <1>3, <1>7, <1>9 DEF StepOK
  <2> QED BY <2>2, <2>3, <2>4, <2>5, <2>6, <2>7 DEF StepOK
<1>11. BlocksOK(S2, j)
  <2>1. NamedBy(S2, d.proph, h.view)
    BY <1>7 DEF NamedBy
  <2>2. \A v \in DOMAIN h.blocks : v <= h.view /\ NamedBy(S2, h.blocks[v], v)
    BY <1>3, <1>7 DEF BlocksOK, NamedBy
  <2>3. h.view <= h.view
    BY <1>2
  <2>4. \/ j.blocks = h.blocks
        \/ /\ DOMAIN j.blocks = DOMAIN h.blocks \cup {h.view}
           /\ \A v \in DOMAIN j.blocks :
                j.blocks[v] = IF v = h.view THEN d.proph ELSE h.blocks[v]
    BY DEF h, j
  <2> SUFFICES ASSUME NEW v \in DOMAIN j.blocks
               PROVE  v <= j.view /\ NamedBy(S2, j.blocks[v], v)
    BY DEF BlocksOK
  <2>5. CASE j.blocks = h.blocks
    BY <1>7, <2>2, <2>5
  <2>6. CASE j.blocks # h.blocks /\ v = h.view
    BY <1>7, <2>1, <2>3, <2>4, <2>6
  <2>7. CASE j.blocks # h.blocks /\ v # h.view
    <3>1. v \in DOMAIN h.blocks /\ j.blocks[v] = h.blocks[v]
      BY <2>4, <2>7
    <3> QED BY <1>7, <2>2, <3>1
  <2> QED BY <2>5, <2>6, <2>7
<1>12. Fresh(b.net, b.host, r)
  <2>1. \A o \in Incoming(b.net, r) : o.type = "ldrprepare" =>
          /\ o.acc.view \notin DOMAIN j.blocks
          /\ \A x \in j.ldrs : x.acc.view # o.acc.view
    <3> SUFFICES ASSUME NEW o \in Incoming(b.net, r), o.type = "ldrprepare"
                 PROVE  /\ o.acc.view \notin DOMAIN j.blocks
                        /\ \A x \in j.ldrs : x.acc.view # o.acc.view
      OBVIOUS
    <3>1. o \in Incoming(a.net, r) /\ j.ldrs = a.host[r].ldrs
      BY DEF j
    <3>2. /\ o.acc.view \notin DOMAIN a.host[r].blocks
          /\ \A x \in a.host[r].ldrs : x.acc.view # o.acc.view
      BY <1>3, <3>1 DEF Fresh
    <3>3. \/ j.blocks = a.host[r].blocks
          \/ /\ DOMAIN j.blocks = DOMAIN a.host[r].blocks \cup {a.host[r].view}
             /\ o.acc.view # a.host[r].view
      BY <3>1 DEF j
    <3> QED BY <3>1, <3>2, <3>3
  <2>2. Fresh(a.net, a.host, r) /\ b.net = a.net
    BY <1>3
  <2>3. j.catchup => j.view \notin DOMAIN j.blocks /\ \E o \in j.ldrs : o.acc.view = j.view
    BY DEF j
  <2>4. SentOnce(b.net, r)
    BY <2>2 DEF Fresh
  <2> QED BY <2>1, <2>3, <2>4 DEF Fresh, j
<1> QED BY <1>8, <1>10, <1>11, <1>12, SignStep DEF k, j, S2


-----------------------------------------------------------------------------
(* Reports *)

\* The report of signer p for view v is nowhere; it is nowhere but at r.
Unsent(w, p, v) ==
    \A l \in Replica : \A o \in Reports(w.net, w.host, l) :
        ~(o.signer = p /\ o.data.propv = v)
InHand(w, r, p, v) ==
    \A l \in Replica : \A o \in Reports(w.net, w.host, l) :
        o.signer = p /\ o.data.propv = v => l = r

\* Whatever counts as a report was signed as one.
LEMMA ReportsSigned ==
    ASSUME NEW w \in World, Inv(w), NEW l \in Replica, NEW o \in Reports(w.net, w.host, l)
    PROVE  /\ o.signer \in Replica /\ o.data \in RData
           /\ o.data \in w.signed[o.signer] /\ IsReport(o.data)
<1>1. CASE o \in w.host[l].nvs
  <2>1. o \in NewView
    BY <1>1, WorldParts
  <2>2. LogOK(w.signed, w.host[l])
    BY DEF Inv
  <2> QED BY <1>1, <2>1, <2>2 DEF LogOK, NewView
<1>2. CASE o \in Incoming(w.net, l) /\ o.type = "newview" /\ IsReport(o.data)
  <2>1. o \in NewViewMsg
    BY <1>2, IncomingType, MessageKinds
  <2>2. MessageOK(w.signed, o)
    BY <1>2 DEF Inv, ChannelsOK
  <2>3. NewViewOK(w.signed, o)
    BY <1>2, <2>2 DEF MessageOK
  <2> QED BY <1>2, <2>1, <2>3 DEF NewViewOK, NewViewMsg
<1> QED BY <1>1, <1>2 DEF Reports

\* A component's next new-view statement has not been sent.
LEMMA NextUnsent ==
    ASSUME NEW w \in World, Inv(w), NEW r \in Replica, NEW v \in View,
           Counter(w.tc[r].view, w.tc[r].phase) <= Counter(v, PH1_NEWVIEW)
    PROVE  Unsent(w, r, v)
<1> SUFFICES ASSUME NEW l \in Replica, NEW o \in Reports(w.net, w.host, l),
                    o.signer = r, o.data.propv = v
             PROVE  FALSE
  BY DEF Unsent
<1>1. o.data \in RData /\ o.data \in w.signed[r] /\ o.data.phase = PH1_NEWVIEW
  BY ReportsSigned DEF IsReport
<1>2. Counter(v, PH1_NEWVIEW) < Counter(w.tc[r].view, w.tc[r].phase)
  BY <1>1 DEF Inv, ComponentOK
<1>3. /\ Counter(v, PH1_NEWVIEW) \in Nat
      /\ Counter(w.tc[r].view, w.tc[r].phase) \in Nat
  <2>1. w.tc[r].view \in View /\ w.tc[r].phase \in Phase1 /\ PH1_NEWVIEW \in Phase1
    BY WorldParts DEF TrustedState, Phase1
  <2> QED BY <2>1, CounterOrder
<1> QED BY <1>2, <1>3

(***************************************************************************)
(* While a leader holds a quorum of reports for a view in which it has     *)
(* proposed nothing, no block is named in that view: who named one had a   *)
(* quorum of reports too, and no report is at two replicas.                *)
(***************************************************************************)
LEMMA NothingNamed ==
    ASSUME NEW w \in World, Inv(w), NEW r \in Replica,
           NEW v \in View, v \notin w.host[r].processedNewViews,
           NEW nvs, nvs \subseteq w.host[r].nvs, \A m \in nvs : m.data.propv = v,
           IsQuorum(SignersOf(nvs))
    PROVE  /\ \A p \in Replica : \A d \in w.signed[p] : Names(d) => d.propv # v
           /\ \A l \in Replica :
                /\ v \notin DOMAIN w.host[l].blocks
                /\ \A o \in w.host[l].ldrs : o.acc.view # v
                /\ \A o \in Incoming(w.net, l) : o.type = "ldrprepare" => o.acc.view # v
<1>1. ASSUME NEW p \in Replica, NEW d \in w.signed[p], Names(d), d.propv = v
      PROVE  FALSE
  <2>1. Justified(w.host, d.proph, v)
    BY <1>1 DEF Inv, NamesOK
  <2>2. PICK l \in Replica : /\ v \in w.host[l].processedNewViews
                             /\ \E s \in SUBSET w.host[l].nvs :
                                    /\ \A m \in s : m.data.propv = v
                                    /\ IsQuorum(SignersOf(s))
    BY <2>1 DEF Justified
  <2>3. PICK s \in SUBSET w.host[l].nvs : /\ \A m \in s : m.data.propv = v
                                          /\ IsQuorum(SignersOf(s))
    BY <2>2
  <2>4. PICK q \in SignersOf(nvs) : q \in SignersOf(s)
    BY <2>3, QuorumIntersection
  <2>5. PICK m \in nvs : m.signer = q
    BY <2>4 DEF SignersOf
  <2>6. PICK o \in s : o.signer = q
    BY <2>4 DEF SignersOf
  <2>7. m \in Reports(w.net, w.host, r) /\ o \in Reports(w.net, w.host, l)
    BY <2>3, <2>5, <2>6 DEF Reports
  <2>8. m.signer = o.signer /\ m.data.propv = o.data.propv
    BY <2>3, <2>5, <2>6
  <2>9. Routed(w.net, w.host)
    BY DEF Inv
  <2>10. r = l
    BY <2>7, <2>8, <2>9 DEF Routed
  <2> QED BY <2>2, <2>10
<1>2. ASSUME NEW m \in LdrPrepareMsg, LdrOK(w.signed, m), m.acc.view = v PROVE FALSE
  <2>1. /\ m.signer \in Replica /\ m.block.prev \in Seq(BlockId)
        /\ m.acc.view \in View
    BY DEF LdrPrepareMsg, Block, Accum, Hash
  <2>2. m.sdata.proph # noHash
    <3>1. m.acc.view >= 1
      BY <1>2, <2>1 DEF LdrOK, Inv, ComponentOK
    <3>2. Append(m.block.prev, <<m.signer, m.acc.view>>) # noHash
      BY <2>1, <3>1, BlockIsSet DEF Hash, View
    <3> QED BY <1>2, <3>2 DEF LdrOK
  <2> QED BY <1>1, <1>2, <2>1, <2>2 DEF LdrOK, Names
<1>3. ASSUME NEW l \in Replica PROVE v \notin DOMAIN w.host[l].blocks
  <2>1. BlocksOK(w.signed[l], w.host[l])
    BY DEF Inv
  <2> QED BY <1>1, <2>1 DEF BlocksOK, NamedBy
<1>4. ASSUME NEW l \in Replica, NEW o \in w.host[l].ldrs PROVE o.acc.view # v
  <2>1. LogOK(w.signed, w.host[l]) /\ w.host[l] \in HostState
    BY WorldParts DEF Inv
  <2>2. o \in LdrPrepareMsg /\ LdrOK(w.signed, o)
    BY <2>1, <1>4 DEF LogOK, HostState
  <2> QED BY <1>2, <2>2
<1>5. ASSUME NEW l \in Replica, NEW o \in Incoming(w.net, l), o.type = "ldrprepare"
      PROVE  o.acc.view # v
  <2>1. o \in LdrPrepareMsg
    BY <1>5, IncomingType, MessageKinds
  <2>2. MessageOK(w.signed, o)
    BY <1>5 DEF Inv, ChannelsOK
  <2>3. LdrOK(w.signed, o)
    BY <1>5, <2>2 DEF MessageOK
  <2> QED BY <1>2, <2>1, <2>3
<1> QED BY <1>1, <1>3, <1>4, <1>5


-----------------------------------------------------------------------------
(* Signing new-views *)

\* What a component signs by COMB_TEEsign, and what it becomes.
LEMMA SignFacts ==
    ASSUME ~Damysus, NEW c \in TrustedState
    PROVE  LET res == callTEEsignComb(c)
           IN  /\ res.tc = COMB_increment(c) /\ res.tc \in TrustedState
               /\ res.data \in RData
               /\ res.data.proph = noHash /\ res.data.propv = c.view
               /\ res.data.justh = c.preph /\ res.data.justv = c.prepv
               /\ res.data.phase = c.phase
<1>1. callTEEsignComb(c) = [tc |-> COMB_increment(c),
                            data |-> [proph |-> noHash, propv |-> c.view, justh |-> c.preph,
                                      justv |-> c.prepv, phase |-> c.phase]]
  BY DEF callTEEsignComb, COMB_TEEsign, COMB_sign, COMB_rdata
<1>2. COMB_increment(c) \in TrustedState
  BY IncrementMoves
<1>3. noHash \in Hash
  BY NoHashType
<1> HIDE DEF COMB_increment
<1> QED BY <1>1, <1>2, <1>3 DEF RData, TrustedState

\* getStarted: the statement and the flag.
LEMMA StartSign ==
    ASSUME ~Damysus, NEW w, NEW x, Good(w, x), ~x.h.started
    PROVE  LET res == callTEEsignComb(x.tc)
               y   == Signed([x EXCEPT !.h.started = TRUE], res)
           IN  /\ Good(w, y) /\ y.id = x.id /\ y.h = [x.h EXCEPT !.started = TRUE]
               /\ res.data \in y.signed /\ res.data \in RData /\ ~Names(res.data)
               /\ IsReport(res.data) => Unsent(Put(w, y), x.id, res.data.propv)
<1> DEFINE res == callTEEsignComb(x.tc)
           y   == Signed([x EXCEPT !.h.started = TRUE], res)
           a   == Put(w, x)
           b   == Put(w, y)
           c   == x.tc
           k   == res.tc
           d   == res.data
           Sp  == x.signed
           S2  == y.signed
           h   == x.h
           j   == y.h
           r   == x.id
<1>1. x \in ContextType /\ w \in World /\ Inv(a) /\ r \in Replica
  BY ContextParts DEF Good
<1>2. c \in TrustedState /\ Sp \subseteq RData /\ h \in HostState
  BY <1>1, ContextParts
<1>3. /\ k = COMB_increment(c) /\ k \in TrustedState /\ d \in RData
      /\ d.proph = noHash /\ d.propv = c.view /\ d.justh = c.preph /\ d.justv = c.prepv
      /\ d.phase = c.phase
  BY <1>2, SignFacts
<1>4. y = [x EXCEPT !.h.started = TRUE, !.tc = k, !.signed = @ \cup {d}]
  BY <1>1 DEF Signed, ContextType
<1> HIDE DEF res, y, c, k, d
<1>5. /\ y \in ContextType /\ y.id = r /\ y.tc = k /\ y.signed = Sp \cup {d}
      /\ y.out = x.out /\ y.h = [x.h EXCEPT !.started = TRUE]
  <2> DEFINE g == [x.h EXCEPT !.started = TRUE]
  <2>1. g \in HostState
    BY <1>2 DEF HostState
  <2>2. y = [x EXCEPT !.h = g, !.tc = k, !.signed = Sp \cup {d}]
    BY <1>1, <1>4 DEF ContextType
  <2> HIDE DEF g
  <2>3. /\ y.id = r /\ y.tc = k /\ y.signed = Sp \cup {d} /\ y.out = x.out /\ y.h = g
        /\ y \in ContextType
    BY <1>1, <1>2, <1>3, <2>1, <2>2 DEF ContextType
  <2> QED BY <2>3 DEF g
<1>6. /\ j.view = h.view /\ j.blocks = h.blocks /\ j.started
      /\ j.nvs = h.nvs /\ j.ldrs = h.ldrs /\ j.votes = h.votes /\ j.qcs = h.qcs
      /\ j.executed = h.executed /\ j.catchup = h.catchup
      /\ j.processedNewViews = h.processedNewViews
  BY <1>2, <1>5 DEF HostState
<1> HIDE DEF h, j, Sp, S2, r
<1>7. Near(a, b, r) /\ b.net = a.net /\ b \in World
  BY <1>1, <1>5, PutNear, PutParts DEF r, Sp
<1>8. /\ a.tc[r] = c /\ a.signed[r] = Sp /\ a.host[r] = h
      /\ b.tc[r] = k /\ b.signed[r] = S2 /\ b.host[r] = j
  <2>1. a.tc[r] = c /\ a.signed[r] = Sp /\ a.host[r] = h
    BY <1>1, PutParts DEF c, h, Sp, r
  <2>2. b.tc[y.id] = k /\ b.signed[y.id] = S2 /\ b.host[y.id] = j
    BY <1>1, <1>5, PutParts DEF j, S2
  <2> QED BY <1>5, <2>1, <2>2
<1> HIDE DEF a, b
<1>9. /\ ComponentOK(c, Sp) /\ StepOK(c, Sp, h) /\ BlocksOK(Sp, h)
      /\ Fresh(a.net, a.host, r)
  BY <1>1, <1>8 DEF Inv, r
<1>10. S2 = Sp \cup {d}
  BY <1>5 DEF S2
<1>11. /\ Counter(k.view, k.phase) = Counter(c.view, c.phase) + 1
       /\ \/ k.view = c.view /\ PhaseIndex(k.phase) = PhaseIndex(c.phase) + 1
          \/ k.view = c.view + 1 /\ k.phase = PH1_NEWVIEW /\ c.phase = PH1_COMMIT
       /\ k.preph = c.preph /\ k.prepv = c.prepv
       /\ k.lockh = c.lockh /\ k.lockv = c.lockv
  BY <1>2, <1>3, IncrementMoves DEF c
<1>12. /\ c.view \in Nat /\ c.view \in View /\ k.view \in View /\ k.view \in Nat
       /\ c.phase \in Phase1 /\ k.phase \in Phase1 /\ h.view \in Nat
       /\ Counter(c.view, c.phase) \in Nat /\ Counter(k.view, k.phase) \in Nat
       /\ PhaseIndex(c.phase) \in 0 .. 3 /\ PhaseIndex(k.phase) \in 0 .. 3
       /\ PhaseIndex(c.phase) = 0 <=> c.phase = PH1_NEWVIEW
       /\ PhaseIndex(k.phase) = 0 <=> k.phase = PH1_NEWVIEW
       /\ PhaseIndex(c.phase) = 3 <=> c.phase = PH1_COMMIT
  <2>1. /\ c.view \in View /\ k.view \in View /\ c.phase \in Phase1 /\ k.phase \in Phase1
        /\ h.view \in View
    BY <1>2, <1>3 DEF TrustedState, HostState, h, c
  <2> QED BY <2>1, CounterOrder DEF View
<1>13. ComponentOK(k, S2)
  <2>1. \A e \in {d} : /\ e.proph = noHash /\ e.justh = c.preph /\ e.justv = c.prepv
                       /\ Counter(c.view, c.phase) <= Counter(e.propv, e.phase)
                       /\ Counter(e.propv, e.phase) < Counter(k.view, k.phase)
    BY <1>3, <1>11, <1>12
  <2>2. Counter(c.view, c.phase) < Counter(k.view, k.phase) /\ {d} \subseteq RData
    BY <1>3, <1>11, <1>12
  <2>3. c \in TrustedState /\ Sp \subseteq RData
    BY <1>2 DEF c, Sp
  <2> DEFINE L == {d}
  <2> HIDE DEF L
  <2>4. ComponentOK(k, Sp \cup L)
    BY <1>3, <1>9, <1>11, <2>1, <2>2, <2>3, ReportComponent DEF L
  <2> QED BY <1>10, <2>4 DEF L
<1>14. ~Names(d) /\ (\A e \in S2 : Names(e) => e \in Sp)
  BY <1>3, <1>10 DEF Names
<1>15. ~h.started /\ ~InTurn(Sp) /\ Late(Sp, h) = 0
  BY <1>9 DEF StepOK, Late, h
<1>16. StepOK(k, S2, j)
  <2>1. CASE InTurn(S2)
    <3>1. c.view = 1 /\ c.phase = PH1_NEWVIEW
      BY <1>3, <1>10, <1>15, <2>1 DEF InTurn, IsReport
    <3>2. \A e \in Sp : FALSE
      <4> SUFFICES ASSUME NEW e \in Sp PROVE FALSE
        OBVIOUS
      <4>1. e.propv \in View /\ e.phase \in Phase1
        BY <1>2 DEF RData, Sp
      <4>2. e.propv >= 1 /\ e.propv < c.view
        BY <1>9, <1>12, <3>1, <4>1, CounterOrder DEF ComponentOK
      <4> QED BY <3>1, <4>1, <4>2 DEF View
    <3>3. h.view = 1
      BY <1>9, <1>12, <3>1 DEF StepOK
    <3>4. k.view = 1 /\ PhaseIndex(k.phase) = 1 /\ k.phase # PH1_NEWVIEW
      BY <1>11, <1>12, <3>1
    <3>5. HasBlock(j) \in {0, 1} /\ Late(S2, j) = 0
      BY <2>1 DEF HasBlock, Late
    <3>6. \A e \in S2 : Names(e) => e.phase # PH1_NEWVIEW
      BY <1>14, <3>2
    <3> QED BY <1>6, <3>3, <3>4, <3>5, <3>6 DEF StepOK
  <2>2. CASE ~InTurn(S2)
    <3>1. Late(S2, j) = 1
      BY <1>6, <2>2 DEF Late
    <3>2. HasBlock(j) = HasBlock(h) /\ HasBlock(h) \in {0, 1}
      BY <1>6 DEF HasBlock
    <3>3. /\ h.view >= 1 /\ (c.view = h.view \/ c.view = h.view + 1)
          /\ c.view = h.view + 1 => PhaseIndex(c.phase) <= 0
          /\ c.view = h.view /\ c.prepv < c.view => PhaseIndex(c.phase) <= 1 + 0 + HasBlock(h)
      BY <1>9, <1>15 DEF StepOK
    <3>4. k.view = j.view \/ k.view = j.view + 1
      BY <1>6, <1>11, <1>12, <3>3
    <3>5. k.view = j.view + 1 => PhaseIndex(k.phase) <= Late(S2, j)
      BY <1>6, <1>11, <1>12, <3>1, <3>3
    <3>6. k.view = j.view /\ k.prepv < k.view =>
            PhaseIndex(k.phase) <= 1 + Late(S2, j) + HasBlock(j)
      BY <1>6, <1>11, <1>12, <3>1, <3>2, <3>3
    <3> QED BY <1>6, <2>2, <3>3, <3>4, <3>5, <3>6 DEF StepOK
  <2> QED BY <2>1, <2>2
<1>17. BlocksOK(S2, j)
  BY <1>6, <1>9, <1>10 DEF BlocksOK, NamedBy
<1>18. NamesOK(b.signed, b.host) /\ OneBlock(b.signed)
  <2>1. \A e \in b.signed[r] : Names(e) =>
            \E q \in Replica : NamedBy(a.signed[q], e.proph, e.propv)
    BY <1>1, <1>8, <1>14 DEF NamedBy
  <2> QED BY <1>1, <1>6, <1>7, <1>8, <2>1, NamesStep
<1>19. Fresh(b.net, b.host, r)
  <2>1. NoMoreProposals(a.net, b.net, r)
    BY <1>7 DEF NoMoreProposals
  <2> QED BY <1>1, <1>6, <1>8, <1>9, <2>1, FreshKept
<1>20. Inv(b)
  BY <1>1, <1>6, <1>7, <1>8, <1>11, <1>13, <1>16, <1>17, <1>18, <1>19, SignStep
<1>21. IsReport(d) => Unsent(b, r, d.propv)
  <2> SUFFICES ASSUME IsReport(d) PROVE Unsent(b, r, d.propv)
    OBVIOUS
  <2>1. Counter(c.view, c.phase) <= Counter(d.propv, PH1_NEWVIEW) /\ d.propv \in View
    BY <1>3, <1>12 DEF IsReport
  <2>2. a \in World
    BY <1>7 DEF Near
  <2>3. Unsent(a, r, d.propv)
    BY <1>1, <1>8, <2>1, <2>2, NextUnsent
  <2>4. \A l \in Replica : Reports(b.net, b.host, l) = Reports(a.net, a.host, l)
    BY <1>6, <1>7, <1>8 DEF Near, Reports
  <2> QED BY <2>3, <2>4 DEF Unsent
<1> QED BY <1>1, <1>3, <1>5, <1>10, <1>14, <1>20, <1>21 DEF Good, b, d, S2, r, res, y


\* The statements of the loop of startNewViewComb lie between the component and its end.
LEMMA LoopFacts ==
    ASSUME ~Damysus, NEW x \in ContextType
    PROVE  /\ LoopEnd(x) \in TrustedState
           /\ LoopEnd(x).preph = x.tc.preph /\ LoopEnd(x).prepv = x.tc.prepv
           /\ LoopEnd(x).lockh = x.tc.lockh /\ LoopEnd(x).lockv = x.tc.lockv
           /\ Counter(x.tc.view, x.tc.phase) <= Counter(LoopEnd(x).view, LoopEnd(x).phase)
           /\ \/ x.tc.view > x.h.view /\ LoopEnd(x) = x.tc
              \/ /\ x.tc.view <= x.h.view /\ LoopEnd(x).view = x.h.view + 1
                 /\ LoopEnd(x).phase = PH1_NEWVIEW
           /\ \A d \in LoopStatements(x) :
                /\ d \in RData
                /\ d.proph = noHash /\ d.justh = x.tc.preph /\ d.justv = x.tc.prepv
                /\ Counter(x.tc.view, x.tc.phase) <= Counter(d.propv, d.phase)
                /\ Counter(d.propv, d.phase) <= Counter(LoopEnd(x).view, LoopEnd(x).phase)
           /\ callTEEsignComb(LoopEnd(x)).data \in LoopStatements(x)
<1> DEFINE c == x.tc
           e == LoopEnd(x)
           n == x.h.view + 1
<1>1. /\ c \in TrustedState /\ c.view \in Nat /\ c.phase \in Phase1 /\ x.h.view \in Nat
      /\ c.view \in View
  BY ContextParts DEF TrustedState, HostState, View
<1>2. n \in View /\ PH1_NEWVIEW \in Phase1
  BY <1>1 DEF View, Phase1
<1>3. /\ [c EXCEPT !.view = n, !.phase = PH1_NEWVIEW] \in TrustedState
      /\ [c EXCEPT !.view = n, !.phase = PH1_NEWVIEW].view = n
      /\ [c EXCEPT !.view = n, !.phase = PH1_NEWVIEW].phase = PH1_NEWVIEW
      /\ [c EXCEPT !.view = n, !.phase = PH1_NEWVIEW].preph = c.preph
      /\ [c EXCEPT !.view = n, !.phase = PH1_NEWVIEW].prepv = c.prepv
      /\ [c EXCEPT !.view = n, !.phase = PH1_NEWVIEW].lockh = c.lockh
      /\ [c EXCEPT !.view = n, !.phase = PH1_NEWVIEW].lockv = c.lockv
  BY <1>1, <1>2 DEF TrustedState
<1>4. /\ e \in TrustedState /\ e.preph = c.preph /\ e.prepv = c.prepv
      /\ e.lockh = c.lockh /\ e.lockv = c.lockv
      /\ \/ c.view > x.h.view /\ e = c
         \/ c.view <= x.h.view /\ e.view = n /\ e.phase = PH1_NEWVIEW
  BY <1>1, <1>3 DEF LoopEnd
<1>5. e.view \in View /\ e.phase \in Phase1
  BY <1>4 DEF TrustedState
<1>6. c.view <= e.view /\ Counter(c.view, c.phase) <= Counter(e.view, e.phase)
  <2>1. CASE e = c
    BY <1>1, <2>1, CounterOrder
  <2>2. CASE c.view <= x.h.view /\ e.view = n
    <3>1. c.view < e.view
      BY <1>1, <2>2
    <3>2. /\ Counter(c.view, c.phase) < Counter(e.view, e.phase)
          /\ Counter(c.view, c.phase) \in Nat /\ Counter(e.view, e.phase) \in Nat
      BY <1>1, <1>5, <3>1, CounterOrder
    <3> QED BY <1>1, <1>5, <3>1, <3>2 DEF View
  <2> QED BY <1>4, <2>1, <2>2
<1> HIDE DEF c, e, n
<1> DEFINE At(v, p) == [c EXCEPT !.view = v, !.phase = p]
<1>7. ASSUME NEW v \in View, NEW p \in Phase1
      PROVE  /\ callTEEsignComb(At(v, p)).data \in RData
             /\ callTEEsignComb(At(v, p)).data =
                    [proph |-> noHash, propv |-> v, justh |-> c.preph,
                     justv |-> c.prepv, phase |-> p]
  <2>1. /\ At(v, p) \in TrustedState /\ At(v, p).view = v /\ At(v, p).phase = p
        /\ At(v, p).preph = c.preph /\ At(v, p).prepv = c.prepv
    BY <1>1 DEF TrustedState
  <2> HIDE DEF At
  <2>2. callTEEsignComb(At(v, p)).data \in RData
    BY <2>1, SignFacts
  <2>3. callTEEsignComb(At(v, p)).data =
            [proph |-> noHash, propv |-> At(v, p).view, justh |-> At(v, p).preph,
             justv |-> At(v, p).prepv, phase |-> At(v, p).phase]
    BY DEF callTEEsignComb, COMB_TEEsign, COMB_sign, COMB_rdata
  <2> QED BY <2>1, <2>2, <2>3
<1>8. LoopStatements(x) =
        {d \in {callTEEsignComb(At(v, p)).data : v \in c.view .. e.view, p \in Phase1} :
            /\ Counter(c.view, c.phase) <= Counter(d.propv, d.phase)
            /\ Counter(d.propv, d.phase) <= Counter(e.view, e.phase)}
  BY DEF LoopStatements, UsedPhases, c, e
<1> HIDE DEF At
<1>9. \A v \in c.view .. e.view : v \in View
  BY <1>1, <1>5 DEF View
<1>10. \A d \in LoopStatements(x) :
            /\ d \in RData
            /\ d.proph = noHash /\ d.justh = c.preph /\ d.justv = c.prepv
            /\ Counter(c.view, c.phase) <= Counter(d.propv, d.phase)
            /\ Counter(d.propv, d.phase) <= Counter(e.view, e.phase)
  <2> SUFFICES ASSUME NEW d \in LoopStatements(x)
               PROVE  /\ d \in RData
                      /\ d.proph = noHash /\ d.justh = c.preph /\ d.justv = c.prepv
                      /\ Counter(c.view, c.phase) <= Counter(d.propv, d.phase)
                      /\ Counter(d.propv, d.phase) <= Counter(e.view, e.phase)
    OBVIOUS
  <2>1. PICK v \in c.view .. e.view : \E p \in Phase1 : d = callTEEsignComb(At(v, p)).data
    BY <1>8
  <2>2. PICK p \in Phase1 : d = callTEEsignComb(At(v, p)).data
    BY <2>1
  <2>3. d \in RData /\ d.proph = noHash /\ d.justh = c.preph /\ d.justv = c.prepv
    <3>1. v \in View
      BY <1>9
    <3>2. /\ d \in RData
          /\ d = [proph |-> noHash, propv |-> v, justh |-> c.preph,
                  justv |-> c.prepv, phase |-> p]
      BY <1>7, <2>2, <3>1
    <3> QED BY <3>2
  <2> QED BY <1>8, <2>3
<1>11. callTEEsignComb(e).data \in LoopStatements(x)
  <2>1. e = At(e.view, e.phase)
    <3>1. CASE e = c
      BY <1>1, <3>1 DEF At, TrustedState
    <3>2. CASE e = [c EXCEPT !.view = n, !.phase = PH1_NEWVIEW]
      BY <1>1, <3>2 DEF At, TrustedState
    <3> QED BY <3>1, <3>2 DEF LoopEnd, c, e, n
  <2>2. e.view \in c.view .. e.view
    BY <1>1, <1>5, <1>6 DEF View
  <2>3. callTEEsignComb(e).data \in
            {callTEEsignComb(At(v, p)).data : v \in c.view .. e.view, p \in Phase1}
    BY <1>5, <2>1, <2>2
  <2>4. callTEEsignComb(e).data.propv = e.view /\ callTEEsignComb(e).data.phase = e.phase
    BY <1>4, SignFacts
  <2>5. Counter(e.view, e.phase) <= Counter(e.view, e.phase)
    BY <1>5, CounterOrder
  <2> QED BY <1>6, <1>8, <2>3, <2>4, <2>5
<1> QED BY <1>4, <1>6, <1>10, <1>11 DEF c, e, n


\* startNewViewComb: the loop and the move of the host.
LEMMA LoopSign ==
    ASSUME ~Damysus, NEW w, NEW x, Good(w, x), ~x.h.catchup,
           ~(x.tc.view = 1 /\ x.tc.phase = PH1_NEWVIEW)
    PROVE  LET last == callTEEsignComb(LoopEnd(x))
               y    == [x EXCEPT !.tc = last.tc, !.signed = @ \cup LoopStatements(x),
                                 !.h.view = @ + 1]
           IN  /\ Good(w, y) /\ y.id = x.id /\ y.h = [x.h EXCEPT !.view = @ + 1]
               /\ last.data \in y.signed /\ last.data \in RData /\ ~Names(last.data)
               /\ IsReport(last.data) => Unsent(Put(w, y), x.id, last.data.propv)
               /\ y.h.view \notin DOMAIN y.h.blocks
<1> DEFINE e == LoopEnd(x)
           last == callTEEsignComb(e)
           L   == LoopStatements(x)
           n   == x.h.view + 1
           y   == [x EXCEPT !.tc = last.tc, !.signed = @ \cup L, !.h.view = @ + 1]
           a   == Put(w, x)
           b   == Put(w, y)
           c   == x.tc
           k   == last.tc
           d   == last.data
           Sp  == x.signed
           S2  == y.signed
           h   == x.h
           j   == y.h
           r   == x.id
<1>1. x \in ContextType /\ w \in World /\ Inv(a) /\ r \in Replica
  BY ContextParts DEF Good
<1>2. /\ c \in TrustedState /\ Sp \subseteq RData /\ h \in HostState
      /\ h.view \in Nat /\ n \in View
  BY <1>1, ContextParts DEF HostState, View
<1>3. /\ e \in TrustedState /\ e.preph = c.preph /\ e.prepv = c.prepv
      /\ e.lockh = c.lockh /\ e.lockv = c.lockv
      /\ Counter(c.view, c.phase) <= Counter(e.view, e.phase)
      /\ \/ c.view > h.view /\ e = c
         \/ c.view <= h.view /\ e.view = n /\ e.phase = PH1_NEWVIEW
      /\ \A s \in L : /\ s \in RData
                      /\ s.proph = noHash /\ s.justh = c.preph /\ s.justv = c.prepv
                      /\ Counter(c.view, c.phase) <= Counter(s.propv, s.phase)
                      /\ Counter(s.propv, s.phase) <= Counter(e.view, e.phase)
      /\ d \in L
  BY <1>1, LoopFacts
<1> HIDE DEF e, L, n
<1>4. /\ k = COMB_increment(e) /\ k \in TrustedState /\ d \in RData
      /\ d.proph = noHash /\ d.propv = e.view /\ d.phase = e.phase
  BY <1>3, SignFacts
<1> HIDE DEF last, c, k, d
<1>5. y = [x EXCEPT !.tc = k, !.signed = @ \cup L, !.h.view = n]
  BY <1>1 DEF ContextType, HostState, k, n
<1> HIDE DEF y
<1>6. L \subseteq RData
  BY <1>3
<1>7. /\ y \in ContextType /\ y.id = r /\ y.tc = k /\ y.signed = Sp \cup L
      /\ y.out = x.out /\ y.h = [x.h EXCEPT !.view = n]
  <2> DEFINE g == [x.h EXCEPT !.view = n]
  <2>1. g \in HostState
    BY <1>2 DEF HostState
  <2>2. y = [x EXCEPT !.h = g, !.tc = k, !.signed = Sp \cup L]
    BY <1>1, <1>5 DEF ContextType
  <2> HIDE DEF g
  <2>3. Sp \cup L \subseteq RData
    BY <1>2, <1>6
  <2>4. /\ y.id = r /\ y.tc = k /\ y.signed = Sp \cup L /\ y.out = x.out /\ y.h = g
        /\ y \in ContextType
    BY <1>1, <1>4, <2>1, <2>2, <2>3 DEF ContextType
  <2> QED BY <2>4 DEF g
<1>8. /\ j.view = n /\ j.blocks = h.blocks /\ j.started = h.started
      /\ j.nvs = h.nvs /\ j.ldrs = h.ldrs /\ j.votes = h.votes /\ j.qcs = h.qcs
      /\ j.executed = h.executed /\ j.catchup = h.catchup
      /\ j.processedNewViews = h.processedNewViews
  BY <1>2, <1>7 DEF HostState
<1> HIDE DEF h, j, Sp, S2, r
<1>9. Near(a, b, r) /\ b.net = a.net /\ b \in World /\ a \in World
  BY <1>1, <1>7, PutNear, PutParts DEF r, Sp
<1>10. /\ a.tc[r] = c /\ a.signed[r] = Sp /\ a.host[r] = h
       /\ b.tc[r] = k /\ b.signed[r] = S2 /\ b.host[r] = j
  <2>1. a.tc[r] = c /\ a.signed[r] = Sp /\ a.host[r] = h
    BY <1>1, PutParts DEF c, h, Sp, r
  <2>2. y \in ContextType /\ w \in World /\ y.tc = k /\ y.id = r
    BY <1>1, <1>7
  <2>3. b.tc[y.id] = k /\ b.signed[y.id] = S2 /\ b.host[y.id] = j
    BY <2>2, PutParts DEF j, S2
  <2> QED BY <2>1, <2>2, <2>3
<1> HIDE DEF a, b
<1>11. /\ ComponentOK(c, Sp) /\ StepOK(c, Sp, h) /\ BlocksOK(Sp, h)
       /\ Fresh(a.net, a.host, r)
  BY <1>1, <1>10 DEF Inv, r
<1>12. S2 = Sp \cup L
  BY <1>7 DEF S2
<1>13. /\ Counter(k.view, k.phase) = Counter(e.view, e.phase) + 1
       /\ \/ k.view = e.view /\ PhaseIndex(k.phase) = PhaseIndex(e.phase) + 1
          \/ k.view = e.view + 1 /\ k.phase = PH1_NEWVIEW /\ e.phase = PH1_COMMIT
       /\ k.preph = c.preph /\ k.prepv = c.prepv
       /\ k.lockh = c.lockh /\ k.lockv = c.lockv
  BY <1>3, <1>4, IncrementMoves
<1>14. /\ c.view \in Nat /\ c.view \in View /\ k.view \in View /\ k.view \in Nat
       /\ c.phase \in Phase1 /\ k.phase \in Phase1 /\ h.view \in Nat
       /\ e.view \in View /\ e.view \in Nat /\ e.phase \in Phase1
  BY <1>2, <1>3, <1>4 DEF TrustedState, View, h, c
<1>15. /\ Counter(c.view, c.phase) \in Nat /\ Counter(k.view, k.phase) \in Nat
       /\ Counter(e.view, e.phase) \in Nat
       /\ PhaseIndex(c.phase) \in 0 .. 3 /\ PhaseIndex(k.phase) \in 0 .. 3
       /\ PhaseIndex(e.phase) \in 0 .. 3
       /\ PhaseIndex(k.phase) = 0 <=> k.phase = PH1_NEWVIEW
       /\ PhaseIndex(e.phase) = 0 <=> e.phase = PH1_NEWVIEW
       /\ PhaseIndex(e.phase) = 3 <=> e.phase = PH1_COMMIT
       /\ PhaseIndex(c.phase) = 0 <=> c.phase = PH1_NEWVIEW
  BY <1>14, CounterOrder
<1>16. \A s \in L : Counter(s.propv, s.phase) \in Nat
  BY <1>6, CounterOrder DEF RData
<1>17. ComponentOK(k, S2)
  <2>1. \A s \in L : /\ s.proph = noHash /\ s.justh = c.preph /\ s.justv = c.prepv
                     /\ Counter(c.view, c.phase) <= Counter(s.propv, s.phase)
                     /\ Counter(s.propv, s.phase) < Counter(k.view, k.phase)
    BY <1>3, <1>13, <1>15, <1>16
  <2>2. Counter(c.view, c.phase) < Counter(k.view, k.phase)
    BY <1>3, <1>13, <1>15
  <2>3. c \in TrustedState /\ Sp \subseteq RData
    BY <1>2 DEF c, Sp
  <2> QED BY <1>4, <1>6, <1>11, <1>12, <1>13, <2>1, <2>2, <2>3, ReportComponent
<1>18. \A s \in S2 : Names(s) => s \in Sp
  BY <1>3, <1>12 DEF Names
<1>19. InTurn(S2) = InTurn(Sp)
  <2>1. ASSUME NEW s \in L, s.propv = 1, IsReport(s) PROVE FALSE
    <3>1. s.propv \in View /\ s.phase \in Phase1 /\ s.phase = PH1_NEWVIEW
      BY <1>6, <2>1 DEF RData, IsReport
    <3>2. c.view <= 1
      BY <1>3, <1>14, <2>1, <3>1, CounterOrder
    <3>3. c.view = 1
      BY <1>11, <1>14, <3>2 DEF ComponentOK
    <3>4. PhaseIndex(c.phase) <= PhaseIndex(s.phase) /\ PhaseIndex(s.phase) = 0
      BY <1>3, <1>14, <2>1, <3>1, <3>3, CounterOrder
    <3> QED BY <1>15, <3>3, <3>4 DEF c
  <2> QED BY <1>12, <2>1 DEF InTurn
<1>20. Late(S2, j) = Late(Sp, h) /\ Late(Sp, h) \in {0, 1}
  BY <1>8, <1>19 DEF Late
<1>21. e.view = n /\ PhaseIndex(e.phase) <= Late(Sp, h)
  BY <1>3, <1>11, <1>14, <1>15, <1>20 DEF StepOK, n, h
<1>22. StepOK(k, S2, j)
  <2>1. k.view = n /\ PhaseIndex(k.phase) = PhaseIndex(e.phase) + 1
    BY <1>13, <1>15, <1>20, <1>21
  <2>2. HasBlock(j) \in {0, 1}
    BY DEF HasBlock
  <2>3. PhaseIndex(k.phase) <= 1 + Late(S2, j) + HasBlock(j)
    BY <1>15, <1>20, <1>21, <2>1, <2>2
  <2>4. k.phase # PH1_NEWVIEW
    BY <1>15, <2>1
  <2>5. n >= 1 /\ n # n + 1
    BY <1>14 DEF n, h
  <2>6. InTurn(S2) => \A s \in S2 : Names(s) => s.phase # PH1_NEWVIEW
    BY <1>11, <1>18, <1>19 DEF StepOK
  <2>7. InTurn(S2) => j.started
    BY <1>8, <1>11, <1>19 DEF StepOK
  <2> QED BY <1>8, <2>1, <2>3, <2>4, <2>5, <2>6, <2>7 DEF StepOK
<1>23. BlocksOK(S2, j) /\ n \notin DOMAIN j.blocks
  <2>1. \A v \in DOMAIN h.blocks : v \in Nat /\ v <= h.view /\ NamedBy(Sp, h.blocks[v], v)
    <3>1. DOMAIN h.blocks \subseteq View
      BY <1>2 DEF HostState, BlockMap, h
    <3> QED BY <1>11, <3>1 DEF BlocksOK, View
  <2>2. \A v \in DOMAIN j.blocks : v < n /\ v <= n /\ NamedBy(S2, j.blocks[v], v)
    BY <1>8, <1>12, <1>14, <2>1 DEF NamedBy, n, h
  <2>3. ~(n < n)
    BY <1>14 DEF n, h
  <2> QED BY <1>8, <2>2, <2>3 DEF BlocksOK
<1>24. NamesOK(b.signed, b.host) /\ OneBlock(b.signed)
  <2>1. \A s \in b.signed[r] : Names(s) =>
            \E q \in Replica : NamedBy(a.signed[q], s.proph, s.propv)
    BY <1>1, <1>10, <1>18 DEF NamedBy
  <2> QED BY <1>1, <1>8, <1>9, <1>10, <2>1, NamesStep
<1>25. Fresh(b.net, b.host, r)
  <2>1. \A o \in Incoming(b.net, r) : o.type = "ldrprepare" =>
          /\ o.acc.view \notin DOMAIN b.host[r].blocks
          /\ \A m \in b.host[r].ldrs : m.acc.view # o.acc.view
    BY <1>8, <1>9, <1>10, <1>11 DEF Fresh
  <2>2. ~b.host[r].catchup
    BY <1>8, <1>10 DEF h
  <2> QED BY <1>9, <1>11, <2>1, <2>2 DEF Fresh
<1>26. Inv(b)
  BY <1>1, <1>8, <1>9, <1>10, <1>13, <1>17, <1>22, <1>23, <1>24, <1>25, SignStep
<1>27. IsReport(d) => Unsent(b, r, d.propv)
  <2> SUFFICES ASSUME IsReport(d) PROVE Unsent(b, r, d.propv)
    OBVIOUS
  <2>1. Counter(c.view, c.phase) <= Counter(d.propv, PH1_NEWVIEW) /\ d.propv \in View
    BY <1>3, <1>4, <1>14 DEF IsReport
  <2>2. Unsent(a, r, d.propv)
    BY <1>1, <1>9, <1>10, <2>1, NextUnsent
  <2>3. \A l \in Replica : Reports(b.net, b.host, l) = Reports(a.net, a.host, l)
    BY <1>8, <1>9, <1>10 DEF Near, Reports
  <2> QED BY <2>2, <2>3 DEF Unsent
<1>28. Good(w, y) /\ y.id = r /\ d \in S2 /\ ~Names(d)
  BY <1>1, <1>3, <1>4, <1>7, <1>12, <1>26 DEF Good, b, Names
<1>29. y.h = [x.h EXCEPT !.view = @ + 1]
  BY <1>7 DEF n
<1> QED BY <1>4, <1>8, <1>23, <1>27, <1>28, <1>29 DEF b, d, S2, r, last, y, e, L, j


-----------------------------------------------------------------------------
(* Voting for a proposal *)

\* What a component signs by COMB_TEEprepare, and what it becomes.
LEMMA PrepareFacts ==
    ASSUME ~Damysus, NEW c \in TrustedState, NEW block \in Block, NEW acc \in Accum
    PROVE  LET res == callTEEprepareComb(c, block, acc)
           IN  /\ res.tc \in TrustedState
               /\ Counter(res.tc.view, res.tc.phase) = Counter(c.view, c.phase) + 1
               /\ \/ /\ res.tc.view = c.view
                     /\ PhaseIndex(res.tc.phase) = PhaseIndex(c.phase) + 1
                  \/ /\ res.tc.view = c.view + 1 /\ res.tc.phase = PH1_NEWVIEW
                     /\ c.phase = PH1_COMMIT
               /\ \/ ~isTEE(acc.signer) /\ res.tc.preph = c.preph /\ res.tc.prepv = c.prepv
                  \/ isTEE(acc.signer) /\ res.tc.preph = block.hash /\ res.tc.prepv = c.view
               /\ res.tc.lockh = c.lockh /\ res.tc.lockv = c.lockv
               /\ res.data \in RData
               /\ res.data.proph = block.hash /\ res.data.propv = c.view
               /\ res.data.phase = c.phase
<1> DEFINE s == IF isTEE(acc.signer) THEN [c EXCEPT !.preph = block.hash, !.prepv = c.view]
                ELSE c
<1>1. /\ c.view \in View /\ c.phase \in Phase1 /\ block.hash \in Hash
      /\ acc.hash \in Hash /\ acc.prepv \in View
  BY DEF TrustedState, Block, Accum
<1>2. /\ s \in TrustedState /\ s.view = c.view /\ s.phase = c.phase
      /\ \/ ~isTEE(acc.signer) /\ s.preph = c.preph /\ s.prepv = c.prepv
         \/ isTEE(acc.signer) /\ s.preph = block.hash /\ s.prepv = c.view
      /\ s.lockh = c.lockh /\ s.lockv = c.lockv
  BY <1>1 DEF TrustedState
<1>3. callTEEprepareComb(c, block, acc) =
        [tc |-> COMB_increment(s),
         data |-> [proph |-> block.hash, propv |-> s.view, justh |-> acc.hash,
                   justv |-> acc.prepv, phase |-> s.phase]]
  BY DEF callTEEprepareComb, COMB_TEEprepare, COMB_sign, COMB_rdata
<1> HIDE DEF s
<1>4. /\ COMB_increment(s) \in TrustedState
      /\ Counter(COMB_increment(s).view, COMB_increment(s).phase) = Counter(s.view, s.phase) + 1
      /\ \/ /\ COMB_increment(s).view = s.view
            /\ PhaseIndex(COMB_increment(s).phase) = PhaseIndex(s.phase) + 1
         \/ /\ COMB_increment(s).view = s.view + 1
            /\ COMB_increment(s).phase = PH1_NEWVIEW
            /\ s.phase = PH1_COMMIT
      /\ COMB_increment(s).preph = s.preph /\ COMB_increment(s).prepv = s.prepv
      /\ COMB_increment(s).lockh = s.lockh /\ COMB_increment(s).lockv = s.lockv
  BY <1>2, IncrementMoves
<1>5. [proph |-> block.hash, propv |-> s.view, justh |-> acc.hash,
       justv |-> acc.prepv, phase |-> s.phase] \in RData
  BY <1>1, <1>2 DEF RData
<1> QED BY <1>2, <1>3, <1>4, <1>5

\* The context after a component's statement was recorded.
LEMMA SignedParts ==
    ASSUME NEW x \in ContextType, NEW res, res.tc \in TrustedState, res.data \in RData
    PROVE  LET y == Signed(x, res)
           IN  /\ y \in ContextType /\ y.id = x.id /\ y.tc = res.tc
               /\ y.signed = x.signed \cup {res.data} /\ y.out = x.out /\ y.h = x.h
BY DEF Signed, ContextType

\* The context after a block was recorded.
LEMMA SetBlockParts ==
    ASSUME NEW x \in ContextType, NEW g \in Hash
    PROVE  LET y == SetBlock(x, g)
           IN  /\ y \in ContextType /\ y.id = x.id /\ y.tc = x.tc /\ y.signed = x.signed
               /\ y.out = x.out
               /\ \E B \in BlockMap :
                    /\ y.h = [x.h EXCEPT !.blocks = B]
                    /\ DOMAIN B = DOMAIN x.h.blocks \cup {x.h.view}
                    /\ \A v \in DOMAIN B :
                            B[v] = IF v = x.h.view THEN g ELSE x.h.blocks[v]
<1> DEFINE B == [v \in DOMAIN x.h.blocks \cup {x.h.view} |->
                    IF v = x.h.view THEN g ELSE x.h.blocks[v]]
<1>1. x.h.blocks \in BlockMap /\ x.h.view \in View
  BY DEF ContextType, HostState
<1>2. PICK D \in SUBSET View : x.h.blocks \in [D -> Hash]
  BY <1>1 DEF BlockMap
<1>3. B \in [D \cup {x.h.view} -> Hash] /\ D \cup {x.h.view} \in SUBSET View
  BY <1>1, <1>2
<1>4. B \in BlockMap
  BY <1>3 DEF BlockMap
<1>5. /\ DOMAIN B = DOMAIN x.h.blocks \cup {x.h.view}
      /\ \A v \in DOMAIN B : B[v] = IF v = x.h.view THEN g ELSE x.h.blocks[v]
  OBVIOUS
<1>6. SetBlock(x, g) = [x EXCEPT !.h.blocks = B]
  BY DEF SetBlock
<1> HIDE DEF B
<1>7. /\ SetBlock(x, g) \in ContextType /\ SetBlock(x, g).id = x.id
      /\ SetBlock(x, g).tc = x.tc /\ SetBlock(x, g).signed = x.signed
      /\ SetBlock(x, g).out = x.out /\ SetBlock(x, g).h = [x.h EXCEPT !.blocks = B]
  <2> DEFINE j == [x.h EXCEPT !.blocks = B]
             y == SetBlock(x, g)
  <2>1. x.h \in HostState
    BY DEF ContextType
  <2>2. j \in HostState
    BY <1>4, <2>1 DEF HostState
  <2>3. y = [x EXCEPT !.h = j]
    BY <1>6 DEF ContextType
  <2> HIDE DEF j, y
  <2>4. /\ y.id = x.id /\ y.tc = x.tc /\ y.signed = x.signed /\ y.out = x.out
        /\ y.h = j /\ y \in ContextType
    BY <2>2, <2>3 DEF ContextType
  <2> QED BY <2>4 DEF j, y
<1> QED BY <1>4, <1>5, <1>7

\* A block of a proposal names its creator.
LEMMA CreatorOf ==
    ASSUME NEW g \in Hash, NEW p \in Replica, NEW v \in View
    PROVE  /\ Append(g, <<p, v>>) \in Hash
           /\ Creator(Append(g, <<p, v>>)) = p
<1>1. <<p, v>> \in BlockId
  BY DEF BlockId
<1>2. /\ Append(g, <<p, v>>) \in Seq(BlockId) /\ Len(Append(g, <<p, v>>)) = Len(g) + 1
      /\ Append(g, <<p, v>>)[Len(g) + 1] = <<p, v>>
  BY <1>1, AppendProperties DEF Hash
<1> QED BY <1>2 DEF Creator, Hash


\* The context in which a backup sends its vote for proposal m.
VotedFor(x, m) ==
    SetBlock(Signed(x, callTEEprepareComb(x.tc, m.block, m.acc)), m.block.hash)

\* respondToLdrPrepareComb: the vote of a backup.
LEMMA BackupSign ==
    ASSUME ~Damysus, NEW w, NEW x, Good(w, x), ~x.h.catchup,
           NEW m \in LdrPrepareMsg, LdrOK(Put(w, x).signed, m), m.acc.view = x.h.view,
           x.h.view \notin DOMAIN x.h.blocks,
           \A o \in Incoming(Put(w, x).net, x.id) :
                o.type = "ldrprepare" => o.acc.view # x.h.view,
           CanPrepare(x.tc, m.block, m.acc, m.proof)
    PROVE  LET d == callTEEprepareComb(x.tc, m.block, m.acc).data
           IN  /\ Goes(w, x, VotedFor(x, m)) /\ d \in RData
               /\ CombOK(Put(w, VotedFor(x, m)).signed, d, {x.id}, PH1_PREPARE)
<1> DEFINE res == callTEEprepareComb(x.tc, m.block, m.acc)
           z   == Signed(x, res)
           y   == SetBlock(z, m.block.hash)
           a   == Put(w, x)
           b   == Put(w, y)
           c   == x.tc
           d   == res.data
           r   == x.id
<1>1. x \in ContextType /\ w \in World /\ Inv(a) /\ r \in Replica /\ c \in TrustedState
  BY ContextParts DEF Good
<1>2. /\ m.block \in Block /\ m.acc \in Accum /\ m.signer \in Replica
      /\ m.block.hash \in Hash /\ m.block.prev \in Hash /\ m.acc.view \in View
  BY DEF LdrPrepareMsg, Block, Accum
<1>3. c.view = x.h.view
  BY DEF CanPrepare, CanTEEprepare, COMB_validateNewViews
<1>4. /\ res.tc \in TrustedState
      /\ Counter(res.tc.view, res.tc.phase) = Counter(c.view, c.phase) + 1
      /\ \/ res.tc.view = c.view /\ PhaseIndex(res.tc.phase) = PhaseIndex(c.phase) + 1
         \/ res.tc.view = c.view + 1 /\ res.tc.phase = PH1_NEWVIEW /\ c.phase = PH1_COMMIT
      /\ \/ ~isTEE(m.acc.signer) /\ res.tc.preph = c.preph /\ res.tc.prepv = c.prepv
         \/ isTEE(m.acc.signer) /\ res.tc.preph = m.block.hash /\ res.tc.prepv = c.view
      /\ res.tc.lockh = c.lockh /\ res.tc.lockv = c.lockv
      /\ d \in RData /\ d.proph = m.block.hash /\ d.propv = c.view /\ d.phase = c.phase
  BY <1>1, <1>2, PrepareFacts
<1> HIDE DEF res, d
<1>5. /\ z \in ContextType /\ z.id = r /\ z.tc = res.tc
      /\ z.signed = x.signed \cup {d} /\ z.out = x.out /\ z.h = x.h
  BY <1>1, <1>4, SignedParts DEF d
<1> HIDE DEF z
<1>6. /\ y \in ContextType /\ y.id = r /\ y.tc = res.tc
      /\ y.signed = x.signed \cup {d} /\ y.out = x.out
  BY <1>2, <1>5, SetBlockParts
<1>7. PICK B \in BlockMap :
        /\ y.h = [z.h EXCEPT !.blocks = B]
        /\ DOMAIN B = DOMAIN z.h.blocks \cup {z.h.view}
        /\ \A v \in DOMAIN B : B[v] = IF v = z.h.view THEN m.block.hash ELSE z.h.blocks[v]
  BY <1>2, <1>5, SetBlockParts
<1>8. /\ y.h.blocks = B /\ y.h.view = x.h.view /\ y.h.started = x.h.started
      /\ y.h.nvs = x.h.nvs /\ y.h.ldrs = x.h.ldrs /\ y.h.votes = x.h.votes
      /\ y.h.qcs = x.h.qcs /\ y.h.executed = x.h.executed /\ y.h.catchup = x.h.catchup
      /\ y.h.processedNewViews = x.h.processedNewViews /\ y.h.skipped = x.h.skipped
  BY <1>1, <1>5, <1>7 DEF ContextType, HostState
<1> HIDE DEF y, c, r
<1>9. Near(a, b, r) /\ b.net = a.net /\ b \in World
  BY <1>1, <1>6, PutNear, PutParts DEF r
<1>10. /\ a.tc[r] = c /\ a.signed[r] = x.signed /\ a.host[r] = x.h
       /\ b.tc[r] = res.tc /\ b.signed[r] = x.signed \cup {d} /\ b.host[r] = y.h
  <2>1. a.tc[r] = c /\ a.signed[r] = x.signed /\ a.host[r] = x.h
    BY <1>1, PutParts DEF c, r
  <2>2. b.tc[y.id] = y.tc /\ b.signed[y.id] = y.signed /\ b.host[y.id] = y.h
    BY <1>1, <1>6, PutParts
  <2> QED BY <1>6, <2>1, <2>2
<1> HIDE DEF a, b
<1>11. /\ d.proph # noHash /\ Creator(d.proph) = m.signer /\ m.acc.signer = m.signer
       /\ NamedBy(a.signed[m.signer], d.proph, d.propv)
  <2>1. /\ m.block.hash = Append(m.block.prev, <<m.signer, m.acc.view>>)
        /\ m.acc.signer = m.signer
        /\ m.sdata \in a.signed[m.signer]
        /\ m.sdata.proph = m.block.hash /\ m.sdata.propv = m.acc.view
    BY DEF LdrOK, a
  <2>2. m.acc.view >= 1
    BY <1>1, <1>2, <2>1 DEF Inv, ComponentOK
  <2>3. m.block.hash # noHash /\ Creator(m.block.hash) = m.signer
    BY <1>2, <2>1, <2>2, CreatorOf, BlockIsSet DEF View
  <2> QED BY <1>3, <1>4, <2>1, <2>3 DEF NamedBy, Names
<1>12. NamesOK(b.signed, b.host) /\ OneBlock(b.signed)
  <2>1. \A e \in b.signed[r] : Names(e) =>
            \E q \in Replica : NamedBy(a.signed[q], e.proph, e.propv)
    BY <1>1, <1>2, <1>10, <1>11 DEF NamedBy
  <2> QED BY <1>1, <1>8, <1>9, <1>10, <2>1, NamesStep
<1>13. Inv(b)
  <2>1. Names(d)
    BY <1>11 DEF Names
  <2>2. \A o \in Incoming(a.net, r) : o.type = "ldrprepare" => o.acc.view # x.h.view
    BY DEF a, r
  <2>3. \A v \in DOMAIN y.h.blocks :
            y.h.blocks[v] = IF v = x.h.view THEN d.proph ELSE x.h.blocks[v]
    BY <1>4, <1>5, <1>7, <1>8
  <2>4. DOMAIN y.h.blocks = DOMAIN x.h.blocks \cup {x.h.view}
    BY <1>5, <1>7, <1>8
  <2>5. \/ /\ b.tc[r].preph = a.tc[r].preph /\ b.tc[r].prepv = a.tc[r].prepv
           /\ ~isTEE(Creator(d.proph)) /\ a.host[r].view \notin DOMAIN a.host[r].blocks
        \/ b.tc[r].preph = d.proph /\ b.tc[r].prepv = a.tc[r].view
    BY <1>4, <1>10, <1>11
  <2>6. /\ d.propv = a.tc[r].view /\ d.phase = a.tc[r].phase
        /\ b.signed[r] = a.signed[r] \cup {d} /\ a.tc[r].view = a.host[r].view
        /\ Counter(b.tc[r].view, b.tc[r].phase) = Counter(a.tc[r].view, a.tc[r].phase) + 1
        /\ \/ /\ b.tc[r].view = a.tc[r].view
              /\ PhaseIndex(b.tc[r].phase) = PhaseIndex(a.tc[r].phase) + 1
           \/ /\ b.tc[r].view = a.tc[r].view + 1 /\ b.tc[r].phase = PH1_NEWVIEW
              /\ a.tc[r].phase = PH1_COMMIT
    BY <1>3, <1>4, <1>10
  <2>7. /\ b.host[r].view = a.host[r].view /\ b.host[r].started = a.host[r].started
        /\ b.host[r].nvs = a.host[r].nvs /\ b.host[r].ldrs = a.host[r].ldrs
        /\ b.host[r].votes = a.host[r].votes /\ b.host[r].qcs = a.host[r].qcs
        /\ b.host[r].executed = a.host[r].executed /\ ~b.host[r].catchup
        /\ DOMAIN b.host[r].blocks = DOMAIN a.host[r].blocks \cup {a.host[r].view}
        /\ \A v \in DOMAIN b.host[r].blocks :
              b.host[r].blocks[v] = IF v = a.host[r].view THEN d.proph
                                    ELSE a.host[r].blocks[v]
        /\ \A o \in Incoming(a.net, r) :
              o.type = "ldrprepare" => o.acc.view # a.host[r].view
    BY <1>8, <1>10, <2>2, <2>3, <2>4
  <2>8. b.tc[r].lockh = a.tc[r].lockh /\ b.tc[r].lockv = a.tc[r].lockv
    BY <1>4, <1>10
  <2> QED BY <1>1, <1>4, <1>9, <1>12, <2>1, <2>5, <2>6, <2>7, <2>8, NameSign
<1>14. CombOK(b.signed, d, {r}, PH1_PREPARE)
  BY <1>10, <1>11 DEF CombOK, Names
<1>15. y = VotedFor(x, m)
  BY DEF VotedFor, y, z, res
<1>16. Goes(w, x, y)
  BY <1>1, <1>6, <1>8, <1>13 DEF Goes, Good, b, r
<1> QED BY <1>4, <1>14, <1>15, <1>16 DEF b, d, res, r

\* The accumulator of a quorum of reports that a leader holds.
LEMMA AccumFacts ==
    ASSUME ~Damysus, NEW w \in World, Inv(w), NEW r \in Replica, NEW v \in View,
           NEW nvs, nvs \subseteq w.host[r].nvs, \A m \in nvs : m.data.propv = v,
           IsQuorum(SignersOf(nvs))
    PROVE  /\ newviews2accComb(r, nvs) \in Accum
           /\ newviews2accComb(r, nvs).signer = r
           /\ HighestNewView(nvs) \in nvs
<1> DEFINE f == FirstNewView(nvs)
           g == HighestNewView(nvs)
           n == Cardinality(SignersOf(nvs))
<1>1. nvs \subseteq NewView /\ v \in Nat
  BY WorldParts DEF View
<1>2. nvs # {} /\ n \in Nat
  <2>1. SignersOf(nvs) # {} /\ IsFiniteSet(SignersOf(nvs))
    BY QuorumFacts
  <2> QED BY <2>1, FS_CardinalityType DEF SignersOf
<1>3. \A m \in nvs : m.data.justv <= v
  <2> SUFFICES ASSUME NEW m \in nvs PROVE m.data.justv <= v
    OBVIOUS
  <2>1. m \in Reports(w.net, w.host, r)
    BY DEF Reports
  <2>2. /\ m.signer \in Replica /\ m.data \in RData
        /\ m.data \in w.signed[m.signer] /\ IsReport(m.data)
    BY <2>1, ReportsSigned
  <2>3. ComponentOK(w.tc[m.signer], w.signed[m.signer])
    BY <2>2 DEF Inv
  <2>4. Truthful(w.signed[m.signer], m.data)
    BY <2>2, <2>3 DEF ComponentOK
  <2>5. m.data.justv < v /\ m.data.justv \in Nat
    BY <2>2, <2>4 DEF Truthful, RData, View
  <2> QED BY <1>1, <2>5
<1>4. f \in nvs /\ g \in nvs
  BY <1>1, <1>2, <1>3, FirstNewViewIsOne, HighestIsOne
<1>5. /\ f.data.propv \in View /\ f.data.justv \in View /\ f.data.justh \in Hash
      /\ g.data.justv \in View /\ g.data.justh \in Hash
  BY <1>1, <1>4 DEF NewView, RData
<1>6. \/ newviews2accComb(r, nvs) = [view |-> f.data.propv, prepv |-> f.data.justv,
                                     hash |-> f.data.justh, size |-> n, signer |-> r]
      \/ newviews2accComb(r, nvs) = [view |-> f.data.propv, prepv |-> g.data.justv,
                                     hash |-> g.data.justh, size |-> n, signer |-> r]
  BY DEF newviews2accComb, callTEEaccumCombSp, callTEEaccumComb, COMB_TEEaccum, COMB_TEEaccumSp
<1> HIDE DEF f, g, n
<1>7. newviews2accComb(r, nvs) \in Accum /\ newviews2accComb(r, nvs).signer = r
  BY <1>2, <1>5, <1>6 DEF Accum
<1> QED BY <1>4, <1>7 DEF g

\* The context in which processQC broadcasts the block it made.
ProposedBy(x, block, acc) ==
    LET y == SetBlock(Signed(x, callTEEprepareComb(x.tc, block, acc)), block.hash)
    IN  [y EXCEPT !.h.processedNewViews = @ \cup {x.h.view}]

(***************************************************************************)
(* From context x the leader comes to context z with its vote d signed and *)
(* proposal m in hand, which no other proposal of the view competes with.  *)
(***************************************************************************)
ReadyToPropose(w, x, z, d, m) ==
    LET b == Put(w, z)
    IN  /\ Good(w, z) /\ z.id = x.id /\ ~z.h.catchup /\ z.h.view = x.h.view
        /\ z.h.skipped = x.h.skipped /\ x.signed \subseteq z.signed
        /\ d \in RData /\ CombOK(b.signed, d, {x.id}, PH1_PREPARE)
        /\ m \in LdrPrepareMsg /\ LdrOK(b.signed, m)
        /\ \A l \in Replica :
             /\ \A o \in Incoming(b.net, l) : o.type = "ldrprepare" => o.acc.view # m.acc.view
             /\ \A o \in b.host[l].ldrs : o.acc.view # m.acc.view
             /\ l # x.id => m.acc.view \notin DOMAIN b.host[l].blocks
        /\ \A l \in Replica :
             Reports(b.net, b.host, l) = Reports(Put(w, x).net, Put(w, x).host, l)

\* processQC: the leader's own vote, and the proposal it is about to broadcast.
LEMMA LeaderSign ==
    ASSUME ~Damysus, NEW w, NEW x, Good(w, x), ~x.h.catchup,
           FixedLeaderMode => x.id = FixedLeader,
           x.h.view \notin x.h.processedNewViews,
           NEW nvs, nvs \subseteq x.h.nvs, \A n \in nvs : n.data.propv = x.h.view,
           NEW acc, acc = newviews2accComb(x.id, nvs),
           NEW block, block = createNewBlock(x, acc.hash),
           CanPrepare(x.tc, block, acc, nvs)
    PROVE  LET d == callTEEprepareComb(x.tc, block, acc).data
           IN  ReadyToPropose(w, x, ProposedBy(x, block, acc), d,
                              MsgLdrPrepareComb(acc, block, nvs, d, x.id))
<1> DEFINE res == callTEEprepareComb(x.tc, block, acc)
           s   == Signed(x, res)
           y   == SetBlock(s, block.hash)
           z   == [y EXCEPT !.h.processedNewViews = @ \cup {x.h.view}]
           m   == MsgLdrPrepareComb(acc, block, nvs, res.data, x.id)
           a   == Put(w, x)
           b   == Put(w, z)
           c   == x.tc
           d   == res.data
           r   == x.id
           v   == x.h.view
           P   == x.h.processedNewViews \cup {v}
<1>1. /\ x \in ContextType /\ w \in World /\ Inv(a) /\ r \in Replica /\ c \in TrustedState
      /\ x.h \in HostState /\ v \in View /\ nvs \subseteq NewView
      /\ x.h.processedNewViews \in SUBSET View
  BY ContextParts DEF Good, HostState
<1>2. /\ a \in World /\ a.tc[r] = c /\ a.signed[r] = x.signed /\ a.host[r] = x.h
  BY <1>1, PutParts
<1>3. /\ IsQuorum(SignersOf(nvs)) /\ acc.view = c.view
      /\ acc.hash = HighestNewView(nvs).data.justh
      /\ \A n \in nvs : n.data.propv = c.view
  BY DEF CanPrepare, CanTEEprepare, COMB_validateNewViews
<1>4. acc \in Accum /\ acc.signer = r /\ HighestNewView(nvs) \in nvs
  BY <1>1, <1>2, <1>3, AccumFacts
<1>5. c.view = v
  BY <1>3, <1>4
<1>6. /\ block = [prev |-> acc.hash, hash |-> Append(acc.hash, <<r, v>>)]
      /\ block.hash \in Hash /\ block.hash # noHash /\ Creator(block.hash) = r
      /\ block \in Block
  <2>1. block = [prev |-> acc.hash, hash |-> Append(acc.hash, <<r, v>>)] /\ acc.hash \in Hash
    BY <1>4 DEF createNewBlock, Accum
  <2>2. /\ Append(acc.hash, <<r, v>>) \in Hash /\ Append(acc.hash, <<r, v>>) # noHash
        /\ Creator(Append(acc.hash, <<r, v>>)) = r
    <3>1. v >= 1
      BY <1>1, <1>2 DEF Inv, StepOK
    <3> QED BY <1>1, <2>1, <3>1, CreatorOf, BlockIsSet DEF View
  <2> QED BY <2>1, <2>2 DEF Block
<1>7. /\ res.tc \in TrustedState
      /\ Counter(res.tc.view, res.tc.phase) = Counter(c.view, c.phase) + 1
      /\ \/ res.tc.view = c.view /\ PhaseIndex(res.tc.phase) = PhaseIndex(c.phase) + 1
         \/ res.tc.view = c.view + 1 /\ res.tc.phase = PH1_NEWVIEW /\ c.phase = PH1_COMMIT
      /\ \/ ~isTEE(acc.signer) /\ res.tc.preph = c.preph /\ res.tc.prepv = c.prepv
         \/ isTEE(acc.signer) /\ res.tc.preph = block.hash /\ res.tc.prepv = c.view
      /\ res.tc.lockh = c.lockh /\ res.tc.lockv = c.lockv
      /\ d \in RData /\ d.proph = block.hash /\ d.propv = c.view /\ d.phase = c.phase
  <2>1. c \in TrustedState /\ block \in Block /\ acc \in Accum
    BY <1>1, <1>4, <1>6
  <2> HIDE DEF c
  <2> QED BY <2>1, PrepareFacts DEF c
<1> HIDE DEF res, d
<1>8. /\ s \in ContextType /\ s.id = r /\ s.tc = res.tc
      /\ s.signed = x.signed \cup {d} /\ s.out = x.out /\ s.h = x.h
  BY <1>1, <1>7, SignedParts DEF d
<1> HIDE DEF s
<1>9. /\ y \in ContextType /\ y.id = r /\ y.tc = res.tc
      /\ y.signed = x.signed \cup {d} /\ y.out = x.out
  BY <1>6, <1>8, SetBlockParts
<1>10. PICK B \in BlockMap :
         /\ y.h = [s.h EXCEPT !.blocks = B]
         /\ DOMAIN B = DOMAIN s.h.blocks \cup {s.h.view}
         /\ \A u \in DOMAIN B : B[u] = IF u = s.h.view THEN block.hash ELSE s.h.blocks[u]
  BY <1>6, <1>8, SetBlockParts
<1>11. /\ y.h.blocks = B /\ y.h.view = v /\ y.h.started = x.h.started
       /\ y.h.nvs = x.h.nvs /\ y.h.ldrs = x.h.ldrs /\ y.h.votes = x.h.votes
       /\ y.h.qcs = x.h.qcs /\ y.h.executed = x.h.executed /\ y.h.catchup = x.h.catchup
       /\ y.h.processedNewViews = x.h.processedNewViews /\ y.h.skipped = x.h.skipped
  BY <1>1, <1>8, <1>10 DEF HostState
<1> HIDE DEF y
<1>12. P \in SUBSET View /\ z = [y EXCEPT !.h.processedNewViews = P]
  BY <1>1, <1>9, <1>11 DEF ContextType, HostState
<1> HIDE DEF z, P
<1>13. /\ z \in ContextType /\ z.id = r /\ z.tc = res.tc
       /\ z.signed = x.signed \cup {d} /\ z.out = x.out
       /\ z.h = [y.h EXCEPT !.processedNewViews = P]
  <2> DEFINE g == [y.h EXCEPT !.processedNewViews = P]
  <2>1. y.h \in HostState
    BY <1>9 DEF ContextType
  <2>2. g \in HostState
    BY <1>12, <2>1 DEF HostState
  <2>3. z = [y EXCEPT !.h = g]
    BY <1>9, <1>12 DEF ContextType
  <2> HIDE DEF g
  <2>4. z.id = y.id /\ z.tc = y.tc /\ z.signed = y.signed /\ z.out = y.out
        /\ z.h = g /\ z \in ContextType
    BY <1>9, <2>2, <2>3 DEF ContextType
  <2> QED BY <1>9, <2>4 DEF g
<1>14. /\ z.h.blocks = B /\ z.h.view = v /\ z.h.started = x.h.started
       /\ z.h.nvs = x.h.nvs /\ z.h.ldrs = x.h.ldrs /\ z.h.votes = x.h.votes
       /\ z.h.qcs = x.h.qcs /\ z.h.executed = x.h.executed /\ z.h.catchup = x.h.catchup
       /\ z.h.processedNewViews = P /\ z.h.skipped = x.h.skipped
  <2>1. y.h \in HostState
    BY <1>9 DEF ContextType
  <2>2. /\ z.h.blocks = y.h.blocks /\ z.h.view = y.h.view /\ z.h.started = y.h.started
        /\ z.h.nvs = y.h.nvs /\ z.h.ldrs = y.h.ldrs /\ z.h.votes = y.h.votes
        /\ z.h.qcs = y.h.qcs /\ z.h.executed = y.h.executed /\ z.h.catchup = y.h.catchup
        /\ z.h.processedNewViews = P /\ z.h.skipped = y.h.skipped
    BY <1>13, <2>1 DEF HostState
  <2> QED BY <1>11, <2>2
<1> HIDE DEF c, r, v
<1>15. Near(a, b, r) /\ b.net = a.net /\ b \in World
  <2>1. /\ w \in World /\ x \in ContextType /\ z \in ContextType /\ z.id = x.id
        /\ x.signed \subseteq z.signed /\ z.out = x.out
    BY <1>1, <1>13 DEF r
  <2>2. Near(a, b, x.id) /\ b.net = a.net
    BY <2>1, PutNear
  <2>3. b \in World
    BY <2>1, PutParts
  <2> QED BY <2>2, <2>3 DEF r
<1>16. b.tc[r] = res.tc /\ b.signed[r] = x.signed \cup {d} /\ b.host[r] = z.h
  BY <1>1, <1>13, PutParts
<1> HIDE DEF a, b
<1>17. /\ \A p \in Replica : \A e \in a.signed[p] : Names(e) => e.propv # v
       /\ \A l \in Replica :
            /\ v \notin DOMAIN a.host[l].blocks
            /\ \A o \in a.host[l].ldrs : o.acc.view # v
            /\ \A o \in Incoming(a.net, l) : o.type = "ldrprepare" => o.acc.view # v
  BY <1>1, <1>2, <1>3, NothingNamed DEF v
<1>18. Names(d) /\ d.propv = v
  BY <1>5, <1>6, <1>7 DEF Names
<1>19. NamesOK(b.signed, b.host)
  <2>1. \A l \in Replica : /\ a.host[l].processedNewViews \subseteq b.host[l].processedNewViews
                           /\ a.host[l].nvs \subseteq b.host[l].nvs
    BY <1>2, <1>14, <1>15, <1>16 DEF Near, P
  <2>2. \A g, u : Justified(a.host, g, u) => Justified(b.host, g, u)
    BY <2>1 DEF Justified
  <2>3. Justified(b.host, d.proph, v)
    <3>1. v \in b.host[r].processedNewViews /\ nvs \in SUBSET b.host[r].nvs
      BY <1>14, <1>16 DEF P
    <3>2. d.proph = Append(HighestNewView(nvs).data.justh, <<r, v>>)
      BY <1>3, <1>6, <1>7
    <3>3. \A n \in nvs : n.data.propv = v
      BY DEF v
    <3>4. FixedLeaderMode => r = FixedLeader
      BY DEF r
    <3> QED BY <1>1, <1>3, <3>1, <3>2, <3>3, <3>4 DEF Justified
  <2> SUFFICES ASSUME NEW p \in Replica, NEW e \in b.signed[p], Names(e)
               PROVE  Justified(b.host, e.proph, e.propv)
    BY DEF NamesOK
  <2>4. CASE e \in a.signed[p]
    BY <1>1, <2>2, <2>4 DEF Inv, NamesOK
  <2>5. CASE e = d
    BY <1>18, <2>3, <2>5
  <2>6. e \in a.signed[p] \/ e = d
    BY <1>2, <1>15, <1>16 DEF Near
  <2> QED BY <2>4, <2>5, <2>6
<1>20. OneBlock(b.signed)
  <2>1. \A p \in Replica : \A e \in b.signed[p] : e \in a.signed[p] \/ e = d
    BY <1>2, <1>15, <1>16 DEF Near
  <2>2. OneBlock(a.signed)
    BY <1>1 DEF Inv
  <2> SUFFICES ASSUME NEW p \in Replica, NEW q \in Replica,
                      NEW e \in b.signed[p], NEW f \in b.signed[q],
                      Names(e), Names(f), e.propv = f.propv
               PROVE  e.proph = f.proph
    BY DEF OneBlock
  <2>3. (e = d /\ f = d) \/ (e \in a.signed[p] /\ f \in a.signed[q])
    BY <1>17, <1>18, <2>1
  <2> QED BY <2>2, <2>3 DEF OneBlock
<1>21. Inv(b)
  <2>1. \/ /\ b.tc[r].preph = a.tc[r].preph /\ b.tc[r].prepv = a.tc[r].prepv
           /\ ~isTEE(Creator(d.proph)) /\ a.host[r].view \notin DOMAIN a.host[r].blocks
        \/ b.tc[r].preph = d.proph /\ b.tc[r].prepv = a.tc[r].view
    <3>1. a.host[r].view \notin DOMAIN a.host[r].blocks
      BY <1>1, <1>2, <1>17 DEF v
    <3> QED BY <1>2, <1>4, <1>6, <1>7, <1>16, <3>1
  <2>2. /\ d.propv = a.tc[r].view /\ d.phase = a.tc[r].phase
        /\ b.signed[r] = a.signed[r] \cup {d} /\ a.tc[r].view = a.host[r].view
        /\ Counter(b.tc[r].view, b.tc[r].phase) = Counter(a.tc[r].view, a.tc[r].phase) + 1
        /\ \/ /\ b.tc[r].view = a.tc[r].view
              /\ PhaseIndex(b.tc[r].phase) = PhaseIndex(a.tc[r].phase) + 1
           \/ /\ b.tc[r].view = a.tc[r].view + 1 /\ b.tc[r].phase = PH1_NEWVIEW
              /\ a.tc[r].phase = PH1_COMMIT
    BY <1>2, <1>5, <1>7, <1>16 DEF v
  <2>3. /\ b.host[r].view = a.host[r].view /\ b.host[r].started = a.host[r].started
        /\ b.host[r].nvs = a.host[r].nvs /\ b.host[r].ldrs = a.host[r].ldrs
        /\ b.host[r].votes = a.host[r].votes /\ b.host[r].qcs = a.host[r].qcs
        /\ b.host[r].executed = a.host[r].executed /\ ~b.host[r].catchup
        /\ b.host[r].blocks = B
    BY <1>2, <1>14, <1>16 DEF v
  <2>4. /\ DOMAIN B = DOMAIN a.host[r].blocks \cup {a.host[r].view}
        /\ \A u \in DOMAIN B :
              B[u] = IF u = a.host[r].view THEN d.proph ELSE a.host[r].blocks[u]
    BY <1>2, <1>7, <1>8, <1>10
  <2>5. \A o \in Incoming(a.net, r) : o.type = "ldrprepare" => o.acc.view # a.host[r].view
    BY <1>1, <1>2, <1>17 DEF v
  <2>6. /\ DOMAIN b.host[r].blocks = DOMAIN a.host[r].blocks \cup {a.host[r].view}
        /\ \A u \in DOMAIN b.host[r].blocks :
              b.host[r].blocks[u] = IF u = a.host[r].view THEN d.proph
                                    ELSE a.host[r].blocks[u]
    BY <2>3, <2>4
  <2>7. b.tc[r].lockh = a.tc[r].lockh /\ b.tc[r].lockv = a.tc[r].lockv
    BY <1>2, <1>7, <1>16
  <2> QED BY <1>1, <1>7, <1>15, <1>18, <1>19, <1>20, <2>1, <2>2, <2>3, <2>5, <2>6, <2>7, NameSign
<1>22. CombOK(b.signed, d, {r}, PH1_PREPARE)
  BY <1>16, <1>18 DEF CombOK
<1>23. m = [type |-> "ldrprepare", acc |-> acc, block |-> block, proof |-> nvs,
            sdata |-> d, signer |-> r]
  BY DEF MsgLdrPrepareComb, d, r
<1> HIDE DEF m
<1>24. m \in LdrPrepareMsg
  BY <1>1, <1>4, <1>6, <1>7, <1>23 DEF LdrPrepareMsg
<1>25. LdrOK(b.signed, m)
  <2>1. /\ m.sdata = d /\ m.signer = r /\ m.acc = acc /\ m.block = block
    BY <1>23
  <2>2. block.prev = acc.hash /\ block.hash = Append(acc.hash, <<r, v>>) /\ acc.view = v
    BY <1>3, <1>5, <1>6
  <2>3. d \in b.signed[r]
    BY <1>16
  <2> QED BY <1>4, <1>5, <1>7, <2>1, <2>2, <2>3 DEF LdrOK
<1>26. m.acc.view = v
  BY <1>3, <1>5, <1>23
<1>27. \A l \in Replica :
        /\ \A o \in Incoming(b.net, l) : o.type = "ldrprepare" => o.acc.view # m.acc.view
        /\ \A o \in b.host[l].ldrs : o.acc.view # m.acc.view
        /\ l # r => m.acc.view \notin DOMAIN b.host[l].blocks
  <2> SUFFICES ASSUME NEW l \in Replica
               PROVE  /\ \A o \in Incoming(b.net, l) :
                            o.type = "ldrprepare" => o.acc.view # m.acc.view
                      /\ \A o \in b.host[l].ldrs : o.acc.view # m.acc.view
                      /\ l # r => m.acc.view \notin DOMAIN b.host[l].blocks
    OBVIOUS
  <2>1. b.host[l].ldrs = a.host[l].ldrs /\ (l # r => b.host[l] = a.host[l])
    BY <1>2, <1>14, <1>15, <1>16 DEF Near
  <2> QED BY <1>15, <1>17, <1>26, <2>1
<1>28. \A l \in Replica : Reports(b.net, b.host, l) = Reports(a.net, a.host, l)
  BY <1>2, <1>14, <1>15, <1>16 DEF Near, Reports
<1>29. Good(w, z) /\ z.id = r /\ ~z.h.catchup /\ x.signed \subseteq z.signed
  BY <1>1, <1>13, <1>14, <1>21 DEF Good, b
<1> QED BY <1>7, <1>14, <1>22, <1>24, <1>25, <1>27, <1>28, <1>29
        DEF a, b, d, m, r, s, v, y, z, res, ProposedBy, ReadyToPropose


-----------------------------------------------------------------------------
(* Storing a certificate *)

\* What a component signs by COMB_TEEstore, and what it becomes.
LEMMA StoreFacts ==
    ASSUME ~Damysus, NEW c \in TrustedState, NEW just, just.data \in RData,
           CanStore(c, just)
    PROVE  LET res == callTEEstoreComb(c, just)
           IN  /\ res.tc \in TrustedState
               /\ Counter(res.tc.view, res.tc.phase) = Counter(c.view, c.phase) + 1
               /\ \/ /\ res.tc.view = c.view
                     /\ PhaseIndex(res.tc.phase) = PhaseIndex(c.phase) + 1
                  \/ /\ res.tc.view = c.view + 1 /\ res.tc.phase = PH1_NEWVIEW
                     /\ c.phase = PH1_COMMIT
               /\ res.tc.preph = just.data.proph /\ res.tc.prepv = c.view
               /\ \/ res.tc.lockh = c.lockh /\ res.tc.lockv = c.lockv
                  \/ /\ res.tc.lockh = just.data.proph /\ res.tc.lockv = c.view
                     /\ just.data.phase = PH1_PRECOMMIT
               /\ res.data \in RData
               /\ res.data.proph = just.data.proph /\ res.data.propv = c.view
               /\ res.data.phase = c.phase
<1> DEFINE g == just.data.proph
           u == just.data.propv
           prepared == [c EXCEPT !.preph = g, !.prepv = u]
           s == IF just.data.phase = PH1_PRECOMMIT
                THEN [prepared EXCEPT !.lockh = g, !.lockv = u] ELSE prepared
<1>1. /\ c.view \in View /\ c.phase \in Phase1 /\ g \in Hash /\ u \in View /\ u = c.view
  BY DEF TrustedState, RData, CanStore, CanTEEstore
<1>2. callTEEstoreComb(c, just) =
        [tc |-> COMB_increment(s),
         data |-> [proph |-> g, propv |-> s.view, justh |-> newHash, justv |-> 0,
                   phase |-> s.phase]]
  BY DEF callTEEstoreComb, COMB_TEEstore, COMB_sign, COMB_rdata
<1> HIDE DEF g, u
<1>3. /\ prepared \in TrustedState /\ prepared.view = c.view /\ prepared.phase = c.phase
      /\ prepared.preph = g /\ prepared.prepv = u
      /\ prepared.lockh = c.lockh /\ prepared.lockv = c.lockv
  BY <1>1 DEF TrustedState
<1> HIDE DEF prepared
<1>4. /\ s \in TrustedState /\ s.view = c.view /\ s.phase = c.phase
      /\ s.preph = g /\ s.prepv = u
      /\ \/ s.lockh = c.lockh /\ s.lockv = c.lockv
         \/ s.lockh = g /\ s.lockv = u /\ just.data.phase = PH1_PRECOMMIT
  BY <1>1, <1>3 DEF TrustedState
<1> HIDE DEF s
<1>5. /\ COMB_increment(s) \in TrustedState
      /\ Counter(COMB_increment(s).view, COMB_increment(s).phase) = Counter(s.view, s.phase) + 1
      /\ \/ /\ COMB_increment(s).view = s.view
            /\ PhaseIndex(COMB_increment(s).phase) = PhaseIndex(s.phase) + 1
         \/ /\ COMB_increment(s).view = s.view + 1
            /\ COMB_increment(s).phase = PH1_NEWVIEW
            /\ s.phase = PH1_COMMIT
      /\ COMB_increment(s).preph = s.preph /\ COMB_increment(s).prepv = s.prepv
      /\ COMB_increment(s).lockh = s.lockh /\ COMB_increment(s).lockv = s.lockv
  BY <1>4, IncrementMoves
<1>6. [proph |-> g, propv |-> s.view, justh |-> newHash, justv |-> 0, phase |-> s.phase]
        \in RData
  <2>1. newHash \in Hash /\ 0 \in View
    BY EmptySeq DEF newHash, Hash, View
  <2> QED BY <1>1, <1>4, <2>1 DEF RData
<1> QED BY <1>1, <1>2, <1>4, <1>5, <1>6 DEF g

\* The vote on a certificate of the host's view.
LEMMA StoreSign ==
    ASSUME ~Damysus, NEW w, NEW x, Good(w, x), ~x.h.catchup,
           NEW just, just.data \in RData, Names(just.data), just.data.propv = x.h.view,
           CanStore(x.tc, just),
           \A p \in just.signers : just.data \in Put(w, x).signed[p],
           QuorumPrepared(Put(w, x).signed, x.h.view)
    PROVE  LET res == callTEEstoreComb(x.tc, just)
               y   == Signed(x, res)
           IN  /\ Good(w, y) /\ y.id = x.id /\ y.h = x.h /\ y.out = x.out
               /\ x.signed \subseteq y.signed /\ res.data \in RData
               /\ \A next : CombOK(Put(w, y).signed, res.data, {x.id}, next)
<1> DEFINE res == callTEEstoreComb(x.tc, just)
           y   == Signed(x, res)
           a   == Put(w, x)
           b   == Put(w, y)
           c   == x.tc
           d   == res.data
           r   == x.id
<1>1. x \in ContextType /\ w \in World /\ Inv(a) /\ r \in Replica /\ c \in TrustedState
  BY ContextParts DEF Good
<1>2. c.view = x.h.view /\ IsQuorum(just.signers)
  BY DEF CanStore, CanTEEstore
<1>3. /\ res.tc \in TrustedState
      /\ Counter(res.tc.view, res.tc.phase) = Counter(c.view, c.phase) + 1
      /\ \/ res.tc.view = c.view /\ PhaseIndex(res.tc.phase) = PhaseIndex(c.phase) + 1
         \/ res.tc.view = c.view + 1 /\ res.tc.phase = PH1_NEWVIEW /\ c.phase = PH1_COMMIT
      /\ res.tc.preph = just.data.proph /\ res.tc.prepv = c.view
      /\ \/ res.tc.lockh = c.lockh /\ res.tc.lockv = c.lockv
         \/ /\ res.tc.lockh = just.data.proph /\ res.tc.lockv = c.view
            /\ just.data.phase = PH1_PRECOMMIT
      /\ d \in RData /\ d.proph = just.data.proph /\ d.propv = c.view /\ d.phase = c.phase
  BY <1>1, StoreFacts
<1> HIDE DEF res, d
<1>4. /\ y \in ContextType /\ y.id = r /\ y.tc = res.tc
      /\ y.signed = x.signed \cup {d} /\ y.out = x.out /\ y.h = x.h
  BY <1>1, <1>3, SignedParts DEF d
<1> HIDE DEF y, c, r
<1>5. Near(a, b, r) /\ b.net = a.net /\ b \in World
  BY <1>1, <1>4, PutNear, PutParts DEF r
<1>6. /\ a.tc[r] = c /\ a.signed[r] = x.signed /\ a.host[r] = x.h
      /\ b.tc[r] = res.tc /\ b.signed[r] = x.signed \cup {d} /\ b.host[r] = x.h
  <2>1. a.tc[r] = c /\ a.signed[r] = x.signed /\ a.host[r] = x.h
    BY <1>1, PutParts DEF c, r
  <2>2. b.tc[y.id] = y.tc /\ b.signed[y.id] = y.signed /\ b.host[y.id] = y.h
    BY <1>1, <1>4, PutParts
  <2> QED BY <1>4, <2>1, <2>2
<1> HIDE DEF a, b
<1>7. Names(d)
  BY <1>3 DEF Names
<1>8. \E q \in Replica : NamedBy(a.signed[q], d.proph, d.propv)
  <2>1. PICK q \in just.signers : q \in Replica
    BY <1>2, QuorumFacts
  <2>2. just.data \in a.signed[q]
    BY DEF a
  <2> QED BY <1>2, <1>3, <2>1, <2>2 DEF NamedBy
<1>9. NamesOK(b.signed, b.host) /\ OneBlock(b.signed)
  <2>1. \A e \in b.signed[r] : Names(e) =>
            \E q \in Replica : NamedBy(a.signed[q], e.proph, e.propv)
    BY <1>1, <1>6, <1>8 DEF NamedBy
  <2> QED BY <1>1, <1>5, <1>6, <2>1, NamesStep
<1>10. Inv(b)
  <2>1. b.tc[r].preph = d.proph /\ b.tc[r].prepv = a.tc[r].view
    BY <1>3, <1>6
  <2>2. /\ d.propv = a.tc[r].view /\ d.phase = a.tc[r].phase
        /\ b.signed[r] = a.signed[r] \cup {d} /\ a.tc[r].view = a.host[r].view
        /\ Counter(b.tc[r].view, b.tc[r].phase) = Counter(a.tc[r].view, a.tc[r].phase) + 1
        /\ \/ /\ b.tc[r].view = a.tc[r].view
              /\ PhaseIndex(b.tc[r].phase) = PhaseIndex(a.tc[r].phase) + 1
           \/ /\ b.tc[r].view = a.tc[r].view + 1 /\ b.tc[r].phase = PH1_NEWVIEW
              /\ a.tc[r].phase = PH1_COMMIT
    BY <1>2, <1>3, <1>6
  <2>3. b.host[r] = a.host[r] /\ ~b.host[r].catchup
    BY <1>6
  <2>4. \/ b.tc[r].lockh = a.tc[r].lockh /\ b.tc[r].lockv = a.tc[r].lockv
        \/ LockOK(b.signed, b.tc[r])
    <3> SUFFICES ASSUME res.tc.lockh = just.data.proph, res.tc.lockv = c.view,
                        just.data.phase = PH1_PRECOMMIT
                 PROVE  LockOK(b.signed, b.tc[r])
      BY <1>3, <1>6
    <3>1. just.signers \subseteq Replica /\ just.signers # {}
      BY <1>2, QuorumFacts
    <3>2. \A p \in just.signers : just.data \in b.signed[p]
      <4>1. \A p \in just.signers : just.data \in a.signed[p]
        BY DEF a
      <4> QED BY <1>5, <3>1, <4>1 DEF Near
    <3>3. SignedByQuorum(b.signed, just.data)
      BY <1>2, <3>1, <3>2 DEF SignedByQuorum
    <3>4. just.data.propv = c.view
      BY <1>2
    <3> QED BY <1>6, <3>1, <3>2, <3>3, <3>4 DEF LockOK
  <2> QED BY <1>1, <1>3, <1>5, <1>7, <1>9, <2>1, <2>2, <2>3, <2>4, NameSign
<1>11. \A next : CombOK(b.signed, d, {r}, next)
  <2>1. \A p \in Replica : a.signed[p] \subseteq b.signed[p]
    BY <1>5 DEF Near
  <2>2. \A e : SignedByQuorum(a.signed, e) => SignedByQuorum(b.signed, e)
    BY <2>1, StatementsGrow
  <2>3. QuorumPrepared(a.signed, d.propv)
    BY <1>2, <1>3 DEF a
  <2>4. QuorumPrepared(b.signed, d.propv)
    BY <2>1, <2>2, <2>3 DEF QuorumPrepared
  <2> QED BY <1>6, <1>7, <2>4 DEF CombOK
<1> QED BY <1>1, <1>3, <1>4, <1>10, <1>11 DEF Good, y, b, d, res, r

-----------------------------------------------------------------------------
(* Steps of a handler that sign nothing *)

\* What was backed stays backed.
LEMMA GoodGrows ==
    ASSUME NEW w, NEW x, NEW y, Good(w, x), Goes(w, x, y)
    PROVE  LET S == Put(w, x).signed
               Z == Put(w, y).signed
           IN  /\ \A p \in Replica : S[p] \subseteq Z[p]
               /\ \A d, kind : \A signers \in SUBSET Replica :
                    CombOK(S, d, signers, kind) => CombOK(Z, d, signers, kind)
               /\ \A v : QuorumPrepared(S, v) => QuorumPrepared(Z, v)
<1>1. Near(Put(w, x), Put(w, y), x.id)
  BY PutNear DEF Good, Goes
<1>2. x.id \in Replica
  BY ContextParts DEF Good
<1> DEFINE S == Put(w, x).signed
           Z == Put(w, y).signed
<1>3. \A p \in Replica : S[p] \subseteq Z[p]
  BY <1>1, <1>2 DEF Near
<1> HIDE DEF S, Z
<1>4. /\ \A d : SignedByQuorum(S, d) => SignedByQuorum(Z, d)
      /\ \A d, kind : \A signers \in SUBSET Replica :
            CombOK(S, d, signers, kind) => CombOK(Z, d, signers, kind)
  BY <1>3, StatementsGrow
<1>5. \A v : QuorumPrepared(S, v) => QuorumPrepared(Z, v)
  BY <1>3, <1>4 DEF QuorumPrepared
<1> QED BY <1>3, <1>4, <1>5 DEF S, Z

\* What a logged vote, and a certificate, is backed by.
VoteOK(S, o) == CombOK(S, o.data, {o.signer}, o.kind)
CertOK(S, m) == CombOK(S, m.data, m.signers, m.type)

\* The component does nothing and the host stays in its view, with its blocks.
LEMMA QuietContext ==
    ASSUME NEW w, NEW x, Good(w, x), NEW y \in ContextType,
           y.id = x.id, y.tc = x.tc, y.signed = x.signed,
           y.h.view = x.h.view, y.h.started = x.h.started, y.h.blocks = x.h.blocks,
           y.h.nvs = x.h.nvs, y.h.processedNewViews = x.h.processedNewViews,
           y.h.ldrs = x.h.ldrs, y.h.catchup => x.h.catchup,
           \A o \in y.h.votes :
                o \in x.h.votes \/ VoteOK(Put(w, x).signed, o),
           \A m \in y.h.qcs :
                m \in x.h.qcs \/ CertOK(Put(w, x).signed, m),
           ExecutedOK(Put(w, x).signed, y.h),
           \A l \in Replica :
                \/ y.out[l] = x.out[l]
                \/ \E m \in CombMsg :
                    /\ y.out[l] = Append(x.out[l], m)
                    /\ CertOK(Put(w, x).signed, m)
    PROVE  Good(w, y)
<1> DEFINE a == Put(w, x)
           b == Put(w, y)
           r == x.id
<1>1. x \in ContextType /\ w \in World /\ Inv(a) /\ r \in Replica
  BY ContextParts DEF Good
<1>2. Near(a, b, r)
  BY <1>1, PutNear
<1>3. /\ a.tc[r] = x.tc /\ a.signed[r] = x.signed /\ a.host[r] = x.h /\ a.net[r] = x.out
  BY <1>1, PutParts
<1>4. /\ b.tc[r] = y.tc /\ b.signed[r] = y.signed /\ b.host[r] = y.h /\ b.net[r] = y.out
  <2>1. /\ b.tc[y.id] = y.tc /\ b.signed[y.id] = y.signed
        /\ b.host[y.id] = y.h /\ b.net[y.id] = y.out
    <3>1. w \in World /\ y \in ContextType
      BY <1>1
    <3> HIDE DEF r, a
    <3> QED BY <3>1, PutParts
  <2> QED BY <2>1
<1> HIDE DEF a, b
<1>5. /\ \A o \in b.host[r].votes :
            o \in a.host[r].votes \/ CombOK(a.signed, o.data, {o.signer}, o.kind)
      /\ \A m \in b.host[r].qcs :
            m \in a.host[r].qcs \/ CombOK(a.signed, m.data, m.signers, m.type)
      /\ ExecutedOK(a.signed, b.host[r])
  BY <1>3, <1>4 DEF a, VoteOK, CertOK
<1>6. \A l \in Replica :
        \/ b.net[r][l] = a.net[r][l]
        \/ \E m \in CombMsg : /\ b.net[r][l] = Append(a.net[r][l], m)
                              /\ CombOK(a.signed, m.data, m.signers, m.type)
  BY <1>3, <1>4 DEF a, VoteOK, CertOK
<1>7. /\ b.tc[r] = a.tc[r] /\ b.signed[r] = a.signed[r]
      /\ b.host[r].view = a.host[r].view /\ b.host[r].started = a.host[r].started
      /\ b.host[r].blocks = a.host[r].blocks /\ b.host[r].nvs = a.host[r].nvs
      /\ b.host[r].processedNewViews = a.host[r].processedNewViews
      /\ b.host[r].ldrs = a.host[r].ldrs
      /\ b.host[r].catchup => a.host[r].catchup
  BY <1>3, <1>4
<1> HIDE DEF r
<1>8. Inv(b)
  BY <1>1, <1>2, <1>5, <1>6, <1>7, QuietStep
<1> QED BY <1>1, <1>8 DEF Good, b

\* The same where only the host's own bookkeeping changes.
LEMMA HostContext ==
    ASSUME NEW w, NEW x, Good(w, x), NEW y \in ContextType,
           y.id = x.id, y.tc = x.tc, y.signed = x.signed, y.out = x.out,
           y.h.view = x.h.view, y.h.started = x.h.started, y.h.blocks = x.h.blocks,
           y.h.nvs = x.h.nvs, y.h.processedNewViews = x.h.processedNewViews,
           y.h.ldrs = x.h.ldrs, y.h.catchup = x.h.catchup,
           y.h.votes = x.h.votes, y.h.qcs \subseteq x.h.qcs,
           ExecutedOK(Put(w, x).signed, y.h)
    PROVE  Good(w, y)
<1>1. \A o \in y.h.votes : o \in x.h.votes
  OBVIOUS
<1>2. \A m \in y.h.qcs : m \in x.h.qcs
  OBVIOUS
<1>3. \A l \in Replica : y.out[l] = x.out[l]
  OBVIOUS
<1> QED BY <1>1, <1>2, <1>3, QuietContext

\* What the host already executed.
LEMMA ExecutedKept ==
    ASSUME NEW w, NEW x, Good(w, x), NEW h, h.executed = x.h.executed
    PROVE  ExecutedOK(Put(w, x).signed, h)
<1>1. x \in ContextType /\ w \in World /\ x.id \in Replica
  BY ContextParts DEF Good
<1>2. ExecutedOK(Put(w, x).signed, Put(w, x).host[x.id])
  BY <1>1 DEF Good, Inv
<1>3. Put(w, x).host[x.id] = x.h
  BY <1>1, PutParts
<1> QED BY <1>2, <1>3 DEF ExecutedOK

\* A vote, or a certificate, to one replica.
LEMMA SendCombStep ==
    ASSUME NEW w, NEW x, Good(w, x), ~x.h.catchup, NEW p, NEW m \in CombMsg,
           CertOK(Put(w, x).signed, m)
    PROVE  Goes(w, x, SendTo(x, p, m)) /\ SendTo(x, p, m).h = x.h
<1> DEFINE y == SendTo(x, p, m)
           f == [x.out EXCEPT ![p] = Append(x.out[p], m)]
<1>1. x \in ContextType
  BY DEF Good
<1>2. x.out \in [Replica -> Seq(Message)] /\ m \in Message
  BY <1>1 DEF ContextType, Message
<1>3. /\ f \in [Replica -> Seq(Message)]
      /\ \A l \in Replica : f[l] = IF l = p THEN Append(x.out[l], m) ELSE x.out[l]
  <2>1. \A l \in Replica : Append(x.out[l], m) \in Seq(Message)
    BY <1>2, AppendProperties
  <2> QED BY <1>2, <2>1
<1>4. y = [x EXCEPT !.out = f]
  BY <1>1 DEF SendTo, ContextType
<1> HIDE DEF f, y
<1>5. /\ y \in ContextType /\ y.id = x.id /\ y.tc = x.tc /\ y.signed = x.signed
      /\ y.h = x.h /\ y.out = f
  BY <1>1, <1>3, <1>4 DEF ContextType
<1>6. ExecutedOK(Put(w, x).signed, y.h)
  BY <1>5, ExecutedKept
<1>7. Good(w, y)
  BY <1>3, <1>5, <1>6, QuietContext
<1> QED BY <1>5, <1>7 DEF Goes, y

\* A certificate to all others.
LEMMA BroadcastCombStep ==
    ASSUME NEW w, NEW x, Good(w, x), ~x.h.catchup, NEW m \in CombMsg,
           CertOK(Put(w, x).signed, m)
    PROVE  /\ Goes(w, x, Broadcast(x, m)) /\ Broadcast(x, m).h = x.h
           /\ Broadcast(x, m).tc = x.tc
<1> DEFINE y == Broadcast(x, m)
           f == [p \in Replica |-> IF p = x.id THEN x.out[p] ELSE Append(x.out[p], m)]
<1>1. x \in ContextType
  BY DEF Good
<1>2. x.out \in [Replica -> Seq(Message)] /\ m \in Message
  BY <1>1 DEF ContextType, Message
<1>3. f \in [Replica -> Seq(Message)]
  <2>1. \A l \in Replica : Append(x.out[l], m) \in Seq(Message)
    BY <1>2, AppendProperties
  <2> QED BY <1>2, <2>1
<1>4. \A l \in Replica : f[l] = IF l = x.id THEN x.out[l] ELSE Append(x.out[l], m)
  OBVIOUS
<1>5. y = [x EXCEPT !.out = f]
  BY <1>1 DEF Broadcast, ContextType
<1> HIDE DEF f, y
<1>6. /\ y \in ContextType /\ y.id = x.id /\ y.tc = x.tc /\ y.signed = x.signed
      /\ y.h = x.h /\ y.out = f
  BY <1>1, <1>3, <1>5 DEF ContextType
<1>7. ExecutedOK(Put(w, x).signed, y.h)
  BY <1>6, ExecutedKept
<1>8. Good(w, y)
  BY <1>4, <1>6, <1>7, QuietContext
<1> QED BY <1>6, <1>8 DEF Goes, y

\* No report comes into the world between contexts x and y.
NoMoreReports(w, x, y) ==
    \A l \in Replica : \A o \in Reports(Put(w, y).net, Put(w, y).host, l) :
        o \in Reports(Put(w, x).net, Put(w, x).host, l)

\* storePrepComb and its siblings.
LEMMA StoreVoteStep ==
    ASSUME NEW w, NEW x, Good(w, x), ~x.h.catchup,
           NEW kind \in Phase1, NEW data \in RData, NEW p \in Replica,
           CombOK(Put(w, x).signed, data, {p}, kind)
    PROVE  /\ Goes(w, x, StoreVote(x, kind, data, p))
           /\ NoMoreReports(w, x, StoreVote(x, kind, data, p))
<1> DEFINE y == StoreVote(x, kind, data, p)
           o == [kind |-> kind, data |-> data, signer |-> p]
           V == x.h.votes \cup {o}
<1>1. x \in ContextType /\ w \in World /\ x.id \in Replica
  BY ContextParts DEF Good
<1>2. CASE HasVote(x, kind, data.propv, p)
  BY <1>2 DEF StoreVote, Goes, NoMoreReports
<1>3. CASE ~HasVote(x, kind, data.propv, p)
  <2>1. o \in Vote /\ x.h.votes \in SUBSET Vote
    BY <1>1 DEF Vote, ContextType, HostState
  <2>2. V \in SUBSET Vote
    BY <2>1
  <2>3. y = [x EXCEPT !.h.votes = V]
    BY <1>1, <1>3 DEF StoreVote, ContextType, HostState
  <2>4. o.kind = kind /\ o.data = data /\ o.signer = p
    OBVIOUS
  <2> HIDE DEF V, y, o
  <2>5. /\ y \in ContextType /\ y.id = x.id /\ y.tc = x.tc /\ y.signed = x.signed
        /\ y.out = x.out /\ y.h = [x.h EXCEPT !.votes = V]
    BY <1>1, <2>2, <2>3 DEF ContextType, HostState
  <2>6. /\ y.h.view = x.h.view /\ y.h.started = x.h.started /\ y.h.blocks = x.h.blocks
        /\ y.h.nvs = x.h.nvs /\ y.h.processedNewViews = x.h.processedNewViews
        /\ y.h.ldrs = x.h.ldrs /\ y.h.catchup = x.h.catchup /\ y.h.votes = V
        /\ y.h.qcs = x.h.qcs /\ y.h.executed = x.h.executed /\ y.h.skipped = x.h.skipped
    BY <1>1, <2>5 DEF ContextType, HostState
  <2>7. ExecutedOK(Put(w, x).signed, y.h)
    BY <2>6, ExecutedKept
  <2>8. \A e \in y.h.votes :
            e \in x.h.votes \/ VoteOK(Put(w, x).signed, e)
    <3> SUFFICES ASSUME NEW e \in V
                 PROVE  \/ e \in x.h.votes
                        \/ VoteOK(Put(w, x).signed, e)
      BY <2>6
    <3>1. e \in x.h.votes \/ e = o
      BY DEF V
    <3> QED BY <2>4, <3>1 DEF VoteOK
  <2>9. Good(w, y)
    <3>1. /\ \A l \in Replica : y.out[l] = x.out[l]
          /\ \A e \in y.h.qcs : e \in x.h.qcs
      BY <2>5, <2>6
    <3>2. y \in ContextType /\ y.id = x.id /\ y.tc = x.tc /\ y.signed = x.signed
      BY <2>5
    <3>3. /\ y.h.view = x.h.view /\ y.h.started = x.h.started /\ y.h.blocks = x.h.blocks
          /\ y.h.nvs = x.h.nvs /\ y.h.processedNewViews = x.h.processedNewViews
          /\ y.h.ldrs = x.h.ldrs /\ (y.h.catchup => x.h.catchup)
      BY <2>6
    <3> QED BY <2>7, <2>8, <3>1, <3>2, <3>3, QuietContext
  <2>10. \A l \in Replica : Reports(Put(w, y).net, Put(w, y).host, l)
                            = Reports(Put(w, x).net, Put(w, x).host, l)
    <3> SUFFICES ASSUME NEW l \in Replica
                 PROVE  Reports(Put(w, y).net, Put(w, y).host, l)
                        = Reports(Put(w, x).net, Put(w, x).host, l)
      OBVIOUS
    <3>1. Put(w, y).net = Put(w, x).net
      BY <1>1, <2>5, PutNear
    <3>2. CASE l # x.id
      <4>1. Put(w, y).host[l] = Put(w, x).host[l]
        <5>1. w \in World /\ x \in ContextType /\ y \in ContextType /\ y.id = x.id
          BY <1>1, <2>5
        <5>2. Put(w, x).host[l] = w.host[l]
          BY <3>2, <5>1, PutParts
        <5>3. l \in Replica \ {y.id}
          BY <3>2, <5>1
        <5>4. Put(w, y).host[l] = w.host[l]
          BY <5>1, <5>3, PutParts
        <5> QED BY <5>2, <5>4
      <4> QED BY <3>1, <4>1 DEF Reports
    <3>3. CASE l = x.id
      <4>1. Put(w, y).host[l] = y.h /\ Put(w, x).host[l] = x.h
        BY <1>1, <2>5, <3>3, PutParts
      <4> QED BY <2>6, <3>1, <4>1 DEF Reports
    <3> QED BY <3>2, <3>3
  <2> QED BY <2>5, <2>6, <2>9, <2>10 DEF Goes, NoMoreReports, y
<1> QED BY <1>2, <1>3


\* The phase the leader waits in.
LEMMA PhaseStep ==
    ASSUME NEW w, NEW x, Good(w, x), ~x.h.catchup, NEW q \in Phase1
    PROVE  Goes(w, x, [x EXCEPT !.h.phase = q])
<1> DEFINE y == [x EXCEPT !.h.phase = q]
<1>1. x \in ContextType
  BY DEF Good
<1>2. /\ y \in ContextType /\ y.id = x.id /\ y.tc = x.tc /\ y.signed = x.signed
      /\ y.out = x.out /\ y.h = [x.h EXCEPT !.phase = q]
  BY <1>1 DEF ContextType, HostState
<1>3. /\ y.h.view = x.h.view /\ y.h.started = x.h.started /\ y.h.blocks = x.h.blocks
      /\ y.h.nvs = x.h.nvs /\ y.h.processedNewViews = x.h.processedNewViews
      /\ y.h.ldrs = x.h.ldrs /\ y.h.catchup = x.h.catchup /\ y.h.votes = x.h.votes
      /\ y.h.qcs = x.h.qcs /\ y.h.executed = x.h.executed /\ y.h.skipped = x.h.skipped
  BY <1>1, <1>2 DEF ContextType, HostState
<1> HIDE DEF y
<1>4. ExecutedOK(Put(w, x).signed, y.h)
  BY <1>3, ExecutedKept
<1>5. Good(w, y)
  BY <1>2, <1>3, <1>4, HostContext
<1> QED BY <1>2, <1>3, <1>5 DEF Goes, y

\* storeNvComb of a report that is in no other replica's hands.
LEMMA StoreNewViewStep ==
    ASSUME NEW w, NEW x, Good(w, x), ~x.h.catchup,
           NEW m, m.data \in RData, m.signer \in Replica,
           m.data \in Put(w, x).signed[m.signer], IsReport(m.data),
           InHand(Put(w, x), x.id, m.signer, m.data.propv)
    PROVE  Goes(w, x, StoreNewView(x, m))
<1> DEFINE y == StoreNewView(x, m)
           o == [data |-> m.data, signer |-> m.signer]
           V == x.h.nvs \cup {o}
           a == Put(w, x)
           b == Put(w, y)
           r == x.id
<1>1. x \in ContextType /\ w \in World /\ r \in Replica /\ Inv(a)
  BY ContextParts DEF Good
<1>2. CASE \E e \in x.h.nvs : e.signer = m.signer /\ e.data.propv = m.data.propv
  BY <1>2 DEF StoreNewView, Goes
<1>3. CASE ~\E e \in x.h.nvs : e.signer = m.signer /\ e.data.propv = m.data.propv
  <2>1. o \in NewView /\ x.h.nvs \in SUBSET NewView
    BY <1>1 DEF NewView, ContextType, HostState
  <2>2. V \in SUBSET NewView
    BY <2>1
  <2>3. y = [x EXCEPT !.h.nvs = V]
    BY <1>1, <1>3 DEF StoreNewView, ContextType, HostState
  <2>4. o.data = m.data /\ o.signer = m.signer
    OBVIOUS
  <2> HIDE DEF V, y, o
  <2>5. /\ y \in ContextType /\ y.id = x.id /\ y.tc = x.tc /\ y.signed = x.signed
        /\ y.out = x.out /\ y.h = [x.h EXCEPT !.nvs = V]
    BY <1>1, <2>2, <2>3 DEF ContextType, HostState
  <2>6. y.h.view = x.h.view /\ y.h.catchup = x.h.catchup /\ y.h.skipped = x.h.skipped
    BY <1>1, <2>5 DEF ContextType, HostState
  <2>7. Near(a, b, r) /\ b.net = a.net
    BY <1>1, <2>5, PutNear
  <2>8. /\ a.tc[r] = x.tc /\ a.signed[r] = x.signed /\ a.host[r] = x.h
        /\ b.tc[r] = y.tc /\ b.signed[r] = y.signed /\ b.host[r] = y.h
    <3>1. a.tc[r] = x.tc /\ a.signed[r] = x.signed /\ a.host[r] = x.h
      BY <1>1, PutParts
    <3>2. b.tc[y.id] = y.tc /\ b.signed[y.id] = y.signed /\ b.host[y.id] = y.h
      BY <1>1, <2>5, PutParts
    <3> QED BY <2>5, <3>1, <3>2
  <2>9. \A l \in Replica : \A e \in Reports(a.net, a.host, l) :
            e.signer = o.signer /\ e.data.propv = o.data.propv => l = r
    BY <2>4 DEF InHand
  <2>10. o.data \in a.signed[o.signer] /\ IsReport(o.data)
    BY <2>4
  <2> HIDE DEF a, b, r
  <2>11. b.host[r] = [a.host[r] EXCEPT !.nvs = @ \cup {o}]
    BY <2>5, <2>8 DEF V
  <2>12. Inv(b)
    BY <1>1, <2>1, <2>5, <2>7, <2>8, <2>9, <2>10, <2>11, LogReportStep
  <2> QED BY <1>1, <2>5, <2>6, <2>12 DEF Goes, Good, b, y
<1> QED BY <1>2, <1>3

-----------------------------------------------------------------------------
(* Proposing *)

\* The broadcast of a proposal.
LEMMA BroadcastProposalStep ==
    ASSUME NEW w, NEW x, Good(w, x), ~x.h.catchup,
           NEW m \in LdrPrepareMsg, LdrOK(Put(w, x).signed, m),
           \A l \in Replica :
                /\ \A o \in Incoming(Put(w, x).net, l) :
                        o.type = "ldrprepare" => o.acc.view # m.acc.view
                /\ \A o \in Put(w, x).host[l].ldrs : o.acc.view # m.acc.view
                /\ l # x.id => m.acc.view \notin DOMAIN Put(w, x).host[l].blocks
    PROVE  /\ Goes(w, x, Broadcast(x, m)) /\ Broadcast(x, m).signed = x.signed
           /\ \A l \in Replica : \A o \in Reports(Put(w, Broadcast(x, m)).net,
                                                  Put(w, Broadcast(x, m)).host, l) :
                o \in Reports(Put(w, x).net, Put(w, x).host, l)
<1> DEFINE y == Broadcast(x, m)
           f == [p \in Replica |-> IF p = x.id THEN x.out[p] ELSE Append(x.out[p], m)]
           a == Put(w, x)
           b == Put(w, y)
           r == x.id
<1>1. x \in ContextType /\ w \in World /\ r \in Replica /\ Inv(a)
  BY ContextParts DEF Good
<1>2. x.out \in [Replica -> Seq(Message)] /\ m \in Message
  BY <1>1 DEF ContextType, Message
<1>3. f \in [Replica -> Seq(Message)]
  <2>1. \A l \in Replica : Append(x.out[l], m) \in Seq(Message)
    BY <1>2, AppendProperties
  <2> QED BY <1>2, <2>1
<1>4. \A l \in Replica : f[l] = IF l = r THEN x.out[l] ELSE Append(x.out[l], m)
  OBVIOUS
<1>5. y = [x EXCEPT !.out = f]
  BY <1>1 DEF Broadcast, ContextType
<1> HIDE DEF f, y
<1>6. /\ y \in ContextType /\ y.id = x.id /\ y.tc = x.tc /\ y.signed = x.signed
      /\ y.h = x.h /\ y.out = f
  BY <1>1, <1>3, <1>5 DEF ContextType
<1>7. Near(a, b, r)
  BY <1>1, <1>6, PutNear
<1>8. /\ a.tc[r] = x.tc /\ a.signed[r] = x.signed /\ a.host[r] = x.h /\ a.net[r] = x.out
      /\ b.tc[r] = x.tc /\ b.signed[r] = x.signed /\ b.host[r] = x.h /\ b.net[r] = f
  <2>1. /\ a.tc[r] = x.tc /\ a.signed[r] = x.signed /\ a.host[r] = x.h
        /\ a.net[r] = x.out
    BY <1>1, PutParts
  <2>2. /\ b.tc[y.id] = y.tc /\ b.signed[y.id] = y.signed /\ b.host[y.id] = y.h
        /\ b.net[y.id] = y.out
    BY <1>1, <1>6, PutParts
  <2> QED BY <1>6, <2>1, <2>2
<1>9. /\ LdrOK(a.signed, m)
      /\ \A l \in Replica :
            /\ \A o \in Incoming(a.net, l) : o.type = "ldrprepare" => o.acc.view # m.acc.view
            /\ \A o \in a.host[l].ldrs : o.acc.view # m.acc.view
            /\ l # r => m.acc.view \notin DOMAIN a.host[l].blocks
  OBVIOUS
<1> HIDE DEF a, b, r
<1>10. \A l \in Replica : b.net[r][l] = IF l = r THEN a.net[r][l] ELSE Append(a.net[r][l], m)
  BY <1>4, <1>8
<1>11. b.tc[r] = a.tc[r] /\ b.signed[r] = a.signed[r] /\ b.host[r] = a.host[r]
  BY <1>8
<1>12. /\ Inv(b)
       /\ \A l \in Replica : \A o \in Reports(b.net, b.host, l) :
                o \in Reports(a.net, a.host, l)
  BY <1>1, <1>7, <1>9, <1>10, <1>11, SendProposalStep
<1> QED BY <1>1, <1>6, <1>12 DEF Goes, Good, a, b, y

\* processQC, when the leader proposes.
LEMMA ProposeStep ==
    ASSUME ~Damysus, NEW w, NEW x, Good(w, x), ~x.h.catchup,
           FixedLeaderMode => x.id = FixedLeader,
           NEW nvs, nvs \subseteq x.h.nvs, \A n \in nvs : n.data.propv = x.h.view
    PROVE  Goes(w, x, processQC(x, nvs)) /\ NoMoreReports(w, x, processQC(x, nvs))
<1> DEFINE acc   == newviews2accComb(x.id, nvs)
           block == createNewBlock(x, acc.hash)
           res   == callTEEprepareComb(x.tc, block, acc)
           z     == ProposedBy(x, block, acc)
           m     == MsgLdrPrepareComb(acc, block, nvs, res.data, x.id)
           u     == Broadcast(z, m)
           t     == StoreVote(u, PH1_PREPARE, res.data, x.id)
<1>1. Goes(w, x, x) /\ NoMoreReports(w, x, x)
  BY DEF Goes, NoMoreReports
<1>2. x.id \in Replica
  BY ContextParts DEF Good
<1>3. CASE x.h.view \in x.h.processedNewViews \/ ~CanPrepare(x.tc, block, acc, nvs)
  <2>1. processQC(x, nvs) = x
    BY <1>3 DEF processQC, Propose
  <2> QED BY <1>1, <2>1
<1>4. CASE x.h.view \notin x.h.processedNewViews /\ CanPrepare(x.tc, block, acc, nvs)
  <2>1. processQC(x, nvs) = t
    BY <1>4 DEF processQC, Propose, ProposedBy
  <2>2. /\ Good(w, z) /\ z.id = x.id /\ ~z.h.catchup /\ z.h.view = x.h.view
        /\ z.h.skipped = x.h.skipped /\ x.signed \subseteq z.signed
        /\ res.data \in RData /\ CombOK(Put(w, z).signed, res.data, {x.id}, PH1_PREPARE)
        /\ m \in LdrPrepareMsg /\ LdrOK(Put(w, z).signed, m)
        /\ \A l \in Replica :
             /\ \A o \in Incoming(Put(w, z).net, l) :
                     o.type = "ldrprepare" => o.acc.view # m.acc.view
             /\ \A o \in Put(w, z).host[l].ldrs : o.acc.view # m.acc.view
             /\ l # x.id => m.acc.view \notin DOMAIN Put(w, z).host[l].blocks
        /\ \A l \in Replica :
             Reports(Put(w, z).net, Put(w, z).host, l)
             = Reports(Put(w, x).net, Put(w, x).host, l)
    <3> HIDE DEF acc, block
    <3>1. acc = newviews2accComb(x.id, nvs)
      BY DEF acc
    <3>2. block = createNewBlock(x, acc.hash)
      BY DEF block
    <3>3. ReadyToPropose(w, x, z, res.data, m)
      BY <1>4, <3>1, <3>2, LeaderSign
    <3> HIDE DEF z, m, res
    <3> QED BY <3>3 DEF ReadyToPropose
  <2>3. Goes(w, x, z) /\ NoMoreReports(w, x, z)
    BY <2>2 DEF Goes, NoMoreReports
  <2> HIDE DEF z, m
  <2>4. Goes(w, z, u) /\ NoMoreReports(w, z, u)
    <3>1. \A l \in Replica :
            /\ \A o \in Incoming(Put(w, z).net, l) :
                    o.type = "ldrprepare" => o.acc.view # m.acc.view
            /\ \A o \in Put(w, z).host[l].ldrs : o.acc.view # m.acc.view
            /\ l # z.id => m.acc.view \notin DOMAIN Put(w, z).host[l].blocks
      BY <2>2
    <3>2. Good(w, z) /\ ~z.h.catchup /\ m \in LdrPrepareMsg /\ LdrOK(Put(w, z).signed, m)
      BY <2>2
    <3> QED BY <3>1, <3>2, BroadcastProposalStep DEF NoMoreReports
  <2> HIDE DEF u, res
  <2>5. CombOK(Put(w, u).signed, res.data, {x.id}, PH1_PREPARE)
    BY <1>2, <2>2, <2>4, GoodGrows
  <2>6. Goes(w, u, t) /\ NoMoreReports(w, u, t)
    <3>1. Good(w, u) /\ ~u.h.catchup /\ res.data \in RData /\ PH1_PREPARE \in Phase1
      BY <2>2, <2>4 DEF Goes, Phase1
    <3> QED BY <1>2, <2>5, <3>1, StoreVoteStep
  <2> HIDE DEF t
  <2> QED BY <2>1, <2>3, <2>4, <2>6 DEF Goes, NoMoreReports
<1> QED BY <1>3, <1>4

\* prepareComb of a replica that leads.
LEMMA PrepareStep ==
    ASSUME ~Damysus, NEW w, NEW x, Good(w, x), ~x.h.catchup,
           FixedLeaderMode => x.id = FixedLeader
    PROVE  Goes(w, x, prepareComb(x)) /\ NoMoreReports(w, x, prepareComb(x))
<1> DEFINE tee   == getTEENewViewComb(x, x.h.view)
           non   == getNewViewComb(x, x.h.view)
           mixed == tee \cup Lowest(non, qsize - Cardinality(tee))
<1>1. /\ tee \subseteq x.h.nvs /\ mixed \subseteq x.h.nvs
      /\ \A n \in tee : n.data.propv = x.h.view
      /\ \A n \in mixed : n.data.propv = x.h.view
  BY DEF getTEENewViewComb, getNewViewComb, Lowest
<1>2. prepareComb(x) \in {x, processQC(x, tee), processQC(x, mixed)}
  BY DEF prepareComb
<1> HIDE DEF tee, mixed
<1>3. Goes(w, x, x) /\ NoMoreReports(w, x, x)
  BY DEF Goes, NoMoreReports
<1> QED BY <1>1, <1>2, <1>3, ProposeStep

\* A new-view in the hands of its addressee: handleNewviewComb.
LEMMA NewViewHandled ==
    ASSUME ~Damysus, NEW w, NEW x, Good(w, x), ~x.h.catchup,
           NEW m, m.data \in RData, m.signer \in Replica, NewViewOK(Put(w, x).signed, m),
           IsReport(m.data) => InHand(Put(w, x), x.id, m.signer, m.data.propv)
    PROVE  Goes(w, x, handleNewviewComb(x, m))
<1> DEFINE v == m.data.propv
           y == StoreNewView(x, m)
           z == prepareComb(y)
<1>1. Goes(w, x, x)
  BY DEF Goes
<1>2. CASE ~(v >= x.h.view /\ amLeaderOf(x, v) /\ m.data.phase = PH1_NEWVIEW)
  BY <1>1, <1>2 DEF handleNewviewComb
<1>3. CASE v >= x.h.view /\ amLeaderOf(x, v) /\ m.data.phase = PH1_NEWVIEW
  <2>1. FixedLeaderMode => x.id = FixedLeader
    BY <1>3 DEF amLeaderOf, Leader, getLeaderOf
  <2>2. IsReport(m.data)
    BY <1>3 DEF IsReport, NewViewOK
  <2>3. Goes(w, x, y)
    BY <2>2, StoreNewViewStep DEF NewViewOK
  <2>4. handleNewviewComb(x, m) \in {y, AfterPrepare(z)}
    BY <1>3 DEF handleNewviewComb
  <2> HIDE DEF y
  <2>5. Goes(w, y, z)
    BY <2>1, <2>3, PrepareStep DEF Goes
  <2> HIDE DEF z
  <2>6. Goes(w, z, AfterPrepare(z))
    <3>1. Good(w, z) /\ ~z.h.catchup /\ PH1_PREPARE \in Phase1
      BY <2>5 DEF Goes, Phase1
    <3>2. Goes(w, z, z) /\ Goes(w, z, [z EXCEPT !.h.phase = PH1_PREPARE])
      BY <3>1, PhaseStep DEF Goes
    <3> QED BY <3>2 DEF AfterPrepare
  <2> QED BY <2>3, <2>4, <2>5, <2>6 DEF Goes
<1> QED BY <1>2, <1>3

-----------------------------------------------------------------------------
(* Entering the next view *)

\* From context x to one that a handler may end in, possibly in the next view.
Ends(w, x, y) ==
    \/ Goes(w, x, y)
    \/ Good(w, y) /\ y.id = x.id /\ y.h.view = x.h.view + 1

\* A new-view, a report at most once, to one replica.
LEMMA SendNewViewContext ==
    ASSUME NEW w, NEW x, Good(w, x), ~x.h.catchup, NEW p, NEW m \in NewViewMsg,
           NewViewOK(Put(w, x).signed, m),
           IsReport(m.data) => Unsent(Put(w, x), m.signer, m.data.propv)
    PROVE  Goes(w, x, SendTo(x, p, m)) /\ SendTo(x, p, m).h = x.h
<1> DEFINE y == SendTo(x, p, m)
           f == [x.out EXCEPT ![p] = Append(x.out[p], m)]
           a == Put(w, x)
           b == Put(w, y)
           r == x.id
<1>1. x \in ContextType /\ w \in World /\ r \in Replica /\ Inv(a)
  BY ContextParts DEF Good
<1>2. x.out \in [Replica -> Seq(Message)] /\ m \in Message
  BY <1>1 DEF ContextType, Message
<1>3. /\ f \in [Replica -> Seq(Message)]
      /\ \A l \in Replica : f[l] = IF l = p THEN Append(x.out[l], m) ELSE x.out[l]
  <2>1. \A l \in Replica : Append(x.out[l], m) \in Seq(Message)
    BY <1>2, AppendProperties
  <2> QED BY <1>2, <2>1
<1>4. y = [x EXCEPT !.out = f]
  BY <1>1 DEF SendTo, ContextType
<1> HIDE DEF f, y
<1>5. /\ y \in ContextType /\ y.id = x.id /\ y.tc = x.tc /\ y.signed = x.signed
      /\ y.h = x.h /\ y.out = f
  BY <1>1, <1>3, <1>4 DEF ContextType
<1>6. Near(a, b, r)
  BY <1>1, <1>5, PutNear
<1>7. /\ a.tc[r] = x.tc /\ a.signed[r] = x.signed /\ a.host[r] = x.h /\ a.net[r] = x.out
      /\ b.tc[r] = x.tc /\ b.signed[r] = x.signed /\ b.host[r] = x.h /\ b.net[r] = f
  <2>1. /\ a.tc[r] = x.tc /\ a.signed[r] = x.signed /\ a.host[r] = x.h
        /\ a.net[r] = x.out
    BY <1>1, PutParts
  <2>2. /\ b.tc[y.id] = y.tc /\ b.signed[y.id] = y.signed /\ b.host[y.id] = y.h
        /\ b.net[y.id] = y.out
    BY <1>1, <1>5, PutParts
  <2> QED BY <1>5, <2>1, <2>2
<1>8. /\ NewViewOK(a.signed, m)
      /\ IsReport(m.data) => \A l \in Replica : \A o \in Reports(a.net, a.host, l) :
            ~(o.signer = m.signer /\ o.data.propv = m.data.propv)
  BY DEF Unsent
<1> HIDE DEF a, b, r
<1>9. Sends(a, b, r, p, m)
  BY <1>3, <1>7 DEF Sends
<1>10. b.tc[r] = a.tc[r] /\ b.signed[r] = a.signed[r] /\ b.host[r] = a.host[r]
  BY <1>7
<1>11. Inv(b)
  BY <1>1, <1>6, <1>8, <1>9, <1>10, SendNewViewStep
<1> QED BY <1>1, <1>5, <1>11 DEF Goes, Good, b, y

\* The handler goes on to the stored proposal of the view, or is done with it.
LEMMA CatchupContext ==
    ASSUME NEW w, NEW x, Good(w, x), NEW s \in BOOLEAN,
           s => /\ x.h.view \notin DOMAIN x.h.blocks
                /\ \E o \in x.h.ldrs : o.acc.view = x.h.view
    PROVE  LET y == [x EXCEPT !.h.catchup = s]
           IN  /\ Good(w, y) /\ y.id = x.id /\ y.signed = x.signed /\ y.out = x.out
               /\ y.tc = x.tc /\ y.h = [x.h EXCEPT !.catchup = s]
<1> DEFINE y == [x EXCEPT !.h.catchup = s]
           a == Put(w, x)
           b == Put(w, y)
           r == x.id
<1>1. x \in ContextType /\ w \in World /\ r \in Replica /\ Inv(a)
  BY ContextParts DEF Good
<1>2. /\ y \in ContextType /\ y.id = x.id /\ y.tc = x.tc /\ y.signed = x.signed
      /\ y.out = x.out /\ y.h = [x.h EXCEPT !.catchup = s]
  BY <1>1 DEF ContextType, HostState
<1> HIDE DEF y
<1>3. Near(a, b, r) /\ b.net = a.net
  BY <1>1, <1>2, PutNear
<1>4. /\ a.tc[r] = x.tc /\ a.signed[r] = x.signed /\ a.host[r] = x.h
      /\ b.tc[r] = x.tc /\ b.signed[r] = x.signed /\ b.host[r] = y.h
  <2>1. a.tc[r] = x.tc /\ a.signed[r] = x.signed /\ a.host[r] = x.h
    BY <1>1, PutParts
  <2>2. b.tc[y.id] = y.tc /\ b.signed[y.id] = y.signed /\ b.host[y.id] = y.h
    BY <1>1, <1>2, PutParts
  <2> QED BY <1>2, <2>1, <2>2
<1> HIDE DEF a, b, r
<1>5. /\ b.host[r] = [a.host[r] EXCEPT !.catchup = s]
      /\ s => /\ a.host[r].view \notin DOMAIN a.host[r].blocks
              /\ \E o \in a.host[r].ldrs : o.acc.view = a.host[r].view
  BY <1>2, <1>4
<1>6. b.tc[r] = a.tc[r] /\ b.signed[r] = a.signed[r]
  BY <1>4
<1>7. Inv(b)
  BY <1>1, <1>3, <1>5, <1>6, CatchupStep
<1> QED BY <1>1, <1>2, <1>7 DEF Good, b, y

\* startNewViewComb.
LEMMA NewViewStarted ==
    ASSUME ~Damysus, NEW w, NEW x, Good(w, x), ~x.h.catchup,
           ~(x.tc.view = 1 /\ x.tc.phase = PH1_NEWVIEW)
    PROVE  LET y == startNewViewComb(x)
           IN  Good(w, y) /\ y.id = x.id /\ y.h.view = x.h.view + 1
<1> DEFINE last    == callTEEsignComb(LoopEnd(x))
           y       == [x EXCEPT !.tc = last.tc, !.signed = @ \cup LoopStatements(x),
                                !.h.view = @ + 1]
           m       == MsgNewViewComb(last.data, x.id)
           earlier == IF EnoughNewViews(y, y.h.view) THEN prepareComb(y) ELSE y
           stored  == LdrPrepares(y, y.h.view) # {}
           sent    == SendTo(y, CurrentLeader(y), m)
           wait    == [sent EXCEPT !.h.catchup = stored]
<1>1. x \in ContextType /\ x.id \in Replica /\ x.h \in HostState
  BY ContextParts DEF Good
<1>2. /\ Good(w, y) /\ y.id = x.id /\ y.h = [x.h EXCEPT !.view = @ + 1]
      /\ last.data \in y.signed /\ last.data \in RData /\ ~Names(last.data)
      /\ IsReport(last.data) => Unsent(Put(w, y), x.id, last.data.propv)
      /\ y.h.view \notin DOMAIN y.h.blocks
  BY LoopSign
<1>3. /\ startNewViewComb(x) \in {y, handleNewviewComb(earlier, m), wait}
      /\ \/ startNewViewComb(x) \in {y, wait}
         \/ amLeaderOf(y, y.h.view)
  BY DEF startNewViewComb
<1>4. m \in NewViewMsg /\ m.data = last.data /\ m.signer = x.id
  BY <1>1, <1>2 DEF MsgNewViewComb, NewViewMsg
<1> HIDE DEF y, m, last
<1>5. y.h.view = x.h.view + 1 /\ ~y.h.catchup /\ Goes(w, y, y)
  BY <1>1, <1>2 DEF HostState, Goes
<1>6. y \in ContextType /\ w \in World
  BY <1>2 DEF Good
<1>7. ASSUME amLeaderOf(y, y.h.view)
      PROVE  Goes(w, y, handleNewviewComb(earlier, m))
  <2>1. FixedLeaderMode => y.id = FixedLeader
    BY <1>7 DEF amLeaderOf, Leader, getLeaderOf
  <2>2. Goes(w, y, earlier) /\ NoMoreReports(w, y, earlier)
    <3>1. NoMoreReports(w, y, y)
      BY DEF NoMoreReports
    <3> QED BY <1>2, <1>5, <2>1, <3>1, PrepareStep
  <2> HIDE DEF earlier
  <2>3. earlier \in ContextType /\ earlier.id = x.id /\ y.signed \subseteq earlier.signed
    BY <1>2, <2>2 DEF Goes, Good
  <2>4. Put(w, earlier).signed[x.id] = earlier.signed
    BY <1>6, <2>3, PutParts
  <2>5. NewViewOK(Put(w, earlier).signed, m)
    BY <1>2, <1>4, <2>3, <2>4 DEF NewViewOK
  <2>6. IsReport(m.data) => InHand(Put(w, earlier), earlier.id, m.signer, m.data.propv)
    <3>1. IsReport(m.data) => Unsent(Put(w, y), m.signer, m.data.propv)
      BY <1>2, <1>4
    <3> QED BY <2>2, <3>1 DEF NoMoreReports, Unsent, InHand
  <2>7. Goes(w, earlier, handleNewviewComb(earlier, m))
    <3>1. Good(w, earlier) /\ ~earlier.h.catchup /\ m.data \in RData /\ m.signer \in Replica
      BY <1>1, <1>2, <1>4, <2>2 DEF Goes
    <3> QED BY <2>5, <2>6, <3>1, NewViewHandled
  <2> QED BY <2>2, <2>7 DEF Goes
<1>8. Good(w, wait) /\ wait.id = x.id /\ wait.h.view = y.h.view
  <2>1. Put(w, y).signed[x.id] = y.signed
    BY <1>2, <1>6, PutParts
  <2>2. NewViewOK(Put(w, y).signed, m)
    BY <1>2, <1>4, <2>1 DEF NewViewOK
  <2>3. IsReport(m.data) => Unsent(Put(w, y), m.signer, m.data.propv)
    BY <1>2, <1>4
  <2>4. Goes(w, y, sent) /\ sent.h = y.h
    <3>1. Good(w, y) /\ ~y.h.catchup /\ m \in NewViewMsg
      BY <1>2, <1>4, <1>5
    <3> QED BY <2>2, <2>3, <3>1, SendNewViewContext
  <2> HIDE DEF sent
  <2>5. stored => /\ sent.h.view \notin DOMAIN sent.h.blocks
                  /\ \E o \in sent.h.ldrs : o.acc.view = sent.h.view
    BY <1>2, <2>4 DEF LdrPrepares
  <2>6. Good(w, sent) /\ stored \in BOOLEAN /\ sent.id = x.id
    BY <1>2, <2>4 DEF Goes
  <2> HIDE DEF stored
  <2>7. Good(w, wait) /\ wait.id = sent.id /\ wait.h = [sent.h EXCEPT !.catchup = stored]
    BY <2>5, <2>6, CatchupContext
  <2>8. sent.h \in HostState
    BY <2>6, ContextParts DEF Good
  <2> HIDE DEF wait
  <2> QED BY <2>4, <2>6, <2>7, <2>8 DEF HostState
<1> QED BY <1>2, <1>3, <1>5, <1>7, <1>8 DEF Goes

\* getStarted.
LEMMA StartedStep ==
    ASSUME ~Damysus, NEW w, NEW x, Good(w, x), ~x.h.catchup, ~x.h.started
    PROVE  Good(w, getStarted(x)) /\ getStarted(x).id = x.id
<1> DEFINE res == callTEEsignComb(x.tc)
           y   == Signed([x EXCEPT !.h.started = TRUE], res)
           m   == MsgNewViewComb(res.data, x.id)
<1>1. x \in ContextType /\ x.id \in Replica /\ x.h \in HostState
  BY ContextParts DEF Good
<1>2. /\ Good(w, y) /\ y.id = x.id /\ y.h = [x.h EXCEPT !.started = TRUE]
      /\ res.data \in y.signed /\ res.data \in RData /\ ~Names(res.data)
      /\ IsReport(res.data) => Unsent(Put(w, y), x.id, res.data.propv)
  BY StartSign
<1>3. getStarted(x) \in {handleNewviewComb(y, m), SendTo(y, CurrentLeader(y), m)}
  BY DEF getStarted
<1>4. m \in NewViewMsg /\ m.data = res.data /\ m.signer = x.id
  BY <1>1, <1>2 DEF MsgNewViewComb, NewViewMsg
<1> HIDE DEF y, m, res
<1>5. ~y.h.catchup
  BY <1>1, <1>2 DEF HostState
<1>6. y \in ContextType /\ w \in World
  BY <1>2 DEF Good
<1>7. Put(w, y).signed[x.id] = y.signed
  BY <1>2, <1>6, PutParts
<1>8. NewViewOK(Put(w, y).signed, m)
  BY <1>2, <1>4, <1>7 DEF NewViewOK
<1>9. IsReport(m.data) => Unsent(Put(w, y), m.signer, m.data.propv)
  BY <1>2, <1>4
<1>10. IsReport(m.data) => InHand(Put(w, y), y.id, m.signer, m.data.propv)
  BY <1>9 DEF Unsent, InHand
<1>11. Good(w, y) /\ ~y.h.catchup /\ m.data \in RData /\ m.signer \in Replica
  BY <1>1, <1>2, <1>4, <1>5
<1>12. Goes(w, y, handleNewviewComb(y, m))
  BY <1>8, <1>10, <1>11, NewViewHandled
<1>13. Goes(w, y, SendTo(y, CurrentLeader(y), m))
  BY <1>4, <1>8, <1>9, <1>11, SendNewViewContext
<1>14. y.id = x.id
  BY <1>2
<1> QED BY <1>3, <1>12, <1>13, <1>14 DEF Goes

\* The skip set never covers everybody.
LEMMA BlameType ==
    ASSUME NEW skip \in SkipSet, NEW v \in View
    PROVE  Blame(skip, v) \in SkipSet
<1>1. total \in Nat \ {0}
  BY ReplicaNat
<1>2. v % total \in Replica
  <2> HIDE DEF total
  <2> QED BY <1>1 DEF Replica, View
<1>3. Replica # {}
  BY <1>2
<1> QED BY <1>2, <1>3 DEF Blame, SkipSet

\* startNewViewOnTimeout, in a view after the first.
LEMMA TimeoutStep ==
    ASSUME ~Damysus, NEW w, NEW x, Good(w, x), ~x.h.catchup, x.h.view > 1
    PROVE  Good(w, startNewViewOnTimeout(x)) /\ startNewViewOnTimeout(x).id = x.id
<1> DEFINE skip == Blame(x.h.skipped, x.h.view)
           y    == [x EXCEPT !.h.skipped = skip]
<1>1. x \in ContextType /\ x.id \in Replica /\ x.h \in HostState /\ w \in World
  BY ContextParts DEF Good
<1>2. skip \in SkipSet
  BY <1>1, BlameType DEF HostState
<1>3. startNewViewOnTimeout(x) = startNewViewComb(y)
  BY <1>1 DEF startNewViewOnTimeout, ContextType, HostState
<1> HIDE DEF skip
<1>4. /\ y \in ContextType /\ y.id = x.id /\ y.tc = x.tc /\ y.signed = x.signed
      /\ y.out = x.out /\ y.h = [x.h EXCEPT !.skipped = skip]
  BY <1>1, <1>2 DEF ContextType, HostState
<1>5. /\ y.h.view = x.h.view /\ y.h.started = x.h.started /\ y.h.blocks = x.h.blocks
      /\ y.h.nvs = x.h.nvs /\ y.h.processedNewViews = x.h.processedNewViews
      /\ y.h.ldrs = x.h.ldrs /\ y.h.catchup = x.h.catchup /\ y.h.votes = x.h.votes
      /\ y.h.qcs = x.h.qcs /\ y.h.executed = x.h.executed
  BY <1>1, <1>4 DEF ContextType, HostState
<1> HIDE DEF y
<1>6. ExecutedOK(Put(w, x).signed, y.h)
  BY <1>5, ExecutedKept
<1>7. Good(w, y)
  BY <1>4, <1>5, <1>6, HostContext
<1>8. ~(y.tc.view = 1 /\ y.tc.phase = PH1_NEWVIEW)
  <2>1. StepOK(Put(w, x).tc[x.id], Put(w, x).signed[x.id], Put(w, x).host[x.id])
    BY <1>1 DEF Good, Inv
  <2>2. StepOK(x.tc, x.signed, x.h)
    BY <1>1, <2>1, PutParts
  <2> QED BY <1>1, <1>4, <2>2 DEF StepOK, HostState, View
<1>9. Good(w, startNewViewComb(y)) /\ startNewViewComb(y).id = y.id
  BY <1>5, <1>7, <1>8, NewViewStarted
<1> QED BY <1>3, <1>4, <1>9

-----------------------------------------------------------------------------
(* Executing *)

\* Block h may be applied: a quorum holds the statements that commit it.
Decided(S, h) ==
    Uniform => \E p \in Replica : \E d \in S[p] : d.proph = h /\ Decides(S, d)

\* executeComb.
LEMMA ExecuteStep ==
    ASSUME ~Damysus, NEW w, NEW x, Good(w, x), ~x.h.catchup,
           NEW data \in RData, data.propv = x.h.view, Decided(Put(w, x).signed, data.proph)
    PROVE  Ends(w, x, executeComb(x, data))
<1> DEFINE g == data.proph
           v == x.h.view
           C == x.h.processedCommit \cup {v}
           E == Append(x.h.executed, g)
           y == [x EXCEPT !.h.processedCommit = C, !.h.executed = E]
           z == [y EXCEPT !.h.stopped = TRUE]
<1>1. x \in ContextType /\ x.id \in Replica /\ x.h \in HostState /\ w \in World
  BY ContextParts DEF Good
<1>2. CASE \/ v \in x.h.processedCommit \/ v \notin DOMAIN x.h.blocks
           \/ x.h.blocks[v] # g
  <2>1. executeComb(x, data) = x
    BY <1>2 DEF executeComb
  <2> QED BY <2>1 DEF Ends, Goes
<1>3. CASE v \notin x.h.processedCommit /\ v \in DOMAIN x.h.blocks /\ x.h.blocks[v] = g
  <2>1. replyHash([x EXCEPT !.h.processedCommit = @ \cup {data.propv}], g) = y
    BY <1>1, <1>3 DEF replyHash, ContextType, HostState
  <2>2. executeComb(x, data) \in {z, startNewViewComb(y)}
    BY <1>3, <2>1 DEF executeComb
  <2>3. /\ v \in View /\ g \in Hash /\ x.h.executed \in Seq(Hash)
        /\ x.h.processedCommit \in SUBSET View
    BY <1>1 DEF HostState, RData
  <2>4. C \in SUBSET View /\ E \in Seq(Hash)
    BY <2>3, AppendProperties
  <2>5. \A i \in DOMAIN E :
            E[i] = g \/ (i \in DOMAIN x.h.executed /\ E[i] = x.h.executed[i])
    BY <2>3, AppendProperties
  <2> HIDE DEF C, E
  <2>6. /\ y \in ContextType /\ y.id = x.id /\ y.tc = x.tc /\ y.signed = x.signed
        /\ y.out = x.out /\ y.h = [x.h EXCEPT !.processedCommit = C, !.executed = E]
    BY <1>1, <2>4 DEF ContextType, HostState
  <2>7. /\ y.h.view = x.h.view /\ y.h.started = x.h.started /\ y.h.blocks = x.h.blocks
        /\ y.h.nvs = x.h.nvs /\ y.h.processedNewViews = x.h.processedNewViews
        /\ y.h.ldrs = x.h.ldrs /\ y.h.catchup = x.h.catchup /\ y.h.votes = x.h.votes
        /\ y.h.qcs = x.h.qcs /\ y.h.executed = E /\ y.h.skipped = x.h.skipped
    <3>1. x.h \in HostState /\ y.h = [x.h EXCEPT !.processedCommit = C, !.executed = E]
      BY <1>1, <2>6
    <3> HIDE DEF y
    <3> QED BY <3>1 DEF HostState
  <2>8. z \in ContextType /\ z.id = y.id /\ z.tc = y.tc /\ z.signed = y.signed
        /\ z.out = y.out /\ z.h = [y.h EXCEPT !.stopped = TRUE]
    <3> HIDE DEF y
    <3> QED BY <2>6 DEF ContextType, HostState
  <2> HIDE DEF y, z
  <2>9. /\ z.h.view = y.h.view /\ z.h.started = y.h.started /\ z.h.blocks = y.h.blocks
        /\ z.h.nvs = y.h.nvs /\ z.h.processedNewViews = y.h.processedNewViews
        /\ z.h.ldrs = y.h.ldrs /\ z.h.catchup = y.h.catchup /\ z.h.votes = y.h.votes
        /\ z.h.qcs = y.h.qcs /\ z.h.executed = y.h.executed /\ z.h.skipped = y.h.skipped
    <3>1. y.h \in HostState
      BY <2>6 DEF ContextType
    <3> QED BY <2>8, <3>1 DEF HostState
  <2>10. ExecutedOK(Put(w, x).signed, y.h)
    <3>1. ExecutedOK(Put(w, x).signed, x.h)
      BY ExecutedKept
    <3> QED BY <2>5, <2>7, <3>1 DEF ExecutedOK, Decided
  <2>11. Good(w, y)
    <3>1. /\ y \in ContextType /\ y.id = x.id /\ y.tc = x.tc /\ y.signed = x.signed
          /\ y.out = x.out
      BY <2>6
    <3>2. y.h.qcs \subseteq x.h.qcs
      BY <2>7
    <3>3. /\ y.h.view = x.h.view /\ y.h.started = x.h.started /\ y.h.blocks = x.h.blocks
          /\ y.h.nvs = x.h.nvs /\ y.h.processedNewViews = x.h.processedNewViews
          /\ y.h.ldrs = x.h.ldrs /\ y.h.catchup = x.h.catchup /\ y.h.votes = x.h.votes
      BY <2>7
    <3> HIDE DEF g, v
    <3> QED BY <2>10, <3>1, <3>2, <3>3, HostContext
  <2>12. Good(w, z)
    <3>1. ExecutedOK(Put(w, y).signed, z.h)
      BY <2>9, <2>11, ExecutedKept
    <3> QED BY <2>8, <2>9, <2>11, <3>1, HostContext
  <2>13. Goes(w, x, z)
    BY <2>6, <2>7, <2>8, <2>9, <2>12 DEF Goes
  <2>14. ~(y.tc.view = 1 /\ y.tc.phase = PH1_NEWVIEW)
    <3>1. /\ BlocksOK(Put(w, x).signed[x.id], Put(w, x).host[x.id])
          /\ ComponentOK(Put(w, x).tc[x.id], Put(w, x).signed[x.id])
      BY <1>1 DEF Good, Inv
    <3>2. BlocksOK(x.signed, x.h) /\ ComponentOK(x.tc, x.signed)
      BY <1>1, <3>1, PutParts
    <3>3. PICK d \in x.signed : d.propv = v
      BY <1>3, <3>2 DEF BlocksOK, NamedBy
    <3>4. /\ d.propv >= 1 /\ Counter(d.propv, d.phase) < Counter(x.tc.view, x.tc.phase)
      BY <3>2 DEF ComponentOK
    <3>5. d.propv \in View /\ d.phase \in Phase1 /\ x.tc.view \in View /\ x.tc.phase \in Phase1
      BY <1>1, ContextParts DEF RData, TrustedState
    <3>6. x.tc.phase = PH1_NEWVIEW => d.propv < x.tc.view
      BY <3>4, <3>5, CounterOrder
    <3> QED BY <2>6, <3>4, <3>5, <3>6 DEF View
  <2>15. LET u == startNewViewComb(y)
         IN  Good(w, u) /\ u.id = y.id /\ u.h.view = y.h.view + 1
    BY <2>7, <2>11, <2>14, NewViewStarted
  <2>16. Ends(w, x, startNewViewComb(y))
    BY <2>6, <2>7, <2>15 DEF Ends
  <2> QED BY <2>2, <2>13, <2>16 DEF Ends
<1> QED BY <1>2, <1>3
=============================================================================
