---------------------------- MODULE ServiceProofs ----------------------------
(***************************************************************************)
(* Clients, replies, the executor and the timer, for any number of clients,*)
(* replicas, transactions and blocks.                                      *)
(*                                                                         *)
(* The argument: what the executor is after a block depends on what it was *)
(* before and on the block only, and it never takes an answer back.  So    *)
(* there is one history of executors along the chain (History), and a      *)
(* replica that has missed nothing is somewhere on it.  Everything on the  *)
(* connections, in pools, blocks and queues is about a transaction that    *)
(* its client has sent (Known, Traffic), so that a reply is counted where  *)
(* there is a counter.                                                     *)
(*                                                                         *)
(* There is one transaction for each client and number, and its payload    *)
(* names them (Booked).  So a transaction finds its key in the cache of a  *)
(* replica exactly when it is in the log of that replica already, and the  *)
(* store is the replay of the log without repetitions (Replayed).  The     *)
(* copy sent to a replica is in one of four places (Placed): every step    *)
(* that takes it out of one puts it into the next.                         *)
(*                                                                         *)
(* Facts about the loop over a block are proved from its least             *)
(* counterexample.                                                         *)
(***************************************************************************)
EXTENDS KVService, FiniteSetTheorems, NaturalsInduction, WellFoundedInduction, TLAPS

\* A nonempty set of naturals has a least element.
LEMMA LeastNumber ==
    ASSUME NEW M, M \subseteq Nat, M # {}
    PROVE  \E n \in M : \A k \in M : n <= k
<1>1. PICK n \in M : \A k \in M : ~(<<k, n>> \in OpToRel(<, Nat))
  BY WFMin, NatLessThanWellFounded, Zenon
<1>2. \A k \in M : ~(k < n)
  BY <1>1 DEF OpToRel
<1> QED BY <1>2

-----------------------------------------------------------------------------
(* The loop of replyTransactions *)

\* f lists what a replica in state x is after each transaction of the block, up to the n-th.
Run(f, x, block, n) ==
    f = [k \in 0 .. n |-> IF k = 0 THEN x ELSE ExecuteTransaction(f[k - 1], block[k])]

\* There is such a list, however long the block is.
LEMMA RunExists ==
    ASSUME NEW x, NEW block, NEW n \in Nat
    PROVE  \E f : Run(f, x, block, n)
<1> DEFINE Bad == {m \in 0 .. n : ~\E f : Run(f, x, block, m)}
<1> SUFFICES ASSUME Bad # {} PROVE FALSE
  OBVIOUS
<1>1. PICK m \in Bad : \A k \in Bad : m <= k
  <2>1. Bad \subseteq Nat
    OBVIOUS
  <2> QED BY <2>1, LeastNumber
<1>2. CASE m = 0
  <2>1. Run([k \in 0 .. 0 |-> x], x, block, 0)
    <3>1. 0 .. 0 = {0}
      OBVIOUS
    <3> QED BY <3>1 DEF Run
  <2> QED BY <1>2, <2>1
<1>3. CASE m # 0
  <2>1. m - 1 \in 0 .. n /\ m \in Nat /\ ~(m <= m - 1)
    BY <1>3
  <2>2. PICK f : Run(f, x, block, m - 1)
    BY <1>1, <2>1
  <2> DEFINE g == [k \in 0 .. m |-> IF k = m THEN ExecuteTransaction(f[m - 1], block[m]) ELSE f[k]]
  <2>3. ASSUME NEW k \in 0 .. m
        PROVE  g[k] = IF k = 0 THEN x ELSE ExecuteTransaction(g[k - 1], block[k])
    <3>1. CASE k = m
      <4>1. g[m - 1] = f[m - 1] /\ g[m] = ExecuteTransaction(f[m - 1], block[m])
        BY <2>1
      <4> QED BY <1>3, <3>1, <4>1
    <3>2. CASE k # m
      <4>1. k \in 0 .. (m - 1) /\ g[k] = f[k] /\ (k # 0 => k - 1 \in 0 .. (m - 1) /\ g[k - 1] = f[k - 1])
        BY <2>1, <3>2
      <4>2. f[k] = IF k = 0 THEN x ELSE ExecuteTransaction(f[k - 1], block[k])
        BY <2>2, <4>1 DEF Run
      <4> QED BY <4>1, <4>2
    <3> QED BY <3>1, <3>2
  <2>4. Run(g, x, block, m)
    BY <2>3 DEF Run
  <2> QED BY <2>4
<1> QED BY <1>2, <1>3

\* replyTransactions is the last of the list.
LEMMA ReplyIsRun ==
    ASSUME NEW x, NEW block, Len(block) \in Nat
    PROVE  \E f : /\ Run(f, x, block, Len(block))
                  /\ replyTransactions(x, block) = f[Len(block)]
<1> DEFINE after == CHOOSE f : Run(f, x, block, Len(block))
<1>1. Run(after, x, block, Len(block))
  BY RunExists
<1>2. replyTransactions(x, block) = after[Len(block)]
  BY DEF replyTransactions, Run
<1> QED BY <1>1, <1>2

\* The start and the steps of a run.
LEMMA RunSteps ==
    ASSUME NEW f, NEW x, NEW block, NEW n \in Nat, Run(f, x, block, n)
    PROVE  /\ f[0] = x
           /\ \A k \in 1 .. n : f[k] = ExecuteTransaction(f[k - 1], block[k])
<1>1. \A k \in 0 .. n : f[k] = IF k = 0 THEN x ELSE ExecuteTransaction(f[k - 1], block[k])
  BY DEF Run
<1> QED BY <1>1

-----------------------------------------------------------------------------
(* One transaction *)

\* The fields of a replica's state.
Fields == {"clients", "pool", "queue", "applied", "timeout", "kv"}

\* Executor k has every answer that executor j has.
Answers(j, k) ==
    /\ DOMAIN j.cache \subseteq DOMAIN k.cache
    /\ \A d \in DOMAIN j.cache : k.cache[d] = j.cache[d]

\* The executor after a transaction, whatever else the replica knows,
KVAfter(kv, trans) == IF CanDecode(trans.payload) THEN execute(kv, trans.payload) ELSE kv

\* and the reply it sends.
ReplyTo(x, trans) ==
    MsgReply(trans.cid, trans.tid,
             IF CanDecode(trans.payload)
             THEN KVAfter(x.kv, trans).cache[dedupKey(trans.payload)] ELSE ErrorReply)

\* A request that is new adds its answer to the cache, and one that is not changes nothing.
LEMMA AnswersKept ==
    ASSUME NEW kv, NEW trans
    PROVE  Answers(kv, KVAfter(kv, trans))
BY DEF Answers, KVAfter, execute, WithEntry

\* What y has in common with x after some transactions.
Unmoved(x, y) ==
    /\ DOMAIN y = Fields
    /\ y.clients = x.clients /\ y.pool = x.pool /\ y.applied = x.applied /\ y.timeout = x.timeout

\* A transaction changes the executor and the queue only.
LEMMA ExecuteTransactionFacts ==
    ASSUME NEW x, DOMAIN x = Fields, NEW trans, NEW z, z = ExecuteTransaction(x, trans)
    PROVE  /\ Unmoved(x, z)
           /\ z.kv = KVAfter(x.kv, trans)
           /\ z.queue = x.queue \/ z.queue = Append(x.queue, ReplyTo(x, trans))
<1> DEFINE q == IF trans.cid \in x.clients THEN Append(x.queue, ReplyTo(x, trans)) ELSE x.queue
           k == KVAfter(x.kv, trans)
<1>1. ExecuteTransaction(x, trans) = [x EXCEPT !.kv = k, !.queue = q]
  BY DEF ExecuteTransaction, KVAfter, ReplyTo
<1> HIDE DEF q, k
<1> DEFINE y == [x EXCEPT !.kv = k, !.queue = q]
<1>2. /\ DOMAIN y = Fields /\ y.clients = x.clients /\ y.pool = x.pool
      /\ y.applied = x.applied /\ y.timeout = x.timeout
  BY DEF Fields
<1>3. y.kv = k /\ y.queue = q
  BY DEF Fields
<1> HIDE DEF y
<1>4. q = x.queue \/ q = Append(x.queue, ReplyTo(x, trans))
  BY DEF q
<1> QED BY <1>1, <1>2, <1>3, <1>4 DEF y, k, Unmoved

-----------------------------------------------------------------------------
(* A block *)

\* The replies of a run.
RepliesOf(f, block, n) == {ReplyTo(f[k - 1], block[k]) : k \in 1 .. n}

\* Sequences stay within their set.
LEMMA AppendSeq == \A S : \A s \in Seq(S) : \A e \in S : Append(s, e) \in Seq(S)
OBVIOUS

\* A block changes the executor and the queue only, and takes no answer back.
LEMMA RunFacts ==
    ASSUME NEW f, NEW x, NEW block, NEW n \in Nat, Run(f, x, block, n), DOMAIN x = Fields,
           NEW S, x.queue \in Seq(S)
    PROVE  /\ Unmoved(x, f[n]) /\ Answers(x.kv, f[n].kv)
           /\ f[n].queue \in Seq(S \cup RepliesOf(f, block, n))
<1> DEFINE Good(k) == /\ Unmoved(x, f[k]) /\ Answers(x.kv, f[k].kv)
                      /\ f[k].queue \in Seq(S \cup RepliesOf(f, block, n))
           Bad == {k \in 0 .. n : ~Good(k)}
<1> SUFFICES ASSUME Bad # {} PROVE FALSE
  BY DEF Unmoved
<1>1. PICK m \in Bad : \A k \in Bad : m <= k
  <2>1. Bad \subseteq Nat
    OBVIOUS
  <2> HIDE DEF Bad
  <2> QED BY <2>1, LeastNumber
<1>2. m \in 0 .. n /\ ~Good(m) /\ (m # 0 => m - 1 \in 0 .. n /\ m \in 1 .. n /\ Good(m - 1))
  <2>1. m \in 0 .. n /\ ~Good(m)
    OBVIOUS
  <2>2. m # 0 => m - 1 \in 0 .. n /\ m \in 1 .. n /\ ~(m <= m - 1)
    BY <2>1
  <2> HIDE DEF Good
  <2> QED BY <1>1, <2>1, <2>2
<1>3. CASE m = 0
  <2>1. f[0] = x
    BY RunSteps
  <2>2. Unmoved(x, x) /\ Answers(x.kv, x.kv)
    BY DEF Unmoved, Answers
  <2>3. x.queue \in Seq(S \cup RepliesOf(f, block, n))
    OBVIOUS
  <2> QED BY <1>2, <1>3, <2>1, <2>2, <2>3
<1>4. CASE m # 0
  <2>1. f[m] = ExecuteTransaction(f[m - 1], block[m])
    BY <1>2, <1>4, RunSteps
  <2>2. DOMAIN f[m - 1] = Fields
    BY <1>2, <1>4 DEF Unmoved
  <2>3. /\ Unmoved(f[m - 1], f[m])
        /\ f[m].kv = KVAfter(f[m - 1].kv, block[m])
        /\ \/ f[m].queue = f[m - 1].queue
           \/ f[m].queue = Append(f[m - 1].queue, ReplyTo(f[m - 1], block[m]))
    <3> HIDE DEF Bad, Good
    <3> QED BY <2>1, <2>2, ExecuteTransactionFacts
  <2>4. ReplyTo(f[m - 1], block[m]) \in S \cup RepliesOf(f, block, n)
    <3>1. m \in 1 .. n
      BY <1>2, <1>4
    <3> HIDE DEF Bad, Good
    <3> QED BY <3>1 DEF RepliesOf
  <2>5. f[m].queue \in Seq(S \cup RepliesOf(f, block, n))
    <3>1. f[m - 1].queue \in Seq(S \cup RepliesOf(f, block, n))
      BY <1>2, <1>4
    <3> HIDE DEF Bad, Good
    <3> QED BY <2>3, <2>4, <3>1, AppendSeq
  <2>6. Unmoved(x, f[m])
    BY <1>2, <1>4, <2>3 DEF Unmoved
  <2>7. Answers(x.kv, f[m].kv)
    <3>1. Answers(f[m - 1].kv, f[m].kv)
      BY <2>3, AnswersKept
    <3> QED BY <1>2, <1>4, <3>1 DEF Answers
  <2> QED BY <1>2, <2>5, <2>6, <2>7
<1> QED BY <1>3, <1>4

\* The executor after a block depends on the executor before it only.
LEMMA RunsAgree ==
    ASSUME NEW block, NEW n \in Nat,
           NEW f, NEW x, Run(f, x, block, n), DOMAIN x = Fields,
           NEW g, NEW y, Run(g, y, block, n), DOMAIN y = Fields, x.kv = y.kv
    PROVE  f[n].kv = g[n].kv
<1> DEFINE Good(k) == DOMAIN f[k] = Fields /\ DOMAIN g[k] = Fields /\ f[k].kv = g[k].kv
           Bad == {k \in 0 .. n : ~Good(k)}
<1> SUFFICES ASSUME Bad # {} PROVE FALSE
  OBVIOUS
<1>1. PICK m \in Bad : \A k \in Bad : m <= k
  <2>1. Bad \subseteq Nat
    OBVIOUS
  <2> HIDE DEF Bad
  <2> QED BY <2>1, LeastNumber
<1>2. m \in 0 .. n /\ ~Good(m) /\ (m # 0 => m \in 1 .. n /\ Good(m - 1))
  <2>1. m \in 0 .. n /\ ~Good(m)
    OBVIOUS
  <2>2. m # 0 => m - 1 \in 0 .. n /\ m \in 1 .. n /\ ~(m <= m - 1)
    BY <2>1
  <2> HIDE DEF Good
  <2> QED BY <1>1, <2>1, <2>2
<1>3. CASE m = 0
  BY <1>2, <1>3, RunSteps
<1>4. CASE m # 0
  <2>1. /\ f[m] = ExecuteTransaction(f[m - 1], block[m])
        /\ g[m] = ExecuteTransaction(g[m - 1], block[m])
    BY <1>2, <1>4, RunSteps
  <2>2. /\ DOMAIN f[m] = Fields /\ f[m].kv = KVAfter(f[m - 1].kv, block[m])
        /\ DOMAIN g[m] = Fields /\ g[m].kv = KVAfter(g[m - 1].kv, block[m])
    BY <1>2, <1>4, <2>1, ExecuteTransactionFacts DEF Unmoved
  <2> QED BY <1>2, <1>4, <2>2
<1> QED BY <1>3, <1>4

\* The queue holds members of S and replies to transactions of the block.
Queued(queue, S, block) ==
    \E R : /\ queue \in Seq(S \cup R)
           /\ \A m \in R : \E k \in 1 .. Len(block) :
                 m.cid = block[k].cid /\ m.tid = block[k].tid

\* What a replica is after a block, and what it has queued.
LEMMA BlockFacts ==
    ASSUME NEW x, DOMAIN x = Fields, NEW block, Len(block) \in Nat, NEW S, x.queue \in Seq(S),
           NEW y, y = replyTransactions(x, block)
    PROVE  /\ Unmoved(x, y) /\ Answers(x.kv, y.kv)
           /\ Queued(y.queue, S, block)
<1>1. PICK f : Run(f, x, block, Len(block)) /\ y = f[Len(block)]
  BY ReplyIsRun
<1>2. /\ Unmoved(x, y) /\ Answers(x.kv, y.kv)
      /\ y.queue \in Seq(S \cup RepliesOf(f, block, Len(block)))
  BY <1>1, RunFacts
<1>3. \A z, t : ReplyTo(z, t).cid = t.cid /\ ReplyTo(z, t).tid = t.tid
  BY DEF ReplyTo, MsgReply
<1>4. \A m \in RepliesOf(f, block, Len(block)) : \E k \in 1 .. Len(block) :
          m.cid = block[k].cid /\ m.tid = block[k].tid
  BY <1>3 DEF RepliesOf
<1> QED BY <1>2, <1>4 DEF Queued

\* An executor, and what a block makes of it.
Bare(kv) == [clients |-> {}, pool |-> <<>>, queue |-> <<>>, applied |-> 0, timeout |-> 1, kv |-> kv]
KVBlock(kv, block) == replyTransactions(Bare(kv), block).kv

\* What a block makes of the executor does not depend on the replica, and no answer is lost.
LEMMA BlockKV ==
    ASSUME NEW block, Len(block) \in Nat
    PROVE  /\ \A x : DOMAIN x = Fields => replyTransactions(x, block).kv = KVBlock(x.kv, block)
           /\ \A kv : Answers(kv, KVBlock(kv, block))
<1>1. \A kv : DOMAIN Bare(kv) = Fields /\ Bare(kv).kv = kv /\ Bare(kv).queue = <<>>
  BY DEF Bare, Fields
<1>2. ASSUME NEW x, DOMAIN x = Fields
      PROVE  replyTransactions(x, block).kv = KVBlock(x.kv, block)
  <2>1. PICK f : Run(f, x, block, Len(block)) /\ replyTransactions(x, block) = f[Len(block)]
    BY ReplyIsRun
  <2>2. PICK g : /\ Run(g, Bare(x.kv), block, Len(block))
                 /\ replyTransactions(Bare(x.kv), block) = g[Len(block)]
    BY ReplyIsRun
  <2>3. f[Len(block)].kv = g[Len(block)].kv
    BY <1>1, <1>2, <2>1, <2>2, RunsAgree
  <2> QED BY <2>1, <2>2, <2>3 DEF KVBlock
<1>3. ASSUME NEW kv PROVE Answers(kv, KVBlock(kv, block))
  <2>1. PICK x : x = Bare(kv)
    OBVIOUS
  <2>2. DOMAIN x = Fields /\ x.kv = kv /\ x.queue \in Seq(Nat)
    <3>1. <<>> \in Seq(Nat)
      OBVIOUS
    <3> QED BY <1>1, <2>1, <3>1
  <2>3. PICK f : Run(f, x, block, Len(block)) /\ replyTransactions(x, block) = f[Len(block)]
    BY ReplyIsRun
  <2>4. Answers(x.kv, f[Len(block)].kv)
    BY <2>2, <2>3, RunFacts
  <2> QED BY <2>1, <2>2, <2>3, <2>4 DEF KVBlock
<1> QED BY <1>2, <1>3

-----------------------------------------------------------------------------
(* The invariant *)

\* The clients' counters: one per transaction sent, and stopped at the quorum.
ClientsOK ==
    /\ client \in [Client -> [next : 1 .. (NumInstances + 1), replies : Seq(Nat), exec : SUBSET Nat]]
    /\ \A c \in Client :
          /\ Len(client[c].replies) = client[c].next - 1
          /\ client[c].exec \subseteq 1 .. (client[c].next - 1)
          /\ \A t \in 1 .. (client[c].next - 1) :
                /\ client[c].replies[t] <= replyQuorum
                /\ t \notin client[c].exec => client[c].replies[t] < replyQuorum

\* The replicas are at a position of the chain, and what they have missed lies before it.
PeersOK ==
    /\ DOMAIN rep = Replica /\ missed \in [Replica -> SUBSET Nat]
    /\ \A r \in Replica :
          /\ DOMAIN rep[r] = Fields
          /\ rep[r].clients \subseteq Client
          /\ rep[r].timeout \in {1, 2}
          /\ rep[r].applied \in 0 .. Len(chain)
          /\ missed[r] \subseteq 1 .. rep[r].applied

\* The members of S name transactions that their client has sent.
Known(S) ==
    \A t \in S : t.cid \in Client /\ t.tid \in 1 .. (client[t.cid].next - 1)

\* Messages, pools, blocks and queued replies are about the members of S only.
Traffic(S) ==
    /\ up \in [Client -> [Replica -> Seq({MsgStart} \cup {MsgTransaction(t) : t \in S})]]
    /\ \A r \in Replica : rep[r].pool \in Seq(S) /\ rep[r].queue \in Seq(S)
    /\ chain \in Seq(Seq(S))

\* MsgStart is the first message of a connection until the replica knows the client, and the only one.
StartFirst ==
    \A c \in Client, r \in Replica :
        /\ c \notin rep[r].clients => up[c][r] # <<>>
        /\ \A i \in 1 .. Len(up[c][r]) :
              up[c][r][i].type = "start" <=> i = 1 /\ c \notin rep[r].clients

\* K is the executor of a replica that has executed all blocks so far.
History(K) ==
    /\ K[0] = [store |-> <<>>, cache |-> <<>>]
    /\ \A i \in 1 .. Len(chain) : K[i] = KVBlock(K[i - 1], chain[i])
    /\ \A r \in Replica : missed[r] = {} => rep[r].kv = K[rep[r].applied]

\* Between any two steps.
Served ==
    /\ ClientsOK /\ PeersOK /\ StartFirst
    /\ \E S : Known(S) /\ Traffic(S)
    /\ \E K : History(K)

-----------------------------------------------------------------------------
(* The steps *)

\* A new transaction is counted from zero and sent after everything else.
LEMMA SendKept ==
    ASSUME Served, NEW c \in Client, send_transactions(c)
    PROVE  ClientsOK' /\ StartFirst' /\ \E S : (Known(S) /\ Traffic(S))'
<1>1. PICK S : Known(S) /\ Traffic(S)
  BY DEF Served
<1>2. PICK tid, trans :
        /\ tid \in TID /\ trans.cid = c /\ trans.tid = tid /\ tid = client[c].next
        /\ client' = [client EXCEPT ![c].next = @ + 1, ![c].replies = Append(@, 0)]
        /\ up' = [up EXCEPT ![c] = [r \in Replica |-> Append(@[r], MsgTransaction(trans))]]
        /\ UNCHANGED <<rep, chain, proposer, abandoned, missed, log>>
  <2>0. PICK tid \in TID : \E q \in Requests[tid] :
          LET trans == Transaction(c, tid, encode(AppRequest(c, tid, q[1], q[2], q[3])))
          IN  /\ tid = client[c].next
              /\ client' = [client EXCEPT ![c].next = @ + 1, ![c].replies = Append(@, 0)]
              /\ up' = [up EXCEPT ![c] = [r \in Replica |-> Append(@[r], MsgTransaction(trans))]]
              /\ UNCHANGED <<rep, chain, proposer, abandoned, missed, log>>
    BY Zenon DEF send_transactions
  <2>1. PICK q :
          LET trans == Transaction(c, tid, encode(AppRequest(c, tid, q[1], q[2], q[3])))
          IN  /\ tid = client[c].next
              /\ client' = [client EXCEPT ![c].next = @ + 1, ![c].replies = Append(@, 0)]
              /\ up' = [up EXCEPT ![c] = [r \in Replica |-> Append(@[r], MsgTransaction(trans))]]
              /\ UNCHANGED <<rep, chain, proposer, abandoned, missed, log>>
    BY <2>0, Zenon
  <2> DEFINE t == Transaction(c, tid, encode(AppRequest(c, tid, q[1], q[2], q[3])))
  <2>2. t.cid = c /\ t.tid = tid
    BY DEF Transaction
  <2> HIDE DEF t
  <2> QED BY <2>1, <2>2 DEF t
<1>3. ClientsOK'
  <2>1. ClientsOK /\ tid \in 1 .. NumInstances /\ replyQuorum \in Nat \ {0} /\ NumInstances \in Nat
    BY <1>2, ServiceAssumption DEF Served, TID, replyQuorum
  <2> DEFINE k == client[c]
             l == [k EXCEPT !.next = k.next + 1, !.replies = Append(k.replies, 0)]
  <2>2. /\ k.next = tid /\ k.replies \in Seq(Nat) /\ Len(k.replies) = tid - 1 /\ k.exec \in SUBSET Nat
        /\ k \in [next : 1 .. (NumInstances + 1), replies : Seq(Nat), exec : SUBSET Nat]
    BY <1>2, <2>1 DEF ClientsOK
  <2>3. /\ Append(k.replies, 0) \in Seq(Nat) /\ Len(Append(k.replies, 0)) = tid
        /\ \A t \in 1 .. (tid - 1) : Append(k.replies, 0)[t] = k.replies[t]
        /\ Append(k.replies, 0)[tid] = 0
    BY <2>1, <2>2
  <2>4. tid + 1 \in 1 .. (NumInstances + 1)
    BY <2>1
  <2>5. /\ l.next = tid + 1 /\ l.replies = Append(k.replies, 0) /\ l.exec = k.exec
        /\ l \in [next : 1 .. (NumInstances + 1), replies : Seq(Nat), exec : SUBSET Nat]
    BY <2>2, <2>3, <2>4
  <2>6. client' = [client EXCEPT ![c] = l]
    BY <1>2
  <2> HIDE DEF l
  <2>7. client' \in [Client -> [next : 1 .. (NumInstances + 1), replies : Seq(Nat), exec : SUBSET Nat]]
    BY <2>1, <2>5, <2>6 DEF ClientsOK
  <2>8. client'[c] = l /\ \A d \in Client \ {c} : client'[d] = client[d]
    BY <2>1, <2>6 DEF ClientsOK
  <2>9. /\ Len(l.replies) = l.next - 1 /\ l.exec \subseteq 1 .. (l.next - 1)
        /\ \A t \in 1 .. (l.next - 1) : /\ l.replies[t] <= replyQuorum
                                        /\ t \notin l.exec => l.replies[t] < replyQuorum
    <3>1. /\ k.exec \subseteq 1 .. (tid - 1)
          /\ \A t \in 1 .. (tid - 1) : /\ k.replies[t] <= replyQuorum
                                       /\ t \notin k.exec => k.replies[t] < replyQuorum
      BY <2>1, <2>2 DEF ClientsOK
    <3>2. l.next - 1 = tid /\ tid \in Nat
      BY <2>1, <2>5
    <3>3. \A t \in 1 .. tid : t \in 1 .. (tid - 1) \/ t = tid
      BY <2>1
    <3>4. 1 .. (tid - 1) \subseteq 1 .. tid
      BY <2>1
    <3> DEFINE rs == Append(k.replies, 0)
    <3>5. \A t \in 1 .. tid : rs[t] <= replyQuorum /\ (t \notin k.exec => rs[t] < replyQuorum)
      <4>1. \A t \in 1 .. (tid - 1) : rs[t] = k.replies[t]
        BY <2>3
      <4>2. rs[tid] = 0 /\ 0 <= replyQuorum /\ 0 < replyQuorum
        BY <2>1, <2>3
      <4> HIDE DEF rs, k
      <4> QED BY <3>1, <3>3, <4>1, <4>2
    <3>6. l.replies = rs /\ l.exec = k.exec /\ Len(rs) = tid
      BY <2>3, <2>5
    <3>7. k.exec \subseteq 1 .. tid
      BY <3>1, <3>4
    <3> HIDE DEF k, rs
    <3> QED BY <3>2, <3>5, <3>6, <3>7
  <2> QED BY <2>1, <2>7, <2>8, <2>9 DEF ClientsOK, replyQuorum
<1>4. StartFirst'
  <2>1. StartFirst /\ DOMAIN rep = Replica
    BY DEF Served, PeersOK
  <2>2. ASSUME NEW d \in Client, NEW r \in Replica
        PROVE  /\ d \notin rep[r].clients => up'[d][r] # <<>>
               /\ \A i \in 1 .. Len(up'[d][r]) :
                     up'[d][r][i].type = "start" <=> i = 1 /\ d \notin rep[r].clients
    <3>1. CASE d # c
      <4>1. up'[d] = up[d]
        BY <1>1, <1>2, <3>1 DEF Traffic
      <4> QED BY <2>1, <4>1 DEF StartFirst
    <3>2. CASE d = c
      <4>1. up'[d][r] = Append(up[d][r], MsgTransaction(trans))
        BY <1>1, <1>2, <3>2 DEF Traffic
      <4>2. PICK M : up[d][r] \in Seq(M)
        BY <1>1 DEF Traffic
      <4> DEFINE u == up[d][r]
                 w == Append(u, MsgTransaction(trans))
      <4>3. /\ w # <<>> /\ Len(w) = Len(u) + 1 /\ Len(u) \in Nat
            /\ \A i \in 1 .. Len(u) : w[i] = u[i]
            /\ w[Len(u) + 1].type = "transaction"
        BY <4>2 DEF MsgTransaction
      <4>4. Len(u) = 0 => u = <<>>
        BY <4>2
      <4>5. /\ d \notin rep[r].clients => u # <<>>
            /\ \A i \in 1 .. Len(u) : u[i].type = "start" <=> i = 1 /\ d \notin rep[r].clients
        BY <2>1 DEF StartFirst
      <4> HIDE DEF u, w
      <4>6. \A i \in 1 .. Len(w) : i \in 1 .. Len(u) \/ i = Len(u) + 1
        BY <4>3
      <4>7. \A i \in 1 .. Len(w) : w[i].type = "start" <=> i = 1 /\ d \notin rep[r].clients
        BY <4>3, <4>4, <4>5, <4>6
      <4> QED BY <4>1, <4>3, <4>7 DEF w, u
    <3> QED BY <3>1, <3>2
  <2>3. \A r \in Replica : rep'[r] = rep[r]
    BY <1>2
  <2> QED BY <2>2, <2>3 DEF StartFirst
<1>5. \E T : (Known(T) /\ Traffic(T))'
  <2> DEFINE T == S \cup {trans}
             M == {MsgStart} \cup {MsgTransaction(t) : t \in S}
             N == {MsgStart} \cup {MsgTransaction(t) : t \in T}
  <2>1. Known(T)'
    <3>1. ClientsOK /\ client[c].next = tid /\ tid \in Nat \ {0}
      BY <1>2 DEF Served, TID
    <3>2. client'[c].next = tid + 1 /\ \A d \in Client \ {c} : client'[d] = client[d]
      BY <1>2, <3>1 DEF ClientsOK
    <3>3. ASSUME NEW t \in S PROVE t.cid \in Client /\ t.tid \in 1 .. (client'[t.cid].next - 1)
      <4>1. t.cid \in Client /\ t.tid \in 1 .. (client[t.cid].next - 1)
        BY <1>1 DEF Known
      <4>2. CASE t.cid = c
        BY <3>1, <3>2, <4>1, <4>2
      <4>3. CASE t.cid # c
        BY <3>2, <4>1, <4>3
      <4> QED BY <4>2, <4>3
    <3>4. trans.cid \in Client /\ trans.tid \in 1 .. (client'[trans.cid].next - 1)
      BY <1>2, <3>1, <3>2
    <3> QED BY <3>3, <3>4 DEF Known
  <2>2. up' \in [Client -> [Replica -> Seq(N)]]
    <3>1. up \in [Client -> [Replica -> Seq(M)]]
      BY <1>1 DEF Traffic
    <3>2. M \subseteq N /\ MsgTransaction(trans) \in N
      OBVIOUS
    <3> HIDE DEF M, N
    <3>3. Seq(M) \subseteq Seq(N)
      BY <3>2
    <3>4. \A r \in Replica : up[c][r] \in Seq(N)
      BY <3>1, <3>3
    <3>5. \A r \in Replica : Append(up[c][r], MsgTransaction(trans)) \in Seq(N)
      BY <3>2, <3>4, AppendSeq
    <3>6. [r \in Replica |-> Append(up[c][r], MsgTransaction(trans))] \in [Replica -> Seq(N)]
      BY <3>5
    <3>7. up \in [Client -> [Replica -> Seq(N)]]
      BY <3>1, <3>3
    <3> QED BY <1>2, <3>6, <3>7
  <2>3. Traffic(T)'
    <3>1. Seq(S) \subseteq Seq(T)
      OBVIOUS
    <3>2. \A r \in Replica : rep'[r].pool \in Seq(T) /\ rep'[r].queue \in Seq(T)
      BY <1>1, <1>2, <3>1 DEF Traffic
    <3>3. Seq(Seq(S)) \subseteq Seq(Seq(T))
      BY <3>1
    <3>4. chain' \in Seq(Seq(T))
      BY <1>1, <1>2, <3>3 DEF Traffic
    <3> QED BY <2>2, <3>2, <3>4 DEF Traffic
  <2> QED BY <2>1, <2>3
<1> QED BY <1>3, <1>4, <1>5

\* A step of replica r that leaves it in state y.
LEMMA PeerKept ==
    ASSUME PeersOK, NEW r \in Replica, NEW y, rep' = [rep EXCEPT ![r] = y],
           DOMAIN y = Fields, y.clients \subseteq Client, y.timeout \in {1, 2},
           Len(chain) \in Nat, Len(chain') \in Nat, Len(chain) <= Len(chain'),
           y.applied \in 0 .. Len(chain'),
           NEW m, missed' = [missed EXCEPT ![r] = m], m \subseteq 1 .. y.applied
    PROVE  PeersOK'
<1>1. rep'[r] = y /\ \A s \in Replica \ {r} : rep'[s] = rep[s]
  BY DEF PeersOK
<1>2. DOMAIN rep' = Replica
  BY DEF PeersOK
<1>3. missed'[r] = m /\ \A s \in Replica \ {r} : missed'[s] = missed[s]
  BY DEF PeersOK
<1>4. m \in SUBSET Nat
  OBVIOUS
<1>5. missed' \in [Replica -> SUBSET Nat]
  BY <1>4 DEF PeersOK
<1>6. ASSUME NEW s \in Replica
      PROVE  /\ DOMAIN rep'[s] = Fields /\ rep'[s].clients \subseteq Client
             /\ rep'[s].timeout \in {1, 2} /\ rep'[s].applied \in 0 .. Len(chain')
             /\ missed'[s] \subseteq 1 .. rep'[s].applied
  <2>1. CASE s = r
    BY <1>1, <1>3, <2>1
  <2>2. CASE s # r
    <3>1. rep[s].applied \in 0 .. Len(chain')
      BY DEF PeersOK
    <3> QED BY <1>1, <1>3, <2>2, <3>1 DEF PeersOK
  <2> QED BY <2>1, <2>2
<1> QED BY <1>2, <1>5, <1>6 DEF PeersOK

\* A step of replica r that keeps it at its position.
LEMMA PeerStill ==
    ASSUME PeersOK, NEW S, Traffic(S), NEW r \in Replica, NEW y, rep' = [rep EXCEPT ![r] = y],
           DOMAIN y = Fields, y.clients \subseteq rep[r].clients \cup Client,
           y.timeout = rep[r].timeout, y.applied = rep[r].applied, missed' = missed,
           Len(chain') \in Nat, Len(chain) <= Len(chain')
    PROVE  PeersOK'
<1>1. Len(chain) \in Nat /\ missed' = [missed EXCEPT ![r] = missed[r]]
  BY DEF Traffic, PeersOK
<1>2. /\ rep[r].clients \subseteq Client /\ rep[r].timeout \in {1, 2}
      /\ rep[r].applied \in 0 .. Len(chain) /\ missed[r] \subseteq 1 .. rep[r].applied
  BY DEF PeersOK
<1>3. y.applied \in 0 .. Len(chain')
  BY <1>1, <1>2
<1> QED BY <1>1, <1>2, <1>3, PeerKept

\* A step of replica r that adds T to what is known.
LEMMA TrafficKept ==
    ASSUME PeersOK, NEW S, Traffic(S), NEW T, S \subseteq T,
           NEW r \in Replica, NEW y, rep' = [rep EXCEPT ![r] = y],
           y.pool \in Seq(T), y.queue \in Seq(T), chain' \in Seq(Seq(T)),
           \/ up' = up
           \/ \E c \in Client : up' = [up EXCEPT ![c][r] = Tail(@)] /\ up[c][r] # <<>>
    PROVE  Traffic(T)'
<1>1. rep'[r] = y /\ \A s \in Replica \ {r} : rep'[s] = rep[s]
  BY DEF PeersOK
<1>2. Seq(S) \subseteq Seq(T)
  OBVIOUS
<1>3. \A s \in Replica : rep'[s].pool \in Seq(T) /\ rep'[s].queue \in Seq(T)
  BY <1>1, <1>2 DEF Traffic
<1>4. up' \in [Client -> [Replica -> Seq({MsgStart} \cup {MsgTransaction(t) : t \in T})]]
  <2> DEFINE M == {MsgStart} \cup {MsgTransaction(t) : t \in S}
             N == {MsgStart} \cup {MsgTransaction(t) : t \in T}
  <2>1. M \subseteq N /\ up \in [Client -> [Replica -> Seq(M)]]
    BY DEF Traffic
  <2> HIDE DEF M, N
  <2>2. Seq(M) \subseteq Seq(N)
    BY <2>1
  <2>3. up \in [Client -> [Replica -> Seq(N)]]
    BY <2>1, <2>2
  <2>4. ASSUME NEW c \in Client, up' = [up EXCEPT ![c][r] = Tail(@)], up[c][r] # <<>>
        PROVE  up' \in [Client -> [Replica -> Seq(N)]]
    <3>1. Tail(up[c][r]) \in Seq(N)
      BY <2>3, <2>4
    <3> QED BY <2>3, <2>4, <3>1
  <2>5. up' \in [Client -> [Replica -> Seq(N)]]
    BY <2>3, <2>4
  <2> QED BY <2>5 DEF N
<1> QED BY <1>3, <1>4 DEF Traffic

\* Steps that leave connections and clients alone.
LEMMA StartKept ==
    ASSUME PeersOK, StartFirst, NEW r \in Replica, NEW y, rep' = [rep EXCEPT ![r] = y],
           y.clients = rep[r].clients, up' = up
    PROVE  StartFirst'
<1>1. rep'[r] = y /\ \A s \in Replica \ {r} : rep'[s] = rep[s]
  BY DEF PeersOK
<1>2. \A s \in Replica : rep'[s].clients = rep[s].clients
  BY <1>1
<1> QED BY <1>2 DEF StartFirst

\* Steps that leave the executors alone.
LEMMA HistoryKept ==
    ASSUME PeersOK, NEW r \in Replica, NEW y, rep' = [rep EXCEPT ![r] = y], NEW K, History(K),
           y.kv = rep[r].kv, y.applied = rep[r].applied, UNCHANGED <<chain, missed>>
    PROVE  History(K)'
<1>1. rep'[r] = y /\ \A s \in Replica \ {r} : rep'[s] = rep[s]
  BY DEF PeersOK
<1>2. \A s \in Replica : rep'[s].kv = rep[s].kv /\ rep'[s].applied = rep[s].applied
  BY <1>1
<1> QED BY <1>2 DEF History

\* A reply is counted until the quorum is there, and for a transaction that was sent.
LEMMA ReplyKept ==
    ASSUME Served, NEW r \in Replica, handle_reply(r)
    PROVE  Served'
<1>1. PICK S : Known(S) /\ Traffic(S)
  BY DEF Served
<1>2. PICK K : History(K)
  BY DEF Served
<1>3. ClientsOK /\ PeersOK /\ StartFirst
  BY DEF Served
<1> DEFINE x == rep[r]
           y == [x EXCEPT !.queue = Tail(x.queue)]
           q == Head(x.queue)
           k == client[q.cid]
<1>4. /\ x.queue # <<>> /\ x.queue \in Seq(S) /\ x.pool \in Seq(S) /\ DOMAIN x = Fields
      /\ rep' = [rep EXCEPT ![r] = y] /\ UNCHANGED <<up, chain, missed>>
  BY <1>1, <1>3 DEF handle_reply, Traffic, PeersOK
<1>5. /\ DOMAIN y = Fields /\ y.clients = x.clients /\ y.pool = x.pool
      /\ y.applied = x.applied /\ y.timeout = x.timeout /\ y.kv = x.kv
      /\ y.queue = Tail(x.queue)
  BY <1>4 DEF Fields
<1>6. Tail(x.queue) \in Seq(S) /\ q \in S
  BY <1>4
<1>7. q.cid \in Client /\ q.tid \in 1 .. (k.next - 1)
  BY <1>1, <1>6 DEF Known
<1>8. client' = IF q.tid \in k.exec THEN client ELSE [client EXCEPT ![q.cid] = executed(@, q.tid)]
  BY DEF handle_reply
<1> HIDE DEF q, y
<1>9. ClientsOK' /\ \A d \in Client : client'[d].next = client[d].next
  <2>1. CASE q.tid \in k.exec
    BY <1>3, <1>8, <2>1 DEF ClientsOK, replyQuorum
  <2>2. CASE q.tid \notin k.exec
    <3> DEFINE n == k.replies[q.tid] + 1
               rs == [k.replies EXCEPT ![q.tid] = n]
               e == IF n = replyQuorum THEN k.exec \cup {q.tid} ELSE k.exec
               l == [k EXCEPT !.replies = rs, !.exec = e]
    <3>1. /\ k \in [next : 1 .. (NumInstances + 1), replies : Seq(Nat), exec : SUBSET Nat]
          /\ Len(k.replies) = k.next - 1 /\ k.exec \subseteq 1 .. (k.next - 1)
          /\ \A t \in 1 .. (k.next - 1) : /\ k.replies[t] <= replyQuorum
                                          /\ t \notin k.exec => k.replies[t] < replyQuorum
      BY <1>3, <1>7 DEF ClientsOK
    <3>2. client' = [client EXCEPT ![q.cid] = l]
      BY <1>8, <2>2 DEF executed
    <3>3. /\ replyQuorum \in Nat /\ k.replies \in Seq(Nat) /\ q.tid \in 1 .. Len(k.replies)
          /\ k.replies[q.tid] \in Nat /\ k.replies[q.tid] < replyQuorum
      BY <1>7, <2>2, <3>1, ServiceAssumption DEF replyQuorum
    <3> HIDE DEF k
    <3>4. n \in Nat /\ n <= replyQuorum /\ (n = replyQuorum \/ n < replyQuorum)
      BY <3>3
    <3> HIDE DEF n
    <3>5. /\ rs \in Seq(Nat) /\ Len(rs) = Len(k.replies) /\ rs[q.tid] = n
          /\ \A t \in 1 .. Len(k.replies) : t # q.tid => rs[t] = k.replies[t]
      BY <3>3, <3>4
    <3>6. e \in SUBSET Nat /\ e \subseteq 1 .. (k.next - 1) /\ k.exec \subseteq e
          /\ (n = replyQuorum => q.tid \in e)
      <4>1. q.tid \in Nat /\ q.tid \in 1 .. (k.next - 1)
        BY <1>7 DEF k
      <4>2. k.exec \in SUBSET Nat /\ k.exec \subseteq 1 .. (k.next - 1)
        BY <3>1
      <4> QED BY <4>1, <4>2
    <3> HIDE DEF rs, e
    <3>7. /\ l \in [next : 1 .. (NumInstances + 1), replies : Seq(Nat), exec : SUBSET Nat]
          /\ l.next = k.next /\ l.replies = rs /\ l.exec = e
      BY <3>1, <3>5, <3>6
    <3> HIDE DEF l
    <3>8. \A t \in 1 .. (l.next - 1) : /\ l.replies[t] <= replyQuorum
                                       /\ t \notin l.exec => l.replies[t] < replyQuorum
      <4>1. \A t \in 1 .. (k.next - 1) : /\ rs[t] <= replyQuorum
                                         /\ t \notin e => rs[t] < replyQuorum
        <5>1. ASSUME NEW t \in 1 .. (k.next - 1)
              PROVE  /\ rs[t] <= replyQuorum
                     /\ t \notin e => rs[t] < replyQuorum
          <6>1. CASE t = q.tid
            BY <3>4, <3>5, <3>6, <6>1
          <6>2. CASE t # q.tid
            <7>1. rs[t] = k.replies[t]
              BY <3>1, <3>5, <6>2
            <7> QED BY <3>1, <3>6, <7>1
          <6> QED BY <6>1, <6>2
        <5> QED BY <5>1
      <4> QED BY <3>7, <4>1
    <3>9. Len(l.replies) = l.next - 1 /\ l.exec \subseteq 1 .. (l.next - 1)
      BY <3>1, <3>5, <3>6, <3>7
    <3>10. /\ client' \in [Client -> [next : 1 .. (NumInstances + 1), replies : Seq(Nat), exec : SUBSET Nat]]
           /\ client'[q.cid] = l /\ \A d \in Client \ {q.cid} : client'[d] = client[d]
      BY <1>3, <1>7, <3>2, <3>7 DEF ClientsOK
    <3>11. ClientsOK'
      <4>1. ASSUME NEW d \in Client
            PROVE  /\ Len(client'[d].replies) = client'[d].next - 1
                   /\ client'[d].exec \subseteq 1 .. (client'[d].next - 1)
                   /\ \A t \in 1 .. (client'[d].next - 1) :
                         /\ client'[d].replies[t] <= replyQuorum
                         /\ t \notin client'[d].exec => client'[d].replies[t] < replyQuorum
        <5>1. CASE d = q.cid
          BY <3>8, <3>9, <3>10, <5>1
        <5>2. CASE d # q.cid
          <6>1. client'[d] = client[d]
            BY <3>10, <5>2
          <6> QED BY <1>3, <6>1 DEF ClientsOK
        <5> QED BY <5>1, <5>2
      <4> QED BY <3>10, <4>1 DEF ClientsOK, replyQuorum
    <3> QED BY <3>7, <3>10, <3>11 DEF k
  <2> QED BY <2>1, <2>2
<1>10. Known(S)'
  BY <1>1, <1>9 DEF Known
<1>11. PeersOK'
  <2>1. Len(chain') \in Nat /\ Len(chain) <= Len(chain') /\ missed' = missed
    BY <1>1, <1>4 DEF Traffic
  <2> QED BY <1>1, <1>3, <1>4, <1>5, <2>1, PeerStill
<1>12. Traffic(S)'
  <2>1. chain' \in Seq(Seq(S)) /\ up' = up
    BY <1>1, <1>4 DEF Traffic
  <2> QED BY <1>1, <1>3, <1>4, <1>5, <1>6, <2>1, TrafficKept
<1>13. StartFirst'
  BY <1>3, <1>4, <1>5, StartKept
<1>14. History(K)'
  BY <1>2, <1>3, <1>4, <1>5, HistoryKept
<1> QED BY <1>9, <1>10, <1>11, <1>12, <1>13, <1>14 DEF Served

-----------------------------------------------------------------------------
(* A replica takes a message from a client *)

\* r takes the oldest message of c.
Taken(c, r, S) ==
    /\ Head(up[c][r]) = MsgStart \/ \E t \in S : Head(up[c][r]) = MsgTransaction(t)
    /\ Len(up[c][r]) \in Nat \ {0} /\ Len(up'[c][r]) = Len(up[c][r]) - 1
    /\ \A i \in 1 .. Len(up'[c][r]) : i + 1 \in 1 .. Len(up[c][r]) /\ up'[c][r][i] = up[c][r][i + 1]
    /\ \A d \in Client, s \in Replica : ~(d = c /\ s = r) => up'[d][s] = up[d][s]

\* The others move up by one.
LEMMA TakeFacts ==
    ASSUME NEW S, Traffic(S), NEW c \in Client, NEW r \in Replica, up[c][r] # <<>>,
           up' = [up EXCEPT ![c][r] = Tail(@)]
    PROVE  Taken(c, r, S)
<1> DEFINE M == {MsgStart} \cup {MsgTransaction(t) : t \in S}
           u == up[c][r]
<1>1. up \in [Client -> [Replica -> Seq(M)]] /\ u \in Seq(M) /\ u # <<>>
  BY DEF Traffic
<1>2. Head(u) \in M
  <2> HIDE DEF M, u
  <2> QED BY <1>1
<1>3. /\ Len(u) \in Nat \ {0} /\ u[1] = Head(u) /\ Len(Tail(u)) = Len(u) - 1
      /\ \A i \in 1 .. Len(Tail(u)) : i + 1 \in 1 .. Len(u) /\ Tail(u)[i] = u[i + 1]
  <2> HIDE DEF M, u
  <2> QED BY <1>1
<1>4. /\ up'[c][r] = Tail(u)
      /\ \A d \in Client, s \in Replica : ~(d = c /\ s = r) => up'[d][s] = up[d][s]
  <2> HIDE DEF M
  <2> QED BY <1>1
<1> QED BY <1>2, <1>3, <1>4 DEF Taken

\* MsgStart makes the client known.
LEMMA StartMessageKept ==
    ASSUME Served, NEW r \in Replica, NEW c \in Client, handle_start(r, c)
    PROVE  Served'
<1>1. PICK S : Known(S) /\ Traffic(S)
  BY DEF Served
<1>2. PICK K : History(K)
  BY DEF Served
<1>3. ClientsOK /\ PeersOK /\ StartFirst
  BY DEF Served
<1> DEFINE x == rep[r]
           y == [x EXCEPT !.clients = x.clients \cup {c}]
<1>4. /\ up[c][r] # <<>> /\ up' = [up EXCEPT ![c][r] = Tail(@)] /\ Head(up[c][r]).type = "start"
      /\ rep' = [rep EXCEPT ![r] = y] /\ UNCHANGED <<client, chain, missed>>
      /\ DOMAIN x = Fields /\ x.clients \subseteq Client /\ x.pool \in Seq(S) /\ x.queue \in Seq(S)
  BY <1>1, <1>3 DEF handle_start, PeersOK, Traffic
<1>5. /\ DOMAIN y = Fields /\ y.clients = x.clients \cup {c} /\ y.pool = x.pool
      /\ y.applied = x.applied /\ y.timeout = x.timeout /\ y.kv = x.kv /\ y.queue = x.queue
  BY <1>4 DEF Fields
<1> HIDE DEF y
<1>6. ClientsOK' /\ Known(S)'
  BY <1>1, <1>3, <1>4 DEF ClientsOK, Known, replyQuorum
<1>7. PeersOK'
  <2>1. Len(chain') \in Nat /\ Len(chain) <= Len(chain') /\ missed' = missed
    BY <1>1, <1>4 DEF Traffic
  <2>2. y.clients \subseteq rep[r].clients \cup Client
    BY <1>5
  <2> QED BY <1>1, <1>3, <1>4, <1>5, <2>1, <2>2, PeerStill
<1>8. Traffic(S)'
  <2>1. chain' \in Seq(Seq(S))
    BY <1>1, <1>4 DEF Traffic
  <2> QED BY <1>1, <1>3, <1>4, <1>5, <2>1, TrafficKept
<1>9. StartFirst'
  <2>1. rep'[r].clients = rep[r].clients \cup {c} /\ \A s \in Replica \ {r} : rep'[s] = rep[s]
    BY <1>3, <1>4, <1>5 DEF PeersOK
  <2>2. /\ Len(up'[c][r]) = Len(up[c][r]) - 1 /\ Len(up[c][r]) \in Nat \ {0}
        /\ \A i \in 1 .. Len(up'[c][r]) : i + 1 \in 1 .. Len(up[c][r]) /\ up'[c][r][i] = up[c][r][i + 1]
        /\ \A d \in Client, s \in Replica : ~(d = c /\ s = r) => up'[d][s] = up[d][s]
    <3>1. Taken(c, r, S)
      BY <1>1, <1>4, TakeFacts
    <3> QED BY <3>1 DEF Taken
  <2>3. ASSUME NEW d \in Client, NEW s \in Replica
        PROVE  /\ d \notin rep'[s].clients => up'[d][s] # <<>>
               /\ \A i \in 1 .. Len(up'[d][s]) :
                     up'[d][s][i].type = "start" <=> i = 1 /\ d \notin rep'[s].clients
    <3>1. CASE d = c /\ s = r
      <4>1. \A j \in 1 .. Len(up[c][r]) : up[c][r][j].type = "start" => j = 1
        BY <1>3 DEF StartFirst
      <4>2. \A i \in 1 .. Len(up'[c][r]) : i + 1 # 1
        BY <2>2
      <4>3. \A i \in 1 .. Len(up'[c][r]) : up'[c][r][i].type # "start"
        BY <2>2, <4>1, <4>2
      <4> QED BY <2>1, <3>1, <4>3
    <3>2. CASE ~(d = c /\ s = r)
      <4>1. up'[d][s] = up[d][s]
        BY <2>2, <3>2
      <4>2. d \in rep'[s].clients <=> d \in rep[s].clients
        BY <2>1, <3>2
      <4> QED BY <1>3, <4>1, <4>2 DEF StartFirst
    <3> QED BY <3>1, <3>2
  <2> QED BY <2>3 DEF StartFirst
<1>10. History(K)'
  BY <1>2, <1>3, <1>4, <1>5, HistoryKept
<1> QED BY <1>6, <1>7, <1>8, <1>9, <1>10 DEF Served

\* A transaction finds its client known.
LEMMA TransactionFinds ==
    ASSUME Served, NEW r \in Replica, NEW c \in Client,
           up[c][r] # <<>>, Head(up[c][r]).type = "transaction"
    PROVE  c \in rep[r].clients
<1>1. PICK S : Traffic(S)
  BY DEF Served
<1>2. PICK M : up[c][r] \in Seq(M)
  BY <1>1 DEF Traffic
<1>3. 1 \in 1 .. Len(up[c][r]) /\ up[c][r][1] = Head(up[c][r])
  BY <1>2
<1>4. up[c][r][1].type = "start" <=> c \notin rep[r].clients
  BY <1>3 DEF Served, StartFirst
<1> QED BY <1>3, <1>4

\* It goes to the pool.
LEMMA TransactionKept ==
    ASSUME Served, NEW r \in Replica, NEW c \in Client, handleTransaction(r, c)
    PROVE  Served'
<1>1. PICK S : Known(S) /\ Traffic(S)
  BY DEF Served
<1>2. PICK K : History(K)
  BY DEF Served
<1>3. ClientsOK /\ PeersOK /\ StartFirst
  BY DEF Served
<1> DEFINE x == rep[r]
           t == Head(up[c][r]).trans
           y == [x EXCEPT !.pool = Append(x.pool, t)]
<1>4. /\ up[c][r] # <<>> /\ up' = [up EXCEPT ![c][r] = Tail(@)]
      /\ Head(up[c][r]).type = "transaction"
      /\ UNCHANGED <<client, chain, missed>>
      /\ DOMAIN x = Fields /\ x.clients \subseteq Client /\ x.pool \in Seq(S) /\ x.queue \in Seq(S)
  BY <1>1, <1>3 DEF handleTransaction, PeersOK, Traffic
<1>5. c \in rep[r].clients
  BY <1>4, TransactionFinds
<1>6. rep' = [rep EXCEPT ![r] = y]
  BY <1>5 DEF handleTransaction
<1>7. t \in S
  <2>1. Head(up[c][r]) = MsgStart \/ \E m \in S : Head(up[c][r]) = MsgTransaction(m)
    <3>1. Taken(c, r, S)
      BY <1>1, <1>4, TakeFacts
    <3> QED BY <3>1 DEF Taken
  <2>2. MsgStart.type # "transaction" /\ \A m : MsgTransaction(m).trans = m
    BY DEF MsgStart, MsgTransaction
  <2> QED BY <1>4, <2>1, <2>2
<1> HIDE DEF t
<1>8. Append(x.pool, t) \in Seq(S)
  BY <1>4, <1>7, AppendSeq
<1>9. /\ DOMAIN y = Fields /\ y.clients = x.clients /\ y.pool = Append(x.pool, t)
      /\ y.applied = x.applied /\ y.timeout = x.timeout /\ y.kv = x.kv /\ y.queue = x.queue
  BY <1>4 DEF Fields
<1> HIDE DEF y
<1>10. ClientsOK' /\ Known(S)'
  BY <1>1, <1>3, <1>4 DEF ClientsOK, Known, replyQuorum
<1>11. PeersOK'
  <2>1. Len(chain') \in Nat /\ Len(chain) <= Len(chain') /\ missed' = missed
    BY <1>1, <1>4 DEF Traffic
  <2> QED BY <1>1, <1>3, <1>6, <1>9, <2>1, PeerStill
<1>12. Traffic(S)'
  <2>1. chain' \in Seq(Seq(S))
    BY <1>1, <1>4 DEF Traffic
  <2> QED BY <1>1, <1>3, <1>4, <1>6, <1>8, <1>9, <2>1, TrafficKept
<1>13. StartFirst'
  <2>1. \A s \in Replica : rep'[s].clients = rep[s].clients
    BY <1>3, <1>6, <1>9 DEF PeersOK
  <2>2. /\ Len(up'[c][r]) = Len(up[c][r]) - 1 /\ Len(up[c][r]) \in Nat \ {0}
        /\ \A i \in 1 .. Len(up'[c][r]) : i + 1 \in 1 .. Len(up[c][r]) /\ up'[c][r][i] = up[c][r][i + 1]
        /\ \A d \in Client, s \in Replica : ~(d = c /\ s = r) => up'[d][s] = up[d][s]
    <3>1. Taken(c, r, S)
      BY <1>1, <1>4, TakeFacts
    <3> QED BY <3>1 DEF Taken
  <2>3. ASSUME NEW d \in Client, NEW s \in Replica
        PROVE  /\ d \notin rep[s].clients => up'[d][s] # <<>>
               /\ \A i \in 1 .. Len(up'[d][s]) :
                     up'[d][s][i].type = "start" <=> i = 1 /\ d \notin rep[s].clients
    <3>1. CASE d = c /\ s = r
      <4>1. \A j \in 1 .. Len(up[c][r]) : up[c][r][j].type # "start"
        <5>1. \A j \in 1 .. Len(up[c][r]) :
                 up[c][r][j].type = "start" <=> j = 1 /\ c \notin rep[r].clients
          BY <1>3 DEF StartFirst
        <5> QED BY <1>5, <5>1
      <4>2. \A i \in 1 .. Len(up'[c][r]) : up'[c][r][i].type # "start"
        BY <2>2, <4>1
      <4> QED BY <1>5, <3>1, <4>2
    <3>2. CASE ~(d = c /\ s = r)
      <4>1. up'[d][s] = up[d][s]
        BY <2>2, <3>2
      <4> QED BY <1>3, <4>1 DEF StartFirst
    <3> QED BY <3>1, <3>2
  <2> QED BY <2>1, <2>3 DEF StartFirst
<1>14. History(K)'
  BY <1>2, <1>3, <1>4, <1>6, <1>9, HistoryKept
<1> QED BY <1>10, <1>11, <1>12, <1>13, <1>14 DEF Served

-----------------------------------------------------------------------------
(* A leader makes a block *)

\* A part of a sequence.
LEMMA SubSeqTyped ==
    ASSUME NEW S, NEW s \in Seq(S), NEW m \in Nat \ {0}, NEW n \in Nat, n <= Len(s)
    PROVE  SubSeq(s, m, n) \in Seq(S) /\ Len(SubSeq(s, m, n)) \in Nat
<1>1. \A i \in m .. n : s[i] \in S
  OBVIOUS
<1>2. SubSeq(s, m, n) \in Seq(S)
  BY <1>1
<1> QED BY <1>2

\* What createNewBlock takes and what it leaves are transactions of the pool.
LEMMA BlockTyped ==
    ASSUME NEW S, NEW r \in Replica, rep[r].pool \in Seq(S)
    PROVE  createNewBlock(r) \in Seq(S) /\ PoolAfter(r) \in Seq(S)
<1> DEFINE p == rep[r].pool
           n == IF Len(p) < BlockSize THEN Len(p) ELSE BlockSize
<1>1. p \in Seq(S) /\ Len(p) \in Nat
  OBVIOUS
<1>2. n \in Nat /\ n <= Len(p)
  BY <1>1, ServiceAssumption
<1>3. createNewBlock(r) = SubSeq(p, 1, n)
  BY DEF createNewBlock
<1> HIDE DEF p, n
<1>4. createNewBlock(r) \in Seq(S) /\ Len(createNewBlock(r)) \in Nat
  BY <1>1, <1>2, <1>3, SubSeqTyped
<1>5. PoolAfter(r) = SubSeq(p, Len(createNewBlock(r)) + 1, Len(p))
  BY DEF PoolAfter, p
<1>6. Len(createNewBlock(r)) + 1 \in Nat \ {0}
  BY <1>4
<1>7. PoolAfter(r) \in Seq(S)
  BY <1>1, <1>5, <1>6, SubSeqTyped
<1> QED BY <1>4, <1>7

\* A proposal extends the history of the executor by one block.
LEMMA ProposeKept ==
    ASSUME Served, NEW r \in Replica, Propose(r) \/ Abandon(r)
    PROVE  Served'
<1>1. PICK S : Known(S) /\ Traffic(S)
  BY DEF Served
<1>2. PICK K : History(K)
  BY DEF Served
<1>3. ClientsOK /\ PeersOK /\ StartFirst
  BY DEF Served
<1> DEFINE x == rep[r]
           y == [x EXCEPT !.pool = PoolAfter(r)]
           b == createNewBlock(r)
<1>4. /\ rep' = [rep EXCEPT ![r] = y] /\ UNCHANGED <<client, up, missed>>
      /\ chain' = Append(chain, b) \/ chain' = chain
      /\ DOMAIN x = Fields /\ x.clients \subseteq Client /\ x.pool \in Seq(S) /\ x.queue \in Seq(S)
  BY <1>1, <1>3 DEF Propose, Abandon, PeersOK, Traffic
<1>5. /\ DOMAIN y = Fields /\ y.clients = x.clients /\ y.pool = PoolAfter(r)
      /\ y.applied = x.applied /\ y.timeout = x.timeout /\ y.kv = x.kv /\ y.queue = x.queue
  BY <1>4 DEF Fields
<1>6. PoolAfter(r) \in Seq(S) /\ b \in Seq(S) /\ chain \in Seq(Seq(S))
  BY <1>1, <1>4, BlockTyped DEF Traffic
<1> HIDE DEF y, b
<1>7. /\ chain' \in Seq(Seq(S)) /\ Len(chain) \in Nat /\ Len(chain') \in Nat
      /\ Len(chain) <= Len(chain')
      /\ \A i \in 1 .. Len(chain) : chain'[i] = chain[i]
      /\ chain' = chain \/ (Len(chain') = Len(chain) + 1 /\ chain'[Len(chain) + 1] = b)
  <2> DEFINE B == Seq(S)
  <2>1. chain \in Seq(B) /\ b \in B
    BY <1>6
  <2> HIDE DEF B
  <2>2. chain' \in Seq(B)
    BY <1>4, <2>1, AppendSeq
  <2>3. /\ Len(chain) \in Nat /\ Len(chain') \in Nat /\ Len(chain) <= Len(chain')
        /\ \A i \in 1 .. Len(chain) : chain'[i] = chain[i]
        /\ chain' = chain \/ (Len(chain') = Len(chain) + 1 /\ chain'[Len(chain) + 1] = b)
    BY <1>4, <2>1, <2>2
  <2>4. chain' \in Seq(Seq(S))
    BY <2>2 DEF B
  <2> QED BY <2>3, <2>4
<1>8. ClientsOK' /\ Known(S)'
  BY <1>1, <1>3, <1>4 DEF ClientsOK, Known, replyQuorum
<1>9. PeersOK'
  BY <1>1, <1>3, <1>4, <1>5, <1>7, PeerStill
<1>10. Traffic(S)'
  BY <1>1, <1>3, <1>4, <1>5, <1>6, <1>7, TrafficKept
<1>11. StartFirst'
  BY <1>3, <1>4, <1>5, StartKept
<1>12. \E L : History(L)'
  <2>0. PICK L : L = [i \in 0 .. (Len(chain) + 1) |->
                         IF i \in 0 .. Len(chain) THEN K[i] ELSE KVBlock(K[Len(chain)], b)]
    OBVIOUS
  <2>1. \A i \in 0 .. Len(chain) : L[i] = K[i]
    BY <1>7, <2>0
  <2>2. L[Len(chain) + 1] = KVBlock(K[Len(chain)], b)
    BY <1>7, <2>0
  <2>3. 0 \in 0 .. Len(chain) /\ Len(chain) \in 0 .. Len(chain)
    BY <1>7
  <2>4. L[0] = [store |-> <<>>, cache |-> <<>>]
    BY <1>2, <2>1, <2>3 DEF History
  <2>5. ASSUME NEW i \in 1 .. Len(chain') PROVE L[i] = KVBlock(L[i - 1], chain'[i])
    <3>1. CASE i \in 1 .. Len(chain)
      <4>1. i \in 0 .. Len(chain) /\ i - 1 \in 0 .. Len(chain) /\ chain'[i] = chain[i]
        BY <1>7, <3>1
      <4>2. K[i] = KVBlock(K[i - 1], chain[i])
        BY <1>2, <3>1 DEF History
      <4> QED BY <2>1, <4>1, <4>2
    <3>2. CASE i \notin 1 .. Len(chain)
      <4>1. i = Len(chain) + 1 /\ i - 1 = Len(chain) /\ chain'[i] = b
        BY <1>7, <3>2
      <4> QED BY <2>1, <2>2, <2>3, <4>1
    <3> QED BY <3>1, <3>2
  <2>6. ASSUME NEW s \in Replica, missed'[s] = {} PROVE rep'[s].kv = L[rep'[s].applied]
    <3>1. rep'[s].kv = rep[s].kv /\ rep'[s].applied = rep[s].applied /\ missed'[s] = missed[s]
      BY <1>3, <1>4, <1>5 DEF PeersOK
    <3>2. rep[s].applied \in 0 .. Len(chain)
      BY <1>3 DEF PeersOK
    <3>3. rep[s].kv = K[rep[s].applied]
      BY <1>2, <2>6, <3>1 DEF History
    <3> QED BY <2>1, <3>1, <3>2, <3>3
  <2>7. History(L)'
    BY <2>4, <2>5, <2>6 DEF History
  <2> QED BY <2>7
<1> QED BY <1>8, <1>9, <1>10, <1>11, <1>12 DEF Served

-----------------------------------------------------------------------------
(* A replica executes or misses a block *)

\* Executing a block moves the executor along the history.
LEMMA ExecuteKept ==
    ASSUME Served, NEW r \in Replica, Execute(r)
    PROVE  Served'
<1>1. PICK S : Known(S) /\ Traffic(S)
  BY DEF Served
<1>2. PICK K : History(K)
  BY DEF Served
<1>3. ClientsOK /\ PeersOK /\ StartFirst
  BY DEF Served
<1> DEFINE x == rep[r]
           n == x.applied + 1
<1>4. PICK z : z = replyTransactions(x, chain[n])
  OBVIOUS
<1> DEFINE y == [z EXCEPT !.applied = n, !.timeout = setTimer(z.timeout)]
<1>5. /\ rep' = [rep EXCEPT ![r] = y] /\ n <= Len(chain) /\ UNCHANGED <<client, up, chain, missed>>
      /\ DOMAIN x = Fields /\ x.clients \subseteq Client /\ x.pool \in Seq(S) /\ x.queue \in Seq(S)
      /\ x.timeout \in {1, 2} /\ missed[r] \subseteq 1 .. x.applied
      /\ x.applied \in 0 .. Len(chain) /\ chain \in Seq(Seq(S))
  <2>1. /\ rep' = [rep EXCEPT ![r] = [replyTransactions(x, chain[n]) EXCEPT
                                        !.applied = n, !.timeout = setTimer(@)]]
        /\ n <= Len(chain) /\ UNCHANGED <<client, up, chain, missed>>
    BY DEF Execute
  <2>2. rep' = [rep EXCEPT ![r] = y]
    BY <1>4, <2>1
  <2> HIDE DEF y
  <2>3. /\ DOMAIN x = Fields /\ x.clients \subseteq Client /\ x.timeout \in {1, 2}
        /\ missed[r] \subseteq 1 .. x.applied /\ x.applied \in 0 .. Len(chain)
    BY <1>3 DEF PeersOK
  <2>4. x.pool \in Seq(S) /\ x.queue \in Seq(S) /\ chain \in Seq(Seq(S))
    BY <1>1 DEF Traffic
  <2> QED BY <2>1, <2>2, <2>3, <2>4
<1>6. n \in 1 .. Len(chain) /\ Len(chain) \in Nat /\ n \in Nat /\ x.applied = n - 1
  <2>1. Len(chain) \in Nat
    BY <1>1 DEF Traffic
  <2>2. x.applied \in Nat /\ n <= Len(chain)
    BY <1>5, <2>1
  <2> QED BY <2>1, <2>2
<1>7. chain[n] \in Seq(S) /\ Len(chain[n]) \in Nat
  <2>1. chain[n] \in Seq(S)
    <3> DEFINE B == Seq(S)
    <3>1. chain \in Seq(B)
      BY <1>5
    <3> HIDE DEF B, n
    <3>2. chain[n] \in B
      BY <1>6, <3>1
    <3> QED BY <3>2 DEF B
  <2> QED BY <2>1
<1>8. PICK R : /\ Unmoved(x, z) /\ z.queue \in Seq(S \cup R)
               /\ \A m \in R : \E k \in 1 .. Len(chain[n]) :
                     m.cid = chain[n][k].cid /\ m.tid = chain[n][k].tid
  <2>1. Unmoved(x, z) /\ Queued(z.queue, S, chain[n])
    BY <1>4, <1>5, <1>7, BlockFacts
  <2> QED BY <2>1 DEF Queued
<1>9. z.kv = KVBlock(x.kv, chain[n])
  BY <1>4, <1>5, <1>7, BlockKV
<1>10. /\ DOMAIN y = Fields /\ y.clients = x.clients /\ y.pool = x.pool
       /\ y.applied = n /\ y.timeout = setTimer(x.timeout) /\ y.kv = z.kv /\ y.queue = z.queue
  BY <1>8 DEF Unmoved, Fields
<1> HIDE DEF y, n
<1>11. setTimer(x.timeout) \in {1, 2}
  BY <1>5 DEF setTimer
<1> DEFINE T == S \cup R
<1>12. ClientsOK' /\ Known(T)'
  <2>1. ASSUME NEW m \in R PROVE m.cid \in Client /\ m.tid \in 1 .. (client[m.cid].next - 1)
    <3>1. PICK k \in 1 .. Len(chain[n]) : m.cid = chain[n][k].cid /\ m.tid = chain[n][k].tid
      BY <1>8
    <3>2. chain[n][k] \in S
      BY <1>7
    <3> QED BY <1>1, <3>1, <3>2 DEF Known
  <2>2. Known(T)
    BY <1>1, <2>1 DEF Known
  <2> QED BY <1>3, <1>5, <2>2 DEF ClientsOK, Known, replyQuorum
<1>13. PeersOK'
  <2>1. missed' = [missed EXCEPT ![r] = missed[r]] /\ chain' = chain
    BY <1>3, <1>5 DEF PeersOK
  <2>2. missed[r] \subseteq 1 .. y.applied /\ y.applied \in 0 .. Len(chain')
    BY <1>5, <1>6, <1>10
  <2>3. Len(chain') \in Nat /\ Len(chain) <= Len(chain')
    BY <1>6, <2>1
  <2> QED BY <1>3, <1>5, <1>6, <1>10, <1>11, <2>1, <2>2, <2>3, PeerKept
<1>14. Traffic(T)'
  <2>1. Seq(S) \subseteq Seq(T) /\ S \subseteq T
    OBVIOUS
  <2>2. Seq(Seq(S)) \subseteq Seq(Seq(T))
    BY <2>1
  <2>3. chain' \in Seq(Seq(T)) /\ y.pool \in Seq(T) /\ y.queue \in Seq(T)
    BY <1>5, <1>8, <1>10, <2>1, <2>2
  <2> HIDE DEF T
  <2> QED BY <1>1, <1>3, <1>5, <2>1, <2>3, TrafficKept
<1>15. StartFirst'
  BY <1>3, <1>5, <1>10, StartKept
<1>16. History(K)'
  <2>1. ASSUME NEW s \in Replica, missed'[s] = {} PROVE rep'[s].kv = K[rep'[s].applied]
    <3>1. missed[s] = {} /\ rep[s].kv = K[rep[s].applied]
      BY <1>2, <1>5, <2>1 DEF History
    <3>2. CASE s # r
      BY <1>3, <1>5, <3>1, <3>2 DEF PeersOK
    <3>3. CASE s = r
      <4>1. rep'[s] = y
        BY <1>3, <1>5, <3>3 DEF PeersOK
      <4>2. K[n] = KVBlock(K[n - 1], chain[n])
        BY <1>2, <1>6 DEF History
      <4> QED BY <1>6, <1>9, <1>10, <3>1, <3>3, <4>1, <4>2
    <3> QED BY <3>2, <3>3
  <2> QED BY <1>2, <1>5, <2>1 DEF History
<1> QED BY <1>12, <1>13, <1>14, <1>15, <1>16 DEF Served

\* A replica that misses a block is no longer on the history.
LEMMA MissKept ==
    ASSUME Served, NEW r \in Replica, Miss(r)
    PROVE  Served'
<1>1. PICK S : Known(S) /\ Traffic(S)
  BY DEF Served
<1>2. PICK K : History(K)
  BY DEF Served
<1>3. ClientsOK /\ PeersOK /\ StartFirst
  BY DEF Served
<1> DEFINE x == rep[r]
           n == x.applied + 1
           y == [x EXCEPT !.applied = n, !.timeout = BackOff(x.timeout)]
<1>4. /\ rep' = [rep EXCEPT ![r] = y] /\ n <= Len(chain) /\ UNCHANGED <<client, up, chain>>
      /\ missed' = [missed EXCEPT ![r] = missed[r] \cup {n}]
      /\ DOMAIN x = Fields /\ x.clients \subseteq Client /\ x.pool \in Seq(S) /\ x.queue \in Seq(S)
      /\ x.timeout \in {1, 2} /\ missed[r] \subseteq 1 .. x.applied
      /\ x.applied \in 0 .. Len(chain) /\ chain \in Seq(Seq(S))
  BY <1>1, <1>3 DEF Miss, PeersOK, Traffic
<1>5. n \in 1 .. Len(chain) /\ Len(chain) \in Nat /\ n \in Nat /\ x.applied = n - 1
  BY <1>4
<1>6. /\ DOMAIN y = Fields /\ y.clients = x.clients /\ y.pool = x.pool
      /\ y.applied = n /\ y.timeout = BackOff(x.timeout) /\ y.kv = x.kv /\ y.queue = x.queue
  BY <1>4 DEF Fields
<1> HIDE DEF y, n
<1>7. BackOff(x.timeout) \in {1, 2}
  <2>1. setTimer(1) = 1 /\ setTimer(2) = 1
    BY DEF setTimer
  <2> QED BY <1>4, <2>1 DEF BackOff
<1>8. ClientsOK' /\ Known(S)'
  BY <1>1, <1>3, <1>4 DEF ClientsOK, Known, replyQuorum
<1>9. PeersOK'
  <2>1. missed[r] \cup {n} \subseteq 1 .. y.applied /\ y.applied \in 0 .. Len(chain')
    BY <1>4, <1>5, <1>6
  <2>2. Len(chain') \in Nat /\ Len(chain) <= Len(chain')
    BY <1>4, <1>5
  <2> QED BY <1>3, <1>4, <1>5, <1>6, <1>7, <2>1, <2>2, PeerKept
<1>10. Traffic(S)'
  BY <1>1, <1>3, <1>4, <1>6, TrafficKept
<1>11. StartFirst'
  BY <1>3, <1>4, <1>6, StartKept
<1>12. History(K)'
  <2>1. ASSUME NEW s \in Replica, missed'[s] = {} PROVE rep'[s].kv = K[rep'[s].applied]
    <3>1. s # r
      BY <1>3, <1>4, <2>1 DEF PeersOK
    <3>2. missed'[s] = missed[s] /\ rep'[s] = rep[s]
      BY <1>3, <1>4, <3>1 DEF PeersOK
    <3> QED BY <1>2, <2>1, <3>2 DEF History
  <2> QED BY <1>2, <1>4, <2>1 DEF History
<1> QED BY <1>8, <1>9, <1>10, <1>11, <1>12 DEF Served

-----------------------------------------------------------------------------
(* The invariant holds *)

\* Initially every connection holds MsgStart and nobody has done anything.
LEMMA ServedInit == Init => Served
<1> SUFFICES ASSUME Init PROVE Served
  OBVIOUS
<1>1. \A r \in Replica :
        rep[r] = [clients |-> {}, pool |-> <<>>, queue |-> <<>>, applied |-> 0, timeout |-> 1,
                  kv |-> [store |-> <<>>, cache |-> <<>>]]
  BY DEF Init
<1>2. ClientsOK
  <2>1. 1 \in 1 .. (NumInstances + 1) /\ <<>> \in Seq(Nat) /\ Len(<<>>) = 0
    BY ServiceAssumption
  <2>2. [next |-> 1, replies |-> <<>>, exec |-> {}] \in
           [next : 1 .. (NumInstances + 1), replies : Seq(Nat), exec : SUBSET Nat]
    BY <2>1
  <2>3. client = [c \in Client |-> [next |-> 1, replies |-> <<>>, exec |-> {}]]
    BY DEF Init
  <2>4. 1 .. (1 - 1) = {}
    OBVIOUS
  <2>5. \A c \in Client : client[c].next = 1 /\ client[c].replies = <<>> /\ client[c].exec = {}
    BY <2>3
  <2> QED BY <2>1, <2>2, <2>3, <2>4, <2>5 DEF ClientsOK
<1>3. PeersOK
  <2>1. DOMAIN rep = Replica /\ missed = [r \in Replica |-> {}] /\ chain = <<>>
    BY DEF Init
  <2>2. Len(chain) = 0 /\ 0 \in 0 .. 0
    BY <2>1
  <2>3. \A r \in Replica : /\ DOMAIN rep[r] = Fields /\ rep[r].clients = {}
                           /\ rep[r].timeout = 1 /\ rep[r].applied = 0 /\ missed[r] = {}
    BY <1>1, <2>1 DEF Fields
  <2> QED BY <2>1, <2>2, <2>3 DEF PeersOK
<1>4. up = [c \in Client |-> [r \in Replica |-> <<MsgStart>>]]
  BY DEF Init, send_start_to_all
<1>5. StartFirst
  <2>1. \A c \in Client, r \in Replica : up[c][r] = <<MsgStart>> /\ c \notin rep[r].clients
    BY <1>1, <1>4
  <2>2. <<MsgStart>> # <<>> /\ Len(<<MsgStart>>) = 1 /\ <<MsgStart>>[1].type = "start"
    BY DEF MsgStart
  <2>3. \A i \in 1 .. 1 : i = 1
    OBVIOUS
  <2> QED BY <2>1, <2>2, <2>3 DEF StartFirst
<1>6. Known({}) /\ Traffic({})
  <2> DEFINE M == {MsgStart} \cup {MsgTransaction(t) : t \in {}}
  <2>1. MsgStart \in M
    OBVIOUS
  <2> HIDE DEF M
  <2>2. <<MsgStart>> \in Seq(M)
    BY <2>1
  <2>3. up \in [Client -> [Replica -> Seq(M)]]
    BY <1>4, <2>2
  <2>4. <<>> \in Seq({}) /\ <<>> \in Seq(Seq({}))
    OBVIOUS
  <2>5. chain = <<>> /\ \A r \in Replica : rep[r].pool = <<>> /\ rep[r].queue = <<>>
    BY <1>1 DEF Init
  <2> QED BY <2>3, <2>4, <2>5 DEF Known, Traffic, M
<1>7. \E K : History(K)
  <2>1. PICK K : K = [i \in {0} |-> [store |-> <<>>, cache |-> <<>>]]
    OBVIOUS
  <2>2. K[0] = [store |-> <<>>, cache |-> <<>>]
    BY <2>1
  <2>3. Len(chain) = 0
    BY DEF Init
  <2>4. 1 .. Len(chain) = {}
    BY <2>3
  <2>5. \A r \in Replica : rep[r].kv = [store |-> <<>>, cache |-> <<>>] /\ rep[r].applied = 0
    BY <1>1
  <2>6. History(K)
    BY <2>2, <2>4, <2>5 DEF History
  <2> QED BY <2>6
<1> QED BY <1>2, <1>3, <1>5, <1>6, <1>7 DEF Served

\* Every step keeps it.
LEMMA ServedKept == Served /\ [Next]_vars => Served'
<1> SUFFICES ASSUME Served, [Next]_vars PROVE Served'
  OBVIOUS
<1>1. ASSUME NEW c \in Client, send_transactions(c) PROVE Served'
  <2>1. ClientsOK' /\ StartFirst' /\ \E S : (Known(S) /\ Traffic(S))'
    BY <1>1, SendKept
  <2>2. UNCHANGED <<rep, chain, missed>>
    BY <1>1 DEF send_transactions
  <2>3. PeersOK'
    BY <2>2 DEF Served, PeersOK
  <2>4. PICK K : History(K)
    BY DEF Served
  <2>5. History(K)'
    BY <2>2, <2>4 DEF History
  <2> QED BY <2>1, <2>3, <2>5 DEF Served
<1>2. ASSUME NEW c \in Client, NEW r \in Replica, handle_start(r, c) PROVE Served'
  BY <1>2, StartMessageKept
<1>3. ASSUME NEW c \in Client, NEW r \in Replica, handleTransaction(r, c) PROVE Served'
  BY <1>3, TransactionKept
<1>4. ASSUME NEW r \in Replica, handle_reply(r) PROVE Served'
  BY <1>4, ReplyKept
<1>5. ASSUME NEW r \in Replica, Propose(r) \/ Abandon(r) PROVE Served'
  BY <1>5, ProposeKept
<1>6. ASSUME NEW r \in Replica, Execute(r) PROVE Served'
  BY <1>6, ExecuteKept
<1>7. ASSUME NEW r \in Replica, Miss(r) PROVE Served'
  BY <1>7, MissKept
<1>8. CASE UNCHANGED vars
  <2>1. UNCHANGED <<client, up, rep, chain, missed>>
    BY <1>8 DEF vars
  <2>2. ClientsOK' /\ PeersOK' /\ StartFirst'
    <3>1. ClientsOK'
      BY <2>1 DEF Served, ClientsOK, replyQuorum
    <3>2. PeersOK'
      BY <2>1 DEF Served, PeersOK
    <3>3. StartFirst'
      BY <2>1 DEF Served, StartFirst
    <3> QED BY <3>1, <3>2, <3>3
  <2>3. (\E S : (Known(S) /\ Traffic(S))') /\ \E K : History(K)'
    BY <2>1 DEF Served, Known, Traffic, History
  <2> QED BY <2>2, <2>3 DEF Served
<1>9. CASE Next
  BY <1>1, <1>2, <1>3, <1>4, <1>5, <1>6, <1>7, <1>9 DEF Next
<1> QED BY <1>8, <1>9

\* Along the history no answer is taken back.
LEMMA HistoryAnswers ==
    ASSUME Served, NEW K, History(K), NEW i \in 0 .. Len(chain), NEW j \in 0 .. Len(chain), i <= j
    PROVE  Answers(K[i], K[j])
<1>1. Len(chain) \in Nat /\ \A k \in 1 .. Len(chain) : Len(chain[k]) \in Nat
  <2>1. PICK S : chain \in Seq(Seq(S))
    BY DEF Served, Traffic
  <2> DEFINE B == Seq(S)
  <2>2. \A b \in B : Len(b) \in Nat
    OBVIOUS
  <2>3. chain \in Seq(B)
    BY <2>1
  <2> HIDE DEF B
  <2> QED BY <2>2, <2>3
<1> DEFINE Bad == {k \in i .. Len(chain) : ~Answers(K[i], K[k])}
<1> SUFFICES ASSUME Bad # {} PROVE FALSE
  BY <1>1
<1>2. PICK m \in Bad : \A k \in Bad : m <= k
  <2>1. Bad \subseteq Nat
    BY <1>1
  <2> HIDE DEF Bad
  <2> QED BY <2>1, LeastNumber
<1>3. m \in i .. Len(chain) /\ ~Answers(K[i], K[m])
  OBVIOUS
<1>4. m # i
  BY <1>3 DEF Answers
<1>5. m - 1 \in i .. Len(chain) /\ m \in 1 .. Len(chain) /\ ~(m <= m - 1)
  BY <1>1, <1>3, <1>4
<1>6. Answers(K[i], K[m - 1])
  BY <1>2, <1>5
<1> HIDE DEF Bad
<1>7. K[m] = KVBlock(K[m - 1], chain[m])
  BY <1>5 DEF History
<1>8. Answers(K[m - 1], K[m])
  BY <1>1, <1>5, <1>7, BlockKV
<1> QED BY <1>3, <1>6, <1>8 DEF Answers

-----------------------------------------------------------------------------
(* Whose transactions are where *)

\* A transaction names its client and number, in its payload too, and there is one for each pair.
Genuine(S) ==
    /\ \A t \in S : /\ t.cid \in Client /\ t.tid \in 1 .. (client[t.cid].next - 1)
                    /\ CanDecode(t.payload) => dedupKey(t.payload) = <<t.cid, t.tid>>
    /\ \A t, u \in S : t.cid = u.cid /\ t.tid = u.tid => t = u

\* The connection of client c holds transactions of S that are its own.
Connected(S, u, c) ==
    \A i \in 1 .. Len(u) : u[i].type = "transaction" => u[i].trans \in S /\ u[i].trans.cid = c

\* Pools, blocks and logs hold members of S only.
Held(S) ==
    /\ \A c \in Client, r \in Replica : Connected(S, up[c][r], c)
    /\ \A r \in Replica : rep[r].pool \in Seq(S)
    /\ chain \in Seq(Seq(S)) /\ proposer \in Seq(Replica) /\ Len(proposer) = Len(chain)
    /\ \A a \in abandoned : a[2] \in Seq(S)
    /\ log \in [Replica -> Seq(S)]

Booked == \E S : Genuine(S) /\ Held(S)

\* Client c sends trans.
Sending(c, trans) ==
    /\ trans.cid = c /\ trans.tid = client[c].next /\ trans.tid \in TID
    /\ CanDecode(trans.payload) => dedupKey(trans.payload) = <<c, trans.tid>>
    /\ client' = [client EXCEPT ![c].next = @ + 1, ![c].replies = Append(@, 0)]
    /\ up' = [up EXCEPT ![c] = [r \in Replica |-> Append(@[r], MsgTransaction(trans))]]
    /\ UNCHANGED <<rep, chain, proposer, abandoned, missed, log>>

\* What the sending thread does in one round.
LEMMA SendFacts ==
    ASSUME NEW c \in Client, send_transactions(c)
    PROVE  \E trans : Sending(c, trans)
<1>0. PICK tid \in TID : \E q \in Requests[tid] :
        LET trans == Transaction(c, tid, encode(AppRequest(c, tid, q[1], q[2], q[3])))
        IN  /\ tid = client[c].next
            /\ client' = [client EXCEPT ![c].next = @ + 1, ![c].replies = Append(@, 0)]
            /\ up' = [up EXCEPT ![c] = [r \in Replica |-> Append(@[r], MsgTransaction(trans))]]
            /\ UNCHANGED <<rep, chain, proposer, abandoned, missed, log>>
  BY Zenon DEF send_transactions
<1>1. PICK q :
        LET trans == Transaction(c, tid, encode(AppRequest(c, tid, q[1], q[2], q[3])))
        IN  /\ tid = client[c].next
            /\ client' = [client EXCEPT ![c].next = @ + 1, ![c].replies = Append(@, 0)]
            /\ up' = [up EXCEPT ![c] = [r \in Replica |-> Append(@[r], MsgTransaction(trans))]]
            /\ UNCHANGED <<rep, chain, proposer, abandoned, missed, log>>
  BY <1>0, Zenon
<1> DEFINE a == AppRequest(c, tid, q[1], q[2], q[3])
           t == Transaction(c, tid, encode(a))
<1>2. t.cid = c /\ t.tid = tid /\ t.payload = encode(a)
  BY DEF Transaction
<1>3. dedupKey(a) = <<c, tid>>
  BY DEF dedupKey, AppRequest
<1> HIDE DEF a
<1>4. CanDecode(encode(a)) => dedupKey(encode(a)) = <<c, tid>>
  BY <1>3 DEF CanDecode, encode
<1>5. Sending(c, t)
  <2>1. Transaction(c, tid, encode(AppRequest(c, tid, q[1], q[2], q[3]))) = t
    BY DEF a
  <2> HIDE DEF t
  <2> QED BY <1>0, <1>1, <1>2, <1>4, <2>1 DEF Sending
<1> QED BY <1>5

\* The connection of a client after one more message, and after the oldest was taken.
LEMMA ConnectedAppend ==
    ASSUME NEW S, NEW M, NEW u \in Seq(M), NEW c, Connected(S, u, c), NEW trans, trans.cid = c
    PROVE  Connected(S \cup {trans}, Append(u, MsgTransaction(trans)), c)
<1> DEFINE w == Append(u, MsgTransaction(trans))
<1>1. /\ Len(w) = Len(u) + 1 /\ Len(u) \in Nat /\ w[Len(u) + 1] = MsgTransaction(trans)
      /\ \A i \in 1 .. Len(u) : w[i] = u[i]
  OBVIOUS
<1>2. \A i \in 1 .. Len(w) : i \in 1 .. Len(u) \/ i = Len(u) + 1
  BY <1>1
<1>3. MsgTransaction(trans).trans = trans
  BY DEF MsgTransaction
<1> HIDE DEF w
<1>4. \A i \in 1 .. Len(w) : w[i].type = "transaction" => w[i].trans \in S \cup {trans} /\ w[i].trans.cid = c
  BY <1>1, <1>2, <1>3 DEF Connected
<1> QED BY <1>4 DEF Connected, w

\* Sending a transaction adds it to S.
LEMMA BookedSend ==
    ASSUME Served, Booked, NEW c \in Client, send_transactions(c)
    PROVE  Booked'
<1>1. PICK S : Genuine(S) /\ Held(S)
  BY DEF Booked
<1>2. PICK trans : Sending(c, trans)
  BY SendFacts
<1> DEFINE T == S \cup {trans}
<1>3. /\ ClientsOK /\ client[c].next \in Nat \ {0}
      /\ client'[c].next = client[c].next + 1 /\ \A d \in Client \ {c} : client'[d] = client[d]
  <2>1. ClientsOK /\ client[c].next \in Nat \ {0}
    BY DEF Served, ClientsOK
  <2> QED BY <1>2, <2>1 DEF Sending, ClientsOK
<1>4. Genuine(T)'
  <2>1. \A t \in S : t.cid = c => t.tid # trans.tid
    BY <1>1, <1>2, <1>3 DEF Genuine, Sending
  <2>2. \A t \in S : t.cid \in Client /\ t.tid \in 1 .. (client'[t.cid].next - 1)
    <3>1. ASSUME NEW t \in S PROVE t.cid \in Client /\ t.tid \in 1 .. (client'[t.cid].next - 1)
      <4>1. t.cid \in Client /\ t.tid \in 1 .. (client[t.cid].next - 1)
        BY <1>1 DEF Genuine
      <4>2. CASE t.cid = c
        BY <1>3, <4>1, <4>2
      <4>3. CASE t.cid # c
        BY <1>3, <4>1, <4>3
      <4> QED BY <4>2, <4>3
    <3> QED BY <3>1
  <2>3. /\ trans.cid \in Client /\ trans.tid \in 1 .. (client'[trans.cid].next - 1)
        /\ trans.cid = c /\ (CanDecode(trans.payload) => dedupKey(trans.payload) = <<c, trans.tid>>)
    BY <1>2, <1>3 DEF Sending
  <2>4. \A t, u \in T : t.cid = u.cid /\ t.tid = u.tid => t = u
    BY <1>1, <2>1, <2>3 DEF Genuine
  <2>5. \A t \in T : /\ t.cid \in Client /\ t.tid \in 1 .. (client'[t.cid].next - 1)
                     /\ CanDecode(t.payload) => dedupKey(t.payload) = <<t.cid, t.tid>>
    BY <1>1, <2>2, <2>3 DEF Genuine
  <2> QED BY <2>4, <2>5 DEF Genuine
<1>5. Seq(S) \subseteq Seq(T) /\ Seq(Seq(S)) \subseteq Seq(Seq(T))
  <2>1. Seq(S) \subseteq Seq(T)
    OBVIOUS
  <2> QED BY <2>1
<1>6. ASSUME NEW d \in Client, NEW r \in Replica PROVE Connected(T, up'[d][r], d)
  <2>1. PICK M : up \in [Client -> [Replica -> Seq(M)]]
    BY DEF Served, Traffic
  <2>2. Connected(S, up[d][r], d) /\ up[d][r] \in Seq(M)
    BY <1>1, <2>1 DEF Held
  <2>3. CASE d = c
    <3>1. up'[d][r] = Append(up[d][r], MsgTransaction(trans)) /\ trans.cid = c
      BY <1>2, <2>1, <2>3 DEF Sending
    <3> QED BY <2>2, <2>3, <3>1, ConnectedAppend
  <2>4. CASE d # c
    <3>1. up'[d][r] = up[d][r]
      BY <1>2, <2>1, <2>4 DEF Sending
    <3> QED BY <2>2, <3>1 DEF Connected
  <2> QED BY <2>3, <2>4
<1>7. Held(T)'
  <2>1. UNCHANGED <<rep, chain, proposer, abandoned, log>>
    BY <1>2 DEF Sending
  <2> HIDE DEF T
  <2> QED BY <1>1, <1>5, <1>6, <2>1 DEF Held
<1> QED BY <1>4, <1>7 DEF Booked

\* What r takes from c is the head of the connection, and the rest moves up.
LEMMA ConnectedTail ==
    ASSUME Served, NEW S, Held(S), NEW c \in Client, NEW r \in Replica, up[c][r] # <<>>,
           up' = [up EXCEPT ![c][r] = Tail(@)]
    PROVE  \A d \in Client, s \in Replica : Connected(S, up'[d][s], d)
<1>1. PICK R : Traffic(R)
  BY DEF Served
<1>2. Taken(c, r, R)
  BY <1>1, TakeFacts
<1>3. ASSUME NEW d \in Client, NEW s \in Replica PROVE Connected(S, up'[d][s], d)
  <2>1. Connected(S, up[d][s], d)
    BY DEF Held
  <2>2. CASE d = c /\ s = r
    BY <1>2, <2>1, <2>2 DEF Taken, Connected
  <2>3. CASE ~(d = c /\ s = r)
    <3>1. up'[d][s] = up[d][s]
      BY <1>2, <2>3 DEF Taken
    <3> QED BY <2>1, <3>1
  <2> QED BY <2>2, <2>3
<1> QED BY <1>3

\* The other steps move transactions around.
LEMMA BookedMove ==
    ASSUME Served, Booked, NEW r \in Replica, NEW c \in Client,
           handle_start(r, c) \/ handleTransaction(r, c)
    PROVE  Booked'
<1>1. PICK S : Genuine(S) /\ Held(S)
  BY DEF Booked
<1>2. /\ up[c][r] # <<>> /\ up' = [up EXCEPT ![c][r] = Tail(@)]
      /\ UNCHANGED <<client, chain, proposer, abandoned, log>>
  BY DEF handle_start, handleTransaction
<1>3. DOMAIN rep = Replica /\ \A s \in Replica : DOMAIN rep[s] = Fields
  BY DEF Served, PeersOK
<1>4. \A s \in Replica : rep'[s].pool \in Seq(S)
  <2>1. CASE handle_start(r, c)
    <3>1. \A s \in Replica : rep'[s].pool = rep[s].pool
      BY <1>3, <2>1 DEF handle_start, Fields
    <3> QED BY <1>1, <3>1 DEF Held
  <2>2. CASE handleTransaction(r, c)
    <3> DEFINE t == Head(up[c][r]).trans
    <3>1. t \in S
      <4>1. PICK M : up[c][r] \in Seq(M)
        BY DEF Served, Traffic
      <4>2. 1 \in 1 .. Len(up[c][r]) /\ up[c][r][1] = Head(up[c][r])
        BY <1>2, <4>1
      <4>3. up[c][r][1].type = "transaction"
        BY <2>2, <4>2 DEF handleTransaction
      <4> QED BY <1>1, <4>2, <4>3 DEF Held, Connected
    <3> HIDE DEF t
    <3>2. rep' = [rep EXCEPT ![r].pool = Append(@, t)] \/ rep' = rep
      BY <2>2 DEF handleTransaction, t
    <3>3. rep'[r].pool = Append(rep[r].pool, t) \/ rep'[r].pool = rep[r].pool
      BY <1>3, <3>2 DEF Fields
    <3>4. \A s \in Replica \ {r} : rep'[s].pool = rep[s].pool
      BY <1>3, <3>2
    <3>5. rep'[r].pool \in Seq(S)
      BY <1>1, <3>1, <3>3, AppendSeq DEF Held
    <3> QED BY <1>1, <3>4, <3>5 DEF Held
  <2> QED BY <2>1, <2>2
<1>5. \A d \in Client, s \in Replica : Connected(S, up'[d][s], d)
  BY <1>1, <1>2, ConnectedTail
<1>6. Held(S)'
  BY <1>1, <1>2, <1>4, <1>5 DEF Held
<1>7. Genuine(S)'
  BY <1>1, <1>2 DEF Genuine
<1> QED BY <1>6, <1>7 DEF Booked

\* A block moves from the pool to the chain or is lost, and stays within S.
LEMMA BookedPropose ==
    ASSUME Served, Booked, NEW r \in Replica, Propose(r) \/ Abandon(r)
    PROVE  Booked'
<1>1. PICK S : Genuine(S) /\ Held(S)
  BY DEF Booked
<1>2. DOMAIN rep = Replica /\ \A s \in Replica : DOMAIN rep[s] = Fields
  BY DEF Served, PeersOK
<1>3. /\ rep' = [rep EXCEPT ![r].pool = PoolAfter(r)]
      /\ UNCHANGED <<client, up, log>>
      /\ \/ chain' = Append(chain, createNewBlock(r)) /\ proposer' = Append(proposer, r) /\ abandoned' = abandoned
         \/ abandoned' = abandoned \cup {<<r, createNewBlock(r)>>} /\ UNCHANGED <<chain, proposer>>
  BY DEF Propose, Abandon
<1>4. createNewBlock(r) \in Seq(S) /\ PoolAfter(r) \in Seq(S)
  BY <1>1, BlockTyped DEF Held
<1>5. \A s \in Replica : rep'[s].pool \in Seq(S)
  <2>1. rep'[r].pool = PoolAfter(r)
    BY <1>2, <1>3 DEF Fields
  <2>2. \A s \in Replica \ {r} : rep'[s] = rep[s]
    BY <1>2, <1>3
  <2> QED BY <1>1, <1>4, <2>1, <2>2 DEF Held
<1>6. chain' \in Seq(Seq(S)) /\ proposer' \in Seq(Replica) /\ Len(proposer') = Len(chain')
  <2> DEFINE B == Seq(S)
  <2>1. chain \in Seq(B) /\ createNewBlock(r) \in B /\ proposer \in Seq(Replica) /\ Len(proposer) = Len(chain)
    BY <1>1, <1>4 DEF Held
  <2> HIDE DEF B
  <2>2. CASE UNCHANGED <<chain, proposer>>
    BY <2>1, <2>2 DEF B
  <2>3. CASE chain' = Append(chain, createNewBlock(r)) /\ proposer' = Append(proposer, r)
    <3>1. chain' \in Seq(B) /\ Len(chain') = Len(chain) + 1
      BY <2>1, <2>3
    <3>2. proposer' \in Seq(Replica) /\ Len(proposer') = Len(proposer) + 1
      BY <2>1, <2>3
    <3> QED BY <2>1, <3>1, <3>2 DEF B
  <2> QED BY <1>3, <2>2, <2>3
<1>7. \A a \in abandoned' : a[2] \in Seq(S)
  BY <1>1, <1>3, <1>4 DEF Held
<1>8. Held(S)'
  BY <1>1, <1>3, <1>5, <1>6, <1>7 DEF Held
<1>9. Genuine(S)'
  BY <1>1, <1>3 DEF Genuine
<1> QED BY <1>8, <1>9 DEF Booked

\* What Execute leaves behind: block b of the log, and z, the replica after it.
Executing(r, b, z) ==
    /\ rep[r].applied + 1 \in 1 .. Len(chain) /\ b = chain[rep[r].applied + 1]
    /\ DOMAIN rep[r] = Fields /\ z = replyTransactions(rep[r], b)
    /\ log' = [log EXCEPT ![r] = log[r] \o b]
    /\ rep'[r].kv = z.kv /\ \A s \in Replica \ {r} : rep'[s] = rep[s]
    /\ \A s \in Replica : rep'[s].pool = rep[s].pool
    /\ UNCHANGED <<client, up, chain, proposer, abandoned>>

\* Execute appends its block to the log and leaves connections and pools alone.
LEMMA ExecuteFacts ==
    ASSUME Served, NEW r \in Replica, Execute(r)
    PROVE  \E b, z : Executing(r, b, z)
<1> DEFINE x == rep[r]
           n == x.applied + 1
           b == chain[n]
<1>1. PICK S : Traffic(S)
  BY DEF Served
<1>2. /\ DOMAIN rep = Replica /\ DOMAIN x = Fields /\ x.applied \in 0 .. Len(chain)
      /\ x.queue \in Seq(S) /\ chain \in Seq(Seq(S))
  BY <1>1 DEF Served, PeersOK, Traffic
<1>3. PICK z : z = replyTransactions(x, b)
  OBVIOUS
<1> DEFINE y == [z EXCEPT !.applied = n, !.timeout = setTimer(z.timeout)]
<1>4. /\ rep' = [rep EXCEPT ![r] = y] /\ n <= Len(chain) /\ log' = [log EXCEPT ![r] = log[r] \o b]
      /\ UNCHANGED <<client, up, chain, proposer, abandoned>>
  <2>1. /\ rep' = [rep EXCEPT ![r] = [replyTransactions(x, b) EXCEPT !.applied = n, !.timeout = setTimer(@)]]
        /\ n <= Len(chain) /\ log' = [log EXCEPT ![r] = log[r] \o b]
        /\ UNCHANGED <<client, up, chain, proposer, abandoned>>
    BY DEF Execute
  <2> QED BY <1>3, <2>1
<1>5. n \in 1 .. Len(chain) /\ Len(chain) \in Nat
  <2>1. Len(chain) \in Nat
    BY <1>2
  <2> QED BY <1>2, <1>4, <2>1
<1>6. Len(b) \in Nat
  <2> DEFINE B == Seq(S)
  <2>1. chain \in Seq(B) /\ \A s \in B : Len(s) \in Nat
    BY <1>2
  <2> HIDE DEF B, n
  <2> QED BY <1>5, <2>1
<1>7. Unmoved(x, z)
  BY <1>2, <1>3, <1>6, BlockFacts
<1>8. y.kv = z.kv /\ y.pool = x.pool
  BY <1>7 DEF Unmoved, Fields
<1> HIDE DEF y
<1>9. rep'[r] = y /\ \A s \in Replica \ {r} : rep'[s] = rep[s]
  BY <1>2, <1>4
<1>10. Executing(r, b, z)
  BY <1>2, <1>3, <1>4, <1>5, <1>8, <1>9 DEF Executing
<1> QED BY <1>10

\* A block of the chain holds members of S.
LEMMA BlockHeld ==
    ASSUME NEW S, Held(S), NEW n \in 1 .. Len(chain)
    PROVE  chain[n] \in Seq(S)
<1> DEFINE B == Seq(S)
<1>1. chain \in Seq(B)
  BY DEF Held
<1> HIDE DEF B
<1>2. chain[n] \in B
  BY <1>1
<1> QED BY <1>2 DEF B

\* The log grows by a block of the chain.
LEMMA BookedExecute ==
    ASSUME Served, Booked, NEW r \in Replica, Execute(r)
    PROVE  Booked'
<1>1. PICK S : Genuine(S) /\ Held(S)
  BY DEF Booked
<1>2. PICK b, z : Executing(r, b, z)
  BY ExecuteFacts
<1>3. b \in Seq(S) /\ log[r] \in Seq(S)
  BY <1>1, <1>2, BlockHeld DEF Executing, Held
<1>4. log[r] \o b \in Seq(S)
  BY <1>3
<1>5. log' \in [Replica -> Seq(S)]
  BY <1>1, <1>2, <1>4 DEF Executing, Held
<1>6. Held(S)'
  BY <1>1, <1>2, <1>5 DEF Executing, Held
<1>7. Genuine(S)'
  BY <1>1, <1>2 DEF Executing, Genuine
<1> QED BY <1>6, <1>7 DEF Booked

\* A step that leaves all of them alone.
Elsewhere ==
    /\ UNCHANGED <<up, chain, proposer, abandoned, log>>
    /\ \A r \in Replica : rep'[r].pool = rep[r].pool /\ rep'[r].kv = rep[r].kv
    /\ \A c \in Client : client'[c].next = client[c].next

\* Replies and timeouts are such steps.
LEMMA ReplyOrMiss ==
    ASSUME Served, NEW r \in Replica, handle_reply(r) \/ Miss(r)
    PROVE  Elsewhere
<1>1. DOMAIN rep = Replica /\ \A s \in Replica : DOMAIN rep[s] = Fields
  BY DEF Served, PeersOK
<1>2. CASE Miss(r)
  <2> DEFINE n == rep[r].applied + 1
             y == [rep[r] EXCEPT !.applied = n, !.timeout = BackOff(@)]
  <2>1. rep' = [rep EXCEPT ![r] = y] /\ UNCHANGED <<client, up, chain, proposer, abandoned, log>>
    BY <1>2 DEF Miss
  <2>2. y.pool = rep[r].pool /\ y.kv = rep[r].kv
    BY <1>1 DEF Fields
  <2> HIDE DEF y
  <2> QED BY <1>1, <2>1, <2>2 DEF Elsewhere
<1>3. CASE handle_reply(r)
  <2> DEFINE q == Head(rep[r].queue)
             y == [rep[r] EXCEPT !.queue = Tail(@)]
  <2>1. /\ rep' = [rep EXCEPT ![r] = y] /\ UNCHANGED <<up, chain, proposer, abandoned, log>>
        /\ client' = client \/ client' = [client EXCEPT ![q.cid] = executed(@, q.tid)]
    BY <1>3 DEF handle_reply
  <2>2. y.pool = rep[r].pool /\ y.kv = rep[r].kv
    BY <1>1 DEF Fields
  <2> HIDE DEF y, q
  <2>3. \A c \in Client : client'[c].next = client[c].next
    <3>1. client \in [Client -> [next : 1 .. (NumInstances + 1), replies : Seq(Nat), exec : SUBSET Nat]]
      BY DEF Served, ClientsOK
    <3>2. \A k \in [next : 1 .. (NumInstances + 1), replies : Seq(Nat), exec : SUBSET Nat] :
            executed(k, q.tid).next = k.next
      BY DEF executed
    <3> QED BY <2>1, <3>1, <3>2
  <2> QED BY <1>1, <2>1, <2>2, <2>3 DEF Elsewhere
<1> QED BY <1>2, <1>3

\* They leave Booked alone.
LEMMA BookedElsewhere ==
    ASSUME Booked, Elsewhere
    PROVE  Booked'
<1>1. PICK S : Genuine(S) /\ Held(S)
  BY DEF Booked
<1>2. Held(S)'
  BY <1>1 DEF Held, Elsewhere
<1>3. Genuine(S)'
  BY <1>1 DEF Genuine, Elsewhere
<1> QED BY <1>2, <1>3 DEF Booked

\* Nothing has been sent at the beginning.
LEMMA BookedInit == Init => Booked
<1> SUFFICES ASSUME Init PROVE Booked
  OBVIOUS
<1>1. Genuine({})
  BY DEF Genuine
<1>2. /\ up = [c \in Client |-> [r \in Replica |-> <<MsgStart>>]]
      /\ \A r \in Replica : rep[r].pool = <<>>
      /\ chain = <<>> /\ proposer = <<>> /\ abandoned = {} /\ log = [r \in Replica |-> <<>>]
  BY DEF Init, send_start_to_all
<1>3. <<>> \in Seq({}) /\ <<>> \in Seq(Seq({})) /\ <<>> \in Seq(Replica)
  OBVIOUS
<1>4. \A c \in Client : Connected({}, <<MsgStart>>, c)
  <2>1. Len(<<MsgStart>>) = 1 /\ <<MsgStart>>[1].type = "start"
    BY DEF MsgStart
  <2>2. \A i \in 1 .. 1 : i = 1
    OBVIOUS
  <2> QED BY <2>1, <2>2 DEF Connected
<1>5. Held({})
  BY <1>2, <1>3, <1>4 DEF Held
<1> QED BY <1>1, <1>5 DEF Booked

\* Every step keeps Booked.
LEMMA BookedKept == Served /\ Booked /\ [Next]_vars => Booked'
<1> SUFFICES ASSUME Served, Booked, [Next]_vars PROVE Booked'
  OBVIOUS
<1>1. CASE UNCHANGED vars
  <2>1. Elsewhere
    BY <1>1 DEF vars, Elsewhere
  <2> QED BY <2>1, BookedElsewhere
<1>2. ASSUME NEW c \in Client, send_transactions(c) PROVE Booked'
  BY <1>2, BookedSend
<1>3. ASSUME NEW c \in Client, NEW r \in Replica, handle_start(r, c) \/ handleTransaction(r, c)
      PROVE Booked'
  BY <1>3, BookedMove
<1>4. ASSUME NEW r \in Replica, Propose(r) \/ Abandon(r) PROVE Booked'
  BY <1>4, BookedPropose
<1>5. ASSUME NEW r \in Replica, Execute(r) PROVE Booked'
  BY <1>5, BookedExecute
<1>6. ASSUME NEW r \in Replica, handle_reply(r) \/ Miss(r) PROVE Booked'
  BY <1>6, ReplyOrMiss, BookedElsewhere
<1>7. CASE Next
  BY <1>2, <1>3, <1>4, <1>5, <1>6, <1>7 DEF Next
<1> QED BY <1>1, <1>7

-----------------------------------------------------------------------------
(* What the executor holds *)

\* g lists the stores of Replay, up to the n-th transaction of s.
Stores(g, s, n) ==
    g = [k \in 0 .. n |-> IF k = 0 THEN <<>>
                          ELSE IF FirstTime(s, k) THEN StoreAfter(g[k - 1], s[k].payload)
                          ELSE g[k - 1]]

\* There is such a list for every log.
LEMMA StoresExist ==
    ASSUME NEW s, NEW n \in Nat
    PROVE  \E g : Stores(g, s, n)
<1> DEFINE Bad == {m \in 0 .. n : ~\E g : Stores(g, s, m)}
<1> SUFFICES ASSUME Bad # {} PROVE FALSE
  OBVIOUS
<1>1. PICK m \in Bad : \A k \in Bad : m <= k
  <2>1. Bad \subseteq Nat
    OBVIOUS
  <2> QED BY <2>1, LeastNumber
<1>2. CASE m = 0
  <2>1. Stores([k \in 0 .. 0 |-> <<>>], s, 0)
    <3>1. 0 .. 0 = {0}
      OBVIOUS
    <3> QED BY <3>1 DEF Stores
  <2> QED BY <1>2, <2>1
<1>3. CASE m # 0
  <2>1. m - 1 \in 0 .. n /\ m \in Nat /\ ~(m <= m - 1)
    BY <1>3
  <2>2. PICK f : Stores(f, s, m - 1)
    BY <1>1, <2>1
  <2> DEFINE new == IF FirstTime(s, m) THEN StoreAfter(f[m - 1], s[m].payload) ELSE f[m - 1]
             g == [k \in 0 .. m |-> IF k = m THEN new ELSE f[k]]
  <2>3. ASSUME NEW k \in 0 .. m
        PROVE  g[k] = IF k = 0 THEN <<>>
                      ELSE IF FirstTime(s, k) THEN StoreAfter(g[k - 1], s[k].payload)
                      ELSE g[k - 1]
    <3>1. CASE k = m
      <4>1. g[m - 1] = f[m - 1] /\ g[m] = new
        BY <2>1
      <4> QED BY <1>3, <3>1, <4>1
    <3>2. CASE k # m
      <4>1. k \in 0 .. (m - 1) /\ g[k] = f[k] /\ (k # 0 => k - 1 \in 0 .. (m - 1) /\ g[k - 1] = f[k - 1])
        BY <2>1, <3>2
      <4>2. f[k] = IF k = 0 THEN <<>>
                   ELSE IF FirstTime(s, k) THEN StoreAfter(f[k - 1], s[k].payload)
                   ELSE f[k - 1]
        BY <2>2, <4>1 DEF Stores
      <4> QED BY <4>1, <4>2
    <3> QED BY <3>1, <3>2
  <2>4. Stores(g, s, m)
    BY <2>3 DEF Stores
  <2> QED BY <2>4
<1> QED BY <1>2, <1>3

\* Replay is the last of the list.
LEMMA ReplayIsLast ==
    ASSUME NEW s, Len(s) \in Nat
    PROVE  \E g : Stores(g, s, Len(s)) /\ Replay(s) = g[Len(s)]
<1> DEFINE after == CHOOSE g : Stores(g, s, Len(s))
<1>1. Stores(after, s, Len(s))
  BY StoresExist
<1>2. Replay(s) = after[Len(s)]
  BY DEF Replay, Stores
<1> QED BY <1>1, <1>2

\* Its first element is the empty store, and each later one takes one transaction more.
LEMMA StoresSteps ==
    ASSUME NEW g, NEW s, NEW n \in Nat, Stores(g, s, n)
    PROVE  /\ g[0] = <<>>
           /\ \A k \in 1 .. n : g[k] = IF FirstTime(s, k) THEN StoreAfter(g[k - 1], s[k].payload)
                                       ELSE g[k - 1]
<1>1. \A k \in 0 .. n : g[k] = IF k = 0 THEN <<>>
                               ELSE IF FirstTime(s, k) THEN StoreAfter(g[k - 1], s[k].payload)
                               ELSE g[k - 1]
  BY DEF Stores
<1> QED BY <1>1

\* What comes later does not change what was there before.
SameStart(s, t, n) == \A i \in 1 .. n : s[i] = t[i]

\* Logs with the same first n transactions have the same first n stores.
LEMMA StoresPrefix ==
    ASSUME NEW s, NEW t, NEW n \in Nat, NEW m \in Nat, n <= m, SameStart(s, t, n),
           NEW g, Stores(g, s, n), NEW h, Stores(h, t, m)
    PROVE  g[n] = h[n]
<1> DEFINE Bad == {k \in 0 .. n : g[k] # h[k]}
<1> SUFFICES ASSUME Bad # {} PROVE FALSE
  OBVIOUS
<1>1. PICK k \in Bad : \A j \in Bad : k <= j
  <2>1. Bad \subseteq Nat
    OBVIOUS
  <2> QED BY <2>1, LeastNumber
<1>2. CASE k = 0
  BY <1>2, StoresSteps
<1>3. CASE k # 0
  <2>1. k \in 1 .. n /\ k \in 1 .. m /\ k - 1 \in 0 .. n /\ ~(k <= k - 1)
    BY <1>3
  <2>2. g[k - 1] = h[k - 1] /\ g[k] # h[k]
    BY <1>1, <2>1
  <2> HIDE DEF Bad
  <2>3. /\ g[k] = IF FirstTime(s, k) THEN StoreAfter(g[k - 1], s[k].payload) ELSE g[k - 1]
        /\ h[k] = IF FirstTime(t, k) THEN StoreAfter(h[k - 1], t[k].payload) ELSE h[k - 1]
    BY <2>1, StoresSteps
  <2>4. s[k] = t[k] /\ \A j \in 1 .. (k - 1) : s[j] = t[j]
    BY <2>1 DEF SameStart
  <2>5. FirstTime(s, k) <=> FirstTime(t, k)
    BY <2>4 DEF FirstTime
  <2> QED BY <2>2, <2>3, <2>4, <2>5
<1> QED BY <1>2, <1>3

\* The cache has an entry for each of the first n transactions of s.
Cached(kv, s, n) ==
    DOMAIN kv.cache = {dedupKey(s[i].payload) : i \in {j \in 1 .. n : CanDecode(s[j].payload)}}

\* The members of S are told apart by the key of the cache.
Distinct(S) ==
    \A t, u \in S : CanDecode(t.payload) /\ CanDecode(u.payload) /\ dedupKey(t.payload) = dedupKey(u.payload)
                    => t = u

\* Transactions that clients have sent differ in their key.
LEMMA GenuineDistinct == \A S : Genuine(S) => Distinct(S)
<1> SUFFICES ASSUME NEW S, Genuine(S), NEW t \in S, NEW u \in S, CanDecode(t.payload), CanDecode(u.payload),
                    dedupKey(t.payload) = dedupKey(u.payload)
             PROVE  t = u
  BY DEF Distinct
<1>1. <<t.cid, t.tid>> = <<u.cid, u.tid>>
  BY DEF Genuine
<1> QED BY <1>1 DEF Genuine

\* One transaction more.
LEMMA CachedStep ==
    ASSUME NEW S, Distinct(S), NEW s \in Seq(S), NEW k \in 1 .. Len(s), NEW kv, Cached(kv, s, k - 1),
           NEW new, new = KVAfter(kv, s[k])
    PROVE  /\ Cached(new, s, k)
           /\ new.store = IF FirstTime(s, k) THEN StoreAfter(kv.store, s[k].payload) ELSE kv.store
<1> DEFINE p == s[k].payload
<1>1. /\ k \in Nat /\ \A j \in 1 .. k : j \in 1 .. (k - 1) \/ j = k
      /\ \A j \in 1 .. k : s[j] \in S /\ (1 .. (k - 1)) \subseteq 1 .. k /\ k \in 1 .. k
  OBVIOUS
<1>2. CASE ~CanDecode(p)
  <2>1. new = kv /\ ~FirstTime(s, k)
    BY <1>2 DEF KVAfter, FirstTime
  <2>2. {j \in 1 .. k : CanDecode(s[j].payload)} = {j \in 1 .. (k - 1) : CanDecode(s[j].payload)}
    BY <1>1, <1>2
  <2> QED BY <2>1, <2>2 DEF Cached
<1>3. CASE CanDecode(p)
  <2>1. dedupKey(p) \in DOMAIN kv.cache <=> ~FirstTime(s, k)
    <3>1. ASSUME dedupKey(p) \in DOMAIN kv.cache PROVE ~FirstTime(s, k)
      <4>1. PICK j \in 1 .. (k - 1) : CanDecode(s[j].payload) /\ dedupKey(p) = dedupKey(s[j].payload)
        BY <3>1 DEF Cached
      <4>2. s[j] = s[k]
        BY <1>1, <1>3, <4>1 DEF Distinct
      <4> QED BY <4>2 DEF FirstTime
    <3>2. ASSUME ~FirstTime(s, k) PROVE dedupKey(p) \in DOMAIN kv.cache
      <4>1. PICK j \in 1 .. (k - 1) : s[j] = s[k]
        BY <1>3, <3>2 DEF FirstTime
      <4> QED BY <1>3, <4>1 DEF Cached
    <3> QED BY <3>1, <3>2
  <2>2. {dedupKey(s[i].payload) : i \in {j \in 1 .. k : CanDecode(s[j].payload)}}
          = {dedupKey(s[i].payload) : i \in {j \in 1 .. (k - 1) : CanDecode(s[j].payload)}} \cup {dedupKey(p)}
    BY <1>1, <1>3
  <2>3. CASE dedupKey(p) \in DOMAIN kv.cache
    <3>1. new = kv
      BY <1>3, <2>3 DEF KVAfter, execute
    <3>2. DOMAIN kv.cache = DOMAIN kv.cache \cup {dedupKey(p)}
      BY <2>3
    <3> QED BY <2>1, <2>2, <2>3, <3>1, <3>2 DEF Cached
  <2>4. CASE dedupKey(p) \notin DOMAIN kv.cache
    <3>1. new.store = StoreAfter(kv.store, p) /\ DOMAIN new.cache = DOMAIN kv.cache \cup {dedupKey(p)}
      BY <1>3, <2>4 DEF KVAfter, execute, WithEntry
    <3> QED BY <2>1, <2>2, <2>4, <3>1 DEF Cached
  <2> QED BY <2>3, <2>4
<1> QED BY <1>2, <1>3

\* A block more.
LEMMA CachedBlock ==
    ASSUME NEW S, Distinct(S), NEW s \in Seq(S), NEW b \in Seq(S), NEW x, DOMAIN x = Fields,
           x.kv.store = Replay(s), Cached(x.kv, s, Len(s)),
           NEW z, z = replyTransactions(x, b)
    PROVE  z.kv.store = Replay(s \o b) /\ Cached(z.kv, s \o b, Len(s \o b))
<1>1. PICK L : L = s \o b
  OBVIOUS
<1>0. PICK n, m, e : n = Len(s) /\ m = Len(b) /\ e = n + m
  OBVIOUS
<1>2. /\ L \in Seq(S) /\ Len(L) = e /\ e \in Nat /\ n <= e /\ n \in Nat /\ m \in Nat
      /\ \A i \in 1 .. n : L[i] = s[i]
      /\ \A i \in 1 .. m : L[n + i] = b[i]
  BY <1>0, <1>1
<1>3. PICK f : Run(f, x, b, m) /\ z = f[m]
  BY <1>0, <1>2, ReplyIsRun
<1>4. PICK g : Stores(g, s, n) /\ Replay(s) = g[n]
  BY <1>0, <1>2, ReplayIsLast
<1>5. PICK h : Stores(h, L, e) /\ Replay(L) = h[e]
  BY <1>2, ReplayIsLast
<1>6. g[n] = h[n]
  <2>1. SameStart(s, L, n)
    BY <1>2 DEF SameStart
  <2>2. n \in Nat /\ e \in Nat /\ n <= e
    BY <1>2
  <2>3. Stores(g, s, n) /\ Stores(h, L, e)
    BY <1>4, <1>5
  <2> QED BY <2>1, <2>2, <2>3, StoresPrefix
<1> DEFINE Good(k) == DOMAIN f[k] = Fields /\ f[k].kv.store = h[n + k] /\ Cached(f[k].kv, L, n + k)
           Bad == {k \in 0 .. m : ~Good(k)}
<1>7. Good(0)
  <2>1. f[0] = x /\ n + 0 = n
    BY <1>2, <1>3, RunSteps
  <2>2. Cached(x.kv, L, n)
    <3>1. Cached(x.kv, s, n)
      BY <1>0
    <3>2. \A j \in 1 .. n : L[j] = s[j]
      BY <1>2
    <3>3. {j \in 1 .. n : CanDecode(s[j].payload)} = {j \in 1 .. n : CanDecode(L[j].payload)}
      BY <3>2
    <3>4. {dedupKey(s[i].payload) : i \in {j \in 1 .. n : CanDecode(s[j].payload)}}
            = {dedupKey(L[i].payload) : i \in {j \in 1 .. n : CanDecode(L[j].payload)}}
      BY <3>2, <3>3
    <3> QED BY <3>1, <3>4 DEF Cached
  <2> QED BY <1>4, <1>6, <2>1, <2>2
<1>8. ASSUME NEW k \in 1 .. m, Good(k - 1) PROVE Good(k)
  <2>1. f[k] = ExecuteTransaction(f[k - 1], b[k])
    BY <1>2, <1>3, <1>8, RunSteps
  <2>2. DOMAIN f[k] = Fields /\ f[k].kv = KVAfter(f[k - 1].kv, b[k])
    BY <1>8, <2>1, ExecuteTransactionFacts DEF Unmoved
  <2>3. PICK j : j = n + k
    OBVIOUS
  <2>4. b[k] = L[j] /\ j \in 1 .. e /\ n + (k - 1) = j - 1
    BY <1>0, <1>2, <1>8, <2>3
  <2>5. h[j] = IF FirstTime(L, j) THEN StoreAfter(h[j - 1], L[j].payload) ELSE h[j - 1]
    BY <1>2, <1>5, <2>4, StoresSteps
  <2>6. Cached(f[k - 1].kv, L, j - 1) /\ f[k - 1].kv.store = h[j - 1]
    BY <1>8, <2>4
  <2> HIDE DEF Good
  <2>7. f[k].kv = KVAfter(f[k - 1].kv, L[j]) /\ j \in 1 .. Len(L)
    BY <1>2, <2>2, <2>4
  <2>8. /\ Cached(f[k].kv, L, j)
        /\ f[k].kv.store = IF FirstTime(L, j) THEN StoreAfter(f[k - 1].kv.store, L[j].payload)
                           ELSE f[k - 1].kv.store
    <3>1. L \in Seq(S)
      BY <1>2
    <3>2. PICK kv, new : kv = f[k - 1].kv /\ new = f[k].kv
      OBVIOUS
    <3>3. Cached(kv, L, j - 1) /\ new = KVAfter(kv, L[j])
      BY <2>6, <2>7, <3>2
    <3>4. /\ Cached(new, L, j)
          /\ new.store = IF FirstTime(L, j) THEN StoreAfter(kv.store, L[j].payload) ELSE kv.store
      BY <2>7, <3>1, <3>3, CachedStep
    <3> QED BY <3>2, <3>4
  <2> QED BY <2>2, <2>3, <2>5, <2>6, <2>8 DEF Good
<1>9. Bad = {}
  <2> SUFFICES ASSUME Bad # {} PROVE FALSE
    OBVIOUS
  <2> HIDE DEF Good
  <2>1. PICK k \in Bad : \A j \in Bad : k <= j
    <3>1. Bad \subseteq Nat
      BY <1>2
    <3> QED BY <3>1, LeastNumber
  <2>2. k # 0
    BY <1>7
  <2>3. k \in 1 .. m /\ k - 1 \in 0 .. m /\ ~(k <= k - 1)
    BY <1>2, <2>2
  <2> QED BY <1>8, <2>1, <2>3
<1>10. Good(m)
  <2>1. m \in 0 .. m
    BY <1>2
  <2> HIDE DEF Good
  <2> QED BY <1>9, <2>1
<1> QED BY <1>0, <1>1, <1>2, <1>3, <1>5, <1>10

\* The store of every replica is the replay of its log.
Replayed ==
    \A r \in Replica : rep[r].kv.store = Replay(log[r]) /\ Cached(rep[r].kv, log[r], Len(log[r]))

\* Before the first block store, cache and log are empty.
LEMMA ReplayedInit == Init => Replayed
<1> SUFFICES ASSUME Init, NEW r \in Replica
             PROVE  rep[r].kv.store = Replay(log[r]) /\ Cached(rep[r].kv, log[r], Len(log[r]))
  BY DEF Replayed
<1>1. rep[r].kv = [store |-> <<>>, cache |-> <<>>] /\ log[r] = <<>>
  BY DEF Init
<1>2. Len(<<>>) = 0 /\ 1 .. 0 = {} /\ DOMAIN <<>> = {}
  OBVIOUS
<1>3. Replay(<<>>) = <<>>
  <2>1. PICK g : Stores(g, <<>>, 0) /\ Replay(<<>>) = g[0]
    BY <1>2, ReplayIsLast
  <2> QED BY <2>1, StoresSteps
<1>4. Cached([store |-> <<>>, cache |-> <<>>], <<>>, 0)
  BY <1>2 DEF Cached
<1> QED BY <1>1, <1>2, <1>3, <1>4

\* Only Execute touches the executor and the log.
LEMMA ReplayedKept == Served /\ Booked /\ Replayed /\ [Next]_vars => Replayed'
<1> SUFFICES ASSUME Served, Booked, Replayed, [Next]_vars PROVE Replayed'
  OBVIOUS
<1>1. PICK S : Genuine(S) /\ Held(S)
  BY DEF Booked
<1>2. ASSUME log' = log, \A r \in Replica : rep'[r].kv = rep[r].kv PROVE Replayed'
  BY <1>2 DEF Replayed
<1>3. DOMAIN rep = Replica /\ \A s \in Replica : DOMAIN rep[s] = Fields
  BY DEF Served, PeersOK
<1>4. CASE UNCHANGED vars
  BY <1>2, <1>4 DEF vars
<1>5. ASSUME NEW c \in Client, send_transactions(c) PROVE Replayed'
  BY <1>2, <1>5 DEF send_transactions
<1>6. ASSUME NEW c \in Client, NEW r \in Replica, handle_start(r, c) \/ handleTransaction(r, c)
      PROVE Replayed'
  <2>1. log' = log
    BY <1>6 DEF handle_start, handleTransaction
  <2>2. CASE handle_start(r, c)
    <3>1. \A s \in Replica : rep'[s].kv = rep[s].kv
      BY <1>3, <2>2 DEF handle_start, Fields
    <3> QED BY <1>2, <2>1, <3>1
  <2>3. CASE handleTransaction(r, c)
    <3>1. PICK p : rep' = [rep EXCEPT ![r].pool = p] \/ rep' = rep
      BY <2>3 DEF handleTransaction
    <3>2. \A s \in Replica : rep'[s].kv = rep[s].kv
      BY <1>3, <3>1 DEF Fields
    <3> QED BY <1>2, <2>1, <3>2
  <2> QED BY <1>6, <2>2, <2>3
<1>7. ASSUME NEW r \in Replica, Propose(r) \/ Abandon(r) PROVE Replayed'
  <2>1. log' = log /\ rep' = [rep EXCEPT ![r].pool = PoolAfter(r)]
    BY <1>7 DEF Propose, Abandon
  <2>2. \A s \in Replica : rep'[s].kv = rep[s].kv
    BY <1>3, <2>1 DEF Fields
  <2> QED BY <1>2, <2>1, <2>2
<1>8. ASSUME NEW r \in Replica, handle_reply(r) \/ Miss(r) PROVE Replayed'
  BY <1>2, <1>8, ReplyOrMiss DEF Elsewhere
<1>9. ASSUME NEW r \in Replica, Execute(r) PROVE Replayed'
  <2>1. PICK b, z : Executing(r, b, z)
    BY <1>9, ExecuteFacts
  <2>2. log[r] \in Seq(S) /\ b \in Seq(S) /\ Distinct(S)
    BY <1>1, <2>1, BlockHeld, GenuineDistinct DEF Executing, Held
  <2>3. /\ DOMAIN rep[r] = Fields /\ rep[r].kv.store = Replay(log[r])
        /\ Cached(rep[r].kv, log[r], Len(log[r])) /\ z = replyTransactions(rep[r], b)
    BY <2>1 DEF Replayed, Executing
  <2>4. z.kv.store = Replay(log[r] \o b) /\ Cached(z.kv, log[r] \o b, Len(log[r] \o b))
    BY <2>2, <2>3, CachedBlock
  <2>5. /\ log'[r] = log[r] \o b /\ rep'[r].kv = z.kv
        /\ \A s \in Replica \ {r} : log'[s] = log[s] /\ rep'[s] = rep[s]
    BY <1>1, <2>1 DEF Executing, Held
  <2> QED BY <2>4, <2>5 DEF Replayed
<1>10. CASE Next
  BY <1>5, <1>6, <1>7, <1>8, <1>9, <1>10 DEF Next
<1> QED BY <1>4, <1>10

-----------------------------------------------------------------------------
(* Where the copy of a transaction is *)

\* Exactly one of the four sets has a member, and only one.
OneOf(U, N, C, A) ==
    \/ (\E i : U = {i}) /\ N = {} /\ C = {} /\ A = {}
    \/ (\E i : N = {i}) /\ U = {} /\ C = {} /\ A = {}
    \/ (\E x : C = {x}) /\ U = {} /\ N = {} /\ A = {}
    \/ (\E x : A = {x}) /\ U = {} /\ N = {} /\ C = {}

\* Then the sizes of the four sets add up to one.
LEMMA OneOfCounts ==
    ASSUME NEW U, NEW N, NEW C, NEW A, OneOf(U, N, C, A)
    PROVE  Cardinality(U) + Cardinality(N) + Cardinality(C) + Cardinality(A) = 1
<1>1. Cardinality({}) = 0 /\ \A x : Cardinality({x}) = 1
  BY FS_EmptySet, FS_Singleton
<1>2. CASE (\E i : U = {i}) /\ N = {} /\ C = {} /\ A = {}
  <2>1. Cardinality(U) = 1 /\ Cardinality(N) = 0 /\ Cardinality(C) = 0 /\ Cardinality(A) = 0
    BY <1>1, <1>2
  <2> QED BY <2>1
<1>3. CASE (\E i : N = {i}) /\ U = {} /\ C = {} /\ A = {}
  <2>1. Cardinality(N) = 1 /\ Cardinality(U) = 0 /\ Cardinality(C) = 0 /\ Cardinality(A) = 0
    BY <1>1, <1>3
  <2> QED BY <2>1
<1>4. CASE (\E x : C = {x}) /\ U = {} /\ N = {} /\ A = {}
  <2>1. Cardinality(C) = 1 /\ Cardinality(U) = 0 /\ Cardinality(N) = 0 /\ Cardinality(A) = 0
    BY <1>1, <1>4
  <2> QED BY <2>1
<1>5. CASE (\E x : A = {x}) /\ U = {} /\ N = {} /\ C = {}
  <2>1. Cardinality(A) = 1 /\ Cardinality(U) = 0 /\ Cardinality(N) = 0 /\ Cardinality(C) = 0
    BY <1>1, <1>5
  <2> QED BY <2>1
<1> QED BY <1>2, <1>3, <1>4, <1>5 DEF OneOf

\* The copy of transaction tid of c for r is at one place.
Placed(c, tid, r) ==
    OneOf(OnTheWay(c, tid, r), Copies(rep[r].pool, c, tid), InChain(c, tid, r), InAbandoned(c, tid, r))

AllPlaced == \A c \in Client : \A tid \in 1 .. (client[c].next - 1) : \A r \in Replica : Placed(c, tid, r)

\* Positions of a transaction in a sequence with one more at the end,
LEMMA InAppend ==
    ASSUME NEW S, NEW s \in Seq(S), NEW t, NEW w, w = Append(s, t)
    PROVE  \A c, tid : \A i : i \in Copies(w, c, tid) <=>
             i \in Copies(s, c, tid) \/ (i = Len(s) + 1 /\ t.cid = c /\ t.tid = tid)
<1>1. /\ Len(w) = Len(s) + 1 /\ Len(s) \in Nat /\ w[Len(s) + 1] = t
      /\ \A i \in 1 .. Len(s) : w[i] = s[i]
      /\ DOMAIN w = 1 .. (Len(s) + 1) /\ DOMAIN s = 1 .. Len(s)
  OBVIOUS
<1>2. \A i : i \in DOMAIN w <=> i \in DOMAIN s \/ i = Len(s) + 1
  BY <1>1
<1>3. Len(s) + 1 \notin DOMAIN s
  BY <1>1
<1> QED BY <1>1, <1>2, <1>3 DEF Copies

\* in its first k, and in the rest.
First(N, k) == {i \in N : i <= k}
Rest(N, k) == {i - k : i \in {j \in N : j > k}}

Halves(s, k, b, w) == b = SubSeq(s, 1, k) /\ w = SubSeq(s, k + 1, Len(s))

\* The first k positions and the rest, as positions of the two halves.
LEMMA InSplit ==
    ASSUME NEW S, NEW s \in Seq(S), NEW k \in 0 .. Len(s),
           NEW b, NEW w, Halves(s, k, b, w)
    PROVE  \A c, tid : Copies(b, c, tid) = First(Copies(s, c, tid), k) /\ Copies(w, c, tid) = Rest(Copies(s, c, tid), k)
<1> TAKE c, tid
<1>1. /\ Len(s) \in Nat /\ k \in Nat /\ DOMAIN s = 1 .. Len(s)
      /\ DOMAIN b = 1 .. k /\ \A i \in 1 .. k : b[i] = s[i]
      /\ DOMAIN w = 1 .. (Len(s) - k) /\ \A i \in 1 .. (Len(s) - k) : w[i] = s[i + k]
  BY DEF Halves
<1>2. Copies(b, c, tid) = {i \in Copies(s, c, tid) : i <= k}
  <2>1. \A i : i \in 1 .. k <=> i \in 1 .. Len(s) /\ i <= k
    BY <1>1
  <2> QED BY <1>1, <2>1 DEF Copies
<1>3. ASSUME NEW j \in Copies(w, c, tid) PROVE j \in {i - k : i \in {l \in Copies(s, c, tid) : l > k}}
  <2>1. j \in 1 .. (Len(s) - k) /\ w[j] = s[j + k] /\ w[j].cid = c /\ w[j].tid = tid
    BY <1>1, <1>3 DEF Copies
  <2>2. j + k \in 1 .. Len(s) /\ j + k > k /\ (j + k) - k = j
    BY <1>1, <2>1
  <2>3. j + k \in Copies(s, c, tid)
    BY <1>1, <2>1, <2>2 DEF Copies
  <2> QED BY <2>2, <2>3
<1>4. ASSUME NEW i \in Copies(s, c, tid), i > k PROVE i - k \in Copies(w, c, tid)
  <2>1. i \in 1 .. Len(s) /\ s[i].cid = c /\ s[i].tid = tid
    BY <1>1, <1>4 DEF Copies
  <2>2. i - k \in 1 .. (Len(s) - k) /\ (i - k) + k = i
    BY <1>1, <1>4, <2>1
  <2>3. w[i - k] = s[i]
    BY <1>1, <2>2
  <2> QED BY <1>1, <2>1, <2>2, <2>3 DEF Copies
<1>5. Copies(w, c, tid) = {i - k : i \in {j \in Copies(s, c, tid) : j > k}}
  BY <1>3, <1>4
<1> QED BY <1>2, <1>5 DEF First, Rest

\* The connection after a message was taken.
LEMMA OnTheWayTaken ==
    ASSUME NEW c \in Client, NEW r \in Replica, NEW S, Traffic(S), up[c][r] # <<>>,
           up' = [up EXCEPT ![c][r] = Tail(@)], NEW tid
    PROVE  /\ OnTheWay(c, tid, r) \subseteq Nat
           /\ 1 \in OnTheWay(c, tid, r) <=> Head(up[c][r]).type = "transaction" /\ Head(up[c][r]).trans.tid = tid
           /\ OnTheWay(c, tid, r)' = {i - 1 : i \in OnTheWay(c, tid, r) \ {1}}
<1>1. Taken(c, r, S)
  BY TakeFacts
<1>2. PICK M : up[c][r] \in Seq(M) /\ up' [c][r] = Tail(up[c][r])
  BY DEF Traffic
<1> DEFINE u == up[c][r]
           w == up'[c][r]
<1>3. /\ Len(u) \in Nat \ {0} /\ DOMAIN u = 1 .. Len(u) /\ DOMAIN w = 1 .. (Len(u) - 1)
      /\ u[1] = Head(u) /\ \A i \in 1 .. (Len(u) - 1) : w[i] = u[i + 1]
  <2> HIDE DEF u
  <2>1. u \in Seq(M) /\ u # <<>> /\ w = Tail(u)
    BY <1>2 DEF u
  <2> QED BY <2>1
<1>4. /\ OnTheWay(c, tid, r) = {i \in DOMAIN u : u[i].type = "transaction" /\ u[i].trans.tid = tid}
      /\ OnTheWay(c, tid, r)' = {i \in DOMAIN w : w[i].type = "transaction" /\ w[i].trans.tid = tid}
  BY DEF OnTheWay
<1> DEFINE O == OnTheWay(c, tid, r)
           Q == OnTheWay(c, tid, r)'
<1> HIDE DEF u, w
<1>5. O \subseteq Nat /\ (1 \in O <=> Head(u).type = "transaction" /\ Head(u).trans.tid = tid)
  BY <1>3, <1>4
<1>6. ASSUME NEW j \in Q PROVE j \in {i - 1 : i \in O \ {1}}
  <2>1. j \in 1 .. (Len(u) - 1) /\ w[j] = u[j + 1] /\ w[j].type = "transaction" /\ w[j].trans.tid = tid
    BY <1>3, <1>4, <1>6
  <2>2. j + 1 \in 1 .. Len(u) /\ j + 1 # 1 /\ (j + 1) - 1 = j
    BY <1>3, <2>1
  <2>3. j + 1 \in O
    BY <1>3, <1>4, <2>1, <2>2
  <2> QED BY <2>2, <2>3
<1>7. ASSUME NEW i \in O, i # 1 PROVE i - 1 \in Q
  <2>1. i \in 1 .. Len(u) /\ u[i].type = "transaction" /\ u[i].trans.tid = tid
    BY <1>3, <1>4, <1>7
  <2>2. i - 1 \in 1 .. (Len(u) - 1) /\ (i - 1) + 1 = i
    BY <1>3, <1>7, <2>1
  <2>3. w[i - 1] = u[i]
    BY <1>3, <2>2
  <2> QED BY <1>3, <1>4, <2>1, <2>2, <2>3
<1>8. Q = {i - 1 : i \in O \ {1}}
  BY <1>6, <1>7
<1> QED BY <1>5, <1>8 DEF u

\* The chain and the abandoned blocks after r made block b.
LEMMA InChainGrows ==
    ASSUME NEW B, chain \in Seq(B), proposer \in Seq(Replica), Len(proposer) = Len(chain),
           NEW b \in B, NEW s \in Replica, chain' = Append(chain, b), proposer' = Append(proposer, s),
           NEW c, NEW tid, NEW r
    PROVE  InChain(c, tid, r)' = IF s = r THEN InChain(c, tid, r) \cup ({Len(chain) + 1} \X Copies(b, c, tid))
                                 ELSE InChain(c, tid, r)
<1> DEFINE l == Len(chain)
           D == {m \in DOMAIN chain : proposer[m] = r}
           E == {m \in DOMAIN chain' : proposer'[m] = r}
           G(n) == {n} \X Copies(chain[n], c, tid)
           H(n) == {n} \X Copies(chain'[n], c, tid)
           N == {l + 1} \X Copies(b, c, tid)
<1>1. /\ l \in Nat /\ DOMAIN chain = 1 .. l /\ DOMAIN chain' = 1 .. (l + 1)
      /\ chain'[l + 1] = b /\ \A n \in 1 .. l : chain'[n] = chain[n]
  OBVIOUS
<1>2. proposer'[l + 1] = s /\ \A n \in 1 .. l : proposer'[n] = proposer[n]
  OBVIOUS
<1>3. \A n : n \in 1 .. (l + 1) <=> n \in 1 .. l \/ n = l + 1
  BY <1>1
<1>4. l + 1 \notin 1 .. l
  BY <1>1
<1>5. /\ InChain(c, tid, r) = UNION {G(n) : n \in D}
      /\ InChain(c, tid, r)' = UNION {H(n) : n \in E}
  BY DEF InChain, Copies
<1>6. E = IF s = r THEN D \cup {l + 1} ELSE D
  BY <1>1, <1>2, <1>3, <1>4
<1>7. (\A n \in D : G(n) = H(n)) /\ H(l + 1) = N
  BY <1>1
<1> HIDE DEF D, E, G, H, N
<1>8. \A p : p \in UNION {G(n) : n \in D} <=> \E n \in D : p \in G(n)
  OBVIOUS
<1>9. \A p : p \in UNION {H(n) : n \in E} <=> \E n \in E : p \in H(n)
  OBVIOUS
<1>10. \A p : p \in InChain(c, tid, r)' <=> p \in InChain(c, tid, r) \/ (s = r /\ p \in N)
  BY <1>5, <1>6, <1>7, <1>8, <1>9
<1>11. CASE s = r
  <2>1. InChain(c, tid, r)' = InChain(c, tid, r) \cup N
    BY <1>10, <1>11
  <2> QED BY <1>11, <2>1 DEF N
<1>12. CASE s # r
  <2>1. InChain(c, tid, r)' = InChain(c, tid, r)
    BY <1>10, <1>12
  <2> QED BY <1>12, <2>1
<1> QED BY <1>11, <1>12

\* The same for a proposal that is abandoned.
LEMMA InAbandonedGrows ==
    ASSUME NEW b, NEW s, abandoned' = abandoned \cup {<<s, b>>}, NEW c, NEW tid, NEW r
    PROVE  InAbandoned(c, tid, r)' = IF s = r THEN InAbandoned(c, tid, r) \cup ({<<s, b>>} \X Copies(b, c, tid))
                                     ELSE InAbandoned(c, tid, r)
<1> DEFINE D == {a \in abandoned : a[1] = r}
           E == {a \in abandoned' : a[1] = r}
           G(a) == {a} \X Copies(a[2], c, tid)
           e == <<s, b>>
           N == {e} \X Copies(b, c, tid)
<1>1. /\ InAbandoned(c, tid, r) = UNION {G(a) : a \in D}
      /\ InAbandoned(c, tid, r)' = UNION {G(a) : a \in E}
  BY DEF InAbandoned, Copies
<1>2. E = IF s = r THEN D \cup {e} ELSE D
  OBVIOUS
<1>3. G(e) = N
  OBVIOUS
<1> HIDE DEF D, E, G, N, e
<1>4. \A p : p \in UNION {G(a) : a \in D} <=> \E a \in D : p \in G(a)
  OBVIOUS
<1>5. \A p : p \in UNION {G(a) : a \in E} <=> \E a \in E : p \in G(a)
  OBVIOUS
<1>6. \A p : p \in InAbandoned(c, tid, r)' <=> p \in InAbandoned(c, tid, r) \/ (s = r /\ p \in N)
  BY <1>1, <1>2, <1>3, <1>4, <1>5
<1>7. CASE s = r
  <2>1. InAbandoned(c, tid, r)' = InAbandoned(c, tid, r) \cup N
    BY <1>6, <1>7
  <2> QED BY <1>7, <2>1 DEF N, e
<1>8. CASE s # r
  <2>1. InAbandoned(c, tid, r)' = InAbandoned(c, tid, r)
    BY <1>6, <1>8
  <2> QED BY <1>8, <2>1
<1> QED BY <1>7, <1>8

\* What was at the first k positions of N goes to F, the rest moves up.
LEMMA OneOfSplit ==
    ASSUME NEW U, NEW N, NEW C, NEW A, OneOf(U, N, C, A), N \subseteq Nat, NEW k \in Nat,
           NEW F, F = First(N, k), NEW R, R = Rest(N, k), NEW v
    PROVE  OneOf(U, R, C \cup ({v} \X F), A) /\ OneOf(U, R, C, A \cup ({v} \X F))
<1>1. CASE \E i : N = {i}
  <2>1. PICK i : N = {i}
    BY <1>1
  <2>2. U = {} /\ C = {} /\ A = {}
    BY <2>1 DEF OneOf
  <2>3. CASE i <= k
    <3>1. F = {i} /\ ~(i > k)
      BY <2>1, <2>3 DEF First
    <3>2. R = {}
      BY <2>1, <3>1 DEF Rest
    <3>3. {v} \X F = {<<v, i>>}
      BY <3>1
    <3> QED BY <2>2, <3>2, <3>3 DEF OneOf
  <2>4. CASE ~(i <= k)
    <3>1. F = {} /\ i > k
      BY <2>1, <2>4 DEF First
    <3>2. R = {i - k}
      BY <2>1, <3>1 DEF Rest
    <3>3. {v} \X F = {}
      BY <3>1
    <3> QED BY <2>2, <3>2, <3>3 DEF OneOf
  <2> QED BY <2>3, <2>4
<1>2. CASE N = {}
  <2>1. F = {} /\ R = {}
    BY <1>2 DEF First, Rest
  <2>2. {v} \X F = {}
    BY <2>1
  <2>3. C \cup {} = C /\ A \cup {} = A
    OBVIOUS
  <2> QED BY <1>2, <2>1, <2>2, <2>3
<1> QED BY <1>1, <1>2 DEF OneOf

\* Steps that leave the four sets alone.
LEMMA PlacedStill ==
    ASSUME NEW c, NEW tid, NEW r, Placed(c, tid, r),
           OnTheWay(c, tid, r)' = OnTheWay(c, tid, r),
           Copies(rep'[r].pool, c, tid) = Copies(rep[r].pool, c, tid),
           InChain(c, tid, r)' = InChain(c, tid, r),
           InAbandoned(c, tid, r)' = InAbandoned(c, tid, r)
    PROVE  Placed(c, tid, r)'
<1>1. Copies(rep[r].pool, c, tid)' = Copies(rep[r].pool, c, tid)
  BY DEF Copies
<1> QED BY <1>1 DEF Placed, OneOf

\* Replies and timeouts move no transaction.
LEMMA PlacedElsewhere ==
    ASSUME AllPlaced, Elsewhere
    PROVE  AllPlaced'
<1> SUFFICES ASSUME NEW c \in Client, NEW tid \in 1 .. (client'[c].next - 1), NEW r \in Replica
             PROVE  Placed(c, tid, r)'
  BY DEF AllPlaced
<1>1. Placed(c, tid, r)
  BY DEF AllPlaced, Elsewhere
<1>2. /\ OnTheWay(c, tid, r)' = OnTheWay(c, tid, r)
      /\ Copies(rep'[r].pool, c, tid) = Copies(rep[r].pool, c, tid)
      /\ InChain(c, tid, r)' = InChain(c, tid, r)
      /\ InAbandoned(c, tid, r)' = InAbandoned(c, tid, r)
  BY DEF Elsewhere, OnTheWay, InChain, InAbandoned, Copies
<1> QED BY <1>1, <1>2, PlacedStill

\* Executing a block moves none either.
LEMMA PlacedExecute ==
    ASSUME Served, AllPlaced, NEW s \in Replica, Execute(s)
    PROVE  AllPlaced'
<1>1. PICK b, z : Executing(s, b, z)
  BY ExecuteFacts
<1> SUFFICES ASSUME NEW c \in Client, NEW tid \in 1 .. (client'[c].next - 1), NEW r \in Replica
             PROVE  Placed(c, tid, r)'
  BY DEF AllPlaced
<1>2. Placed(c, tid, r)
  BY <1>1 DEF AllPlaced, Executing
<1>3. /\ OnTheWay(c, tid, r)' = OnTheWay(c, tid, r)
      /\ Copies(rep'[r].pool, c, tid) = Copies(rep[r].pool, c, tid)
      /\ InChain(c, tid, r)' = InChain(c, tid, r)
      /\ InAbandoned(c, tid, r)' = InAbandoned(c, tid, r)
  BY <1>1 DEF Executing, OnTheWay, InChain, InAbandoned, Copies
<1> QED BY <1>2, <1>3, PlacedStill

\* Nobody has seen a transaction before its client sends it.
LEMMA Unseen ==
    ASSUME NEW S, Genuine(S), Held(S), NEW c \in Client, NEW tid, tid = client[c].next, tid \in Nat, NEW r \in Replica
    PROVE  Copies(rep[r].pool, c, tid) = {} /\ InChain(c, tid, r) = {} /\ InAbandoned(c, tid, r) = {}
<1>1. \A t \in S : ~(t.cid = c /\ t.tid = tid)
  BY DEF Genuine
<1>2. \A b \in Seq(S) : Copies(b, c, tid) = {}
  BY <1>1 DEF Copies
<1>3. Copies(rep[r].pool, c, tid) = {}
  BY <1>2 DEF Held
<1>4. InChain(c, tid, r) = {}
  <2>1. \A n \in DOMAIN chain : Copies(chain[n], c, tid) = {}
    <3> DEFINE B == Seq(S)
    <3>1. chain \in Seq(B)
      BY DEF Held
    <3> HIDE DEF B
    <3>2. \A n \in DOMAIN chain : chain[n] \in B
      BY <3>1
    <3> QED BY <1>2, <3>2 DEF B
  <2>2. \A n \in DOMAIN chain : {n} \X Copies(chain[n], c, tid) = {}
    BY <2>1
  <2> QED BY <2>2 DEF InChain
<1>5. InAbandoned(c, tid, r) = {}
  <2>1. \A a \in abandoned : {a} \X Copies(a[2], c, tid) = {}
    BY <1>2 DEF Held
  <2> QED BY <2>1 DEF InAbandoned
<1> QED BY <1>3, <1>4, <1>5

\* The connection after a transaction was sent.
Transit(u, tid) == {i \in DOMAIN u : u[i].type = "transaction" /\ u[i].trans.tid = tid}

\* It is the last message, and the others stay where they are.
LEMMA OnTheWaySent ==
    ASSUME NEW M, NEW u \in Seq(M), NEW t, NEW w, w = Append(u, MsgTransaction(t))
    PROVE  \A tid : \A i : i \in Transit(w, tid) <=>
             i \in Transit(u, tid) \/ (i = Len(u) + 1 /\ t.tid = tid)
<1>1. /\ Len(w) = Len(u) + 1 /\ Len(u) \in Nat /\ w[Len(u) + 1] = MsgTransaction(t)
      /\ \A i \in 1 .. Len(u) : w[i] = u[i]
      /\ DOMAIN w = 1 .. (Len(u) + 1) /\ DOMAIN u = 1 .. Len(u)
  OBVIOUS
<1>2. \A i : i \in DOMAIN w <=> i \in DOMAIN u \/ i = Len(u) + 1
  BY <1>1
<1>3. Len(u) + 1 \notin DOMAIN u
  BY <1>1
<1>4. MsgTransaction(t).type = "transaction" /\ MsgTransaction(t).trans = t
  BY DEF MsgTransaction
<1> QED BY <1>1, <1>2, <1>3, <1>4 DEF Transit

\* A new transaction is on its way to every replica and nowhere else.
LEMMA PlacedSend ==
    ASSUME Served, Booked, AllPlaced, NEW d \in Client, send_transactions(d)
    PROVE  AllPlaced'
<1>1. PICK S : Genuine(S) /\ Held(S)
  BY DEF Booked
<1>2. PICK trans : Sending(d, trans)
  BY SendFacts
<1>3. PICK M : up \in [Client -> [Replica -> Seq(M)]]
  BY DEF Served, Traffic
<1>4. /\ client[d].next \in Nat \ {0} /\ trans.tid = client[d].next
      /\ client'[d].next = client[d].next + 1 /\ \A c \in Client \ {d} : client'[c] = client[c]
  <2>1. ClientsOK /\ client[d].next \in Nat \ {0}
    BY DEF Served, ClientsOK
  <2> QED BY <1>2, <2>1 DEF Sending, ClientsOK
<1> SUFFICES ASSUME NEW c \in Client, NEW tid \in 1 .. (client'[c].next - 1), NEW r \in Replica
             PROVE  Placed(c, tid, r)'
  BY DEF AllPlaced
<1>5. /\ Copies(rep'[r].pool, c, tid) = Copies(rep[r].pool, c, tid)
      /\ InChain(c, tid, r)' = InChain(c, tid, r)
      /\ InAbandoned(c, tid, r)' = InAbandoned(c, tid, r)
  BY <1>2 DEF Sending, InChain, InAbandoned, Copies
<1>6. /\ OnTheWay(c, tid, r) = {i \in DOMAIN up[c][r] : up[c][r][i].type = "transaction" /\ up[c][r][i].trans.tid = tid}
      /\ OnTheWay(c, tid, r)' = {i \in DOMAIN up'[c][r] : up'[c][r][i].type = "transaction" /\ up'[c][r][i].trans.tid = tid}
  BY DEF OnTheWay
<1>7. CASE c # d
  <2>1. up'[c] = up[c] /\ client'[c] = client[c]
    BY <1>2, <1>3, <1>4, <1>7 DEF Sending
  <2>2. Placed(c, tid, r)
    BY <2>1 DEF AllPlaced
  <2>3. OnTheWay(c, tid, r)' = OnTheWay(c, tid, r)
    BY <1>6, <2>1
  <2> QED BY <1>5, <2>2, <2>3, PlacedStill
<1>8. CASE c = d
  <2>1. up'[c][r] = Append(up[c][r], MsgTransaction(trans)) /\ up[c][r] \in Seq(M)
    BY <1>2, <1>3, <1>8 DEF Sending
  <2>2. OnTheWay(c, tid, r)' = IF trans.tid = tid THEN OnTheWay(c, tid, r) \cup {Len(up[c][r]) + 1}
                               ELSE OnTheWay(c, tid, r)
    <3>1. PICK u, w : u = up[c][r] /\ w = up'[c][r]
      OBVIOUS
    <3>2. u \in Seq(M) /\ w = Append(u, MsgTransaction(trans))
      BY <2>1, <3>1
    <3>3. \A i : i \in Transit(w, tid) <=> i \in Transit(u, tid) \/ (i = Len(u) + 1 /\ trans.tid = tid)
      BY <3>2, OnTheWaySent
    <3>4. Transit(u, tid) = OnTheWay(c, tid, r) /\ Transit(w, tid) = OnTheWay(c, tid, r)'
      BY <1>6, <3>1 DEF Transit
    <3>5. Transit(w, tid) = IF trans.tid = tid THEN Transit(u, tid) \cup {Len(u) + 1} ELSE Transit(u, tid)
      BY <3>3
    <3> QED BY <3>1, <3>4, <3>5
  <2>3. CASE tid # trans.tid
    <3>1. tid \in 1 .. (client[c].next - 1)
      BY <1>4, <1>8, <2>3
    <3>2. Placed(c, tid, r)
      BY <3>1 DEF AllPlaced
    <3> QED BY <1>5, <2>2, <2>3, <3>2, PlacedStill
  <2>4. CASE tid = trans.tid
    <3>1. Copies(rep[r].pool, c, tid) = {} /\ InChain(c, tid, r) = {} /\ InAbandoned(c, tid, r) = {}
      BY <1>1, <1>4, <1>8, <2>4, Unseen
    <3>2. OnTheWay(c, tid, r) = {}
      <4>1. Connected(S, up[c][r], c) /\ DOMAIN up[c][r] = 1 .. Len(up[c][r])
        BY <1>1, <2>1 DEF Held
      <4>2. \A t \in S : ~(t.cid = c /\ t.tid = tid)
        BY <1>1, <1>4, <1>8, <2>4 DEF Genuine
      <4> QED BY <1>6, <4>1, <4>2 DEF Connected
    <3>3. OnTheWay(c, tid, r)' = {Len(up[c][r]) + 1}
      BY <2>2, <2>4, <3>2
    <3>4. Copies(rep[r].pool, c, tid)' = {} /\ InChain(c, tid, r)' = {} /\ InAbandoned(c, tid, r)' = {}
      <4>1. Copies(rep[r].pool, c, tid)' = Copies(rep'[r].pool, c, tid)
        BY DEF Copies
      <4> QED BY <1>5, <3>1, <4>1
    <3> QED BY <3>3, <3>4 DEF Placed, OneOf
  <2> QED BY <2>3, <2>4
<1> QED BY <1>7, <1>8

\* A transaction that r takes from the connection goes to the end of its pool.
LEMMA PlacedTake ==
    ASSUME Served, Booked, AllPlaced, NEW s \in Replica, NEW d \in Client,
           handle_start(s, d) \/ handleTransaction(s, d)
    PROVE  AllPlaced'
<1>1. PICK S : Genuine(S) /\ Held(S)
  BY DEF Booked
<1>2. PICK W : Traffic(W)
  BY DEF Served
<1> DEFINE m == Head(up[d][s])
<1>3. /\ up[d][s] # <<>> /\ up' = [up EXCEPT ![d][s] = Tail(@)]
      /\ UNCHANGED <<client, chain, proposer, abandoned>>
  BY DEF handle_start, handleTransaction
<1>4. DOMAIN rep = Replica /\ \A q \in Replica : DOMAIN rep[q] = Fields
  BY DEF Served, PeersOK
<1>5. \A q \in Replica \ {s} : rep'[q].pool = rep[q].pool
  BY <1>4 DEF handle_start, handleTransaction
<1>6. m.type = "start" \/ m.type = "transaction"
  BY DEF handle_start, handleTransaction
<1>7. m.type = "start" => rep'[s].pool = rep[s].pool
  BY <1>4 DEF handle_start, handleTransaction, Fields
<1>8. m.type = "transaction" => rep'[s].pool = Append(rep[s].pool, m.trans) /\ m.trans.cid = d
  <2> SUFFICES ASSUME m.type = "transaction"
               PROVE  rep'[s].pool = Append(rep[s].pool, m.trans) /\ m.trans.cid = d
    OBVIOUS
  <2>1. d \in rep[s].clients
    BY <1>3, TransactionFinds
  <2>2. rep' = [rep EXCEPT ![s].pool = Append(@, m.trans)]
    BY <2>1 DEF handle_start, handleTransaction
  <2>3. rep'[s].pool = Append(rep[s].pool, m.trans)
    <3> HIDE DEF m
    <3> QED BY <1>4, <2>2 DEF Fields
  <2>4. PICK M : up[d][s] \in Seq(M)
    BY <1>2 DEF Traffic
  <2>5. 1 \in 1 .. Len(up[d][s]) /\ up[d][s][1] = m
    BY <1>3, <2>4
  <2>6. m.trans.cid = d
    BY <1>1, <2>5 DEF Held, Connected
  <2> QED BY <2>3, <2>6
<1> HIDE DEF m
<1> SUFFICES ASSUME NEW c \in Client, NEW tid \in 1 .. (client'[c].next - 1), NEW r \in Replica
             PROVE  Placed(c, tid, r)'
  BY DEF AllPlaced
<1>9. Placed(c, tid, r)
  BY <1>3 DEF AllPlaced
<1>10. InChain(c, tid, r)' = InChain(c, tid, r) /\ InAbandoned(c, tid, r)' = InAbandoned(c, tid, r)
  BY <1>3 DEF InChain, InAbandoned, Copies
<1>11. ASSUME ~(c = d /\ r = s) PROVE OnTheWay(c, tid, r)' = OnTheWay(c, tid, r)
  <2>1. Taken(d, s, W)
    BY <1>2, <1>3, TakeFacts
  <2>2. up'[c][r] = up[c][r]
    BY <1>11, <2>1 DEF Taken
  <2> QED BY <2>2 DEF OnTheWay
<1>12. CASE r # s
  <2>1. Copies(rep'[r].pool, c, tid) = Copies(rep[r].pool, c, tid)
    BY <1>5, <1>12
  <2> QED BY <1>9, <1>10, <1>11, <1>12, <2>1, PlacedStill
<1>13. rep[s].pool \in Seq(S) /\ DOMAIN rep[s].pool = 1 .. Len(rep[s].pool)
  BY <1>1 DEF Held
<1> DEFINE At(q) == Copies(q, c, tid)
<1>20. m.type = "transaction" =>
         At(rep'[s].pool) = IF m.trans.cid = c /\ m.trans.tid = tid THEN At(rep[s].pool) \cup {Len(rep[s].pool) + 1}
                            ELSE At(rep[s].pool)
  <2>1. PICK p, w, t : p = rep[s].pool /\ w = rep'[s].pool /\ t = m.trans
    OBVIOUS
  <2>2. p \in Seq(S)
    BY <1>13, <2>1
  <2>3. ASSUME w = Append(p, t)
        PROVE  \A i : i \in Copies(w, c, tid) <=>
                 i \in Copies(p, c, tid) \/ (i = Len(p) + 1 /\ t.cid = c /\ t.tid = tid)
    BY <2>2, <2>3, InAppend
  <2>4. w = Append(p, t) => Copies(w, c, tid) = IF t.cid = c /\ t.tid = tid THEN Copies(p, c, tid) \cup {Len(p) + 1}
                                               ELSE Copies(p, c, tid)
    BY <2>3
  <2> QED BY <1>8, <2>1, <2>4
<1> HIDE DEF At
<1>14. CASE r = s /\ c # d
  <2>1. Copies(rep'[r].pool, c, tid) = Copies(rep[r].pool, c, tid)
    <3>1. CASE m.type = "start"
      BY <1>7, <1>14, <3>1
    <3>2. CASE m.type = "transaction"
      <4>1. m.trans.cid # c
        BY <1>8, <1>14, <3>2
      <4> QED BY <1>20, <1>14, <3>2, <4>1 DEF At
    <3> QED BY <1>6, <3>1, <3>2
  <2> QED BY <1>9, <1>10, <1>11, <1>14, <2>1, PlacedStill
<1>15. CASE r = s /\ c = d
  <2> DEFINE O == OnTheWay(c, tid, r)
             Q == OnTheWay(c, tid, r)'
             N == Copies(rep[r].pool, c, tid)
  <2>1. /\ O \subseteq Nat /\ Q = {i - 1 : i \in O \ {1}}
        /\ 1 \in O <=> m.type = "transaction" /\ m.trans.tid = tid
    BY <1>2, <1>3, <1>15, OnTheWayTaken DEF m
  <2>2. OneOf(O, N, InChain(c, tid, r), InAbandoned(c, tid, r))
    BY <1>9 DEF Placed
  <2>3. Copies(rep[r].pool, c, tid)' = Copies(rep'[r].pool, c, tid)
    BY DEF Copies
  <2>4. CASE 1 \in O
    <3>1. Copies(rep'[r].pool, c, tid) = N \cup {Len(rep[r].pool) + 1}
      BY <1>8, <1>20, <1>15, <2>1, <2>4 DEF At
    <3> HIDE DEF O, N, Q
    <3>2. O = {1} /\ N = {} /\ InChain(c, tid, r) = {} /\ InAbandoned(c, tid, r) = {}
      BY <2>2, <2>4 DEF OneOf
    <3>3. Q = {} /\ Copies(rep'[r].pool, c, tid) = {Len(rep[r].pool) + 1}
      BY <2>1, <3>1, <3>2
    <3>4. OneOf(Q, Copies(rep'[r].pool, c, tid), InChain(c, tid, r), InAbandoned(c, tid, r))
      BY <3>2, <3>3 DEF OneOf
    <3> QED BY <1>10, <2>3, <3>4 DEF Placed, Q
  <2>5. CASE 1 \notin O
    <3>1. Copies(rep'[r].pool, c, tid) = N
      <4>1. CASE m.type = "start"
        BY <1>7, <1>15, <4>1
      <4>2. CASE m.type = "transaction"
        <5>1. m.trans.tid # tid
          BY <1>8, <1>15, <2>1, <2>5, <4>2
        <5> QED BY <1>20, <1>15, <4>2, <5>1 DEF At
      <4> QED BY <1>6, <4>1, <4>2
    <3> HIDE DEF O, N, Q
    <3>2. Q = {i - 1 : i \in O}
      BY <2>1, <2>5
    <3>3. OneOf(Q, N, InChain(c, tid, r), InAbandoned(c, tid, r))
      <4>1. CASE O = {}
        BY <2>2, <3>2, <4>1 DEF OneOf
      <4>2. CASE \E i : O = {i}
        <5>1. PICK i : O = {i}
          BY <4>2
        <5>2. Q = {i - 1}
          BY <3>2, <5>1
        <5>3. N = {} /\ InChain(c, tid, r) = {} /\ InAbandoned(c, tid, r) = {}
          BY <2>2, <5>1 DEF OneOf
        <5> QED BY <5>2, <5>3 DEF OneOf
      <4> QED BY <2>2, <4>1, <4>2 DEF OneOf
    <3> QED BY <1>10, <2>3, <3>1, <3>3 DEF Placed, Q
  <2> QED BY <2>4, <2>5
<1> QED BY <1>12, <1>14, <1>15

\* What createNewBlock takes is the first k of the pool.
LEMMA BlockSplits ==
    ASSUME NEW S, NEW r \in Replica, rep[r].pool \in Seq(S)
    PROVE  \E k \in 0 .. Len(rep[r].pool) :
             /\ createNewBlock(r) = SubSeq(rep[r].pool, 1, k)
             /\ PoolAfter(r) = SubSeq(rep[r].pool, k + 1, Len(rep[r].pool))
<1> DEFINE p == rep[r].pool
           k == IF Len(p) < BlockSize THEN Len(p) ELSE BlockSize
<1>1. p \in Seq(S) /\ Len(p) \in Nat
  OBVIOUS
<1>2. k \in 0 .. Len(p) /\ k \in Nat
  BY <1>1, ServiceAssumption
<1>3. createNewBlock(r) = SubSeq(p, 1, k)
  BY DEF createNewBlock
<1> HIDE DEF p, k
<1>4. Len(createNewBlock(r)) = k
  BY <1>1, <1>2, <1>3
<1>5. PoolAfter(r) = SubSeq(p, k + 1, Len(p))
  BY <1>4 DEF PoolAfter, p
<1> QED BY <1>2, <1>3, <1>5 DEF p

\* A block holds what the pool of its proposer loses, and the other replicas' copies stay.
LEMMA PlacedPropose ==
    ASSUME Served, Booked, AllPlaced, NEW s \in Replica, Propose(s) \/ Abandon(s)
    PROVE  AllPlaced'
<1>1. PICK S : Genuine(S) /\ Held(S)
  BY DEF Booked
<1>2. DOMAIN rep = Replica /\ \A q \in Replica : DOMAIN rep[q] = Fields
  BY DEF Served, PeersOK
<1>3. PICK b : b = createNewBlock(s)
  OBVIOUS
<1>4. /\ rep' = [rep EXCEPT ![s].pool = PoolAfter(s)] /\ UNCHANGED <<client, up>>
      /\ \/ chain' = Append(chain, b) /\ proposer' = Append(proposer, s) /\ abandoned' = abandoned
         \/ abandoned' = abandoned \cup {<<s, b>>} /\ UNCHANGED <<chain, proposer>>
  BY <1>3 DEF Propose, Abandon
<1>5. b \in Seq(S) /\ rep[s].pool \in Seq(S)
  BY <1>1, <1>3, BlockTyped DEF Held
<1>6. rep'[s].pool = PoolAfter(s) /\ \A q \in Replica \ {s} : rep'[q] = rep[q]
  <2>1. rep'[s].pool = PoolAfter(s)
    BY <1>2, <1>4 DEF Fields
  <2> QED BY <1>2, <1>4, <2>1
<1> SUFFICES ASSUME NEW c \in Client, NEW tid \in 1 .. (client'[c].next - 1), NEW r \in Replica
             PROVE  Placed(c, tid, r)'
  BY DEF AllPlaced
<1>7. Placed(c, tid, r)
  BY <1>4 DEF AllPlaced
<1>8. OnTheWay(c, tid, r)' = OnTheWay(c, tid, r)
  BY <1>4 DEF OnTheWay
<1> DEFINE C == InChain(c, tid, r)
           A == InAbandoned(c, tid, r)
           v == Len(chain) + 1
           e == <<s, b>>
           F == Copies(b, c, tid)
<1>9. \/ (s = r => C' = C \cup ({v} \X F)) /\ (s # r => C' = C) /\ A' = A
      \/ (s = r => A' = A \cup ({e} \X F)) /\ (s # r => A' = A) /\ C' = C
  <2>1. CASE chain' = Append(chain, b) /\ proposer' = Append(proposer, s) /\ abandoned' = abandoned
    <3> DEFINE B == Seq(S)
    <3>1. chain \in Seq(B) /\ proposer \in Seq(Replica) /\ Len(proposer) = Len(chain) /\ b \in B
      BY <1>1, <1>5 DEF Held
    <3> HIDE DEF B
    <3>2. C' = IF s = r THEN C \cup ({v} \X F) ELSE C
      BY <2>1, <3>1, InChainGrows
    <3>3. A' = A
      BY <2>1 DEF InAbandoned, Copies
    <3> QED BY <3>2, <3>3
  <2>2. CASE abandoned' = abandoned \cup {<<s, b>>} /\ UNCHANGED <<chain, proposer>>
    <3>1. A' = IF s = r THEN A \cup ({e} \X F) ELSE A
      BY <2>2, InAbandonedGrows
    <3>2. C' = C
      BY <2>2 DEF InChain, Copies
    <3> QED BY <3>1, <3>2
  <2> QED BY <1>4, <2>1, <2>2
<1>10. CASE s # r
  <2>1. Copies(rep'[r].pool, c, tid) = Copies(rep[r].pool, c, tid)
    BY <1>6, <1>10
  <2> QED BY <1>7, <1>8, <1>9, <1>10, <2>1, PlacedStill
<1>11. CASE s = r
  <2>1. PICK p, w : p = rep[s].pool /\ w = PoolAfter(s)
    OBVIOUS
  <2>2. PICK k \in 0 .. Len(p) : b = SubSeq(p, 1, k) /\ w = SubSeq(p, k + 1, Len(p))
    BY <1>3, <1>5, <2>1, BlockSplits
  <2>3. p \in Seq(S) /\ Len(p) \in Nat /\ k \in Nat /\ DOMAIN p = 1 .. Len(p)
    BY <1>5, <2>1
  <2>4. PICK N, R : N = Copies(p, c, tid) /\ R = Copies(w, c, tid)
    OBVIOUS
  <2>5. F = First(N, k) /\ R = Rest(N, k)
    <3>1. Copies(b, c, tid) = First(Copies(p, c, tid), k) /\ Copies(w, c, tid) = Rest(Copies(p, c, tid), k)
      <4>1. Halves(p, k, b, w)
        BY <2>2 DEF Halves
      <4>2. k \in 0 .. Len(p)
        BY <2>2
      <4> QED BY <2>3, <4>1, <4>2, InSplit
    <3> QED BY <2>4, <3>1
  <2>6. N \subseteq Nat
    BY <2>3, <2>4 DEF Copies
  <2>7. PICK U : U = OnTheWay(c, tid, r)
    OBVIOUS
  <2>8. OneOf(U, N, C, A)
    BY <1>7, <1>11, <2>1, <2>4, <2>7 DEF Placed
  <2> HIDE DEF F, v, e, C, A
  <2>9. \A x : OneOf(U, R, C \cup ({x} \X F), A) /\ OneOf(U, R, C, A \cup ({x} \X F))
    <3> SUFFICES ASSUME NEW x PROVE OneOf(U, R, C \cup ({x} \X F), A) /\ OneOf(U, R, C, A \cup ({x} \X F))
      OBVIOUS
    <3>1. PICK G, D, E : G = F /\ D = C /\ E = A
      OBVIOUS
    <3>2. OneOf(U, N, D, E) /\ G = First(N, k) /\ R = Rest(N, k)
      BY <2>5, <2>8, <3>1
    <3>3. OneOf(U, R, D \cup ({x} \X G), E) /\ OneOf(U, R, D, E \cup ({x} \X G))
      BY <2>3, <2>6, <3>2, OneOfSplit
    <3> QED BY <3>1, <3>3
  <2>10. OneOf(U, R, C', A')
    BY <1>9, <1>11, <2>9
  <2>11. Copies(rep[r].pool, c, tid)' = R
    <3>1. Copies(rep[r].pool, c, tid)' = Copies(rep'[r].pool, c, tid)
      BY DEF Copies
    <3> QED BY <1>6, <1>11, <2>1, <2>4, <3>1
  <2> QED BY <1>8, <2>7, <2>10, <2>11 DEF Placed, C, A
<1> QED BY <1>10, <1>11

\* Nothing has been sent at the beginning.
LEMMA PlacedInit == Init => AllPlaced
<1> SUFFICES ASSUME Init, NEW c \in Client PROVE 1 .. (client[c].next - 1) = {}
  BY DEF AllPlaced
<1>1. client[c].next = 1
  BY DEF Init
<1>2. 1 .. 0 = {}
  OBVIOUS
<1> QED BY <1>1, <1>2

\* Every step leaves each copy at one place.
LEMMA PlacedKept == Served /\ Booked /\ AllPlaced /\ [Next]_vars => AllPlaced'
<1> SUFFICES ASSUME Served, Booked, AllPlaced, [Next]_vars PROVE AllPlaced'
  OBVIOUS
<1>1. CASE UNCHANGED vars
  <2>1. Elsewhere
    BY <1>1 DEF vars, Elsewhere
  <2> QED BY <2>1, PlacedElsewhere
<1>2. ASSUME NEW c \in Client, send_transactions(c) PROVE AllPlaced'
  BY <1>2, PlacedSend
<1>3. ASSUME NEW c \in Client, NEW r \in Replica, handle_start(r, c) \/ handleTransaction(r, c)
      PROVE AllPlaced'
  BY <1>3, PlacedTake
<1>4. ASSUME NEW r \in Replica, Propose(r) \/ Abandon(r) PROVE AllPlaced'
  BY <1>4, PlacedPropose
<1>5. ASSUME NEW r \in Replica, Execute(r) PROVE AllPlaced'
  BY <1>5, PlacedExecute
<1>6. ASSUME NEW r \in Replica, handle_reply(r) \/ Miss(r) PROVE AllPlaced'
  BY <1>6, ReplyOrMiss, PlacedElsewhere
<1>7. CASE Next
  BY <1>2, <1>3, <1>4, <1>5, <1>6, <1>7 DEF Next
<1> QED BY <1>1, <1>7

\* What the two invariants say of the pools and of the store.
LEMMA PlacedImplies == Served /\ AllPlaced => NoneLostOrDoubled
<1> SUFFICES ASSUME Served, AllPlaced, NEW c \in Client, NEW tid \in DOMAIN client[c].replies, NEW r \in Replica
             PROVE  Cardinality(OnTheWay(c, tid, r)) + Cardinality(Copies(rep[r].pool, c, tid))
                      + Cardinality(InChain(c, tid, r)) + Cardinality(InAbandoned(c, tid, r)) = 1
  BY DEF NoneLostOrDoubled
<1>1. client[c].replies \in Seq(Nat) /\ Len(client[c].replies) = client[c].next - 1
  BY DEF Served, ClientsOK
<1>2. tid \in 1 .. (client[c].next - 1)
  BY <1>1
<1>3. OneOf(OnTheWay(c, tid, r), Copies(rep[r].pool, c, tid), InChain(c, tid, r), InAbandoned(c, tid, r))
  BY <1>2 DEF AllPlaced, Placed
<1> QED BY <1>3, OneOfCounts

\* What Replayed says of the store.
LEMMA ReplayedImplies == Replayed => AppliedOnce
BY DEF Replayed, AppliedOnce

-----------------------------------------------------------------------------
(* The theorems *)

\* Every transaction a replica takes from a connection finds its client known.
NoneRejected ==
    \A c \in Client, r \in Replica :
        up[c][r] # <<>> /\ Head(up[c][r]).type = "transaction" => c \in rep[r].clients

\* What the invariant says of types, time and connections.
LEMMA ServedImplies == Served => TypeOK /\ TimeoutWithinTwice /\ NoneRejected
<1> SUFFICES ASSUME Served PROVE TypeOK /\ TimeoutWithinTwice /\ NoneRejected
  OBVIOUS
<1>1. ASSUME NEW c \in Client
      PROVE  /\ client[c].next \in 1 .. (NumInstances + 1)
             /\ DOMAIN client[c].replies = 1 .. (client[c].next - 1)
             /\ client[c].exec \subseteq DOMAIN client[c].replies
             /\ \A t \in DOMAIN client[c].replies : client[c].replies[t] <= replyQuorum
  <2>1. /\ client[c] \in [next : 1 .. (NumInstances + 1), replies : Seq(Nat), exec : SUBSET Nat]
        /\ Len(client[c].replies) = client[c].next - 1
        /\ client[c].exec \subseteq 1 .. (client[c].next - 1)
        /\ \A t \in 1 .. (client[c].next - 1) : client[c].replies[t] <= replyQuorum
    BY DEF Served, ClientsOK
  <2>2. DOMAIN client[c].replies = 1 .. (client[c].next - 1)
    BY <2>1
  <2> QED BY <2>1, <2>2
<1>2. TypeOK
  BY <1>1 DEF Served, PeersOK, TypeOK
<1>3. TimeoutWithinTwice
  BY DEF Served, PeersOK, TimeoutWithinTwice
<1>4. NoneRejected
  BY TransactionFinds DEF NoneRejected
<1> QED BY <1>2, <1>3, <1>4

\* What it says of the answers: of two replicas on the history, one is ahead of the other.
LEMMA ServedAgrees == Served => AnswersAgree
<1> SUFFICES ASSUME Served, NEW r \in Replica, NEW s \in Replica, missed[r] = {}, missed[s] = {},
                    NEW k \in DOMAIN rep[r].kv.cache \cap DOMAIN rep[s].kv.cache
             PROVE  rep[r].kv.cache[k] = rep[s].kv.cache[k]
  BY DEF AnswersAgree
<1>1. PICK K : History(K)
  BY DEF Served
<1>2. /\ rep[r].applied \in 0 .. Len(chain) /\ rep[s].applied \in 0 .. Len(chain)
      /\ rep[r].kv = K[rep[r].applied] /\ rep[s].kv = K[rep[s].applied]
  BY <1>1 DEF Served, PeersOK, History
<1>3. CASE rep[r].applied <= rep[s].applied
  <2>1. Answers(K[rep[r].applied], K[rep[s].applied])
    BY <1>1, <1>2, <1>3, HistoryAnswers
  <2> QED BY <1>2, <2>1 DEF Answers
<1>4. CASE rep[s].applied <= rep[r].applied
  <2>1. Answers(K[rep[s].applied], K[rep[r].applied])
    BY <1>1, <1>2, <1>4, HistoryAnswers
  <2> QED BY <1>2, <2>1 DEF Answers
<1>5. rep[r].applied <= rep[s].applied \/ rep[s].applied <= rep[r].applied
  BY <1>2
<1> QED BY <1>3, <1>4, <1>5

(***************************************************************************)
(* Counters and positions stay in range: a client never counts more        *)
(* replies than its quorum, and every reply that reaches it is about a     *)
(* transaction it has sent (handle_reply indexes a map with its id).       *)
(***************************************************************************)
THEOREM ServiceType == Spec => []TypeOK
BY ServedInit, ServedKept, ServedImplies, PTL DEF Spec

(***************************************************************************)
(* However many views time out, the timeout is at most twice its initial   *)
(* value: setTimer halves it before every doubling.                        *)
(***************************************************************************)
THEOREM ServiceTimeout == Spec => []TimeoutWithinTwice
BY ServedInit, ServedKept, ServedImplies, PTL DEF Spec

(***************************************************************************)
(* Replicas that have executed every block so far agree on the answer to a *)
(* transaction, for any number of clients and replicas, any blocks and     *)
(* however often the transaction was decided.                              *)
(***************************************************************************)
THEOREM ServiceAnswers == Spec => []AnswersAgree
BY ServedInit, ServedKept, ServedAgrees, PTL DEF Spec

(***************************************************************************)
(* handleTransaction never rejects: a connection keeps the order of        *)
(* messages, and the client's first is MsgStart.                           *)
(***************************************************************************)
THEOREM ServiceAccepts == Spec => []NoneRejected
BY ServedInit, ServedKept, ServedImplies, PTL DEF Spec

(***************************************************************************)
(* No copy of a transaction is rejected, dropped or put in two blocks of   *)
(* its replica: createNewBlock takes from the pool what goes into the      *)
(* block, all of it and nothing else, for blocks of any size.              *)
(***************************************************************************)
THEOREM ServiceNoneLost == Spec => []NoneLostOrDoubled
BY ServedInit, ServedKept, BookedInit, BookedKept, PlacedInit, PlacedKept, PlacedImplies, PTL DEF Spec

(***************************************************************************)
(* The store of a replica is what the transactions it executed give when   *)
(* each is executed only where it comes first, however often it was        *)
(* decided and whatever the replica has missed: KVAppExecutor::execute     *)
(* finds every repetition in its cache.                                    *)
(***************************************************************************)
THEOREM ServiceAppliedOnce == Spec => []AppliedOnce
BY ServedInit, ServedKept, BookedInit, BookedKept, ReplayedInit, ReplayedKept, ReplayedImplies, PTL DEF Spec
=============================================================================
