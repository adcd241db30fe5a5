------------------------------ MODULE KVService ------------------------------
(***************************************************************************)
(* Clients and the replicated key-value service: submission of             *)
(* transactions, the pool each replica fills its blocks from, execution of *)
(* committed blocks, replies and the client's quorum (App/Client.cpp and   *)
(* the transaction handling of App/Handler.cpp).                           *)
(*                                                                         *)
(* Consensus is what modules Raftel, ChainedRaftel and HotStuff show of    *)
(* it (module ReplicatedLog): the proposals that are not abandoned form    *)
(* one chain, and a replica executes blocks of the chain in order, but     *)
(* misses those of the views it left on a timeout.                         *)
(***************************************************************************)
EXTENDS KVApp

CONSTANTS
    Replica,       \* the replicas that are up
    NumFaults,     \* f
    Client,        \* the clients
    NumInstances,  \* transactions each client sends
    Requests,      \* per transaction, the <<operation, key, value>> it chooses from
    BlockSize,     \* MAX_NUM_TRANSACTIONS
    Proposers,     \* the replicas that get to lead a view
    MaxAbandoned,  \* bound: proposals that are abandoned
    MaxMissed      \* bound: blocks missed, over all replicas

ASSUME ServiceAssumption ==
    /\ NumFaults \in Nat /\ NumInstances \in Nat /\ BlockSize \in Nat \ {0} /\ Proposers \subseteq Replica
    /\ MaxAbandoned \in Nat /\ MaxMissed \in Nat

VARIABLES
    client,    \* per client: next tid, replies counted, executed tids
    up,        \* up[c][r]: messages on the connection of client c to replica r
    rep,       \* per replica: clients, pool, executor, queue of replies, timer
    chain,     \* the blocks consensus decides, in order
    proposer,  \* history: the proposer of each block of chain
    abandoned, \* history: the proposals that were abandoned, with their proposer
    missed,    \* history: per replica, the positions of chain it will never execute
    log        \* history: per replica, the transactions it has executed, in order

vars == <<client, up, rep, chain, proposer, abandoned, missed, log>>

TID == 1 .. NumInstances
replyQuorum == NumFaults + 1

Transaction(c, tid, payload) == [cid |-> c, tid |-> tid, payload |-> payload]
MsgStart == [type |-> "start"]
MsgTransaction(trans) == [type |-> "transaction", trans |-> trans]

-----------------------------------------------------------------------------
(* Clients *)

\* main sends MsgStart on every connection before the sending thread starts.
send_start_to_all == [c \in Client |-> [r \in Replica |-> <<MsgStart>>]]

\* The sending thread makes a transaction, records it and sends it to everybody.
send_transactions(c) ==
    \E tid \in TID : \E q \in Requests[tid] :
        LET trans == Transaction(c, tid, encode(AppRequest(c, tid, q[1], q[2], q[3])))
        IN  /\ tid = client[c].next
            /\ client' = [client EXCEPT ![c].next = @ + 1, ![c].replies = Append(@, 0)]
            /\ up' = [up EXCEPT ![c] = [r \in Replica |-> Append(@[r], MsgTransaction(trans))]]
            /\ UNCHANGED <<rep, chain, proposer, abandoned, missed, log>>

\* Mutant: replies to a transaction that is complete are counted too.
executed_late(k, tid) ==
    [k EXCEPT !.replies[tid] = @ + 1,
              !.exec = IF k.replies[tid] + 1 > replyQuorum THEN @ \cup {tid} ELSE @]

\* Count a reply, whoever sent it; the transaction is executed at the quorum.
executed(k, tid) ==
    [k EXCEPT !.replies[tid] = @ + 1,
              !.exec = IF k.replies[tid] + 1 = replyQuorum THEN @ \cup {tid} ELSE @]

(***************************************************************************)
(* A queued reply leaves the replica (handler of rep_queue), crosses the   *)
(* connection and is handled.  Both hops keep the order, so one queue per  *)
(* replica stands for them; the client is known since the reply was queued.*)
(***************************************************************************)
handle_reply(r) ==
    LET q == Head(rep[r].queue)
        c == q.cid
    IN  /\ rep[r].queue # <<>>
        /\ rep' = [rep EXCEPT ![r].queue = Tail(@)]
        /\ client' = IF q.tid \in client[c].exec THEN client
                     ELSE [client EXCEPT ![c] = executed(@, q.tid)]
        /\ UNCHANGED <<up, chain, proposer, abandoned, missed, log>>

-----------------------------------------------------------------------------
(* A replica's client thread *)

handle_start(r, c) ==
    /\ up[c][r] # <<>> /\ Head(up[c][r]).type = "start"
    /\ up' = [up EXCEPT ![c][r] = Tail(@)]
    /\ rep' = [rep EXCEPT ![r].clients = @ \cup {c}]
    /\ UNCHANGED <<client, chain, proposer, abandoned, missed, log>>

\* A transaction of a client without MsgStart is rejected.
handleTransaction(r, c) ==
    /\ up[c][r] # <<>> /\ Head(up[c][r]).type = "transaction"
    /\ up' = [up EXCEPT ![c][r] = Tail(@)]
    /\ rep' = IF c \in rep[r].clients
              THEN [rep EXCEPT ![r].pool = Append(@, Head(up[c][r]).trans)]
              ELSE rep
    /\ UNCHANGED <<client, chain, proposer, abandoned, missed, log>>

-----------------------------------------------------------------------------
(* A replica's peer thread *)

\* The transactions createNewBlock takes out of the pool.
createNewBlock(r) ==
    SubSeq(rep[r].pool, 1, IF Len(rep[r].pool) < BlockSize THEN Len(rep[r].pool) ELSE BlockSize)

\* Mutant: only the first transaction of the block is removed.
PoolAfter_first(r) == Tail(rep[r].pool)

PoolAfter(r) == SubSeq(rep[r].pool, Len(createNewBlock(r)) + 1, Len(rep[r].pool))

\* A leader proposes a block that consensus decides.  Empty blocks are left out.
Propose(r) ==
    /\ r \in Proposers /\ rep[r].pool # <<>>
    /\ chain' = Append(chain, createNewBlock(r))
    /\ proposer' = Append(proposer, r)
    /\ rep' = [rep EXCEPT ![r].pool = PoolAfter(r)]
    /\ UNCHANGED <<client, up, abandoned, missed, log>>

\* The component refuses the block, or no later leader extends it.  What
\* createNewBlock took is not put back.
Abandon(r) ==
    /\ r \in Proposers /\ rep[r].pool # <<>>
    /\ Cardinality(abandoned) < MaxAbandoned
    /\ abandoned' = abandoned \cup {<<r, createNewBlock(r)>>}
    /\ rep' = [rep EXCEPT ![r].pool = PoolAfter(r)]
    /\ UNCHANGED <<client, up, chain, proposer, missed, log>>

\* Mutant: a timeout that is above its initial value is kept.
setTimer_keep(timeout) == timeout

\* timeout / 2, but not below initTimeout (1 here).
setTimer(timeout) == IF timeout \div 2 < 1 THEN 1 ELSE timeout \div 2

\* min(2 * timeout, 8 * initTimeout), after startNewViewOnTimeout called setTimer.
BackOff(timeout) == IF 2 * setTimer(timeout) < 8 THEN 2 * setTimer(timeout) ELSE 8

\* One transaction of a committed block: execute it and queue the reply.
ExecuteTransaction(x, trans) ==
    LET kv == IF CanDecode(trans.payload) THEN execute(x.kv, trans.payload) ELSE x.kv
        answer == IF CanDecode(trans.payload) THEN kv.cache[dedupKey(trans.payload)]
                  ELSE ErrorReply
    IN  [x EXCEPT !.kv = kv,
                  !.queue = IF trans.cid \in x.clients
                            THEN Append(@, MsgReply(trans.cid, trans.tid, answer))
                            ELSE @]

\* The transactions of the block, one after the other.
replyTransactions(x, block) ==
    LET after[k \in 0 .. Len(block)] ==
            IF k = 0 THEN x ELSE ExecuteTransaction(after[k - 1], block[k])
    IN  after[Len(block)]

\* The replica executes its next block and enters the next view (setTimer).
Execute(r) ==
    LET n == rep[r].applied + 1
        x == replyTransactions(rep[r], chain[n])
    IN  /\ n <= Len(chain)
        /\ rep' = [rep EXCEPT ![r] = [x EXCEPT !.applied = n, !.timeout = setTimer(@)]]
        /\ log' = [log EXCEPT ![r] = @ \o chain[n]]
        /\ UNCHANGED <<client, up, chain, proposer, abandoned, missed>>

AllMissed == UNION {{r} \X missed[r] : r \in Replica}

\* The timer runs out first: the block of that view is never executed here.
Miss(r) ==
    LET n == rep[r].applied + 1
    IN  /\ n <= Len(chain)
        /\ Cardinality(AllMissed) < MaxMissed
        /\ rep' = [rep EXCEPT ![r].applied = n, ![r].timeout = BackOff(@)]
        /\ missed' = [missed EXCEPT ![r] = @ \cup {n}]
        /\ UNCHANGED <<client, up, chain, proposer, abandoned, log>>

-----------------------------------------------------------------------------
Init ==
    /\ client = [c \in Client |-> [next |-> 1, replies |-> <<>>, exec |-> {}]]
    /\ up = send_start_to_all
    /\ rep = [r \in Replica |->
                [clients |-> {}, pool |-> <<>>, queue |-> <<>>, applied |-> 0, timeout |-> 1,
                 kv |-> [store |-> <<>>, cache |-> <<>>]]]
    /\ chain = <<>> /\ proposer = <<>>
    /\ abandoned = {}
    /\ missed = [r \in Replica |-> {}]
    /\ log = [r \in Replica |-> <<>>]

Next ==
    \/ \E c \in Client : send_transactions(c)
    \/ \E c \in Client, r \in Replica :
        handle_start(r, c) \/ handleTransaction(r, c)
    \/ \E r \in Replica :
        handle_reply(r) \/ Propose(r) \/ Abandon(r) \/ Execute(r) \/ Miss(r)

Spec == Init /\ [][Next]_vars

-----------------------------------------------------------------------------
(* Properties *)

\* TypeOK: counters, positions and sets are within what the clients and blocks allow.
TypeOK ==
    /\ \A c \in Client : /\ client[c].next \in 1 .. (NumInstances + 1)
                          /\ DOMAIN client[c].replies = 1 .. (client[c].next - 1)
                          /\ client[c].exec \subseteq DOMAIN client[c].replies
                          /\ \A t \in DOMAIN client[c].replies : client[c].replies[t] <= replyQuorum
    /\ \A r \in Replica : /\ rep[r].clients \subseteq Client
                           /\ rep[r].applied \in 0 .. Len(chain)
                           /\ missed[r] \subseteq 1 .. rep[r].applied

\* Where transaction tid of client c is, of the copy sent to replica r: on the
\* connection, in the pool, or in a block that r proposed.
OnTheWay(c, tid, r) ==
    {i \in DOMAIN up[c][r] : up[c][r][i].type = "transaction" /\ up[c][r][i].trans.tid = tid}
Copies(s, c, tid) == {i \in DOMAIN s : s[i].cid = c /\ s[i].tid = tid}
InChain(c, tid, r) ==
    UNION {{n} \X Copies(chain[n], c, tid) : n \in {m \in DOMAIN chain : proposer[m] = r}}
InAbandoned(c, tid, r) ==
    UNION {{a} \X Copies(a[2], c, tid) : a \in {b \in abandoned : b[1] = r}}

(***************************************************************************)
(* NoneLostOrDoubled: the copy of a transaction that was sent to a replica *)
(* is at exactly one place: on its way, in the pool of that replica, or    *)
(* in one position of one block it proposed.  None is rejected             *)
(* (handleTransaction) because MsgStart goes first, and none falls out or  *)
(* stays behind when createNewBlock takes it.                              *)
(***************************************************************************)
NoneLostOrDoubled ==
    \A c \in Client : \A tid \in DOMAIN client[c].replies : \A r \in Replica :
        Cardinality(OnTheWay(c, tid, r)) + Cardinality(Copies(rep[r].pool, c, tid))
            + Cardinality(InChain(c, tid, r)) + Cardinality(InAbandoned(c, tid, r)) = 1

\* The store after the transactions of s, each executed only where it comes first.
FirstTime(s, k) == CanDecode(s[k].payload) /\ \A j \in 1 .. (k - 1) : s[j] # s[k]
Replay(s) ==
    LET after[k \in 0 .. Len(s)] ==
            IF k = 0 THEN <<>>
            ELSE IF FirstTime(s, k) THEN StoreAfter(after[k - 1], s[k].payload)
            ELSE after[k - 1]
    IN  after[Len(s)]

(***************************************************************************)
(* AppliedOnce: although each replica proposes its own copy of a           *)
(* transaction, the store is what executing every transaction once, where  *)
(* it first occurs, gives (KVAppExecutor::execute).                        *)
(***************************************************************************)
AppliedOnce == \A r \in Replica : rep[r].kv.store = Replay(log[r])

(***************************************************************************)
(* AnswersAgree: replicas that have missed no block give the same answer   *)
(* to a transaction, however far each has come and however often the       *)
(* transaction was decided (replyTransactions).                            *)
(***************************************************************************)
AnswersAgree ==
    \A r, s \in {q \in Replica : missed[q] = {}} :
        \A k \in DOMAIN rep[r].kv.cache \cap DOMAIN rep[s].kv.cache :
            rep[r].kv.cache[k] = rep[s].kv.cache[k]

(***************************************************************************)
(* TimeoutWithinTwice: however many views in a row time out, the timeout   *)
(* is at most twice its initial value, because every timeout enters a view *)
(* and so halves it again before it is doubled.                            *)
(***************************************************************************)
TimeoutWithinTwice == \A r \in Replica : rep[r].timeout \in {1, 2}

\* Nothing is left to do.
Quiescent ==
    /\ \A c \in Client : client[c].next > NumInstances /\ \A r \in Replica : up[c][r] = <<>>
    /\ \A r \in Replica : rep[r].pool = <<>> /\ rep[r].queue = <<>> /\ rep[r].applied = Len(chain)

(***************************************************************************)
(* EveryoneAnswered: with the replicas leading in turn, every client ends  *)
(* with its quorum of replies for every transaction (handle_reply),        *)
(* although one replica misses a block and replicas execute blocks before  *)
(* they know the client: each replica's own copy of the transaction is     *)
(* decided after it has handled MsgStart.                                  *)
(***************************************************************************)
EveryoneAnswered ==
    Quiescent /\ abandoned = {} /\ Cardinality(AllMissed) <= 1 =>
        \A c \in Client : client[c].exec = TID
=============================================================================
