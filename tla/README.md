# Raftel in TLA+

Raftel is a BFT consensus engine for populations in which only some replicas
hold a TEE. The code is C++ in `App/` (replica and client processes) and
`Enclave/` (SGX trusted components). This directory models the program from the
source: the trusted components and the bridge to them, the five protocol
variants a build can select, and the clients and the key-value service on top.
TLC checks the models on small instances; TLAPS proves, for every instance, the
safety of the trusted component, of the bridge to it, of the Basic Raftel
protocol and of the service. Line numbers below are lines of the repository.

## 1. Inventory

### Components

| Component | State | Operations | Correct when |
|---|---|---|---|
| Trusted component ("Checker+"): `EnclaveComb.cpp` in SGX, `TrustedComb.cpp` in the host of a replica without TEE | prepared and locked block and view, current (view, phase) | `TEEsign`, `TEEprepare`, `TEEstore`, `TEEaccum`, `TEEaccumSp` | one statement per (view, phase); new-views tell the truth; never moves back |
| SGX bridge (`Enclave_u.c`, `Enclave_t.c`, generated from `Enclave.edl`) | marshalling buffers, threads inside the enclave | stub, copy in, body, OCALL, copy out, error exit | the host sees atomic calls of the component; nothing leaks |
| Population (`Handler` constructor, `getLeaderOf`, `startNewViewOnTimeout`) | f, m = `totalTEE`, leader mode, skipped leaders | quorum sizes, leader of a view, blame | any two certificates share a replica |
| Basic Raftel replica (the `Comb` functions of `Handler.cpp`), also run by Basic-Damysus over `EnclaveDamysus.cpp` | view, phase, blocks, processed views, cached certificates | five message handlers, `getStarted`, timeout, catch-up, execute, stop | executed blocks lie on one chain; execution goes on while a quorum is up |
| Chained Raftel and Achilles (the `ChComb` functions, `EnclaveChComb.cpp`, `EnclaveAchillesCh.cpp`) | as Basic, plus chained blocks and the certificates in them | four handlers, voting, timeout, execution of a certified parent's ancestors | logs are gap-free and agree |
| HotStuff baseline (plain handlers, `TrustedFun.cpp`) | as Basic | five handlers, catch-up | as Basic |
| Message log (`Log.cpp`) | new-views, proposals and votes by view and signer class | `store*`, `get*` | a signer counts once, quorums are not lost |
| Clients, transactions, replies (`Client.cpp`, `Handler.cpp`) | reply counts; pool, reply queue | submit, drain into a block, execute, reply | a transaction takes effect once and is answered |
| KV state machine (`KVApp.cpp`) | store, duplicate cache | decode, execute | deterministic, each request once |
| Timer | current time-out | double on expiry, halve on progress | within its bounds |
| Peer network (salticidae, vendored) | a connection per pair | send, dispatch on one event loop | FIFO per connection |
| Keys, statistics, start-up, scripts, leftovers of other protocols | - | - | not protocol logic, or in no build |

### How they interact

Every replica runs one event loop for its peers (`pec`): handlers and the timer
callback never overlap there. Client connections have a thread of their own
(`cec`), which handles transactions and handles `MsgStart` by calling
`getStarted`. A handler calls the trusted component through the bridge; the
component signs or refuses. In a view all replicas send new-views to the leader;
the leader accumulates a quorum (TEE or classical), fills a block from its pool,
proposes, collects votes and sends certificates. Under a TEE leader a prepare
certificate is final. Under any other leader pre-commit and commit follow.
Executing a block applies its transactions to the KV store and queues replies.
Executing a block, or a timer that runs out, starts the next view: the host
spends what is left of its component's view and sends the next new-view. The
chained protocol sends a block with the certificate of its parent and executes a
block when its child is certified.

### What is hard

Messages of different connections overtake each other, so votes, certificates
and proposals of later views arrive early and are stored and replayed.
`MsgStart` may come after the messages of peers. Timers run out in the middle of
a view on some replicas only. Replicas that blame different leaders disagree on
who leads. Two kinds of quorum must intersect. Two counters, the component's and
the host's, are advanced by separate code. Two threads may be in the enclave at
once. Each replica proposes its own copy of a transaction. `PROJECT.json` lists
these as `hazards` with the line at which each bites. Nothing is persisted, so
there is no recovery to model: a crashed replica takes no more steps.

## 2. Modules

| Module | Models |
|---|---|
| `RaftelQuorums` | population, `qsize`, `tqsize`, `fastQC`, `getLeaderOf`, the blame of a timeout |
| `RaftelTypes` | blocks, statements, certificates, sending; shared by all protocols |
| `EnclaveComb`, `EnclaveChComb`, `EnclaveDamysus`, `TrustedFun` | the four trusted components as pure operators on their state |
| `Checker` | one Checker+ under an arbitrary host: any call, any argument, any order |
| `EnclaveInterface` | the generated stubs and wrappers as tables: index, parameters copied in and out |
| `EnclaveBridge` | a call as the host really makes it: stub, copies, body in steps, OCALLs, out of memory, threads; refines `Checker` |
| `Raftel` | all replicas of Basic Raftel (or, `Damysus = TRUE`, of Basic-Damysus): hosts, logs, components, channels, timers |
| `ChainedRaftel` | all replicas of Chained Raftel / Achilles |
| `HotStuff` | all replicas of the HotStuff baseline |
| `ReplicatedLog` | abstract specification: one growing log of which each replica applies entries in order; refined by the three protocols |
| `KVApp` | codec, executor and duplicate cache of the KV service |
| `KVService` | clients, pools, execution, replies and the timer, over what `ReplicatedLog` promises |
| `MCBridge`, `MCRaftel`, `MCBlame`, `MCChained`, `MCHotStuff`, `MCService` | inputs, populations, schedules and fairness for TLC |
| `RaftelInvariant` | the inductive invariant of `Raftel`, on the state of all replicas as one value |
| `QuorumProofs`, `CheckerProofs`, `BridgeProofs` | theorems about quorums, the component and the bridge |
| `RaftelFacts`, `RaftelHandlers`, `RaftelProofs`, `RaftelLog` | theorems about Basic Raftel: what the invariant implies, the calls of a handler, the handlers and the induction, the refinement |
| `ServiceProofs` | theorems about the service |

The layers fit together: `EnclaveBridge` implements `Checker`, `Checker` and
`Raftel` call the same operators of `EnclaveComb`, `Raftel`, `ChainedRaftel` and
`HotStuff` implement `ReplicatedLog`, and `KVService` uses no more of consensus
than `ReplicatedLog` has.

**State.** In the protocol modules `tc[r]` is the component of replica r,
`host[r]` the fields of its `Handler` and `Log`, `net[s][r]` the connection from
s to r, and `signed[r]` a history variable: everything r's component has signed.
In `Checker`, `prepared` is the history of the pairs recorded as prepared. In
`EnclaveBridge`, `stack[t]` is the call thread t is inside of, with its program
counter, and `handed` what the host has received.

**Handlers.** Each C++ function is an operator from context to context with the
same name, and a handler is their composition, so an action is the whole
handler with everything it calls. Where a function may come back to itself
through others (`handleEarlierMessagesComb` to `startNewViewComb`, the mutual
calls of `startNewViewChComb` and `handleEarlierMessagesChComb`, the `initiate*`
functions of HotStuff), the rest of the handler is an action of its own that its
replica takes before anything else: `CatchUp` in `Raftel`, `Vote` in
`ChainedRaftel`, the `todo` of `HotStuff`.

**Data.** A block hash is the path of block identifiers from the genesis block;
an identifier is (creator, view), as in `createNewBlock`. The protocol modules
leave transactions out; `KVService` has them. Signatures are ideal: a statement
carries its signer, and checks of it compare the whole statement. `newHash()` and
`noHash()` are both all zeroes, but differ in the flag `set`, which is part of the
signed text (`hash2string`, `EnclaveShare.cpp:162`); they are two values. `newHash`
also stands for the genesis block of the Basic protocols; no block that is proposed has either as its
hash. A KV value is its length, which is what the codec
and `MsgReply` look at. The integers of the code are unbounded here: views stay
below ten in every run.

**Two chained components.** The chained protocol is built with its component in an
enclave (`CHAINED_HYBRID_TEE`, `CHAINED_ACHILLES`) or in the host
(`CHAINED_HYBRID_TEE_DEBUG`). They differ in how they check a certificate of
votes: the enclave's `verifyCA` rebuilds the votes with `noHash()`, the host's
`verify` (`TrustedChComb.cpp:57`) with the `Hash()` they were signed with. The
constant `SGX` of `EnclaveChComb` says which one is modelled.

**Faults.** Replicas follow the code and may be down or arbitrarily slow. Lying
hosts are the subject of `Checker`, where the host makes the ECALLs of Checker+ in
any order, with well-formed inputs; that other families sign with the same key,
and that `initialize_variables` may be called again, is left out.

**Consensus below the service.** `KVService` knows a proposal that is decided
(`Propose`), one that is lost with the transactions in it (`Abandon`: the
component refused it after `createNewBlock` emptied the pool, or no later leader
extends it) and a replica that leaves a view on a timeout and never executes that
block (`Miss`). That these are all the cases is what `ReplicatedLog` says of
the protocols.

## 3. Properties and runs

| Run | Instance | Checks | Shows |
|---|---|---|---|
| `bridge` | one component behind the bridge, one thread, every ECALL | `TypeOK`, `NonEquivocation`, `NewViewTruthful`, `LockIsPrepared`, `NeverBack`, `NoLeak`, `StubMeetsWrapper`, `ImplementsChecker` | the component's guards suffice although it never checks the phase; called by one thread it is atomic, whatever OCALLs and failures come between |
| `enclave_race` | as `bridge`, two threads, few calls | `NonEquivocation` is violated | see findings |
| `raftel_timeouts` | f=1, m=3, replica 0 down, rotating leaders, `MsgStart` at any time, four timeouts | `TypeOK`, `Agreement`, `NewViewReportsPrepared`, `FinalIsExtended`, `ExecutedIsFinal`, `TrustedInStep`, `GapsAreTimeouts`, `ImplementsReplicatedLog` | view changes keep what a quorum signed, known or not; only a timeout makes a gap |
| `classic_timeouts` | f=1, m=3, replica 0 down, fixed non-TEE leader 3, five timeouts | `FinalIsExtended`, `LockNeverBlocks`, `SafetyInvariant` | locks protect and never block a proposal; the inductive invariant of the proofs holds on an instance |
| `blamed_leaders` | f=1, m=3, six views, two timeouts in view 2 | `OneProposalPerView`, `Agreement` | replicas that disagree on the leader cannot split a view |
| `raftel_live` | f=1, m=2; down are {2,3}, {0}, {2} or {3} | `EveryoneExecutes` | f+1 TEE replicas go on alone under a TEE leader; 2f+1 go on without a TEE quorum; timeouts get past a dead leader |
| `startup_race` | f=1, m=2, TEE leader, late `MsgStart` | `EveryoneExecutes` is violated | see findings |
| `damysus` | Basic-Damysus, f=1, 2f+1 replicas, no fault | `Agreement` is violated | see findings |
| `chained` | f=1, three replicas, late `MsgStart`, three timeouts, four views | `TypeOK`, `NoGaps`, `CertifiedParentIsExtended`, `ExecutedIsCertified`, `NeverStalls`, `ImplementsReplicatedLog` | two consecutive certificates make a block final; the walk to ancestors leaves no gap |
| `chained_fork` | as `chained`, seven views, three chosen timers | `SameLog` is violated | see findings |
| `hotstuff` | f=1, one of four down, five timeouts, five views | `TypeOK`, `Agreement`, `LockedIsExtended`, `TrustedInStep`, `NeverStalls`, `ImplementsReplicatedLog` | locks survive view changes, late replicas catch up |
| `service` | one client, two transactions, two live replicas, one abandoned block, two missed ones | `TypeOK`, `NoneLostOrDoubled`, `AppliedOnce`, `AnswersAgree`, `TimeoutWithinTwice`, `EveryoneAnswered` | transactions take effect once although decided several times, and are answered |

**Bounds.** `MaxViews` is the program's own `numViews`. `MaxTimeouts` and
`MaxView` bound the timers. `LastCount` bounds the calls of Checker+ to two views
and `LastOther` those of the other families, which do not touch it, to the
first; `OCalls` keeps one OCALL of the bodies and one of the SGX libraries of
the many that behave alike. Two views are enough for a committed block and a
later proposal that could miss it. Three live replicas with m=3 is the smallest
population in which both kinds of quorum form and neither is the whole
population. A blamed leader is passed over one rotation later, in view 6, so
`blamed_leaders` handles the messages of views 1 to 5 in one fixed order and
frees the order from view 6 on. For the same reason `chained`, with four views,
does not reach the disagreement on leaders of `chained_fork`, which names the
three timers and takes seven views: `CertifiedParentIsExtended` and
`ImplementsReplicatedLog` of `chained` hold while replicas agree on who leads.
Both chained runs have `SGX = FALSE`. A component that refuses more certificates
only has fewer behaviours, so the safety properties of `chained` hold with
`SGX = TRUE` as well; `NeverStalls` does not (see below), and one of its mutants
is exactly the enclave's check in place of the host's. In `hotstuff` the three
live replicas are exactly `qsize`: every quorum is the same set, and what differs
is when each replica learns of it.
Two live replicas are f+1, the smallest number whose answers satisfy a client,
and a key, three lengths (one too long for the payload, one too long for a
reply) and a block of two transactions let every branch of the codec and of
`createNewBlock` happen. Symmetry is used in `service` only: elsewhere replica
numbers decide leaders, TEEs and the order of the log.

**Start.** `raftel_timeouts`, `startup_race` and `chained` let `MsgStart` come at
any time. The other protocol runs let it reach all live replicas before they
handle a peer's message: without that liveness fails (`startup_race`), and so does
HotStuff's `TrustedInStep`, because a late `getStarted` signs out of turn. In
`Raftel` that property is stated for components that started in turn.

**Deadlock** is not checked: replicas stop after `numViews` views, clients after
their last transaction, and a bounded number of timers may leave everybody
waiting.

**Fairness.** `raftel_live` and `startup_race` assume weak fairness of each action
of each live replica: the event loop eventually handles what a connection
delivers, a handler ends, `MsgStart` arrives, an armed timer runs out. Except for
`CatchUp` it is written out with guards and effects instead of `WF`, which
spares TLC the evaluation of `ENABLED`. `raftel_live` also assumes that the
configured timeout exceeds the message delay (`Patient`): a timer runs out only
under a dead leader. The back-off cannot provide that. It goes no further than
twice the configured value (`TimeoutWithinTwice`), because `startNewViewOnTimeout`
calls `setTimer`, which halves, before the callback doubles; the cap of eight at
`Handler.cpp:741` is never reached. Timers that run out early are behaviours of
the runs about safety. `NeverStalls` of `chained` and `hotstuff` says progress
without fairness, as an invariant: whenever nothing is left to handle and no timer
has run out, all views are done (in `chained`: with the component in the host). `EveryoneAnswered` has the same form.

### Findings

1. **`startup_race`.** A TEE leader that collects new-views before its own
   `MsgStart` signs its proposal while the component is in phase NEWVIEW
   (`EnclaveComb.cpp:120`, no phase check). The backups rebuild the statement with
   phase PREPARE (`Handler.cpp:3190`) and reject it, view 1 is marked as processed,
   and no timer is armed in view 1 (`Handler.cpp:1671`). Nobody executes, although
   `doc/CODE_OVERVIEW.md:88-89` promises liveness.
2. **`enclave_race`.** `COMB_sign` (`EnclaveComb.cpp:89`) reads the view and phase,
   signs, and then advances them, without a lock, in an enclave that admits ten
   threads. `MsgStart` is handled on the client thread while the peer thread may
   be in the enclave: two statements for one view and phase. With one thread
   (`bridge`) this cannot happen, not even through OCALLs, because no OCALL may
   enter the enclave again.
3. **`damysus`.** The component of Basic-Damysus records a block in `TEEstore`,
   which the shared handlers never call under a TEE leader: they execute on the
   prepare certificate (`Handler.cpp:3404`). Every view's block extends the genesis
   block.
4. **`chained_fork`.** `tryExecuteChComb` walks to ancestors by view number and
   does not compare hashes: the check is commented out ("Re-enable for production
   safety", `Handler.cpp:3844`). When blame makes two replicas lead one view, a
   replica may execute the wrong one of their blocks.

Other disagreements met while modelling, which the models contain and no run is
spent on:

- `Handler::phase` (`Handler.h:103`, "current phase") is not reset when a timer
  runs out (`Handler.cpp:580-606`). A fixed leader that times out after proposing
  enters the next view with the old phase and ignores new-views (`3162`); in
  PRECOMMIT or COMMIT it counts no prepare vote any more (`3285`, `3295`) until a
  decision resets the phase.
- Chained, component in the enclave: a comment in `verifyCA`
  (`EnclaveShare.cpp:468`) says it verifies "the corresponding justification that
  we generated the certificate from in 'checkNewJustChComb'", but it rebuilds the
  votes with `noHash()` (`472`) where `CH_COMB_TEEprepare` signed `newHash()`
  (`EnclaveChComb.cpp:84`). Under ideal signatures every certificate of votes is
  refused: with `SGX = TRUE` TLC finds `NeverStalls` violated in the instance of
  `chained`, and no replica executes more than the genesis block. The programs
  built for SGX do go on, because the signature is cut to 32 bytes (`309`) and the
  error that `ECDSA_verify` then reports is taken for success (`87`): a check that
  refuses nothing. Whoever repairs the signatures has to repair `verifyCA` too.
- Chained: a leader whose new-views are complete before its own timer runs out
  never proposes in that view, although the comment at `Handler.cpp:4110` says it
  does;
  and a next leader that voted and times out signs past the new-view of the view
  it enters (`3947`, `4029`), which leaves its component a view ahead.
- HotStuff: a replica that enters a view late and goes straight to the pre-commit
  certificate (`Handler.cpp:1750`) decides a block it never recorded, so
  `replyHash` does not execute it (`1998`).
- A client counts replies, not replicas (`Client.cpp:250`), and a replica replies
  to each decided copy of a transaction; replies to clients whose `MsgStart` is
  late are dropped (`Handler.cpp:2017`), which only further copies repair.

## 4. Proofs

All constants are arbitrary under the assumptions named in the modules: f is a
natural number, the population is 2f+1 or 3f+1 (`ConstFactor` is 2 or 3), m is at
most the population, and all bounds are any numbers. Every theorem below is
about all behaviours of the specification that the runs check.

### Quorums and the trusted component

- **`QuorumIntersection`** (`QuorumProofs`): any two certificates share a replica.
  Two TEE quorums have more than m signers among m; a TEE quorum has more than f
  signers and a classical one misses at most f; two classical ones have more
  signers than there are replicas. This is the comment at `Handler.cpp:658`,
  proved. It uses the cardinality facts of `FiniteSetTheorems`.
- **`TypeCorrect`, `NeverEquivocates`, `ReportsTruthfully`, `LockReported`**
  (`CheckerProofs`): the four invariants of the component for all sets of blocks,
  accumulators, proofs and certificates, and any bound. None is inductive alone.
  `IInv` adds that everything signed lies strictly before the counter (so a
  signature is for a fresh view and phase), that all recorded views are at most the
  current one, that the component's prepared pair is recorded and is the
  newest of the records, and the order lock, prepared, view.
- **`OnlyForward`**: the action property `NeverBack`, from the same invariant.

One assumption deserves a word: no certificate over "no hash" is presented
(`JustsAssumption`). The loop of `startNewViewComb` signs such statements, but it
never sends them.

### The bridge

- **`BridgeNeverLeaks`** (`BridgeProofs`): for any number of threads, the
  enclave's heap holds exactly the buffers of the calls under way.
- **`BridgeImplementsChecker`**: with one host thread (`OneThread`), the component
  behind stubs, copies, OCALLs and failing allocations is the atomic one of
  `Checker`; so the theorems of `CheckerProofs` hold of what the host receives.

A thread is inside of one call at most, because no OCALL admits an ECALL
(`Frames`). While a call signs, its frame keeps the component from before, the
component has recorded what the call records and its pair has not moved
(`Pending`). Hence `Sign` is the step at which the call happens and all others
stutter. `OneThread` is needed: `enclave_race` is the counterexample with two.

### Basic Raftel

For the Raftel build (`~Damysus`), in either leader mode, with any number of
timeouts, replicas that stop at any time and `MsgStart` at any time:

- **`RaftelInvariance`**: the inductive invariant `SafetyInvariant`;
- **`RaftelType`**: `TypeOK`;
- **`RaftelOneProposal`**: `OneProposalPerView`, also where replicas that blamed
  different leaders disagree on who leads;
- **`RaftelFinality`**: `FinalIsExtended`, what a quorum of either kind signed to
  commit a block is extended by every later proposal;
- **`RaftelInStep`**: `TrustedInStep`, so `startNewViewComb` never reaches
  "Something wrong happened" on a replica that started in turn;
- **`RaftelReports`**: `NewViewReportsPrepared`;
- **`RaftelLock`**: `LockNeverBlocks`, in every state in which all components that
  signed anything were started by `getStarted` (`EveryoneInTurn`) and none is
  locked on a block of the view it is in (`LocksBehind`).

Where moreover the leader is fixed or all replicas are of one type (`Uniform`):

- **`RaftelExecution`**: `ExecutedIsFinal`;
- **`RaftelAgreement`**: `Agreement`;
- **`RaftelGaps`** (`RaftelLog`): `GapsAreTimeouts`;
- **`RaftelImplementsLog`**: `ImplementsReplicatedLog`, every step is one of
  `ReplicatedLog` or a stutter.

*The invariant* (`RaftelInvariant`). Per replica: what its component signed is
behind it, what it recorded is the newest it signed for, and its reports are
truthful (`ComponentOK`); it is locked on the genesis block or on one that a
quorum voted to pre-commit (`LockOK`); component and host are in one view, or the component at
the start of the next (`StepOK`, which also accounts for the one call too many of
a late `getStarted`); blocks in the host's map were voted for (`BlocksOK`); the
log holds what was signed (`LogOK`); what is executed was committed
(`ExecutedOK`); the proposal of a view comes once (`Fresh`). Across replicas:
whatever is voted for was proposed on a quorum of reports that its leader holds
(`NamesOK`), all votes of a view are for one block (`OneBlock`), messages in
flight are backed by signatures (`ChannelsOK`), and a report goes to one
replica (`Routed`). None of the properties is inductive without most of these:
`OneProposalPerView` needs that the reports of a quorum cannot go to two
leaders; `FinalIsExtended` needs that a report cannot leave out a recorded
block, and that needs `StepOK`, because a component that falls out of step signs
under other phases than its host believes.

*The induction step.* A handler is a composition of operators on a context, so
the proof follows the calls: `Put(w, x)` is the world in which the context of one
replica has reached x, `Good(w, x)` that the invariant holds of it, and each
lemma of `RaftelHandlers` takes a call from a good context to a good one. A call
moves one replica and takes no statement back (`Near` in `RaftelFacts`); for such
steps the part of the invariant about the others is settled once.

*Finality* (`RaftelFacts`). Let a quorum have committed h in view v, and take
the first later view with a proposal that does not extend h (a least element:
the provers have no induction). Its leader holds a quorum of reports; by
`QuorumIntersection` one of them is of a replica that signed for h, so the highest
report is of v or later; by minimality, or by `OneBlock` for v itself, the block it
names extends h, and the proposal extends that block.

*Locks* (`RaftelFacts`). A lock is backed by a quorum of pre-commit votes, so any
quorum of reports has one by a replica that cast such a vote; that replica, if it
started in turn, recorded the block first, so the highest report is of the lock's
view or a later one, and of the lock's block if the views are equal. Both
hypotheses mark a real limit. A component that was called before `getStarted`
casts its prepare votes under the phase of pre-commit votes without recording
them. And a component that skipped one of its earlier votes of a view
before it stored the pre-commit certificate is locked on the view it is still in,
whose reports are older than the lock; that view's proposal is certified already. In
`classic_timeouts`, where the leader is fixed and everyone starts first,
`LockNeverBlocks` holds without either hypothesis.

*The refinement* (`RaftelLog`). A step executes one block at most and the
views of a replica's executed blocks grow (`InOrder`); executed blocks lie on one
chain, so the longest of them is the log, and the entries of each replica are
positions on it in order.

*Why `Uniform`.* `executeComb` applies a block on a prepare certificate if the
replica's *current* leader has a TEE. A proposal stored early is replayed by
`CatchUp` without asking again who leads, and the set of blamed leaders may
have changed meanwhile; so, with rotating leaders over both types, the leader
the replica believes in and the proposer may be of different types. No instance
within TLC's reach gets there. `raftel_timeouts` and `blamed_leaders` check
`Agreement` with rotating leaders of both types for the views they reach.

### The service

For any clients, replicas, transactions, block sizes and bounds
(`ServiceProofs`):

- **`ServiceType`**: `TypeOK`; a client counts no more replies than its quorum and
  only for transactions it sent;
- **`ServiceAnswers`**: `AnswersAgree`;
- **`ServiceTimeout`**: `TimeoutWithinTwice`;
- **`ServiceAccepts`**: no transaction meets a replica that does not know its
  client (`NoneRejected`);
- **`ServiceNoneLost`**: `NoneLostOrDoubled`, the copy of a transaction sent to a
  replica is on its way, in the pool, or at one position of one of its blocks;
- **`ServiceAppliedOnce`**: `AppliedOnce`, the store of a replica is the replay
  of the transactions it executed, each where it first occurs.

The invariant `Served` has two existential parts: a set of the transactions sent,
which all messages, pools, blocks and queues are about, and a history of
executors along the chain, on which every replica is that missed no block. What
a block makes of the executor depends on nothing else of the replica and takes
no answer back; both are proved for the loop of `replyTransactions` by its least
counterexample. Being existential over all sets, `Served` is not something TLC
can evaluate; the run checks what follows from it.

The last two theorems add three invariants to it. `Booked`: there is one
transaction for each client and number, its payload names both, and
connections, pools, blocks and logs hold nothing else. `Replayed`: the keys in
the executor's cache are those of the replica's log, so a transaction is found
in the cache exactly when the log has it already. `AllPlaced`: one of the four sets of places
has one member and the others none; each action that takes a copy out of one
puts it into the next (`createNewBlock` and what it leaves in the pool split the
positions of the pool in two). `AppliedOnce` and `NoneLostOrDoubled` are stated
with two history variables, the proposer of each block and each replica's log.

### Only model-checked

- Liveness (`EveryoneExecutes`): fairness and `ENABLED` are out of the prover's
  reach. `NeverStalls` and `EveryoneAnswered` are safety properties, but their
  arguments count everything that is left to do.
- `StubMeetsWrapper`: a finite table, which TLC checks completely.
- `ChainedRaftel` and `HotStuff`, and `Raftel` over Basic-Damysus (where `Agreement`
  fails). `CertifiedParentIsExtended` and the refinement of `ChainedRaftel` fail
  once replicas disagree on leaders (`chained_fork`), so a theorem needs a
  hypothesis on blame first. Whether agreement on leaders suffices for all numbers
  of views is open: `CH_COMB_TEEprepare` overwrites the recorded pair without
  comparing views and takes no lock, so the argument from quorums goes through
  directly only for blocks of consecutive views.

## 5. Not modelled, and the plan

Next: the invariants of the other three components, as for Checker+; the safety
argument of `HotStuff` (one kind of quorum and no blame, otherwise along the lines of
`Raftel`); then, for `ChainedRaftel` without blame, whether the certified parent is extended
after any number of skipped views.

Not modelled: the accumulator protocol (`Handler.cpp:2612-3019`) and the one-phase,
chained-HotStuff and free protocols, whose macros `Handler.h:43` rejects, so no
build runs them; of their enclave functions only the place in the ECALL tables is
here. Cryptography and serialisation are idealised. Statistics, Redis,
salticidae's internals (connection set-up, reconnection), start-up and the
experiment scripts make no protocol decision. Data races of the client thread
and the peer thread on the host's maps are undefined behaviour without outcomes a
model could list; outside the enclave `getStarted` is one atomic step.
