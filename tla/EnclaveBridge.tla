---------------------------- MODULE EnclaveBridge ----------------------------
(***************************************************************************)
(* The trusted component as the host really reaches it: through a stub,    *)
(* a wrapper that copies the parameters into the enclave, a body in which  *)
(* reading the (view, phase) pair, signing and advancing the pair are      *)
(* separate steps, OCALLs out of the body, and copying the result back.    *)
(* Module Checker takes a call to be one step; here it is shown when that  *)
(* is sound.                                                               *)
(***************************************************************************)
EXTENDS Checker, EnclaveInterface

CONSTANTS
    Thread,    \* the host's threads
    Calls,     \* the ECALLs each of them makes
    OCalls,    \* the OCALLs, as indices into ocall_table_Enclave
    LastOther  \* bound: up to which (view, phase) the other families are called

ASSUME CallsAssumption  == Calls \in [Thread -> SUBSET ECallName]
ASSUME LastOtherAssumption == LastOther \in Nat
ASSUME OCallsAssumption == OCalls \subseteq DOMAIN ocall_table_Enclave

VARIABLES
    stack,     \* per thread, the ECALLs it is inside of, innermost first
    heap,      \* the buffers the wrappers hold on the enclave's heap, as <<thread, number>>
    handed     \* the statements the host has received

bridgeVars == <<tc, signed, prepared, stack, heap, handed>>

-----------------------------------------------------------------------------
(* Stubs and wrappers *)

\* What the wrapper at the index of a stub does.
Wrapped(e) == g_ecall_table[index[e] + 1]

Buffers(e) == Len(Wrapped(e).in) + Len(Wrapped(e).out)

\* out is the set of statements in the result: none when res->set = false.
Frame(e) == [call |-> e, pc |-> "copyin", bufs |-> 0, ocall |-> 0,
             before |-> COMB_init, out |-> {}]

Top(t) == Head(stack[t])
At(t, pc) == stack[t] # <<>> /\ Top(t).pc = pc /\ Top(t).ocall = 0
SetTop(t, f) == stack' = [stack EXCEPT ![t] = <<f>> \o Tail(@)]
Pop(t) == stack' = [stack EXCEPT ![t] = Tail(@)]

\* The buffers of the call that thread t is inside of.
Held(t) == {<<t, i>> : i \in 1 .. Top(t).bufs}

\* Mutant: the host may enter the enclave again from an OCALL.
MayEnter_nested(t, e) == stack[t] = <<>> \/ (Len(stack[t]) = 1 /\ Top(t).ocall # 0)

\* All rows of g_dyn_entry_table are zero: an OCALL admits no ECALL.
MayEnter(t, e) == stack[t] = <<>>

ECall(t) ==
    \E e \in Calls[t] :
        /\ Callable
        /\ e \in DOMAIN index_COMB \/ Counter(tc.view, tc.phase) <= LastOther
        /\ MayEnter(t, e)
        /\ stack' = [stack EXCEPT ![t] = <<Frame(e)>> \o @]
        /\ UNCHANGED <<tc, signed, prepared, heap, handed>>

\* One malloc for each pointer that is copied in or out.
CopyIn(t) ==
    /\ At(t, "copyin")
    /\ Top(t).bufs < Buffers(Top(t).call)
    /\ heap' = heap \cup {<<t, Top(t).bufs + 1>>}
    /\ SetTop(t, [Top(t) EXCEPT !.bufs = @ + 1])
    /\ UNCHANGED <<tc, signed, prepared, handed>>

\* Mutant: a failing malloc returns at once, without going through err.
OutOfMemory_leak(t) ==
    /\ At(t, "copyin")
    /\ Top(t).bufs < Buffers(Top(t).call)
    /\ Pop(t)
    /\ UNCHANGED <<tc, signed, prepared, heap, handed>>

\* A malloc fails: goto err frees what there is, and the host sees the status.
OutOfMemory(t) ==
    /\ At(t, "copyin")
    /\ Top(t).bufs < Buffers(Top(t).call)
    /\ heap' = heap \ Held(t)
    /\ Pop(t)
    /\ UNCHANGED <<tc, signed, prepared, handed>>

Enter(t) ==
    /\ At(t, "copyin")
    /\ Top(t).bufs = Buffers(Top(t).call)
    /\ SetTop(t, [Top(t) EXCEPT !.pc = "run"])
    /\ UNCHANGED <<tc, signed, prepared, heap, handed>>

\* Mutant: a wrapper frees the result before it copies it out.
CopyOut_freed(t) ==
    /\ At(t, "copyout")
    /\ heap' = heap \ Held(t)
    /\ Pop(t)
    /\ UNCHANGED <<tc, signed, prepared, handed>>

\* The result is copied out, all buffers are freed, and the host gets the statement.
CopyOut(t) ==
    /\ At(t, "copyout")
    /\ heap' = heap \ Held(t)
    /\ handed' = handed \cup Top(t).out
    /\ Pop(t)
    /\ UNCHANGED <<tc, signed, prepared>>

-----------------------------------------------------------------------------
(* OCALLs: print and time-keeping of the bodies, and those of the SGX       *)
(* libraries below them, which the signature goes through.  They change     *)
(* nothing the component keeps, and nobody looks at their status.           *)

OCallOut(t) ==
    \E o \in OCalls :
        /\ At(t, "run") \/ At(t, "sign")
        /\ SetTop(t, [Top(t) EXCEPT !.ocall = o])
        /\ UNCHANGED <<tc, signed, prepared, heap, handed>>

OCallReturn(t) ==
    /\ stack[t] # <<>>
    /\ Top(t).ocall # 0
    /\ SetTop(t, [Top(t) EXCEPT !.ocall = 0])
    /\ UNCHANGED <<tc, signed, prepared, heap, handed>>

-----------------------------------------------------------------------------
(* Bodies *)

InBody(t, fn) == At(t, "run") /\ Wrapped(Top(t).call).fn = fn

\* COMB_sign up to signString: what it signs is fixed, the pair has not moved.
\* c is the component after the assignments that come before COMB_sign.
StartSigning(t, c, data) ==
    /\ tc' = c
    /\ SetTop(t, [Top(t) EXCEPT !.pc = "sign", !.before = tc, !.out = {data}])
    /\ UNCHANGED <<signed, prepared, heap, handed>>

\* The component with the records a call leaves, before its pair advances.
Recorded(c, after) ==
    [c EXCEPT !.preph = after.preph, !.prepv = after.prepv,
              !.lockh = after.lockh, !.lockv = after.lockv]

Call(t, res) == StartSigning(t, Recorded(tc, res.tc), res.data)

RunTEEsign(t) == InBody(t, "COMB_TEEsign") /\ Call(t, COMB_TEEsign(tc))

RunTEEprepare(t) ==
    \E block \in Blocks, acc \in Accums, nvs \in Proofs :
        /\ InBody(t, "COMB_TEEprepare")
        /\ CanTEEprepare(tc, block, acc, nvs)
        /\ Call(t, COMB_TEEprepare(tc, block, acc))

RunTEEstore(t) ==
    \E just \in Justs :
        /\ InBody(t, "COMB_TEEstore")
        /\ CanTEEstore(tc, just)
        /\ Call(t, COMB_TEEstore(tc, just))

\* The signature is made, and COMB_increment moves the pair that is there now.
Sign(t) ==
    /\ At(t, "sign")
    /\ tc' = COMB_increment(tc)
    /\ signed' = signed \cup Top(t).out
    /\ prepared' = prepared \cup {<<tc.preph, tc.prepv>>}
    /\ SetTop(t, [Top(t) EXCEPT !.pc = "copyout"])
    /\ UNCHANGED <<heap, handed>>

\* COMB_TEEprepare and COMB_TEEstore may refuse their arguments; the accumulators
\* keep no state, and the other families keep none of the COMB variables.
RunOther(t) ==
    /\ At(t, "run")
    /\ Wrapped(Top(t).call).fn # "COMB_TEEsign"
    /\ SetTop(t, [Top(t) EXCEPT !.pc = "copyout"])
    /\ UNCHANGED <<tc, signed, prepared, heap, handed>>

-----------------------------------------------------------------------------
BridgeInit ==
    /\ Init
    /\ stack = [t \in Thread |-> <<>>]
    /\ heap = {}
    /\ handed = {}

BridgeNext ==
    \E t \in Thread :
        \/ ECall(t) \/ CopyIn(t) \/ OutOfMemory(t) \/ Enter(t) \/ CopyOut(t)
        \/ OCallOut(t) \/ OCallReturn(t)
        \/ RunTEEsign(t) \/ RunTEEprepare(t) \/ RunTEEstore(t) \/ Sign(t) \/ RunOther(t)

BridgeSpec == BridgeInit /\ [][BridgeNext]_bridgeVars

-----------------------------------------------------------------------------
(* Properties *)

AllFrames == UNION {{stack[t][i] : i \in DOMAIN stack[t]} : t \in Thread}
Signing == {f \in AllFrames : f.pc = "sign"}
Outgoing == UNION {f.out : f \in {g \in AllFrames : g.pc = "copyout"}}

(***************************************************************************)
(* NoLeak: on every path out of a wrapper, its error paths included, every *)
(* buffer it allocated is freed, so that the enclave's heap holds only     *)
(* what calls under way need.                                              *)
(***************************************************************************)
NoLeak == heap = UNION {Held(t) : t \in {u \in Thread : stack[u] # <<>>}}

(***************************************************************************)
(* StubMeetsWrapper: the index a stub of Enclave_u.c calls is that of the  *)
(* wrapper of Enclave_t.c for the same function, and the structure the     *)
(* stub fills has the fields the wrapper reads.                            *)
(***************************************************************************)
StubMeetsWrapper ==
    \A f \in AllFrames : /\ Wrapped(f.call).fn = f.call
                         /\ ms[f.call] = Wrapped(f.call).in \o Wrapped(f.call).out

(***************************************************************************)
(* ImplementsChecker: seen from the host, by what it received and what is  *)
(* on its way out, each call is one step of module Checker and no signed   *)
(* statement is lost, whatever OCALLs and failures come between.           *)
(***************************************************************************)
Component == INSTANCE Checker
    WITH tc <- IF Signing = {} THEN tc ELSE (CHOOSE f \in Signing : TRUE).before,
         signed <- handed \cup Outgoing,
         prepared <- prepared

ImplementsChecker == Component!Spec
=============================================================================
