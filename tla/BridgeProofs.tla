----------------------------- MODULE BridgeProofs -----------------------------
(***************************************************************************)
(* The trusted component behind its bridge.  For any number of threads no  *)
(* wrapper leaks a buffer; and when the host has one thread in the         *)
(* enclave, the component it reaches through stubs, copies, OCALLs and     *)
(* failing allocations is the atomic one of module Checker, so that the    *)
(* theorems of CheckerProofs hold of what the host receives.               *)
(*                                                                         *)
(* The argument: an OCALL admits no ECALL, so a thread is inside of one    *)
(* call at most (Frames).  While the call signs, the component keeps what  *)
(* it was before in the frame, has recorded what the call records, and its *)
(* pair has not moved (Pending); nobody else can move it.  So the step     *)
(* Sign is the whole call, and every other step changes nothing the host   *)
(* can see.                                                                *)
(***************************************************************************)
EXTENDS EnclaveBridge, CheckerProofs

USE DEF PH1_NEWVIEW, PH1_PREPARE, PH1_PRECOMMIT, PH1_COMMIT

\* The frame of a call under way.
FrameState ==
    [call : ECallName, pc : {"copyin", "run", "sign", "copyout"}, bufs : Nat,
     ocall : OCalls \cup {0}, before : TrustedState, out : SUBSET RData]

\* Every thread is inside of one call at most.
Frames ==
    /\ stack \in [Thread -> Seq(FrameState)]
    /\ \A t \in Thread : stack[t] = <<>> \/ \E f \in FrameState : stack[t] = <<f>>

\* The innermost call of a thread that is inside of one.
LEMMA OneFrame ==
    ASSUME NEW t \in Thread, NEW f, stack[t] = <<f>>
    PROVE  /\ stack[t] # <<>> /\ Top(t) = f /\ Tail(stack[t]) = <<>>
           /\ \A g : <<g>> \o Tail(stack[t]) = <<g>>
BY DEF Top

\* What the steps do to the stack of their thread, which is in a call of frame f.
LEMMA StackSteps ==
    ASSUME Frames, NEW t \in Thread, NEW f, stack[t] = <<f>>
    PROVE  /\ \A g : SetTop(t, g) => stack' = [stack EXCEPT ![t] = <<g>>]
           /\ Pop(t) => stack' = [stack EXCEPT ![t] = <<>>]
BY OneFrame DEF SetTop, Pop

\* A stack may become that of a frame, or empty.
LEMMA FramesKept ==
    ASSUME Frames, NEW t \in Thread,
           \/ \E g \in FrameState : stack' = [stack EXCEPT ![t] = <<g>>]
           \/ stack' = [stack EXCEPT ![t] = <<>>]
    PROVE  Frames'
<1>1. CASE stack' = [stack EXCEPT ![t] = <<>>]
  <2>1. <<>> \in Seq(FrameState)
    OBVIOUS
  <2> QED BY <1>1, <2>1 DEF Frames
<1>2. ASSUME NEW g \in FrameState, stack' = [stack EXCEPT ![t] = <<g>>] PROVE Frames'
  <2>1. <<g>> \in Seq(FrameState)
    OBVIOUS
  <2> QED BY <1>2, <2>1 DEF Frames
<1> QED BY <1>1, <1>2

-----------------------------------------------------------------------------
(* Results of calls *)

\* What a call of the component in state b may return.
Result(b, res) ==
    \/ res = COMB_TEEsign(b)
    \/ \E block \in Blocks, acc \in Accums, nvs \in Proofs :
          CanTEEprepare(b, block, acc, nvs) /\ res = COMB_TEEprepare(b, block, acc)
    \/ \E just \in Justs : CanTEEstore(b, just) /\ res = COMB_TEEstore(b, just)

\* Recording what COMB_sign leaves gives back the component that signed.
LEMMA SignRecords ==
    ASSUME NEW b \in TrustedState, NEW c \in TrustedState,
           c.view = b.view, c.phase = b.phase,
           NEW h1 \in Hash, NEW h2 \in Hash, NEW v2 \in View
    PROVE  LET res == COMB_sign(c, h1, h2, v2)
           IN  /\ Recorded(b, res.tc) = c /\ COMB_increment(c) = res.tc
               /\ res.data \in RData
<1> DEFINE res == COMB_sign(c, h1, h2, v2)
<1>1. res.tc = COMB_increment(c) /\ res.data = COMB_rdata(c, h1, h2, v2)
  BY DEF COMB_sign
<1>2. /\ res.tc.preph = c.preph /\ res.tc.prepv = c.prepv
      /\ res.tc.lockh = c.lockh /\ res.tc.lockv = c.lockv
  BY <1>1, IncrementFacts
<1>3. res.data \in RData
  BY <1>1 DEF COMB_rdata, RData, TrustedState
<1> HIDE DEF res
<1>4. Recorded(b, res.tc) = [b EXCEPT !.preph = c.preph, !.prepv = c.prepv,
                                      !.lockh = c.lockh, !.lockv = c.lockv]
  BY <1>2 DEF Recorded
<1>5. Recorded(b, res.tc) = c
  BY <1>4 DEF TrustedState
<1> QED BY <1>1, <1>3, <1>5 DEF res

\* So every call records first and then advances the pair.
LEMMA ResultFacts ==
    ASSUME NEW b \in TrustedState, NEW res, Result(b, res)
    PROVE  /\ Recorded(b, res.tc) \in TrustedState
           /\ COMB_increment(Recorded(b, res.tc)) = res.tc
           /\ res.data \in RData
<1>1. CASE res = COMB_TEEsign(b)
  <2>1. b.preph \in Hash /\ b.prepv \in View
    BY DEF TrustedState
  <2> QED BY <1>1, <2>1, NewHashType, SignRecords DEF COMB_TEEsign
<1>2. ASSUME NEW block \in Blocks, NEW acc \in Accums, res = COMB_TEEprepare(b, block, acc)
      PROVE  /\ Recorded(b, res.tc) \in TrustedState
             /\ COMB_increment(Recorded(b, res.tc)) = res.tc
             /\ res.data \in RData
  <2> DEFINE c == IF isTEE(acc.signer)
                  THEN [b EXCEPT !.preph = block.hash, !.prepv = b.view] ELSE b
  <2>1. block.hash \in Hash /\ acc.hash \in Hash /\ acc.prepv \in View
    BY BlocksAssumption, AccumsAssumption DEF Block, Accum
  <2>2. c \in TrustedState /\ c.view = b.view /\ c.phase = b.phase
    BY <2>1 DEF TrustedState
  <2>3. res = COMB_sign(c, block.hash, acc.hash, acc.prepv)
    BY <1>2 DEF COMB_TEEprepare
  <2> HIDE DEF c
  <2> QED BY <2>1, <2>2, <2>3, SignRecords
<1>3. ASSUME NEW just \in Justs, res = COMB_TEEstore(b, just)
      PROVE  /\ Recorded(b, res.tc) \in TrustedState
             /\ COMB_increment(Recorded(b, res.tc)) = res.tc
             /\ res.data \in RData
  <2> DEFINE p == [b EXCEPT !.preph = just.data.proph, !.prepv = just.data.propv]
             c == IF just.data.phase = PH1_PRECOMMIT
                  THEN [p EXCEPT !.lockh = just.data.proph, !.lockv = just.data.propv]
                  ELSE p
  <2>1. just.data.proph \in Hash /\ just.data.propv \in View /\ newHash \in Hash /\ 0 \in View
    BY JustsAssumption, NewHashType DEF Just, RData, View
  <2>2. c \in TrustedState /\ c.view = b.view /\ c.phase = b.phase
    BY <2>1 DEF TrustedState
  <2>3. res = COMB_sign(c, just.data.proph, newHash, 0)
    BY <1>3 DEF COMB_TEEstore
  <2> HIDE DEF c
  <2> QED BY <2>1, <2>2, <2>3, SignRecords
<1> QED BY <1>1, <1>2, <1>3 DEF Result

-----------------------------------------------------------------------------
(* Steps: the actions as what they do to the stack of their thread *)

\* What the steps that only move a frame leave alone.
Rest == <<tc, signed, prepared, heap, handed>>

\* Thread t, which is not in the enclave, makes an ECALL.
Calling(t) ==
    /\ stack[t] = <<>> /\ Callable /\ UNCHANGED Rest
    /\ \E e \in ECallName : stack' = [stack EXCEPT ![t] = <<Frame(e)>>]

\* Thread t, in frame f, allocates a buffer,
Allocating(t, f) ==
    /\ f.pc = "copyin" /\ UNCHANGED <<tc, signed, prepared, handed>>
    /\ heap' = heap \cup {<<t, f.bufs + 1>>}
    /\ stack' = [stack EXCEPT ![t] = <<[f EXCEPT !.bufs = @ + 1]>>]

\* leaves the enclave, with the result if there is one,
Leaving(t, f) ==
    /\ UNCHANGED <<tc, signed, prepared>>
    /\ heap' = heap \ Held(t)
    /\ stack' = [stack EXCEPT ![t] = <<>>]
    /\ \/ f.pc = "copyin" /\ handed' = handed
       \/ f.pc = "copyout" /\ handed' = handed \cup f.out

\* goes on to g without a result,
Going(t, f) ==
    /\ UNCHANGED Rest
    /\ \/ \E o \in OCalls \cup {0} : stack' = [stack EXCEPT ![t] = <<[f EXCEPT !.ocall = o]>>]
       \/ f.pc = "copyin" /\ stack' = [stack EXCEPT ![t] = <<[f EXCEPT !.pc = "run"]>>]
       \/ f.pc = "run" /\ stack' = [stack EXCEPT ![t] = <<[f EXCEPT !.pc = "copyout"]>>]

\* records what a call records,
Recording(t, f) ==
    /\ f.pc = "run" /\ UNCHANGED <<signed, prepared, heap, handed>>
    /\ \E res : /\ Result(tc, res) /\ tc' = Recorded(tc, res.tc)
                /\ stack' = [stack EXCEPT ![t] =
                      <<[f EXCEPT !.pc = "sign", !.before = tc, !.out = {res.data}]>>]

\* or signs.
Advancing(t, f) ==
    /\ f.pc = "sign" /\ UNCHANGED <<heap, handed>>
    /\ tc' = COMB_increment(tc)
    /\ signed' = signed \cup f.out
    /\ prepared' = prepared \cup {<<tc.preph, tc.prepv>>}
    /\ stack' = [stack EXCEPT ![t] = <<[f EXCEPT !.pc = "copyout"]>>]

\* Whatever a thread inside of a call may do next.
Stepping(t, f) ==
    \/ Allocating(t, f) \/ Leaving(t, f) \/ Going(t, f) \/ Recording(t, f) \/ Advancing(t, f)

\* The actions of BridgeNext are these steps.
LEMMA StepForms ==
    ASSUME Frames, BridgeNext
    PROVE  \E t \in Thread :
              \/ Calling(t)
              \/ \E f \in FrameState : stack[t] = <<f>> /\ Stepping(t, f)
<1>1. PICK t \in Thread :
        \/ ECall(t) \/ CopyIn(t) \/ OutOfMemory(t) \/ Enter(t) \/ CopyOut(t)
        \/ OCallOut(t) \/ OCallReturn(t)
        \/ RunTEEsign(t) \/ RunTEEprepare(t) \/ RunTEEstore(t) \/ Sign(t) \/ RunOther(t)
  BY DEF BridgeNext
<1>2. CASE ECall(t)
  <2>1. PICK e \in Calls[t] : /\ Callable /\ MayEnter(t, e)
                              /\ stack' = [stack EXCEPT ![t] = <<Frame(e)>> \o @]
                              /\ UNCHANGED <<tc, signed, prepared, heap, handed>>
    BY <1>2 DEF ECall
  <2>2. e \in ECallName /\ stack[t] = <<>>
    BY <2>1, CallsAssumption DEF MayEnter
  <2>3. <<Frame(e)>> \o <<>> = <<Frame(e)>>
    OBVIOUS
  <2> QED BY <2>1, <2>2, <2>3 DEF Calling, Rest
<1>3. ASSUME ~ECall(t) PROVE \E f \in FrameState : stack[t] = <<f>> /\ Stepping(t, f)
  <2>1. stack[t] # <<>>
    BY <1>1, <1>3 DEF CopyIn, OutOfMemory, Enter, CopyOut, OCallOut, OCallReturn, RunTEEsign,
                      RunTEEprepare, RunTEEstore, Sign, RunOther, At, InBody
  <2>2. PICK f \in FrameState : stack[t] = <<f>>
    BY <2>1 DEF Frames
  <2>3. /\ Top(t) = f
        /\ \A g : SetTop(t, g) => stack' = [stack EXCEPT ![t] = <<g>>]
        /\ Pop(t) => stack' = [stack EXCEPT ![t] = <<>>]
    BY <2>2, OneFrame, StackSteps
  <2>4. CASE CopyIn(t)
    BY <2>2, <2>3, <2>4 DEF CopyIn, At, Stepping, Allocating
  <2>5. CASE OutOfMemory(t)
    BY <2>2, <2>3, <2>5 DEF OutOfMemory, At, Stepping, Leaving
  <2>6. CASE Enter(t)
    BY <2>2, <2>3, <2>6 DEF Enter, At, Stepping, Going, Rest
  <2>7. CASE CopyOut(t)
    BY <2>2, <2>3, <2>7 DEF CopyOut, At, Stepping, Leaving
  <2>8. CASE OCallOut(t) \/ OCallReturn(t)
    BY <2>2, <2>3, <2>8 DEF OCallOut, OCallReturn, Stepping, Going, Rest
  <2>9. ASSUME InBody(t, "COMB_TEEsign") \/ InBody(t, "COMB_TEEprepare") \/ InBody(t, "COMB_TEEstore"),
               NEW res, Result(tc, res), Call(t, res)
        PROVE  Recording(t, f)
    <3>1. f.pc = "run"
      BY <2>3, <2>9 DEF InBody, At
    <3>2. /\ tc' = Recorded(tc, res.tc) /\ UNCHANGED <<signed, prepared, heap, handed>>
          /\ SetTop(t, [f EXCEPT !.pc = "sign", !.before = tc, !.out = {res.data}])
      BY <2>3, <2>9 DEF Call, StartSigning
    <3> QED BY <2>3, <2>9, <3>1, <3>2 DEF Recording
  <2>10. CASE RunTEEsign(t)
    BY <2>2, <2>9, <2>10 DEF RunTEEsign, Result, Stepping
  <2>11. CASE RunTEEprepare(t)
    BY <2>2, <2>9, <2>11 DEF RunTEEprepare, Result, Stepping
  <2>12. CASE RunTEEstore(t)
    BY <2>2, <2>9, <2>12 DEF RunTEEstore, Result, Stepping
  <2>13. CASE Sign(t)
    BY <2>2, <2>3, <2>13 DEF Sign, At, Stepping, Advancing
  <2>14. CASE RunOther(t)
    BY <2>2, <2>3, <2>14 DEF RunOther, At, Stepping, Going, Rest
  <2> QED BY <1>1, <1>3, <2>4, <2>5, <2>6, <2>7, <2>8, <2>10, <2>11, <2>12, <2>13, <2>14
<1> QED BY <1>2, <1>3

-----------------------------------------------------------------------------
(* Any number of threads: types and the heap *)

\* Component and frames are well formed.
Bridged == tc \in TrustedState /\ Frames

\* The frame a step leaves is a frame.
LEMMA BridgedKept ==
    ASSUME Bridged, [BridgeNext]_bridgeVars
    PROVE  Bridged'
<1>1. CASE UNCHANGED bridgeVars
  BY <1>1 DEF bridgeVars, Bridged, Frames
<1>2. CASE BridgeNext
  <2>1. PICK t \in Thread : \/ Calling(t)
                            \/ \E f \in FrameState : stack[t] = <<f>> /\ Stepping(t, f)
    BY <1>2, StepForms DEF Bridged
  <2>2. CASE Calling(t)
    <3>1. PICK e \in ECallName : stack' = [stack EXCEPT ![t] = <<Frame(e)>>]
      BY <2>2 DEF Calling
    <3>2. COMB_init \in TrustedState
      BY NewHashType DEF COMB_init, TrustedState, View, Phase1
    <3>3. Frame(e) \in FrameState
      BY <3>2 DEF Frame, FrameState
    <3>4. Frames'
      BY <3>1, <3>3, FramesKept DEF Bridged
    <3> QED BY <2>2, <3>4 DEF Bridged, Calling, Rest
  <2>3. ASSUME NEW f \in FrameState, stack[t] = <<f>>, Stepping(t, f) PROVE Bridged'
    <3>1. CASE Allocating(t, f)
      <4>1. [f EXCEPT !.bufs = @ + 1] \in FrameState
        BY DEF FrameState
      <4> QED BY <3>1, <4>1, FramesKept DEF Bridged, Allocating
    <3>2. CASE Leaving(t, f)
      BY <3>2, FramesKept DEF Bridged, Leaving
    <3>3. CASE Going(t, f)
      <4>1. /\ \A o \in OCalls \cup {0} : [f EXCEPT !.ocall = o] \in FrameState
            /\ [f EXCEPT !.pc = "run"] \in FrameState
            /\ [f EXCEPT !.pc = "copyout"] \in FrameState
        BY DEF FrameState
      <4>2. Frames'
        BY <3>3, <4>1, FramesKept DEF Bridged, Going
      <4> QED BY <3>3, <4>2 DEF Bridged, Going, Rest
    <3>4. CASE Recording(t, f)
      <4>1. PICK res : /\ Result(tc, res) /\ tc' = Recorded(tc, res.tc)
                       /\ stack' = [stack EXCEPT ![t] =
                             <<[f EXCEPT !.pc = "sign", !.before = tc, !.out = {res.data}]>>]
        BY <3>4 DEF Recording
      <4>2. tc \in TrustedState /\ tc' \in TrustedState /\ res.data \in RData
        BY <4>1, ResultFacts DEF Bridged
      <4> DEFINE data == res.data
      <4> HIDE DEF data
      <4>3. [f EXCEPT !.pc = "sign", !.before = tc, !.out = {data}] \in FrameState
        BY <4>2 DEF FrameState, data
      <4>4. Frames'
        BY <4>1, <4>3, FramesKept DEF Bridged, data
      <4> QED BY <4>2, <4>4 DEF Bridged
    <3>5. CASE Advancing(t, f)
      <4>1. [f EXCEPT !.pc = "copyout"] \in FrameState
        BY DEF FrameState
      <4>2. tc' \in TrustedState
        BY <3>5, IncrementFacts DEF Bridged, Advancing
      <4> QED BY <3>5, <4>1, <4>2, FramesKept DEF Bridged, Advancing
    <3> QED BY <2>3, <3>1, <3>2, <3>3, <3>4, <3>5 DEF Stepping
  <2> QED BY <2>1, <2>2, <2>3
<1> QED BY <1>1, <1>2

\* The buffers of the call a thread is in, none if it is in none.
Own(t) == IF stack[t] = <<>> THEN {} ELSE Held(t)

\* No leak is: the heap is what the threads own.
OwnHeap == \A x : x \in heap <=> \E t \in Thread : x \in Own(t)

\* NoLeak, buffer by buffer.
LEMMA NoLeakOwn == NoLeak <=> OwnHeap
BY DEF NoLeak, Own, OwnHeap

\* What a thread owns is told by its frame.
OwnFrames ==
    \A t \in Thread :
        /\ \A x \in Own(t) : x[1] = t
        /\ \A f : stack[t] = <<f>> => Own(t) = {<<t, i>> : i \in 1 .. f.bufs}
        /\ stack[t] = <<>> => Own(t) = {}

\* Well-formed frames own the buffers they count.
LEMMA FramesOwn == Frames => OwnFrames
BY OneFrame DEF OwnFrames, Own, Held

\* A step moves buffers of its own thread only.
LEMMA HeapKept ==
    ASSUME Frames, Frames', NoLeak, NEW t \in Thread, NEW s,
           stack' = [stack EXCEPT ![t] = s],
           \/ heap' = heap /\ Own(t)' = Own(t)
           \/ \E x : heap' = heap \cup {x} /\ Own(t)' = Own(t) \cup {x}
           \/ heap' = heap \ Own(t) /\ Own(t)' = {}
    PROVE  NoLeak'
<1>1. \A u \in Thread \ {t} : Own(u)' = Own(u)
  BY DEF Own, Held, Top, Frames
<1>2. \A x : x \in heap <=> \E u \in Thread : x \in Own(u)
  BY NoLeakOwn DEF OwnHeap
<1>3. \A u \in Thread \ {t} : \A x \in Own(u) : x \notin Own(t)
  BY FramesOwn DEF OwnFrames
<1>4. \A x : x \in heap' <=> \E u \in Thread : x \in Own(u)'
  BY <1>1, <1>2, <1>3
<1>5. NoLeak' <=> OwnHeap'
  BY NoLeakOwn, PTL
<1> QED BY <1>4, <1>5 DEF OwnHeap

\* So every step keeps the heap and the frames in line.
LEMMA NoLeakKept ==
    ASSUME Bridged, NoLeak, [BridgeNext]_bridgeVars
    PROVE  NoLeak'
<1>1. Frames /\ Frames'
  BY BridgedKept DEF Bridged
<1>2. CASE UNCHANGED bridgeVars
  BY <1>2 DEF bridgeVars, NoLeak, Held, Top
<1>3. CASE BridgeNext
  <2>1. PICK t \in Thread : \/ Calling(t)
                            \/ \E f \in FrameState : stack[t] = <<f>> /\ Stepping(t, f)
    BY <1>1, <1>3, StepForms
  \* The buffers that the thread's frame says it owns, now and after the step.
  <2>2. /\ \A f : stack[t] = <<f>> => Own(t) = {<<t, i>> : i \in 1 .. f.bufs}
        /\ stack[t] = <<>> => Own(t) = {}
    BY <1>1, FramesOwn DEF OwnFrames
  <2>3. /\ \A f : stack'[t] = <<f>> => Own(t)' = {<<t, i>> : i \in 1 .. f.bufs}
        /\ stack'[t] = <<>> => Own(t)' = {}
    <3>1. Frames' => OwnFrames'
      BY FramesOwn, PTL
    <3> QED BY <1>1, <3>1 DEF OwnFrames
  <2>4. \A s : stack' = [stack EXCEPT ![t] = s] => stack'[t] = s
    BY <1>1 DEF Frames
  <2>5. CASE Calling(t)
    <3>1. PICK e \in ECallName : stack' = [stack EXCEPT ![t] = <<Frame(e)>>]
      BY <2>5 DEF Calling
    <3>2. Frame(e).bufs = 0
      BY DEF Frame
    <3>3. 1 .. 0 = {}
      OBVIOUS
    <3>4. Own(t) = {} /\ Own(t)' = {}
      BY <2>2, <2>3, <2>4, <2>5, <3>1, <3>2, <3>3 DEF Calling
    <3> QED BY <1>1, <2>5, <3>1, <3>4, HeapKept DEF Calling, Rest
  <2>6. ASSUME NEW f \in FrameState, stack[t] = <<f>>, Stepping(t, f) PROVE NoLeak'
    <3>1. f.bufs \in Nat /\ Own(t) = {<<t, i>> : i \in 1 .. f.bufs}
      BY <2>2, <2>6 DEF FrameState
    <3>2. ASSUME NEW g, stack' = [stack EXCEPT ![t] = <<g>>], g.bufs = f.bufs, heap' = heap
          PROVE  NoLeak'
      <4>1. Own(t)' = Own(t)
        BY <2>3, <2>4, <3>1, <3>2
      <4> QED BY <1>1, <3>2, <4>1, HeapKept
    <3>3. CASE Allocating(t, f)
      <4> DEFINE g == [f EXCEPT !.bufs = @ + 1]
      <4>1. stack' = [stack EXCEPT ![t] = <<g>>] /\ heap' = heap \cup {<<t, f.bufs + 1>>}
        BY <3>3 DEF Allocating
      <4>2. g.bufs = f.bufs + 1
        BY DEF FrameState
      <4> HIDE DEF g
      <4>3. 1 .. (f.bufs + 1) = (1 .. f.bufs) \cup {f.bufs + 1}
        BY <3>1
      <4>4. Own(t)' = Own(t) \cup {<<t, f.bufs + 1>>}
        <5>1. Own(t)' = {<<t, i>> : i \in 1 .. (f.bufs + 1)}
          BY <2>3, <2>4, <4>1, <4>2
        <5> DEFINE B == 1 .. f.bufs
                   k == f.bufs + 1
        <5>2. Own(t) = {<<t, i>> : i \in B} /\ Own(t)' = {<<t, i>> : i \in B \cup {k}}
          BY <3>1, <4>3, <5>1
        <5> HIDE DEF B, k
        <5>3. Own(t)' = Own(t) \cup {<<t, k>>}
          BY <5>2
        <5> QED BY <5>3 DEF k
      <4> QED BY <1>1, <4>1, <4>4, HeapKept
    <3>4. CASE Leaving(t, f)
      <4>1. Own(t)' = {}
        BY <2>3, <2>4, <3>4 DEF Leaving
      <4>2. Held(t) = Own(t)
        BY <2>6, OneFrame DEF Own
      <4> QED BY <1>1, <3>4, <4>1, <4>2, HeapKept DEF Leaving
    <3>5. CASE Going(t, f)
      <4>1. /\ \A o : [f EXCEPT !.ocall = o].bufs = f.bufs
            /\ [f EXCEPT !.pc = "run"].bufs = f.bufs /\ [f EXCEPT !.pc = "copyout"].bufs = f.bufs
        BY DEF FrameState
      <4> QED BY <3>2, <3>5, <4>1 DEF Going, Rest
    <3>6. CASE Recording(t, f)
      <4>1. \A c, d : [f EXCEPT !.pc = "sign", !.before = c, !.out = d].bufs = f.bufs
        BY DEF FrameState
      <4> QED BY <3>2, <3>6, <4>1 DEF Recording
    <3>7. CASE Advancing(t, f)
      <4>1. [f EXCEPT !.pc = "copyout"].bufs = f.bufs
        BY DEF FrameState
      <4> QED BY <3>2, <3>7, <4>1 DEF Advancing
    <3> QED BY <2>6, <3>3, <3>4, <3>5, <3>6, <3>7 DEF Stepping
  <2> QED BY <2>1, <2>5, <2>6
<1> QED BY <1>2, <1>3

\* Initially no thread is in the enclave and the heap is empty.
LEMMA BridgedInit ==
    ASSUME BridgeInit
    PROVE  Bridged /\ NoLeak
<1>1. COMB_init \in TrustedState
  BY NewHashType DEF COMB_init, TrustedState, View, Phase1
<1>2. Frames
  BY DEF BridgeInit, Frames
<1> QED BY <1>1, <1>2 DEF BridgeInit, Init, Bridged, NoLeak

-----------------------------------------------------------------------------
(* One thread *)

\* The host has one thread that calls the enclave.
OneThread == \A t, u \in Thread : t = u

\* A call has recorded what it records, and its pair has not moved.
Pending(f) ==
    /\ Counter(f.before.view, f.before.phase) <= LastCount
    /\ \E res : /\ Result(f.before, res) /\ f.out = {res.data}
                /\ tc = Recorded(f.before, res.tc)

\* A call that has not come to the component has no result and may still be made.
Underway(f) ==
    /\ f.pc \in {"copyin", "run"} => f.out = {} /\ Callable
    /\ f.pc = "sign" => Pending(f)

\* Every call under way has got as far as its frame says.
Calm == Bridged /\ \A t \in Thread : \A f \in FrameState : stack[t] = <<f>> => Underway(f)

\* With one thread, nobody disturbs a call that is signing.
LEMMA CalmKept ==
    ASSUME OneThread, Calm, [BridgeNext]_bridgeVars
    PROVE  Calm'
<1>1. Bridged /\ Bridged'
  BY BridgedKept DEF Calm
<1>2. CASE UNCHANGED bridgeVars
  BY <1>1, <1>2 DEF bridgeVars, Calm, Underway, Pending, Callable
<1>3. CASE BridgeNext
  <2>1. PICK t \in Thread : \/ Calling(t)
                            \/ \E f \in FrameState : stack[t] = <<f>> /\ Stepping(t, f)
    BY <1>1, <1>3, StepForms DEF Bridged
  <2>2. \A s : stack' = [stack EXCEPT ![t] = s] => stack'[t] = s
    BY <1>1 DEF Bridged, Frames
  <2>3. ASSUME NEW g, stack' = [stack EXCEPT ![t] = <<g>>], Underway(g)' PROVE Calm'
    <3>1. stack'[t] = <<g>>
      BY <2>2, <2>3
    <3>2. \A u \in Thread : \A f : stack'[u] = <<f>> => f = g
      BY <3>1 DEF OneThread
    <3> QED BY <1>1, <2>3, <3>2 DEF Calm
  <2>4. CASE Calling(t)
    <3>1. PICK e \in ECallName : stack' = [stack EXCEPT ![t] = <<Frame(e)>>]
      BY <2>4 DEF Calling
    <3>2. Frame(e).pc = "copyin" /\ Frame(e).out = {}
      BY DEF Frame
    <3>3. Callable'
      BY <2>4 DEF Calling, Callable, Rest
    <3>4. Underway(Frame(e))'
      BY <3>2, <3>3 DEF Underway
    <3> QED BY <2>3, <3>1, <3>4
  <2>5. ASSUME NEW f \in FrameState, stack[t] = <<f>>, Stepping(t, f) PROVE Calm'
    <3>1. Underway(f)
      BY <2>5 DEF Calm
    <3>2. ASSUME tc' = tc PROVE Underway(f)'
      BY <3>1, <3>2 DEF Underway, Pending, Callable
    <3>3. CASE Allocating(t, f)
      <4> DEFINE g == [f EXCEPT !.bufs = @ + 1]
      <4>1. g.pc = f.pc /\ g.out = f.out /\ g.before = f.before
        BY DEF FrameState
      <4>2. Underway(f)' /\ stack' = [stack EXCEPT ![t] = <<g>>]
        BY <3>2, <3>3 DEF Allocating
      <4> HIDE DEF g
      <4>3. Underway(g)'
        BY <4>1, <4>2 DEF Underway, Pending
      <4> QED BY <2>3, <4>2, <4>3
    <3>4. CASE Leaving(t, f)
      <4>1. stack'[t] = <<>>
        BY <2>2, <3>4 DEF Leaving
      <4>2. \A u \in Thread : \A h : stack'[u] # <<h>>
        BY <4>1 DEF OneThread
      <4> QED BY <1>1, <4>2 DEF Calm
    <3>5. CASE Going(t, f)
      <4>1. Underway(f)'
        BY <3>2, <3>5 DEF Going, Rest
      <4>2. ASSUME NEW o, stack' = [stack EXCEPT ![t] = <<[f EXCEPT !.ocall = o]>>] PROVE Calm'
        <5> DEFINE g == [f EXCEPT !.ocall = o]
        <5>1. g.pc = f.pc /\ g.out = f.out /\ g.before = f.before
          BY DEF FrameState
        <5> HIDE DEF g
        <5>2. Underway(g)'
          BY <4>1, <5>1 DEF Underway, Pending
        <5> QED BY <2>3, <4>2, <5>2 DEF g
      <4>3. ASSUME f.pc = "copyin", stack' = [stack EXCEPT ![t] = <<[f EXCEPT !.pc = "run"]>>]
            PROVE  Calm'
        <5> DEFINE g == [f EXCEPT !.pc = "run"]
        <5>1. g.pc = "run" /\ g.out = f.out
          BY DEF FrameState
        <5> HIDE DEF g
        <5>2. Underway(g)'
          BY <4>1, <4>3, <5>1 DEF Underway
        <5> QED BY <2>3, <4>3, <5>2 DEF g
      <4>4. ASSUME stack' = [stack EXCEPT ![t] = <<[f EXCEPT !.pc = "copyout"]>>] PROVE Calm'
        <5> DEFINE g == [f EXCEPT !.pc = "copyout"]
        <5>1. g.pc = "copyout"
          BY DEF FrameState
        <5> HIDE DEF g
        <5>2. Underway(g)'
          BY <5>1 DEF Underway
        <5> QED BY <2>3, <4>4, <5>2 DEF g
      <4> QED BY <3>5, <4>2, <4>3, <4>4 DEF Going
    <3>6. CASE Recording(t, f)
      <4>1. PICK res : /\ Result(tc, res) /\ tc' = Recorded(tc, res.tc)
                       /\ stack' = [stack EXCEPT ![t] =
                             <<[f EXCEPT !.pc = "sign", !.before = tc, !.out = {res.data}]>>]
        BY <3>6 DEF Recording
      <4>2. PICK g : /\ g.pc = "sign" /\ g.before = tc /\ g.out = {res.data}
                     /\ stack' = [stack EXCEPT ![t] = <<g>>]
        <5> DEFINE h == [f EXCEPT !.pc = "sign", !.before = tc, !.out = {res.data}]
        <5>1. h.pc = "sign" /\ h.before = tc /\ h.out = {res.data}
          BY DEF FrameState
        <5> QED BY <4>1, <5>1
      <4>3. Callable
        BY <3>1, <3>6 DEF Recording, Underway
      <4>4. Counter(g.before.view, g.before.phase) <= LastCount
        BY <4>2, <4>3 DEF Callable
      <4>5. Result(g.before, res) /\ tc' = Recorded(g.before, res.tc)
        BY <4>1, <4>2
      <4>6. Pending(g)'
        BY <4>2, <4>4, <4>5 DEF Pending
      <4>7. Underway(g)'
        BY <4>2, <4>6 DEF Underway
      <4> QED BY <2>3, <4>2, <4>7
    <3>7. CASE Advancing(t, f)
      <4> DEFINE g == [f EXCEPT !.pc = "copyout"]
      <4>1. g.pc = "copyout"
        BY DEF FrameState
      <4> HIDE DEF g
      <4>2. Underway(g)'
        BY <4>1 DEF Underway
      <4> QED BY <2>3, <3>7, <4>2 DEF g, Advancing
    <3> QED BY <2>5, <3>3, <3>4, <3>5, <3>6, <3>7 DEF Stepping
  <2> QED BY <2>1, <2>4, <2>5
<1> QED BY <1>2, <1>3

\* Initially nothing is under way.
LEMMA CalmInit ==
    ASSUME BridgeInit
    PROVE  Calm
<1>1. \A t \in Thread : \A f : stack[t] # <<f>>
  BY DEF BridgeInit
<1> QED BY <1>1, BridgedInit DEF Calm

-----------------------------------------------------------------------------
(* The refinement *)

\* The component the host sees: as before the call that is signing,
Seen == IF Signing = {} THEN tc ELSE (CHOOSE f \in Signing : TRUE).before

\* and the statements it has, or that are on their way to it.
Given == handed \cup Outgoing

\* What the one thread's frame makes of them.
Mapped ==
    \A t \in Thread :
        /\ stack[t] = <<>> => Seen = tc /\ Given = handed
        /\ \A f : stack[t] = <<f>> =>
              /\ Seen = IF f.pc = "sign" THEN f.before ELSE tc
              /\ Given = IF f.pc = "copyout" THEN handed \cup f.out ELSE handed

\* With one thread, its frame alone decides what the host sees.
LEMMA Mapping == OneThread => Mapped
<1> SUFFICES ASSUME OneThread, NEW t \in Thread
             PROVE  /\ stack[t] = <<>> => Seen = tc /\ Given = handed
                    /\ \A f : stack[t] = <<f>> =>
                          /\ Seen = IF f.pc = "sign" THEN f.before ELSE tc
                          /\ Given = IF f.pc = "copyout" THEN handed \cup f.out ELSE handed
  BY DEF Mapped
<1>1. AllFrames = {stack[t][i] : i \in DOMAIN stack[t]}
  BY DEF AllFrames, OneThread
<1>2. CASE stack[t] = <<>>
  <2>1. AllFrames = {}
    BY <1>1, <1>2
  <2>2. Signing = {} /\ Outgoing = {}
    BY <2>1 DEF Signing, Outgoing
  <2> QED BY <1>2, <2>2 DEF Seen, Given
<1>3. ASSUME NEW f, stack[t] = <<f>>
      PROVE  /\ Seen = IF f.pc = "sign" THEN f.before ELSE tc
             /\ Given = IF f.pc = "copyout" THEN handed \cup f.out ELSE handed
  <2>1. AllFrames = {f}
    BY <1>1, <1>3
  <2>2. Signing = IF f.pc = "sign" THEN {f} ELSE {}
    BY <2>1 DEF Signing
  <2>3. Outgoing = IF f.pc = "copyout" THEN f.out ELSE {}
    BY <2>1 DEF Outgoing
  <2> QED BY <2>2, <2>3 DEF Seen, Given
<1> QED BY <1>2, <1>3

(***************************************************************************)
(* The operators of EnclaveComb do not depend on the variables, so those   *)
(* of the instance are the same.                                           *)
(***************************************************************************)
LEMMA SameSign ==
    /\ \A v, p : Component!Counter(v, p) = Counter(v, p)
    /\ \A c : Component!COMB_increment(c) = COMB_increment(c)
    /\ \A c, h1, h2, v2 : Component!COMB_sign(c, h1, h2, v2) = COMB_sign(c, h1, h2, v2)
<1>1. \A v, p : Component!Counter(v, p) = Counter(v, p)
  BY DEF Counter, PhaseIndex, Component!Counter, Component!PhaseIndex, Component!PH1_NEWVIEW,
         Component!PH1_PREPARE, Component!PH1_PRECOMMIT, Component!PH1_COMMIT
<1>2. \A c : Component!COMB_increment(c) = COMB_increment(c)
  BY DEF COMB_increment, Component!COMB_increment, Component!PH1_NEWVIEW,
         Component!PH1_PREPARE, Component!PH1_PRECOMMIT, Component!PH1_COMMIT
<1>3. \A c, h1, h2, v2 : Component!COMB_rdata(c, h1, h2, v2) = COMB_rdata(c, h1, h2, v2)
  BY DEF COMB_rdata, Component!COMB_rdata
<1> QED BY <1>1, <1>2, <1>3 DEF COMB_sign, Component!COMB_sign

\* The same for the library operator the quorums use,
LEMMA SameCardinality == \A S : Component!Cardinality(S) = Cardinality(S)
BY DEF Cardinality, Component!Cardinality

\* the quorums,
LEMMA SameQuorum == \A S : Component!IsQuorum(S) <=> IsQuorum(S)
<1>1. \A p : Component!isTEE(p) <=> isTEE(p)
  BY DEF isTEE, Component!isTEE
<1>2. Component!total = total
  BY DEF total, Component!total
<1>3. /\ Component!Replica = Replica /\ Component!qsize = qsize
      /\ Component!tqsize = tqsize
  BY <1>2 DEF Replica, Component!Replica, qsize, Component!qsize, tqsize, Component!tqsize
<1>4. Component!TEEReplica = TEEReplica
  BY <1>1, <1>3 DEF TEEReplica, Component!TEEReplica
<1> QED BY <1>3, <1>4, SameCardinality DEF IsQuorum, Component!IsQuorum

\* the calls,
LEMMA SameCalls ==
    /\ \A c : Component!COMB_TEEsign(c) = COMB_TEEsign(c)
    /\ \A c, b, a : Component!COMB_TEEprepare(c, b, a) = COMB_TEEprepare(c, b, a)
    /\ \A c, j : Component!COMB_TEEstore(c, j) = COMB_TEEstore(c, j)
<1>1. \A p : Component!isTEE(p) <=> isTEE(p)
  BY DEF isTEE, Component!isTEE
<1>2. Component!noHash = noHash /\ Component!newHash = newHash
  BY DEF noHash, Component!noHash, newHash, Component!newHash
<1>3. \A c : Component!COMB_TEEsign(c) = COMB_TEEsign(c)
  BY <1>2, SameSign DEF COMB_TEEsign, Component!COMB_TEEsign
<1>4. \A c, b, a : Component!COMB_TEEprepare(c, b, a) = COMB_TEEprepare(c, b, a)
  BY <1>1, SameSign DEF COMB_TEEprepare, Component!COMB_TEEprepare
<1>5. \A c, j : Component!COMB_TEEstore(c, j) = COMB_TEEstore(c, j)
  BY <1>2, SameSign DEF COMB_TEEstore, Component!COMB_TEEstore, Component!PH1_PRECOMMIT
<1> QED BY <1>3, <1>4, <1>5

\* and the conditions under which they sign.
LEMMA SameGuards ==
    /\ \A c, b, a, n : Component!CanTEEprepare(c, b, a, n) <=> CanTEEprepare(c, b, a, n)
    /\ \A c, j : Component!CanTEEstore(c, j) <=> CanTEEstore(c, j)
<1>1. \A n : Component!SignersOf(n) = SignersOf(n)
  BY DEF SignersOf, Component!SignersOf
<1>2. \A n : Component!HighestNewView(n) = HighestNewView(n)
  BY DEF HighestNewView, Component!HighestNewView
<1>3. \A c, n, a : Component!COMB_validateNewViews(c, n, a) <=> COMB_validateNewViews(c, n, a)
  BY <1>1, <1>2, SameQuorum, SameCardinality
     DEF COMB_validateNewViews, Component!COMB_validateNewViews, Component!PH1_NEWVIEW
<1>4. \A c, b, a : Component!SafeParent(c, b, a) <=> SafeParent(c, b, a)
  BY DEF SafeParent, Component!SafeParent
<1>5. \A c, j : Component!CanTEEstore(c, j) <=> CanTEEstore(c, j)
  BY SameQuorum DEF CanTEEstore, Component!CanTEEstore, Component!PH1_PREPARE,
                    Component!PH1_PRECOMMIT
<1> QED BY <1>3, <1>4, <1>5 DEF CanTEEprepare, Component!CanTEEprepare

\* A call that returns res is a step of the component.
LEMMA ResultIsCall ==
    ASSUME NEW f, Pending(f), NEW res, Result(f.before, res), Seen = f.before,
           Seen' = res.tc, Given' = Given \cup {res.data},
           prepared' = prepared \cup {<<res.tc.preph, res.tc.prepv>>}
    PROVE  Component!Next
<1>1. Component!Callable
  BY SameSign DEF Pending, Component!Callable, Seen
<1>2. Component!Return(res)
  BY DEF Component!Return, Seen, Given
<1>3. CASE res = COMB_TEEsign(Seen)
  BY <1>1, <1>2, <1>3, SameCalls DEF Component!Next, Component!TEEsign, Seen
<1>4. ASSUME NEW block \in Blocks, NEW acc \in Accums, NEW nvs \in Proofs,
             CanTEEprepare(Seen, block, acc, nvs), res = COMB_TEEprepare(Seen, block, acc)
      PROVE  Component!Next
  BY <1>1, <1>2, <1>4, SameCalls, SameGuards
     DEF Component!Next, Component!TEEprepare, Seen
<1>5. ASSUME NEW just \in Justs, CanTEEstore(Seen, just), res = COMB_TEEstore(Seen, just)
      PROVE  Component!Next
  BY <1>1, <1>2, <1>5, SameCalls, SameGuards
     DEF Component!Next, Component!TEEstore, Seen
<1> QED BY <1>3, <1>4, <1>5 DEF Result

\* Every step is a call or changes nothing the host sees.
LEMMA BridgeStep ==
    ASSUME OneThread, Calm, [BridgeNext]_bridgeVars
    PROVE  [Component!Next]_<<Seen, Given, prepared>>
<1>1. Mapped /\ Mapped' /\ Bridged
  BY Mapping, PTL DEF Calm
<1>2. CASE UNCHANGED bridgeVars
  BY <1>2 DEF bridgeVars, Seen, Given, Signing, Outgoing, AllFrames
<1>3. CASE BridgeNext
  <2>1. PICK t \in Thread : \/ Calling(t)
                            \/ \E f \in FrameState : stack[t] = <<f>> /\ Stepping(t, f)
    BY <1>1, <1>3, StepForms DEF Bridged
  <2>2. \A s : stack' = [stack EXCEPT ![t] = s] => stack'[t] = s
    BY <1>1 DEF Bridged, Frames
  <2>3. ASSUME NEW g, stack'[t] = <<g>>
        PROVE  /\ Seen' = IF g.pc = "sign" THEN g.before ELSE tc'
               /\ Given' = IF g.pc = "copyout" THEN handed' \cup g.out ELSE handed'
    BY <1>1, <2>3 DEF Mapped
  <2>4. CASE Calling(t)
    <3>1. PICK e \in ECallName : stack' = [stack EXCEPT ![t] = <<Frame(e)>>]
      BY <2>4 DEF Calling
    <3>2. Frame(e).pc = "copyin" /\ stack'[t] = <<Frame(e)>>
      BY <2>2, <3>1 DEF Frame
    <3>3. Seen' = tc' /\ Given' = handed'
      BY <2>3, <3>2
    <3>4. Seen = tc /\ Given = handed
      BY <1>1, <2>4 DEF Mapped, Calling
    <3> QED BY <2>4, <3>3, <3>4 DEF Calling, Rest
  <2>5. ASSUME NEW f \in FrameState, stack[t] = <<f>>, Stepping(t, f)
        PROVE  [Component!Next]_<<Seen, Given, prepared>>
    <3>1. /\ Seen = IF f.pc = "sign" THEN f.before ELSE tc
          /\ Given = IF f.pc = "copyout" THEN handed \cup f.out ELSE handed
      BY <1>1, <2>5 DEF Mapped
    <3>2. Underway(f)
      BY <2>5 DEF Calm
    <3>3. CASE Allocating(t, f)
      <4>1. PICK g : g.pc = "copyin" /\ stack'[t] = <<g>>
        <5>1. [f EXCEPT !.bufs = @ + 1].pc = f.pc
          BY DEF FrameState
        <5> QED BY <2>2, <3>3, <5>1 DEF Allocating
      <4> QED BY <2>3, <3>1, <3>3, <4>1 DEF Allocating
    <3>4. CASE Leaving(t, f)
      <4>1. Seen' = tc' /\ Given' = handed'
        BY <1>1, <2>2, <3>4 DEF Leaving, Mapped
      <4> QED BY <3>1, <3>4, <4>1 DEF Leaving
    <3>5. CASE Going(t, f)
      <4>1. ASSUME NEW o, stack' = [stack EXCEPT ![t] = <<[f EXCEPT !.ocall = o]>>]
            PROVE  UNCHANGED <<Seen, Given, prepared>>
        <5>1. PICK g : /\ g.pc = f.pc /\ g.before = f.before /\ g.out = f.out
                       /\ stack'[t] = <<g>>
          <6>1. /\ [f EXCEPT !.ocall = o].pc = f.pc /\ [f EXCEPT !.ocall = o].out = f.out
                /\ [f EXCEPT !.ocall = o].before = f.before
            BY DEF FrameState
          <6> QED BY <2>2, <4>1, <6>1
        <5> QED BY <2>3, <3>1, <3>5, <5>1 DEF Going, Rest
      <4>2. ASSUME f.pc = "copyin", stack' = [stack EXCEPT ![t] = <<[f EXCEPT !.pc = "run"]>>]
            PROVE  UNCHANGED <<Seen, Given, prepared>>
        <5>1. PICK g : g.pc = "run" /\ stack'[t] = <<g>>
          <6>1. [f EXCEPT !.pc = "run"].pc = "run"
            BY DEF FrameState
          <6> QED BY <2>2, <4>2, <6>1
        <5> QED BY <2>3, <3>1, <3>5, <4>2, <5>1 DEF Going, Rest
      <4>3. ASSUME f.pc = "run", stack' = [stack EXCEPT ![t] = <<[f EXCEPT !.pc = "copyout"]>>]
            PROVE  UNCHANGED <<Seen, Given, prepared>>
        <5>1. PICK g : g.pc = "copyout" /\ g.out = f.out /\ stack'[t] = <<g>>
          <6>1. /\ [f EXCEPT !.pc = "copyout"].pc = "copyout"
                /\ [f EXCEPT !.pc = "copyout"].out = f.out
            BY DEF FrameState
          <6> QED BY <2>2, <4>3, <6>1
        <5>2. f.out = {}
          BY <3>2, <4>3 DEF Underway
        <5> QED BY <2>3, <3>1, <3>5, <4>3, <5>1, <5>2 DEF Going, Rest
      <4> QED BY <3>5, <4>1, <4>2, <4>3 DEF Going
    <3>6. CASE Recording(t, f)
      <4>1. PICK g : g.pc = "sign" /\ g.before = tc /\ stack'[t] = <<g>>
        <5>1. PICK res : stack' = [stack EXCEPT ![t] =
                             <<[f EXCEPT !.pc = "sign", !.before = tc, !.out = {res.data}]>>]
          BY <3>6 DEF Recording
        <5> DEFINE h == [f EXCEPT !.pc = "sign", !.before = tc, !.out = {res.data}]
        <5>2. h.pc = "sign" /\ h.before = tc
          BY DEF FrameState
        <5>3. stack'[t] = <<h>>
          BY <2>2, <5>1
        <5> QED BY <5>2, <5>3
      <4> QED BY <2>3, <3>1, <3>6, <4>1 DEF Recording
    <3>7. CASE Advancing(t, f)
      <4>1. PICK g : g.pc = "copyout" /\ g.out = f.out /\ stack'[t] = <<g>>
        <5>1. /\ [f EXCEPT !.pc = "copyout"].pc = "copyout"
              /\ [f EXCEPT !.pc = "copyout"].out = f.out
          BY DEF FrameState
        <5> QED BY <2>2, <3>7, <5>1 DEF Advancing
      <4>2. Pending(f) /\ f.before \in TrustedState
        BY <3>2, <3>7 DEF Underway, Advancing, FrameState
      <4>3. PICK res : /\ Result(f.before, res) /\ f.out = {res.data}
                       /\ tc = Recorded(f.before, res.tc)
        BY <4>2 DEF Pending
      <4>4. tc \in TrustedState /\ COMB_increment(tc) = res.tc
        BY <4>2, <4>3, ResultFacts
      <4>5. res.tc.preph = tc.preph /\ res.tc.prepv = tc.prepv
        BY <4>4, IncrementFacts
      <4>6. Seen = f.before /\ Seen' = res.tc /\ Given' = Given \cup {res.data}
        BY <2>3, <3>1, <3>7, <4>1, <4>3, <4>4 DEF Advancing
      <4>7. prepared' = prepared \cup {<<res.tc.preph, res.tc.prepv>>}
        BY <3>7, <4>5 DEF Advancing
      <4> QED BY <4>2, <4>3, <4>6, <4>7, ResultIsCall
    <3> QED BY <2>5, <3>3, <3>4, <3>5, <3>6, <3>7 DEF Stepping
  <2> QED BY <2>1, <2>4, <2>5
<1> QED BY <1>2, <1>3

\* Initially the host sees the initial component and has nothing.
LEMMA BridgeStart ==
    ASSUME BridgeInit
    PROVE  Component!Init
<1>1. AllFrames = {}
  BY DEF BridgeInit, AllFrames
<1>2. Signing = {} /\ Outgoing = {}
  BY <1>1 DEF Signing, Outgoing
<1> QED BY <1>2 DEF BridgeInit, Init, Component!Init, COMB_init, newHash, Component!COMB_init,
                   Component!newHash, Component!PH1_NEWVIEW

-----------------------------------------------------------------------------
(* The theorems *)

(***************************************************************************)
(* The wrappers of Enclave_t.c free every buffer they allocate, on every   *)
(* path, whatever number of threads is in the enclave at a time.           *)
(***************************************************************************)
THEOREM BridgeNeverLeaks == BridgeSpec => []NoLeak
<1>1. BridgeInit => Bridged /\ NoLeak
  BY BridgedInit
<1>2. Bridged /\ NoLeak /\ [BridgeNext]_bridgeVars => (Bridged /\ NoLeak)'
  BY BridgedKept, NoLeakKept
<1> QED BY <1>1, <1>2, PTL DEF BridgeSpec

(***************************************************************************)
(* Reached by one host thread, the component behind stubs, wrappers and    *)
(* OCALLs is the atomic one of module Checker: COMB_sign may read, sign    *)
(* and advance in separate steps, as nobody comes between.                 *)
(***************************************************************************)
THEOREM BridgeImplementsChecker ==
    ASSUME OneThread
    PROVE  BridgeSpec => ImplementsChecker
<1>1. BridgeInit => Calm /\ Component!Init
  BY CalmInit, BridgeStart
<1>2. Calm /\ [BridgeNext]_bridgeVars => Calm'
  BY CalmKept
<1>3. Calm /\ [BridgeNext]_bridgeVars => [Component!Next]_Component!vars
  <2>1. Component!vars = <<Seen, Given, prepared>>
    BY DEF Component!vars, Seen, Given
  <2>2. ASSUME Calm, [BridgeNext]_bridgeVars PROVE [Component!Next]_<<Seen, Given, prepared>>
    BY <2>2, BridgeStep
  <2> QED BY <2>2 DEF Component!vars, Seen, Given
<1> QED BY <1>1, <1>2, <1>3, PTL DEF BridgeSpec, ImplementsChecker, Component!Spec
=============================================================================
