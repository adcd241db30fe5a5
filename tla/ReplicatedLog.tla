---------------------------- MODULE ReplicatedLog ----------------------------
(***************************************************************************)
(* What the consensus protocols promise the service on top of them: there  *)
(* is one log that only grows, and each replica applies entries of it in   *)
(* order, each at most once.  Entries may be passed over (a replica that   *)
(* leaves a view on a timeout never applies the block of that view), and   *)
(* replicas may apply different parts of the log at different times.       *)
(*                                                                         *)
(* An applied entry is the log up to and including it, so that what        *)
(* precedes the entry is fixed as well.                                    *)
(***************************************************************************)
EXTENDS Naturals, SequencesExt

CONSTANT Replica

VARIABLES
    log,      \* the entries decided so far
    applied   \* applied[r]: the prefixes of log that r has applied, in order

Init ==
    /\ log = <<>>
    /\ applied = [r \in Replica |-> <<>>]

\* Replica r applies further entries; the log may grow on the occasion.
Apply(r) ==
    /\ IsStrictPrefix(applied[r], applied'[r])
    /\ IsPrefix(log, log')
    /\ \A i \in DOMAIN applied'[r] :
        /\ IsPrefix(applied'[r][i], log')
        /\ i > 1 => Len(applied'[r][i - 1]) < Len(applied'[r][i])
    /\ \A s \in Replica \ {r} : applied'[s] = applied[s]

Next == \E r \in Replica : Apply(r)

Spec == Init /\ [][Next]_<<log, applied>>
=============================================================================
