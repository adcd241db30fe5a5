------------------------------ MODULE MCService ------------------------------
(* A client that sets a key and then sets, reads or deletes it.            *)
EXTENDS KVService, TLC

MCRequests ==
    <<{<<"SET", "k", 2>>},
      {<<"SET", "k", 1>>, <<"SET", "k", 3>>, <<"GET", "k", 0>>, <<"DEL", "k", 0>>}>>

Symmetry == Permutations(Replica)
=============================================================================
