--------------------------- MODULE EnclaveInterface ---------------------------
(***************************************************************************)
(* The interface between host and enclave, from the two generated files    *)
(* that are kept in the repository: App/Enclave_u.c on the host's side and *)
(* Enclave/Enclave_t.c on the enclave's.  They are compiled separately and *)
(* meet only in a number, the index of an ECALL, and in the layout of the  *)
(* structure that carries its parameters.                                  *)
(***************************************************************************)
EXTENDS Naturals, Sequences, TLC

-----------------------------------------------------------------------------
(* Enclave side: what the wrapper of an ECALL copies in, the function it   *)
(* calls, and what it copies out.  Parameters are in the order in which    *)
(* their buffers are allocated.                                            *)

Wrapper(fn, in, out) == [fn |-> fn, in |-> in, out |-> out]

sgx_initialize_variables ==
    Wrapper("initialize_variables", <<"me", "others", "q", "tq", "enclave_nodes">>, <<>>)
sgx_TEEsign == Wrapper("TEEsign", <<>>, <<"just">>)
sgx_TEEprepare == Wrapper("TEEprepare", <<"hash", "just">>, <<"res">>)
sgx_TEEstore == Wrapper("TEEstore", <<"just">>, <<"res">>)
sgx_TEEaccum == Wrapper("TEEaccum", <<"vs">>, <<"res">>)
sgx_TEEaccumSp == Wrapper("TEEaccumSp", <<"vote">>, <<"res">>)
sgx_COMB_TEEsign == Wrapper("COMB_TEEsign", <<>>, <<"just">>)
sgx_COMB_TEEprepare == Wrapper("COMB_TEEprepare", <<"block", "acc", "newviews">>, <<"res">>)
sgx_COMB_TEEstore == Wrapper("COMB_TEEstore", <<"just">>, <<"res">>)
sgx_COMB_TEEaccum == Wrapper("COMB_TEEaccum", <<"js">>, <<"res">>)
sgx_COMB_TEEaccumSp == Wrapper("COMB_TEEaccumSp", <<"just">>, <<"res">>)
sgx_DAMYSUS_TEEsign == Wrapper("DAMYSUS_TEEsign", <<>>, <<"just">>)
sgx_DAMYSUS_TEEprepare == Wrapper("DAMYSUS_TEEprepare", <<"hash", "acc">>, <<"res">>)
sgx_DAMYSUS_TEEstore == Wrapper("DAMYSUS_TEEstore", <<"just">>, <<"res">>)
sgx_DAMYSUS_TEEaccum == Wrapper("DAMYSUS_TEEaccum", <<"js">>, <<"res">>)
sgx_DAMYSUS_TEEaccumSp == Wrapper("DAMYSUS_TEEaccumSp", <<"just">>, <<"res">>)
sgx_FREE_TEEauth == Wrapper("FREE_TEEauth", <<"text">>, <<"res">>)
sgx_FREE_TEEverify == Wrapper("FREE_TEEverify", <<"text", "a">>, <<"res">>)
sgx_FREE_TEEverify2 == Wrapper("FREE_TEEverify2", <<"text1", "a1", "text2", "a2">>, <<"res">>)
sgx_FREE_TEEstore == Wrapper("FREE_TEEstore", <<"just">>, <<"res">>)
sgx_FREE_TEEaccum == Wrapper("FREE_TEEaccum", <<"j", "js", "prp">>, <<"res">>)
sgx_FREE_TEEaccumSp == Wrapper("FREE_TEEaccumSp", <<"just", "prp">>, <<"res">>)
sgx_FREE_initialize_variables == Wrapper("FREE_initialize_variables", <<"me", "q">>, <<>>)
sgx_OP_TEEverify == Wrapper("OP_TEEverify", <<"text", "a">>, <<"res">>)
sgx_OP_TEEprepare == Wrapper("OP_TEEprepare", <<"hash">>, <<"res">>)
sgx_OP_TEEvote == Wrapper("OP_TEEvote", <<"hash">>, <<"res">>)
sgx_OP_TEEstore == Wrapper("OP_TEEstore", <<"just">>, <<"res">>)
sgx_OP_TEEaccum == Wrapper("OP_TEEaccum", <<"j", "js">>, <<"res">>)
sgx_OP_TEEaccumSp == Wrapper("OP_TEEaccumSp", <<"just">>, <<"res">>)
sgx_OP_initialize_variables == Wrapper("OP_initialize_variables", <<"me", "q">>, <<>>)
sgx_CH_TEEsign == Wrapper("CH_TEEsign", <<>>, <<"just">>)
sgx_CH_TEEprepare == Wrapper("CH_TEEprepare", <<"block", "block0", "block1">>, <<"res">>)
sgx_CH_COMB_TEEsign == Wrapper("CH_COMB_TEEsign", <<>>, <<"just">>)
sgx_CH_COMB_TEEprepare == Wrapper("CH_COMB_TEEprepare", <<"block", "hash">>, <<"res">>)
sgx_CH_COMB_TEEaccum == Wrapper("CH_COMB_TEEaccum", <<"js">>, <<"res">>)
sgx_CH_COMB_TEEaccumSp == Wrapper("CH_COMB_TEEaccumSp", <<"just">>, <<"res">>)
sgx_ACHILLES_CH_TEEsign == Wrapper("ACHILLES_CH_TEEsign", <<>>, <<"just">>)
sgx_ACHILLES_CH_TEEverify == Wrapper("ACHILLES_CH_TEEverify", <<"just">>, <<"res">>)
sgx_ACHILLES_CH_TEEprepare == Wrapper("ACHILLES_CH_TEEprepare", <<"block", "hash">>, <<"res">>)
sgx_ACHILLES_CH_TEEaccum == Wrapper("ACHILLES_CH_TEEaccum", <<"js">>, <<"res">>)
sgx_ACHILLES_CH_TEEaccumSp == Wrapper("ACHILLES_CH_TEEaccumSp", <<"just">>, <<"res">>)

g_ecall_table ==
    <<sgx_initialize_variables, sgx_TEEsign, sgx_TEEprepare, sgx_TEEstore, sgx_TEEaccum,
      sgx_TEEaccumSp, sgx_COMB_TEEsign, sgx_COMB_TEEprepare, sgx_COMB_TEEstore,
      sgx_COMB_TEEaccum, sgx_COMB_TEEaccumSp, sgx_DAMYSUS_TEEsign, sgx_DAMYSUS_TEEprepare,
      sgx_DAMYSUS_TEEstore, sgx_DAMYSUS_TEEaccum, sgx_DAMYSUS_TEEaccumSp, sgx_FREE_TEEauth,
      sgx_FREE_TEEverify, sgx_FREE_TEEverify2, sgx_FREE_TEEstore, sgx_FREE_TEEaccum,
      sgx_FREE_TEEaccumSp, sgx_FREE_initialize_variables, sgx_OP_TEEverify, sgx_OP_TEEprepare,
      sgx_OP_TEEvote, sgx_OP_TEEstore, sgx_OP_TEEaccum, sgx_OP_TEEaccumSp,
      sgx_OP_initialize_variables, sgx_CH_TEEsign, sgx_CH_TEEprepare, sgx_CH_COMB_TEEsign,
      sgx_CH_COMB_TEEprepare, sgx_CH_COMB_TEEaccum, sgx_CH_COMB_TEEaccumSp,
      sgx_ACHILLES_CH_TEEsign, sgx_ACHILLES_CH_TEEverify, sgx_ACHILLES_CH_TEEprepare,
      sgx_ACHILLES_CH_TEEaccum, sgx_ACHILLES_CH_TEEaccumSp>>

-----------------------------------------------------------------------------
(* Host side: the fields of the structure of each ECALL, and the index     *)
(* its stub calls.                                                         *)

ms_Share ==
    [initialize_variables |-> <<"me", "others", "q", "tq", "enclave_nodes">>]
ms_Cheap ==
    [TEEsign |-> <<"just">>, TEEprepare |-> <<"hash", "just", "res">>,
     TEEstore |-> <<"just", "res">>]
ms_Quick ==
    [TEEaccum |-> <<"vs", "res">>, TEEaccumSp |-> <<"vote", "res">>]
ms_COMB ==
    [COMB_TEEsign |-> <<"just">>, COMB_TEEprepare |-> <<"block", "acc", "newviews", "res">>,
     COMB_TEEstore |-> <<"just", "res">>, COMB_TEEaccum |-> <<"js", "res">>,
     COMB_TEEaccumSp |-> <<"just", "res">>]
ms_DAMYSUS ==
    [DAMYSUS_TEEsign |-> <<"just">>, DAMYSUS_TEEprepare |-> <<"hash", "acc", "res">>,
     DAMYSUS_TEEstore |-> <<"just", "res">>, DAMYSUS_TEEaccum |-> <<"js", "res">>,
     DAMYSUS_TEEaccumSp |-> <<"just", "res">>]
ms_FREE ==
    [FREE_TEEauth |-> <<"text", "res">>, FREE_TEEverify |-> <<"text", "a", "res">>,
     FREE_TEEverify2 |-> <<"text1", "a1", "text2", "a2", "res">>,
     FREE_TEEstore |-> <<"just", "res">>, FREE_TEEaccum |-> <<"j", "js", "prp", "res">>,
     FREE_TEEaccumSp |-> <<"just", "prp", "res">>, FREE_initialize_variables |-> <<"me", "q">>]
ms_OP ==
    [OP_TEEverify |-> <<"text", "a", "res">>, OP_TEEprepare |-> <<"hash", "res">>,
     OP_TEEvote |-> <<"hash", "res">>, OP_TEEstore |-> <<"just", "res">>,
     OP_TEEaccum |-> <<"j", "js", "res">>, OP_TEEaccumSp |-> <<"just", "res">>,
     OP_initialize_variables |-> <<"me", "q">>]
ms_CH ==
    [CH_TEEsign |-> <<"just">>, CH_TEEprepare |-> <<"block", "block0", "block1", "res">>]
ms_CH_COMB ==
    [CH_COMB_TEEsign |-> <<"just">>, CH_COMB_TEEprepare |-> <<"block", "hash", "res">>,
     CH_COMB_TEEaccum |-> <<"js", "res">>, CH_COMB_TEEaccumSp |-> <<"just", "res">>]
ms_ACHILLES_CH ==
    [ACHILLES_CH_TEEsign |-> <<"just">>, ACHILLES_CH_TEEverify |-> <<"just", "res">>,
     ACHILLES_CH_TEEprepare |-> <<"block", "hash", "res">>,
     ACHILLES_CH_TEEaccum |-> <<"js", "res">>, ACHILLES_CH_TEEaccumSp |-> <<"just", "res">>]
ms == ms_Share @@ ms_Cheap @@ ms_Quick @@ ms_COMB @@ ms_DAMYSUS @@ ms_FREE
      @@ ms_OP @@ ms_CH @@ ms_CH_COMB @@ ms_ACHILLES_CH

\* Mutant: an ECALL was added to one of the two files only.
index_CH_COMB_shifted ==
    [CH_COMB_TEEsign |-> 33, CH_COMB_TEEprepare |-> 34, CH_COMB_TEEaccum |-> 35,
     CH_COMB_TEEaccumSp |-> 36]

index_Share ==
    [initialize_variables |-> 0]
index_Cheap ==
    [TEEsign |-> 1, TEEprepare |-> 2, TEEstore |-> 3]
index_Quick ==
    [TEEaccum |-> 4, TEEaccumSp |-> 5]
index_COMB ==
    [COMB_TEEsign |-> 6, COMB_TEEprepare |-> 7, COMB_TEEstore |-> 8, COMB_TEEaccum |-> 9,
     COMB_TEEaccumSp |-> 10]
index_DAMYSUS ==
    [DAMYSUS_TEEsign |-> 11, DAMYSUS_TEEprepare |-> 12, DAMYSUS_TEEstore |-> 13,
     DAMYSUS_TEEaccum |-> 14, DAMYSUS_TEEaccumSp |-> 15]
index_FREE ==
    [FREE_TEEauth |-> 16, FREE_TEEverify |-> 17, FREE_TEEverify2 |-> 18, FREE_TEEstore |-> 19,
     FREE_TEEaccum |-> 20, FREE_TEEaccumSp |-> 21, FREE_initialize_variables |-> 22]
index_OP ==
    [OP_TEEverify |-> 23, OP_TEEprepare |-> 24, OP_TEEvote |-> 25, OP_TEEstore |-> 26,
     OP_TEEaccum |-> 27, OP_TEEaccumSp |-> 28, OP_initialize_variables |-> 29]
index_CH ==
    [CH_TEEsign |-> 30, CH_TEEprepare |-> 31]
index_CH_COMB ==
    [CH_COMB_TEEsign |-> 32, CH_COMB_TEEprepare |-> 33, CH_COMB_TEEaccum |-> 34,
     CH_COMB_TEEaccumSp |-> 35]
index_ACHILLES_CH ==
    [ACHILLES_CH_TEEsign |-> 36, ACHILLES_CH_TEEverify |-> 37, ACHILLES_CH_TEEprepare |-> 38,
     ACHILLES_CH_TEEaccum |-> 39, ACHILLES_CH_TEEaccumSp |-> 40]
index == index_Share @@ index_Cheap @@ index_Quick @@ index_COMB @@ index_DAMYSUS
         @@ index_FREE @@ index_OP @@ index_CH @@ index_CH_COMB @@ index_ACHILLES_CH

ECallName == DOMAIN index

-----------------------------------------------------------------------------
(* OCALLs: the parameters the enclave marshals on the host's stack, and    *)
(* what it copies back.                                                    *)

OCall(in, out) == [in |-> in, out |-> out]

ocall_print == OCall(<<"str">>, <<>>)
ocall_test == OCall(<<"key">>, <<>>)
ocall_setCtime == OCall(<<>>, <<>>)
ocall_recCStime == OCall(<<>>, <<>>)
ocall_recCVtime == OCall(<<>>, <<>>)
u_sgxssl_ftime == OCall(<<"timeb_len">>, <<"timeptr">>)
sgx_oc_cpuidex == OCall(<<"leaf", "subleaf">>, <<"cpuinfo">>)
sgx_thread_wait_untrusted_event_ocall == OCall(<<"self">>, <<"retval">>)
sgx_thread_set_untrusted_event_ocall == OCall(<<"waiter">>, <<"retval">>)
sgx_thread_setwait_untrusted_events_ocall == OCall(<<"waiter", "self">>, <<"retval">>)
sgx_thread_set_multiple_untrusted_events_ocall == OCall(<<"waiters", "total">>, <<"retval">>)
pthread_wait_timeout_ocall == OCall(<<"waiter", "timeout">>, <<"retval">>)
pthread_create_ocall == OCall(<<"self">>, <<"retval">>)
pthread_wakeup_ocall == OCall(<<"waiter">>, <<"retval">>)

ocall_table_Enclave ==
    <<ocall_print, ocall_test, ocall_setCtime, ocall_recCStime, ocall_recCVtime, u_sgxssl_ftime,
      sgx_oc_cpuidex, sgx_thread_wait_untrusted_event_ocall,
      sgx_thread_set_untrusted_event_ocall, sgx_thread_setwait_untrusted_events_ocall,
      sgx_thread_set_multiple_untrusted_events_ocall, pthread_wait_timeout_ocall,
      pthread_create_ocall, pthread_wakeup_ocall>>
=============================================================================
