---------------------------- MODULE MCReentrancy -----------------------------
(* Instances of Reentrancy: which programs are considered. *)
EXTENDS Reentrancy

CONSTANTS c1, c2

(* Sinks of every kind, before or after one another. *)
Sinks == {<<"returns">>, <<"returns", "fails">>, <<"panics">>, <<"logs", "returns">>,
          <<"logs", "fails">>, <<"logs", "panics">>}

(* Programs with all the calls; of those that hang, also the ones without  *)
(* the call that makes them hang; and a batch that cannot be split.        *)
AllSetups ==
    [hook : BOOLEAN, sinks : Sinks, calls : {CallNames}, max_string_len : {1}]
    \cup [hook : {FALSE}, sinks : {s \in Sinks : s[1] = "logs"},
          calls : {{"queue_log", "panic"}}, max_string_len : {1}]
    \cup [hook : {TRUE}, sinks : {<<"panics">>}, calls : {{"manage", "panic"}},
          max_string_len : {1}]
    \cup [hook : BOOLEAN, sinks : {<<"returns">>}, calls : {CallNames},
          max_string_len : {0}]

TwiceAndOnce == [c \in Clients |-> IF c = c1 THEN 2 ELSE 1]
=============================================================================
