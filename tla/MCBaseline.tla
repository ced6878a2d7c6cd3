----------------------------- MODULE MCBaseline -----------------------------
(* The rounds Baseline is model-checked with: the latency warm-up, the     *)
(* throughput tests of two messages each with the size doubled from test   *)
(* to test, and the latency test.                                          *)
EXTENDS Baseline

Messages == 2
MCBytes  == <<0, 0>> \o <<Messages * 1, Messages * 2>> \o <<0, 0>>
=============================================================================
