----------------------------- MODULE MCDispatch -----------------------------
(* Instances of Dispatch for TLC.                                          *)
EXTENDS Dispatch

Request(hint, role, parents, planned) ==
  [hint |-> hint, role |-> role, parents |-> parents, planned |-> planned]

(* Independent requests of two backends, more of one than a slice holds.   *)
Independent ==
  << Request("vllm", "lead", {}, NoMode), Request("aitta", "lead", {}, "none"),
     Request("vllm", "member", {}, NoMode), Request("vllm", "lead", {}, NoMode) >>

(* A chain: the third reads what the first and the second sent.            *)
Chain ==
  << Request("vllm", "lead", {}, NoMode), Request("vllm", "member", {1}, "malformed"),
     Request("vllm", "lead", {1, 2}, NoMode) >>

(* Two that read each other, one that reads them, one that does not.       *)
Knot ==
  << Request("vllm", "lead", {2}, NoMode), Request("vllm", "member", {1}, NoMode),
     Request("aitta", "lead", {2}, "interruption"), Request("aitta", "member", {}, NoMode) >>

MCBatches == {<<>>, Independent, Chain, Knot}
MCMaxInFlight == [vllm |-> 2, aitta |-> 0]
MCCycle == <<"none", "timeout">>

(* Roles that alternate over more requests than a slice holds.             *)
Alternating ==
  [i \in 1 .. 5 |-> Request("vllm", IF i % 2 = 0 THEN "member" ELSE "lead", {}, NoMode)]

MCAlternating == {Alternating}
=============================================================================
