------------------------------ MODULE MCKernel ------------------------------
(* Instances of SyntheticKernel: KERNEL_SHAPES of kernel_benchmarks.py, a  *)
(* wider join, and every shape at its smallest.                            *)
EXTENDS SyntheticKernel

K(shape, width, length) == [shape |-> shape, width |-> width, length |-> length]

MCKernels ==
  {K("chain", 1, 4), K("fan_out", 3, 1), K("fork_join", 3, 1), K("fork_join", 4, 1),
   K("independent_branches", 2, 3), K("independent_branches", 3, 2), K("mixed_dag", 1, 3),
   K("conflicting_write", 3, 1), K("half_conflicting_write", 4, 1)} \cup
  {K(shape, 1, 1) : shape \in {"chain", "fan_out", "fork_join", "independent_branches",
                               "mixed_dag", "conflicting_write", "half_conflicting_write"}}

(* The run is one of those the theorems about kernels speak of.            *)
ASSUME MCKernelSettings == KernelSettings
=============================================================================
