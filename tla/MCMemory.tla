------------------------------ MODULE MCMemory ------------------------------
(* A machine with two low frames, a hole, and the memory mem_upper measures. *)
EXTENDS AddressSpace, TLC

LowAndHigh == {[base |-> 0, blocks |-> 2], [base |-> 3, blocks |-> maximumBlocks]}

(* The kernel reaches one frame into high memory; the module lies behind it. *)
KernelAndModule == {[base |-> 0, blocks |-> 4], [base |-> 5, blocks |-> 1]}

(* The instance is a machine the theorems of AddressSpaceProofs speak of. *)
ASSUME InstanceAssumption == OrdinaryMachine

Symmetry == Permutations(Process)
=============================================================================
