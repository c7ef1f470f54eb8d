------------------------------- MODULE MCBlocks -------------------------------
(* A small instance of the components of Blocks.                           *)
EXTENDS Blocks

(* The processes of ShmMapping are interchangeable.                        *)
ProcessSymmetry == Permutations(Processes)

MCCapacities == {2, 3}
===============================================================================
