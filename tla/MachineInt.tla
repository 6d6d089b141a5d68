------------------------------ MODULE MachineInt ------------------------------
(***************************************************************************)
(* Sums of counts and costs, which the code keeps in an int64.             *)
(***************************************************************************)
EXTENDS Integers

CONSTANT MaxInt    \* the largest int64

\* Two's complement.
Int64(x) == ((x + MaxInt + 1) % (2 * (MaxInt + 1))) - (MaxInt + 1)
Fits(x) == Int64(x) = x

==============================================================================
