---------------------------- MODULE CapacityCheck ----------------------------
(***************************************************************************)
(* The arithmetic of pipeline/capacity_check.py.  Byte counts are below    *)
(* 10^14, where int(required * 1.1) in floating point is this quotient.    *)
(***************************************************************************)
EXTENDS Integers

Padded(required) == (required * 11) \div 10

\* check_with_safety_margin: the margin must be positive, not merely zero.
Sufficient(available, required) == available - Padded(required) > 0
=============================================================================
