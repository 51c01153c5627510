---------------------------- MODULE SerialNumbers ----------------------------
(***************************************************************************)
(* The serial number comparisons of util.rs, for numbers that wrap at      *)
(* 2 * half: half is 2^31 for TSNs (sna32...) and 2^15 for SSNs (sna16...).*)
(***************************************************************************)
EXTENDS Integers

SernoLt(i1, i2, half) == \/ i1 < i2 /\ i2 - i1 < half
                         \/ i1 > i2 /\ i1 - i2 > half

SernoLte(i1, i2, half) == i1 = i2 \/ SernoLt(i1, i2, half)

SernoGt(i1, i2, half) == \/ i1 < i2 /\ i2 - i1 >= half
                         \/ i1 > i2 /\ i1 - i2 <= half
==============================================================================
