------------------------------ MODULE Rounding ------------------------------
(***************************************************************************)
(* How float arithmetic rounds a result to the significand it has room for.*)
(***************************************************************************)
EXTENDS Integers

(* n / d to the nearest integer, a half to the even one. *)
Nearest(n, d) ==
  LET q == n \div d
      r == n % d
  IN  IF 2 * r > d \/ (2 * r = d /\ q % 2 = 1) THEN q + 1 ELSE q
=============================================================================
