-------------------------------- MODULE Lib --------------------------------
(***************************************************************************)
(* The byte loops of lib.c, on a memory that maps addresses to bytes, and  *)
(* the decimal digits that put_uint() and strbuf_uint() produce.           *)
(***************************************************************************)
EXTENDS Integers, Sequences

(* The loops run upwards: an overlapping copy to lower addresses is sound. *)
memcpy(mem, d, s, n) ==
  LET upto[k \in 0 .. n] ==
        IF k = 0 THEN mem ELSE [upto[k - 1] EXCEPT ![d + k - 1] = upto[k - 1][s + k - 1]]
  IN upto[n]
memset(mem, d, c, n) == [a \in DOMAIN mem |-> IF a \in d .. d + n - 1 THEN c ELSE mem[a]]

(* The digits of v, the last one first found, in front of those found.     *)
RECURSIVE digits(_, _)
digits(v, base) == (IF v < base THEN <<>> ELSE digits(v \div base, base)) \o <<v % base>>
=============================================================================
