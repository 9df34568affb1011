------------------------------- MODULE Timer -------------------------------
(***************************************************************************)
(* Waiting: udelay() of lib/time.c on the counter of generic_timer.c.  The *)
(* counter of the A64 may read wrong: its lower eleven bits all clear or   *)
(* all set.  timer_read_counter() drops every value that looks like it.    *)
(***************************************************************************)
EXTENDS Integers
LOCAL INSTANCE FiniteSetsExt

get_tbclk == 24                \* ticks per microsecond
Wrap      == 2048

(* What the register may show at count c (external). *)
Shown(c) == {c, c - (c % Wrap), c - (c % Wrap) + Wrap - 1}
timer_read_counter(c) == {v \in Shown(c) : (v + 1) % 1024 > 1}

(* How far a value that is returned may be ahead of the count, or behind.  *)
Errors == UNION {{v - c : v \in timer_read_counter(c)} : c \in 0 .. Wrap - 1}
Ahead  == Max(Errors)
Behind == -Min(Errors)

usec_to_tick(usec) == usec * get_tbclk
(* The shortest time, in microseconds, udelay() may really take: from a    *)
(* first value that is behind to a last one that is ahead.                 *)
udelay(usec) == (usec_to_tick(usec) + 1 - Ahead - Behind) \div get_tbclk
=============================================================================
