----------------------------- MODULE AppleTime -----------------------------
(***************************************************************************)
(* The time conversions of messages/imsg/time_utils.py in the doubles they *)
(* are made of, and the ISO strings by which chats are ranked.             *)
(*                                                                         *)
(* An instant is nanoseconds after some whole second between 2019-04 and   *)
(* 2035, in units of 2^-14 ns.  A quotient of the nanoseconds by 10^9 is a *)
(* multiple of 2^-23 s = 1953125 units there, a Unix time one of 2^-22 s,  *)
(* and a number of nanoseconds a multiple of 128 ns = 2097152 units.       *)
(***************************************************************************)
EXTENDS Integers, Sequences

MaxNs == 130000   \* bound: beyond it the units are beyond 2^31

\* x rounded to a multiple of q, halves to the even one
RoundTo(x, q) ==
  LET n == x \div q
      r == x % q
  IN  IF 2 * r > q \/ (2 * r = q /\ n % 2 = 1) THEN (n + 1) * q ELSE n * q

\* fromtimestamp(raw / 10^9 + APPLE_EPOCH), in microseconds
AppleToDt_Truncated(ns) == RoundTo(RoundTo(ns * 16384, 1953125), 3906250) \div 16384000
AppleToDt(ns) == RoundTo(RoundTo(RoundTo(ns * 16384, 1953125), 3906250), 16384000) \div 16384000

\* int((timestamp() - APPLE_EPOCH) * 10^9)
DtToAppleNs(us) == RoundTo(RoundTo(us * 16384000, 3906250), 2097152) \div 16384

-----------------------------------------------------------------------------
(* ISO strings.  A time is [sec, us]; isoformat leaves out a zero fraction,  *)
(* so that the character after the seconds is that of "+00:00" or a point.   *)

Iso_Zulu(t) == IF t.us = 0 THEN <<t.sec, 90>> ELSE <<t.sec, 46, t.us>>
Iso(t) == IF t.us = 0 THEN <<t.sec, 43>> ELSE <<t.sec, 46, t.us>>

\* the order of strings
Precedes(s, t) ==
  \/ Len(s) < Len(t) /\ SubSeq(t, 1, Len(s)) = s
  \/ \E i \in DOMAIN s \cap DOMAIN t :
       s[i] < t[i] /\ \A j \in 1 .. i - 1 : s[j] = t[j]

Earlier(t, u) == t.sec < u.sec \/ (t.sec = u.sec /\ t.us < u.us)
=============================================================================
