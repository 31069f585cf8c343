--------------------------- MODULE MCTimingWheel ---------------------------
(***************************************************************************)
(* TimingWheel for TLC: two wheels of two buckets, ticks of 1 and 2 ms, so *)
(* that a delay of 2 overflows and cascades and expirations 1 and 3 share  *)
(* a bucket.                                                               *)
(***************************************************************************)
EXTENDS TimingWheel
MCTickOf == <<1, 2>>
=============================================================================
