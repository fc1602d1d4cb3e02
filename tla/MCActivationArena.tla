------------------------- MODULE MCActivationArena -------------------------
(***************************************************************************)
(* Small arenas for TLC: alignment 2 with sizes that do and do not need    *)
(* padding, a first slab of four bytes, room for two growths; plans of up   *)
(* to two steps.                                                           *)
(***************************************************************************)
EXTENDS ArenaEstimate, FiniteSetsExt, SequencesExt

SmallPlans == BoundedSeq({0, 1, 3}, 2)

LiveBytes == MapThenSumSet(LAMBDA v : v.len, live)

\* peak_bytes is at least the bytes that are live at any moment, as "peak
\* bytes used across all forward passes" says.
PeakCoversLive == peakBytes >= LiveBytes
=============================================================================
