-------------------------- MODULE RegionAllocator --------------------------
(***************************************************************************)
(* What an arena promises its clients, with no bump pointer, slab or       *)
(* checkpoint in sight: a region handed out shares no byte with a region   *)
(* the client may still use, and regions go away only in groups, when the  *)
(* client gives them up.                                                   *)
(***************************************************************************)
EXTENDS Naturals

VARIABLE live     \* the regions handed out and not given up

\* Regions are [id, slab, start, len] records; two regions of one slab are
\* disjoint when one ends where, or before, the other starts.
Disjoint(u, v) ==
  \/ u.slab # v.slab
  \/ u.start + u.len <= v.start
  \/ v.start + v.len <= u.start

Init == live = {}

Allocate ==
  \E v \in live' \ live :
    /\ live' = live \cup {v}
    /\ \A u \in live : Disjoint(u, v)

Release == live' \subseteq live

Next == Allocate \/ Release

Spec == Init /\ [][Next]_live

\* No two live regions share a byte.
Exclusive == \A u, v \in live : u # v => Disjoint(u, v)
=============================================================================
