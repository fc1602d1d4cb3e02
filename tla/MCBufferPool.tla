---------------------------- MODULE MCBufferPool ----------------------------
(* Three size classes a factor of 4 apart, as in the code; requests at     *)
(* and next to every boundary, and one that is oversized.                  *)
EXTENDS BufferPool

Sizes == <<1, 4, 16>>
BoundaryRequests == {1, 2, 4, 5, 16, 17}
FewRequests == {1, 4, 17}
=============================================================================
