-------------------------- MODULE MCPipelineCache ---------------------------
(* Kernel sources: a and b are embedded in the binary and precompiled, b is *)
(* also specialized with function constants as bs, and c is only in source. *)
EXTENDS PipelineCache, TLC

ABC == {"a", "b", "c"}
Two == {"b", "bs"}
SomeOf(S) == [s \in S |-> s]
OwnHashTwo == SomeOf(Two)
SameHash == [s \in ABC |-> IF s = "a" THEN "a" ELSE "b"]
EntryABC == SomeOf(ABC)
EntryTwo == [s \in Two |-> "b"]
ThreadSymmetry == Permutations(Threads)
=============================================================================
