-------------------------- MODULE CompletionNotice --------------------------
(***************************************************************************)
(* What a GpuFuture promises, with no mutex, flag or handler in sight:     *)
(* every callback it accepted is told, exactly once and not before the GPU *)
(* is done, how the GPU work ended.                                        *)
(***************************************************************************)
CONSTANT Callbacks

VARIABLES
  status,          \* "committed", "completed" or "error"
  accepted,        \* callbacks whose registration succeeded
  told             \* what each was told: "nothing", TRUE or FALSE

vars == <<status, accepted, told>>

Init ==
  /\ status = "committed"
  /\ accepted = {}
  /\ told = [c \in Callbacks |-> "nothing"]

Finish ==
  /\ status = "committed"
  /\ status' \in {"completed", "error"}
  /\ UNCHANGED <<accepted, told>>

Accept(c) ==
  /\ accepted' = accepted \cup {c}
  /\ UNCHANGED <<status, told>>

Tell(c) ==
  /\ c \in accepted /\ told[c] = "nothing" /\ status # "committed"
  /\ told' = [told EXCEPT ![c] =
                IF status = "completed" THEN "success" ELSE "failure"]
  /\ UNCHANGED <<status, accepted>>

Next == Finish \/ \E c \in Callbacks : Accept(c) \/ Tell(c)

Safety == Init /\ [][Next]_vars

\* Once the GPU is done, no accepted callback waits for ever.
Spec == Safety /\ \A c \in Callbacks : WF_vars(Tell(c))
=============================================================================
