---------------------------- MODULE TokenStore ----------------------------
(***************************************************************************)
(* What a key/value cache for several sequences promises: each open         *)
(* sequence has, per layer, the list of the tokens appended to it, and no   *)
(* operation on one sequence or layer shows in another.                     *)
(***************************************************************************)
EXTENDS Sequences

CONSTANTS SeqIds, CacheLayers, Tokens, Absent

VARIABLE store     \* sequence -> Absent, or layer -> list of tokens

StoreInit == store = [s \in SeqIds |-> Absent]

Open(s) ==
  /\ store[s] = Absent
  /\ store' = [store EXCEPT ![s] = [l \in CacheLayers |-> <<>>]]

Close(s) ==
  /\ store[s] # Absent
  /\ store' = [store EXCEPT ![s] = Absent]

AppendToken(s, l, t) ==
  /\ store[s] # Absent
  /\ store' = [store EXCEPT ![s][l] = Append(@, t)]

StoreNext ==
  \E s \in SeqIds :
    Open(s) \/ Close(s) \/ \E l \in CacheLayers, t \in Tokens : AppendToken(s, l, t)

StoreSpec == StoreInit /\ [][StoreNext]_store
=============================================================================
