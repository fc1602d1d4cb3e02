------------------------------ MODULE Decoding ------------------------------
(***************************************************************************)
(* Text generation over a KvCache: decode_generate (decode_loop.rs) and     *)
(* greedy_decode_with_verification (mtp_speculative.rs).  A forward pass    *)
(* appends its input to the layers one after the other and may fail at each *)
(* of them or after the last; a call that failed returns and leaves the     *)
(* cache as it is.                                                          *)
(*                                                                         *)
(* A token is named by the call it belongs to and its place: <<c, k>> is    *)
(* the k-th token the decoder should output in call c, <<c, -i>> a token of *)
(* its prompt, <<c, 0>> a draft the verifier does not agree with.           *)
(***************************************************************************)
EXTENDS Integers, KvCache, FiniteSets

CONSTANTS PromptLen,     \* tokens of a prompt
          MaxSeqLen,     \* context window of DecodeContext
          MaxNewTokens,  \* max_new_tokens
          Heads,         \* drafts per round
          MaxCalls,      \* calls considered
          MaxFailures    \* failed passes considered

ASSUME DecodingAssumption ==
  /\ PromptLen \in Nat \ {0} /\ MaxSeqLen \in Nat /\ PromptLen <= MaxSeqLen
  /\ MaxNewTokens \in Nat \ {0}
  /\ Heads \in Nat /\ MaxCalls \in Nat /\ MaxFailures \in Nat

\* A missing buffer is told from one that holds tokens.
ASSUME NoBufferAssumption == None \notin Seq(Int \X Int)

VARIABLES cache,       \* layer -> buffers
          call,        \* number of the current or last call
          method,      \* which function it is
          phase,       \* idle, forward, predict, draft, spins
          input,       \* token ids of the forward pass
          next,        \* the next layer to append to
          generated,   \* number of tokens output
          outcome,     \* how the call ended: none, eos, length, error
          eosAt,       \* place of the end token, past the limit if there is none
          basis,       \* ghost: for each output token the contexts it was predicted from
          agreed,      \* ghost: output tokens up to the first rejected draft
          fresh,       \* ghost: the cache held nothing when the call began
          failures     \* ghost: failed passes so far

vars == <<cache, call, method, phase, input, next, generated, outcome, eosAt,
          basis, agreed, fresh, failures>>

Min2(a, b) == IF a < b THEN a ELSE b

Prompt(c) == [i \in 1..PromptLen |-> <<c, -i>>]
Output(c, n) == [k \in 1..n |-> <<c, k>>]

\* The tokens after which the (n+1)-th output token stands.
Context(n) == Prompt(call) \o Output(call, n)

Init ==
  /\ cache = [l \in Layers |-> EmptyLayer]
  /\ call = 0
  /\ method = "decode_generate"
  /\ phase = "idle"
  /\ input = <<>>
  /\ next = 1
  /\ generated = 0
  /\ outcome = "none"
  /\ eosAt = MaxNewTokens + 1
  /\ basis = <<>>
  /\ agreed = MaxNewTokens
  /\ fresh = TRUE
  /\ failures = 0

\* Nothing is cached, and no half of a pair of buffers is missing.
Usable(layer) == layer.len = 0 /\ (layer.key = None <=> layer.value = None)

\* Both functions begin with a forward pass over the prompt; decode_generate
\* resets the cache first, greedy_decode_with_verification does not.
Start(m, emptied) ==
  /\ phase = "idle" /\ call < MaxCalls
  /\ call' = call + 1
  /\ method' = m
  /\ cache' = emptied
  /\ fresh' = \A l \in Layers : Usable(emptied[l])
  /\ phase' = "forward"
  /\ input' = Prompt(call')
  /\ next' = 1
  /\ generated' = 0
  /\ outcome' = "none"
  /\ eosAt' \in 1..(MaxNewTokens + 1)
  /\ basis' = <<>>
  /\ agreed' = MaxNewTokens
  /\ UNCHANGED failures

PrefillClearing(layer) == Clear(layer)
Prefill(layer) == Reset(layer)

StartDecodeGenerate ==
  Start("decode_generate", [l \in Layers |-> Prefill(cache[l])])

StartSpeculative == Start("speculative", cache)

\* The caller clears or resets the cache between calls.
CallerEmpties(emptied) ==
  /\ phase = "idle"
  /\ cache' = emptied
  /\ outcome' = "none"
  /\ UNCHANGED <<call, method, phase, input, next, generated, eosAt, basis,
                 agreed, fresh, failures>>

CallerClears == CallerEmpties([l \in Layers |-> Clear(cache[l])])
CallerResets == CallerEmpties([l \in Layers |-> Reset(cache[l])])

\* One layer of the model's forward pass.
ForwardLayer ==
  /\ phase = "forward"
  /\ \E o \in AppendOutcomes(cache[next], input) :
       /\ cache' = [cache EXCEPT ![next] = o.layer]
       /\ \/ /\ o.result = "ok"
             /\ phase' = IF next = NumLayers THEN "predict" ELSE phase
             /\ next' = IF next = NumLayers THEN 1 ELSE next + 1
             /\ UNCHANGED <<outcome, failures>>
          \/ /\ o.result = "error" /\ failures < MaxFailures
             /\ phase' = "idle" /\ outcome' = "error"
             /\ next' = 1 /\ failures' = failures + 1
          \/ /\ o.result = "spins"
             /\ phase' = "spins" /\ UNCHANGED <<next, outcome, failures>>
  /\ UNCHANGED <<call, method, input, generated, eosAt, basis, agreed, fresh>>

\* The pass fails behind the last layer, or the sampler or the draft head does.
PassFails ==
  /\ phase \in {"predict", "draft"} /\ failures < MaxFailures
  /\ phase' = "idle" /\ outcome' = "error" /\ failures' = failures + 1
  /\ UNCHANGED <<cache, call, method, input, next, generated, eosAt, basis,
                 agreed, fresh>>

\* What the i-th token of the last input attended to, in all layers.
Attended(i) ==
  LET upTo(s) == SubSeq(s, 1, Len(s) - Len(input) + i)
  IN  {upTo(Keys(cache[l])) : l \in Layers} \union {upTo(Values(cache[l])) : l \in Layers}

\* The first n predictions of the last pass are output.
Emit(n) ==
  /\ generated' = generated + n
  /\ basis' = basis \o [i \in 1..n |-> Attended(i)]

Return ==
  /\ phase' = "idle"
  /\ outcome' = IF generated' = eosAt THEN "eos" ELSE "length"
  /\ UNCHANGED input

ContinueWith(tokens) ==
  /\ phase' = "forward"
  /\ input' = tokens
  /\ UNCHANGED outcome

Ends == generated' >= eosAt \/ generated' >= MaxNewTokens

\* decode_generate: the last prediction is sampled; one more step unless the
\* context window is full.
IsFullLate == SeqLen(cache) > MaxSeqLen
IsFull == SeqLen(cache) >= MaxSeqLen

SampleToken ==
  /\ phase = "predict" /\ method = "decode_generate"
  /\ generated' = generated + 1
  /\ basis' = Append(basis, Attended(Len(input)))
  /\ IF Ends \/ IsFull THEN Return ELSE ContinueWith(<<<<call, generated'>>>>)
  /\ UNCHANGED <<cache, call, method, next, eosAt, agreed, fresh, failures>>

\* greedy_decode_with_verification: the first token after the prompt.
FirstToken ==
  /\ phase = "predict" /\ method = "speculative" /\ generated = 0
  /\ generated' = 1
  /\ basis' = <<Attended(Len(input))>>
  /\ IF Ends THEN Return
     ELSE phase' = "draft" /\ UNCHANGED <<input, outcome>>
  /\ UNCHANGED <<cache, call, method, next, eosAt, agreed, fresh, failures>>

NumDraft == Min2(Heads, MaxNewTokens - generated)

\* The drafts: the verifier will agree with the first n of them.
DraftTokens ==
  /\ phase = "draft"
  /\ \E n \in 0..NumDraft :
       /\ generated + n <= eosAt
       /\ ContinueWith(<<<<call, generated>>>> \o
            [i \in 1..NumDraft |-> <<call, IF i <= n THEN generated + i ELSE 0>>])
  /\ UNCHANGED <<cache, call, method, next, generated, eosAt, basis, agreed,
                 fresh, failures>>

\* verify_draft_tokens: the longest prefix the verifier agrees with.
AcceptedOffByOne ==
  Min2(Cardinality({i \in 2..Len(input) : input[i][2] # 0}) + 1, Len(input) - 1)

Accepted == Cardinality({i \in 2..Len(input) : input[i][2] # 0})

\* The accepted drafts, then, unless that ends the output, one prediction of
\* the verifier: the fallback at the rejected draft, or the bonus token.
Verify ==
  /\ phase = "predict" /\ method = "speculative" /\ generated > 0
  /\ LET limit == generated + Accepted >= Min2(eosAt, MaxNewTokens)
     IN  /\ Emit(IF limit THEN Accepted ELSE Accepted + 1)
         /\ agreed' = IF ~limit /\ Accepted + 1 < Len(input) THEN Min2(agreed, generated')
                      ELSE agreed
         /\ IF Ends THEN Return ELSE phase' = "draft" /\ UNCHANGED <<input, outcome>>
  /\ UNCHANGED <<cache, call, method, next, eosAt, fresh, failures>>

Next ==
  \/ StartDecodeGenerate \/ StartSpeculative \/ CallerClears \/ CallerResets
  \/ ForwardLayer \/ PassFails \/ SampleToken \/ FirstToken \/ DraftTokens \/ Verify

Spec == Init /\ [][Next]_vars

\* A call runs on one thread, every operation of which returns.
Work == ForwardLayer \/ PassFails \/ SampleToken \/ FirstToken \/ DraftTokens \/ Verify

FairSpec == Spec /\ WF_vars(Work)
-----------------------------------------------------------------------------
\* Every output token is predicted, in every layer, from the keys and values
\* of exactly the prompt and the tokens output before it: for any call whose
\* cache was empty, up to the verifier's answer to the first rejected draft.
\* (Rejected drafts stay in the cache, so later tokens are predicted from
\* them as well.)
PredictedFromOutput ==
  fresh => \A k \in 1..generated :
             k <= agreed => basis[k] = {Context(k - 1)}

\* The same of every output token.
AlwaysPredictedFromOutput ==
  fresh => \A k \in 1..generated : basis[k] = {Context(k - 1)}

\* No draft that was not output is in the cache: none was rejected, and none
\* stood behind the end token.
NoDraftLeft == agreed = MaxNewTokens /\ Accepted + 1 = Len(input)

\* A call on an empty cache that returned without error and left no draft
\* leaves every layer, keys and values alike, holding the prompt and
\* the output; the last output token is missing unless it was a draft.
CacheInStep ==
  fresh /\ outcome \in {"eos", "length"} /\ NoDraftLeft =>
    \E n \in {generated - 1} \union (IF method = "speculative" THEN {generated} ELSE {}) :
      \A l \in Layers : Keys(cache[l]) = Context(n) /\ Values(cache[l]) = Context(n)

\* decode_generate never fills a layer beyond the context window, whatever
\* was in the cache before and whichever append fails.
FitsContext ==
  method = "decode_generate" =>
    \A l \in Layers : call > 0 => cache[l].len <= MaxSeqLen

\* A call of decode_generate returns, even on a cache in which an append of
\* an earlier call has failed half-way.
DecodeReturns ==
  phase # "idle" /\ method = "decode_generate" ~> phase = "idle"

\* The same of both functions.
CallReturns == phase # "idle" ~> phase = "idle"
=============================================================================
